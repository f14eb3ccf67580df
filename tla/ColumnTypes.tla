----------------------------- MODULE ColumnTypes ----------------------------
(***************************************************************************)
(* A result column between ODBC and DuckDB: the type its description is    *)
(* resolved to, the buffer bound to it, and what is written into the       *)
(* vector for a value fetched.                                             *)
(*                                                                         *)
(* A column is [type, name, dated, unsigned, precision, scale]: its        *)
(* concise type, whether the type name is the one a coalescing asks for,   *)
(* whether its type is SQL_DATE, and the attributes of its numbers.  A     *)
(* value the driver has for it is [n, offset, null]; n counts nanoseconds  *)
(* where the value is a time, and the offset of its time zone seconds.     *)
(***************************************************************************)
EXTENDS ScannerValues

Decimals == {"DECIMAL", "NUMERIC"}

(* faulty variant: the precision is taken as the driver reports it          *)
Described_AsReported(column) ==
  IF column.type \notin Decimals
  THEN [column EXCEPT !.precision = 0, !.scale = 0]
  ELSE [column EXCEPT !.scale = Least(column.scale, column.precision)]

(* GetTypeAttributes: a precision out of range is the largest, a scale is   *)
(* at most the precision; a negative scale is refused.                      *)
Described(column) ==
  LET precision == IF column.precision \in 1 .. HugeDigits
                   THEN column.precision ELSE HugeDigits
  IN  IF column.type \notin Decimals
      THEN [column EXCEPT !.precision = 0, !.scale = 0]
      ELSE [column EXCEPT !.precision = precision,
                          !.scale = Least(column.scale, precision)]

(* The types DB2 has for large objects, and Oracle's DATE, which has a time *)
CoalesceColumnType(q, column) ==
  CASE column.type = "DB2_BLOB" /\ column.name -> [column EXCEPT !.type = "LONGVARBINARY"]
    [] column.type = "DB2_CLOB" /\ column.name -> [column EXCEPT !.type = "LONGVARCHAR"]
    [] column.type = "DB2_DBCLOB" /\ column.name -> [column EXCEPT !.type = "WLONGVARCHAR"]
    [] /\ column.type = "TYPE_TIMESTAMP" /\ column.name /\ column.dated
       /\ "timestamp_columns_with_typename_date_as_date" \in q.flags ->
         [column EXCEPT !.type = "TYPE_DATE"]
    [] OTHER -> column

UnsignedOf(type) ==
  CASE type = "TINYINT"  -> "UTINYINT"
    [] type = "SMALLINT" -> "USMALLINT"
    [] type = "INTEGER"  -> "UINTEGER"
    [] type = "BIGINT"   -> "UBIGINT"

(* The cases of the switches on the concise type: the specialisation, named *)
(* after the DuckDB type.                                                   *)
Specialisation(column) ==
  CASE column.type = "BIT" -> "BOOLEAN"
    [] column.type \in Signeds ->
         IF column.unsigned THEN UnsignedOf(column.type) ELSE column.type
    [] column.type = "REAL" -> "FLOAT"
    [] column.type \in {"DOUBLE", "FLOAT"} -> "DOUBLE"
    [] column.type \in Decimals -> "DECIMAL"
    [] column.type \in CharacterSqlTypes -> "VARCHAR"
    [] column.type \in {"BINARY", "VARBINARY", "LONGVARBINARY"} -> "BLOB"
    [] column.type = "GUID" -> "UUID"
    [] column.type = "TYPE_DATE" -> "DATE"
    [] column.type \in {"TYPE_TIME", "SS_TIME2"} -> "TIME"
    [] column.type \in {"TYPE_TIMESTAMP", "SS_TIMESTAMPOFFSET"} -> "TIMESTAMP"
    [] OTHER -> "none"

(* faulty variant: the quirk is asked before the type with an offset        *)
ResolveTimestamp_QuirkFirst(q, column) ==
  IF "timestamp_columns_as_timestamp_ns" \in q.flags THEN "TIMESTAMP_NS"
  ELSE IF column.type = "SS_TIMESTAMPOFFSET" THEN "TIMESTAMP_TZ"
  ELSE "TIMESTAMP"

(* ResolveColumnType<duckdb_timestamp_struct>                               *)
ResolveTimestamp(q, column) ==
  IF column.type = "SS_TIMESTAMPOFFSET" THEN "TIMESTAMP_TZ"
  ELSE IF "timestamp_columns_as_timestamp_ns" \in q.flags THEN "TIMESTAMP_NS"
  ELSE "TIMESTAMP"

ResolveColumnType(q, column) ==
  IF Specialisation(column) = "TIMESTAMP"
  THEN ResolveTimestamp(q, column)
  ELSE Specialisation(column)

(* What the vector keeps an element in, for the type AddToResults declared  *)
(* the column with; DuckDB's part is external.                              *)
ElementType(resolved, precision) ==
  CASE resolved = "DECIMAL" -> InternalType(precision)
    [] resolved \in {"TIMESTAMP", "TIMESTAMP_TZ"} -> "MICROS"
    [] resolved = "TIMESTAMP_NS" -> "NANOS"
    [] OTHER -> resolved

-----------------------------------------------------------------------------
(* The members of the buffer the specialisations of BindColumn bind.        *)
BooleanMember == "SQL_BIT"
UuidMember == "SQL_GUID"
TimeMember(column) == IF column.type = "SS_TIME2" THEN "TIME_WITH_NANOS" ELSE "TIME"

TimestampMember(column) ==
  IF column.type = "SS_TIMESTAMPOFFSET" THEN "SS_TIMESTAMPOFFSET" ELSE "TIMESTAMP"

Member(column) ==
  LET class == Specialisation(column)
  IN  CASE class \in {"VARCHAR", "BLOB", "none"} -> "none"
        [] class = "BOOLEAN"                     -> BooleanMember
        [] class = "UUID"                        -> UuidMember
        [] class = "TIME"                        -> TimeMember(column)
        [] class = "TIMESTAMP"                   -> TimestampMember(column)
        [] OTHER                                 -> class

AsChars(q, column) ==
  Specialisation(column) = "DECIMAL" /\ "decimal_columns_as_chars" \in q.flags

(* The buffer of the column after BindColumn; a DECIMAL that is to be read  *)
(* as text has none.                                                        *)
BindColumn(q, column) ==
  IF "enable_columns_binding" \in q.flags /\ ~AsChars(q, column)
  THEN Member(column)
  ELSE "none"

(* faulty variant: a DECIMAL read as text is looked for in the buffer       *)
FetchMember_TextBound(q, column) ==
  IF "enable_columns_binding" \in q.flags THEN Member(column) ELSE "none"

(* The member FetchAndSetResult takes out of the bound buffer; where there  *)
(* is none it calls SQLGetData.                                             *)
FetchMember(q, column) ==
  IF AsChars(q, column) THEN "none"
  ELSE IF "enable_columns_binding" \in q.flags THEN Member(column)
  ELSE "none"

-----------------------------------------------------------------------------
(* What the driver puts into the structs, external: local time where there  *)
(* is an offset, the whole second where there is no fraction.               *)
DriverStruct(nanos) == Struct(nanos \div NanosPerSecond, nanos % NanosPerSecond)

DriverNumeric(n) ==
  [precision |-> HugeDigits, scale |-> 0, sign |-> IF n < 0 THEN 0 ELSE 1,
   magnitude |-> [lower |-> Abs(n) % M, upper |-> Abs(n) \div M]]

Written(unit, n) == [unit |-> unit, n |-> n]

FetchDecimal(q, column, n) ==
  LET unit == SetResultType(column.precision)
      h    == IF AsChars(q, column) THEN TextToHugeint(TextOf(n))
              ELSE FetchNumeric(DriverNumeric(n))
  IN  Written(unit, SetResultValue(unit, h))

FetchBoolean(n) == Written("BOOLEAN", IF n = 1 THEN 1 ELSE 0)
FetchInteger(class, n) == Written(class, n)
FetchFloat(class, n) == Written(class, n)
FetchDate(n) == Written("DATE", n)
FetchUuid(n) == Written("UUID", Unsigned(Flip(FetchGuid(Guid(HugeintOf(n))))))

(* FetchAndSetResultTime and FetchAndSetResultSSTime2                       *)
FetchTime(column, n) ==
  Written("TIME",
    IF column.type = "SS_TIME2"
    THEN FetchMicros(DriverStruct(n))
    ELSE FetchMicros([DriverStruct(n) EXCEPT !.fraction = 0]))

FetchSSTimestampOffset(datum) ==
  Written("MICROS",
    FetchOffset(DriverStruct(datum.n + datum.offset * NanosPerSecond), datum.offset))

FetchTimestamp(q, n) ==
  IF "timestamp_columns_as_timestamp_ns" \in q.flags
  THEN Written("NANOS", FetchNanos(DriverStruct(n)))
  ELSE Written("MICROS", FetchMicros(DriverStruct(n)))

(* FetchAndSetResult, of a datum that is not NULL: what is written, and the *)
(* type of the element it is written as.                                    *)
FetchAndSetResult(q, column, datum) ==
  LET class == Specialisation(column)
  IN  CASE class = "DECIMAL"   -> FetchDecimal(q, column, datum.n)
        [] class = "BOOLEAN"   -> FetchBoolean(datum.n)
        [] class \in Integrals -> FetchInteger(class, datum.n)
        [] class \in Floats    -> FetchFloat(class, datum.n)
        [] class = "UUID"      -> FetchUuid(datum.n)
        [] class = "DATE"      -> FetchDate(datum.n)
        [] class = "TIME"      -> FetchTime(column, datum.n)
        [] class = "TIMESTAMP" ->
             IF column.type = "SS_TIMESTAMPOFFSET"
             THEN FetchSSTimestampOffset(datum)
             ELSE FetchTimestamp(q, datum.n)
        [] class \in {"VARCHAR", "BLOB"} -> Written(class, datum.n)
=============================================================================
