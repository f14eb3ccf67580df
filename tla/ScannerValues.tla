--------------------------- MODULE ScannerValues ----------------------------
(***************************************************************************)
(* ScannerValue, the tagged union a query parameter lives in between       *)
(* DuckDB and ODBC: how it is made of a DuckDB value, what an execution    *)
(* turns it into once it knows the type the statement expects, and what    *)
(* SQLBindParameter tells the driver about it.                             *)
(*                                                                         *)
(* A DuckDB value is [type, n, width, scale]; n is an integer in the unit  *)
(* of its type: the number itself (without the decimal point), a year, a   *)
(* count of microseconds or nanoseconds, the number of a UUID, and of a    *)
(* text or a blob its length.  The width of a text is the number of        *)
(* characters in front of its first NUL, its length if it has none.        *)
(***************************************************************************)
EXTENDS DbmsQuirks, Hugeints

Signeds == {"TINYINT", "SMALLINT", "INTEGER", "BIGINT"}
Unsigneds == {"UTINYINT", "USMALLINT", "UINTEGER", "UBIGINT"}
Integrals == Signeds \cup Unsigneds
Floats == {"FLOAT", "DOUBLE"}
Timestamps == {"TIMESTAMP", "TIMESTAMP_TZ", "TIMESTAMP_NS"}

WideSqlTypes == {"WCHAR", "WVARCHAR", "WLONGVARCHAR"}
CharacterSqlTypes == {"CHAR", "VARCHAR", "LONGVARCHAR"} \cup WideSqlTypes
IntegralSqlTypes == Signeds

(* The types ExtractNotNullParam has a case for; a NULL has no type.        *)
Extractable ==
  Integrals \cup Floats \cup Timestamps \cup
  {"BOOLEAN", "DECIMAL", "VARCHAR", "BLOB", "UUID", "DATE", "TIME", "SQLNULL"}

FixedSize == -2     (* len_bytes: the size of the member                    *)
NullLength == -1    (* len_bytes: SQL_NULL_DATA                             *)
WcharBytes == 2

(* The members of the union a parameter can be: AssignByType moves these.   *)
Tags ==
  Integrals \cup Floats \cup
  {"SQLNULL", "BOOLEAN", "DECIMAL", "DECIMAL_AS_CHARS", "VARCHAR", "BLOB",
   "UUID", "DATE", "TIME", "TIME_WITH_NANOS", "TIMESTAMP"}

Tagged(tag, val, len) ==
  [tag |-> tag, val |-> val, len |-> len, expected |-> "UNKNOWN"]

Scalar(tag, n) == Tagged(tag, [n |-> n], FixedSize)

(* The characters of a number.                                              *)
TextLength(n) == Len(TextOf(n).digits) + (IF n < 0 THEN 1 ELSE 0)
Chars(n) == Tagged("DECIMAL_AS_CHARS", [n |-> n], TextLength(n))

Decimal(h, width, scale, as_chars) ==
  IF as_chars THEN Chars(HugeintValue(h))
  ELSE Tagged("DECIMAL", NumericStruct(h, width, scale), FixedSize)

-----------------------------------------------------------------------------
(* ExtractNotNullParam, of an element of a vector or of a duckdb_value.     *)
ExtractDecimal(q, d, of_vector) ==
  Decimal(IF of_vector THEN DecimalOfVector(d.width, d.n) ELSE HugeintOf(d.n),
          d.width, d.scale, "decimal_params_as_chars" \in q.flags)

(* The text of a duckdb_value ends where strlen finds a NUL.                *)
ExtractVarchar(d, of_vector) ==
  LET chars == IF of_vector THEN d.n ELSE d.width
  IN  Tagged("VARCHAR", [n |-> chars], WcharBytes * chars)

ExtractBlob(d) == Tagged("BLOB", [n |-> d.n], d.n)

(* A duckdb_value gives a UUID as it is written, a vector as it is stored.  *)
StoredUuid(n) == Flip(HugeintOf(n))

ExtractUuid(d, of_vector) ==
  Tagged("UUID", Guid(IF of_vector THEN Flip(StoredUuid(d.n)) ELSE HugeintOf(d.n)),
         FixedSize)

ExtractTime(q, d) ==
  IF "time_params_as_ss_time2" \in q.flags
  THEN Tagged("TIME_WITH_NANOS", TimeParam(TRUE, d.n), FixedSize)
  ELSE Tagged("TIME", TimeParam(FALSE, d.n), FixedSize)

Extract(q, d, of_vector) ==
  CASE d.type \in Integrals \cup Floats \cup {"BOOLEAN"} -> Scalar(d.type, d.n)
    [] d.type = "DECIMAL" -> ExtractDecimal(q, d, of_vector)
    [] d.type = "VARCHAR" -> ExtractVarchar(d, of_vector)
    [] d.type = "BLOB" -> ExtractBlob(d)
    [] d.type = "UUID" -> ExtractUuid(d, of_vector)
    [] d.type = "DATE" -> Scalar("DATE", YearParam(d.n))
    [] d.type = "TIME" -> ExtractTime(q, d)
    [] d.type \in {"TIMESTAMP", "TIMESTAMP_TZ"} ->
         Tagged("TIMESTAMP", TimestampParam(q.fraction, d.n), FixedSize)
    [] d.type = "TIMESTAMP_NS" ->
         Tagged("TIMESTAMP", TimestampNsParam(q.fraction, d.n), FixedSize)
    [] d.type = "SQLNULL" -> Tagged("SQLNULL", [n |-> 0], NullLength)

-----------------------------------------------------------------------------
(* The digits of the DECIMAL an integral is made.                           *)
IntegralWidth(tag) ==
  CASE tag \in {"TINYINT", "UTINYINT"}   -> SmallDigits
    [] tag \in {"SMALLINT", "USMALLINT"} -> IntDigits
    [] tag \in {"INTEGER", "UINTEGER"}   -> BigDigits
    [] tag \in {"BIGINT", "UBIGINT"}     -> HugeDigits

(* An integral becomes a DECIMAL of scale 0.  Only the lower word is set:   *)
(* a negative number is not extended into the upper one.                    *)
TransformIntegralToDecimal(v) ==
  IF v.tag \in Integrals
  THEN Decimal([lower |-> v.val.n % M, upper |-> 0], IntegralWidth(v.tag), 0, FALSE)
  ELSE v

CoalesceParameterType(q, v) ==
  IF "integral_params_as_decimals" \in q.flags /\ "decimal_params_as_chars" \notin q.flags
  THEN TransformIntegralToDecimal(v)
  ELSE v

(* What the text says is the number, and its length replaces that of the    *)
(* member; the type that was expected stays.                                *)
TransformNumericToChars(v) == [Chars(v.val.n) EXCEPT !.expected = v.expected]

(* Not for a DECIMAL.                                                       *)
CoalesceNumericToChars(v) ==
  IF v.expected \in CharacterSqlTypes /\ v.tag \in Integrals \cup Floats
  THEN TransformNumericToChars(v)
  ELSE v

(* A type that was set is not set again, unless it was set to unknown.      *)
MaySetExpectedType(v) == v.expected = "UNKNOWN"

(* faulty variant: the text is made before the expected type is set         *)
SetExpectedType_TextFirst(q, v, expected) ==
  [CoalesceNumericToChars(CoalesceParameterType(q, v)) EXCEPT !.expected = expected]

(* The body of the loop of SetExpectedTypes.                                *)
SetExpectedType(q, v, expected) ==
  CoalesceNumericToChars([CoalesceParameterType(q, v) EXCEPT !.expected = expected])

-----------------------------------------------------------------------------
(* What SQLBindParameter is told, and what a driver that goes by it reads.  *)
Garbled == -9999999
Bound(ctype, sqltype, reads, len) ==
  [ctype |-> ctype, sqltype |-> sqltype, reads |-> reads, len |-> len,
   precision |-> 0, error |-> "none"]

Refused(reason) == [Bound("none", "UNKNOWN", Garbled, 0) EXCEPT !.error = reason]

SqlTypeOr(v, default) == IF v.expected = "UNKNOWN" THEN default ELSE v.expected

IntegralSQLType(v) ==
  IF v.expected \in IntegralSqlTypes THEN v.expected
  ELSE CASE v.tag \in {"TINYINT", "UTINYINT"}   -> "TINYINT"
         [] v.tag \in {"SMALLINT", "USMALLINT"} -> "SMALLINT"
         [] v.tag \in {"INTEGER", "UINTEGER"}   -> "INTEGER"
         [] v.tag \in {"BIGINT", "UBIGINT"}     -> "BIGINT"

BindNull(v) == Bound("DEFAULT", v.expected, 0, v.len)
BindBoolean(v) == Bound("BIT", SqlTypeOr(v, "BIT"), v.val.n, v.len)
BindIntegral(v) == Bound(v.tag, IntegralSQLType(v), v.val.n, v.len)
BindFloat(v) == Bound(v.tag, SqlTypeOr(v, v.tag), v.val.n, v.len)

BindNumeric(v) ==
  [Bound("NUMERIC", SqlTypeOr(v, "NUMERIC"), NumericMeaning(v.val), v.len)
     EXCEPT !.precision = v.val.precision]

(* faulty variant: the characters are widened, their length is not          *)
BindChars_NarrowLength(v) ==
  IF v.expected \in WideSqlTypes
  THEN Bound("WCHAR", v.expected,
             IF v.len = WcharBytes * TextLength(v.val.n) THEN v.val.n ELSE Garbled, v.len)
  ELSE Bound("CHAR", IF v.expected \in CharacterSqlTypes THEN v.expected ELSE "VARCHAR",
             IF v.len = TextLength(v.val.n) THEN v.val.n ELSE Garbled, v.len)

(* BindOdbcParam<DecimalChars>: the characters, widened for a wide type.    *)
(* The driver reads as many bytes as len_bytes says.                        *)
BindChars(v) ==
  IF v.expected \in WideSqlTypes
  THEN Bound("WCHAR", v.expected, v.val.n, WcharBytes * TextLength(v.val.n))
  ELSE Bound("CHAR", IF v.expected \in CharacterSqlTypes THEN v.expected ELSE "VARCHAR",
             IF v.len = TextLength(v.val.n) THEN v.val.n ELSE Garbled, v.len)

(* A text or a blob over the threshold is bound as a long type.             *)
BindVarchar(q, v) ==
  Bound("WCHAR", IF v.len > q.threshold THEN "WLONGVARCHAR" ELSE "WVARCHAR",
        v.len \div WcharBytes, v.len)

BindBlob(q, v) ==
  Bound("BINARY", IF v.len > q.threshold THEN "LONGVARBINARY" ELSE "VARBINARY",
        v.len, v.len)

BindUuid(v) == Bound("GUID", "GUID", GuidMeaning(v.val), v.len)
BindDate(v) == Bound("TYPE_DATE", "TYPE_DATE", v.val.n, v.len)

(* Value<T> throws when the tag is not that of the member.                  *)
HasMember(v, member) == v.tag = member

(* BindOdbcParam<duckdb_time_struct>: the quirk, not the tag, says which    *)
(* member to take.                                                          *)
BindTime(q, v) ==
  LET with_nanos == "time_params_as_ss_time2" \in q.flags
      member == IF with_nanos THEN "TIME_WITH_NANOS" ELSE "TIME"
  IN  IF ~HasMember(v, member) THEN Refused("mistyped")
      ELSE Bound(IF with_nanos THEN "BINARY" ELSE "TYPE_TIME",
                 IF with_nanos THEN "SS_TIME2" ELSE "TYPE_TIME",
                 StructNanos(v.val), v.len)

BindTimestamp(q, v) ==
  Bound("TYPE_TIMESTAMP",
        IF "timestamp_params_as_sf_timestamp_ntz" \in q.flags
        THEN "SF_TIMESTAMP_NTZ" ELSE "TYPE_TIMESTAMP",
        StructNanos(v.val), v.len)

BindOdbcParam(q, v) ==
  CASE v.tag = "SQLNULL"                     -> BindNull(v)
    [] v.tag = "BOOLEAN"                     -> BindBoolean(v)
    [] v.tag \in Integrals                   -> BindIntegral(v)
    [] v.tag \in Floats                      -> BindFloat(v)
    [] v.tag = "DECIMAL"                     -> BindNumeric(v)
    [] v.tag = "DECIMAL_AS_CHARS"            -> BindChars(v)
    [] v.tag = "VARCHAR"                     -> BindVarchar(q, v)
    [] v.tag = "BLOB"                        -> BindBlob(q, v)
    [] v.tag = "UUID"                        -> BindUuid(v)
    [] v.tag = "DATE"                        -> BindDate(v)
    [] v.tag \in {"TIME", "TIME_WITH_NANOS"} -> BindTime(q, v)
    [] v.tag = "TIMESTAMP"                   -> BindTimestamp(q, v)
=============================================================================
