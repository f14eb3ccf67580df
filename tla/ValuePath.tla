------------------------------ MODULE ValuePath ------------------------------
(***************************************************************************)
(* One value on its way through the scanner: a query parameter out of      *)
(* DuckDB, bound to a statement that selects it back, and the value of the *)
(* result column into a vector of DuckDB.  The parameter comes with the    *)
(* query ("row", option params), through a handle filled by                *)
(* odbc_bind_params before ("handle", option params_handle), or from a row *)
(* of odbc_copy ("copy", which has no result).                             *)
(*                                                                         *)
(* A statement run again binds what is left of the value after the first   *)
(* run: the same bind data for a row, a new query for a handle.            *)
(***************************************************************************)
EXTENDS ColumnTypes

CONSTANTS
  Settings,     (* [dbms, user]: connections with the options of a query    *)
  Values,       (* the DuckDB values                                        *)
  TinyWord,     (* 2^8: the values of a TINYINT                             *)
  YearSeconds,  (* seconds of a year, all of one length                     *)
  Offset        (* a time zone, in seconds                                  *)

(* The numbers of an integral type: an ODBC type with or without a sign.    *)
SqlValues(type) ==
  CASE type = "TINYINT" -> TinyWord [] type = "SMALLINT" -> SmallWord
    [] type = "INTEGER" -> IntWord  [] type = "BIGINT" -> M

SqlRange(type, unsigned) ==
  IF unsigned THEN 0 .. SqlValues(type) - 1
  ELSE -(SqlValues(type) \div 2) .. SqlValues(type) \div 2 - 1

SignedOf(type) == CHOOSE t \in Signeds : t = type \/ UnsignedOf(t) = type

(* What DuckDB has as values, external.                                     *)
DuckValue(d) ==
  /\ d.n \in Int
  /\ d.type \in Integrals => d.n \in SqlRange(SignedOf(d.type), d.type \in Unsigneds)
  /\ d.type = "BOOLEAN" => d.n \in {0, 1}
  /\ d.type = "DECIMAL" =>
       /\ d.width \in 1 .. HugeDigits /\ d.scale \in 0 .. d.width
       /\ Abs(d.n) < Power10(d.width)
  /\ d.type = "VARCHAR" => d.n \in Nat /\ d.width \in 0 .. d.n
  /\ d.type \in {"BLOB", "TIME"} => d.n \in Nat
  /\ d.type = "UUID" => d.n \in 0 .. M * M - 1
  /\ d.type = "SQLNULL" => d.n = 0

(* The DECIMAL an integral is made has digits enough for it.                *)
ASSUME PathAssumption ==
  /\ \A s \in Settings : s.dbms \in Dbms /\ s.user \in Options
  /\ \A d \in Values : DuckValue(d)
  /\ {TinyWord, YearSeconds, Offset} \subseteq Nat
  /\ TinyWord <= Power10(SmallDigits) /\ SmallWord <= Power10(IntDigits)
  /\ IntWord <= Power10(BigDigits) /\ M <= Power10(HugeDigits)

MaxRuns == 2

VARIABLES
  setting,    (* the connection and the options of the query                *)
  source,     (* where the parameter comes from                             *)
  given,      (* the value DuckDB hands over                                *)
  expects,    (* the type SQLDescribeParam reports for the parameter        *)
  value,      (* the ScannerValue                                           *)
  bound,      (* what the driver has been told about it                     *)
  column,     (* the column of the result                                   *)
  declared,   (* what the vector for it keeps its elements in               *)
  member,     (* the buffer bound to the column                             *)
  datum,      (* what the driver has for it                                 *)
  stored,     (* the element written into the vector                        *)
  pc,         (* the next step                                              *)
  error,      (* why the call threw                                         *)
  run         (* the run of the statement                                   *)

vars == <<setting, source, given, expects, value, bound, column, declared,
          member, datum, stored, pc, error, run>>

Nothing == Written("nothing", 0)
NoValue == Tagged("SQLNULL", [n |-> 0], NullLength)
NullWritten == Written("null", 0)

-----------------------------------------------------------------------------
(* The driver and its database, external: the types it may expect of a      *)
(* parameter, the columns it may return it in, and what it makes of it.     *)
Expectable(d) ==
  {"UNKNOWN", "WVARCHAR"} \cup
  IF d.type \in Integrals \cup Floats \cup {"DECIMAL"} THEN {"BIGINT", "VARCHAR"} ELSE {}

Column(type) ==
  [type |-> type, name |-> TRUE, dated |-> FALSE, unsigned |-> FALSE,
   precision |-> 0, scale |-> 0]

Numeric(precision, scale) ==
  [Column("NUMERIC") EXCEPT !.precision = precision, !.scale = scale]

Echoes(dbms, d) ==
  CASE d.type \in Integrals ->
         {[Column(SignedOf(d.type)) EXCEPT !.unsigned = d.type \in Unsigneds],
          Numeric(IntegralWidth(d.type), 0), Numeric(0, 0)}
    [] d.type = "FLOAT" -> {Column("REAL")}
    [] d.type = "DOUBLE" -> {Column("DOUBLE"), Column("FLOAT")}
    [] d.type = "BOOLEAN" -> {Column("BIT")}
    [] d.type = "DECIMAL" ->
         {Numeric(p, s) : p \in {d.width, 0}, s \in {d.scale, -1}}
    [] d.type = "VARCHAR" ->
         {Column("VARCHAR"), Column("WVARCHAR")} \cup
         IF dbms = "DB2"
         THEN {[Column(t) EXCEPT !.name = b] : t \in {"DB2_CLOB", "DB2_DBCLOB"}, b \in BOOLEAN}
         ELSE {}
    [] d.type = "BLOB" ->
         {Column("VARBINARY")} \cup IF dbms = "DB2" THEN {Column("DB2_BLOB")} ELSE {}
    [] d.type = "UUID" -> {Column("GUID")}
    [] d.type = "DATE" ->
         {IF dbms = "ORACLE" THEN [Column("TYPE_TIMESTAMP") EXCEPT !.dated = TRUE]
          ELSE Column("TYPE_DATE")}
    [] d.type = "TIME" ->
         {Column("TYPE_TIME")} \cup IF dbms = "MSSQL" THEN {Column("SS_TIME2")} ELSE {}
    [] d.type \in Timestamps ->
         {Column("TYPE_TIMESTAMP")} \cup
         IF dbms = "MSSQL" THEN {Column("SS_TIMESTAMPOFFSET")} ELSE {}
    [] OTHER -> {Column("INTEGER"), Column("INTERVAL")}

Holds(c, n) ==
  CASE c.type \in Signeds -> n \in SqlRange(c.type, c.unsigned)
    [] c.type \in Decimals -> Abs(n) < Power10(c.precision)
    [] OTHER -> TRUE

(* A day returned as a timestamp begins at midnight.                        *)
Answer(c, d, n) ==
  IF d.type = "DATE" /\ Specialisation(c) = "TIMESTAMP"
  THEN n * YearSeconds * NanosPerSecond
  ELSE n

-----------------------------------------------------------------------------
QueryQuirks == Quirks(setting.dbms, setting.user)

(* Options are not supported in odbc_bind_params.                           *)
ExtractQuirks ==
  IF source = "handle" THEN Quirks(setting.dbms, NoOptions) ELSE QueryQuirks

Init ==
  /\ setting \in Settings
  /\ source \in {"row", "handle", "copy"}
  /\ given \in Values
  /\ expects \in Expectable(given)
  /\ column \in IF source = "copy" THEN {Column("none")} ELSE Echoes(setting.dbms, given)
  /\ value = NoValue
  /\ bound = Refused("unbound")
  /\ declared = "none"
  /\ member = "none"
  /\ datum = [n |-> 0, offset |-> 0, null |-> FALSE]
  /\ stored = Nothing
  /\ pc = IF source = "handle" THEN "extract" ELSE "options"
  /\ error = "none"
  /\ run = 1

Throw(reason) == pc' = "thrown" /\ error' = reason

(* The next step, for each source.                                          *)
Goto(step) == pc' = step[source] /\ UNCHANGED error

Statement == <<setting, source, given, expects, run>>

(* The constructor of DbmsQuirks refuses an option out of range.            *)
ReadOptions ==
  /\ pc = "options"
  /\ IF Accepted(setting.user)
     THEN Goto([row |-> "extract", handle |-> "collect", copy |-> "extract"])
     ELSE Throw("option")
  /\ UNCHANGED <<Statement, value, bound, column, declared, member, datum, stored>>

(* Params::Extract, of odbc_bind_params before there is a query, or the     *)
(* reading of a row in odbc_copy.                                           *)
ExtractParam ==
  /\ pc = "extract"
  /\ IF given.type \in Extractable
     THEN /\ value' = Extract(ExtractQuirks, given, source # "row")
          /\ Goto([row |-> "collect", handle |-> "options", copy |-> "expect"])
     ELSE /\ Throw("parameter type")
          /\ UNCHANGED value
  /\ UNCHANGED <<Statement, bound, column, declared, member, datum, stored>>

(* Columns::Collect                                                         *)
CollectColumn ==
  /\ pc = "collect"
  /\ IF column.type \in Decimals /\ column.scale < 0
     THEN Throw("negative scale") /\ UNCHANGED column
     ELSE /\ column' = Described(column)
          /\ Goto([row |-> "expect", handle |-> "declare", copy |-> "none"])
  /\ UNCHANGED <<Statement, value, bound, declared, member, datum, stored>>

(* Params::SetExpectedTypes: for the parameters of a query when it is       *)
(* bound, for those of a handle and of a copy when they are used.           *)
SetExpectedTypes ==
  /\ pc = "expect"
  /\ IF MaySetExpectedType(value)
     THEN /\ value' = SetExpectedType(QueryQuirks, value, expects)
          /\ Goto([row |-> "declare", handle |-> "bind", copy |-> "bind"])
     ELSE /\ Throw("expected again")
          /\ UNCHANGED value
  /\ UNCHANGED <<Statement, bound, column, declared, member, datum, stored>>

(* CoalesceColumnType, ResolveColumnType and AddToResults.                  *)
DeclareColumn ==
  /\ pc = "declare"
  /\ LET c == CoalesceColumnType(QueryQuirks, column)
         resolved == ResolveColumnType(QueryQuirks, c)
     IN  IF resolved = "none"
         THEN Throw("column type") /\ UNCHANGED <<column, declared>>
         ELSE /\ column' = c
              /\ declared' = ElementType(resolved, c.precision)
              /\ Goto([row |-> "bind", handle |-> "expect", copy |-> "none"])
  /\ UNCHANGED <<Statement, value, bound, member, datum, stored>>

(* Params::BindToOdbc; the length of the characters may have been set.      *)
BindParam ==
  /\ pc = "bind"
  /\ LET b == BindOdbcParam(QueryQuirks, value)
     IN  IF b.error # "none"
         THEN Throw(b.error) /\ UNCHANGED <<value, bound>>
         ELSE /\ bound' = b
              /\ value' = [value EXCEPT !.len = b.len]
              /\ Goto([row |-> "execute", handle |-> "execute", copy |-> "done"])
  /\ UNCHANGED <<Statement, column, declared, member, datum, stored>>

(* SQLExecute and SQLFetch of a statement that returns its parameter, as    *)
(* far as its column holds it.                                              *)
Execute ==
  /\ pc = "execute"
  /\ Holds(column, bound.reads)
  /\ \E offset \in {0, Offset} :
       datum' = [n      |-> Answer(column, given, bound.reads),
                 offset |-> IF column.type = "SS_TIMESTAMPOFFSET" THEN offset ELSE 0,
                 null   |-> given.type = "SQLNULL"]
  /\ member' = BindColumn(QueryQuirks, column)
  /\ pc' = "fetch"
  /\ UNCHANGED <<Statement, value, bound, column, declared, stored, error>>

(* Types::FetchAndSetResult; Value<T> throws when the buffer bound to the   *)
(* column is not of the type it is read as.                                 *)
FetchResult ==
  /\ pc = "fetch"
  /\ LET read == FetchMember(QueryQuirks, column)
     IN  IF read # "none" /\ read # member
         THEN Throw("mistyped buffer") /\ UNCHANGED stored
         ELSE /\ stored' = IF datum.null THEN NullWritten
                           ELSE FetchAndSetResult(QueryQuirks, column, datum)
              /\ pc' = "done" /\ UNCHANGED error
  /\ UNCHANGED <<Statement, value, bound, column, declared, member, datum>>

(* Every call of the driver may fail, and throws.                           *)
DriverFails ==
  /\ pc \in {"collect", "bind", "execute", "fetch"}
  /\ Throw("driver")
  /\ UNCHANGED <<Statement, value, bound, column, declared, member, datum, stored>>

(* The statement, or another query with the handle, once more.              *)
Again ==
  /\ pc = "done" /\ source # "copy" /\ run < MaxRuns
  /\ run' = run + 1
  /\ pc' = IF source = "row" THEN "bind" ELSE "options"
  /\ stored' = Nothing
  /\ UNCHANGED <<setting, source, given, expects, value, bound, column, declared,
                 member, datum, error>>

Next ==
  \/ ReadOptions \/ ExtractParam \/ CollectColumn \/ SetExpectedTypes
  \/ DeclareColumn \/ BindParam \/ Execute \/ FetchResult \/ DriverFails \/ Again

Spec == Init /\ [][Next]_vars

-----------------------------------------------------------------------------
Steps == {"options", "extract", "collect", "expect", "declare", "bind",
          "execute", "fetch", "done", "thrown"}

Errors == {"none", "option", "parameter type", "negative scale", "expected again",
           "column type", "mistyped", "mistyped buffer", "driver"}

(* Types: a value is one of the members of the union, and the attributes of *)
(* a column that was declared are those of a type DuckDB has.               *)
TypeOK ==
  /\ setting \in Settings /\ given \in Values /\ expects \in Expectable(given)
  /\ source \in {"row", "handle", "copy"}
  /\ value.tag \in Tags /\ value.len \in Nat \cup {FixedSize, NullLength}
  /\ declared # "none" =>
       /\ Specialisation(column) # "none"
       /\ column.precision \in IF column.type \in Decimals THEN 1 .. HugeDigits ELSE {0}
       /\ column.scale \in 0 .. column.precision
  /\ pc \in Steps /\ error \in Errors /\ (pc = "thrown" <=> error # "none")
  /\ run \in 1 .. MaxRuns

IsBound == pc \in {"execute", "fetch", "done"}

(* The number a driver should read, times in nanoseconds.                   *)
Meant == IF given.type \in {"TIME", "TIMESTAMP", "TIMESTAMP_TZ"}
         THEN given.n * NanosPerMicro ELSE given.n

(* An integral that is made a DECIMAL for the driver.                       *)
MadeDecimal ==
  /\ given.type \in Integrals
  /\ "integral_params_as_decimals" \in QueryQuirks.flags
  /\ "decimal_params_as_chars" \notin QueryQuirks.flags

(* Less than a microsecond before a whole second before the epoch.          *)
JustBeforeSecond ==
  given.n < 0 /\ (-given.n) % NanosPerSecond \in 1 .. NanosPerMicro - 1

(* The precision told to the driver with a NUMERIC parameter is enough for  *)
(* its digits, whether it was a DECIMAL or an integral made one.            *)
EnoughDigits ==
  bound.ctype = "NUMERIC" /\ ~(MadeDecimal /\ given.n < 0) =>
    Abs(bound.reads) < Power10(bound.precision)

(* The driver reads the value DuckDB handed over, whatever it was turned    *)
(* into on the way, and is told digits enough for it, also when the         *)
(* statement is run again, but for six losses: the sign of a negative       *)
(* integral made a DECIMAL, a text of a row behind its first NUL, a year    *)
(* out of the range of the struct, the fraction of a TIME without SS_TIME2, *)
(* the digits of a fraction beyond the precision, and everything of a       *)
(* nanosecond timestamp that lies within a microsecond before a whole       *)
(* second before the epoch.                                                 *)
ParamArrives ==
  IsBound =>
    /\ EnoughDigits
    /\ CASE MadeDecimal /\ given.n < 0 -> bound.reads = given.n + M
         [] given.type = "VARCHAR" ->
              bound.reads = IF source = "row" THEN given.width ELSE given.n
         [] given.type = "DATE" ->
              given.n \in -(Years \div 2) .. Years \div 2 - 1 => bound.reads = given.n
         [] given.type = "TIME" ->
              bound.reads = IF "time_params_as_ss_time2" \in QueryQuirks.flags
                            THEN Meant ELSE Meant - (Meant % NanosPerSecond)
         [] given.type \in Timestamps ->
              \/ given.type = "TIMESTAMP_NS" /\ JustBeforeSecond
              \/ Meant - bound.reads \in 0 .. Power10(NanoDigits - ExtractQuirks.fraction) - 1
         [] OTHER -> bound.reads = Meant

(* A driver never converts a number to a character type itself: an integral *)
(* or a float reaches it as text, wide for a wide type.  A DECIMAL, and an  *)
(* integral made one, are not turned into text.                             *)
NumbersStringified ==
  IsBound /\ given.type \in Integrals \cup Floats /\ expects \in CharacterSqlTypes =>
    \/ MadeDecimal
    \/ bound.ctype = IF expects \in WideSqlTypes THEN "WCHAR" ELSE "CHAR"

(* The carry of ParseHugeInt is an estimate that is in doubt when the lower *)
(* word of the digits so far is just above a multiple of a tenth of a word. *)
CarryInDoubt(n) ==
  \E k \in 0 .. HugeDigits :
    LET word == (Abs(n) \div Power10(k)) % M
    IN  word >= TenthOfWord /\ word % TenthOfWord <= 6

(* The vector gets the value the driver had, in the unit the column was     *)
(* declared with.  Lost are nanoseconds of a column in microseconds, the    *)
(* fraction of a TYPE_TIME, what int64_t nanoseconds cannot count, and two  *)
(* kinds of values come out wrong: a decimal read as text whose carry is in *)
(* doubt, and nanoseconds before the epoch with a fraction.                 *)
ColumnArrives ==
  pc = "done" /\ source # "copy" =>
    IF datum.null THEN stored = NullWritten ELSE
    CASE declared = "UUID" -> stored.n = Unsigned(StoredUuid(datum.n))
      [] declared = "MICROS" -> stored.n = datum.n \div NanosPerMicro
      [] declared = "NANOS" ->
           \/ datum.n < 0 /\ datum.n % NanosPerSecond # 0
           \/ stored.n = datum.n
           \/ Abs(datum.n) > MaxInt64 /\ Abs(stored.n) = MaxInt64
      [] declared = "TIME" ->
           stored.n = (IF column.type = "SS_TIME2" THEN datum.n
                       ELSE datum.n - (datum.n % NanosPerSecond)) \div NanosPerMicro
      [] OTHER ->
           \/ AsChars(QueryQuirks, column) /\ CarryInDoubt(datum.n)
           \/ stored.n = datum.n

(* The element is written as what the vector declared at bind time keeps:   *)
(* anything else writes over its neighbours.                                *)
ElementMatches ==
  stored.unit \in {"nothing", "null", declared}

(* A call throws for what it says it does: a TIME of a handle is taken for  *)
(* the wrong struct only when the query's option differs from the default   *)
(* that odbc_bind_params used, an expected type is set twice only by a      *)
(* second query with the handle, and a bound buffer is never read as        *)
(* another type than it was bound for.                                      *)
RefusalsExplained ==
  /\ error = "mistyped" =>
       /\ source = "handle" /\ given.type = "TIME"
       /\ "time_params_as_ss_time2" \in setting.user.on \cup setting.user.off
  /\ error = "expected again" => source = "handle" /\ run > 1 /\ expects # "UNKNOWN"
  /\ error = "column type" => column.type = "INTERVAL" \/ ~column.name
  /\ error # "mistyped buffer"
=============================================================================
