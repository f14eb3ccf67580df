---------------------------- MODULE MCValuePath -----------------------------
(***************************************************************************)
(* Connections, options and values for TLC: the boundaries of every type,  *)
(* in small words.                                                         *)
(***************************************************************************)
EXTENDS ValuePath

User(on, off) == [NoOptions EXCEPT !.on = on, !.off = off]
Setting(dbms, user) == [dbms |-> dbms, user |-> user]

MCSettings ==
  {Setting(dbms, NoOptions) : dbms \in Dbms} \cup
  {Setting("GENERIC", User({"timestamp_columns_as_timestamp_ns", "enable_columns_binding"}, {})),
   Setting("MSSQL", User({"timestamp_columns_as_timestamp_ns", "decimal_columns_as_chars",
                          "enable_columns_binding"},
                         {"time_params_as_ss_time2"})),
   Setting("GENERIC", User({"time_params_as_ss_time2", "integral_params_as_decimals"}, {})),
   Setting("ORACLE", User({"decimal_params_as_chars"},
                          {"timestamp_columns_with_typename_date_as_date"})),
   Setting("POSTGRESQL", [NoOptions EXCEPT !.fraction = MicroDigits, !.threshold = 0]),
   Setting("GENERIC", [NoOptions EXCEPT !.fraction = NanoDigits + 1])}

Value(type, n) == [type |-> type, n |-> n, width |-> 0, scale |-> 0]
DecimalValue(width, scale, n) == [type |-> "DECIMAL", n |-> n, width |-> width, scale |-> scale]
Text5(n, nul) == [type |-> "VARCHAR", n |-> n, width |-> nul, scale |-> 0]

Ints(type, unsigned, words) ==
  {Value(unsigned, n) : n \in {0, 1, words - 1}} \cup
  {Value(type, n) : n \in {-(words \div 2), -1, 0, words \div 2 - 1}}

MCValues ==
  Ints("TINYINT", "UTINYINT", 8) \cup Ints("SMALLINT", "USMALLINT", 32) \cup
  Ints("INTEGER", "UINTEGER", 256) \cup Ints("BIGINT", "UBIGINT", 4096) \cup
  {Value(t, n) : t \in Floats, n \in {-20, 3}} \cup
  {Value("BOOLEAN", n) : n \in {0, 1}} \cup
  {DecimalValue(1, 1, n) : n \in {-9, 0, 9}} \cup
  {DecimalValue(2, 0, n) : n \in {-99, -1, 10}} \cup
  {DecimalValue(3, 2, n) : n \in {-999, 999}} \cup
  {DecimalValue(6, 3, n) : n \in {-999999, -40960, -4096, -4095, -1, 0, 2047, 4090, 4096,
                                  8180, 40900, 123456, 999999}} \cup
  {Text5(n, n) : n \in {0, 2, 3, 5}} \cup {Text5(4, 1)} \cup
  {Value("BLOB", n) : n \in {0, 4, 5, 9}} \cup
  {Value("UUID", n) : n \in {0, 1, 4095, 4096, 8388608, 12345678, 16777215}} \cup
  {Value("DATE", n) : n \in {-33, -32, 0, 31, 32}} \cup
  {Value("TIME", n) : n \in {0, 99, 100, 123, 150}} \cup
  {Value(t, n) : t \in {"TIMESTAMP", "TIMESTAMP_TZ"},
                 n \in {-150, -100, -1, 0, 5, 99, 123, 12345}} \cup
  {Value("TIMESTAMP_NS", n) : n \in {-20050, -20000, -10001, -1, 0, 7, 1234, 9999, 50123}} \cup
  {Value("SQLNULL", 0), Value("INTERVAL", 0)}
=============================================================================
