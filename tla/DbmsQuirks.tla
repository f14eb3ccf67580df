----------------------------- MODULE DbmsQuirks -----------------------------
(***************************************************************************)
(* The quirks of a connection: what the DBMS on the other side makes the   *)
(* scanner do differently, and the options of a call that override them.   *)
(* A quirk of type bool is a flag; the two numeric ones are numbers.       *)
(***************************************************************************)
EXTENDS Temporals

CONSTANTS
  SsDigits,     (* of an MSSQL datetime2: 7                                 *)
  LongBytes,    (* default of var_len_params_long_threshold_bytes: 4000     *)
  SsLongBytes   (* its value for MSSQL: 8000                                *)

ASSUME QuirksAssumption ==
  /\ SsDigits \in 0 .. NanoDigits
  /\ LongBytes \in Nat
  /\ SsLongBytes \in Nat

Dbms == {"ORACLE", "MSSQL", "DB2", "MARIADB", "MYSQL", "POSTGRESQL",
         "FIREBIRD", "SNOWFLAKE", "SPARK", "CLICKHOUSE", "FLIGHTSQL", "GENERIC"}

Flags == {"decimal_columns_as_chars", "decimal_columns_precision_through_ard",
          "decimal_columns_as_ard_type", "decimal_params_as_chars",
          "integral_params_as_decimals", "reset_stmt_before_execute",
          "time_params_as_ss_time2", "timestamp_columns_as_timestamp_ns",
          "timestamp_columns_with_typename_date_as_date",
          "timestamp_params_as_sf_timestamp_ntz",
          "timestamptz_params_as_ss_timestampoffset",
          "var_len_data_single_part", "enable_columns_binding"}

DecimalsAsChars == {"decimal_params_as_chars", "decimal_columns_as_chars"}

DbmsFlags(dbms) ==
  CASE dbms = "ORACLE" ->
         {"decimal_columns_precision_through_ard", "integral_params_as_decimals",
          "timestamp_columns_with_typename_date_as_date", "enable_columns_binding"}
    [] dbms = "MSSQL" ->
         {"decimal_columns_precision_through_ard", "decimal_columns_as_ard_type",
          "decimal_params_as_chars", "time_params_as_ss_time2",
          "timestamptz_params_as_ss_timestampoffset"}
    [] dbms = "DB2" -> DecimalsAsChars \cup {"enable_columns_binding"}
    [] dbms \in {"MARIADB", "MYSQL", "FIREBIRD", "SPARK"} -> DecimalsAsChars
    [] dbms = "SNOWFLAKE" ->
         {"decimal_columns_precision_through_ard", "decimal_params_as_chars",
          "timestamp_params_as_sf_timestamp_ntz"}
    [] dbms = "CLICKHOUSE" ->
         DecimalsAsChars \cup {"reset_stmt_before_execute", "var_len_data_single_part"}
    [] dbms = "FLIGHTSQL" -> {"decimal_columns_as_chars"}
    [] OTHER -> {}

Unset == -1   (* an option of the call that is not given, or is NULL        *)

(* The options of a call: flags set, flags cleared, the two numbers.        *)
Options == [on : SUBSET Flags, off : SUBSET Flags, fraction : Int, threshold : Int]
NoOptions == [on |-> {}, off |-> {}, fraction |-> Unset, threshold |-> Unset]

(* timestamp_max_fraction_precision above 9 is refused.                     *)
Accepted(user) == user.fraction <= NanoDigits

Given(option, default) == IF option = Unset THEN default ELSE option

Quirks(dbms, user) ==
  [flags     |-> (DbmsFlags(dbms) \cup user.on) \ user.off,
   fraction  |-> Given(user.fraction, IF dbms = "MSSQL" THEN SsDigits ELSE NanoDigits),
   threshold |-> Given(user.threshold, IF dbms = "MSSQL" THEN SsLongBytes ELSE LongBytes)]
=============================================================================
