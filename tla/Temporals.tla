----------------------------- MODULE Temporals ------------------------------
(***************************************************************************)
(* Times and timestamps between DuckDB, which counts microseconds or       *)
(* nanoseconds from the epoch, and ODBC, whose structs have whole seconds  *)
(* and a fraction in nanoseconds.  The fields from the year to the second  *)
(* are one number of seconds: duckdb_from_timestamp and its like, which    *)
(* are external, round down to it.                                         *)
(***************************************************************************)
EXTENDS Powers

CONSTANTS
  NanoDigits,   (* 9                                                        *)
  MicroDigits,  (* 6                                                        *)
  UInt,         (* 2^32, the values of an SQLUINTEGER                       *)
  MaxInt64,     (* 2^63 - 1, the last nanosecond                            *)
  Years         (* 2^16, the values of an SQLSMALLINT year                  *)

ASSUME TemporalAssumption ==
  /\ NanoDigits \in Nat /\ MicroDigits \in 0 .. NanoDigits
  /\ {UInt, MaxInt64, Years} \subseteq Nat \ {0}

NanosPerMicro == Power10(NanoDigits - MicroDigits)
MicrosPerSecond == Power10(MicroDigits)
NanosPerSecond == Power10(NanoDigits)

(* The nanoseconds of a fraction fit an SQLUINTEGER.                        *)
ASSUME FractionAssumption == NanosPerSecond <= UInt

Abs(n) == IF n < 0 THEN -n ELSE n

(* / and % of C++, which round towards zero.                                *)
Quotient(n, d) == IF n < 0 THEN -(Abs(n) \div d) ELSE n \div d
Remainder(n, d) == n - d * Quotient(n, d)

(* The struct an ODBC driver reads or writes, and its nanoseconds.          *)
Struct(second, fraction) == [second |-> second, fraction |-> fraction]
StructNanos(s) == s.second * NanosPerSecond + s.fraction

-----------------------------------------------------------------------------
DigitsCount(n) ==
  IF n = 0 THEN 0
  ELSE CHOOSE k \in 1 .. NanoDigits + 1 :
         Power10(k - 1) <= Abs(n) /\ Abs(n) < Power10(k)

(* A power by the square of its half, as the code computes it.              *)
Pow(num, p) ==
  LET pow[q \in Nat] ==
        IF q = 0 THEN 1
        ELSE IF q = 1 THEN num
        ELSE IF q % 2 = 0 THEN pow[q \div 2] * pow[q \div 2]
        ELSE num * pow[q \div 2] * pow[q \div 2]
  IN  pow[p]

(* Digits beyond the precision become zeros.  The digits counted are those  *)
(* of the number of nanoseconds, not those behind the decimal point.        *)
RoundTimestampNanoFraction(precision, nanos) ==
  IF DigitsCount(nanos) <= precision
  THEN nanos
  ELSE nanos - Remainder(nanos, Pow(10, DigitsCount(nanos) - precision))

(* The fraction is cast to an SQLUINTEGER in ScannerValue(TimestampNsStruct)*)
TimestampStruct(precision, second, nanos) ==
  Struct(second, RoundTimestampNanoFraction(precision, nanos) % UInt)

(* CreateParamFromTimestamp                                                 *)
TimestampParam(precision, micros) ==
  TimestampStruct(precision, micros \div MicrosPerSecond,
                  (micros % MicrosPerSecond) * NanosPerMicro)

(* CreateParamFromTimestampNs                                               *)
TimestampNsParam(precision, nanos) ==
  LET micros == Quotient(nanos, NanosPerMicro)
  IN  TimestampStruct(precision, micros \div MicrosPerSecond,
                      (micros % MicrosPerSecond) * NanosPerMicro
                      + Remainder(nanos, NanosPerMicro))

(* ScannerValue(duckdb_time_struct, use_time_with_nanos)                    *)
TimeParam(with_nanos, micros) ==
  Struct(micros \div MicrosPerSecond,
         IF with_nanos THEN (micros % MicrosPerSecond) * NanosPerMicro ELSE 0)

(* ScannerValue(duckdb_date_struct): the year is cast to an SQLSMALLINT.    *)
YearParam(year) ==
  IF year % Years >= Years \div 2 THEN (year % Years) - Years ELSE year % Years

-----------------------------------------------------------------------------
(* FetchAndSetResultTime, SSTime2 and Timestamp, to microseconds            *)
FetchMicros(s) == s.second * MicrosPerSecond + s.fraction \div NanosPerMicro

(* faulty variant: the offset of the time zone is added                     *)
FetchOffset_Added(s, offset) == FetchMicros(s) + offset * MicrosPerSecond

(* FetchAndSetResultSSTimestampOffset: to UTC.                              *)
FetchOffset(s, offset) == FetchMicros(s) - offset * MicrosPerSecond

Least(a, b) == IF a < b THEN a ELSE b

(* The fraction is added to the absolute value, then the sign is set; what  *)
(* exceeds a uint64_t or an int64_t becomes its largest value.              *)
MicrosToNanos(micros, fraction) ==
  LET nanos == Least(Abs(micros) * NanosPerMicro + fraction, MaxInt64)
  IN  IF micros < 0 THEN -nanos ELSE nanos

FetchNanos(s) == MicrosToNanos(s.second * MicrosPerSecond, s.fraction)
=============================================================================
