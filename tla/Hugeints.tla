------------------------------ MODULE Hugeints ------------------------------
(***************************************************************************)
(* The arithmetic on 128 bit numbers in two 64 bit words behind DECIMAL    *)
(* and UUID values.  M is the number of values of a word; every operation  *)
(* on a word wraps around M, as uint64_t does.                             *)
(***************************************************************************)
EXTENDS Powers, Sequences

CONSTANTS
  M,            (* 2^64                                                     *)
  SmallWord,    (* 2^16: the values of a DECIMAL of few digits ...          *)
  IntWord,      (* 2^32: ... and of the next wider one                      *)
  SmallDigits,  (* 4: digits of a DECIMAL kept in 16 bits ...               *)
  IntDigits,    (* 9: ... in 32 bits ...                                    *)
  BigDigits,    (* 18: ... in 64 bits ...                                   *)
  HugeDigits,   (* 38: ... and in 128 bits                                  *)
  Guid1,        (* 2^32: the words that split the upper half of a GUID      *)
  Guid2,        (* 2^16                                                     *)
  GuidByte,     (* 2^8: a byte of its lower half                            *)
  GuidBytes     (* 8: bytes of its lower half                               *)

ASSUME WordAssumption ==
  /\ M \in Nat /\ M > 1 /\ M % 2 = 0
  /\ {SmallWord, IntWord, Guid1, Guid2, GuidByte, GuidBytes} \subseteq Nat \ {0}
  /\ {SmallDigits, IntDigits, BigDigits, HugeDigits} \subseteq Nat

(* A DECIMAL fits the type its digits are kept in, with its sign, and the   *)
(* fields of a GUID are the words it is split into.                         *)
ASSUME DigitsAssumption ==
  /\ 2 * Power10(SmallDigits) <= SmallWord /\ M % SmallWord = 0
  /\ 2 * Power10(IntDigits) <= IntWord /\ M % IntWord = 0
  /\ 2 * Power10(BigDigits) <= M
  /\ 2 * Power10(HugeDigits) <= M * M
  /\ Guid1 % Guid2 = 0
  /\ Power(GuidByte, GuidBytes) = M

Word == 0 .. M - 1
Half == M \div 2
Hugeint == [lower : Word, upper : Word]

(* The number a hugeint stands for, in two's complement, and its hugeint.   *)
HugeintValue(h) ==
  (IF h.upper < Half THEN h.upper ELSE h.upper - M) * M + h.lower

HugeintOf(n) == [lower |-> n % M, upper |-> (n \div M) % M]

(* static_cast of a number to a signed type of as many values as given.     *)
Signed(n, values) ==
  IF n % values >= values \div 2 THEN (n % values) - values ELSE n % values

-----------------------------------------------------------------------------
(* ~lower + 1 and ~upper, with a carry.                                     *)
Negate(h) ==
  LET lower == IF h.lower = 0 THEN 0 ELSE M - h.lower
      upper == IF lower # 0 THEN M - 1 - h.upper
               ELSE IF h.upper = 0 THEN 0 ELSE M - h.upper
  IN  [lower |-> lower, upper |-> upper]

Zero == [lower |-> 0, upper |-> 0]

(* A DECIMAL parameter out of a vector: a narrow one is sign extended.      *)
DecimalOfVector(width, n) ==
  IF width <= BigDigits
  THEN [lower |-> n % M, upper |-> IF n >= 0 THEN 0 ELSE M - 1]
  ELSE HugeintOf(n)

(* SQL_NUMERIC_STRUCT of a DECIMAL: a sign, 1 for positive, and a magnitude.*)
NumericStruct(h, width, scale) ==
  LET positive == h.upper < Half
  IN  [precision |-> width, scale |-> scale,
       sign |-> IF positive THEN 1 ELSE 0,
       magnitude |-> IF positive THEN h ELSE Negate(h)]

(* The number of a hugeint without a sign, and the one a driver takes a     *)
(* NumericStruct for, external.                                             *)
Unsigned(h) == h.upper * M + h.lower
NumericMeaning(ns) ==
  IF ns.sign = 1 THEN Unsigned(ns.magnitude) ELSE -Unsigned(ns.magnitude)

(* FetchDecimal: back to two's complement.                                  *)
FetchNumeric(ns) == IF ns.sign = 0 THEN Negate(ns.magnitude) ELSE ns.magnitude

-----------------------------------------------------------------------------
(* ParseHugeInt: one digit more; the carry is estimated from lower.         *)
TenthOfWord == (M - 1) \div 10

(* The last digit of 2^64, and of every fourth power of two.                *)
ASSUME TenthAssumption == M % 10 = 6 /\ M > 100

Append10(h, digit) ==
  LET carry == IF h.lower > TenthOfWord THEN h.lower \div TenthOfWord ELSE 0
  IN  [lower |-> (h.lower * 10 + digit) % M, upper |-> (h.upper * 10 + carry) % M]

ParseHugeInt(digits) ==
  LET parsed[i \in 0 .. Len(digits)] ==
        IF i = 0 THEN Zero ELSE Append10(parsed[i - 1], digits[i])
  IN  parsed[Len(digits)]

(* A decimal string, without what RemoveSeparatorReturnScale drops; the     *)
(* scale it returns is not used.                                            *)
Text(neg, digits) == [neg |-> neg, digits |-> digits]

TextToHugeint(text) ==
  IF text.neg THEN Negate(ParseHugeInt(text.digits)) ELSE ParseHugeInt(text.digits)

(* The string a driver or DuckDB makes of a number, external.               *)
Digits(n) ==
  LET len == CHOOSE k \in 1 .. n + 1 :
               n < Power10(k) /\ (k = 1 \/ n >= Power10(k - 1))
  IN  [i \in 1 .. len |-> (n \div Power10(len - i)) % 10]

TextOf(n) == IF n < 0 THEN Text(TRUE, Digits(-n)) ELSE Text(FALSE, Digits(n))

-----------------------------------------------------------------------------
(* SetResult: the type written and what is left of the number in it.        *)
SetResultType(width) ==
  IF width <= SmallDigits THEN "INT16"
  ELSE IF width <= IntDigits THEN "INT32"
  ELSE IF width <= BigDigits THEN "INT64"
  ELSE IF width <= HugeDigits THEN "INT128"
  ELSE "thrown"

SetResultValue(type, h) ==
  CASE type = "INT16"  -> Signed(h.lower, SmallWord)
    [] type = "INT32"  -> Signed(h.lower, IntWord)
    [] type = "INT64"  -> Signed(h.lower, M)
    [] type = "INT128" -> HugeintValue(h)

(* The type DuckDB keeps a DECIMAL of a width in, external.                 *)
InternalType(width) ==
  IF width <= SmallDigits THEN "INT16"
  ELSE IF width <= IntDigits THEN "INT32"
  ELSE IF width <= BigDigits THEN "INT64"
  ELSE "INT128"

-----------------------------------------------------------------------------
(* DuckDB keeps a UUID with the top bit flipped, so that it sorts.          *)
Flip(h) == [h EXCEPT !.upper = IF @ < Half THEN @ + Half ELSE @ - Half]

(* ScannerUuid: the fields of a SQLGUID.                                    *)
Guid(h) ==
  [data1 |-> h.upper \div Guid1,
   data2 |-> (h.upper \div Guid2) % (Guid1 \div Guid2),
   data3 |-> h.upper % Guid2,
   data4 |-> [i \in 1 .. GuidBytes |->
                (h.lower \div Power(GuidByte, GuidBytes - i)) % GuidByte]]

(* The UUID a driver takes a GUID for, external.                            *)
GuidMeaning(guid) ==
  LET low[i \in 0 .. GuidBytes] ==
        IF i = 0 THEN 0 ELSE low[i - 1] * GuidByte + guid.data4[i]
  IN  ((guid.data1 * (Guid1 \div Guid2) + guid.data2) * Guid2 + guid.data3) * M
      + low[GuidBytes]

(* FetchAndSetResult: the fields shifted to their places.                   *)
FetchGuid(guid) ==
  LET lower[i \in 0 .. GuidBytes] ==
        IF i = 0 THEN 0
        ELSE lower[i - 1] + guid.data4[i] * Power(GuidByte, GuidBytes - i)
  IN  [upper |-> guid.data1 * Guid1 + guid.data2 * Guid2 + guid.data3,
       lower |-> lower[GuidBytes]]
=============================================================================
