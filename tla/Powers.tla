------------------------------- MODULE Powers -------------------------------
(***************************************************************************)
(* b to the power of k, as a recursive function: a power of ten for the    *)
(* digits of a number, one of a byte for its bytes.                        *)
(***************************************************************************)
EXTENDS Integers

Power(b, k) ==
  LET power[i \in Nat] == IF i = 0 THEN 1 ELSE b * power[i - 1]
  IN  power[k]

Power10(k) == Power(10, k)
=============================================================================
