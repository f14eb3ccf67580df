--------------------------- MODULE MCCopyBatching ---------------------------
(* An instance of CopyBatching for TLC: chunks of up to 6 rows, remainders   *)
(* of every size, results of one and of two chunks.                          *)
EXTENDS CopyBatching

MCPatterns ==
  {[r \in 1..MaxRows |-> IF r % 5 = 0 THEN "null" ELSE "fixed"],
   [r \in 1..MaxRows |-> IF r % 3 = 0 THEN "fixed" ELSE "var"]}

=============================================================================
