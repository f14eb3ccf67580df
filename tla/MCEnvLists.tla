----------------------------- MODULE MCEnvLists -----------------------------
(***************************************************************************)
(* The lengths of the texts of the cfg: two texts that differ in length.   *)
(***************************************************************************)
EXTENDS EnvLists

MCLength(t) == IF t = "ab" THEN 2 ELSE 1
=============================================================================
