-------------------------- MODULE MCConnLifecycle --------------------------
(* Instances of ConnLifecycle for TLC.                                      *)
EXTENDS ConnLifecycle, TLC

(* Calls, statements and addresses are interchangeable.  Used by the runs   *)
(* that check an invariant only.                                            *)
Symmetry == Permutations(Calls) \cup Permutations(Stmts) \cup Permutations(Addrs)

=============================================================================
