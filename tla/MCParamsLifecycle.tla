------------------------- MODULE MCParamsLifecycle -------------------------
(* Instances of ParamsLifecycle for TLC.                                    *)
EXTENDS ParamsLifecycle, TLC

(* Calls, statements, connections and addresses are interchangeable.  Used  *)
(* by the run that checks an invariant only.                                *)
Symmetry ==
  Permutations(Calls) \cup Permutations(Stmts) \cup Permutations(Conns) \cup Permutations(Addrs)

=============================================================================
