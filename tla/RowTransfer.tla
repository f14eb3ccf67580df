---------------------------- MODULE RowTransfer ----------------------------
(***************************************************************************)
(* What a transfer of rows promises, whichever way the rows are cut into   *)
(* chunks and batches: every row of the source arrives once, in order, and *)
(* the transfer is completed only when the last one has arrived.           *)
(***************************************************************************)
EXTENDS Naturals, Sequences

VARIABLES
  total,    (* the rows of the source are 1..total                          *)
  arrived,  (* the rows that have arrived, in their order of arrival        *)
  status    (* "running", "completed" or "failed"                           *)

transferVars == <<total, arrived, status>>

TransferInit ==
  /\ total \in Nat
  /\ arrived = << >>
  /\ status = "running"

(* The next n rows arrive.                                                  *)
Arrive ==
  /\ status = "running"
  /\ \E n \in 1..(total - Len(arrived)) :
       arrived' = arrived \o [i \in 1..n |-> Len(arrived) + i]
  /\ UNCHANGED <<total, status>>

Finish ==
  /\ status = "running" /\ Len(arrived) = total
  /\ status' = "completed"
  /\ UNCHANGED <<total, arrived>>

Fail ==
  /\ status = "running"
  /\ status' = "failed"
  /\ UNCHANGED <<total, arrived>>

(* The source is transferred again, or the next one.                        *)
Again ==
  /\ status # "running"
  /\ total' \in Nat
  /\ arrived' = << >>
  /\ status' = "running"

TransferSpec == TransferInit /\ [][Arrive \/ Finish \/ Fail]_transferVars

(* Transfers one after the other.                                           *)
RepeatedInit == total = 0 /\ arrived = << >> /\ status = "completed"

RepeatedSpec == RepeatedInit /\ [][Arrive \/ Finish \/ Fail \/ Again]_transferVars

=============================================================================
