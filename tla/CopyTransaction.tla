-------------------------- MODULE CopyTransaction --------------------------
(***************************************************************************)
(* Transactions around odbc_copy on one connection: what the calls of Copy *)
(* (odbc_copy.cpp) do to the auto-commit mode and to the open transaction, *)
(* with any driver call failing, the consumer of the result rows stopping  *)
(* early, and the user's own transaction commands in between.              *)
(*                                                                         *)
(* While a copy runs it has the connection to itself (ConnLifecycle), so   *)
(* the user's commands come between copies only.  Rows are counted: their  *)
(* identity and order are the subject of CopyBatching.                     *)
(***************************************************************************)
EXTENDS Naturals

CONSTANTS
  MaxRows,    (* bound: rows of a source                                    *)
  BatchSize,  (* rows of a full batch                                       *)
  MaxRecords  (* the values of max_records_in_transaction; 0: no limit      *)

ASSUME CopyAssumption ==
  /\ MaxRows \in Nat \ {0}
  /\ BatchSize \in Nat \ {0}
  /\ MaxRecords \subseteq Nat

Options == [inTx : BOOLEAN, max : MaxRecords, create : BOOLEAN, commitAfter : BOOLEAN]

VARIABLES
  db,         (* the connection as the driver has it: auto (the mode), open *)
              (* and done (rows of this copy in the open transaction, and   *)
              (* committed), table ("no", "open" or "yes": committed)       *)
  opts,       (* the options in BindData                                    *)
  total,      (* rows of the source                                         *)
  state,      (* LocalInitData::state; "idle": no copy runs                 *)
  orig,       (* orig_transaction_mode                                      *)
  inserted,   (* records_inserted                                           *)
  inTran,     (* inserted_in_transaction                                    *)
  outcome,    (* how the last copy ended: "ok", "failed", "stopped", or     *)
              (* "broken": a call that ends the transaction failed as well  *)
  before      (* history: the mode in which this copy found the connection  *)

vars == <<db, opts, total, state, orig, inserted, inTran, outcome, before>>

(* Every variable has its type.                                             *)
TypeOK ==
  /\ db \in [auto : BOOLEAN, open : 0..MaxRows, done : 0..MaxRows, table : {"no", "open", "yes"}]
  /\ opts \in Options
  /\ total \in 1..MaxRows
  /\ state \in {"idle", "uninitialized", "executed", "exhausted"}
  /\ orig \in BOOLEAN
  /\ inserted \in 0..total
  /\ inTran \in 0..total
  /\ outcome \in {"none", "ok", "failed", "stopped", "broken"}
  /\ before \in BOOLEAN

Init ==
  /\ db = [auto |-> TRUE, open |-> 0, done |-> 0, table |-> "no"]
  /\ opts \in Options
  /\ total \in 1..MaxRows
  /\ state = "idle"
  /\ orig = TRUE
  /\ inserted = 0
  /\ inTran = 0
  /\ outcome = "none"
  /\ before = TRUE

-----------------------------------------------------------------------------
(* The driver (external).                                                   *)

Committed(d) ==
  [d EXCEPT !.open = 0, !.done = @ + d.open, !.table = IF @ = "open" THEN "yes" ELSE @]

RolledBack(d) == [d EXCEPT !.open = 0, !.table = IF @ = "open" THEN "no" ELSE @]

(* In auto-commit mode every statement is a transaction.                    *)
Settled(d) == IF d.auto THEN Committed(d) ELSE d

(* Turning auto-commit on commits what is open.                             *)
WithMode(d, auto) == Settled([d EXCEPT !.auto = auto])

Inserted(d, n) == Settled([d EXCEPT !.open = @ + n])

-----------------------------------------------------------------------------
(* The user's commands, between copies: odbc_begin_transaction turns        *)
(* auto-commit off; odbc_commit and odbc_rollback leave it off.             *)
UserBegin ==
  /\ state = "idle"
  /\ db' = WithMode(db, FALSE)
  /\ UNCHANGED <<opts, total, state, orig, inserted, inTran, outcome, before>>

UserCommit ==
  /\ state = "idle"
  /\ db' = Committed(db)
  /\ UNCHANGED <<opts, total, state, orig, inserted, inTran, outcome, before>>

UserRollback ==
  /\ state = "idle"
  /\ db' = RolledBack(db)
  /\ UNCHANGED <<opts, total, state, orig, inserted, inTran, outcome, before>>

(* A new copy.  Its predecessor may have left rows in the open transaction; *)
(* they are no rows of this copy.                                           *)
StartCopy ==
  /\ state = "idle"
  /\ state' = "uninitialized"
  /\ opts' \in Options
  /\ total' \in 1..MaxRows
  /\ db' = [db EXCEPT !.open = 0, !.done = 0, !.table = "no"]
  /\ before' = db.auto
  /\ inserted' = 0
  /\ inTran' = 0
  /\ outcome' = "none"
  /\ orig' = TRUE

-----------------------------------------------------------------------------
(* The calls of Copy.                                                       *)

Over(how) == state' = "idle" /\ outcome' = how

(* BeginTransaction, which returns the mode it finds; without              *)
(* copy_in_transaction neither it nor anything else sets orig.              *)
OrigMode == IF opts.inTx THEN db.auto ELSE orig

Begun == IF opts.inTx THEN WithMode(db, FALSE) ELSE db

(* The CREATE TABLE.                                                        *)
Created == IF opts.create THEN Settled([Begun EXCEPT !.table = "open"]) ELSE Begun

CreatedAndCommitted ==
  IF opts.create /\ opts.inTx /\ opts.commitAfter THEN Committed(Created) ELSE Created

(* The first call, as far as the prepared INSERT.                           *)
Prepare ==
  /\ state = "uninitialized"
  /\ state' = "executed"
  /\ orig' = OrigMode
  /\ db' = CreatedAndCommitted
  /\ UNCHANGED <<opts, total, inserted, inTran, outcome, before>>

(* One batch is executed; a transaction that has become longer than         *)
(* max_records_in_transaction is committed.                                 *)
TooLong(n) == opts.inTx /\ opts.max > 0 /\ inTran + n > opts.max

(* faulty variant: the last batch is counted as a full one *)
InsertBatch_CountedFull ==
  /\ state = "executed"
  /\ \E n \in 1..BatchSize :
       /\ inserted + n =< total
       /\ inserted' = inserted + BatchSize
       /\ db' = Inserted(db, n)
       /\ inTran' = inTran + n
  /\ UNCHANGED <<opts, total, state, orig, outcome, before>>

(* faulty variant: the limit is never looked at *)
InsertBatch_NoLimit ==
  /\ state = "executed"
  /\ \E n \in 1..BatchSize :
       /\ inserted + n =< total
       /\ inserted' = inserted + n
       /\ db' = Inserted(db, n)
       /\ inTran' = inTran + n
  /\ UNCHANGED <<opts, total, state, orig, outcome, before>>

(* faulty variant: the counter is not reset by the commit *)
InsertBatch_NoReset ==
  /\ state = "executed"
  /\ \E n \in 1..BatchSize :
       /\ inserted + n =< total
       /\ inserted' = inserted + n
       /\ db' = IF TooLong(n) THEN Committed(Inserted(db, n)) ELSE Inserted(db, n)
       /\ inTran' = inTran + n
  /\ UNCHANGED <<opts, total, state, orig, outcome, before>>

InsertBatch ==
  /\ state = "executed"
  /\ \E n \in 1..BatchSize :
       /\ inserted + n =< total
       /\ inserted' = inserted + n
       /\ \/ /\ TooLong(n)
             /\ db' = Committed(Inserted(db, n))
             /\ inTran' = 0
          \/ /\ ~TooLong(n)
             /\ db' = Inserted(db, n)
             /\ inTran' = inTran + n
  /\ UNCHANGED <<opts, total, state, orig, outcome, before>>

(* The source has no more rows: the row with completed = TRUE is returned.  *)
Complete ==
  /\ state = "executed" /\ inserted = total
  /\ state' = "exhausted"
  /\ UNCHANGED <<db, opts, total, orig, inserted, inTran, outcome, before>>

(* faulty variant: the final call forgets that it has been made *)
FinalCall_Again ==
  /\ state = "exhausted"
  /\ db' = IF opts.inTx THEN WithMode(Committed(db), orig) ELSE db
  /\ UNCHANGED <<opts, total, state, orig, inserted, inTran, outcome, before>>

(* faulty variant: the transaction is committed, the mode stays off *)
FinalCall_ModeKept ==
  /\ state = "exhausted"
  /\ db' = IF opts.inTx THEN Committed(db) ELSE db
  /\ Over("ok")
  /\ UNCHANGED <<opts, total, orig, inserted, inTran, before>>

(* The call after that commits, and restores the mode.                      *)
FinalCall ==
  /\ state = "exhausted"
  /\ db' = IF opts.inTx THEN WithMode(Committed(db), orig) ELSE db
  /\ Over("ok")
  /\ UNCHANGED <<opts, total, orig, inserted, inTran, before>>

-----------------------------------------------------------------------------
(* Failures.                                                                *)

(* BeginTransaction throws, outside the try block.                          *)
BeginFails ==
  /\ state = "uninitialized" /\ opts.inTx
  /\ Over("failed")
  /\ UNCHANGED <<db, opts, total, orig, inserted, inTran, before>>

(* faulty variant: the mode is restored before the rollback *)
Recover_ModeFirst(d, mode) ==
  \/ /\ opts.inTx
     /\ \/ db' = RolledBack(WithMode(d, mode)) /\ Over("failed")
        \/ db' = WithMode(d, mode) /\ Over("broken")
        \/ db' = d /\ Over("broken")
  \/ ~opts.inTx /\ db' = d /\ Over("failed")

(* The catch block of Copy, when d is what the failed call leaves: Rollback *)
(* and SetTransactionMode, either of which can fail in its turn.            *)
Recover(d, mode) ==
  \/ /\ opts.inTx
     /\ \/ db' = WithMode(RolledBack(d), mode) /\ Over("failed")
        \/ db' = d /\ Over("broken")
        \/ db' = RolledBack(d) /\ Over("broken")
  \/ ~opts.inTx /\ db' = d /\ Over("failed")

(* The source cannot be opened, or one of the statements of the first call  *)
(* fails.                                                                   *)
PrepareFails ==
  /\ state = "uninitialized"
  /\ orig' = OrigMode
  /\ \E d \in {Begun, Created, CreatedAndCommitted} : Recover(d, orig')
  /\ UNCHANGED <<opts, total, inserted, inTran, before>>

(* A batch, or the commit after it, fails when n of its rows are inserted,  *)
(* or the source fails.                                                     *)
BatchFails ==
  /\ state = "executed"
  /\ \E n \in 0..BatchSize : inserted + n =< total /\ Recover(Inserted(db, n), orig)
  /\ UNCHANGED <<opts, total, orig, inserted, inTran, before>>

(* The final Commit or SetTransactionMode fails, outside the try block.     *)
FinalFails ==
  /\ state = "exhausted" /\ opts.inTx
  /\ db' \in {db, Committed(db)}
  /\ Over("broken")
  /\ UNCHANGED <<opts, total, orig, inserted, inTran, before>>

(* The consumer of the result rows has seen enough: Copy is not called      *)
(* again, and ~GlobalInitData gives the connection back as it is.           *)
Stop ==
  /\ state # "idle"
  /\ Over("stopped")
  /\ UNCHANGED <<db, opts, total, orig, inserted, inTran, before>>

-----------------------------------------------------------------------------
CopyCall ==
  \/ Prepare \/ InsertBatch \/ Complete \/ FinalCall
  \/ BeginFails \/ PrepareFails \/ BatchFails \/ FinalFails

Next == UserBegin \/ UserCommit \/ UserRollback \/ StartCopy \/ CopyCall \/ Stop

Spec == Init /\ [][Next]_vars

(* DuckDB calls the function until it is exhausted, fails, or is stopped.   *)
FairSpec == Spec /\ WF_vars(CopyCall)

-----------------------------------------------------------------------------
(* A copy in one transaction (copy_in_transaction, no record limit) inserts *)
(* all of its rows or none, whichever driver call fails, and its table goes *)
(* with the rows, unless commit_after_create_table was given: as long as    *)
(* the rollback works and nobody stops the copy.                            *)
AllOrNothing ==
  opts.inTx /\ opts.max = 0 /\ outcome \notin {"stopped", "broken"} =>
    /\ db.done \in {0, total}
    /\ db.table = "yes" /\ ~opts.commitAfter => db.done = total

(* A copy that has run to its end, or has failed and cleaned up, leaves no  *)
(* row in an open transaction and the connection in the mode it found.      *)
EndsClean ==
  [][state # "idle" /\ outcome' \in {"ok", "failed"} /\ opts.inTx =>
       db'.open = 0 /\ db'.auto = before]_vars

(* records_inserted, which the result rows report, is the number of rows    *)
(* that are committed or in the open transaction, and inserted_in_          *)
(* transaction of those in the open one.                                    *)
RowsAccounted ==
  state \in {"executed", "exhausted"} =>
    /\ inserted = db.open + db.done
    /\ opts.inTx => db.open = inTran

(* With max_records_in_transaction no commit covers more rows than the      *)
(* limit and one batch on top.                                              *)
TransactionBounded ==
  [][state # "idle" /\ opts.inTx /\ opts.max > 0 =>
       db'.done =< db.done + opts.max + BatchSize]_vars

(* A copy that DuckDB keeps calling comes to its end.                       *)
CopyEnds == state = "uninitialized" ~> state = "idle"

=============================================================================
