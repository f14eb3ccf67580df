----------------------- MODULE CopyTransaction_proofs -----------------------
(***************************************************************************)
(* What odbc_copy promises about transactions, for every number of rows,   *)
(* every batch size and every limit, with any driver call failing.         *)
(***************************************************************************)
EXTENDS CopyTransaction, TLAPS

(* The connection as the driver has it, for any number of rows.             *)
Db == [auto : BOOLEAN, open : Nat, done : Nat, table : {"no", "open", "yes"}]

Running == state \in {"executed", "exhausted"}

(* No row of the copy is counted twice, and auto-commit leaves nothing open.*)
Counted ==
  /\ db.open + db.done <= total
  /\ db.auto => db.open = 0 /\ db.table # "open"

(* A copy that has been started, and has not called the driver yet.         *)
Untouched ==
  state = "uninitialized" =>
    /\ db.open = 0 /\ db.done = 0 /\ db.table = "no"
    /\ inserted = 0 /\ inTran = 0
    /\ db.auto = before

NotEnded == state # "idle" => outcome = "none"

(* In a copy in a transaction auto-commit is off, and the mode to restore   *)
(* is the one it found.                                                     *)
OwnTransaction ==
  Running /\ opts.inTx =>
    /\ ~db.auto
    /\ orig = before
    /\ db.open = inTran
    /\ opts.max > 0 => inTran <= opts.max
    /\ opts.max = 0 => db.done = 0 /\ (db.table = "yes" => opts.commitAfter)

CountedOnce == Running => inTran <= inserted

AllInserted == state = "exhausted" => inserted = total

(* Nothing is left for the user's own commit or rollback.                   *)
NothingOpen ==
  state = "idle" /\ opts.inTx /\ outcome \notin {"stopped", "broken"} =>
    db.open = 0 /\ db.table # "open"

IInv ==
  /\ TypeOK /\ AllOrNothing /\ RowsAccounted
  /\ Counted /\ Untouched /\ NotEnded /\ OwnTransaction /\ CountedOnce
  /\ AllInserted /\ NothingOpen

-----------------------------------------------------------------------------
(* What the driver does, field by field.                                    *)
LEMMA DbInTypeOK ==
  ASSUME TypeOK
  PROVE  /\ db \in Db
         /\ opts \in [inTx : BOOLEAN, max : Nat, create : BOOLEAN, commitAfter : BOOLEAN]
         /\ total \in Nat /\ inserted \in Nat /\ inTran \in Nat
<1>1. 0..MaxRows \subseteq Nat /\ MaxRecords \subseteq Nat
  BY CopyAssumption
<1>2. db \in Db
  BY <1>1 DEF TypeOK, Db
<1>3. opts \in [inTx : BOOLEAN, max : Nat, create : BOOLEAN, commitAfter : BOOLEAN]
  BY <1>1 DEF TypeOK, Options
<1>4. total \in Nat /\ inserted \in Nat /\ inTran \in Nat
  BY CopyAssumption DEF TypeOK
<1> QED
  BY <1>2, <1>3, <1>4

(* The table after the end of the transaction.                              *)
Ended(table, become) == IF table = "open" THEN become ELSE table

LEMMA CommittedFields ==
  ASSUME NEW d \in Db
  PROVE  /\ Committed(d) \in Db
         /\ Committed(d).auto = d.auto
         /\ Committed(d).open = 0
         /\ Committed(d).done = d.done + d.open
         /\ Committed(d).table = Ended(d.table, "yes")
<1>1. /\ Committed(d).auto = d.auto
      /\ Committed(d).open = 0
      /\ Committed(d).done = d.done + d.open
  BY DEF Committed, Ended, Db
<1>2. Committed(d).table = Ended(d.table, "yes")
  BY DEF Committed, Ended, Db
<1>3. Committed(d) \in Db
  <2>1. /\ d.done + d.open \in Nat
        /\ (IF d.table = "open" THEN "yes" ELSE d.table) \in {"no", "open", "yes"}
    BY DEF Db
  <2> QED
    BY <2>1 DEF Committed, Db
<1> QED
  BY <1>1, <1>2, <1>3

LEMMA RolledBackFields ==
  ASSUME NEW d \in Db
  PROVE  /\ RolledBack(d) \in Db
         /\ RolledBack(d).auto = d.auto
         /\ RolledBack(d).open = 0
         /\ RolledBack(d).done = d.done
         /\ RolledBack(d).table = Ended(d.table, "no")
BY DEF RolledBack, Ended, Db

(* Nothing is committed when auto-commit is turned off, nor when there is   *)
(* nothing open.                                                            *)
LEMMA WithModeFields ==
  ASSUME NEW d \in Db, NEW mode \in BOOLEAN
  PROVE  /\ WithMode(d, mode) \in Db
         /\ WithMode(d, mode).auto = mode
         /\ ~mode => /\ WithMode(d, mode).open = d.open
                     /\ WithMode(d, mode).done = d.done
                     /\ WithMode(d, mode).table = d.table
         /\ mode => /\ WithMode(d, mode).open = 0
                    /\ WithMode(d, mode).done = d.done + d.open
                    /\ WithMode(d, mode).table = Ended(d.table, "yes")
<1> DEFINE c == [d EXCEPT !.auto = mode]
<1>1. /\ c \in Db /\ c.auto = mode
      /\ c.open = d.open /\ c.done = d.done /\ c.table = d.table
  BY DEF Db
<1>2. WithMode(d, mode) = IF c.auto THEN Committed(c) ELSE c
  BY DEF WithMode, Settled
<1> HIDE DEF c
<1>3. /\ Committed(c) \in Db
      /\ Committed(c).auto = c.auto /\ Committed(c).open = 0
      /\ Committed(c).done = c.done + c.open
      /\ Committed(c).table = Ended(c.table, "yes")
  BY <1>1, CommittedFields
<1> QED
  BY <1>1, <1>2, <1>3

LEMMA InsertedFields ==
  ASSUME NEW d \in Db, NEW n \in Nat
  PROVE  /\ Inserted(d, n) \in Db
         /\ Inserted(d, n).auto = d.auto
         /\ ~d.auto => /\ Inserted(d, n).open = d.open + n
                       /\ Inserted(d, n).done = d.done
                       /\ Inserted(d, n).table = d.table
         /\ d.auto => /\ Inserted(d, n).open = 0
                      /\ Inserted(d, n).done = d.done + d.open + n
                      /\ Inserted(d, n).table = Ended(d.table, "yes")
<1> DEFINE c == [d EXCEPT !.open = @ + n]
<1>1. /\ c \in Db /\ c.auto = d.auto
      /\ c.open = d.open + n /\ c.done = d.done /\ c.table = d.table
  BY DEF Db
<1>2. Inserted(d, n) = IF c.auto THEN Committed(c) ELSE c
  BY DEF Inserted, Settled
<1> HIDE DEF c
<1>3. /\ Committed(c) \in Db
      /\ Committed(c).auto = c.auto /\ Committed(c).open = 0
      /\ Committed(c).done = c.done + c.open
      /\ Committed(c).table = Ended(c.table, "yes")
  BY <1>1, CommittedFields
<1>4. d.open \in Nat /\ d.done \in Nat
  BY DEF Db
<1> QED
  BY <1>1, <1>2, <1>3, <1>4

-----------------------------------------------------------------------------
(* A copy begins with nothing inserted or committed.                        *)
THEOREM InitIInv == Init => IInv
BY CopyAssumption
   DEF Init, IInv, TypeOK, AllOrNothing, RowsAccounted, Counted, Untouched, NotEnded,
       OwnTransaction, CountedOnce, AllInserted, NothingOpen, Running, Options

LEMMA UserStep ==
  ASSUME IInv, UserBegin \/ UserCommit \/ UserRollback
  PROVE  IInv'
<1>1. db \in Db /\ state = "idle"
  BY DbInTypeOK DEF IInv, UserBegin, UserCommit, UserRollback
<1>2. /\ db' \in Db /\ db'.auto \in BOOLEAN
      /\ db'.open + db'.done <= db.open + db.done
      /\ db'.auto => db'.open = 0 /\ db'.table # "open"
      /\ db.open = 0 /\ db.table # "open" =>
           db'.open = 0 /\ db'.done = db.done /\ db'.table = db.table
  <2>1. CASE UserBegin
    <3>1. /\ db' \in Db /\ db'.auto = FALSE
          /\ db'.open = db.open /\ db'.done = db.done /\ db'.table = db.table
      BY <1>1, <2>1, WithModeFields DEF UserBegin
    <3> QED
      BY <1>1, <3>1 DEF Db
  <2>2. CASE UserCommit
    BY <1>1, <2>2, CommittedFields DEF UserCommit, Ended, Db
  <2>3. CASE UserRollback
    BY <1>1, <2>3, RolledBackFields DEF UserRollback, Ended, Db
  <2> QED
    BY <2>1, <2>2, <2>3
<1>3. UNCHANGED <<opts, total, state, orig, inserted, inTran, outcome, before>>
  BY DEF UserBegin, UserCommit, UserRollback
<1>4. TypeOK'
  BY <1>1, <1>2, <1>3, CopyAssumption DEF IInv, TypeOK, Counted, Db
<1>5. AllOrNothing' /\ NothingOpen'
  BY <1>1, <1>2, <1>3 DEF IInv, AllOrNothing, NothingOpen
<1>6. Counted'
  BY <1>1, <1>2, <1>3, DbInTypeOK DEF IInv, Counted, Db
<1>7. /\ RowsAccounted' /\ Untouched' /\ NotEnded' /\ OwnTransaction'
      /\ CountedOnce' /\ AllInserted'
  BY <1>1, <1>3
     DEF RowsAccounted, Untouched, NotEnded, OwnTransaction, CountedOnce, AllInserted, Running
<1> QED
  BY <1>4, <1>5, <1>6, <1>7 DEF IInv

(* What the first call has done to the connection, however far it got.      *)
LEMMA PreparedFields ==
  ASSUME IInv, state = "uninitialized"
  PROVE  \A d \in {Begun, Created, CreatedAndCommitted} :
           /\ d \in Db /\ d.open = 0 /\ d.done = 0
           /\ opts.inTx => d.auto = FALSE
           /\ ~opts.inTx => d.auto = db.auto
           /\ d.auto => d.table # "open"
           /\ opts.inTx /\ d.table = "yes" => opts.commitAfter
<1>1. /\ db \in Db /\ db.open = 0 /\ db.done = 0 /\ db.table = "no"
  BY DbInTypeOK DEF IInv, Untouched
<1>2. /\ Begun \in Db /\ Begun.open = 0 /\ Begun.done = 0 /\ Begun.table = "no"
      /\ opts.inTx => Begun.auto = FALSE
      /\ ~opts.inTx => Begun.auto = db.auto
  <2>1. CASE opts.inTx
    <3>1. Begun = WithMode(db, FALSE)
      BY <2>1 DEF Begun
    <3>2. /\ WithMode(db, FALSE) \in Db /\ WithMode(db, FALSE).auto = FALSE
          /\ WithMode(db, FALSE).open = db.open /\ WithMode(db, FALSE).done = db.done
          /\ WithMode(db, FALSE).table = db.table
      BY <1>1, WithModeFields
    <3> QED
      BY <1>1, <2>1, <3>1, <3>2
  <2>2. CASE ~opts.inTx
    BY <1>1, <2>2 DEF Begun
  <2> QED
    BY <2>1, <2>2
<1> DEFINE c == [Begun EXCEPT !.table = "open"]
<1>3. /\ c \in Db /\ c.open = 0 /\ c.done = 0 /\ c.table = "open"
      /\ opts.inTx => c.auto = FALSE
      /\ ~opts.inTx => c.auto = db.auto
  BY <1>2 DEF Db
<1>4. Created = IF opts.create THEN (IF c.auto THEN Committed(c) ELSE c) ELSE Begun
  BY DEF Created, Settled
<1> HIDE DEF c
<1>5. /\ Committed(c) \in Db /\ Committed(c).auto = c.auto /\ Committed(c).open = 0
      /\ Committed(c).done = 0 /\ Committed(c).table = "yes"
  BY <1>3, CommittedFields DEF Ended
<1>6. /\ Created \in Db /\ Created.open = 0 /\ Created.done = 0
      /\ opts.inTx => Created.auto = FALSE
      /\ ~opts.inTx => Created.auto = db.auto
      /\ Created.auto => Created.table # "open"
      /\ opts.inTx => Created.table # "yes"
  BY <1>2, <1>3, <1>4, <1>5
<1>7. /\ Committed(Created) \in Db /\ Committed(Created).auto = Created.auto
      /\ Committed(Created).open = 0 /\ Committed(Created).done = 0
      /\ Committed(Created).table # "open"
  BY <1>6, CommittedFields DEF Ended
<1>8. /\ CreatedAndCommitted \in Db
      /\ CreatedAndCommitted.open = 0 /\ CreatedAndCommitted.done = 0
      /\ opts.inTx => CreatedAndCommitted.auto = FALSE
      /\ ~opts.inTx => CreatedAndCommitted.auto = db.auto
      /\ CreatedAndCommitted.auto => CreatedAndCommitted.table # "open"
      /\ opts.inTx /\ CreatedAndCommitted.table = "yes" => opts.commitAfter
  <2>1. CASE opts.create /\ opts.inTx /\ opts.commitAfter
    BY <1>6, <1>7, <2>1 DEF CreatedAndCommitted
  <2>2. CASE ~(opts.create /\ opts.inTx /\ opts.commitAfter)
    BY <1>6, <2>2 DEF CreatedAndCommitted
  <2> QED
    BY <2>1, <2>2
<1> QED
  BY <1>2, <1>6, <1>8

(* The clean-up after a failure, when d is what the failure has left.       *)
LEMMA RecoverFields ==
  ASSUME NEW d \in Db, NEW mode \in BOOLEAN, Recover(d, mode),
         d.auto => d.open = 0 /\ d.table # "open"
  PROVE  /\ db' \in Db
         /\ state' = "idle" /\ outcome' \in {"failed", "broken"}
         /\ db'.open + db'.done <= d.open + d.done
         /\ db'.auto => db'.open = 0 /\ db'.table # "open"
         /\ opts.inTx => db'.done = d.done
         /\ opts.inTx /\ outcome' = "failed" =>
              /\ db'.auto = mode
              /\ db'.open = 0
              /\ db'.table = Ended(d.table, "no")
<1> DEFINE r == RolledBack(d)
<1>1. /\ r \in Db /\ r.auto = d.auto /\ r.open = 0 /\ r.done = d.done
      /\ r.table = Ended(d.table, "no") /\ r.table # "open"
  BY RolledBackFields DEF Ended
<1>2. Recover(d, mode) <=>
        \/ opts.inTx /\ db' = WithMode(r, mode) /\ Over("failed")
        \/ opts.inTx /\ db' = d /\ Over("broken")
        \/ opts.inTx /\ db' = r /\ Over("broken")
        \/ ~opts.inTx /\ db' = d /\ Over("failed")
  BY DEF Recover
<1> HIDE DEF r
<1>3. /\ d.open \in Nat /\ d.done \in Nat
  BY DEF Db
<1>4. CASE opts.inTx /\ db' = WithMode(r, mode) /\ Over("failed")
  <2>1. /\ WithMode(r, mode) \in Db /\ WithMode(r, mode).auto = mode
        /\ WithMode(r, mode).open = 0 /\ WithMode(r, mode).done = d.done
        /\ WithMode(r, mode).table = Ended(d.table, "no")
    <3>1. /\ WithMode(r, mode) \in Db /\ WithMode(r, mode).auto = mode
          /\ ~mode => /\ WithMode(r, mode).open = r.open
                      /\ WithMode(r, mode).done = r.done
                      /\ WithMode(r, mode).table = r.table
          /\ mode => /\ WithMode(r, mode).open = 0
                     /\ WithMode(r, mode).done = r.done + r.open
                     /\ WithMode(r, mode).table = Ended(r.table, "yes")
      BY <1>1, WithModeFields
    <3> QED
      BY <1>1, <1>3, <3>1 DEF Ended
  <2> QED
    BY <1>1, <1>3, <1>4, <2>1 DEF Over
<1>5. CASE opts.inTx /\ db' = d /\ Over("broken")
  BY <1>3, <1>5 DEF Over
<1>6. CASE opts.inTx /\ db' = r /\ Over("broken")
  BY <1>1, <1>3, <1>6 DEF Over
<1>7. CASE ~opts.inTx /\ db' = d /\ Over("failed")
  BY <1>3, <1>7 DEF Over
<1> QED
  BY <1>2, <1>4, <1>5, <1>6, <1>7

-----------------------------------------------------------------------------
LEMMA StartStep ==
  ASSUME IInv, StartCopy
  PROVE  IInv'
<1>1. db \in Db /\ before' \in BOOLEAN
  BY DbInTypeOK DEF IInv, StartCopy, Db
<1>2. /\ db' \in [auto : BOOLEAN, open : 0..MaxRows, done : 0..MaxRows,
                  table : {"no", "open", "yes"}]
      /\ db'.auto = before' /\ db'.open = 0 /\ db'.done = 0 /\ db'.table = "no"
  <2> DEFINE c == [db EXCEPT !.open = 0, !.done = 0, !.table = "no"]
  <2>1. /\ c \in [auto : BOOLEAN, open : {0}, done : {0}, table : {"no"}]
        /\ c.auto = db.auto /\ c.open = 0 /\ c.done = 0 /\ c.table = "no"
    BY <1>1 DEF Db
  <2>2. db' = c /\ before' = db.auto
    BY DEF StartCopy
  <2> HIDE DEF c
  <2>3. 0 \in 0..MaxRows
    BY CopyAssumption
  <2> QED
    BY <2>1, <2>2, <2>3
<1>3. TypeOK'
  BY <1>1, <1>2, CopyAssumption DEF StartCopy, TypeOK
<1>4. Counted'
  BY <1>2, CopyAssumption DEF StartCopy, Counted
<1> QED
  BY <1>1, <1>2, <1>3, <1>4
     DEF StartCopy, IInv, AllOrNothing, RowsAccounted, Untouched, NotEnded,
         OwnTransaction, CountedOnce, AllInserted, NothingOpen, Running

LEMMA PrepareStep ==
  ASSUME IInv, Prepare
  PROVE  IInv'
<1>1. /\ db' \in Db /\ db'.open = 0 /\ db'.done = 0
      /\ opts.inTx => db'.auto = FALSE
      /\ db'.auto => db'.table # "open"
      /\ opts.inTx /\ db'.table = "yes" => opts.commitAfter
  BY PreparedFields DEF Prepare
<1>2. /\ opts \in [inTx : BOOLEAN, max : Nat, create : BOOLEAN, commitAfter : BOOLEAN]
      /\ db.auto = before /\ before \in BOOLEAN
      /\ inserted = 0 /\ inTran = 0 /\ outcome = "none"
      /\ orig' \in BOOLEAN
      /\ opts.inTx => orig' = before
  BY DbInTypeOK DEF IInv, Prepare, Untouched, NotEnded, TypeOK, OrigMode
<1>3. db' \in [auto : BOOLEAN, open : 0..MaxRows, done : 0..MaxRows,
              table : {"no", "open", "yes"}]
  BY <1>1, CopyAssumption DEF Db
<1>4. TypeOK'
  BY <1>2, <1>3 DEF Prepare, IInv, TypeOK
<1>5. Counted'
  BY <1>1, DbInTypeOK DEF Prepare, IInv, Counted, TypeOK
<1>6. AllOrNothing'
  BY <1>1, <1>2 DEF Prepare, AllOrNothing
<1>7. RowsAccounted' /\ OwnTransaction' /\ CountedOnce'
  BY <1>1, <1>2 DEF Prepare, RowsAccounted, OwnTransaction, CountedOnce, Running
<1>8. Untouched' /\ NotEnded' /\ AllInserted' /\ NothingOpen'
  BY <1>2 DEF Prepare, Untouched, NotEnded, AllInserted, NothingOpen
<1> QED
  BY <1>4, <1>5, <1>6, <1>7, <1>8 DEF IInv

(* The batch that is inserted, and what is known before it.                 *)
LEMMA BatchFields ==
  ASSUME IInv, state = "executed",
         NEW n \in Nat, inserted + n <= total
  PROVE  /\ Inserted(db, n) \in Db
         /\ Inserted(db, n).open + Inserted(db, n).done = inserted + n
         /\ Inserted(db, n).auto = db.auto
         /\ db.auto => Inserted(db, n).open = 0 /\ Inserted(db, n).table # "open"
         /\ opts.inTx => /\ ~db.auto
                         /\ Inserted(db, n).open = inTran + n
                         /\ Inserted(db, n).done = db.done
                         /\ Inserted(db, n).table = db.table
<1>1. /\ db \in Db /\ inserted = db.open + db.done
      /\ opts.inTx => ~db.auto /\ db.open = inTran
      /\ db.open \in Nat /\ db.done \in Nat
  BY DbInTypeOK DEF IInv, RowsAccounted, OwnTransaction, Running, Db
<1>2. /\ Inserted(db, n) \in Db /\ Inserted(db, n).auto = db.auto
      /\ ~db.auto => /\ Inserted(db, n).open = db.open + n
                     /\ Inserted(db, n).done = db.done
                     /\ Inserted(db, n).table = db.table
      /\ db.auto => /\ Inserted(db, n).open = 0
                    /\ Inserted(db, n).done = db.done + db.open + n
                    /\ Inserted(db, n).table = Ended(db.table, "yes")
  BY <1>1, InsertedFields
<1>3. inserted \in Nat
  BY DbInTypeOK DEF IInv
<1>4. CASE db.auto
  <2>1. Inserted(db, n).table # "open"
    BY <1>2, <1>4 DEF Ended
  <2>2. Inserted(db, n).open + Inserted(db, n).done = inserted + n
    BY <1>1, <1>2, <1>3, <1>4
  <2> QED
    BY <1>1, <1>2, <1>4, <2>1, <2>2
<1>5. CASE ~db.auto
  <2>1. Inserted(db, n).open + Inserted(db, n).done = inserted + n
    BY <1>1, <1>2, <1>3, <1>5
  <2> QED
    BY <1>1, <1>2, <1>5, <2>1
<1> QED
  BY <1>4, <1>5

LEMMA InsertStep ==
  ASSUME IInv, InsertBatch
  PROVE  IInv'
<1>1. PICK n \in 1..BatchSize :
        /\ inserted + n <= total /\ inserted' = inserted + n
        /\ \/ TooLong(n) /\ db' = Committed(Inserted(db, n)) /\ inTran' = 0
           \/ ~TooLong(n) /\ db' = Inserted(db, n) /\ inTran' = inTran + n
  BY DEF InsertBatch
<1>2. /\ n \in Nat /\ state = "executed" /\ outcome = "none"
      /\ UNCHANGED <<opts, total, state, orig, outcome, before>>
      /\ opts \in [inTx : BOOLEAN, max : Nat, create : BOOLEAN, commitAfter : BOOLEAN]
      /\ inTran \in Nat /\ inserted \in Nat /\ total \in 1..MaxRows /\ total \in Nat
  BY DbInTypeOK, CopyAssumption DEF InsertBatch, IInv, NotEnded, TypeOK
<1> DEFINE d == Inserted(db, n)
<1>3. /\ d \in Db /\ d.open + d.done = inserted + n
      /\ d.auto = db.auto
      /\ db.auto => d.open = 0 /\ d.table # "open"
      /\ opts.inTx => /\ ~db.auto /\ d.open = inTran + n
                      /\ d.done = db.done /\ d.table = db.table
  BY <1>1, <1>2, BatchFields
<1> HIDE DEF d
<1>4. /\ Committed(d) \in Db /\ Committed(d).auto = d.auto /\ Committed(d).open = 0
      /\ Committed(d).done = d.done + d.open
      /\ Committed(d).table = Ended(d.table, "yes")
  BY <1>3, CommittedFields
<1>5. d.open \in Nat /\ d.done \in Nat
  BY <1>3 DEF Db
<1>6. /\ db' \in Db /\ db'.open + db'.done = inserted' /\ db'.auto = db.auto
      /\ db'.auto => db'.open = 0 /\ db'.table # "open"
      /\ opts.inTx => db'.open = inTran'
      /\ opts.inTx /\ opts.max > 0 => inTran' <= opts.max
      /\ opts.inTx /\ opts.max = 0 => db'.done = db.done /\ db'.table = db.table
  <2>1. CASE TooLong(n)
    <3>1. db' = Committed(d) /\ inTran' = 0
      BY <1>1, <2>1 DEF d
    <3> QED
      BY <1>1, <1>2, <1>3, <1>4, <1>5, <2>1, <3>1 DEF TooLong, Ended
  <2>2. CASE ~TooLong(n)
    <3>1. db' = d /\ inTran' = inTran + n
      BY <1>1, <2>2 DEF d
    <3> QED
      BY <1>1, <1>2, <1>3, <1>5, <2>2, <3>1 DEF TooLong
  <2> QED
    BY <2>1, <2>2
<1>7. /\ inserted' \in 0..total /\ inTran' \in 0..total /\ inTran' <= inserted'
      /\ db'.open \in 0..MaxRows /\ db'.done \in 0..MaxRows
  <2>1. db'.open \in Nat /\ db'.done \in Nat /\ inserted' \in Nat /\ inserted' <= total
    BY <1>1, <1>2, <1>6 DEF Db
  <2>2. inTran' \in Nat /\ inTran' <= inserted'
    <3>1. inTran <= inserted
      BY <1>2 DEF IInv, CountedOnce, Running
    <3> QED
      BY <1>1, <1>2, <3>1
  <2>3. db'.open <= MaxRows /\ db'.done <= MaxRows
    BY <1>2, <1>6, <2>1, CopyAssumption
  <2> QED
    BY <1>2, <2>1, <2>2, <2>3, CopyAssumption
<1>8. TypeOK'
  BY <1>2, <1>6, <1>7 DEF IInv, TypeOK, Db
<1>9. Counted' /\ RowsAccounted'
  BY <1>1, <1>2, <1>6, <1>7 DEF Counted, RowsAccounted
<1>10. OwnTransaction' /\ AllOrNothing' /\ CountedOnce'
  BY <1>2, <1>6, <1>7 DEF IInv, OwnTransaction, AllOrNothing, CountedOnce, Running
<1>11. Untouched' /\ NotEnded' /\ AllInserted' /\ NothingOpen'
  BY <1>2 DEF Untouched, NotEnded, AllInserted, NothingOpen
<1> QED
  BY <1>8, <1>9, <1>10, <1>11 DEF IInv

-----------------------------------------------------------------------------
(* The final call commits what is open and turns auto-commit on if it was   *)
(* on before the copy.                                                      *)
LEMMA FinalFields ==
  ASSUME IInv, state = "exhausted", opts.inTx
  PROVE  /\ WithMode(Committed(db), orig) \in Db
         /\ WithMode(Committed(db), orig).auto = orig
         /\ WithMode(Committed(db), orig).open = 0
         /\ WithMode(Committed(db), orig).done = db.done + db.open
         /\ WithMode(Committed(db), orig).table = Ended(db.table, "yes")
<1> DEFINE c == Committed(db)
<1>1. db \in Db /\ orig \in BOOLEAN /\ db.open \in Nat /\ db.done \in Nat
  BY DbInTypeOK DEF IInv, TypeOK, Db
<1>2. /\ c \in Db /\ c.open = 0 /\ c.done = db.done + db.open
      /\ c.table = Ended(db.table, "yes") /\ c.table # "open"
  BY <1>1, CommittedFields DEF Ended
<1> HIDE DEF c
<1>3. /\ WithMode(c, orig) \in Db /\ WithMode(c, orig).auto = orig
      /\ ~orig => /\ WithMode(c, orig).open = c.open
                  /\ WithMode(c, orig).done = c.done
                  /\ WithMode(c, orig).table = c.table
      /\ orig => /\ WithMode(c, orig).open = 0
                 /\ WithMode(c, orig).done = c.done + c.open
                 /\ WithMode(c, orig).table = Ended(c.table, "yes")
  BY <1>1, <1>2, WithModeFields
<1>4. Ended(c.table, "yes") = c.table
  BY <1>2 DEF Ended
<1>5. WithMode(c, orig) \in Db /\ WithMode(c, orig).auto = orig
      /\ WithMode(c, orig).open = 0
      /\ WithMode(c, orig).done = db.done + db.open
      /\ WithMode(c, orig).table = Ended(db.table, "yes")
  BY <1>1, <1>2, <1>3, <1>4
<1> QED
  BY <1>5 DEF c

(* A copy that has ended: nothing more is asked of its counters.            *)
LEMMA EndedStep ==
  ASSUME IInv, db' \in Db, state' = "idle",
         outcome' \in {"ok", "failed", "stopped", "broken"},
         UNCHANGED <<opts, total, inserted, inTran, before>>, orig' \in BOOLEAN,
         db'.open + db'.done <= total,
         db'.auto => db'.open = 0 /\ db'.table # "open",
         opts.inTx /\ outcome' \notin {"stopped", "broken"} =>
           /\ db'.open = 0 /\ db'.table # "open"
           /\ opts.max = 0 => AllOrNothing'
  PROVE  IInv'
<1>1. db'.open \in 0..MaxRows /\ db'.done \in 0..MaxRows
  <2>1. db'.open \in Nat /\ db'.done \in Nat /\ total \in 1..MaxRows
    BY DEF Db, IInv, TypeOK
  <2> QED
    BY <2>1, CopyAssumption
<1>2. TypeOK'
  BY <1>1 DEF IInv, TypeOK, Db
<1>3. AllOrNothing'
  BY DEF AllOrNothing
<1>4. Counted' /\ NothingOpen'
  BY DEF Counted, NothingOpen
<1>5. /\ RowsAccounted' /\ Untouched' /\ NotEnded' /\ OwnTransaction'
      /\ CountedOnce' /\ AllInserted'
  BY DEF RowsAccounted, Untouched, NotEnded, OwnTransaction, CountedOnce, AllInserted, Running
<1> QED
  BY <1>2, <1>3, <1>4, <1>5 DEF IInv

LEMMA FinalStep ==
  ASSUME IInv, FinalCall
  PROVE  IInv'
<1>1. /\ db \in Db /\ db.open \in Nat /\ db.done \in Nat /\ orig \in BOOLEAN
      /\ db.open + db.done = total
      /\ total \in Nat
      /\ db.auto => db.open = 0 /\ db.table # "open"
  BY DbInTypeOK
     DEF IInv, FinalCall, RowsAccounted, AllInserted, Counted, TypeOK, Db
<1>2. CASE opts.inTx
  <2>1. /\ db' \in Db /\ db'.auto = orig /\ db'.open = 0
        /\ db'.done = db.done + db.open
        /\ db'.table = Ended(db.table, "yes") /\ db'.table # "open"
    BY <1>2, FinalFields DEF FinalCall, Ended
  <2>2. db'.done = total
    BY <1>1, <2>1
  <2>3. AllOrNothing'
    BY <2>2 DEF AllOrNothing, FinalCall
  <2> QED
    BY <1>1, <2>1, <2>2, <2>3, EndedStep DEF FinalCall, Over
<1>3. CASE ~opts.inTx
  <2>1. db' = db
    BY <1>3 DEF FinalCall
  <2> QED
    BY <1>1, <1>3, <2>1, EndedStep DEF FinalCall, Over
<1> QED
  BY <1>2, <1>3

LEMMA CompleteStep ==
  ASSUME IInv, Complete
  PROVE  IInv'
<1>1. UNCHANGED <<db, opts, total, orig, inserted, inTran, outcome, before>>
      /\ state = "executed" /\ state' = "exhausted" /\ inserted = total
  BY DEF Complete
<1> QED
  BY <1>1
     DEF IInv, TypeOK, AllOrNothing, RowsAccounted, Counted, Untouched, NotEnded,
         OwnTransaction, CountedOnce, AllInserted, NothingOpen, Running

(* The failures that leave the connection as it was.                        *)
LEMMA LeftAsItIs ==
  ASSUME IInv, BeginFails \/ Stop
  PROVE  IInv'
<1>1. /\ state # "idle" /\ state' = "idle" /\ outcome' \in {"failed", "stopped"}
      /\ UNCHANGED <<db, opts, total, orig, inserted, inTran, before>>
      /\ outcome' # "stopped" => state = "uninitialized"
  BY DEF BeginFails, Stop, Over
<1>2. /\ db' \in Db /\ orig' \in BOOLEAN
      /\ db'.open + db'.done <= total
      /\ db'.auto => db'.open = 0 /\ db'.table # "open"
  BY <1>1, DbInTypeOK DEF IInv, Counted, TypeOK
<1>3. outcome' # "stopped" =>
        /\ db'.open = 0 /\ db'.done = 0 /\ db'.table = "no"
        /\ AllOrNothing'
  BY <1>1 DEF IInv, Untouched, AllOrNothing
<1> QED
  BY <1>1, <1>2, <1>3, EndedStep

LEMMA PrepareFailsStep ==
  ASSUME IInv, PrepareFails
  PROVE  IInv'
<1>1. PICK d \in {Begun, Created, CreatedAndCommitted} : Recover(d, orig')
  BY DEF PrepareFails
<1>2. /\ state = "uninitialized" /\ orig' = OrigMode
      /\ UNCHANGED <<opts, total, inserted, inTran, before>>
  BY DEF PrepareFails
<1>3. /\ d \in Db /\ d.open = 0 /\ d.done = 0
      /\ opts.inTx => d.auto = FALSE
      /\ d.auto => d.table # "open"
      /\ opts.inTx /\ d.table = "yes" => opts.commitAfter
  BY <1>1, <1>2, PreparedFields
<1>4. orig' \in BOOLEAN
  BY <1>2, DbInTypeOK DEF OrigMode, IInv, TypeOK, Db
<1>5. /\ db' \in Db /\ state' = "idle" /\ outcome' \in {"failed", "broken"}
      /\ db'.open + db'.done <= d.open + d.done
      /\ db'.auto => db'.open = 0 /\ db'.table # "open"
      /\ opts.inTx => db'.done = d.done
      /\ opts.inTx /\ outcome' = "failed" =>
           db'.open = 0 /\ db'.table = Ended(d.table, "no")
  BY <1>1, <1>3, <1>4, RecoverFields
<1>6. db'.open + db'.done <= total
  BY <1>3, <1>5, DbInTypeOK DEF IInv, Db
<1>7. opts.inTx /\ outcome' = "failed" =>
        /\ db'.open = 0 /\ db'.table # "open"
        /\ AllOrNothing'
  BY <1>2, <1>3, <1>5 DEF AllOrNothing, Ended
<1> QED
  BY <1>2, <1>4, <1>5, <1>6, <1>7, EndedStep

LEMMA BatchFailsStep ==
  ASSUME IInv, BatchFails
  PROVE  IInv'
<1>1. PICK n \in 0..BatchSize : inserted + n <= total /\ Recover(Inserted(db, n), orig)
  BY DEF BatchFails
<1>2. /\ state = "executed" /\ n \in Nat /\ orig \in BOOLEAN
      /\ UNCHANGED <<opts, total, orig, inserted, inTran, before>>
  BY DEF BatchFails, IInv, TypeOK
<1> DEFINE d == Inserted(db, n)
<1>3. /\ d \in Db /\ d.open + d.done = inserted + n
      /\ d.auto = db.auto
      /\ d.auto => d.open = 0 /\ d.table # "open"
      /\ opts.inTx => d.done = db.done /\ d.table = db.table
  BY <1>1, <1>2, BatchFields
<1>4. Recover(d, orig)
  BY <1>1
<1> HIDE DEF d
<1>5. /\ db' \in Db /\ state' = "idle" /\ outcome' \in {"failed", "broken"}
      /\ db'.open + db'.done <= d.open + d.done
      /\ db'.auto => db'.open = 0 /\ db'.table # "open"
      /\ opts.inTx => db'.done = d.done
      /\ opts.inTx /\ outcome' = "failed" =>
           db'.open = 0 /\ db'.table = Ended(d.table, "no")
  BY <1>2, <1>3, <1>4, RecoverFields
<1>6. db'.open + db'.done <= total
  BY <1>1, <1>2, <1>3, <1>5, DbInTypeOK DEF IInv, Db
<1>7. opts.inTx /\ opts.max = 0 => db.done = 0 /\ (db.table = "yes" => opts.commitAfter)
  BY <1>2 DEF IInv, OwnTransaction, Running
<1>8. opts.inTx /\ outcome' = "failed" =>
        /\ db'.open = 0 /\ db'.table # "open"
        /\ opts.max = 0 => AllOrNothing'
  BY <1>2, <1>3, <1>5, <1>7 DEF AllOrNothing, Ended
<1> QED
  BY <1>2, <1>5, <1>6, <1>8, EndedStep

LEMMA FinalFailsStep ==
  ASSUME IInv, FinalFails
  PROVE  IInv'
<1>1. /\ db \in Db /\ db.open \in Nat /\ db.done \in Nat /\ total \in Nat
      /\ db.open + db.done <= total
      /\ db.auto => db.open = 0 /\ db.table # "open"
      /\ orig \in BOOLEAN
  BY DbInTypeOK DEF IInv, Counted, TypeOK, Db
<1>2. /\ db' \in {db, Committed(db)} /\ state' = "idle" /\ outcome' = "broken"
      /\ UNCHANGED <<opts, total, orig, inserted, inTran, before>>
  BY DEF FinalFails, Over
<1>3. /\ Committed(db) \in Db /\ Committed(db).auto = db.auto
      /\ Committed(db).open = 0 /\ Committed(db).done = db.done + db.open
      /\ Committed(db).table # "open"
  BY <1>1, CommittedFields DEF Ended
<1>4. /\ db' \in Db /\ db'.open + db'.done <= total
      /\ db'.auto => db'.open = 0 /\ db'.table # "open"
  BY <1>1, <1>2, <1>3
<1> QED
  BY <1>1, <1>2, <1>4, EndedStep

(* IInv is inductive.                                                       *)
THEOREM StepIInv == IInv /\ [Next]_vars => IInv'
<1> SUFFICES ASSUME IInv, [Next]_vars PROVE IInv'
  OBVIOUS
<1>1. CASE UserBegin \/ UserCommit \/ UserRollback
  BY <1>1, UserStep
<1>2. CASE StartCopy
  BY <1>2, StartStep
<1>3. CASE CopyCall
  BY <1>3, PrepareStep, InsertStep, CompleteStep, FinalStep, LeftAsItIs, PrepareFailsStep,
     BatchFailsStep, FinalFailsStep DEF CopyCall
<1>4. CASE Stop
  BY <1>4, LeftAsItIs
<1>5. CASE UNCHANGED vars
  BY <1>5
     DEF vars, IInv, TypeOK, AllOrNothing, RowsAccounted, Counted, Untouched, NotEnded,
         OwnTransaction, CountedOnce, AllInserted, NothingOpen, Running
<1> QED
  BY <1>1, <1>2, <1>3, <1>4, <1>5 DEF Next

(* IInv holds in every state of every copy.                                 *)
THEOREM AlwaysIInv == Spec => []IInv
BY InitIInv, StepIInv, PTL DEF Spec

(* Every variable of Copy and of the connection keeps its type: no more     *)
(* rows are inserted, or committed, than the source has.                    *)
THEOREM TypeCorrect == Spec => []TypeOK
<1>1. IInv => TypeOK
  BY DEF IInv
<1> QED
  BY <1>1, AlwaysIInv, PTL

(* A copy in one transaction inserts all of its rows or none, whichever     *)
(* driver call fails.                                                       *)
THEOREM CopyIsAtomic == Spec => []AllOrNothing
<1>1. IInv => AllOrNothing
  BY DEF IInv
<1> QED
  BY <1>1, AlwaysIInv, PTL

(* The numbers the result rows report are those of the database.            *)
THEOREM CopyCountsRows == Spec => []RowsAccounted
<1>1. IInv => RowsAccounted
  BY DEF IInv
<1> QED
  BY <1>1, AlwaysIInv, PTL

-----------------------------------------------------------------------------
(* What the end of a copy leaves, and what one call may commit.             *)
CleanEnd ==
  state # "idle" /\ outcome' \in {"ok", "failed"} /\ opts.inTx =>
    db'.open = 0 /\ db'.auto = before

BoundedCommit ==
  state # "idle" /\ opts.inTx /\ opts.max > 0 =>
    db'.done <= db.done + opts.max + BatchSize

LEMMA StepCleanEnd == IInv /\ [Next]_vars => CleanEnd
<1> SUFFICES ASSUME IInv, [Next]_vars, state # "idle",
                    outcome' \in {"ok", "failed"}, opts.inTx
             PROVE  db'.open = 0 /\ db'.auto = before
  BY DEF CleanEnd
<1>1. outcome = "none"
  BY DEF IInv, NotEnded
<1>2. CASE BeginFails
  BY <1>2 DEF BeginFails, IInv, Untouched
<1>3. CASE PrepareFails
  <2>1. PICK d \in {Begun, Created, CreatedAndCommitted} : Recover(d, orig')
    BY <1>3 DEF PrepareFails
  <2>2. state = "uninitialized" /\ orig' = OrigMode /\ db.auto = before /\ before \in BOOLEAN
    BY <1>3 DEF PrepareFails, IInv, Untouched, TypeOK
  <2>3. orig' = before
    BY <2>2 DEF OrigMode
  <2>4. d \in Db /\ d.open = 0 /\ (d.auto => d.table # "open")
    BY <2>1, <2>2, PreparedFields
  <2> QED
    BY <2>1, <2>2, <2>3, <2>4, RecoverFields
<1>4. CASE BatchFails
  <2>1. PICK n \in 0..BatchSize : inserted + n <= total /\ Recover(Inserted(db, n), orig)
    BY <1>4 DEF BatchFails
  <2>2. state = "executed" /\ orig = before /\ orig \in BOOLEAN
    BY <1>4 DEF BatchFails, IInv, OwnTransaction, Running, TypeOK
  <2>3. /\ Inserted(db, n) \in Db
        /\ Inserted(db, n).auto = db.auto
        /\ db.auto => Inserted(db, n).open = 0 /\ Inserted(db, n).table # "open"
    BY <2>1, <2>2, BatchFields
  <2> QED
    BY <2>1, <2>2, <2>3, RecoverFields
<1>5. CASE FinalCall
  <2>1. orig = before
    BY <1>5 DEF FinalCall, IInv, OwnTransaction, Running
  <2> QED
    BY <1>5, <2>1, FinalFields DEF FinalCall
<1>6. CASE FinalFails \/ Stop
  BY <1>6 DEF FinalFails, Stop, Over
<1>7. CASE Prepare \/ InsertBatch \/ Complete
  BY <1>1, <1>7 DEF Prepare, InsertBatch, Complete
<1>8. CASE UserBegin \/ UserCommit \/ UserRollback \/ StartCopy
  BY <1>8 DEF UserBegin, UserCommit, UserRollback, StartCopy
<1>9. CASE UNCHANGED vars
  BY <1>1, <1>9 DEF vars
<1> QED
  BY <1>2, <1>3, <1>4, <1>5, <1>6, <1>7, <1>8, <1>9 DEF Next, CopyCall

LEMMA StepBoundedCommit == IInv /\ [Next]_vars => BoundedCommit
<1> SUFFICES ASSUME IInv, [Next]_vars, state # "idle", opts.inTx, opts.max > 0
             PROVE  db'.done <= db.done + opts.max + BatchSize
  BY DEF BoundedCommit
<1>1. /\ db \in Db /\ db.done \in Nat /\ db.open \in Nat /\ BatchSize \in Nat
      /\ opts.max \in Nat /\ inTran \in Nat
      /\ Running => db.open = inTran /\ inTran <= opts.max
  BY DbInTypeOK, CopyAssumption DEF IInv, OwnTransaction, Db
<1>2. CASE Prepare
  <2>1. db'.done = 0
    BY <1>2, PreparedFields DEF Prepare
  <2> QED
    BY <1>1, <2>1
<1>3. CASE InsertBatch
  <2>1. PICK n \in 1..BatchSize :
          /\ inserted + n <= total
          /\ \/ db' = Committed(Inserted(db, n))
             \/ db' = Inserted(db, n)
    BY <1>3 DEF InsertBatch
  <2>2. state = "executed" /\ n \in Nat /\ n <= BatchSize
    BY <1>1, <1>3 DEF InsertBatch
  <2> DEFINE d == Inserted(db, n)
  <2>3. d \in Db /\ d.open = inTran + n /\ d.done = db.done
    BY <2>1, <2>2, BatchFields
  <2>4. db' = Committed(d) \/ db' = d
    BY <2>1
  <2> HIDE DEF d
  <2>5. Committed(d).done = d.done + d.open
    BY <2>3, CommittedFields
  <2>6. inTran <= opts.max
    BY <1>1, <2>2 DEF Running
  <2>7. CASE db' = Committed(d)
    <3>1. db'.done = db.done + (inTran + n)
      BY <2>3, <2>5, <2>7
    <3> QED
      BY <1>1, <2>2, <2>6, <3>1
  <2>8. CASE db' = d
    BY <1>1, <2>3, <2>8
  <2> QED
    BY <2>4, <2>7, <2>8
<1>4. CASE FinalCall
  <2>1. db'.done = db.done + db.open
    BY <1>4, FinalFields DEF FinalCall
  <2>2. db.open <= opts.max
    BY <1>1, <1>4 DEF FinalCall, Running
  <2> QED
    BY <1>1, <2>1, <2>2
<1>5. CASE FinalFails
  <2>1. db.open <= opts.max
    BY <1>1, <1>5 DEF FinalFails, Running
  <2>2. Committed(db).done = db.done + db.open
    BY <1>1, CommittedFields
  <2>3. db' = db \/ db' = Committed(db)
    BY <1>5 DEF FinalFails
  <2> QED
    BY <1>1, <2>1, <2>2, <2>3
<1>6. CASE PrepareFails
  <2>1. PICK d \in {Begun, Created, CreatedAndCommitted} : Recover(d, orig')
    BY <1>6 DEF PrepareFails
  <2>2. state = "uninitialized" /\ orig' \in BOOLEAN
    BY <1>1, <1>6 DEF PrepareFails, OrigMode, Db
  <2>3. d \in Db /\ d.open = 0 /\ d.done = 0 /\ (d.auto => d.table # "open")
    BY <2>1, <2>2, PreparedFields
  <2>4. db'.done = 0
    BY <2>1, <2>2, <2>3, RecoverFields
  <2> QED
    BY <1>1, <2>4
<1>7. CASE BatchFails
  <2>1. PICK n \in 0..BatchSize : inserted + n <= total /\ Recover(Inserted(db, n), orig)
    BY <1>7 DEF BatchFails
  <2>2. state = "executed" /\ orig \in BOOLEAN /\ n \in Nat
    BY <1>7 DEF BatchFails, IInv, TypeOK
  <2>3. /\ Inserted(db, n) \in Db
        /\ Inserted(db, n).auto = db.auto
        /\ db.auto => Inserted(db, n).open = 0 /\ Inserted(db, n).table # "open"
        /\ Inserted(db, n).done = db.done
    BY <2>1, <2>2, BatchFields
  <2>4. db'.done = db.done
    BY <2>1, <2>2, <2>3, RecoverFields
  <2> QED
    BY <1>1, <2>4
<1>8. CASE Complete \/ BeginFails \/ Stop \/ UNCHANGED vars
  <2>1. db' = db
    BY <1>8 DEF Complete, BeginFails, Stop, vars
  <2> QED
    BY <1>1, <2>1
<1>9. CASE UserBegin \/ UserCommit \/ UserRollback \/ StartCopy
  BY <1>9 DEF UserBegin, UserCommit, UserRollback, StartCopy
<1> QED
  BY <1>2, <1>3, <1>4, <1>5, <1>6, <1>7, <1>8, <1>9 DEF Next, CopyCall

(* A copy that has run to its end, or has failed and cleaned up, leaves the *)
(* connection in the mode it found, with nothing open.                      *)
THEOREM CopyEndsClean == Spec => EndsClean
<1>1. IInv /\ [Next]_vars => [CleanEnd]_vars
  BY StepCleanEnd
<1>2. EndsClean <=> [][CleanEnd]_vars
  BY PTL DEF EndsClean, CleanEnd
<1> QED
  BY <1>1, <1>2, AlwaysIInv, PTL DEF Spec

(* No commit of a copy covers more rows than max_records_in_transaction and *)
(* one batch on top.                                                        *)
THEOREM CommitsAreBounded == Spec => TransactionBounded
<1>1. IInv /\ [Next]_vars => [BoundedCommit]_vars
  BY StepBoundedCommit
<1>2. TransactionBounded <=> [][BoundedCommit]_vars
  BY PTL DEF TransactionBounded, BoundedCommit
<1> QED
  BY <1>1, <1>2, AlwaysIInv, PTL DEF Spec

=============================================================================
