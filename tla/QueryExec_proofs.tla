-------------------------- MODULE QueryExec_proofs --------------------------
(***************************************************************************)
(* Theorems about QueryExec for every vector size, every size of a result  *)
(* and any number of runs.                                                 *)
(***************************************************************************)
EXTENDS QueryExec, SequenceTheorems, TLAPS

(* What the run has returned are the first rows of its own result.          *)
OutIsPrefix == \A i \in 1..Len(out) : out[i] = [run |-> run, no |-> i]

(* Where the run stands says what is on the statement handle, and how far   *)
(* the run has got.                                                         *)
StateOK ==
  /\ effects =< 1
  /\ exec_state # "idle" => run > 0
  /\ IF rowset THEN size =< MaxRows ELSE run > 0 => size = 1
  /\ exec_state = "uninitialized" => effects = 0 /\ out = << >>
  /\ exec_state = "uninitialized" /\ prev \in {"ok", "ignored"} => ~cursor.open
  /\ exec_state = "executed" =>
       /\ effects = 1
       /\ cursor.open /\ cursor.run = run
       /\ cursor.pos = Len(out) /\ cursor.total = size
  /\ exec_state = "exhausted" => effects = 1 /\ ~cursor.open /\ Len(out) = size
  /\ exec_state = "idle" /\ outcome \in {"ok", "ignored"} => ~cursor.open
  /\ exec_state = "idle" /\ outcome = "ok" => Len(out) = size /\ (run > 0 => effects = 1)
  /\ out # << >> => effects = 1

QInv == TypeOK /\ OutIsPrefix /\ StateOK

-----------------------------------------------------------------------------
(* A call that returns the next rows of the run's result adds them to what  *)
(* the run has returned, and ends the run when there are none.              *)
LEMMA Returned ==
  ASSUME TypeOK, OutIsPrefix,
         NEW rows \in Seq(Row), NEW next, Len(rows) =< VectorSize,
         \A i \in 1..Len(rows) : rows[i] = [run |-> run, no |-> Len(out) + i],
         Return(rows, next)
  PROVE  /\ chunk' \in 0..VectorSize
         /\ out' \in Seq(Row) /\ Len(out') = Len(out) + Len(rows)
         /\ OutIsPrefix'
         /\ rows = << >> => out' = out /\ exec_state' = "idle" /\ outcome' = "ok"
         /\ rows # << >> => out' # << >> /\ exec_state' = next /\ outcome' = outcome
         /\ UNCHANGED <<opts, rowset, run, size, prev>>
<1>1. /\ out \in Seq(Row) /\ Len(out) \in Nat /\ Len(rows) \in Nat
      /\ out' = out \o rows /\ run' = run
  BY LenProperties DEF TypeOK, Return
<1>2. /\ out' \in Seq(Row)
      /\ Len(out') = Len(out) + Len(rows)
      /\ \A i \in 1..Len(out) + Len(rows) :
           out'[i] = IF i =< Len(out) THEN out[i] ELSE rows[i - Len(out)]
  BY <1>1, ConcatProperties
<1>3. OutIsPrefix'
  <2> SUFFICES ASSUME NEW i \in 1..Len(out) + Len(rows)
               PROVE  out'[i] = [run |-> run, no |-> i]
    BY <1>1, <1>2 DEF OutIsPrefix
  <2>1. CASE i =< Len(out)
    BY <2>1, <1>1, <1>2 DEF OutIsPrefix
  <2>2. CASE i > Len(out)
    <3>1. i - Len(out) \in 1..Len(rows) /\ Len(out) + (i - Len(out)) = i
      BY <2>2, <1>1
    <3> QED  BY <3>1, <2>2, <1>1, <1>2
  <2> QED  BY <2>1, <2>2, <1>1
<1>4. rows = << >> => out' = out
  BY <1>1, ConcatEmptySeq
<1>5. rows # << >> => out' # << >>
  BY <1>1, ConcatEqualIffEmpty
<1>6. chunk' \in 0..VectorSize
  BY <1>1, QueryAssumption DEF Return
<1> QED  BY <1>2, <1>3, <1>4, <1>5, <1>6 DEF Return

CursorType == [open : BOOLEAN, run : 0..MaxRuns, pos : 0..MaxRows, total : 0..MaxRows]

(* The rows between a cursor's position and the end of its result.          *)
LEMMA RowsOfCursor ==
  ASSUME NEW c \in CursorType, c.run > 0, c.pos =< c.total,
         NEW n \in Nat, n =< Left(c)
  PROVE  /\ Rows(c, n) \in Seq(Row) /\ Len(Rows(c, n)) = n
         /\ \A i \in 1..n : Rows(c, n)[i] = [run |-> c.run, no |-> c.pos + i]
         /\ Rows(c, n) = << >> <=> n = 0
         /\ Advanced(c, n) \in CursorType
         /\ Advanced(c, n).pos =< Advanced(c, n).total
         /\ Advanced(c, n) = [open |-> c.open, run |-> c.run, pos |-> c.pos + n, total |-> c.total]
<1>1. c.pos \in 0..MaxRows /\ c.total \in 0..MaxRows /\ c.run \in 1..MaxRuns
  BY QueryAssumption DEF CursorType
<1>2. Left(c) \in Nat /\ c.pos + n =< c.total
  BY <1>1, QueryAssumption DEF Left
<1>3. \A i \in 1..n : [run |-> c.run, no |-> c.pos + i] \in Row
  BY <1>1, <1>2, QueryAssumption DEF Row
<1>4. Rows(c, n) \in [1..n -> Row]
  BY <1>3 DEF Rows
<1>5. Rows(c, n) \in Seq(Row)
  BY <1>4, SeqDef
<1>6. Len(Rows(c, n)) = n
  BY <1>4, <1>5, LenProperties DEF Rows
<1>7. Rows(c, n) = << >> <=> n = 0
  BY <1>5, <1>6, EmptySeq
<1>8. Advanced(c, n) = [open |-> c.open, run |-> c.run, pos |-> c.pos + n, total |-> c.total]
  BY DEF CursorType, Advanced
<1>9. /\ Advanced(c, n) \in CursorType
      /\ Advanced(c, n).pos =< Advanced(c, n).total
  BY <1>1, <1>2, <1>8, QueryAssumption DEF CursorType
<1> QED  BY <1>5, <1>6, <1>7, <1>8, <1>9 DEF Rows

(* A call that fetches from the cursor of its own run.                      *)
LEMMA FetchKeepsInv ==
  ASSUME QInv, run > 0, NEW c \in CursorType,
         c.open, c.run = run, c.pos = Len(out), c.pos =< c.total, c.total = size,
         FetchRows(c), effects' = 1
  PROVE  QInv'
<1> USE QueryAssumption
<1>1. /\ TypeOK /\ OutIsPrefix /\ StateOK
      /\ c.pos \in Nat /\ c.total \in Nat /\ Left(c) \in Nat
  BY DEF QInv, CursorType, Left
<1>2. CASE FullChunk(c)
  <2> DEFINE rows == Rows(c, VectorSize)
  <2>0. VectorSize \in Nat /\ VectorSize =< Left(c) /\ cursor' = Advanced(c, VectorSize)
    BY <1>2 DEF FullChunk
  <2>a. /\ rows \in Seq(Row) /\ Len(rows) = VectorSize
        /\ \A i \in 1..VectorSize : rows[i] = [run |-> c.run, no |-> c.pos + i]
        /\ rows = << >> <=> VectorSize = 0
        /\ cursor' \in CursorType /\ cursor'.pos =< cursor'.total
        /\ cursor' = [open |-> c.open, run |-> c.run, pos |-> c.pos + VectorSize, total |-> c.total]
    BY <2>0, RowsOfCursor
  <2>1. /\ \A i \in 1..Len(rows) : rows[i] = [run |-> run, no |-> Len(out) + i]
        /\ rows # << >> /\ Len(rows) =< VectorSize
        /\ cursor'.open /\ cursor'.run = run
        /\ cursor'.pos = Len(out) + VectorSize /\ cursor'.total = size
    BY <2>a
  <2>2. Return(rows, "executed")
    BY <1>2 DEF FullChunk
  <2>3. /\ chunk' \in 0..VectorSize
        /\ out' \in Seq(Row) /\ Len(out') = Len(out) + VectorSize /\ out' # << >>
        /\ OutIsPrefix'
        /\ exec_state' = "executed" /\ outcome' = outcome
        /\ UNCHANGED <<opts, rowset, run, size, prev>>
    BY <1>1, <2>a, <2>1, <2>2, Returned
  <2>4. TypeOK'
    BY <1>1, <2>a, <2>3 DEF TypeOK, CursorType
  <2>5. StateOK'
    BY <1>1, <2>1, <2>3 DEF StateOK
  <2> QED  BY <2>3, <2>4, <2>5 DEF QInv
<1>3. CASE LastChunk(c)
  <2> DEFINE n == Left(c)
             rows == Rows(c, n)
  <2>0. n \in Nat /\ n =< Left(c) /\ n < VectorSize /\ c.pos + n = c.total
    BY <1>1, <1>3 DEF LastChunk, Left
  <2>a. /\ rows \in Seq(Row) /\ Len(rows) = n
        /\ \A i \in 1..n : rows[i] = [run |-> c.run, no |-> c.pos + i]
    BY <2>0, RowsOfCursor
  <2>1. /\ \A i \in 1..Len(rows) : rows[i] = [run |-> run, no |-> Len(out) + i]
        /\ Len(rows) =< VectorSize
        /\ Len(out) + Len(rows) = size
    BY <2>0, <2>a
  <2>2. Return(rows, "exhausted") /\ cursor' = Closed
    BY <1>3 DEF LastChunk
  <2>3. /\ chunk' \in 0..VectorSize
        /\ out' \in Seq(Row) /\ Len(out') = size
        /\ OutIsPrefix'
        /\ \/ exec_state' = "idle" /\ outcome' = "ok"
           \/ exec_state' = "exhausted" /\ outcome' = outcome
        /\ UNCHANGED <<opts, rowset, run, size, prev>>
    BY <1>1, <2>a, <2>1, <2>2, Returned
  <2>4. TypeOK'
    BY <1>1, <2>2, <2>3 DEF TypeOK, Closed, Outcomes
  <2>5. StateOK'
    BY <1>1, <2>2, <2>3 DEF StateOK, Closed
  <2> QED  BY <2>3, <2>4, <2>5 DEF QInv
<1>4. CASE FetchFails(c)
  <2>1. PICK n \in 0..VectorSize : n =< Left(c) /\ cursor' = Advanced(c, n)
    BY <1>4 DEF FetchFails
  <2>2. cursor' \in CursorType /\ cursor'.pos =< cursor'.total
    BY <1>1, <2>1, RowsOfCursor
  <2>3. /\ exec_state' = "idle" /\ outcome' = "failed"
        /\ UNCHANGED <<opts, rowset, run, size, chunk, out, prev>>
    BY <1>4 DEF FetchFails, Over
  <2>4. TypeOK'
    BY <1>1, <2>2, <2>3 DEF TypeOK, CursorType, Outcomes
  <2>5. StateOK'
    BY <1>1, <2>3 DEF StateOK
  <2>6. OutIsPrefix'
    BY <1>1, <2>3 DEF OutIsPrefix
  <2> QED  BY <2>4, <2>5, <2>6 DEF QInv
<1> QED  BY <1>2, <1>3, <1>4 DEF FetchRows

(* A call that ends the run without returning rows.                         *)
LEMMA OverKeepsInv ==
  ASSUME QInv, NEW how \in Outcomes, exec_state # "idle",
         Over(how), how # "ok", how = "ignored" => ~cursor'.open,
         cursor' \in CursorType, cursor'.pos =< cursor'.total,
         effects' \in 0..1, out # << >> => effects' = 1
  PROVE  QInv'
<1>1. TypeOK'
  BY DEF QInv, TypeOK, Over, CursorType
<1>2. OutIsPrefix'
  BY DEF QInv, OutIsPrefix, Over
<1>3. StateOK'
  BY DEF QInv, StateOK, Over
<1> QED  BY <1>1, <1>2, <1>3 DEF QInv

-----------------------------------------------------------------------------
LEMMA QueryInit == Init => QInv
<1> SUFFICES ASSUME Init PROVE QInv
  OBVIOUS
<1>1. out \in Seq(Row) /\ Len(out) = 0
  BY EmptySeq DEF Init
<1> QED  BY <1>1, QueryAssumption DEF Init, QInv, TypeOK, OutIsPrefix, StateOK, Closed, Outcomes

LEMMA QueryStep == QInv /\ [Next]_vars => QInv'
<1> SUFFICES ASSUME QInv, [Next]_vars PROVE QInv'
  OBVIOUS
<1> USE QueryAssumption
<1>0. /\ TypeOK /\ OutIsPrefix /\ StateOK
      /\ cursor \in CursorType /\ cursor.pos =< cursor.total
      /\ Closed \in CursorType /\ Closed.pos =< Closed.total /\ ~Closed.open
  BY DEF QInv, TypeOK, CursorType, Closed
<1>a. /\ BeforeExecute \in CursorType /\ BeforeExecute.pos =< BeforeExecute.total
  BY <1>0 DEF BeforeExecute
<1>b. ASSUME Executes
      PROVE  /\ run > 0 /\ effects' = 1 /\ out = << >> /\ Len(out) = 0
             /\ exec_state = "uninitialized"
  BY <1>0, <1>b DEF Executes, StateOK, TypeOK
<1>c. ASSUME rowset, run > 0
      PROVE  /\ Opened \in CursorType /\ Opened.pos =< Opened.total
             /\ Opened.open /\ Opened.run = run /\ Opened.pos = 0 /\ Opened.total = size
  BY <1>0, <1>c DEF Opened, StateOK, TypeOK, CursorType
<1>1. CASE Begin
  <2>1. TypeOK'
    <3>1. << >> \in Seq(Row)
      BY EmptySeq
    <3> QED  BY <1>0, <1>1, <3>1 DEF Begin, TypeOK
  <2>2. OutIsPrefix'
    BY <1>1 DEF Begin, OutIsPrefix
  <2>3. StateOK'
    BY <1>0, <1>1 DEF Begin, StateOK, TypeOK
  <2> QED  BY <2>1, <2>2, <2>3 DEF QInv
<1>2. CASE BindParamsFails
  BY <1>0, <1>2, OverKeepsInv DEF BindParamsFails, StateOK, TypeOK, Outcomes
<1>3. CASE ExecuteRefused
  BY <1>0, <1>3, OverKeepsInv DEF ExecuteRefused, StateOK, TypeOK, Outcomes
<1>4. CASE ExecuteFails
  BY <1>0, <1>a, <1>4, OverKeepsInv DEF ExecuteFails, StateOK, TypeOK, Outcomes
<1>5. CASE ColumnsFail
  <2>0. Executes /\ Over("failed") /\ run \in 0..MaxRuns /\ run > 0
    BY <1>0, <1>b, <1>5 DEF ColumnsFail, TypeOK
  <2>1. CASE cursor' = Closed
    BY <1>0, <1>b, <2>0, <2>1, OverKeepsInv DEF Outcomes
  <2>2. CASE rowset /\ cursor' = Opened
    BY <1>b, <1>c, <2>0, <2>2, OverKeepsInv DEF Outcomes
  <2>3. CASE cursor' = [Opened EXCEPT !.total = 0]
    <3>1. cursor' = [open |-> TRUE, run |-> run, pos |-> 0, total |-> 0]
      BY <2>3 DEF Opened
    <3>2. cursor' \in CursorType /\ cursor'.pos =< cursor'.total
      BY <2>0, <3>1 DEF CursorType
    <3> QED  BY <1>b, <2>0, <3>2, OverKeepsInv DEF Outcomes
  <2> QED  BY <1>5, <2>1, <2>2, <2>3 DEF ColumnsFail
<1>6. CASE RunCount
  <2> DEFINE rows == <<[run |-> run, no |-> 1]>>
  <2>0. Executes /\ ~rowset /\ cursor' = Closed /\ Return(rows, "exhausted")
    BY <1>6 DEF RunCount
  <2>1. run \in 1..MaxRuns /\ effects' = 1 /\ Len(out) = 0 /\ size = 1
    BY <1>0, <1>b, <2>0 DEF TypeOK, StateOK
  <2>2. [run |-> run, no |-> 1] \in Row
    BY <2>1 DEF Row
  <2>3. /\ rows \in Seq(Row) /\ Len(rows) = 1 /\ rows # << >>
        /\ rows[1] = [run |-> run, no |-> 1]
    BY <2>2
  <2>4. /\ Len(rows) =< VectorSize
        /\ \A i \in 1..Len(rows) : rows[i] = [run |-> run, no |-> Len(out) + i]
    BY <2>1, <2>3
  <2> HIDE DEF rows
  <2>5. /\ chunk' \in 0..VectorSize
        /\ out' \in Seq(Row) /\ Len(out') = Len(out) + Len(rows)
        /\ OutIsPrefix'
        /\ rows # << >> => exec_state' = "exhausted" /\ outcome' = outcome
        /\ UNCHANGED <<opts, rowset, run, size, prev>>
    <3>1. TypeOK /\ OutIsPrefix
      BY <1>0
    <3> QED  BY <2>0, <2>3, <2>4, <3>1, Returned
  <2>6. TypeOK'
    BY <1>0, <2>0, <2>1, <2>3, <2>5 DEF TypeOK, Closed
  <2>7. StateOK'
    BY <1>0, <2>0, <2>1, <2>3, <2>5 DEF StateOK, Closed
  <2> QED  BY <2>5, <2>6, <2>7 DEF QInv
<1>7. CASE RunRows
  BY <1>0, <1>b, <1>c, <1>7, FetchKeepsInv DEF RunRows
<1>8. CASE NextChunk
  BY <1>0, <1>8, FetchKeepsInv DEF NextChunk, StateOK
<1>9. CASE NoMoreRows
  <2>1. Return(<< >>, "exhausted") /\ UNCHANGED <<cursor, effects>>
    BY <1>9 DEF NoMoreRows
  <2>2. /\ chunk' = 0 /\ out' = out
        /\ exec_state' = "idle" /\ outcome' = "ok"
        /\ UNCHANGED <<opts, rowset, run, size, prev>>
    <3>1. out \o << >> = out /\ Len(<< >>) = 0
      BY <1>0, ConcatEmptySeq, EmptySeq DEF TypeOK
    <3> QED  BY <2>1, <3>1 DEF Return
  <2>3. TypeOK'
    BY <1>0, <2>1, <2>2 DEF TypeOK, Outcomes
  <2>4. OutIsPrefix'
    BY <1>0, <2>2 DEF OutIsPrefix
  <2>5. StateOK'
    BY <1>0, <1>9, <2>1, <2>2 DEF StateOK, NoMoreRows
  <2> QED  BY <2>3, <2>4, <2>5 DEF QInv
<1>10. CASE Stop
  BY <1>0, <1>10, OverKeepsInv DEF Stop, StateOK, TypeOK, Outcomes
<1>11. CASE UNCHANGED vars
  BY <1>0, <1>11 DEF vars, QInv, TypeOK, OutIsPrefix, StateOK
<1> QED
  BY <1>1, <1>2, <1>3, <1>4, <1>5, <1>6, <1>7, <1>8, <1>9, <1>10, <1>11 DEF Next, QueryCall

-----------------------------------------------------------------------------
(* The invariant of every reachable state.                                  *)
LEMMA QueryInvariant == Spec => []QInv
BY QueryInit, QueryStep, PTL DEF Spec

(* Every variable always has its type; in particular no chunk of Query is   *)
(* ever larger than DuckDB's vector.                                        *)
THEOREM QueryTypeCorrect == Spec => []TypeOK
<1>1. QInv => TypeOK
  BY DEF QInv
<1> QED  BY <1>1, QueryInvariant, PTL

(* The database executes the statement at most once in a run, and once when *)
(* the run has returned anything, however many calls of Query it takes.     *)
THEOREM QueryExecutedOnce == Spec => []ExecutedOnce
<1>1. QInv => ExecutedOnce
  BY QueryAssumption DEF QInv, TypeOK, StateOK, ExecutedOnce
<1> QED  BY <1>1, QueryInvariant, PTL

(* A call of Query that goes on fetching finds the cursor of its own run,   *)
(* whatever earlier runs have left on the statement handle.                 *)
THEOREM QueryOwnCursor == Spec => []FetchesOwnCursor
<1>1. QInv => FetchesOwnCursor
  BY DEF QInv, StateOK, FetchesOwnCursor
<1> QED  BY <1>1, QueryInvariant, PTL

(* The driver refuses a run only after one that was stopped or failed half  *)
(* way or was itself refused, and never with reset_stmt_before_execute.     *)
THEOREM QueryRefused == Spec => RefusedOnlyAfterGivenUp
<1>1. ASSUME QInv, [Next]_vars,
             exec_state # "idle", exec_state' = "idle", outcome' \in {"refused", "hidden"}
      PROVE  prev \notin {"ok", "ignored"} /\ ~opts.reset
  <2>1. ExecuteRefused
    BY <1>1 DEF Next, vars, QueryCall, Begin, BindParamsFails, ExecuteFails, ColumnsFail, RunCount,
                RunRows, NextChunk, NoMoreRows, Stop, FetchRows, FullChunk, LastChunk, FetchFails,
                Return, Over, QInv, TypeOK
  <2> QED  BY <1>1, <2>1 DEF ExecuteRefused, BeforeExecute, QInv, StateOK, Closed
<1> QED  BY <1>1, QueryInvariant, PTL DEF Spec, RefusedOnlyAfterGivenUp

-----------------------------------------------------------------------------
(* The refinement of RowTransfer.                                           *)

Arrived == [i \in 1..Len(out) |-> IF out[i].run = run THEN out[i].no ELSE 0]

(* These rows are numbered from one.                                        *)
ArrivedOK ==
  /\ Arrived = [i \in 1..Len(out) |-> i]
  /\ Arrived \in Seq(Nat) /\ Len(Arrived) = Len(out)

LEMMA ArrivedCounts == QInv => ArrivedOK
<1> SUFFICES ASSUME QInv PROVE ArrivedOK
  OBVIOUS
<1>1. Len(out) \in Nat
  BY LenProperties DEF QInv, TypeOK
<1>2. Arrived = [i \in 1..Len(out) |-> i]
  <2>1. \A i \in 1..Len(out) : (IF out[i].run = run THEN out[i].no ELSE 0) = i
    <3> SUFFICES ASSUME NEW i \in 1..Len(out)
                 PROVE  (IF out[i].run = run THEN out[i].no ELSE 0) = i
      OBVIOUS
    <3>1. out[i] = [run |-> run, no |-> i]
      BY DEF QInv, OutIsPrefix
    <3>2. out[i].run = run /\ out[i].no = i
      BY <3>1
    <3> QED  BY <3>2
  <2> QED  BY <2>1 DEF Arrived
<1>3. Arrived \in [1..Len(out) -> Nat]
  BY <1>1, <1>2
<1>4. Arrived \in Seq(Nat)
  BY <1>1, <1>3, SeqDef
<1> QED  BY <1>1, <1>2, <1>3, <1>4, LenProperties DEF Arrived, ArrivedOK

LEMMA CountingOn ==
  ASSUME NEW k \in Nat, NEW n \in Nat
  PROVE  [i \in 1..k |-> i] \o [i \in 1..n |-> k + i] = [i \in 1..k + n |-> i]
<1> DEFINE s == [i \in 1..k |-> i]
           t == [i \in 1..n |-> k + i]
           u == [i \in 1..k + n |-> i]
<1>1. s \in [1..k -> Nat] /\ t \in [1..n -> Nat] /\ u \in [1..k + n -> Nat]
  OBVIOUS
<1>2. s \in Seq(Nat) /\ t \in Seq(Nat) /\ u \in Seq(Nat)
  BY <1>1, SeqDef
<1>3. Len(s) = k /\ Len(t) = n /\ Len(u) = k + n
  BY <1>1, <1>2, LenProperties
<1>4. \A i \in 1..k + n : u[i] = i /\ (i =< k => s[i] = i) /\ (~(i =< k) => t[i - k] = i)
  OBVIOUS
<1> HIDE DEF s, t, u
<1>5. /\ s \o t \in Seq(Nat) /\ Len(s \o t) = Len(s) + Len(t)
      /\ \A i \in 1..Len(s) + Len(t) : (s \o t)[i] = IF i =< Len(s) THEN s[i] ELSE t[i - Len(s)]
  BY <1>2, ConcatProperties
<1>7. Len(s \o t) = Len(u) /\ \A i \in 1..Len(u) : (s \o t)[i] = u[i]
  BY <1>3, <1>4, <1>5
<1>6. s \o t = u
  BY <1>2, <1>3, <1>5, <1>7, SeqEqual
<1> QED  BY <1>6 DEF s, t, u

(* What a step can do to the rows returned, and to the place of the run.    *)
LEMMA StepShape ==
  ASSUME QInv, Next
  PROVE  \/ /\ exec_state = "idle" /\ exec_state' = "uninitialized"
            /\ out' = << >> /\ size' \in Nat
         \/ /\ exec_state # "idle" /\ UNCHANGED <<size, run>>
            /\ \/ exec_state' \in {"executed", "exhausted"} /\ Len(out') > Len(out)
               \/ exec_state' = "idle" /\ out' = out
<1> USE QueryAssumption
<1>0. TypeOK /\ OutIsPrefix /\ StateOK /\ out \in Seq(Row) /\ Len(out) \in Nat
  BY LenProperties DEF QInv, TypeOK
<1>1. CASE Begin
  BY <1>0, <1>1 DEF Begin
<1>2. ASSUME NEW rows \in Seq(Row), NEW next \in {"executed", "exhausted"},
             exec_state # "idle", Return(rows, next)
      PROVE  /\ exec_state # "idle" /\ UNCHANGED <<size, run>>
             /\ \/ exec_state' \in {"executed", "exhausted"} /\ Len(out') > Len(out)
                \/ exec_state' = "idle" /\ out' = out
  <2>1. CASE rows = << >>
    BY <1>0, <1>2, <2>1, ConcatEmptySeq DEF Return
  <2>2. CASE rows # << >>
    <3>1. Len(rows) \in Nat \ {0}
      BY <2>2, EmptySeq
    <3>2. Len(out') = Len(out) + Len(rows)
      BY <1>0, <1>2, ConcatProperties DEF Return
    <3> QED  BY <1>0, <1>2, <2>2, <3>1, <3>2 DEF Return
  <2> QED  BY <2>1, <2>2
<1>3. ASSUME NEW c \in CursorType, c.run > 0, c.pos =< c.total, FetchRows(c), exec_state # "idle"
      PROVE  /\ exec_state # "idle" /\ UNCHANGED <<size, run>>
             /\ \/ exec_state' \in {"executed", "exhausted"} /\ Len(out') > Len(out)
                \/ exec_state' = "idle" /\ out' = out
  <2>1. CASE FullChunk(c)
    <3>1. Rows(c, VectorSize) \in Seq(Row)
      BY <1>3, <2>1, RowsOfCursor DEF FullChunk
    <3> QED  BY <1>2, <1>3, <2>1, <3>1 DEF FullChunk
  <2>2. CASE LastChunk(c)
    <3>1. Left(c) \in Nat
      BY <1>3 DEF Left, CursorType
    <3>2. Rows(c, Left(c)) \in Seq(Row)
      BY <1>3, <3>1, RowsOfCursor
    <3> QED  BY <1>2, <1>3, <2>2, <3>2 DEF LastChunk
  <2>3. CASE FetchFails(c)
    BY <1>3, <2>3 DEF FetchFails, Over
  <2> QED  BY <1>3, <2>1, <2>2, <2>3 DEF FetchRows
<1>4. CASE RunRows
  <2>1. Opened \in CursorType /\ Opened.run > 0 /\ Opened.pos =< Opened.total
    BY <1>0, <1>4 DEF RunRows, Executes, Opened, CursorType, TypeOK, StateOK
  <2> QED  BY <1>3, <1>4, <2>1 DEF RunRows, Executes
<1>5. CASE NextChunk
  <2>1. cursor \in CursorType /\ cursor.run > 0 /\ cursor.pos =< cursor.total
    BY <1>0, <1>5 DEF NextChunk, CursorType, TypeOK, StateOK
  <2> QED  BY <1>3, <1>5, <2>1 DEF NextChunk
<1>6. CASE RunCount
  <2>1. <<[run |-> run, no |-> 1]>> \in Seq(Row)
    BY <1>0, <1>6 DEF RunCount, Executes, TypeOK, StateOK, Row
  <2> QED  BY <1>2, <1>6, <2>1 DEF RunCount, Executes
<1>7. CASE NoMoreRows
  <2>1. << >> \in Seq(Row)
    BY EmptySeq
  <2> QED  BY <1>2, <1>7, <2>1 DEF NoMoreRows
<1>8. CASE BindParamsFails \/ ExecuteRefused \/ ExecuteFails \/ ColumnsFail \/ Stop
  BY <1>8 DEF BindParamsFails, ExecuteRefused, ExecuteFails, ColumnsFail, Stop, Executes, Over
<1> QED  BY <1>1, <1>4, <1>5, <1>6, <1>7, <1>8 DEF Next, QueryCall

(* Every run of the statement is a transfer of its own result: each row     *)
(* once, in order, and all of them when the run ends well.                  *)
THEOREM QueryImplementsTransfer == Spec => ImplementsTransfer
<1> USE QueryAssumption
<1>1. Init => Transfer!RepeatedInit
  <2> SUFFICES ASSUME Init PROVE Transfer!RepeatedInit
    OBVIOUS
  <2>1. QInv /\ Len(out) = 0
    BY QueryInit, EmptySeq DEF Init
  <2>2. Arrived = << >>
    BY <2>1, ArrivedCounts, EmptySeq DEF ArrivedOK
  <2> QED  BY <2>2 DEF Init, Arrived, Transfer!RepeatedInit
<1>0. QInv' => ArrivedOK'
  BY ArrivedCounts, PTL
<1>2. QInv /\ QInv' /\ [Next]_vars =>
        [Transfer!Arrive \/ Transfer!Finish \/ Transfer!Fail \/ Transfer!Again]_(Transfer!transferVars)
  <2> SUFFICES ASSUME QInv, QInv', [Next]_vars
               PROVE  [Transfer!Arrive \/ Transfer!Finish \/ Transfer!Fail
                         \/ Transfer!Again]_(Transfer!transferVars)
    OBVIOUS
  <2>0. /\ Len(out) \in Nat /\ Len(out') \in Nat /\ size \in Nat
        /\ Arrived = [i \in 1..Len(out) |-> i] /\ Len(Arrived) = Len(out)
        /\ Arrived' = [i \in 1..Len(out') |-> i]
        /\ Arrived' \in Seq(Nat) /\ Len(Arrived') = Len(out')
    BY <1>0, ArrivedCounts, LenProperties DEF QInv, TypeOK, ArrivedOK
  <2>1. CASE UNCHANGED vars
    BY <2>1 DEF vars, Transfer!transferVars
  <2>2. CASE exec_state = "idle" /\ exec_state' = "uninitialized" /\ out' = << >> /\ size' \in Nat
    <3>1. Arrived' = << >>
      BY <2>0, <2>2, EmptySeq
    <3> QED  BY <2>2, <3>1 DEF Arrived, Transfer!Again
  <2>3. CASE /\ exec_state # "idle" /\ UNCHANGED <<size, run>>
             /\ exec_state' \in {"executed", "exhausted"} /\ Len(out') > Len(out)
    <3> DEFINE n == Len(out') - Len(out)
    <3>a. cursor' \in CursorType /\ cursor'.pos =< cursor'.total /\ StateOK'
      BY DEF QInv, TypeOK, CursorType
    <3>b. ASSUME exec_state' = "executed" PROVE Len(out') =< size
      BY <2>3, <3>a, <3>b DEF StateOK
    <3>c. ASSUME exec_state' = "exhausted" PROVE Len(out') =< size
      BY <2>0, <2>3, <3>a, <3>c DEF StateOK
    <3>1. Len(out') =< size
      BY <2>3, <3>b, <3>c
    <3>2. n \in 1..(size - Len(Arrived)) /\ Len(out') = Len(out) + n
      BY <2>0, <2>3, <3>1
    <3>3. Arrived' = Arrived \o [i \in 1..n |-> Len(Arrived) + i]
      BY <2>0, <3>2, CountingOn
    <3> QED  BY <2>3, <3>2, <3>3 DEF Arrived, Transfer!Arrive
  <2>4. CASE exec_state # "idle" /\ UNCHANGED <<size, run>> /\ exec_state' = "idle" /\ out' = out
    <3>1. Arrived' = Arrived
      BY <2>4 DEF Arrived
    <3>2. CASE outcome' = "ok"
      <4>1. Len(Arrived) = size
        BY <2>0, <2>4, <3>2 DEF QInv, StateOK
      <4> QED  BY <2>4, <3>1, <3>2, <4>1 DEF Arrived, Transfer!Finish
    <3>3. CASE outcome' # "ok"
      BY <2>4, <3>1, <3>3 DEF Arrived, Transfer!Fail
    <3> QED  BY <3>2, <3>3
  <2> QED  BY <2>1, <2>2, <2>3, <2>4, StepShape
<1> QED  BY <1>1, <1>2, QueryInvariant, PTL DEF Spec, ImplementsTransfer, Transfer!RepeatedSpec

=============================================================================
