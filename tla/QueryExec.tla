----------------------------- MODULE QueryExec -----------------------------
(***************************************************************************)
(* One bound odbc_query statement that is run again and again, as DuckDB   *)
(* runs a prepared statement: every run has fresh global and local data    *)
(* and the same BindData, hence the same ODBC statement handle with        *)
(* whatever the run before has left open on it (odbc_query.cpp).           *)
(*                                                                         *)
(* A run has the connection to itself (ConnLifecycle), so calls of Query   *)
(* are atomic.  Parameters are the subject of ParamsLifecycle; here their  *)
(* binding only succeeds or fails.                                         *)
(***************************************************************************)
EXTENDS Naturals, Sequences

CONSTANTS
  VectorSize,  (* duckdb_vector_size()                                      *)
  MaxRows,     (* bound: rows of a result                                   *)
  MaxRuns      (* bound: runs of the statement                              *)

ASSUME QueryAssumption ==
  /\ VectorSize \in Nat \ {0}
  /\ MaxRows \in Nat
  /\ MaxRuns \in Nat

Options == [ignore : BOOLEAN, reset : BOOLEAN]

VARIABLES
  opts,        (* ignore_exec_failure and the quirk                         *)
               (* reset_stmt_before_execute                                 *)
  rowset,      (* the prepared statement has result columns (BindData::     *)
               (* columns is not empty); otherwise it is DDL or DML         *)
  run,         (* number of the run                                         *)
  size,        (* rows this run has to return; 1, the count, for DDL or DML *)
  cursor,      (* the driver's cursor: of which run, how far it has got     *)
  exec_state,  (* LocalInitData::exec_state; "idle": the statement is not   *)
               (* running                                                   *)
  chunk,       (* size of the chunk that the last call returned             *)
  out,         (* the rows that this run has returned                       *)
  effects,     (* how often the database has executed the statement in this *)
               (* run, counted up to two                                    *)
  outcome,     (* how the run ended: "ok", "failed", "stopped"; "ignored":  *)
               (* the database's error was; "refused", "hidden": the driver *)
               (* found the old cursor open, and the error was thrown, or   *)
               (* ignored                                                   *)
  prev         (* the outcome of the run before                             *)

vars == <<opts, rowset, run, size, cursor, exec_state, chunk, out, effects, outcome, prev>>

Row == [run : 1..MaxRuns, no : 1..MaxRows + 1]

Outcomes == {"ok", "failed", "stopped", "ignored", "refused", "hidden"}

(* Every variable has its type; a chunk fits the vector.                    *)
TypeOK ==
  /\ opts \in Options
  /\ rowset \in BOOLEAN
  /\ run \in 0..MaxRuns
  /\ size \in 0..MaxRows + 1
  /\ cursor \in [open : BOOLEAN, run : 0..MaxRuns, pos : 0..MaxRows, total : 0..MaxRows]
  /\ cursor.pos =< cursor.total
  /\ exec_state \in {"idle", "uninitialized", "executed", "exhausted"}
  /\ chunk \in 0..VectorSize
  /\ out \in Seq(Row)
  /\ effects \in 0..2
  /\ outcome \in Outcomes
  /\ prev \in Outcomes

-----------------------------------------------------------------------------
(* The driver's cursor (external).                                          *)
Closed == [open |-> FALSE, run |-> 0, pos |-> 0, total |-> 0]

Opened == [open |-> TRUE, run |-> run, pos |-> 0, total |-> size]

Left(c) == c.total - c.pos

Advanced(c, n) == [c EXCEPT !.pos = @ + n]

(* The next n rows at the cursor.                                           *)
Rows(c, n) == [i \in 1..n |-> [run |-> c.run, no |-> c.pos + i]]

-----------------------------------------------------------------------------
Init ==
  /\ opts \in Options
  /\ rowset \in BOOLEAN
  /\ run = 0
  /\ size = 0
  /\ cursor = Closed
  /\ exec_state = "idle"
  /\ chunk = 0
  /\ out = << >>
  /\ effects = 0
  /\ outcome = "ok"
  /\ prev = "ok"

(* GlobalInit, LocalInit.                                                   *)
Begin ==
  /\ exec_state = "idle" /\ run < MaxRuns
  /\ exec_state' = "uninitialized"
  /\ run' = run + 1
  /\ size' \in IF rowset THEN 0..MaxRows ELSE {1}
  /\ chunk' = 0
  /\ out' = << >>
  /\ effects' = 0
  /\ prev' = outcome
  /\ UNCHANGED <<opts, rowset, cursor, outcome>>

Over(how) ==
  /\ exec_state' = "idle"
  /\ outcome' = how
  /\ UNCHANGED <<opts, rowset, run, size, chunk, out, prev>>

(* A call returns rows.  An empty chunk tells DuckDB that there are no more.*)
Return(rows, next) ==
  /\ chunk' = Len(rows)
  /\ out' = out \o rows
  /\ IF rows = << >> THEN exec_state' = "idle" /\ outcome' = "ok"
                     ELSE exec_state' = next /\ UNCHANGED outcome
  /\ UNCHANGED <<opts, rowset, run, size, prev>>

-----------------------------------------------------------------------------
(* The loop over SQLFetch, with the cursor at c.                            *)

(* faulty variant: one row too many *)
FullChunk_OneMore(c) ==
  /\ Left(c) > VectorSize
  /\ cursor' = Advanced(c, VectorSize + 1)
  /\ Return(Rows(c, VectorSize + 1), "executed")

(* faulty variant: the size is looked at after SQLFetch *)
FullChunk_RowLost(c) ==
  /\ Left(c) > VectorSize
  /\ cursor' = Advanced(c, VectorSize + 1)
  /\ Return(Rows(c, VectorSize), "executed")

(* The chunk is full before the rows have ended.                            *)
FullChunk(c) ==
  /\ Left(c) >= VectorSize
  /\ cursor' = Advanced(c, VectorSize)
  /\ Return(Rows(c, VectorSize), "executed")

(* faulty variant: the cursor is not closed *)
LastChunk_NoClose(c) ==
  /\ Left(c) < VectorSize
  /\ cursor' = Advanced(c, Left(c))
  /\ Return(Rows(c, Left(c)), "exhausted")

(* SQL_NO_DATA: the cursor is closed.                                       *)
LastChunk(c) ==
  /\ Left(c) < VectorSize
  /\ cursor' = Closed
  /\ Return(Rows(c, Left(c)), "exhausted")

(* SQLFetch, the conversion of a value, or the closing of the cursor fails  *)
(* after n rows, which are lost with the chunk.                             *)
FetchFails(c) ==
  /\ \E n \in 0..VectorSize : n =< Left(c) /\ cursor' = Advanced(c, n)
  /\ Over("failed")

FetchRows(c) == FullChunk(c) \/ LastChunk(c) \/ FetchFails(c)

-----------------------------------------------------------------------------
(* The first call: BindParamsAndExecute.                                    *)

(* The statement's cursor as SQLExecute finds it.                           *)
BeforeExecute == IF opts.reset THEN Closed ELSE cursor

(* The parameters cannot be bound, or the reset fails.                      *)
BindParamsFails ==
  /\ exec_state = "uninitialized"
  /\ Over("failed")
  /\ UNCHANGED <<cursor, effects>>

(* The driver does not execute a statement with an open cursor (24000).     *)
ExecuteRefused ==
  /\ exec_state = "uninitialized"
  /\ BeforeExecute.open
  /\ Over(IF opts.ignore THEN "hidden" ELSE "refused")
  /\ UNCHANGED <<cursor, effects>>

(* The database reports an error.                                           *)
ExecuteFails ==
  /\ exec_state = "uninitialized"
  /\ ~BeforeExecute.open
  /\ cursor' = BeforeExecute
  /\ Over(IF opts.ignore THEN "ignored" ELSE "failed")
  /\ UNCHANGED effects

Executes ==
  /\ exec_state = "uninitialized"
  /\ ~BeforeExecute.open
  /\ effects' = IF effects < 2 THEN effects + 1 ELSE effects

(* The columns are no longer those of the bind, with or without a cursor,   *)
(* or describing or binding them or SQLRowCount fails.                      *)
ColumnsFail ==
  /\ Executes
  /\ cursor' \in IF rowset THEN {Closed, Opened} ELSE {Closed, [Opened EXCEPT !.total = 0]}
  /\ Over("failed")

(* faulty variant: the state is not set to EXHAUSTED *)
RunCount_NotExhausted ==
  /\ Executes /\ ~rowset
  /\ cursor' = Closed
  /\ Return(<<[run |-> run, no |-> 1]>>, "executed")

(* A DDL or DML statement returns one row with the count.                   *)
RunCount ==
  /\ Executes /\ ~rowset
  /\ cursor' = Closed
  /\ Return(<<[run |-> run, no |-> 1]>>, "exhausted")

(* faulty variant: the state is not set to EXECUTED *)
RunRows_NotMarked ==
  /\ Executes /\ rowset
  /\ \/ /\ size >= VectorSize
        /\ cursor' = Advanced(Opened, VectorSize)
        /\ Return(Rows(Opened, VectorSize), "uninitialized")
     \/ LastChunk(Opened)
     \/ FetchFails(Opened)

(* A query returns its first chunk.                                         *)
RunRows == Executes /\ rowset /\ FetchRows(Opened)

-----------------------------------------------------------------------------
(* The calls after the first one.                                           *)
NextChunk ==
  /\ exec_state = "executed" /\ cursor.open
  /\ FetchRows(cursor)
  /\ UNCHANGED effects

NoMoreRows ==
  /\ exec_state = "exhausted"
  /\ Return(<< >>, "exhausted")
  /\ UNCHANGED <<cursor, effects>>

(* The consumer has seen enough, or another part of its query has failed:   *)
(* the run's data are destroyed, the statement handle is not touched.       *)
Stop ==
  /\ exec_state # "idle"
  /\ Over("stopped")
  /\ UNCHANGED <<cursor, effects>>

QueryCall ==
  \/ BindParamsFails \/ ExecuteRefused \/ ExecuteFails \/ ColumnsFail
  \/ RunCount \/ RunRows \/ NextChunk \/ NoMoreRows

Next == Begin \/ QueryCall \/ Stop

Spec == Init /\ [][Next]_vars

-----------------------------------------------------------------------------
(* Every run returns each row of its own result once and in order, whatever *)
(* the runs before it have left behind, and a run that ends well has        *)
(* returned all of them.                                                    *)
Transfer == INSTANCE RowTransfer WITH
  total   <- size,
  arrived <- [i \in 1..Len(out) |-> IF out[i].run = run THEN out[i].no ELSE 0],
  status  <- IF exec_state # "idle" THEN "running"
             ELSE IF outcome = "ok" THEN "completed" ELSE "failed"

ImplementsTransfer == Transfer!RepeatedSpec

(* The database executes the statement at most once in a run, and once when *)
(* the run has returned anything: an UPDATE is never applied again by the   *)
(* call that looks for more rows.                                           *)
ExecutedOnce ==
  /\ effects =< 1
  /\ out # << >> \/ (outcome = "ok" /\ exec_state = "idle" /\ run > 0) => effects = 1

(* A call that goes on fetching finds the cursor of its own run.            *)
FetchesOwnCursor == exec_state = "executed" => cursor.open /\ cursor.run = run

(* The driver refuses a run only after one that was stopped or failed half  *)
(* way, or was itself refused, and never with reset_stmt_before_execute: a  *)
(* run that came to its end, or whose error was ignored, leaves no cursor.  *)
RefusedOnlyAfterGivenUp ==
  [][exec_state # "idle" /\ outcome' \in {"refused", "hidden"} /\ exec_state' = "idle" =>
       prev \notin {"ok", "ignored"} /\ ~opts.reset]_vars

=============================================================================
