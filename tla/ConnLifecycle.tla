--------------------------- MODULE ConnLifecycle ---------------------------
(***************************************************************************)
(* The life of the OdbcConnection objects: the connections registry, the   *)
(* scalar functions that open, use and close a connection by its id, and   *)
(* the table functions odbc_query and odbc_copy, whose bind data refers to *)
(* a connection by id between the callbacks and whose global state holds   *)
(* it while the function runs.                                             *)
(*                                                                         *)
(* Every registry operation is atomic (one mutex); everything between two  *)
(* of them can interleave with the other calls and statements.  A call     *)
(* that does not find its id throws, or in odbc_close reports success:     *)
(* either way it changes nothing and is a stuttering step here.            *)
(***************************************************************************)
EXTENDS Registry

CONSTANTS
  Calls,    (* scalar function calls that can be in flight at once          *)
  Stmts     (* odbc_query / odbc_copy statements, prepared or not           *)

ASSUME ConnAssumption ==
  /\ Actors = Calls \cup Stmts
  /\ Calls \cap Stmts = {}

VARIABLES
  oneOff,   (* the live objects that a statement opened from a string       *)
  issued,   (* the ids odbc_connect has returned to the user                *)
  pc,       (* where each call or statement stands                          *)
  target,   (* BindData::conn_id of a statement                             *)
  mustClose,(* ExtractedConnection::must_be_closed of a statement           *)
  closes,   (* BindData's close_connection option                           *)
  stmtGen,  (* the object (by number) that Bind saw: odbc_query's HSTMT is  *)
            (* a handle on it                                               *)
  ran       (* the statement has gone through its global state              *)

userVars == <<oneOff, issued>>
bindVars == <<target, mustClose, closes, stmtGen, ran>>
vars == <<regVars, userVars, pc, bindVars>>

PCs == {"idle", "opening", "using", "closing",
        "registered", "binding", "bound", "running"}

(* Every variable of the handlers and of the registry has its type.         *)
TypeOK ==
  /\ RegTypeOK
  /\ oneOff \subseteq Addrs
  /\ issued \subseteq Addrs
  /\ pc \in [Actors -> PCs]
  /\ target \in [Stmts -> Addrs \cup {None}]
  /\ mustClose \in [Stmts -> BOOLEAN]
  /\ closes \in [Stmts -> BOOLEAN]
  /\ stmtGen \in [Stmts -> 0..MaxGen]
  /\ ran \in [Stmts -> BOOLEAN]

Init ==
  /\ RegInit
  /\ oneOff = {}
  /\ issued = {}
  /\ pc = [a \in Actors |-> "idle"]
  /\ target = [s \in Stmts |-> None]
  /\ mustClose = [s \in Stmts |-> FALSE]
  /\ closes = [s \in Stmts |-> FALSE]
  /\ stmtGen = [s \in Stmts |-> 0]
  /\ ran = [s \in Stmts |-> FALSE]

-----------------------------------------------------------------------------
(* Steps shared by the handlers.                                            *)

Goto(a, from, to) ==
  /\ pc[a] = from
  /\ pc' = [pc EXCEPT ![a] = to]

(* The connection ceases to exist: ~OdbcConnection, or a constructor that   *)
(* throws (which returns the memory, but leaves the ODBC handles behind).   *)
Disconnect(a) ==
  /\ Destruct(a)
  /\ oneOff' = oneOff \ {held[a]}

-----------------------------------------------------------------------------
(* The scalar functions.                                                    *)

(* odbc_connect: construct the connection (OpenFails: one of the calls of   *)
(* the constructor fails), register it and return its id.                   *)
Connect(k) ==
  /\ Goto(k, "idle", "opening")
  /\ \E c \in Addrs : Construct(k, c)
  /\ UNCHANGED <<userVars, bindVars>>

OpenFails(a) ==
  /\ Goto(a, "opening", "idle")
  /\ Disconnect(a)
  /\ UNCHANGED <<issued, bindVars>>

(* faulty variant: the pointer is released before the id is read off it *)
ConnectReturns_IdAfterRelease(k) ==
  /\ Goto(k, "opening", "idle")
  /\ Add(k)
  /\ issued' = issued \cup {held'[k]}
  /\ UNCHANGED <<oneOff, bindVars>>

ConnectReturns(k) ==
  /\ Goto(k, "opening", "idle")
  /\ issued' = issued \cup {held[k]}
  /\ Add(k)
  /\ UNCHANGED <<oneOff, bindVars>>

(* odbc_begin_transaction, odbc_commit, odbc_rollback, odbc_bind_params:    *)
(* take the connection out, call the driver, put it back however it went.   *)
BeginUse(k) ==
  /\ Goto(k, "idle", "using")
  /\ \E c \in issued : Remove(k, c)
  /\ UNCHANGED <<userVars, bindVars>>

(* faulty variant: the driver call fails before the Defer is set up *)
EndUse_NotReturned(k) ==
  /\ Goto(k, "using", "idle")
  /\ held' = [held EXCEPT ![k] = None]
  /\ UNCHANGED <<reg, live, gen, userVars, bindVars>>

EndUse(k) ==
  /\ Goto(k, "using", "idle")
  /\ Add(k)
  /\ UNCHANGED <<userVars, bindVars>>

(* odbc_close: take the connection out, if it is there, and destroy it.     *)
BeginClose(k) ==
  /\ Goto(k, "idle", "closing")
  /\ \E c \in issued : Remove(k, c)
  /\ UNCHANGED <<userVars, bindVars>>

EndClose(k) ==
  /\ Goto(k, "closing", "idle")
  /\ Disconnect(k)
  /\ UNCHANGED <<issued, bindVars>>

-----------------------------------------------------------------------------
(* The table functions.                                                     *)

(* Bind, first argument a connection string: construct the connection and   *)
(* register it; only then take it out again by its id, as for any other id. *)
BindOpen(s) ==
  /\ Goto(s, "idle", "opening")
  /\ \E c \in Addrs : Construct(s, c) /\ oneOff' = oneOff \cup {c}
  /\ UNCHANGED <<issued, bindVars>>

BindRegister(s) ==
  /\ Goto(s, "opening", "registered")
  /\ target' = [target EXCEPT ![s] = held[s]]
  /\ mustClose' = [mustClose EXCEPT ![s] = TRUE]
  /\ Add(s)
  /\ UNCHANGED <<userVars, closes, stmtGen, ran>>

BindTake(s) ==
  /\ Goto(s, "registered", "binding")
  /\ Remove(s, target[s])
  /\ UNCHANGED <<userVars, bindVars>>

(* The bind data of a statement that is over.                               *)
Forget(s) ==
  /\ target' = [target EXCEPT ![s] = None]
  /\ mustClose' = [mustClose EXCEPT ![s] = FALSE]
  /\ closes' = [closes EXCEPT ![s] = FALSE]
  /\ stmtGen' = [stmtGen EXCEPT ![s] = 0]
  /\ ran' = [ran EXCEPT ![s] = FALSE]

(* Another call, through an old id for the same address, came in between.   *)
BindLost(s) ==
  /\ Goto(s, "registered", "idle")
  /\ target[s] \notin reg
  /\ Forget(s)
  /\ UNCHANGED <<regVars, userVars>>

(* Bind, first argument an id.                                              *)
BindById(s) ==
  /\ Goto(s, "idle", "binding")
  /\ \E c \in issued :
       /\ Remove(s, c)
       /\ target' = [target EXCEPT ![s] = c]
  /\ UNCHANGED <<userVars, mustClose, closes, stmtGen, ran>>

(* faulty variant: a failing bind closes the connection it was given *)
BindFails_Closes(s) ==
  /\ Goto(s, "binding", "idle")
  /\ Disconnect(s)
  /\ Forget(s)
  /\ UNCHANGED issued

(* Anything in the rest of Bind throws (the query is NULL, the statement    *)
(* cannot be prepared, an option is refused): the connection is put back,   *)
(* also when this Bind has opened it.                                       *)
BindFails(s) ==
  /\ Goto(s, "binding", "idle")
  /\ Add(s)
  /\ Forget(s)
  /\ UNCHANGED userVars

(* Bind succeeds: the options are stored (close_connection = FALSE is        *)
(* refused for a string) and the connection is put back.  odbc_query has    *)
(* allocated its statement handle on this very connection.                  *)
BindDone(s) ==
  /\ Goto(s, "binding", "bound")
  /\ \E close \in BOOLEAN :
       /\ mustClose[s] => close
       /\ closes' = [closes EXCEPT ![s] = close]
  /\ stmtGen' = [stmtGen EXCEPT ![s] = gen[held[s]]]
  /\ Add(s)
  /\ UNCHANGED <<userVars, target, mustClose, ran>>

(* faulty variant: the connection is looked up, not taken out *)
GlobalInit_LookUp(s) ==
  /\ Goto(s, "bound", "running")
  /\ target[s] \in reg
  /\ held' = [held EXCEPT ![s] = target[s]]
  /\ UNCHANGED <<reg, live, gen, userVars, bindVars>>

(* faulty variant: no check that the id was found *)
GlobalInit_Unchecked(s) ==
  /\ Goto(s, "bound", "running")
  /\ reg' = reg \ {target[s]}
  /\ held' = [held EXCEPT ![s] = IF target[s] \in reg THEN target[s] ELSE None]
  /\ UNCHANGED <<live, gen, userVars, bindVars>>

GlobalInit(s) ==
  /\ Goto(s, "bound", "running")
  /\ Remove(s, target[s])
  /\ UNCHANGED <<userVars, bindVars>>

(* faulty variant: the option is forgotten *)
GlobalDestroy_NeverCloses(s) ==
  /\ Goto(s, "running", "bound")
  /\ Add(s)
  /\ ran' = [ran EXCEPT ![s] = TRUE]
  /\ UNCHANGED <<userVars, target, mustClose, closes, stmtGen>>

(* ~GlobalInitData, whether the function succeeded, failed or was abandoned.*)
GlobalDestroy(s) ==
  /\ Goto(s, "running", "bound")
  /\ \/ closes[s] /\ Disconnect(s)
     \/ ~closes[s] /\ Add(s) /\ UNCHANGED oneOff
  /\ ran' = [ran EXCEPT ![s] = TRUE]
  /\ UNCHANGED <<issued, target, mustClose, closes, stmtGen>>

(* ~BindData: frees the statement handle; the connection is not consulted.  *)
BindDestroy(s) ==
  /\ Goto(s, "bound", "idle")
  /\ Forget(s)
  /\ UNCHANGED <<regVars, userVars>>

-----------------------------------------------------------------------------
CallStep(k) ==
  \/ Connect(k) \/ OpenFails(k) \/ ConnectReturns(k)
  \/ BeginUse(k) \/ EndUse(k)
  \/ BeginClose(k) \/ EndClose(k)

StmtStep(s) ==
  \/ BindOpen(s) \/ OpenFails(s) \/ BindRegister(s) \/ BindTake(s) \/ BindLost(s)
  \/ BindById(s) \/ BindFails(s) \/ BindDone(s)
  \/ GlobalInit(s) \/ GlobalDestroy(s) \/ BindDestroy(s)

Next == (\E k \in Calls : CallStep(k)) \/ (\E s \in Stmts : StmtStep(s))

Spec == Init /\ [][Next]_vars

(* A callback that has been entered runs to its end, and DuckDB destroys    *)
(* the state of a function it has run.  Nobody need ever call anything.     *)
Fairness ==
  /\ \A k \in Calls : WF_vars(ConnectReturns(k)) /\ WF_vars(EndUse(k)) /\ WF_vars(EndClose(k))
  /\ \A s \in Stmts :
       /\ WF_vars(BindRegister(s))
       /\ WF_vars(BindTake(s) \/ BindLost(s))
       /\ WF_vars(BindFails(s) \/ BindDone(s))
       /\ WF_vars(GlobalDestroy(s))

FairSpec == Spec /\ Fairness

-----------------------------------------------------------------------------
(* Safety.                                                                  *)

(* The points between callbacks at which a call or statement has the        *)
(* connection in its unique_ptr.                                            *)
Holding == {"opening", "using", "closing", "binding", "running"}

(* A call or statement has a connection exactly while it stands in the      *)
(* middle of a handler, and the global state of a running function never    *)
(* has a null pointer to give back.                                         *)
HoldersHold == \A a \in Actors : pc[a] \in Holding <=> held[a] # None

(* Once a statement given a connection string has run, the connection it    *)
(* opened no longer exists, even if its address is in use again.            *)
OneOffClosedAfterRun ==
  \A s \in Stmts :
    pc[s] = "bound" /\ ran[s] /\ mustClose[s] =>
      target[s] \notin live \/ gen[target[s]] # stmtGen[s]

(* A connection is destroyed only by odbc_close, by a function that was     *)
(* told to close it, or because it could not be opened: never by an error   *)
(* path of another call or statement.                                       *)
ClosedOnlyOnRequest ==
  [][\A c \in live \ live' : \E a \in Actors :
       /\ held[a] = c
       /\ \/ pc[a] \in {"opening", "closing"}
          \/ pc[a] = "running" /\ closes[a]]_vars

-----------------------------------------------------------------------------
(* Liveness.                                                                *)

(* Every connection that is in use becomes available again or is closed.    *)
ConnComesBack == \A c \in Addrs : c \in live ~> (c \in reg \/ c \notin live)

-----------------------------------------------------------------------------
(* Claims of the source's comments and tests that the code does not keep.   *)

(* connection.cpp calls a connection opened from a string one for "one-off  *)
(* queries": it exists only as long as its statement does.                  *)
OneOffHasStatement ==
  \A c \in oneOff : \E s \in Stmts :
    held[s] = c \/ (target[s] = c /\ pc[s] \in {"registered", "bound"})

(* close_connection.test expects a statement on a closed connection to be   *)
(* refused: a function that runs has the connection its handle lives on.    *)
RunsOnItsConnection ==
  \A s \in Stmts : pc[s] = "running" => stmtGen[s] = gen[held[s]]

=============================================================================
