-------------------------- MODULE ParamsLifecycle --------------------------
(***************************************************************************)
(* The life of the vectors of query parameters behind the handles of       *)
(* odbc_create_params: odbc_bind_params refills a vector, an odbc_query    *)
(* statement with params_handle binds the buffers inside it to its ODBC    *)
(* statement, gives the vector back and then executes, and the destructor  *)
(* of the statement's bind data destroys it.                               *)
(*                                                                         *)
(* A handle that is not found makes the call throw: a stuttering step, but *)
(* for the run of a statement, which ends.  The statements modelled have   *)
(* NumParams parameters each.                                              *)
(*                                                                         *)
(* Of a value the model keeps what decides whether another execution may   *)
(* use it and whether that overwrites it: its kind and whether it has a    *)
(* known expected type.                                                    *)
(***************************************************************************)
EXTENDS Registry

CONSTANTS
  Calls,    (* calls of odbc_create_params and odbc_bind_params in flight   *)
  Stmts,    (* odbc_query statements given a params_handle                  *)
  Conns,    (* open connections, each used by one call or statement a time  *)
  NumParams,(* the parameters of a statement                                *)
  Given,    (* the kinds of the values odbc_bind_params is called with      *)
  Reported, (* the kinds of types SQLDescribeParam reports                  *)
  AsDecimal (* the settings of integral_params_as_decimals (without         *)
            (* decimal_params_as_chars) that occur                          *)

Params == 1 .. NumParams

(* Integral numbers, floats, the characters of a DECIMAL, and values no     *)
(* execution turns into anything else.                                      *)
Kinds == {"integral", "float", "digits", "other"}

(* SQL_PARAM_TYPE_UNKNOWN, which is also SQL_TYPE_NULL: the driver does not *)
(* describe the parameter; the narrow and the wide character types; all     *)
(* others.                                                                  *)
CharacterTypes == {"narrow", "wide"}
SqlTypes == {"unknown", "plain"} \cup CharacterTypes

ASSUME ParamsAssumption ==
  /\ Actors = Calls \cup Stmts
  /\ Calls \cap Stmts = {}
  /\ None \notin Conns
  /\ NumParams \in Nat \ {0}
  /\ Given \subseteq Kinds /\ Reported \subseteq SqlTypes /\ AsDecimal \subseteq BOOLEAN

VARIABLES
  pc,       (* where each call or statement stands                          *)
  conn,     (* conn[a]: the connection a has taken out of its registry      *)
  content,  (* content[v]: the values of the vector at v                    *)
  target,   (* BindData::params_handle of a statement                       *)
  types,    (* BindData::param_types of a statement                         *)
  decimals, (* the quirk of a statement that makes integrals DECIMALs       *)
  boundTo,  (* the vector whose buffers the ODBC statement is bound to      *)
  intact    (* nobody has freed, refilled or overwritten them since         *)

bindVars == <<target, types, decimals>>
stmtVars == <<bindVars, boundTo, intact>>
vars == <<regVars, pc, conn, content, stmtVars>>

(* A value, and a vector of as many as the statements have parameters.  Any *)
(* other number, none included, is refused without touching them.           *)
Values == [kind : Kinds \cup {"widened"}, typed : BOOLEAN]
Filled == [Params -> Values]
Unfit == <<>>

Undescribed == [p \in Params |-> "unknown"]

PCs == {"idle", "creating", "refilling", "checking", "bound",
        "running", "binding", "executing", "done", "dropping"}

(* Every variable of the handlers and of the registry has its type, and a   *)
(* statement that is bound has its handle.                                  *)
TypeOK ==
  /\ RegTypeOK
  /\ pc \in [Actors -> PCs]
  /\ conn \in [Actors -> Conns \cup {None}]
  /\ content \in [Addrs -> Filled \cup {Unfit}]
  /\ target \in [Stmts -> Addrs \cup {None}]
  /\ \A s \in Stmts : pc[s] \in {"idle", "checking"} \/ target[s] # None
  /\ types \in [Stmts -> [Params -> SqlTypes]]
  /\ decimals \in [Stmts -> BOOLEAN]
  /\ boundTo \in [Stmts -> Addrs \cup {None}]
  /\ intact \in [Stmts -> BOOLEAN]

Init ==
  /\ RegInit
  /\ pc = [a \in Actors |-> "idle"]
  /\ conn = [a \in Actors |-> None]
  /\ content = [v \in Addrs |-> Unfit]
  /\ target = [s \in Stmts |-> None]
  /\ types = [s \in Stmts |-> Undescribed]
  /\ decimals = [s \in Stmts |-> FALSE]
  /\ boundTo = [s \in Stmts |-> None]
  /\ intact = [s \in Stmts |-> FALSE]

-----------------------------------------------------------------------------
Goto(a, from, to) ==
  /\ pc[a] = from
  /\ pc' = [pc EXCEPT ![a] = to]

(* ConnectionsRegistry::Remove and Add, seen from here: ConnLifecycle.      *)
TakeConn(a) ==
  \E c \in Conns :
    /\ \A b \in Actors : conn[b] # c
    /\ conn' = [conn EXCEPT ![a] = c]

ReturnConn(a) == conn' = [conn EXCEPT ![a] = None]

(* The values of the vector at v are freed.                                 *)
Spoil(v) == intact' = [s \in Stmts |-> intact[s] /\ boundTo[s] # v]

-----------------------------------------------------------------------------
(* odbc_create_params.                                                      *)
Create(k) ==
  /\ Goto(k, "idle", "creating")
  /\ \E v \in Addrs :
       /\ Construct(k, v)
       /\ content' = [content EXCEPT ![v] = Unfit]
  /\ UNCHANGED <<conn, stmtVars>>

CreateReturns(k) ==
  /\ Goto(k, "creating", "idle")
  /\ Add(k)
  /\ UNCHANGED <<conn, content, stmtVars>>

(* odbc_bind_params: take the connection, take the vector and clear it.     *)
BeginRefill(k) ==
  /\ Goto(k, "idle", "refilling")
  /\ TakeConn(k)
  /\ \E v \in Addrs :
       /\ Remove(k, v)
       /\ content' = [content EXCEPT ![v] = Unfit]
       /\ Spoil(v)
  /\ UNCHANGED <<bindVars, boundTo>>

(* Params::Extract: new values, none with an expected type.                 *)
Extracted(v) ==
  \E kind \in [Params -> Given] :
    content' = [content EXCEPT ![v] = [p \in Params |-> [kind |-> kind[p], typed |-> FALSE]]]

(* faulty variant: the vector is not given back when the values are refused *)
EndRefill_LostOnError(k) ==
  /\ Goto(k, "refilling", "idle")
  /\ \/ /\ Extracted(held[k])
        /\ Add(k)
     \/ /\ held' = [held EXCEPT ![k] = None]
        /\ UNCHANGED <<content, reg, live, gen>>
  /\ ReturnConn(k)
  /\ UNCHANGED stmtVars

(* The values are extracted and moved in.  When one is refused the vector   *)
(* stays empty; they can also be too many or too few for a statement.  The  *)
(* vector and the connection are given back.                                *)
EndRefill(k) ==
  /\ Goto(k, "refilling", "idle")
  /\ Extracted(held[k]) \/ UNCHANGED content
  /\ Add(k)
  /\ ReturnConn(k)
  /\ UNCHANGED stmtVars

-----------------------------------------------------------------------------
(* odbc_query, Bind: the handle must exist; it is given back, and the       *)
(* driver is asked for the types of the parameters, which it may not know.  *)
BindCheck(s) ==
  /\ Goto(s, "idle", "checking")
  /\ TakeConn(s)
  /\ \E v \in Addrs : Remove(s, v)
  /\ UNCHANGED <<content, stmtVars>>

Described(s) ==
  /\ \E t \in [Params -> Reported] : types' = [types EXCEPT ![s] = t]
  /\ \E q \in AsDecimal : decimals' = [decimals EXCEPT ![s] = q]

(* faulty variant: the pointer is given away before the handle is read *)
BindDone_HandleAfterAdd(s) ==
  /\ Goto(s, "checking", "bound")
  /\ Add(s)
  /\ target' = [target EXCEPT ![s] = held'[s]]
  /\ Described(s)
  /\ ReturnConn(s)
  /\ UNCHANGED <<content, boundTo, intact>>

BindDone(s) ==
  /\ Goto(s, "checking", "bound")
  /\ target' = [target EXCEPT ![s] = held[s]]
  /\ Described(s)
  /\ Add(s)
  /\ ReturnConn(s)
  /\ UNCHANGED <<content, boundTo, intact>>

BindFails(s) ==
  /\ Goto(s, "checking", "idle")
  /\ Add(s)
  /\ ReturnConn(s)
  /\ UNCHANGED <<content, stmtVars>>

(* GlobalInit takes the connection for the whole run.                       *)
RunBegins(s) ==
  /\ Goto(s, "bound", "running")
  /\ TakeConn(s)
  /\ UNCHANGED <<regVars, content, stmtVars>>

(* faulty variant: the handle is dereferenced in place *)
TakeParams_LookUp(s) ==
  /\ Goto(s, "running", "binding")
  /\ target[s] \in reg
  /\ held' = [held EXCEPT ![s] = target[s]]
  /\ UNCHANGED <<reg, live, gen, conn, content, stmtVars>>

(* faulty variant: the result of Remove is not tested *)
TakeParams_Unchecked(s) ==
  /\ Goto(s, "running", "binding")
  /\ reg' = reg \ {target[s]}
  /\ held' = [held EXCEPT ![s] = IF target[s] \in reg THEN target[s] ELSE None]
  /\ UNCHANGED <<live, gen, conn, content, stmtVars>>

(* BindParamsAndExecute: take the vector (no handle: the run ends) ...      *)
TakeParams(s) ==
  /\ Goto(s, "running", "binding")
  /\ Remove(s, target[s])
  /\ UNCHANGED <<conn, content, stmtVars>>

HandleGone(s) ==
  /\ Goto(s, "running", "done")
  /\ target[s] \notin reg
  /\ UNCHANGED <<regVars, conn, content, stmtVars>>

(* Types::CoalesceParameterType makes an integral a new value, a DECIMAL.   *)
MadeDecimal(s, x) == decimals[s] /\ x.kind = "integral"

(* ScannerValue::SetExpectedType: a type that is known is not set again; a  *)
(* DECIMAL that was just made has none.                                     *)
Refused(s, x) == x.typed /\ ~MadeDecimal(s, x)

(* The body of the loop of SetExpectedTypes: numbers for a character type   *)
(* become characters, but for a DECIMAL.                                    *)
Expect(s, p, x) ==
  [kind  |-> IF MadeDecimal(s, x) THEN "other"
             ELSE IF types[s][p] \in CharacterTypes /\ x.kind \in {"integral", "float"}
             THEN "digits" ELSE x.kind,
   typed |-> types[s][p] # "unknown"]

(* BindOdbcParam<DecimalChars> widens the characters for a wide type, and   *)
(* sets another length.                                                     *)
Widen(s, p, x) ==
  [x EXCEPT !.kind = IF x.kind = "digits" /\ types[s][p] = "wide" THEN "widened" ELSE x.kind]

(* The values s holds, when the types of the first n are set and the first  *)
(* m are bound.                                                             *)
Prepared(s, n, m) ==
  [p \in Params |->
     LET x == content[held[s]][p]
         y == IF p <= n THEN Expect(s, p, x) ELSE x
     IN  IF p <= m THEN Widen(s, p, y) ELSE y]

(* faulty variant: known types are set again *)
Accepted_SetAgain(s, n) == content[held[s]] # Unfit

(* The first n values have been given their types.                          *)
Accepted(s, n) ==
  /\ content[held[s]] # Unfit
  /\ \A p \in 1 .. n : ~Refused(s, content[held[s]][p])

(* The buffers of t, if they are those of the vector s holds, are as they   *)
(* were when the vector has these values.                                   *)
Untouched(s, t, values) ==
  boundTo[t] = held[s] => \A p \in Params : values[p].kind = content[held[s]][p].kind

(* ... set the expected types, bind the buffers and give the vector back ...*)
BindBuffers(s) ==
  /\ Goto(s, "binding", "executing")
  /\ Accepted(s, NumParams)
  /\ content' = [content EXCEPT ![held[s]] = Prepared(s, NumParams, NumParams)]
  /\ intact' = [t \in Stmts |->
        t = s \/ (intact[t] /\ Untouched(s, t, Prepared(s, NumParams, NumParams)))]
  /\ boundTo' = [boundTo EXCEPT ![s] = held[s]]
  /\ Add(s)
  /\ UNCHANGED <<conn, bindVars>>

(* (a wrong number of values; one that has its type already; or the driver *)
(* refuses to forget its old bindings, or the binding of the m-th value:    *)
(* what was done to the values stays)                                       *)
BindBuffersFails(s) ==
  /\ Goto(s, "binding", "done")
  /\ \/ content[held[s]] = Unfit /\ UNCHANGED <<content, intact>>
     \/ \E n, m \in 0 .. NumParams :
          /\ Accepted(s, n)
          /\ \/ n = NumParams
             \/ n < NumParams /\ m = 0 /\ Refused(s, content[held[s]][n + 1])
          /\ content' = [content EXCEPT ![held[s]] = Prepared(s, n, m)]
          /\ intact' = [t \in Stmts |-> intact[t] /\ Untouched(s, t, Prepared(s, n, m))]
  /\ Add(s)
  /\ UNCHANGED <<conn, bindVars, boundTo>>

(* ... and execute: the driver reads the bound buffers.                     *)
Execute(s) ==
  /\ Goto(s, "executing", "done")
  /\ UNCHANGED <<regVars, conn, content, stmtVars>>

(* ~GlobalInitData, after the rows are fetched or an error: the connection  *)
(* goes back.                                                               *)
RunEnds(s) ==
  /\ Goto(s, "done", "bound")
  /\ ReturnConn(s)
  /\ UNCHANGED <<regVars, content, stmtVars>>

(* ~BindData: destroy the vector, if it is in the registry just now.        *)
Drop(s) ==
  /\ Goto(s, "bound", "dropping")
  /\ Remove(s, target[s])
  /\ UNCHANGED <<conn, content, stmtVars>>

Forget(s) ==
  /\ target' = [target EXCEPT ![s] = None]
  /\ types' = [types EXCEPT ![s] = Undescribed]
  /\ decimals' = [decimals EXCEPT ![s] = FALSE]
  /\ boundTo' = [boundTo EXCEPT ![s] = None]

DropDone(s) ==
  /\ Goto(s, "dropping", "idle")
  /\ Spoil(held[s])
  /\ Destruct(s)
  /\ Forget(s)
  /\ UNCHANGED <<conn, content>>

DropMissed(s) ==
  /\ Goto(s, "bound", "idle")
  /\ target[s] \notin reg
  /\ Forget(s)
  /\ UNCHANGED <<regVars, conn, content, intact>>

-----------------------------------------------------------------------------
CallStep(k) == Create(k) \/ CreateReturns(k) \/ BeginRefill(k) \/ EndRefill(k)

StmtStep(s) ==
  \/ BindCheck(s) \/ BindDone(s) \/ BindFails(s)
  \/ RunBegins(s) \/ TakeParams(s) \/ HandleGone(s)
  \/ BindBuffers(s) \/ BindBuffersFails(s) \/ Execute(s) \/ RunEnds(s)
  \/ Drop(s) \/ DropDone(s) \/ DropMissed(s)

Next == (\E k \in Calls : CallStep(k)) \/ (\E s \in Stmts : StmtStep(s))

Spec == Init /\ [][Next]_vars

(* A callback that has been entered runs to its end.                        *)
Fairness ==
  /\ \A k \in Calls : WF_vars(CreateReturns(k)) /\ WF_vars(EndRefill(k))
  /\ \A s \in Stmts :
       /\ WF_vars(BindDone(s) \/ BindFails(s))
       /\ WF_vars(BindBuffers(s) \/ BindBuffersFails(s))
       /\ WF_vars(DropDone(s))

FairSpec == Spec /\ Fairness

-----------------------------------------------------------------------------
(* The points at which a call or statement has the vector in its unique_ptr.*)
Holding == {"creating", "refilling", "checking", "binding", "dropping"}

(* A call or statement has a vector exactly in the middle of a handler: the *)
(* Defer guards never give back a null pointer.                             *)
HoldersHold == \A a \in Actors : pc[a] \in Holding <=> held[a] # None

(* Two statements execute with the same values, when they were given the    *)
(* same handle and run on different connections, only if the driver of one  *)
(* of them knows the type of no parameter: else the second one is refused,  *)
(* or has made the values the first one is bound to into something else.    *)
NoSharedBuffers ==
  \A s, t \in Stmts :
    /\ pc[s] = "executing" /\ intact[s]
    /\ pc[t] = "executing" /\ intact[t]
    /\ boundTo[s] = boundTo[t]
    => s = t \/ types[s] = Undescribed \/ types[t] = Undescribed

(* A vector that a call or statement has taken is given back or destroyed.  *)
VectorComesBack == \A v \in Addrs : v \in live ~> (v \in reg \/ v \notin live)

-----------------------------------------------------------------------------
(* params.cpp warns of buffers that move or go after they were bound ("the  *)
(* previously bound pointer would then dangle"): a statement executes on    *)
(* buffers that are still there.  It does not hold: BindParamsAndExecute    *)
(* gives the vector back between SQLBindParameter and SQLExecute.           *)
BoundBuffersIntact == \A s \in Stmts : pc[s] = "executing" => intact[s]

=============================================================================
