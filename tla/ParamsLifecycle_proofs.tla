----------------------- MODULE ParamsLifecycle_proofs -----------------------
(***************************************************************************)
(* Proofs about ParamsLifecycle, for any sets of addresses, calls,         *)
(* statements and connections and any number of objects per address.       *)
(***************************************************************************)
EXTENDS ParamsLifecycle, Registry_proofs

(* A statement executes on buffers nobody has freed or refilled.            *)
Feeding(s) == pc[s] = "executing" /\ intact[s]

(* The values are as many as s needs, and one of them has its type if the   *)
(* driver of s told any.                                                    *)
Serves(s, values) ==
  /\ values \in Filled
  /\ types[s] = Undescribed \/ \E p \in Params : values[p].typed

(* NoSharedBuffers made inductive: the vector such buffers are in exists,   *)
(* its types, if any are known, keep others from using it as it is, and     *)
(* nobody who cleared it earlier is about to fill it.                       *)
BuffersOK ==
  /\ \A s \in Stmts : Feeding(s) =>
       /\ boundTo[s] \in live
       /\ Serves(s, content[boundTo[s]])
       /\ \A a \in Actors : pc[a] = "refilling" => held[a] # boundTo[s]
  /\ NoSharedBuffers

IInv == Own /\ TypeOK /\ HoldersHold /\ BuffersOK

-----------------------------------------------------------------------------
LEMMA InitInv == Init => IInv
<1> SUFFICES ASSUME Init PROVE IInv
  OBVIOUS
<1>1. Own
  BY RegistryAssumption DEF Init, RegInit, Own, RegTypeOK, ExclusiveOwnership
<1>2. TypeOK
  <2>1. Undescribed \in [Params -> SqlTypes]
    BY DEF Undescribed, SqlTypes
  <2>2. /\ pc \in [Actors -> PCs] /\ conn \in [Actors -> Conns \cup {None}]
        /\ content \in [Addrs -> Filled \cup {Unfit}]
    BY DEF Init, PCs
  <2>3. /\ target \in [Stmts -> Addrs \cup {None}] /\ boundTo \in [Stmts -> Addrs \cup {None}]
        /\ types \in [Stmts -> [Params -> SqlTypes]]
        /\ decimals \in [Stmts -> BOOLEAN] /\ intact \in [Stmts -> BOOLEAN]
    BY <2>1 DEF Init
  <2>4. \A s \in Stmts : pc[s] \in {"idle", "checking"} \/ target[s] # None
    BY ParamsAssumption DEF Init
  <2> QED
    BY <1>1, <2>2, <2>3, <2>4 DEF Own, TypeOK
<1>3. HoldersHold
  BY DEF Init, RegInit, HoldersHold, Holding
<1>4. BuffersOK
  BY ParamsAssumption DEF Init, BuffersOK, NoSharedBuffers, Feeding
<1> QED
  BY <1>1, <1>2, <1>3, <1>4 DEF IInv

(* Where a stands when its step begins.                                     *)
LEMMA HeldOf ==
  ASSUME IInv, NEW a \in Actors
  PROVE  /\ pc[a] \in Holding => held[a] \in Addrs /\ held[a] \in live
         /\ pc[a] \notin Holding => held[a] = None
<1>1. pc[a] \in Holding => held[a] # None
  BY DEF IInv, HoldersHold
<1>2. held[a] # None => held[a] \in Addrs /\ held[a] \in live
  BY DEF IInv, Own, RegTypeOK, ExclusiveOwnership
<1> QED
  BY <1>1, <1>2 DEF IInv, HoldersHold

(* A step of a that starts no execution keeps BuffersOK, if the buffers of  *)
(* the executions it leaves alone stay, and a does not begin to refill them.*)
LEMMA BuffersKept ==
  ASSUME IInv, NEW a \in Actors,
         \A b \in Actors : b # a => pc'[b] = pc[b] /\ held'[b] = held[b],
         \A s \in Stmts : Feeding(s)' =>
           Feeding(s) /\ boundTo'[s] = boundTo[s] /\ types'[s] = types[s],
         \A s \in Stmts : Feeding(s)' =>
           /\ boundTo[s] \in live'
           /\ Serves(s, content'[boundTo[s]])
           /\ pc'[a] = "refilling" => held'[a] # boundTo[s]
  PROVE  BuffersOK'
<1>1. ASSUME NEW s \in Stmts, Feeding(s)'
      PROVE  /\ boundTo'[s] \in live' /\ Serves(s, content[boundTo[s]])'
             /\ \A b \in Actors : pc'[b] = "refilling" => held'[b] # boundTo'[s]
  BY <1>1 DEF IInv, BuffersOK, Serves
<1>2. NoSharedBuffers'
  BY DEF IInv, BuffersOK, NoSharedBuffers, Feeding
<1> QED
  BY <1>1, <1>2 DEF BuffersOK

(* A step of a that keeps the registry's part, moves only a, and keeps the  *)
(* types of the rest.                                                       *)
LEMMA StepOfOne ==
  ASSUME IInv, NEW a \in Actors, NEW p \in PCs,
         Own',
         pc' = [pc EXCEPT ![a] = p],
         \A b \in Actors : b # a => held'[b] = held[b],
         p \in Holding <=> held'[a] # None,
         conn' \in [Actors -> Conns \cup {None}],
         content' \in [Addrs -> Filled \cup {Unfit}],
         types' \in [Stmts -> [Params -> SqlTypes]],
         decimals' \in [Stmts -> BOOLEAN],
         target' \in [Stmts -> Addrs \cup {None}],
         \A s \in Stmts : s # a => target'[s] = target[s],
         a \in Stmts => p \in {"idle", "checking"} \/ target'[a] # None,
         boundTo' \in [Stmts -> Addrs \cup {None}],
         intact' \in [Stmts -> BOOLEAN],
         BuffersOK'
  PROVE  IInv'
<1>1. pc' \in [Actors -> PCs] /\ \A b \in Actors : b # a => pc'[b] = pc[b]
  BY DEF IInv, TypeOK
<1>2. pc'[a] = p
  BY DEF IInv, TypeOK
<1>3. HoldersHold'
  BY <1>1, <1>2 DEF IInv, HoldersHold
<1>4. \A s \in Stmts : pc'[s] \in {"idle", "checking"} \/ target'[s] # None
  BY <1>1, <1>2, ParamsAssumption DEF IInv, TypeOK
<1>5. TypeOK'
  BY <1>1, <1>4 DEF TypeOK, Own
<1> QED
  BY <1>3, <1>5 DEF IInv

(* The connections.                                                         *)
LEMMA ConnTypes ==
  ASSUME IInv, NEW a \in Actors,
         TakeConn(a) \/ ReturnConn(a) \/ UNCHANGED conn
  PROVE  conn' \in [Actors -> Conns \cup {None}]
BY DEF IInv, TypeOK, TakeConn, ReturnConn

(* The values extracted are values.                                         *)
LEMMA ExtractedType ==
  ASSUME IInv, NEW v \in Addrs, Extracted(v)
  PROVE  content' \in [Addrs -> Filled \cup {Unfit}]
<1>1. PICK kind \in [Params -> Given] :
        content' = [content EXCEPT ![v] = [p \in Params |-> [kind |-> kind[p], typed |-> FALSE]]]
  BY DEF Extracted
<1>2. [p \in Params |-> [kind |-> kind[p], typed |-> FALSE]] \in Filled
  BY ParamsAssumption DEF Filled, Values
<1> QED
  BY <1>1, <1>2 DEF IInv, TypeOK

(* What an execution makes of the values of a vector, or of the first ones. *)
LEMMA PreparedType ==
  ASSUME NEW s \in Stmts, content[held[s]] \in Filled, types \in [Stmts -> [Params -> SqlTypes]],
         NEW n \in 0 .. NumParams, NEW m \in 0 .. NumParams
  PROVE  /\ Prepared(s, n, m) \in Filled
         /\ n = NumParams =>
              \A p \in Params : Prepared(s, n, m)[p].typed <=> types[s][p] # "unknown"
<1>1. ASSUME NEW p \in Params, NEW x \in Values
      PROVE  /\ Expect(s, p, x) \in Values
             /\ Expect(s, p, x).typed <=> types[s][p] # "unknown"
  BY <1>1 DEF Expect, Values, Kinds
<1>2. ASSUME NEW p \in Params, NEW x \in Values
      PROVE  Widen(s, p, x) \in Values /\ Widen(s, p, x).typed = x.typed
  BY <1>2 DEF Widen, Values, Kinds
<1>3. ASSUME NEW p \in Params
      PROVE  /\ Prepared(s, n, m)[p] \in Values
             /\ n = NumParams => (Prepared(s, n, m)[p].typed <=> types[s][p] # "unknown")
  <2> DEFINE x == content[held[s]][p]
             y == IF p <= n THEN Expect(s, p, x) ELSE x
  <2>1. x \in Values
    BY DEF Filled
  <2>2. y \in Values /\ (p <= n => (y.typed <=> types[s][p] # "unknown"))
    BY <1>1, <2>1
  <2>3. Prepared(s, n, m)[p] = IF p <= m THEN Widen(s, p, y) ELSE y
    BY DEF Prepared
  <2>4. n = NumParams => p <= n
    BY ParamsAssumption DEF Params
  <2> HIDE DEF x, y
  <2> QED
    BY <1>2, <2>2, <2>3, <2>4
<1> QED
  BY <1>3 DEF Prepared, Filled

(* Values that other statements are bound to, when s is done with them: if  *)
(* they are what they were, known types are still known, and s has given    *)
(* types only to values that had none.                                      *)
LEMMA PreparedKnown ==
  ASSUME NEW s \in Stmts, content[held[s]] \in Filled,
         NEW n \in 0 .. NumParams, NEW m \in 0 .. NumParams,
         Accepted(s, n),
         \A p \in Params : Prepared(s, n, m)[p].kind = content[held[s]][p].kind
  PROVE  \A p \in Params :
           content[held[s]][p].typed => p > n /\ Prepared(s, n, m)[p].typed
<1> SUFFICES ASSUME NEW p \in Params, content[held[s]][p].typed
             PROVE  p > n /\ Prepared(s, n, m)[p].typed
  OBVIOUS
<1> DEFINE x == content[held[s]][p]
<1>1. x \in Values /\ n \in Nat /\ p \in Nat /\ p >= 1
  BY ParamsAssumption DEF Filled, Params
<1>2. CASE p <= n
  <2>1. p \in 1 .. n
    BY <1>1, <1>2
  <2>2. MadeDecimal(s, x)
    BY <2>1 DEF Accepted, Refused
  <2>3. x.kind = "integral" /\ Expect(s, p, x).kind = "other"
    BY <2>2 DEF MadeDecimal, Expect
  <2>4. Expect(s, p, x) \in [kind : {"other"}, typed : BOOLEAN]
    BY <2>2 DEF Expect
  <2>5. Widen(s, p, Expect(s, p, x)).kind = "other"
    BY <2>4 DEF Widen
  <2>6. Prepared(s, n, m)[p].kind = "other"
    BY <1>2, <2>3, <2>5 DEF Prepared
  <2> QED
    BY <2>3, <2>6
<1>3. CASE ~(p <= n)
  <2>1. Prepared(s, n, m)[p] = IF p <= m THEN Widen(s, p, x) ELSE x
    BY <1>3 DEF Prepared
  <2>2. Widen(s, p, x).typed = x.typed
    BY <1>1 DEF Widen, Values
  <2>3. x.typed
    OBVIOUS
  <2>4. p > n
    BY <1>1, <1>3
  <2> HIDE DEF x
  <2>5. Prepared(s, n, m)[p].typed = x.typed
    BY <2>1, <2>2
  <2> QED
    BY <2>3, <2>4, <2>5
<1> QED
  BY <1>2, <1>3

-----------------------------------------------------------------------------
(* odbc_create_params and odbc_bind_params.                                 *)
LEMMA CallInv ==
  ASSUME IInv, NEW k \in Calls, CallStep(k)
  PROVE  IInv'
<1> /\ k \in Actors /\ k \notin Stmts /\ Own /\ RegTypeOK /\ TypeOK
    /\ \A s \in Stmts : s \in Actors /\ s # k
  BY ParamsAssumption DEF IInv, Own
<1>1. CASE Create(k)
  <2>1. PICK v \in Addrs : Construct(k, v) /\ content' = [content EXCEPT ![v] = Unfit]
    BY <1>1 DEF Create
  <2>2. held[k] = None
    BY <1>1, HeldOf DEF Create, Goto, Holding
  <2>3. Own'
    BY <2>1, <2>2, ConstructOwn
  <2>4. /\ held' = [held EXCEPT ![k] = v] /\ v # None /\ v \notin live /\ live' = live \cup {v}
        /\ pc' = [pc EXCEPT ![k] = "creating"] /\ "creating" \in PCs /\ "creating" \in Holding
        /\ UNCHANGED <<conn, target, types, decimals, boundTo, intact>>
    BY <1>1, <2>1, RegistryAssumption DEF Create, Goto, Construct, stmtVars, bindVars, PCs, Holding
  <2>5. \A s \in Stmts : Feeding(s)' =>
          /\ Feeding(s) /\ boundTo'[s] = boundTo[s] /\ boundTo[s] \in live'
          /\ types'[s] = types[s] /\ Serves(s, content'[boundTo[s]])
    BY <2>1, <2>4 DEF IInv, BuffersOK, Feeding, TypeOK
  <2>6. BuffersOK'
    BY <2>4, <2>5, BuffersKept DEF TypeOK, RegTypeOK
  <2> QED
    BY <2>1, <2>3, <2>4, <2>6, StepOfOne DEF TypeOK, RegTypeOK
<1>2. CASE CreateReturns(k)
  <2>1. held[k] \in Addrs
    BY <1>2, HeldOf DEF CreateReturns, Goto, Holding
  <2>2. Own'
    BY <1>2, <2>1, AddOwn, RegistryAssumption DEF CreateReturns
  <2>3. /\ held' = [held EXCEPT ![k] = None] /\ live' = live
        /\ pc' = [pc EXCEPT ![k] = "idle"] /\ "idle" \in PCs /\ "idle" \notin Holding
        /\ UNCHANGED <<conn, content, target, types, decimals, boundTo, intact>>
    BY <1>2 DEF CreateReturns, Goto, Add, stmtVars, bindVars, PCs, Holding
  <2>4. \A s \in Stmts : Feeding(s)' =>
          /\ Feeding(s) /\ boundTo'[s] = boundTo[s] /\ boundTo[s] \in live'
          /\ types'[s] = types[s] /\ Serves(s, content'[boundTo[s]])
    BY <2>3 DEF IInv, BuffersOK, Feeding, TypeOK
  <2>5. BuffersOK'
    BY <2>3, <2>4, BuffersKept DEF TypeOK, RegTypeOK
  <2> QED
    BY <2>2, <2>3, <2>5, StepOfOne DEF TypeOK, RegTypeOK
<1>3. CASE BeginRefill(k)
  <2>1. PICK v \in Addrs :
          Remove(k, v) /\ content' = [content EXCEPT ![v] = Unfit] /\ Spoil(v)
    BY <1>3 DEF BeginRefill
  <2>2. held[k] = None
    BY <1>3, HeldOf DEF BeginRefill, Goto, Holding
  <2>3. Own'
    BY <2>1, <2>2, RemoveOwn
  <2>4. /\ held' = [held EXCEPT ![k] = v] /\ v # None /\ live' = live
        /\ pc' = [pc EXCEPT ![k] = "refilling"] /\ "refilling" \in PCs
        /\ "refilling" \in Holding
        /\ UNCHANGED <<target, types, decimals, boundTo>>
        /\ intact' = [s \in Stmts |-> intact[s] /\ boundTo[s] # v]
    BY <1>3, <2>1, RegistryAssumption DEF BeginRefill, Goto, Remove, Spoil, bindVars, PCs, Holding
  <2>5. \A s \in Stmts : Feeding(s)' =>
          /\ Feeding(s) /\ boundTo'[s] = boundTo[s] /\ boundTo[s] \in live'
          /\ types'[s] = types[s] /\ Serves(s, content'[boundTo[s]]) /\ boundTo[s] # v
    <3> SUFFICES ASSUME NEW s \in Stmts, Feeding(s)'
                 PROVE  /\ Feeding(s) /\ boundTo'[s] = boundTo[s] /\ boundTo[s] \in live'
                        /\ types'[s] = types[s] /\ Serves(s, content'[boundTo[s]])
                        /\ boundTo[s] # v
      OBVIOUS
    <3>1. pc[s] = "executing" /\ intact'[s]
      BY <2>4 DEF Feeding, TypeOK
    <3>2. intact[s] /\ boundTo[s] # v
      BY <2>4, <3>1, Zenon
    <3>3. Feeding(s)
      BY <3>1, <3>2 DEF Feeding
    <3> QED
      BY <2>1, <2>4, <3>2, <3>3 DEF IInv, BuffersOK, TypeOK
  <2>6. BuffersOK'
    BY <2>4, <2>5, BuffersKept DEF TypeOK, RegTypeOK
  <2>7. conn' \in [Actors -> Conns \cup {None}]
    BY <1>3, ConnTypes DEF BeginRefill
  <2>8. intact' \in [Stmts -> BOOLEAN]
    BY <2>4 DEF TypeOK
  <2> QED
    BY <2>1, <2>3, <2>4, <2>6, <2>7, <2>8, StepOfOne DEF TypeOK, RegTypeOK
<1>4. CASE EndRefill(k)
  <2>1. held[k] \in Addrs /\ pc[k] = "refilling"
    BY <1>4, HeldOf DEF EndRefill, Goto, Holding
  <2>2. Own'
    BY <1>4, <2>1, AddOwn, RegistryAssumption DEF EndRefill
  <2>3. /\ held' = [held EXCEPT ![k] = None] /\ live' = live
        /\ pc' = [pc EXCEPT ![k] = "idle"] /\ "idle" \in PCs /\ "idle" \notin Holding
        /\ Extracted(held[k]) \/ UNCHANGED content
        /\ UNCHANGED <<target, types, decimals, boundTo, intact>>
    BY <1>4 DEF EndRefill, Goto, Add, stmtVars, bindVars, PCs, Holding
  <2>4. \A s \in Stmts : Feeding(s)' =>
          /\ Feeding(s) /\ boundTo'[s] = boundTo[s] /\ boundTo[s] \in live'
          /\ types'[s] = types[s] /\ Serves(s, content'[boundTo[s]])
    <3> SUFFICES ASSUME NEW s \in Stmts, Feeding(s)'
                 PROVE  /\ Feeding(s) /\ boundTo'[s] = boundTo[s] /\ boundTo[s] \in live'
                        /\ types'[s] = types[s] /\ Serves(s, content'[boundTo[s]])
      OBVIOUS
    <3>1. Feeding(s)
      BY <2>3 DEF Feeding, TypeOK
    <3>2. /\ boundTo[s] \in live /\ Serves(s, content[boundTo[s]])
          /\ held[k] # boundTo[s]
      BY <2>1, <3>1 DEF IInv, BuffersOK
    <3>3. content'[boundTo[s]] = content[boundTo[s]]
      BY <2>1, <2>3, <3>2 DEF Extracted, TypeOK, RegTypeOK
    <3> QED
      BY <2>3, <3>1, <3>2, <3>3
  <2>5. BuffersOK'
    BY <2>3, <2>4, BuffersKept DEF TypeOK, RegTypeOK
  <2>6. conn' \in [Actors -> Conns \cup {None}]
    BY <1>4, ConnTypes DEF EndRefill
  <2>7. content' \in [Addrs -> Filled \cup {Unfit}]
    BY <2>1, <2>3, ExtractedType DEF TypeOK
  <2> QED
    BY <2>2, <2>3, <2>5, <2>6, <2>7, StepOfOne DEF TypeOK, RegTypeOK
<1> QED
  BY <1>1, <1>2, <1>3, <1>4 DEF CallStep

-----------------------------------------------------------------------------
(* odbc_query: the steps that neither execute nor free or refill a vector.  *)
LEMMA QuietStep ==
  ASSUME IInv, NEW s \in Stmts,
         \/ BindCheck(s) \/ BindDone(s) \/ BindFails(s) \/ RunBegins(s) \/ TakeParams(s)
         \/ HandleGone(s) \/ Execute(s) \/ RunEnds(s) \/ Drop(s) \/ DropMissed(s)
  PROVE  BuffersOK'
<1> s \in Actors /\ TypeOK /\ RegTypeOK
  BY ParamsAssumption DEF IInv, TypeOK
<1>1. pc'[s] # "executing" /\ pc'[s] # "refilling" /\ \A b \in Actors : b # s => pc'[b] = pc[b]
  BY DEF BindCheck, BindDone, BindFails, RunBegins, TakeParams, HandleGone,
         Execute, RunEnds, Drop, DropMissed, Goto, TypeOK
<1>2. live' = live /\ UNCHANGED intact /\ \A b \in Actors : b # s => held'[b] = held[b]
  BY DEF BindCheck, BindDone, BindFails, RunBegins, TakeParams, HandleGone,
         Execute, RunEnds, Drop, DropMissed, Remove, Add, regVars, stmtVars, RegTypeOK
<1>3. /\ \A t \in Stmts : t # s => boundTo'[t] = boundTo[t] /\ types'[t] = types[t]
      /\ content' = content
  BY DEF BindCheck, BindDone, BindFails, RunBegins, TakeParams, HandleGone,
         Execute, RunEnds, Drop, DropMissed, Forget, Described, stmtVars, bindVars, TypeOK
<1>4. ASSUME NEW t \in Stmts, Feeding(t)'
      PROVE  /\ Feeding(t) /\ boundTo'[t] = boundTo[t] /\ types'[t] = types[t]
             /\ boundTo[t] \in live' /\ Serves(t, content'[boundTo[t]])
  <2>1. t # s /\ t \in Actors
    BY <1>1, <1>4, ParamsAssumption DEF Feeding
  <2>2. Feeding(t)
    BY <1>1, <1>2, <1>4, <2>1 DEF Feeding
  <2>3. boundTo[t] \in live /\ Serves(t, content[boundTo[t]])
    BY <2>2 DEF IInv, BuffersOK
  <2> QED
    BY <1>2, <1>3, <2>1, <2>2, <2>3
<1> QED
  BY <1>1, <1>2, <1>4, BuffersKept

(* A statement prepares the values of a vector another one is bound to.     *)
LEMMA OthersServed ==
  ASSUME IInv, NEW s \in Stmts, NEW t \in Stmts, Feeding(t), held[s] \in Addrs,
         NEW n \in 0 .. NumParams, NEW m \in 0 .. NumParams,
         Accepted(s, n), Untouched(s, t, Prepared(s, n, m)),
         content' = [content EXCEPT ![held[s]] = Prepared(s, n, m)]
  PROVE  /\ boundTo[t] \in live
         /\ Serves(t, content'[boundTo[t]])
         /\ boundTo[t] = held[s] /\ n = NumParams => types[t] = Undescribed
<1>1. /\ boundTo[t] \in live /\ Serves(t, content[boundTo[t]])
      /\ live \subseteq Addrs /\ content \in [Addrs -> Filled \cup {Unfit}]
      /\ types \in [Stmts -> [Params -> SqlTypes]]
  BY DEF IInv, BuffersOK, TypeOK, RegTypeOK
<1>2. CASE boundTo[t] # held[s]
  BY <1>1, <1>2
<1>3. CASE boundTo[t] = held[s]
  <2>1. content[held[s]] \in Filled /\ content'[boundTo[t]] = Prepared(s, n, m)
    BY <1>1, <1>3 DEF Serves
  <2>2. Prepared(s, n, m) \in Filled
    BY <1>1, <2>1, PreparedType
  <2>3. \A p \in Params :
          content[held[s]][p].typed => p > n /\ Prepared(s, n, m)[p].typed
    BY <1>3, <2>1, PreparedKnown DEF Untouched
  <2>4. \A p \in Params : n = NumParams => ~(p > n)
    BY ParamsAssumption DEF Params
  <2> QED
    BY <1>1, <1>3, <2>1, <2>2, <2>3, <2>4 DEF Serves
<1> QED
  BY <1>2, <1>3

(* The types told to a statement, and those of one that is forgotten.       *)
LEMMA DescribedType ==
  ASSUME NEW s \in Stmts, Described(s),
         types \in [Stmts -> [Params -> SqlTypes]], decimals \in [Stmts -> BOOLEAN]
  PROVE  types' \in [Stmts -> [Params -> SqlTypes]] /\ decimals' \in [Stmts -> BOOLEAN]
<1>1. \A t \in [Params -> Reported] : t \in [Params -> SqlTypes]
  BY ParamsAssumption
<1>2. types' \in [Stmts -> [Params -> SqlTypes]]
  BY <1>1 DEF Described
<1>3. decimals' \in [Stmts -> BOOLEAN]
  BY ParamsAssumption DEF Described
<1> QED
  BY <1>2, <1>3

LEMMA ForgetType ==
  ASSUME NEW s \in Stmts, Forget(s),
         types \in [Stmts -> [Params -> SqlTypes]], decimals \in [Stmts -> BOOLEAN]
  PROVE  types' \in [Stmts -> [Params -> SqlTypes]] /\ decimals' \in [Stmts -> BOOLEAN]
<1>1. Undescribed \in [Params -> SqlTypes]
  BY DEF Undescribed, SqlTypes
<1> QED
  BY <1>1 DEF Forget

LEMMA StmtInv ==
  ASSUME IInv, NEW s \in Stmts, StmtStep(s)
  PROVE  IInv'
<1> /\ s \in Actors /\ Own /\ RegTypeOK /\ TypeOK /\ s \notin Calls
  BY ParamsAssumption DEF IInv, Own
<1>1. conn' \in [Actors -> Conns \cup {None}]
  BY ConnTypes
  DEF StmtStep, BindCheck, BindDone, BindFails, RunBegins, TakeParams, HandleGone, BindBuffers,
      BindBuffersFails, Execute, RunEnds, Drop, DropDone, DropMissed
<1>2. CASE BindCheck(s) \/ TakeParams(s) \/ Drop(s)
  <2>1. PICK v \in reg :
          /\ Remove(s, v)
          /\ v = target[s] \/ BindCheck(s)
    BY <1>2 DEF BindCheck, TakeParams, Drop, Remove
  <2>2. held[s] = None /\ v \in Addrs /\ v # None
    BY <1>2, HeldOf, RegistryAssumption DEF BindCheck, TakeParams, Drop, Goto, Holding, RegTypeOK
  <2>3. Own' /\ held' = [held EXCEPT ![s] = v]
    BY <2>1, <2>2, RemoveOwn DEF Remove
  <2>4. BuffersOK'
    BY <1>2, QuietStep
  <2>5. PICK p \in {"checking", "binding", "dropping"} :
          /\ pc' = [pc EXCEPT ![s] = p]
          /\ p \in {"binding", "dropping"} => pc[s] \notin {"idle", "checking"}
    BY <1>2 DEF BindCheck, TakeParams, Drop, Goto
  <2>6. UNCHANGED <<content, target, types, decimals, boundTo, intact>>
    BY <1>2 DEF BindCheck, TakeParams, Drop, stmtVars, bindVars
  <2>7. p \in PCs /\ p \in Holding
    BY DEF PCs, Holding
  <2>8. p = "checking" \/ target[s] # None
    BY <2>5 DEF TypeOK
  <2> QED
    BY <1>1, <2>2, <2>3, <2>4, <2>5, <2>6, <2>7, <2>8, StepOfOne DEF TypeOK, RegTypeOK
<1>3. CASE BindDone(s) \/ BindFails(s)
  <2>1. held[s] \in Addrs /\ Add(s)
    BY <1>3, HeldOf DEF BindDone, BindFails, Goto, Holding
  <2>2. Own' /\ held' = [held EXCEPT ![s] = None]
    BY <2>1, AddOwn, RegistryAssumption DEF Add
  <2>3. BuffersOK'
    BY <1>3, QuietStep
  <2>4. PICK p \in {"bound", "idle"} :
          /\ pc' = [pc EXCEPT ![s] = p]
          /\ p = "bound" => target' = [target EXCEPT ![s] = held[s]] /\ Described(s)
          /\ p # "bound" => UNCHANGED <<target, types, decimals>>
    BY <1>3 DEF BindDone, BindFails, Goto, stmtVars, bindVars
  <2>5. p \in PCs /\ p \notin Holding
    BY DEF PCs, Holding
  <2>6. /\ target' \in [Stmts -> Addrs \cup {None}]
        /\ \A t \in Stmts : t # s => target'[t] = target[t]
        /\ p = "idle" \/ target'[s] # None
    BY <2>1, <2>4, RegistryAssumption DEF TypeOK
  <2>7. types' \in [Stmts -> [Params -> SqlTypes]] /\ decimals' \in [Stmts -> BOOLEAN]
    BY <2>4, DescribedType DEF TypeOK
  <2>8. UNCHANGED <<content, boundTo, intact>>
    BY <1>3 DEF BindDone, BindFails, stmtVars
  <2> QED
    BY <1>1, <2>1, <2>2, <2>3, <2>4, <2>5, <2>6, <2>7, <2>8, StepOfOne DEF TypeOK, RegTypeOK
<1>4. CASE RunBegins(s) \/ HandleGone(s) \/ Execute(s) \/ RunEnds(s)
  <2>1. held[s] = None /\ UNCHANGED <<regVars, content, stmtVars>>
    BY <1>4, HeldOf DEF RunBegins, HandleGone, Execute, RunEnds, Goto, Holding
  <2>2. Own'
    BY <2>1 DEF Own, RegTypeOK, ExclusiveOwnership, regVars
  <2>3. BuffersOK'
    BY <1>4, QuietStep
  <2>4. PICK p \in {"running", "done", "bound"} :
          pc' = [pc EXCEPT ![s] = p] /\ pc[s] \notin {"idle", "checking"}
    BY <1>4 DEF RunBegins, HandleGone, Execute, RunEnds, Goto
  <2>5. p \in PCs /\ p \notin Holding
    BY DEF PCs, Holding
  <2>6. held' = held /\ UNCHANGED <<content, target, types, decimals, boundTo, intact>>
    BY <2>1 DEF regVars, stmtVars, bindVars
  <2> QED
    BY <1>1, <2>1, <2>2, <2>3, <2>4, <2>5, <2>6, StepOfOne DEF TypeOK, RegTypeOK
<1>5. CASE DropMissed(s)
  <2>1. /\ held[s] = None /\ UNCHANGED <<regVars, content, intact>>
        /\ pc' = [pc EXCEPT ![s] = "idle"] /\ Forget(s)
    BY <1>5, HeldOf DEF DropMissed, Goto, Holding
  <2>2. Own' /\ held' = held
    BY <2>1 DEF Own, RegTypeOK, ExclusiveOwnership, regVars
  <2>3. BuffersOK'
    BY <1>5, QuietStep
  <2>4. "idle" \in PCs /\ "idle" \notin Holding
    BY DEF PCs, Holding
  <2>5. types' \in [Stmts -> [Params -> SqlTypes]] /\ decimals' \in [Stmts -> BOOLEAN]
    BY <2>1, ForgetType DEF TypeOK
  <2> QED
    BY <1>1, <2>1, <2>2, <2>3, <2>4, <2>5, StepOfOne DEF TypeOK, RegTypeOK, Forget
<1>6. CASE DropDone(s)
  <2>1. held[s] \in Addrs /\ held[s] \in live
    BY <1>6, HeldOf DEF DropDone, Goto, Holding
  <2>2. Own'
    BY <1>6, <2>1, DestructOwn, RegistryAssumption DEF DropDone
  <2>3. /\ held' = [held EXCEPT ![s] = None] /\ live' = live \ {held[s]}
        /\ pc' = [pc EXCEPT ![s] = "idle"] /\ "idle" \in PCs /\ "idle" \notin Holding
        /\ intact' = [t \in Stmts |-> intact[t] /\ boundTo[t] # held[s]]
        /\ Forget(s) /\ UNCHANGED content
    BY <1>6 DEF DropDone, Goto, Destruct, Spoil, PCs, Holding
  <2>4. ASSUME NEW t \in Stmts, Feeding(t)'
        PROVE  /\ Feeding(t) /\ boundTo'[t] = boundTo[t] /\ boundTo[t] \in live'
               /\ types'[t] = types[t] /\ Serves(t, content'[boundTo[t]])
    <3>1. t # s /\ pc[t] = "executing" /\ intact'[t]
      BY <2>3, <2>4 DEF Feeding, TypeOK
    <3>2. intact[t] /\ boundTo[t] # held[s]
      BY <2>3, <3>1, Zenon
    <3>3. Feeding(t)
      BY <3>1, <3>2 DEF Feeding
    <3>4. boundTo'[t] = boundTo[t] /\ types'[t] = types[t]
      BY <2>3, <3>1 DEF Forget, TypeOK
    <3> QED
      BY <2>3, <3>2, <3>3, <3>4 DEF IInv, BuffersOK
  <2>5. pc'[s] = "idle" /\ \A b \in Actors : b # s => pc'[b] = pc[b] /\ held'[b] = held[b]
    BY <2>3 DEF TypeOK, RegTypeOK
  <2>6. BuffersOK'
    BY <2>4, <2>5, BuffersKept
  <2>7. /\ target' \in [Stmts -> Addrs \cup {None}] /\ boundTo' \in [Stmts -> Addrs \cup {None}]
        /\ types' \in [Stmts -> [Params -> SqlTypes]] /\ decimals' \in [Stmts -> BOOLEAN]
        /\ \A t \in Stmts : t # s => target'[t] = target[t]
    BY <2>3, ForgetType DEF Forget, TypeOK
  <2>8. intact' \in [Stmts -> BOOLEAN]
    BY <2>3 DEF TypeOK
  <2> QED
    BY <1>1, <2>2, <2>3, <2>5, <2>6, <2>7, <2>8, StepOfOne DEF TypeOK, RegTypeOK
<1>7. CASE BindBuffersFails(s)
  <2> DEFINE v == held[s]
  <2>1. v \in Addrs
    BY <1>7, HeldOf DEF BindBuffersFails, Goto, Holding
  <2>2. Own'
    BY <1>7, <2>1, AddOwn, RegistryAssumption DEF BindBuffersFails
  <2>3. /\ held' = [held EXCEPT ![s] = None] /\ live' = live
        /\ pc[s] = "binding" /\ pc' = [pc EXCEPT ![s] = "done"]
        /\ UNCHANGED <<target, types, decimals, boundTo>>
    BY <1>7 DEF BindBuffersFails, Goto, Add, bindVars
  <2>4. "done" \in PCs /\ "done" \notin Holding
    BY DEF PCs, Holding
  <2>5. pc'[s] = "done" /\ \A b \in Actors : b # s => pc'[b] = pc[b] /\ held'[b] = held[b]
    BY <2>3 DEF TypeOK, RegTypeOK
  <2> HIDE DEF v
  <2>6. /\ content' \in [Addrs -> Filled \cup {Unfit}] /\ intact' \in [Stmts -> BOOLEAN]
        /\ \A t \in Stmts : Feeding(t)' =>
             /\ Feeding(t) /\ boundTo[t] \in live /\ Serves(t, content'[boundTo[t]])
    <3>1. CASE UNCHANGED <<content, intact>>
      BY <2>3, <2>5, <3>1, ParamsAssumption DEF Feeding, IInv, BuffersOK, TypeOK
    <3>2. ASSUME NEW n \in 0 .. NumParams, NEW m \in 0 .. NumParams, Accepted(s, n),
                 content' = [content EXCEPT ![held[s]] = Prepared(s, n, m)],
                 intact' = [t \in Stmts |-> intact[t] /\ Untouched(s, t, Prepared(s, n, m))]
          PROVE  /\ content' \in [Addrs -> Filled \cup {Unfit}] /\ intact' \in [Stmts -> BOOLEAN]
                 /\ \A t \in Stmts : Feeding(t)' =>
                      /\ Feeding(t) /\ boundTo[t] \in live /\ Serves(t, content'[boundTo[t]])
      <4>1. content[held[s]] \in Filled
        BY <2>1, <3>2 DEF Accepted, TypeOK, v
      <4>2. Prepared(s, n, m) \in Filled
        BY <4>1, PreparedType DEF TypeOK
      <4>3. content' \in [Addrs -> Filled \cup {Unfit}]
        BY <3>2, <4>2 DEF TypeOK
      <4>4. intact' \in [Stmts -> BOOLEAN]
        BY <3>2 DEF TypeOK, Untouched
      <4>5. ASSUME NEW t \in Stmts, Feeding(t)'
            PROVE  Feeding(t) /\ boundTo[t] \in live /\ Serves(t, content'[boundTo[t]])
        <5>1. pc[t] = "executing" /\ intact'[t]
          BY <2>5, <4>5, ParamsAssumption DEF Feeding
        <5>2. intact[t] /\ Untouched(s, t, Prepared(s, n, m))
          BY <3>2, <5>1, Zenon
        <5>3. Feeding(t)
          BY <5>1, <5>2 DEF Feeding
        <5> QED
          BY <2>1, <3>2, <5>2, <5>3, OthersServed DEF v
      <4> QED
        BY <4>3, <4>4, <4>5
    <3> QED
      BY <1>7, <3>1, <3>2 DEF BindBuffersFails
  <2>7. BuffersOK'
    BY <2>3, <2>5, <2>6, BuffersKept
  <2>8. target[s] # None /\ held'[s] = None
    BY <2>3 DEF TypeOK, RegTypeOK
  <2> QED
    BY <1>1, <2>2, <2>3, <2>4, <2>5, <2>6, <2>7, <2>8, StepOfOne DEF TypeOK
<1>8. CASE BindBuffers(s)
  <2> DEFINE v == held[s]
             values == Prepared(s, NumParams, NumParams)
  <2>1. v \in Addrs /\ v \in live /\ v # None /\ NumParams \in 0 .. NumParams
    BY <1>8, HeldOf, RegistryAssumption, ParamsAssumption DEF BindBuffers, Goto, Holding
  <2>2. Own'
    BY <1>8, <2>1, AddOwn DEF BindBuffers
  <2>3. /\ held' = [held EXCEPT ![s] = None] /\ live' = live
        /\ pc[s] = "binding" /\ pc' = [pc EXCEPT ![s] = "executing"]
        /\ Accepted(s, NumParams) /\ content' = [content EXCEPT ![held[s]] = values]
        /\ boundTo' = [boundTo EXCEPT ![s] = v]
        /\ intact' = [t \in Stmts |-> t = s \/ (intact[t] /\ Untouched(s, t, values))]
        /\ UNCHANGED <<target, types, decimals>>
    BY <1>8 DEF BindBuffers, Goto, Add, bindVars
  <2>4. "executing" \in PCs /\ "executing" \notin Holding
    BY DEF PCs, Holding
  <2>5. content[held[s]] \in Filled
    BY <2>1, <2>3 DEF Accepted, TypeOK
  <2>6. values \in Filled /\ \A p \in Params : values[p].typed <=> types[s][p] # "unknown"
    BY <2>1, <2>5, PreparedType DEF TypeOK
  <2>7. /\ pc'[s] = "executing" /\ boundTo'[s] = v /\ content'[v] = values
        /\ \A b \in Actors : b # s => pc'[b] = pc[b] /\ held'[b] = held[b] /\ held[b] # v
    BY <2>1, <2>3 DEF TypeOK, RegTypeOK, Own, ExclusiveOwnership
  <2>8. Serves(s, values)
    <3>1. types[s] \in [Params -> SqlTypes]
      BY DEF TypeOK
    <3>2. (\A p \in Params : types[s][p] = "unknown") => types[s] = Undescribed
      BY <3>1 DEF Undescribed
    <3> QED
      BY <2>6, <3>2 DEF Serves
  <2>9. ASSUME NEW t \in Stmts, t # s, Feeding(t)'
        PROVE  /\ Feeding(t) /\ boundTo'[t] = boundTo[t] /\ boundTo[t] \in live'
               /\ Serves(t, content'[boundTo[t]])
               /\ boundTo[t] = v => types[t] = Undescribed
    <3>1. pc[t] = "executing" /\ intact'[t] /\ boundTo'[t] = boundTo[t]
      BY <2>3, <2>7, <2>9, ParamsAssumption DEF Feeding, TypeOK
    <3>2. intact[t] /\ Untouched(s, t, values)
      <4> HIDE DEF values
      <4> QED BY <2>3, <2>9, <3>1, Zenon
    <3>3. Feeding(t)
      BY <3>1, <3>2 DEF Feeding
    <3>4. /\ boundTo[t] \in live /\ Serves(t, content'[boundTo[t]])
          /\ boundTo[t] = held[s] /\ NumParams = NumParams => types[t] = Undescribed
      BY <2>1, <2>3, <3>2, <3>3, OthersServed
    <3> QED
      BY <2>3, <3>1, <3>3, <3>4
  <2> HIDE DEF v, values
  <2>10. ASSUME NEW t \in Stmts, Feeding(t)'
         PROVE  /\ boundTo'[t] \in live' /\ Serves(t, content[boundTo[t]])'
                /\ \A a \in Actors : pc'[a] = "refilling" => held'[a] # boundTo'[t]
    <3>1. CASE t = s
      BY <2>1, <2>3, <2>7, <2>8, <3>1 DEF Serves
    <3>2. CASE t # s
      <4>1. /\ Feeding(t) /\ boundTo'[t] = boundTo[t] /\ boundTo[t] \in live'
            /\ Serves(t, content'[boundTo[t]])
        BY <2>9, <2>10, <3>2
      <4>2. \A a \in Actors : pc[a] = "refilling" => held[a] # boundTo[t]
        BY <4>1 DEF IInv, BuffersOK
      <4> QED
        BY <2>3, <2>7, <4>1, <4>2 DEF Serves
    <3> QED
      BY <3>1, <3>2
  <2>11. NoSharedBuffers'
    <3> SUFFICES ASSUME NEW t \in Stmts, NEW u \in Stmts, Feeding(t)', Feeding(u)',
                        boundTo'[t] = boundTo'[u]
                 PROVE  t = u \/ types'[t] = Undescribed \/ types'[u] = Undescribed
      BY DEF NoSharedBuffers, Feeding
    <3>1. CASE t # s /\ u # s
      <4>1. Feeding(t) /\ Feeding(u) /\ boundTo[t] = boundTo[u]
        BY <2>9, <3>1
      <4> QED
        BY <2>3, <4>1 DEF IInv, BuffersOK, NoSharedBuffers, Feeding
    <3>2. CASE t = s \/ u = s
      BY <2>3, <2>7, <2>9, <3>2
    <3> QED
      BY <3>1, <3>2
  <2>12. BuffersOK'
    BY <2>10, <2>11 DEF BuffersOK
  <2>13. /\ content' \in [Addrs -> Filled \cup {Unfit}]
         /\ boundTo' \in [Stmts -> Addrs \cup {None}]
         /\ target[s] # None /\ held'[s] = None
    BY <2>1, <2>3, <2>6 DEF TypeOK, RegTypeOK, v
  <2>14. intact' \in [Stmts -> BOOLEAN]
    BY <2>3 DEF TypeOK, Untouched
  <2> QED
    BY <1>1, <2>2, <2>3, <2>4, <2>7, <2>12, <2>13, <2>14, StepOfOne DEF TypeOK
<1> QED
  BY <1>2, <1>3, <1>4, <1>5, <1>6, <1>7, <1>8 DEF StmtStep

-----------------------------------------------------------------------------
(* IInv is inductive.                                                       *)
THEOREM NextInv == IInv /\ [Next]_vars => IInv'
<1> SUFFICES ASSUME IInv, [Next]_vars PROVE IInv'
  OBVIOUS
<1>1. CASE Next
  BY <1>1, CallInv, StmtInv DEF Next
<1>2. CASE UNCHANGED vars
  BY <1>2
  DEF vars, regVars, stmtVars, bindVars, IInv, Own, RegTypeOK, ExclusiveOwnership, TypeOK,
      HoldersHold, BuffersOK, Serves, NoSharedBuffers, Feeding
<1> QED
  BY <1>1, <1>2

LEMMA Invariance == Spec => []IInv
BY InitInv, NextInv, PTL DEF Spec

(* Every variable of the parameter handlers has its type, and a statement   *)
(* that has been bound has its handle.                                      *)
THEOREM TypeCorrect == Spec => []TypeOK
<1>1. IInv => TypeOK
  BY DEF IInv
<1> QED
  BY <1>1, Invariance, PTL

(* A vector of parameters is in the registry, or in one unique_ptr of one   *)
(* call or statement, or does not exist.                                    *)
THEOREM OwnershipExclusive == Spec => []ExclusiveOwnership
<1>1. IInv => ExclusiveOwnership
  BY DEF IInv, Own
<1> QED
  BY <1>1, Invariance, PTL

(* The Defer guards of the parameter handlers always have a vector to give  *)
(* back: ParamsRegistry::Add never meets a null pointer.                    *)
THEOREM HoldersAlwaysHold == Spec => []HoldersHold
<1>1. IInv => HoldersHold
  BY DEF IInv
<1> QED
  BY <1>1, Invariance, PTL

(* However many statements have the handle and whatever parameters they     *)
(* have, two of them execute with the same values only if the driver of one *)
(* knows the type of none.                                                  *)
THEOREM BuffersNotShared == Spec => []NoSharedBuffers
<1>1. IInv => NoSharedBuffers
  BY DEF IInv, BuffersOK
<1> QED
  BY <1>1, Invariance, PTL

-----------------------------------------------------------------------------
(* Every step of a call or statement is a step of the abstract              *)
(* specification, or leaves every owner as it is.                           *)
LEMMA StepOwner ==
  ASSUME IInv, IInv', [Next]_vars
  PROVE  [Abstract!OwnerNext]_ownerOf
<1> Own /\ Own' /\ RegTypeOK
  BY DEF IInv, Own
<1>1. ASSUME UNCHANGED <<reg, held>>
      PROVE  UNCHANGED ownerOf
  BY <1>1 DEF ownerOf
<1>2. CASE UNCHANGED vars
  BY <1>1, <1>2 DEF vars, regVars
<1>3. ASSUME NEW a \in Actors, NEW v, Remove(a, v), held[a] = None
      PROVE  Abstract!OwnerNext
  BY <1>3, BlockOwner DEF Remove, RegTypeOK
<1>4. ASSUME NEW k \in Calls, CallStep(k)
      PROVE  [Abstract!OwnerNext]_ownerOf
  <2> k \in Actors
    BY ParamsAssumption
  <2>1. CASE Create(k)
    BY <2>1, HeldOf, BlockOwner DEF Create, Goto, Holding
  <2>2. CASE CreateReturns(k) \/ EndRefill(k)
    BY <2>2, HeldOf, BlockOwner DEF CreateReturns, EndRefill, Goto, Holding
  <2>3. CASE BeginRefill(k)
    BY <1>3, <2>3, HeldOf DEF BeginRefill, Goto, Holding
  <2> QED
    BY <1>4, <2>1, <2>2, <2>3 DEF CallStep
<1>5. ASSUME NEW s \in Stmts, StmtStep(s)
      PROVE  [Abstract!OwnerNext]_ownerOf
  <2> s \in Actors
    BY ParamsAssumption
  <2>1. CASE BindCheck(s) \/ TakeParams(s) \/ Drop(s)
    BY <1>3, <2>1, HeldOf DEF BindCheck, TakeParams, Drop, Goto, Holding
  <2>2. CASE BindDone(s) \/ BindFails(s) \/ BindBuffers(s) \/ BindBuffersFails(s)
    BY <2>2, HeldOf, BlockOwner
    DEF BindDone, BindFails, BindBuffers, BindBuffersFails, Goto, Holding
  <2>3. CASE DropDone(s)
    BY <2>3, HeldOf, BlockOwner DEF DropDone, Goto, Holding
  <2>4. CASE RunBegins(s) \/ HandleGone(s) \/ Execute(s) \/ RunEnds(s) \/ DropMissed(s)
    BY <1>1, <2>4 DEF RunBegins, HandleGone, Execute, RunEnds, DropMissed, regVars
  <2> QED
    BY <1>5, <2>1, <2>2, <2>3, <2>4 DEF StmtStep
<1> QED
  BY <1>2, <1>4, <1>5 DEF Next

(* Vectors of parameters change hands only through the registry: every step *)
(* of the handlers in params.cpp, odbc_create_params.cpp,                   *)
(* odbc_bind_params.cpp and odbc_query.cpp is one Create, Give, Take or     *)
(* Destroy of the abstract specification, or changes no owner.              *)
THEOREM OwnershipImplemented == Spec => ImplementsOwnership
<1>1. Init => Abstract!OwnerInit
  BY RegistryAssumption DEF Init, RegInit, ownerOf, Abstract!OwnerInit
<1>2. IInv /\ IInv' /\ [Next]_vars => [Abstract!OwnerNext]_ownerOf
  BY StepOwner
<1> QED
  BY <1>1, <1>2, Invariance, PTL DEF Spec, ImplementsOwnership, Abstract!OwnerSpec

=============================================================================
