------------------------ MODULE ConnLifecycle_proofs ------------------------
(***************************************************************************)
(* Proofs about ConnLifecycle, for any sets of addresses, calls and        *)
(* statements and any number of objects per address.                       *)
(***************************************************************************)
EXTENDS ConnLifecycle, Registry_proofs

-----------------------------------------------------------------------------
(* The rest of the state: the ids the user has, and the bind data.          *)

UserTypeOK == oneOff \subseteq Addrs /\ issued \subseteq Addrs

BindTypeOK ==
  /\ target \in [Stmts -> Addrs \cup {None}]
  /\ mustClose \in [Stmts -> BOOLEAN]
  /\ closes \in [Stmts -> BOOLEAN]
  /\ stmtGen \in [Stmts -> 0..MaxGen]
  /\ ran \in [Stmts -> BOOLEAN]

(* The bind data of s is in step with s's place in its life; its last       *)
(* conjunct is OneOffClosedAfterRun, made inductive: the address of a       *)
(* closed one-off connection is vacant or hosts a younger object.           *)
BindOK(s) ==
  /\ pc[s] \in {"registered", "binding", "bound", "running"} => target[s] \in Addrs
  /\ pc[s] \in {"binding", "running"} => held[s] = target[s]
  /\ pc[s] \in {"idle", "opening", "registered", "binding"} => ~ran[s]
  /\ pc[s] \in {"bound", "running"} =>
        /\ mustClose[s] => closes[s]
        /\ stmtGen[s] =< gen[target[s]]
  /\ pc[s] = "bound" /\ ran[s] /\ mustClose[s] =>
        target[s] \notin live \/ stmtGen[s] < gen[target[s]]

IInv ==
  /\ Own
  /\ pc \in [Actors -> PCs]
  /\ HoldersHold
  /\ UserTypeOK
  /\ BindTypeOK
  /\ \A s \in Stmts : BindOK(s)

BindSame(s) ==
  /\ target'[s] = target[s]
  /\ mustClose'[s] = mustClose[s]
  /\ closes'[s] = closes[s]
  /\ stmtGen'[s] = stmtGen[s]
  /\ ran'[s] = ran[s]

(* A step of a that keeps the building blocks' part and moves only a's own  *)
(* bind data keeps the whole invariant if it leaves a consistent.           *)
LEMMA StepOfOne ==
  ASSUME IInv, NEW a \in Actors, NEW p \in PCs,
         Own', GenStep,
         pc' = [pc EXCEPT ![a] = p],
         \A b \in Actors : b # a => held'[b] = held[b],
         p \in Holding <=> held'[a] # None,
         UserTypeOK', BindTypeOK',
         \A s \in Stmts : s # a => BindSame(s),
         a \in Stmts => BindOK(a)'
  PROVE  IInv'
<1>1. pc' \in [Actors -> PCs]
  BY DEF IInv
<1>2. HoldersHold'
  BY DEF IInv, HoldersHold
<1>3. ASSUME NEW s \in Stmts
      PROVE  BindOK(s)'
  <2>1. CASE s = a
    BY <2>1
  <2>2. CASE s # a
    <3>1. s \in Actors /\ pc'[s] = pc[s] /\ held'[s] = held[s] /\ BindSame(s) /\ BindOK(s)
      BY <2>2, ConnAssumption DEF IInv
    <3>2. /\ target[s] \in Addrs => gen[target[s]] \in Nat /\ gen'[target[s]] \in Nat
          /\ stmtGen[s] \in Nat
      BY RegistryAssumption DEF IInv, Own, RegTypeOK, BindTypeOK
    <3>. QED
      BY <3>1, <3>2 DEF BindOK, BindSame, GenStep
  <2>. QED
    BY <2>1, <2>2
<1>. QED
  BY <1>1, <1>2, <1>3 DEF IInv

-----------------------------------------------------------------------------
(* Each action keeps the invariant.                                         *)

LEMMA InitInv == Init => IInv
<1>. SUFFICES ASSUME Init PROVE IInv
  OBVIOUS
<1>1. Own
  BY RegistryAssumption DEF Init, RegInit, Own, RegTypeOK, ExclusiveOwnership
<1>2. UserTypeOK /\ BindTypeOK /\ pc \in [Actors -> PCs]
  BY RegistryAssumption DEF Init, RegInit, UserTypeOK, BindTypeOK, PCs
<1>3. HoldersHold
  BY DEF Init, RegInit, HoldersHold, Holding
<1>4. \A s \in Stmts : BindOK(s)
  BY ConnAssumption DEF Init, RegInit, BindOK
<1>. QED
  BY <1>1, <1>2, <1>3, <1>4 DEF IInv

(* Where a stands when its step begins.                                     *)
LEMMA HeldOf ==
  ASSUME IInv, NEW a \in Actors
  PROVE  /\ pc[a] \in Holding => held[a] \in Addrs
         /\ pc[a] \notin Holding => held[a] = None
BY DEF IInv, HoldersHold, Own, RegTypeOK

(* The steps of scalar functions; OpenFails is a step of statements too.    *)
LEMMA CallInv ==
  ASSUME IInv, NEW k \in Calls, CallStep(k)
  PROVE  IInv'
<1>. /\ k \in Actors /\ k \notin Stmts /\ pc \in [Actors -> PCs]
     /\ HoldersHold /\ UserTypeOK /\ BindTypeOK /\ Own /\ RegTypeOK
  BY ConnAssumption DEF IInv, Own
<1>1. CASE Connect(k)
  <2>1. PICK c \in Addrs : Construct(k, c)
    BY <1>1 DEF Connect
  <2>2. held[k] = None
    BY <1>1, HeldOf DEF Connect, Goto, Holding
  <2>3. Own' /\ GenStep
    BY <1>1, <2>1, <2>2, ConstructOwn DEF Connect, RegTypeOK
  <2>4. held' = [held EXCEPT ![k] = c] /\ c # None
    BY <2>1, RegistryAssumption DEF Construct
  <2>. QED
    BY <1>1, <2>3, <2>4, StepOfOne
    DEF Connect, Goto, userVars, bindVars, PCs, Holding, RegTypeOK, UserTypeOK, BindTypeOK,
        BindSame
<1>2. CASE OpenFails(k)
  <2>1. held[k] \in Addrs
    BY <1>2, HeldOf DEF OpenFails, Goto, Holding
  <2>2. Own' /\ GenStep
    BY <1>2, <2>1, DestructOwn, RegistryAssumption DEF OpenFails, Disconnect
  <2>3. held' = [held EXCEPT ![k] = None]
    BY <1>2 DEF OpenFails, Disconnect, Destruct
  <2>. QED
    BY <1>2, <2>2, <2>3, StepOfOne
    DEF OpenFails, Disconnect, Goto, userVars, bindVars, PCs, Holding, RegTypeOK, UserTypeOK,
        BindTypeOK, BindSame
<1>3. CASE ConnectReturns(k)
  <2>1. held[k] \in Addrs
    BY <1>3, HeldOf DEF ConnectReturns, Goto, Holding
  <2>2. Own' /\ GenStep
    BY <1>3, <2>1, AddOwn, RegistryAssumption DEF ConnectReturns
  <2>3. held' = [held EXCEPT ![k] = None]
    BY <1>3 DEF ConnectReturns, Add
  <2>4. UserTypeOK'
    BY <1>3, <2>1 DEF ConnectReturns, UserTypeOK
  <2>. QED
    BY <1>3, <2>2, <2>3, <2>4, StepOfOne
    DEF ConnectReturns, Goto, userVars, bindVars, PCs, Holding, RegTypeOK, BindTypeOK, BindSame
<1>4. CASE BeginUse(k) \/ BeginClose(k)
  <2>1. PICK c \in issued : Remove(k, c)
    BY <1>4 DEF BeginUse, BeginClose
  <2>2. held[k] = None
    BY <1>4, HeldOf DEF BeginUse, BeginClose, Goto, Holding
  <2>3. Own' /\ GenStep /\ c \in Addrs
    BY <2>1, <2>2, RemoveOwn
  <2>4. held' = [held EXCEPT ![k] = c] /\ c # None
    BY <2>1, <2>3, RegistryAssumption DEF Remove
  <2>. QED
    BY <1>4, <2>3, <2>4, StepOfOne
    DEF BeginUse, BeginClose, Goto, userVars, bindVars, PCs, Holding, RegTypeOK, UserTypeOK,
        BindTypeOK,
        BindSame
<1>5. CASE EndUse(k)
  <2>1. held[k] \in Addrs
    BY <1>5, HeldOf DEF EndUse, Goto, Holding
  <2>2. Own' /\ GenStep
    BY <1>5, <2>1, AddOwn, RegistryAssumption DEF EndUse
  <2>3. held' = [held EXCEPT ![k] = None]
    BY <1>5 DEF EndUse, Add
  <2>. QED
    BY <1>5, <2>2, <2>3, StepOfOne
    DEF EndUse, Goto, userVars, bindVars, PCs, Holding, RegTypeOK, UserTypeOK, BindTypeOK,
        BindSame
<1>6. CASE EndClose(k)
  <2>1. held[k] \in Addrs
    BY <1>6, HeldOf DEF EndClose, Goto, Holding
  <2>2. Own' /\ GenStep
    BY <1>6, <2>1, DestructOwn, RegistryAssumption DEF EndClose, Disconnect
  <2>3. held' = [held EXCEPT ![k] = None]
    BY <1>6 DEF EndClose, Disconnect, Destruct
  <2>4. UserTypeOK'
    BY <1>6, <2>1 DEF EndClose, Disconnect, UserTypeOK
  <2>. QED
    BY <1>6, <2>2, <2>3, <2>4, StepOfOne
    DEF EndClose, Disconnect, Goto, userVars, bindVars, PCs, Holding, RegTypeOK, BindTypeOK,
        BindSame
<1>. QED
  BY <1>1, <1>2, <1>3, <1>4, <1>5, <1>6 DEF CallStep

(* Resetting the bind data of a statement leaves it consistent.             *)
LEMMA ForgetBind ==
  ASSUME IInv, NEW s \in Stmts, Forget(s), pc' = [pc EXCEPT ![s] = "idle"]
  PROVE  BindTypeOK' /\ BindOK(s)' /\ \A s2 \in Stmts : s2 # s => BindSame(s2)
<1>1. 0 \in 0..MaxGen /\ BindTypeOK /\ s \in Actors /\ pc \in [Actors -> PCs]
  BY ConnAssumption, RegistryAssumption DEF IInv
<1>2. BindTypeOK'
  BY <1>1 DEF Forget, BindTypeOK
<1>3. BindOK(s)'
  BY <1>1 DEF Forget, BindTypeOK, BindOK
<1>4. \A s2 \in Stmts : s2 # s => BindSame(s2)
  BY <1>1 DEF Forget, BindTypeOK, BindSame
<1>. QED
  BY <1>2, <1>3, <1>4

(* The steps of statements.                                                 *)
LEMMA StmtInv ==
  ASSUME IInv, NEW s \in Stmts, StmtStep(s)
  PROVE  IInv'
<1>. s \in Actors /\ HoldersHold /\ UserTypeOK /\ BindTypeOK /\ Own /\ RegTypeOK
     /\ pc \in [Actors -> PCs] /\ BindOK(s)
  BY ConnAssumption DEF IInv, Own
<1>. /\ {"idle", "opening", "registered", "binding", "bound", "running"} \subseteq PCs
     /\ {"opening", "binding", "running"} \subseteq Holding
     /\ "idle" \notin Holding /\ "registered" \notin Holding /\ "bound" \notin Holding
  BY DEF PCs, Holding
<1>1. CASE BindOpen(s)
  <2>1. PICK c \in Addrs : Construct(s, c) /\ oneOff' = oneOff \cup {c}
    BY <1>1 DEF BindOpen
  <2>2. held[s] = None
    BY <1>1, HeldOf DEF BindOpen, Goto, Holding
  <2>3. Own' /\ GenStep
    BY <2>1, <2>2, ConstructOwn DEF RegTypeOK
  <2>4. held' = [held EXCEPT ![s] = c] /\ c # None
    BY <2>1, RegistryAssumption DEF Construct
  <2>5. BindOK(s)'
    BY <1>1 DEF BindOpen, Goto, bindVars, BindOK
  <2>6. pc' = [pc EXCEPT ![s] = "opening"]
    BY <1>1 DEF BindOpen, Goto
  <2>7. UserTypeOK' /\ BindTypeOK' /\ \A s2 \in Stmts : s2 # s => BindSame(s2)
    BY <1>1 DEF BindOpen, userVars, bindVars, UserTypeOK, BindTypeOK, BindSame
  <2>. QED
    BY <2>3, <2>4, <2>5, <2>6, <2>7, StepOfOne DEF RegTypeOK
<1>2. CASE OpenFails(s)
  <2>1. held[s] \in Addrs
    BY <1>2, HeldOf DEF OpenFails, Goto, Holding
  <2>2. Own' /\ GenStep
    BY <1>2, <2>1, DestructOwn, RegistryAssumption DEF OpenFails, Disconnect
  <2>3. held' = [held EXCEPT ![s] = None]
    BY <1>2 DEF OpenFails, Disconnect, Destruct
  <2>4. BindOK(s)'
    BY <1>2 DEF OpenFails, Goto, bindVars, BindOK
  <2>5. pc' = [pc EXCEPT ![s] = "idle"]
    BY <1>2 DEF OpenFails, Goto
  <2>6. UserTypeOK' /\ BindTypeOK' /\ \A s2 \in Stmts : s2 # s => BindSame(s2)
    BY <1>2 DEF OpenFails, Disconnect, userVars, bindVars, UserTypeOK, BindTypeOK, BindSame
  <2>. QED
    BY <2>2, <2>3, <2>4, <2>5, <2>6, StepOfOne DEF RegTypeOK
<1>3. CASE BindRegister(s)
  <2>1. held[s] \in Addrs
    BY <1>3, HeldOf DEF BindRegister, Goto, Holding
  <2>2. Own' /\ GenStep
    BY <1>3, <2>1, AddOwn, RegistryAssumption DEF BindRegister
  <2>3. held' = [held EXCEPT ![s] = None]
    BY <1>3 DEF BindRegister, Add
  <2>4. BindTypeOK' /\ BindOK(s)'
    BY <1>3, <2>1 DEF BindRegister, Goto, BindTypeOK, BindOK
  <2>5. pc' = [pc EXCEPT ![s] = "registered"]
    BY <1>3 DEF BindRegister, Goto
  <2>6. UserTypeOK' /\ \A s2 \in Stmts : s2 # s => BindSame(s2)
    BY <1>3 DEF BindRegister, userVars, bindVars, UserTypeOK, BindTypeOK, BindSame
  <2>. QED
    BY <2>2, <2>3, <2>4, <2>5, <2>6, StepOfOne DEF RegTypeOK
<1>4. CASE BindTake(s)
  <2>1. held[s] = None
    BY <1>4, HeldOf DEF BindTake, Goto, Holding
  <2>2. Own' /\ GenStep /\ target[s] \in Addrs
    BY <1>4, <2>1, RemoveOwn DEF BindTake
  <2>3. held' = [held EXCEPT ![s] = target[s]] /\ target[s] # None
    BY <1>4, <2>2, RegistryAssumption DEF BindTake, Remove
  <2>4. BindOK(s)'
    BY <1>4, <2>3 DEF BindTake, Goto, bindVars, BindOK, RegTypeOK
  <2>5. pc' = [pc EXCEPT ![s] = "binding"]
    BY <1>4 DEF BindTake, Goto
  <2>6. UserTypeOK' /\ BindTypeOK' /\ \A s2 \in Stmts : s2 # s => BindSame(s2)
    BY <1>4 DEF BindTake, userVars, bindVars, UserTypeOK, BindTypeOK, BindSame
  <2>. QED
    BY <2>2, <2>3, <2>4, <2>5, <2>6, StepOfOne DEF RegTypeOK
<1>5. CASE BindLost(s) \/ BindDestroy(s)
  <2>1. /\ UNCHANGED <<reg, live, gen, held>> /\ UNCHANGED userVars
        /\ pc' = [pc EXCEPT ![s] = "idle"] /\ pc[s] \notin Holding
    BY <1>5 DEF BindLost, BindDestroy, regVars, Goto, Holding
  <2>2. Forget(s)
    BY <1>5 DEF BindLost, BindDestroy, regVars
  <2>3. /\ BindTypeOK' /\ BindOK(s)'
        /\ \A s2 \in Stmts : s2 # s => BindSame(s2)
    BY <2>1, <2>2, ForgetBind
  <2>4. Own' /\ UserTypeOK'
    BY <2>1 DEF Own, RegTypeOK, ExclusiveOwnership, UserTypeOK, userVars
  <2>5. GenStep
    BY <2>1, RegistryAssumption DEF GenStep, RegTypeOK
  <2>. QED
    BY <2>1, <2>2, <2>3, <2>4, <2>5, HeldOf, StepOfOne
<1>6. CASE BindById(s)
  <2>1. PICK c \in issued : Remove(s, c) /\ target' = [target EXCEPT ![s] = c]
    BY <1>6 DEF BindById
  <2>2. held[s] = None
    BY <1>6, HeldOf DEF BindById, Goto, Holding
  <2>3. Own' /\ GenStep /\ c \in Addrs
    BY <2>1, <2>2, RemoveOwn
  <2>4. held' = [held EXCEPT ![s] = c] /\ c # None
    BY <2>1, <2>3, RegistryAssumption DEF Remove
  <2>5. BindTypeOK' /\ BindOK(s)'
    BY <1>6, <2>1, <2>3, <2>4 DEF BindById, Goto, BindTypeOK, BindOK, RegTypeOK
  <2>6. pc' = [pc EXCEPT ![s] = "binding"]
    BY <1>6 DEF BindById, Goto
  <2>7. UserTypeOK' /\ \A s2 \in Stmts : s2 # s => BindSame(s2)
    BY <1>6, <2>1 DEF BindById, userVars, bindVars, UserTypeOK, BindTypeOK, BindSame
  <2>. QED
    BY <2>1, <2>3, <2>4, <2>5, <2>6, <2>7, StepOfOne DEF RegTypeOK
<1>7. CASE BindFails(s)
  <2>1. held[s] \in Addrs
    BY <1>7, HeldOf DEF BindFails, Goto, Holding
  <2>2. Own' /\ GenStep
    BY <1>7, <2>1, AddOwn, RegistryAssumption DEF BindFails
  <2>3. held' = [held EXCEPT ![s] = None]
    BY <1>7 DEF BindFails, Add
  <2>4. pc' = [pc EXCEPT ![s] = "idle"] /\ UserTypeOK'
    BY <1>7 DEF BindFails, Goto, userVars, UserTypeOK
  <2>5. Forget(s)
    BY <1>7 DEF BindFails
  <2>6. /\ BindTypeOK' /\ BindOK(s)'
        /\ \A s2 \in Stmts : s2 # s => BindSame(s2)
    BY <2>4, <2>5, ForgetBind
  <2>. QED
    BY <2>2, <2>3, <2>4, <2>5, <2>6, StepOfOne DEF RegTypeOK
<1>8. CASE BindDone(s)
  <2>1. held[s] \in Addrs /\ held[s] = target[s] /\ ~ran[s]
    BY <1>8, HeldOf DEF BindDone, Goto, Holding, BindOK
  <2>2. Own' /\ GenStep /\ gen' = gen
    BY <1>8, <2>1, AddOwn, RegistryAssumption DEF BindDone, Add
  <2>3. held' = [held EXCEPT ![s] = None]
    BY <1>8 DEF BindDone, Add
  <2>4. PICK close \in BOOLEAN :
          (mustClose[s] => close) /\ closes' = [closes EXCEPT ![s] = close]
    BY <1>8 DEF BindDone
  <2>5. BindTypeOK'
    BY <1>8, <2>1, <2>4 DEF BindDone, BindTypeOK, RegTypeOK
  <2>6. gen[target[s]] \in Nat
    BY <2>1, RegistryAssumption DEF RegTypeOK
  <2>7. BindOK(s)'
    BY <1>8, <2>1, <2>2, <2>4, <2>6 DEF BindDone, Goto, BindTypeOK, BindOK
  <2>8. pc' = [pc EXCEPT ![s] = "bound"]
    BY <1>8 DEF BindDone, Goto
  <2>9. UserTypeOK' /\ \A s2 \in Stmts : s2 # s => BindSame(s2)
    BY <1>8, <2>4 DEF BindDone, userVars, bindVars, UserTypeOK, BindTypeOK, BindSame
  <2>. QED
    BY <2>2, <2>3, <2>4, <2>5, <2>7, <2>8, <2>9, StepOfOne DEF RegTypeOK
<1>9. CASE GlobalInit(s)
  <2>1. held[s] = None
    BY <1>9, HeldOf DEF GlobalInit, Goto, Holding
  <2>2. Own' /\ GenStep /\ gen' = gen /\ target[s] \in Addrs
    BY <1>9, <2>1, RemoveOwn DEF GlobalInit, Remove
  <2>3. held' = [held EXCEPT ![s] = target[s]] /\ target[s] # None
    BY <1>9, <2>2, RegistryAssumption DEF GlobalInit, Remove
  <2>4. BindOK(s)'
    BY <1>9, <2>2, <2>3 DEF GlobalInit, Goto, bindVars, BindOK, RegTypeOK
  <2>5. /\ pc' = [pc EXCEPT ![s] = "running"]
        /\ UNCHANGED <<oneOff, issued, target, mustClose, closes, stmtGen, ran>>
    BY <1>9 DEF GlobalInit, Goto, userVars, bindVars
  <2>6. "running" \in PCs /\ "running" \in Holding
    BY DEF PCs, Holding
  <2>7. UserTypeOK' /\ BindTypeOK' /\ \A s2 \in Stmts : BindSame(s2)
    BY <2>5 DEF UserTypeOK, BindTypeOK, BindSame
  <2>. QED
    BY <2>2, <2>3, <2>4, <2>5, <2>6, <2>7, StepOfOne DEF RegTypeOK
<1>10. CASE GlobalDestroy(s)
  <2>1. held[s] \in Addrs /\ held[s] = target[s] /\ (mustClose[s] => closes[s])
    BY <1>10, HeldOf DEF GlobalDestroy, Goto, Holding, BindOK
  <2>2. Own' /\ GenStep /\ gen' = gen
    BY <1>10, <2>1, AddOwn, DestructOwn, RegistryAssumption
    DEF GlobalDestroy, Add, Disconnect, Destruct
  <2>3. held' = [held EXCEPT ![s] = None]
    BY <1>10 DEF GlobalDestroy, Add, Disconnect, Destruct
  <2>4. closes[s] => target[s] \notin live'
    BY <1>10, <2>1 DEF GlobalDestroy, Disconnect, Destruct
  <2>5. BindTypeOK' /\ BindOK(s)'
    BY <1>10, <2>1, <2>2, <2>4 DEF GlobalDestroy, Goto, BindTypeOK, BindOK
  <2>6. /\ pc' = [pc EXCEPT ![s] = "bound"] /\ ran' = [ran EXCEPT ![s] = TRUE]
        /\ UNCHANGED <<issued, target, mustClose, closes, stmtGen>>
        /\ oneOff' \subseteq oneOff
    BY <1>10 DEF GlobalDestroy, Disconnect, Goto
  <2>7. "bound" \in PCs /\ "bound" \notin Holding
    BY DEF PCs, Holding
  <2>8. UserTypeOK' /\ \A s2 \in Stmts : s2 # s => BindSame(s2)
    BY <2>6 DEF UserTypeOK, BindTypeOK, BindSame
  <2>. QED
    BY <2>2, <2>3, <2>5, <2>6, <2>7, <2>8, StepOfOne DEF RegTypeOK
<1>. QED
  BY <1>1, <1>2, <1>3, <1>4, <1>5, <1>6, <1>7, <1>8, <1>9, <1>10 DEF StmtStep

LEMMA NextInv == IInv /\ [Next]_vars => IInv'
<1>. SUFFICES ASSUME IInv, [Next]_vars PROVE IInv'
  OBVIOUS
<1>1. CASE Next
  BY <1>1, CallInv, StmtInv DEF Next
<1>2. CASE UNCHANGED vars
  BY <1>2
  DEF vars, regVars, userVars, bindVars, IInv, Own, RegTypeOK, ExclusiveOwnership,
      HoldersHold, UserTypeOK, BindTypeOK, BindOK
<1>. QED
  BY <1>1, <1>2

LEMMA Invariance == Spec => []IInv
BY InitInv, NextInv, PTL DEF Spec

-----------------------------------------------------------------------------
(* What a reader should know.                                               *)

(* In every state every variable has its type: ids are addresses, and no    *)
(* address hosts more than MaxGen objects (TypeOK of the handlers above).   *)
THEOREM TypeCorrect == Spec => []TypeOK
<1>1. IInv => TypeOK
  BY DEF IInv, Own, RegTypeOK, UserTypeOK, BindTypeOK, TypeOK
<1>. QED
  BY <1>1, Invariance, PTL

(* A connection is in the registry, or in one unique_ptr of one call or     *)
(* statement, or does not exist: ConnectionsRegistry::Add never meets an id *)
(* that is already there, however the handlers interleave.                  *)
THEOREM OwnershipExclusive == Spec => []ExclusiveOwnership
<1>1. IInv => ExclusiveOwnership
  BY DEF IInv, Own
<1>. QED
  BY <1>1, Invariance, PTL

(* ~GlobalInitData and the Defer guards always have a connection to give    *)
(* back: ConnectionsRegistry::Add never meets a null pointer.               *)
THEOREM HoldersAlwaysHold == Spec => []HoldersHold
<1>1. IInv => HoldersHold
  BY DEF IInv
<1>. QED
  BY <1>1, Invariance, PTL

(* A connection opened from a string is gone once the function has run, for *)
(* any number of statements and of reuses of its address.                   *)
THEOREM OneOffClosed == Spec => []OneOffClosedAfterRun
<1>1. IInv => OneOffClosedAfterRun
  <2>. SUFFICES ASSUME IInv, NEW s \in Stmts, pc[s] = "bound", ran[s], mustClose[s]
                PROVE  target[s] \notin live \/ gen[target[s]] # stmtGen[s]
    BY DEF OneOffClosedAfterRun
  <2>1. target[s] \in Addrs /\ (target[s] \notin live \/ stmtGen[s] < gen[target[s]])
    BY DEF IInv, BindOK
  <2>2. stmtGen[s] \in Nat /\ gen[target[s]] \in Nat
    BY <2>1, RegistryAssumption DEF IInv, Own, RegTypeOK, BindTypeOK
  <2>. QED
    BY <2>1, <2>2
<1>. QED
  BY <1>1, Invariance, PTL

(* No error path destroys a connection: only odbc_close, a function told to *)
(* close its connection, and an open that fails do.                         *)
THEOREM ClosedOnRequestOnly == Spec => ClosedOnlyOnRequest
<1>. DEFINE Asked(c) == \E a \in Actors :
              /\ held[a] = c
              /\ \/ pc[a] \in {"opening", "closing"}
                 \/ pc[a] = "running" /\ closes[a]
<1>1. ASSUME IInv, [Next]_vars, NEW c \in live \ live'
      PROVE  Asked(c)
  <2>1. CASE UNCHANGED vars
    BY <1>1, <2>1 DEF vars, regVars, userVars, bindVars
  <2>2. ASSUME NEW k \in Calls, CallStep(k)
        PROVE  Asked(c)
    <3>1. k \in Actors
      BY ConnAssumption
    <3>2. (OpenFails(k) \/ EndClose(k)) /\ held[k] = c
      BY <1>1, <2>2
      DEF CallStep, Connect, OpenFails, ConnectReturns, BeginUse, EndUse, BeginClose, EndClose,
          Construct, Disconnect, Destruct, Add, Remove,
          regVars
    <3>. QED
      BY <3>1, <3>2 DEF OpenFails, EndClose, Goto
  <2>3. ASSUME NEW s \in Stmts, StmtStep(s)
        PROVE  Asked(c)
    <3>1. s \in Actors
      BY ConnAssumption
    <3>2. /\ OpenFails(s) \/ (GlobalDestroy(s) /\ closes[s])
          /\ held[s] = c
      BY <1>1, <2>3
      DEF StmtStep, BindOpen, OpenFails, BindRegister, BindTake, BindLost, BindById, BindFails,
          BindDone, GlobalInit, GlobalDestroy, BindDestroy, Construct, Disconnect, Destruct,
          Add, Remove,
          regVars
    <3>. QED
      BY <3>1, <3>2 DEF OpenFails, GlobalDestroy, Goto
  <2>. QED
    BY <1>1, <2>1, <2>2, <2>3 DEF Next
<1>2. IInv /\ [Next]_vars => [\A c \in live \ live' : Asked(c)]_vars
  BY <1>1
<1>. QED
  BY <1>2, Invariance, PTL DEF Spec, ClosedOnlyOnRequest

-----------------------------------------------------------------------------
(* Every step of a call or statement is a step of the abstract              *)
(* specification, or leaves every owner as it is.                           *)
LEMMA StepOwner ==
  ASSUME IInv, IInv', [Next]_vars
  PROVE  [Abstract!OwnerNext]_ownerOf
<1>. Own /\ Own'
  BY DEF IInv
<1>1. ASSUME UNCHANGED <<reg, held>>
      PROVE  UNCHANGED ownerOf
  BY <1>1 DEF ownerOf
<1>2. CASE UNCHANGED vars
  BY <1>1, <1>2 DEF vars, regVars, userVars, bindVars
<1>3. ASSUME NEW k \in Calls, CallStep(k)
      PROVE  [Abstract!OwnerNext]_ownerOf
  <2>. k \in Actors
    BY ConnAssumption
  <2>1. CASE Connect(k)
    BY <2>1, HeldOf, BlockOwner DEF Connect, Goto, Holding
  <2>2. CASE OpenFails(k) \/ EndClose(k)
    BY <2>2, HeldOf, BlockOwner DEF OpenFails, Disconnect, EndClose, Goto, Holding
  <2>3. CASE ConnectReturns(k) \/ EndUse(k)
    BY <2>3, HeldOf, BlockOwner DEF ConnectReturns, EndUse, Goto, Holding
  <2>4. CASE BeginUse(k) \/ BeginClose(k)
    <3>1. PICK c \in issued : Remove(k, c)
      BY <2>4 DEF BeginUse, BeginClose
    <3>. QED
      BY <2>4, <3>1, HeldOf, BlockOwner
      DEF BeginUse, BeginClose, Goto, Holding, IInv, UserTypeOK
  <2>. QED
    BY <1>3, <2>1, <2>2, <2>3, <2>4 DEF CallStep
<1>4. ASSUME NEW s \in Stmts, StmtStep(s)
      PROVE  [Abstract!OwnerNext]_ownerOf
  <2>. s \in Actors /\ BindOK(s)
    BY ConnAssumption DEF IInv
  <2>1. CASE BindOpen(s)
    BY <2>1, HeldOf, BlockOwner DEF BindOpen, Goto, Holding
  <2>2. CASE OpenFails(s)
    BY <2>2, HeldOf, BlockOwner DEF OpenFails, Disconnect, Goto, Holding
  <2>3. CASE BindRegister(s) \/ BindFails(s) \/ BindDone(s)
    BY <2>3, HeldOf, BlockOwner DEF BindRegister, BindFails, BindDone, Goto, Holding
  <2>4. CASE BindTake(s) \/ GlobalInit(s)
    BY <2>4, HeldOf, BlockOwner DEF BindTake, GlobalInit, Goto, Holding, BindOK
  <2>5. CASE BindById(s)
    <3>1. PICK c \in issued : Remove(s, c)
      BY <2>5 DEF BindById
    <3>. QED
      BY <2>5, <3>1, HeldOf, BlockOwner DEF BindById, Goto, Holding, IInv, UserTypeOK
  <2>6. CASE GlobalDestroy(s)
    BY <2>6, HeldOf, BlockOwner DEF GlobalDestroy, Disconnect, Goto, Holding
  <2>7. CASE BindLost(s) \/ BindDestroy(s)
    BY <1>1, <2>7 DEF BindLost, BindDestroy, regVars
  <2>. QED
    BY <1>4, <2>1, <2>2, <2>3, <2>4, <2>5, <2>6, <2>7 DEF StmtStep
<1>. QED
  BY <1>2, <1>3, <1>4 DEF Next

(* Connections change hands only through the registry: every step of the    *)
(* handlers in connection.cpp, odbc_query.cpp, odbc_copy.cpp and the scalar *)
(* functions is one Create, Give, Take or Destroy of the abstract           *)
(* specification, or changes no owner.                                      *)
THEOREM OwnershipImplemented == Spec => ImplementsOwnership
<1>1. Init => Abstract!OwnerInit
  BY RegistryAssumption DEF Init, RegInit, ownerOf, Abstract!OwnerInit
<1>2. IInv /\ IInv' /\ [Next]_vars => [Abstract!OwnerNext]_ownerOf
  BY StepOwner
<1>. QED
  BY <1>1, <1>2, Invariance, PTL DEF Spec, ImplementsOwnership, Abstract!OwnerSpec

=============================================================================
