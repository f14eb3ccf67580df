--------------------------- MODULE Registry_proofs ---------------------------
(***************************************************************************)
(* Facts about the four steps of module Registry, for the proofs about the *)
(* handlers that are made of them.                                         *)
(***************************************************************************)
EXTENDS Registry, TLAPS

(* What the four building blocks Construct, Destruct, Add and Remove keep   *)
(* true.                                                                    *)
Own == RegTypeOK /\ ExclusiveOwnership

(* Constructing an object at an address gives it a new number.              *)
GenStep ==
  \A c \in Addrs : gen[c] =< gen'[c] /\ (c \in live' \ live => gen[c] < gen'[c])

LEMMA ConstructOwn ==
  ASSUME Own, NEW a \in Actors, NEW c \in Addrs, held[a] = None, Construct(a, c)
  PROVE  Own' /\ GenStep
<1>1. RegTypeOK'
  BY RegistryAssumption DEF Own, RegTypeOK, Construct
<1>2. /\ c # None /\ c \notin live /\ held' = [held EXCEPT ![a] = c]
      /\ live' = live \cup {c} /\ reg' = reg
  BY RegistryAssumption DEF Construct
<1>3. \A b \in Actors : held[b] # c
  BY <1>2 DEF Own, ExclusiveOwnership
<1>4. ASSUME NEW b1 \in Actors, NEW b2 \in Actors, held'[b1] = held'[b2], held'[b1] # None
      PROVE  b1 = b2
  BY <1>2, <1>3, <1>4 DEF Own, RegTypeOK, ExclusiveOwnership
<1>5. ASSUME NEW b \in Actors
      PROVE  held'[b] \notin reg'
  BY <1>2 DEF Own, RegTypeOK, ExclusiveOwnership
<1>6. live' = reg' \cup ({held'[b] : b \in Actors} \ {None})
  BY <1>2 DEF Own, RegTypeOK, ExclusiveOwnership
<1>7. GenStep
  BY RegistryAssumption DEF Own, RegTypeOK, Construct, GenStep
<1>. QED
  BY <1>1, <1>4, <1>5, <1>6, <1>7 DEF Own, ExclusiveOwnership

LEMMA DestructOwn ==
  ASSUME Own, NEW a \in Actors, held[a] # None, Destruct(a)
  PROVE  Own' /\ GenStep
<1>1. RegTypeOK'
  BY DEF Own, RegTypeOK, Destruct
<1>2. /\ held' = [held EXCEPT ![a] = None]
      /\ live' = live \ {held[a]} /\ reg' = reg
  BY DEF Destruct
<1>3. \A b \in Actors : b # a => held[b] # held[a]
  BY DEF Own, ExclusiveOwnership
<1>4. ASSUME NEW b1 \in Actors, NEW b2 \in Actors, held'[b1] = held'[b2], held'[b1] # None
      PROVE  b1 = b2
  BY <1>2, <1>4 DEF Own, RegTypeOK, ExclusiveOwnership
<1>5. ASSUME NEW b \in Actors
      PROVE  held'[b] \notin reg'
  BY <1>2, RegistryAssumption DEF Own, RegTypeOK, ExclusiveOwnership
<1>6. live' = reg' \cup ({held'[b] : b \in Actors} \ {None})
  BY <1>2, <1>3 DEF Own, RegTypeOK, ExclusiveOwnership
<1>7. GenStep
  BY DEF Own, RegTypeOK, Destruct, GenStep
<1>. QED
  BY <1>1, <1>4, <1>5, <1>6, <1>7 DEF Own, ExclusiveOwnership

LEMMA AddOwn ==
  ASSUME Own, NEW a \in Actors, held[a] # None, Add(a)
  PROVE  Own' /\ GenStep
<1>1. RegTypeOK'
  BY DEF Own, RegTypeOK, Add
<1>2. /\ held' = [held EXCEPT ![a] = None]
      /\ live' = live /\ reg' = reg \cup {held[a]}
  BY DEF Add
<1>3. \A b \in Actors : b # a => held[b] # held[a]
  BY DEF Own, ExclusiveOwnership
<1>4. ASSUME NEW b1 \in Actors, NEW b2 \in Actors, held'[b1] = held'[b2], held'[b1] # None
      PROVE  b1 = b2
  BY <1>2, <1>4 DEF Own, RegTypeOK, ExclusiveOwnership
<1>5. ASSUME NEW b \in Actors
      PROVE  held'[b] \notin reg'
  BY <1>2, <1>3, RegistryAssumption DEF Own, RegTypeOK, ExclusiveOwnership
<1>6. live' = reg' \cup ({held'[b] : b \in Actors} \ {None})
  BY <1>2, <1>3 DEF Own, RegTypeOK, ExclusiveOwnership
<1>7. GenStep
  BY DEF Own, RegTypeOK, Add, GenStep
<1>. QED
  BY <1>1, <1>4, <1>5, <1>6, <1>7 DEF Own, ExclusiveOwnership

LEMMA RemoveOwn ==
  ASSUME Own, NEW a \in Actors, NEW c, held[a] = None, Remove(a, c)
  PROVE  Own' /\ GenStep /\ c \in Addrs
<1>1. c \in Addrs /\ RegTypeOK'
  BY DEF Own, RegTypeOK, Remove
<1>2. /\ c # None /\ held' = [held EXCEPT ![a] = c] /\ c \in reg
      /\ live' = live /\ reg' = reg \ {c}
  BY <1>1, RegistryAssumption DEF Remove
<1>3. \A b \in Actors : held[b] # c
  BY <1>2 DEF Own, ExclusiveOwnership
<1>4. ASSUME NEW b1 \in Actors, NEW b2 \in Actors, held'[b1] = held'[b2], held'[b1] # None
      PROVE  b1 = b2
  BY <1>2, <1>3, <1>4 DEF Own, RegTypeOK, ExclusiveOwnership
<1>5. ASSUME NEW b \in Actors
      PROVE  held'[b] \notin reg'
  BY <1>2 DEF Own, RegTypeOK, ExclusiveOwnership
<1>6. live' = reg' \cup ({held'[b] : b \in Actors} \ {None})
  BY <1>2 DEF Own, RegTypeOK, ExclusiveOwnership
<1>7. GenStep
  BY DEF Own, RegTypeOK, Remove, GenStep
<1>. QED
  BY <1>1, <1>4, <1>5, <1>6, <1>7 DEF Own, ExclusiveOwnership

-----------------------------------------------------------------------------
(* The steps implement the abstract ownership of module Ownership.          *)

(* ownerOf picks the one actor that holds the address, if there is one.     *)
LEMMA OwnerOfHolder ==
  ASSUME Own, NEW c \in Addrs
  PROVE  /\ c \in reg => ownerOf[c] = "pool"
         /\ \A a \in Actors : held[a] = c => ownerOf[c] = a
         /\ c \notin live => ownerOf[c] = "free"
<1>1. c # None
  BY RegistryAssumption
<1>2. ASSUME NEW a \in Actors, held[a] = c
      PROVE  ownerOf[c] = a
  <2>1. c \notin reg /\ \A b \in Actors : held[b] = c => b = a
    BY <1>1, <1>2 DEF Own, ExclusiveOwnership
  <2>2. (CHOOSE b \in Actors : held[b] = c) = a
    BY <1>2, <2>1
  <2>. QED
    BY <1>2, <2>1, <2>2 DEF ownerOf
<1>3. c \notin live => c \notin reg /\ \A a \in Actors : held[a] # c
  BY <1>1 DEF Own, ExclusiveOwnership
<1>. QED
  BY <1>2, <1>3 DEF ownerOf

(* The same of the next state.                                              *)
LEMMA OwnerOfHolderNext ==
  ASSUME Own', NEW c \in Addrs
  PROVE  /\ c \in reg' => ownerOf'[c] = "pool"
         /\ \A a \in Actors : held'[a] = c => ownerOf'[c] = a
         /\ c \notin live' => ownerOf'[c] = "free"
<1>1. c # None
  BY RegistryAssumption
<1>2. ASSUME NEW a \in Actors, held'[a] = c
      PROVE  ownerOf'[c] = a
  <2>1. c \notin reg' /\ \A b \in Actors : held'[b] = c => b = a
    BY <1>1, <1>2 DEF Own, ExclusiveOwnership
  <2>2. (CHOOSE b \in Actors : held'[b] = c) = a
    BY <1>2, <2>1
  <2>. QED
    BY <1>2, <2>1, <2>2 DEF ownerOf
<1>3. c \notin live' => c \notin reg' /\ \A a \in Actors : held'[a] # c
  BY <1>1 DEF Own, ExclusiveOwnership
<1>. QED
  BY <1>2, <1>3 DEF ownerOf

(* An address other than the one an actor takes or gives keeps its owner.   *)
LEMMA OwnerOfOthers ==
  ASSUME Own, Own', NEW a \in Actors, NEW c \in Addrs,
         \A b \in Actors : b # a => held'[b] = held[b],
         held[a] \in {c, None}, held'[a] \in {c, None},
         reg \ {c} = reg' \ {c}, live \ {c} = live' \ {c}
  PROVE  ownerOf' = [ownerOf EXCEPT ![c] = ownerOf'[c]]
<1>1. ASSUME NEW d \in Addrs, d # c
      PROVE  ownerOf'[d] = ownerOf[d]
  <2>0. d # None
    BY RegistryAssumption
  <2>1. CASE d \in reg
    BY <1>1, <2>1, OwnerOfHolder, OwnerOfHolderNext
  <2>2. CASE d \notin live
    BY <1>1, <2>2, OwnerOfHolder, OwnerOfHolderNext
  <2>3. CASE d \in live /\ d \notin reg
    <3>1. PICK b \in Actors : held[b] = d
      BY <2>3 DEF Own, ExclusiveOwnership
    <3>2. held'[b] = d
      BY <1>1, <2>0, <3>1
    <3>. QED
      BY <3>1, <3>2, OwnerOfHolder, OwnerOfHolderNext
  <2>. QED
    BY <2>1, <2>2, <2>3
<1>2. ownerOf = [d \in Addrs |-> ownerOf[d]] /\ ownerOf' = [d \in Addrs |-> ownerOf'[d]]
  BY DEF ownerOf
<1>. QED
  BY <1>1, <1>2

(* What each building block does to the owner of its connection.            *)
LEMMA BlockOwner ==
  ASSUME Own, Own', NEW a \in Actors, NEW c \in Addrs,
         \/ Construct(a, c) /\ held[a] = None
         \/ Remove(a, c) /\ held[a] = None
         \/ Add(a) /\ held[a] = c
         \/ Destruct(a) /\ held[a] = c
  PROVE  Abstract!OwnerNext
<1>1. c # None
  BY RegistryAssumption
<1>2. ownerOf' = [ownerOf EXCEPT ![c] = ownerOf'[c]]
  BY OwnerOfOthers DEF Construct, Remove, Add, Destruct, Own, RegTypeOK
<1>3. CASE Construct(a, c) /\ held[a] = None
  <2>1. ownerOf[c] = "free" /\ ownerOf'[c] = a
    BY <1>3, OwnerOfHolder, OwnerOfHolderNext DEF Construct, Own, RegTypeOK
  <2>. QED
    BY <1>2, <2>1 DEF Abstract!OwnerNext, Abstract!Create
<1>4. CASE Remove(a, c) /\ held[a] = None
  <2>1. ownerOf[c] = "pool" /\ ownerOf'[c] = a
    BY <1>4, OwnerOfHolder, OwnerOfHolderNext DEF Remove, Own, RegTypeOK
  <2>. QED
    BY <1>2, <2>1 DEF Abstract!OwnerNext, Abstract!Take
<1>5. CASE Add(a) /\ held[a] = c
  <2>1. ownerOf[c] = a /\ ownerOf'[c] = "pool"
    BY <1>5, OwnerOfHolder, OwnerOfHolderNext DEF Add, Own, RegTypeOK
  <2>. QED
    BY <1>2, <2>1 DEF Abstract!OwnerNext, Abstract!Give
<1>6. CASE Destruct(a) /\ held[a] = c
  <2>1. ownerOf[c] = a /\ ownerOf'[c] = "free"
    BY <1>6, OwnerOfHolder, OwnerOfHolderNext DEF Destruct, Own, RegTypeOK
  <2>. QED
    BY <1>2, <2>1 DEF Abstract!OwnerNext, Abstract!Destroy
<1>. QED
  BY <1>3, <1>4, <1>5, <1>6

=============================================================================
