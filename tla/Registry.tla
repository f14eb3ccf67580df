------------------------------ MODULE Registry ------------------------------
(***************************************************************************)
(* The two registries of registries.cpp (connections, and vectors of query *)
(* parameters), and the heap objects that pass through them.               *)
(*                                                                         *)
(* A registry is a set of ids under a mutex, and an id is the heap address *)
(* of an object: an id can come to denote a later object than the one it   *)
(* was handed out for.  An object is in the registry, or in the            *)
(* std::unique_ptr of a call or statement that has taken it out.  The      *)
(* modules that extend this one compose the four steps below into the      *)
(* handlers that use the registry.                                         *)
(***************************************************************************)
EXTENDS Naturals

CONSTANTS
  Addrs,    (* heap addresses at which an object can live                   *)
  Actors,   (* the calls and statements that can hold an object             *)
  None,     (* the null pointer / no id                                     *)
  MaxGen    (* bound: objects ever constructed at one address               *)

ASSUME RegistryAssumption ==
  /\ None \notin Addrs
  /\ "free" \notin Actors
  /\ "pool" \notin Actors
  /\ MaxGen \in Nat

VARIABLES
  reg,      (* the ids in the registry                                      *)
  live,     (* the addresses at which an object exists                      *)
  gen,      (* gen[o]: number of objects constructed at o so far            *)
  held      (* held[a]: the object in a's std::unique_ptr                   *)

regVars == <<reg, live, gen, held>>

RegTypeOK ==
  /\ reg \subseteq Addrs
  /\ live \subseteq Addrs
  /\ gen \in [Addrs -> 0..MaxGen]
  /\ held \in [Actors -> Addrs \cup {None}]

RegInit ==
  /\ reg = {}
  /\ live = {}
  /\ gen = [o \in Addrs |-> 0]
  /\ held = [a \in Actors |-> None]

-----------------------------------------------------------------------------
(* The steps the handlers are made of.                                      *)

(* new: the allocator returns an address that is not in use.                *)
Construct(a, o) ==
  /\ o \notin live
  /\ gen[o] < MaxGen
  /\ live' = live \cup {o}
  /\ gen' = [gen EXCEPT ![o] = @ + 1]
  /\ held' = [held EXCEPT ![a] = o]
  /\ UNCHANGED reg

(* delete: the address can be used again.                                   *)
Destruct(a) ==
  /\ live' = live \ {held[a]}
  /\ held' = [held EXCEPT ![a] = None]
  /\ UNCHANGED <<reg, gen>>

(* Add the object a holds.  The two throws, for a null pointer and for an   *)
(* id that is already registered, are left out: HoldersHold (of the modules *)
(* that extend this one) and ExclusiveOwnership say they are unreachable.   *)
Add(a) ==
  /\ reg' = reg \cup {held[a]}
  /\ held' = [held EXCEPT ![a] = None]
  /\ UNCHANGED <<live, gen>>

(* Remove an id that is registered.                                         *)
Remove(a, o) ==
  /\ o \in reg
  /\ reg' = reg \ {o}
  /\ held' = [held EXCEPT ![a] = o]
  /\ UNCHANGED <<live, gen>>

-----------------------------------------------------------------------------
(* No two calls or statements have the same object, none has one that is in *)
(* the registry at the same time, and every object that exists is in the    *)
(* registry or with somebody: none is leaked, none is used after it was     *)
(* destroyed, and Add never throws out of a destructor.                     *)
ExclusiveOwnership ==
  /\ \A a, b \in Actors : held[a] = held[b] /\ held[a] # None => a = b
  /\ \A a \in Actors : held[a] \notin reg
  /\ live = reg \cup ({held[a] : a \in Actors} \ {None})

(* Who has the object at each address: the abstract view of a registry.     *)
ownerOf ==
  [o \in Addrs |->
     IF o \in reg THEN "pool"
     ELSE IF \E a \in Actors : held[a] = o THEN CHOOSE a \in Actors : held[a] = o
     ELSE "free"]

Abstract == INSTANCE Ownership WITH Objects <- Addrs, Holders <- Actors, owner <- ownerOf

(* An object changes hands only through the registry (the promise of        *)
(* ConnectionsRegistry and ParamsRegistry, stated in module Ownership).     *)
ImplementsOwnership == Abstract!OwnerSpec

=============================================================================
