----------------------------- MODULE Ownership -----------------------------
(***************************************************************************)
(* What the registries of odbc_scanner promise, stated without registries: *)
(* an object (an OdbcConnection, or a vector of query parameters) is free, *)
(* or rests in the pool where anyone may take it, or belongs to exactly    *)
(* one holder.  An object changes hands only through the pool, and only    *)
(* its holder may destroy it.                                              *)
(***************************************************************************)
CONSTANTS
  Objects,   (* the places an object can live at (heap addresses)           *)
  Holders    (* the calls and statements that can hold an object; neither   *)
             (* "free" nor "pool"                                           *)

VARIABLE owner   (* owner[o]: "free", "pool" or the holder of the object    *)

OwnerInit == owner = [o \in Objects |-> "free"]

Create(h, o) ==
  /\ owner[o] = "free"
  /\ owner' = [owner EXCEPT ![o] = h]

Give(h, o) ==
  /\ owner[o] = h
  /\ owner' = [owner EXCEPT ![o] = "pool"]

Take(h, o) ==
  /\ owner[o] = "pool"
  /\ owner' = [owner EXCEPT ![o] = h]

Destroy(h, o) ==
  /\ owner[o] = h
  /\ owner' = [owner EXCEPT ![o] = "free"]

OwnerNext ==
  \E h \in Holders, o \in Objects :
    Create(h, o) \/ Give(h, o) \/ Take(h, o) \/ Destroy(h, o)

OwnerSpec == OwnerInit /\ [][OwnerNext]_owner

=============================================================================
