----------------------------- MODULE OwnerSlots -----------------------------
(***************************************************************************)
(* What runtime ownership promises for one network, with no files, locks   *)
(* or messages: a live self-worker holds a claim on its role, a worker     *)
(* that runs the official node core (a node worker, or a bridge worker in  *)
(* inprocess mode) also holds the network's only core claim.               *)
(***************************************************************************)
CONSTANT Workers        \* worker processes

VARIABLE owners         \* the claims held now

Claims == [worker : Workers, role : {"node", "bridge"}, core : BOOLEAN]

-----------------------------------------------------------------------------
Init == owners = {}

Acquire(o) ==
  /\ \A p \in owners : p.role # o.role /\ ~(p.core /\ o.core)
  /\ owners' = owners \union {o}

Release(o) ==
  /\ o \in owners
  /\ owners' = owners \ {o}

Next == \E o \in Claims : Acquire(o) \/ Release(o)

Spec == Init /\ [][Next]_owners
=============================================================================
