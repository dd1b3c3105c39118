----------------------------- MODULE FencedLease -----------------------------
(***************************************************************************)
(* What the writer claim promises: one holder at a time, a lease that only *)
(* its holder extends or ends early, and an epoch that grows with every    *)
(* new grant, so that no two grants share one (the fencing token of        *)
(* writer_claim.rs).                                                       *)
(***************************************************************************)
EXTENDS Naturals

CONSTANTS
  Sessions,   \* who may hold the lease
  Nobody      \* no session

VARIABLES
  clock,      \* the wall clock
  holder,     \* the session of the last grant, Nobody once it ended it
  epoch,      \* the token of the last grant
  until       \* when the lease of the last grant runs out

vars == <<clock, holder, epoch, until>>

Init == clock = 0 /\ holder = Nobody /\ epoch = 0 /\ until = 0

TimePasses ==
  /\ clock' > clock
  /\ UNCHANGED <<holder, epoch, until>>

Free == holder = Nobody \/ clock >= until

Grant(s) ==
  /\ Free
  /\ holder' = s /\ epoch' = epoch + 1
  /\ until' \in Nat
  /\ UNCHANGED clock

Extend ==
  /\ holder # Nobody
  /\ until' \in Nat
  /\ UNCHANGED <<clock, holder, epoch>>

End ==
  /\ holder # Nobody
  /\ holder' = Nobody
  /\ until' \in Nat
  /\ UNCHANGED <<clock, epoch>>

Next == TimePasses \/ Extend \/ End \/ \E s \in Sessions : Grant(s)

Spec == Init /\ [][Next]_vars
==============================================================================
