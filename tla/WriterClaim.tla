----------------------------- MODULE WriterClaim -----------------------------
(***************************************************************************)
(* The single-writer claim of xtask (writer_claim.rs): a claim kept under  *)
(* one git ref, and commands that read the clock, then the ref, decide,    *)
(* and replace the ref by compare-and-swap.  Several commands run at once, *)
(* several of them with the same session id, and any may die on the way.   *)
(* Identifiers other than the session, and the decoding of the blob, are   *)
(* left out; the object id of the ref is the claim itself, which git       *)
(* derives it from.                                                        *)
(***************************************************************************)
EXTENDS Naturals

CONSTANTS
  Commands,        \* processes that run writer-claim
  Sessions,        \* session ids
  Nobody,          \* the session of no claim
  Leases,          \* lease lengths asked for, 0 among them if it is asked for
  MaxClock,        \* bound: the last second
  MaxTransitions   \* bound: claims that are replaced no more

ASSUME ClaimAssumption ==
  /\ Nobody \notin Sessions
  /\ Leases \subseteq Nat
  /\ MaxClock \in Nat /\ MaxTransitions \in Nat

VARIABLES
  clock,    \* seconds
  ref,      \* refs/kgw/writer-claim
  cmd,      \* each command: what was asked, the clock and the claim it read
  wins,     \* history: the transitions that compare-and-swap let through
  fence     \* history: the epoch of the claim when a command started

vars == <<clock, ref, cmd, wins, fence>>

-----------------------------------------------------------------------------
Claim == [state : {"none", "active", "released"}, session : Sessions \union {Nobody},
          renewed : Nat, lease : Nat, epoch : Nat, transition : Nat]

NoClaim == [state |-> "none", session |-> Nobody,
            renewed |-> 0, lease |-> 0, epoch |-> 0, transition |-> 0]

Verbs == {"acquire", "renew", "release", "verify"}

Command == [pc : {"idle", "read", "finish", "yes", "no"}, verb : Verbs,
            session : Sessions \union {Nobody}, epoch : Nat, lease : Nat,
            now : Nat, old : Claim]

NoCommand == [pc |-> "idle", verb |-> "verify", session |-> Nobody, epoch |-> 0,
              lease |-> 0, now |-> 0, old |-> NoClaim]

Win == [verb : Verbs, session : Sessions \union {Nobody}, epoch : Nat, transition : Nat]

TypeOK ==
  /\ clock \in Nat
  /\ ref \in Claim
  /\ ref.session \in IF ref.state = "none" THEN {Nobody} ELSE Sessions
  /\ cmd \in [Commands -> Command]
  /\ wins \subseteq Win
  /\ fence \in [Commands -> Nat]

Init ==
  /\ clock = 0 /\ ref = NoClaim
  /\ cmd = [c \in Commands |-> NoCommand]
  /\ wins = {} /\ fence = [c \in Commands |-> 0]

-----------------------------------------------------------------------------
LeaseUntil(claim) == claim.renewed + claim.lease

\* Variant: one second of grace too few.
ExpiresEarly(claim, now) == claim.state # "active" \/ now + 1 >= LeaseUntil(claim)

IsExpired(claim, now) == claim.state # "active" \/ now >= LeaseUntil(claim)

\* decide_acquire refuses a zero lease and a claim that another session holds.
MayAcquire(o) ==
  /\ o.lease > 0
  /\ IsExpired(o.old, o.now) \/ o.old.session = o.session

\* Variant: the session is compared and the epoch is not.
HoldsAnyEpoch(o) ==
  /\ o.old.state = "active" /\ o.old.session = o.session
  /\ o.now < LeaseUntil(o.old)

VerifyHolder(o) ==
  /\ o.old.state = "active"
  /\ o.old.session = o.session /\ o.old.epoch = o.epoch
  /\ o.now < LeaseUntil(o.old)

Granted(o) == IF o.verb = "acquire" THEN MayAcquire(o) ELSE VerifyHolder(o)

\* Variant: a takeover keeps the epoch.
SameEpoch(o) ==
  [state |-> "active", session |-> o.session, renewed |-> o.now, lease |-> o.lease,
   epoch |-> IF o.old.state = "none" THEN 1 ELSE o.old.epoch,
   transition |-> o.old.transition + 1]

Acquired(o) ==
  [state |-> "active", session |-> o.session, renewed |-> o.now, lease |-> o.lease,
   epoch |-> IF IsExpired(o.old, o.now) THEN o.old.epoch + 1 ELSE o.old.epoch,
   transition |-> o.old.transition + 1]

\* Variant: a renewal is not counted.
RenewedUncounted(o) == [o.old EXCEPT !.renewed = o.now]

Renewed(o) ==
  [o.old EXCEPT !.renewed = o.now, !.transition = o.old.transition + 1]

\* Variant: a release clears the session as well.
ReleasedByNobody(o) ==
  [o.old EXCEPT !.state = "released", !.session = Nobody, !.renewed = o.now,
                !.transition = o.old.transition + 1]

Released(o) ==
  [o.old EXCEPT !.state = "released", !.renewed = o.now,
                !.transition = o.old.transition + 1]

Decided(o) ==
  CASE o.verb = "acquire" -> Acquired(o)
    [] o.verb = "renew" -> Renewed(o)
    [] o.verb = "release" -> Released(o)
    [] OTHER -> o.old

\* What a write is remembered by.
WinOf(o) ==
  [verb |-> o.verb, session |-> o.session,
   epoch |-> Decided(o).epoch, transition |-> Decided(o).transition]

-----------------------------------------------------------------------------
Tick ==
  /\ clock < MaxClock
  /\ clock' = clock + 1
  /\ UNCHANGED <<ref, cmd, wins, fence>>

\* The clock is read before the claim is.  Epochs are those that were printed.
Start(c) ==
  /\ cmd[c].pc = "idle"
  /\ \/ \E s \in Sessions, l \in Leases :
          cmd' = [cmd EXCEPT ![c] =
                    [NoCommand EXCEPT !.pc = "read", !.verb = "acquire", !.session = s,
                                      !.lease = l, !.now = clock]]
     \/ \E v \in Verbs \ {"acquire"}, s \in Sessions, w \in wins :
          cmd' = [cmd EXCEPT ![c] =
                    [NoCommand EXCEPT !.pc = "read", !.verb = v, !.session = s,
                                      !.epoch = w.epoch, !.now = clock]]
  /\ fence' = [fence EXCEPT ![c] = ref.epoch]
  /\ UNCHANGED <<clock, ref, wins>>

\* read_current.
Read(c) ==
  /\ cmd[c].pc = "read"
  /\ cmd' = [cmd EXCEPT ![c] = [@ EXCEPT !.pc = "finish", !.old = ref]]
  /\ UNCHANGED <<clock, ref, wins, fence>>

\* The command ends without a write: it is refused, or it only verifies.
Answer(c) ==
  /\ cmd[c].pc = "finish"
  /\ \/ ~Granted(cmd[c]) /\ cmd' = [cmd EXCEPT ![c] = [@ EXCEPT !.pc = "no"]]
     \/ /\ Granted(cmd[c]) /\ cmd[c].verb = "verify"
        /\ cmd' = [cmd EXCEPT ![c] = [@ EXCEPT !.pc = "yes"]]
  /\ UNCHANGED <<clock, ref, wins, fence>>

Writes(c) ==
  /\ cmd[c].pc = "finish" /\ cmd[c].verb # "verify"
  /\ Granted(cmd[c])

\* Variant: update-ref is given no expected value.
BlindWrite(c) ==
  /\ Writes(c)
  /\ cmd[c].old.transition < MaxTransitions
  /\ ref' = Decided(cmd[c])
  /\ wins' = wins \union {WinOf(cmd[c])}
  /\ cmd' = [cmd EXCEPT ![c] = [@ EXCEPT !.pc = "yes"]]
  /\ UNCHANGED <<clock, fence>>

\* cas_write when the ref still has the value that was read.
CasWins(c) ==
  /\ Writes(c) /\ ref = cmd[c].old
  /\ cmd[c].old.transition < MaxTransitions
  /\ ref' = Decided(cmd[c])
  /\ wins' = wins \union {WinOf(cmd[c])}
  /\ cmd' = [cmd EXCEPT ![c] = [@ EXCEPT !.pc = "yes"]]
  /\ UNCHANGED <<clock, fence>>

CasLoses(c) ==
  /\ Writes(c) /\ ref # cmd[c].old
  /\ cmd' = [cmd EXCEPT ![c] = [@ EXCEPT !.pc = "no"]]
  /\ UNCHANGED <<clock, ref, wins, fence>>

\* The process returns, or dies before it did.
Ends(c) ==
  /\ cmd[c].pc # "idle"
  /\ cmd' = [cmd EXCEPT ![c] = NoCommand]
  /\ UNCHANGED <<clock, ref, wins, fence>>

Next ==
  \/ Tick
  \/ \E c \in Commands :
       \/ Start(c) \/ Read(c) \/ Answer(c)
       \/ CasWins(c) \/ CasLoses(c) \/ Ends(c)

Spec == Init /\ [][Next]_vars

-----------------------------------------------------------------------------
(* Properties.                                                             *)

\* No two writes of different sessions, verbs or epochs win the same transition:
\* "two sessions can never both win the same transition" (writer_claim.rs:5).
TransitionWonOnce ==
  \A v, w \in wins : v.transition = w.transition => v = w

\* The epoch fences: all that was written under one epoch was written by one
\* session, so an epoch tells who may mutate.
EpochHasOneSession ==
  \A v, w \in wins : v.epoch = w.epoch => v.session = w.session

\* "That check fails as soon as another session takes over": a verification that
\* began after a takeover does not succeed with an epoch from before it.
FencedOut ==
  \A c \in Commands :
    cmd[c].verb = "verify" /\ cmd[c].pc = "yes" => cmd[c].epoch >= fence[c]

\* The session a claim is granted to.
Holder(claim) == IF claim.state = "active" THEN claim.session ELSE Nobody

\* Every command is one atomic step on the lease, however the reads of the clock
\* and of the ref and the writes of several commands interleave: nobody is
\* granted the lease of a holder before it ended, only its holder extends or ends
\* it, and every grant has an epoch of its own.
Fenced == INSTANCE FencedLease
            WITH holder <- Holder(ref), epoch <- ref.epoch, until <- LeaseUntil(ref)
RefinesFencedLease == Fenced!Spec

\* The history of the claim has no gap and no overwritten write: there is a won
\* transition for each number up to the one the claim carries.
NothingIsOverwritten ==
  {w.transition : w \in wins} = 1 .. ref.transition
=============================================================================
