-------------------------- MODULE WriterClaimProofs --------------------------
(***************************************************************************)
(* Theorems of WriterClaim, for any sessions, commands and lease lengths:  *)
(* an epoch belongs to one session, no write is lost, an old epoch is      *)
(* refused after a takeover, and the commands are atomic steps of a fenced *)
(* lease.                                                                  *)
(***************************************************************************)
EXTENDS WriterClaim, TLAPS

\* What a command that runs carries; the clock it read is not ahead.
CommandInv ==
  \A c \in Commands :
    cmd[c].pc # "idle" => cmd[c].session \in Sessions /\ cmd[c].now <= clock

\* A claim that is not there has nothing in it.
ClaimInv == ref.state = "none" => ref = NoClaim

\* The writes so far end in the claim.
HistoryInv ==
  /\ \A w \in wins : w.epoch <= ref.epoch
  /\ \A w \in wins : w.epoch = ref.epoch => w.session = ref.session
  /\ NothingIsOverwritten
  /\ EpochHasOneSession
  /\ TransitionWonOnce

\* A command sees no epoch from before it started.
FenceInv ==
  \A c \in Commands :
    /\ fence[c] <= ref.epoch
    /\ cmd[c].pc = "finish" => fence[c] <= cmd[c].old.epoch
    /\ cmd[c].pc = "yes" /\ cmd[c].verb = "verify" => fence[c] <= cmd[c].epoch

IInv == TypeOK /\ CommandInv /\ ClaimInv /\ HistoryInv /\ FenceInv

-----------------------------------------------------------------------------
\* What the types say of a command and of the claim.
LEMMA Types ==
  ASSUME TypeOK, NEW c \in Commands
  PROVE  /\ cmd[c] \in Command /\ cmd[c].old \in Claim
         /\ cmd[c].now \in Nat /\ cmd[c].lease \in Nat /\ cmd[c].epoch \in Nat
         /\ cmd[c].old.epoch \in Nat /\ cmd[c].old.transition \in Nat
         /\ cmd[c].old.renewed \in Nat /\ cmd[c].old.lease \in Nat
         /\ ref.epoch \in Nat /\ ref.transition \in Nat
         /\ ref.renewed \in Nat /\ ref.lease \in Nat
         /\ fence[c] \in Nat /\ clock \in Nat
BY DEF TypeOK, Command, Claim

LEMMA NoCommandType == NoCommand \in Command /\ NoClaim \in Claim
BY DEF NoCommand, NoClaim, Command, Claim, Verbs

\* A claim stays one when a renewal changes it.
LEMMA RenewedClaim ==
  ASSUME NEW o, o.old \in Claim, o.now \in Nat
  PROVE  Renewed(o) \in Claim /\ Renewed(o).transition = o.old.transition + 1
<1> DEFINE r == o.old
           n == o.now
           t == o.old.transition + 1
<1>1. Renewed(o) = [r EXCEPT !.renewed = n, !.transition = t]
  BY DEF Renewed
<1>2. r \in Claim /\ n \in Nat /\ t \in Nat
  BY DEF Claim
<1> HIDE DEF r, n, t
<1>3. [r EXCEPT !.renewed = n, !.transition = t] \in Claim
  BY <1>2 DEF Claim
<1>4. [r EXCEPT !.renewed = n, !.transition = t].transition = t
  BY <1>2 DEF Claim
<1>5. Renewed(o) \in Claim /\ Renewed(o).transition = t
  BY <1>1, <1>3, <1>4
<1> QED BY <1>5 DEF t

\* And when a release does.
LEMMA ReleasedClaim ==
  ASSUME NEW o, o.old \in Claim, o.now \in Nat
  PROVE  Released(o) \in Claim /\ Released(o).transition = o.old.transition + 1
<1> DEFINE r == o.old
           n == o.now
           t == o.old.transition + 1
<1>1. Released(o) = [r EXCEPT !.state = "released", !.renewed = n, !.transition = t]
  BY DEF Released
<1>2. r \in Claim /\ n \in Nat /\ t \in Nat
  BY DEF Claim
<1> HIDE DEF r, n, t
<1>3. [r EXCEPT !.state = "released", !.renewed = n, !.transition = t] \in Claim
  BY <1>2 DEF Claim
<1>4. [r EXCEPT !.state = "released", !.renewed = n, !.transition = t].transition = t
  BY <1>2 DEF Claim
<1>5. Released(o) \in Claim /\ Released(o).transition = t
  BY <1>1, <1>3, <1>4
<1> QED BY <1>5 DEF t

\* What a write makes of the claim.
LEMMA DecidedFacts ==
  ASSUME IInv, NEW c \in Commands, Writes(c), ref = cmd[c].old
  PROVE  LET o == cmd[c]  d == Decided(o)
         IN  /\ d \in Claim /\ d.state # "none" /\ d.session = o.session
             /\ o.session \in Sessions
             /\ d.transition = ref.transition + 1
             /\ \/ d.epoch = ref.epoch + 1 /\ IsExpired(ref, o.now) /\ d.state = "active"
                \/ /\ d.epoch = ref.epoch /\ ref.state = "active"
                   /\ ref.session = o.session
<1> DEFINE o == cmd[c]
<1>1. /\ o \in Command /\ ref \in Claim /\ o.pc = "finish" /\ o.verb # "verify"
      /\ o.session \in Sessions /\ Granted(o) /\ o.old = ref
  BY Types DEF Writes, IInv, TypeOK, CommandInv
<1>2. o.verb \in Verbs /\ o.now \in Nat /\ o.lease \in Nat
  BY <1>1 DEF Command
<1>3. CASE o.verb = "acquire"
  <2>1. Decided(o) = Acquired(o) /\ MayAcquire(o)
    BY <1>1, <1>3 DEF Decided, Granted
  <2>2. Acquired(o) \in Claim /\ Acquired(o).transition = ref.transition + 1
    BY <1>1, <1>2 DEF Acquired, Claim
  <2>3. /\ Acquired(o).session = o.session /\ Acquired(o).state = "active"
        /\ Acquired(o).epoch = IF IsExpired(ref, o.now) THEN ref.epoch + 1 ELSE ref.epoch
    BY <1>1 DEF Acquired
  <2>4. ~IsExpired(ref, o.now) => ref.state = "active" /\ ref.session = o.session
    BY <1>1, <2>1 DEF MayAcquire, IsExpired
  <2> HIDE DEF o
  <2> QED BY <1>1, <2>1, <2>2, <2>3, <2>4 DEF o
<1>4. CASE o.verb = "renew"
  <2>1. Decided(o) = Renewed(o) /\ VerifyHolder(o)
    BY <1>1, <1>4 DEF Decided, Granted
  <2>2. Renewed(o) \in Claim /\ Renewed(o).transition = ref.transition + 1
    BY <1>1, <1>2, RenewedClaim
  <2>3. /\ Renewed(o).state # "none" /\ Renewed(o).session = ref.session
        /\ Renewed(o).epoch = ref.epoch
    BY <1>1, <1>2, <2>1 DEF Renewed, VerifyHolder, Claim
  <2>4. ref.state = "active" /\ ref.session = o.session
    BY <1>1, <2>1 DEF VerifyHolder
  <2> HIDE DEF o
  <2> QED BY <1>1, <2>1, <2>2, <2>3, <2>4 DEF o
<1>5. CASE o.verb = "release"
  <2>1. Decided(o) = Released(o) /\ VerifyHolder(o)
    BY <1>1, <1>5 DEF Decided, Granted
  <2>2. Released(o) \in Claim /\ Released(o).transition = ref.transition + 1
    BY <1>1, <1>2, ReleasedClaim
  <2>3. /\ Released(o).state # "none" /\ Released(o).session = ref.session
        /\ Released(o).epoch = ref.epoch
    BY <1>1, <1>2, <2>1 DEF Released, VerifyHolder, Claim
  <2>4. ref.state = "active" /\ ref.session = o.session
    BY <1>1, <2>1 DEF VerifyHolder
  <2> HIDE DEF o
  <2> QED BY <1>1, <2>1, <2>2, <2>3, <2>4 DEF o
<1> QED BY <1>1, <1>2, <1>3, <1>4, <1>5 DEF Verbs

-----------------------------------------------------------------------------
LEMMA InitInv == Init => IInv
<1> SUFFICES ASSUME Init PROVE IInv
  OBVIOUS
<1>1. TypeOK
  BY NoCommandType DEF Init, TypeOK, NoClaim, Win
<1>2. CommandInv /\ ClaimInv /\ FenceInv
  BY DEF Init, CommandInv, ClaimInv, FenceInv, NoCommand, NoClaim
<1>3. HistoryInv
  BY DEF Init, HistoryInv, NothingIsOverwritten, EpochHasOneSession, TransitionWonOnce,
         NoClaim
<1> QED BY <1>1, <1>2, <1>3 DEF IInv

\* A step that leaves the ref as it is.
LEMMA CommandStep ==
  ASSUME IInv, UNCHANGED <<clock, ref, wins>>, NEW c \in Commands,
         NEW o \in Command, cmd' = [cmd EXCEPT ![c] = o],
         o.pc # "idle" => o.session \in Sessions /\ o.now <= clock,
         NEW f \in Nat, fence' = [fence EXCEPT ![c] = f], f <= ref.epoch,
         o.pc = "finish" => f <= o.old.epoch,
         o.pc = "yes" /\ o.verb = "verify" => f <= o.epoch
  PROVE  IInv'
<1>1. TypeOK'
  BY DEF IInv, TypeOK
<1>2. cmd'[c] = o /\ fence'[c] = f
  BY DEF IInv, TypeOK
<1>3. \A d \in Commands : d # c => cmd'[d] = cmd[d] /\ fence'[d] = fence[d]
  BY DEF IInv, TypeOK
<1>4. CommandInv' /\ ClaimInv' /\ FenceInv'
  BY <1>2, <1>3 DEF IInv, CommandInv, ClaimInv, FenceInv
<1>5. HistoryInv'
  BY DEF IInv, HistoryInv, NothingIsOverwritten, EpochHasOneSession, TransitionWonOnce
<1> QED BY <1>1, <1>4, <1>5 DEF IInv

LEMMA StartInv == ASSUME IInv, NEW c \in Commands, Start(c) PROVE IInv'
<1>1. PICK o \in Command :
        /\ cmd' = [cmd EXCEPT ![c] = o]
        /\ o.pc = "read" /\ o.session \in Sessions /\ o.now = clock
  <2>1. CASE \E s \in Sessions, l \in Leases :
               cmd' = [cmd EXCEPT ![c] =
                    [NoCommand EXCEPT !.pc = "read", !.verb = "acquire", !.session = s,
                                      !.lease = l, !.now = clock]]
    <3>1. PICK s \in Sessions, l \in Leases :
               cmd' = [cmd EXCEPT ![c] =
                    [NoCommand EXCEPT !.pc = "read", !.verb = "acquire", !.session = s,
                                      !.lease = l, !.now = clock]]
      BY Zenon, <2>1
    <3> DEFINE o == [NoCommand EXCEPT !.pc = "read", !.verb = "acquire", !.session = s,
                                      !.lease = l, !.now = clock]
    <3>2. o \in Command /\ o.pc = "read" /\ o.session = s /\ o.now = clock
      BY NoCommandType, ClaimAssumption
         DEF IInv, TypeOK, NoCommand, Command, Verbs
    <3> QED BY Zenon, <3>1, <3>2
  <2>2. CASE \E v \in Verbs \ {"acquire"}, s \in Sessions, w \in wins :
               cmd' = [cmd EXCEPT ![c] =
                    [NoCommand EXCEPT !.pc = "read", !.verb = v, !.session = s,
                                      !.epoch = w.epoch, !.now = clock]]
    <3>1. PICK v \in Verbs \ {"acquire"}, s \in Sessions, w \in wins :
               cmd' = [cmd EXCEPT ![c] =
                    [NoCommand EXCEPT !.pc = "read", !.verb = v, !.session = s,
                                      !.epoch = w.epoch, !.now = clock]]
      BY Zenon, <2>2
    <3> DEFINE o == [NoCommand EXCEPT !.pc = "read", !.verb = v, !.session = s,
                                      !.epoch = w.epoch, !.now = clock]
    <3>2. w.epoch \in Nat
      BY DEF IInv, TypeOK, Win
    <3>3. o \in Command /\ o.pc = "read" /\ o.session = s /\ o.now = clock
      BY <3>2, NoCommandType DEF IInv, TypeOK, NoCommand, Command, Verbs
    <3> QED BY Zenon, <3>1, <3>3
  <2> QED BY Zenon, <2>1, <2>2 DEF Start
<1>2. fence' = [fence EXCEPT ![c] = ref.epoch] /\ UNCHANGED <<clock, ref, wins>>
  BY Zenon DEF Start
<1>3. ref.epoch \in Nat /\ ref.epoch <= ref.epoch /\ o.now <= clock
  BY <1>1, Types DEF IInv
<1>4. o.pc # "finish" /\ o.pc # "yes"
  BY <1>1
<1> QED BY <1>1, <1>2, <1>3, <1>4, CommandStep

LEMMA ReadInv == ASSUME IInv, NEW c \in Commands, Read(c) PROVE IInv'
<1> DEFINE o == [cmd[c] EXCEPT !.pc = "finish", !.old = ref]
<1>1. /\ cmd[c].pc = "read" /\ UNCHANGED <<clock, ref, wins>>
      /\ cmd' = [cmd EXCEPT ![c] = o] /\ fence' = fence
  BY Zenon DEF Read
<1>2. /\ o \in Command /\ o.pc = "finish" /\ o.old = ref
      /\ o.session = cmd[c].session /\ o.now = cmd[c].now
  BY Types DEF IInv, TypeOK, Command
<1>3. /\ o.session \in Sessions /\ o.now <= clock /\ fence[c] \in Nat
      /\ fence[c] <= ref.epoch /\ fence' = [fence EXCEPT ![c] = fence[c]]
  BY <1>1, <1>2 DEF IInv, CommandInv, FenceInv, TypeOK
<1> HIDE DEF o
<1> QED BY <1>1, <1>2, <1>3, CommandStep

\* A command that changes nothing but where it is.
LEMMA MoveInv ==
  ASSUME IInv, NEW c \in Commands, cmd[c].pc # "idle", NEW p \in {"yes", "no"},
         cmd' = [cmd EXCEPT ![c] = [@ EXCEPT !.pc = p]],
         p = "yes" /\ cmd[c].verb = "verify" => fence[c] <= cmd[c].epoch,
         UNCHANGED <<clock, ref, wins, fence>>
  PROVE  IInv'
<1> DEFINE o == [cmd[c] EXCEPT !.pc = p]
<1>1. cmd' = [cmd EXCEPT ![c] = o]
  BY Zenon
<1>2. /\ o \in Command /\ o.pc = p /\ o.verb = cmd[c].verb /\ o.epoch = cmd[c].epoch
      /\ o.session = cmd[c].session /\ o.now = cmd[c].now
  BY Types DEF IInv, TypeOK, Command
<1>3. /\ o.session \in Sessions /\ o.now <= clock /\ fence[c] \in Nat
      /\ fence[c] <= ref.epoch /\ fence' = [fence EXCEPT ![c] = fence[c]]
  BY <1>2 DEF IInv, CommandInv, FenceInv, TypeOK
<1>4. p # "finish" /\ p # "idle"
  OBVIOUS
<1> HIDE DEF o
<1> QED BY <1>1, <1>2, <1>3, <1>4, CommandStep

LEMMA AnswerInv == ASSUME IInv, NEW c \in Commands, Answer(c) PROVE IInv'
<1>1. cmd[c].pc = "finish" /\ UNCHANGED <<clock, ref, wins, fence>>
  BY DEF Answer
<1>2. CASE cmd' = [cmd EXCEPT ![c] = [@ EXCEPT !.pc = "no"]]
  BY <1>1, <1>2, MoveInv
<1>3. CASE /\ Granted(cmd[c]) /\ cmd[c].verb = "verify"
           /\ cmd' = [cmd EXCEPT ![c] = [@ EXCEPT !.pc = "yes"]]
  <2>1. cmd[c].old.epoch = cmd[c].epoch
    BY <1>3 DEF Granted, VerifyHolder
  <2>2. fence[c] <= cmd[c].epoch
    BY <1>1, <2>1 DEF IInv, FenceInv
  <2> QED BY <1>1, <1>3, <2>2, MoveInv
<1> QED BY Zenon, <1>2, <1>3 DEF Answer

LEMMA CasWinsInv == ASSUME IInv, NEW c \in Commands, CasWins(c) PROVE IInv'
<1> DEFINE o == cmd[c]
           d == Decided(cmd[c])
           w == WinOf(cmd[c])
           p == [cmd[c] EXCEPT !.pc = "yes"]
<1>1. /\ Writes(c) /\ ref = o.old /\ ref' = d /\ wins' = wins \union {w}
      /\ cmd' = [cmd EXCEPT ![c] = p] /\ UNCHANGED <<clock, fence>>
  BY Zenon DEF CasWins
<1>2. /\ d \in Claim /\ d.state # "none" /\ d.session = o.session /\ o.session \in Sessions
      /\ d.transition = ref.transition + 1
      /\ \/ d.epoch = ref.epoch + 1
         \/ d.epoch = ref.epoch /\ ref.session = o.session
  BY <1>1, DecidedFacts
<1>3. /\ p \in Command /\ p.pc = "yes" /\ p.verb # "verify"
      /\ p.session = o.session /\ p.now = o.now
  BY <1>1, Types DEF IInv, TypeOK, Command, Writes
<1>4. /\ w \in Win /\ w.epoch = d.epoch /\ w.transition = d.transition
      /\ w.session = o.session
  BY <1>2, Types DEF IInv, WinOf, Win, Command, Claim
<1>5. /\ ref.epoch \in Nat /\ ref.transition \in Nat /\ d.epoch \in Nat
      /\ \A v \in wins : v.epoch \in Nat /\ v.transition \in Nat
  BY <1>2, Types DEF IInv, TypeOK, Win, Claim
<1> HIDE DEF o, d, w, p
<1>6. TypeOK'
  BY <1>1, <1>2, <1>3, <1>4 DEF IInv, TypeOK
<1>7. cmd'[c] = p /\ \A e \in Commands : e # c => cmd'[e] = cmd[e]
  BY <1>1 DEF IInv, TypeOK
<1>8. CommandInv'
  BY <1>1, <1>2, <1>3, <1>7 DEF IInv, CommandInv, Writes, o
<1>9. ClaimInv'
  BY <1>1, <1>2 DEF ClaimInv
<1>10. FenceInv'
  <2>1. ASSUME NEW e \in Commands PROVE fence[e] \in Nat /\ fence[e] <= d.epoch
    BY <1>2, <1>5 DEF IInv, FenceInv, TypeOK
  <2> QED BY <1>1, <1>3, <1>7, <2>1 DEF IInv, FenceInv
<1>11. HistoryInv'
  <2>1. \A v \in wins : v.transition \in 1 .. ref.transition
    BY DEF IInv, HistoryInv, NothingIsOverwritten
  <2>2. NothingIsOverwritten'
    <3>1. {v.transition : v \in wins'} = {v.transition : v \in wins} \union {w.transition}
      BY <1>1
    <3>2. {v.transition : v \in wins} = 1 .. ref.transition
      BY DEF IInv, HistoryInv, NothingIsOverwritten
    <3> QED BY <1>1, <1>2, <1>4, <1>5, <3>1, <3>2 DEF NothingIsOverwritten
  <2>3. TransitionWonOnce'
    BY <1>1, <1>2, <1>4, <1>5, <2>1 DEF IInv, HistoryInv, TransitionWonOnce
  <2>4. \A v \in wins : /\ v.epoch <= ref.epoch
                        /\ v.epoch = ref.epoch => v.session = ref.session
    BY DEF IInv, HistoryInv
  <2>5. \A v \in wins : v.epoch <= d.epoch /\ (v.epoch = d.epoch => v.session = o.session)
    BY <1>2, <1>5, <2>4
  <2>6. EpochHasOneSession'
    BY <1>1, <1>4, <2>5 DEF IInv, HistoryInv, EpochHasOneSession
  <2>7. (\A v \in wins : v.epoch <= ref.epoch)'
        /\ (\A v \in wins : v.epoch = ref.epoch => v.session = ref.session)'
    BY <1>1, <1>2, <1>4, <1>5, <2>5
  <2> QED BY <2>2, <2>3, <2>6, <2>7 DEF HistoryInv
<1> QED BY <1>6, <1>8, <1>9, <1>10, <1>11 DEF IInv

LEMMA NextInv == ASSUME IInv, [Next]_vars PROVE IInv'
<1>1. CASE Tick
  <2>1. TypeOK'
    BY <1>1 DEF IInv, TypeOK, Tick
  <2>2. CommandInv'
    BY <1>1, Types DEF IInv, CommandInv, Tick
  <2>3. ClaimInv' /\ HistoryInv' /\ FenceInv'
    BY <1>1 DEF IInv, Tick, ClaimInv, FenceInv, HistoryInv, NothingIsOverwritten,
                EpochHasOneSession, TransitionWonOnce
  <2> QED BY <2>1, <2>2, <2>3 DEF IInv
<1>2. ASSUME NEW c \in Commands, CasLoses(c) PROVE IInv'
  <2>1. cmd[c].pc = "finish"
    BY <1>2 DEF CasLoses, Writes
  <2> QED BY <1>2, <2>1, MoveInv DEF CasLoses
<1>3. ASSUME NEW c \in Commands, Ends(c) PROVE IInv'
  <2>1. NoCommand \in Command /\ NoCommand.pc = "idle"
    BY NoCommandType DEF NoCommand
  <2>2. /\ fence[c] \in Nat /\ fence[c] <= ref.epoch
        /\ fence' = [fence EXCEPT ![c] = fence[c]]
    BY <1>3 DEF Ends, IInv, FenceInv, TypeOK
  <2> QED BY <1>3, <2>1, <2>2, CommandStep DEF Ends
<1>4. CASE UNCHANGED vars
  BY <1>4 DEF IInv, vars, TypeOK, CommandInv, ClaimInv, FenceInv, HistoryInv,
              NothingIsOverwritten, EpochHasOneSession, TransitionWonOnce
<1> QED BY Zenon, <1>1, <1>2, <1>3, <1>4, StartInv, ReadInv, AnswerInv, CasWinsInv DEF Next

LEMMA Invariance == Spec => []IInv
<1>1. Init => IInv
  BY InitInv
<1>2. IInv /\ [Next]_vars => IInv'
  BY NextInv
<1> QED BY <1>1, <1>2, PTL DEF Spec

-----------------------------------------------------------------------------
(* The theorems.                                                           *)

\* Every variable keeps its type.
THEOREM Typed == Spec => []TypeOK
<1>1. IInv => TypeOK
  BY DEF IInv
<1> QED BY <1>1, Invariance, PTL

\* All that was written under one epoch was written by one session: the epoch of
\* decide_acquire is a fencing token.
THEOREM EpochFences == Spec => []EpochHasOneSession
<1>1. IInv => EpochHasOneSession
  BY DEF IInv, HistoryInv
<1> QED BY <1>1, Invariance, PTL

\* Two writes never win the same transition: the compare-and-swap of cas_write.
THEOREM WonOnce == Spec => []TransitionWonOnce
<1>1. IInv => TransitionWonOnce
  BY DEF IInv, HistoryInv
<1> QED BY <1>1, Invariance, PTL

\* No write of cas_write is overwritten by one that did not read it.
THEOREM NoWriteLost == Spec => []NothingIsOverwritten
<1>1. IInv => NothingIsOverwritten
  BY DEF IInv, HistoryInv
<1> QED BY <1>1, Invariance, PTL

\* verify_holder refuses an epoch of before the takeover it started after.
THEOREM OldEpochIsRefused == Spec => []FencedOut
<1>1. IInv => FencedOut
  <2> SUFFICES ASSUME IInv, NEW c \in Commands, cmd[c].verb = "verify", cmd[c].pc = "yes"
               PROVE cmd[c].epoch >= fence[c]
    BY DEF FencedOut
  <2> QED BY Types DEF IInv, FenceInv
<1> QED BY <1>1, Invariance, PTL

\* A won write is one step of the lease.
LEMMA CasIsOneStep ==
  ASSUME IInv, NEW c \in Commands, CasWins(c)
  PROVE  Fenced!Next
<1> DEFINE o == cmd[c]
           d == Decided(cmd[c])
<1>1. Writes(c) /\ ref = o.old /\ ref' = d /\ clock' = clock
  BY Zenon DEF CasWins
<1>2. /\ d \in Claim /\ d.state # "none" /\ d.session = o.session /\ o.session \in Sessions
      /\ \/ d.epoch = ref.epoch + 1 /\ IsExpired(ref, o.now) /\ d.state = "active"
         \/ d.epoch = ref.epoch /\ ref.state = "active" /\ ref.session = o.session
  BY <1>1, DecidedFacts
<1>3. /\ o.now \in Nat /\ clock \in Nat /\ o.now <= clock
      /\ ref.renewed \in Nat /\ ref.lease \in Nat
  BY <1>1, Types DEF IInv, CommandInv, Writes
<1>4. LeaseUntil(ref) \in Nat /\ LeaseUntil(d) \in Nat
  BY <1>2, <1>3 DEF LeaseUntil, Claim
<1> HIDE DEF o, d
<1>5. CASE d.epoch = ref.epoch + 1 /\ IsExpired(ref, o.now) /\ d.state = "active"
  <2>1. Fenced!Free
    BY <1>3, <1>4, <1>5 DEF Fenced!Free, IsExpired, Holder
  <2>2. Fenced!Grant(o.session)
    BY <1>1, <1>2, <1>4, <1>5, <2>1 DEF Fenced!Grant, Holder
  <2> QED BY <1>2, <2>2 DEF Fenced!Next
<1>6. CASE d.epoch = ref.epoch /\ ref.state = "active" /\ ref.session = o.session
  <2>1. Holder(ref) = o.session /\ Holder(ref) # Nobody
    BY <1>2, <1>6, ClaimAssumption DEF Holder
  <2>2. CASE d.state = "active"
    <3>1. Fenced!Extend
      BY <1>1, <1>2, <1>4, <1>6, <2>1, <2>2 DEF Fenced!Extend, Holder
    <3> QED BY <3>1 DEF Fenced!Next
  <2>3. CASE d.state # "active"
    <3>1. Fenced!End
      BY <1>1, <1>4, <1>6, <2>1, <2>3 DEF Fenced!End, Holder
    <3> QED BY <3>1 DEF Fenced!Next
  <2> QED BY <2>2, <2>3
<1> QED BY <1>2, <1>5, <1>6

\* The commands of writer_claim.rs implement a fenced lease: every one of them is
\* one atomic step of it, or none.
THEOREM ImplementsFencedLease == Spec => RefinesFencedLease
<1>1. Init => Fenced!Init
  BY DEF Init, NoClaim, Fenced!Init, Holder, LeaseUntil
<1>2. IInv /\ [Next]_vars => [Fenced!Next]_(Fenced!vars)
  <2> SUFFICES ASSUME IInv, [Next]_vars PROVE [Fenced!Next]_(Fenced!vars)
    OBVIOUS
  <2>1. CASE Tick
    <3>1. clock \in Nat
      BY DEF IInv, TypeOK
    <3>2. Fenced!TimePasses
      BY <2>1, <3>1 DEF Tick, Fenced!TimePasses
    <3> QED BY <3>2 DEF Fenced!Next
  <2>2. ASSUME NEW c \in Commands, CasWins(c) PROVE Fenced!Next
    BY <2>2, CasIsOneStep
  <2>3. ASSUME NEW c \in Commands,
               Start(c) \/ Read(c) \/ Answer(c) \/ CasLoses(c) \/ Ends(c)
        PROVE  UNCHANGED Fenced!vars
    <3>1. UNCHANGED <<clock, ref>>
      BY Zenon, <2>3 DEF Start, Read, Answer, CasLoses, Ends
    <3> QED BY <3>1 DEF Fenced!vars
  <2>4. CASE UNCHANGED vars
    BY <2>4 DEF vars, Fenced!vars
  <2> QED BY Zenon, <2>1, <2>2, <2>3, <2>4 DEF Next
<1> QED BY <1>1, <1>2, Invariance, PTL DEF Spec, RefinesFencedLease, Fenced!Spec
=============================================================================
