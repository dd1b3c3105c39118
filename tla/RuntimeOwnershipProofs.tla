----------------------- MODULE RuntimeOwnershipProofs -----------------------
(***************************************************************************)
(* Proofs about RuntimeOwnership for any number of desktops, workers and   *)
(* command threads.  What needs the registry and its mutex only (IInv)     *)
(* holds with any overlap and any clock.  What the lease and sidecar files *)
(* add (SeqInv) holds while the desktops follow one another and no two     *)
(* starts reconcile one lease at once.                                     *)
(***************************************************************************)
EXTENDS RuntimeOwnership, TLAPS

\* A command runs in a desktop that is up.
CallsInv ==
  \A c \in Calls : call[c].pc # "idle" => /\ call[c].desktop \in Desktops
                                          /\ desktop[call[c].desktop] = "up"

\* The registry mutex of d is held by exactly the call that is in a locked section.
MutexInv ==
  \A c \in Calls, d \in Desktops :
    mutex[d] = c <=> call[c].pc \in LockedPcs /\ call[c].desktop = d

\* A worker that was ever born has a parent that was launched.
BornInv ==
  \A w \in Workers :
    worker[w].state # "unborn" => /\ worker[w].parent \in Desktops
                                  /\ desktop[worker[w].parent] # "off"

\* A registry entry is a worker of that desktop and role.
RegistryInv ==
  \A d \in Desktops, r \in Roles :
    registry[d][r] # None => /\ worker[registry[d][r]].state # "unborn"
                             /\ worker[registry[d][r]].parent = d
                             /\ worker[registry[d][r]].role = r

Spawned(c) == call[c].pc \in {"publish", "await"}

\* A start that has spawned holds the child it spawned.
ChildInv ==
  \A c \in Calls :
    Spawned(c) => /\ call[c].child \in Workers
                  /\ worker[call[c].child].state # "unborn"
                  /\ worker[call[c].child].parent = call[c].desktop
                  /\ worker[call[c].child].role = call[c].role
                  /\ worker[call[c].child].mode = call[c].mode

\* No live worker of a live desktop is forgotten: it is registered or it is the
\* child of a start in progress.
AccountedInv ==
  \A w \in Workers :
    Live(w) /\ desktop[worker[w].parent] = "up" =>
      \/ registry[worker[w].parent][worker[w].role] = w
      \/ \E c \in Calls : /\ Spawned(c) /\ call[c].child = w
                          /\ call[c].desktop = worker[w].parent

\* What a start checks under the mutex: its role is free in the registry, and so
\* is the node core if it needs that.
Checked(c) ==
  /\ registry[call[c].desktop][call[c].role] = None
  /\ ~BlockedByOther(call[c].desktop, call[c].role, call[c].mode)

\* It still holds until the start returns.
CheckedInv ==
  \A c \in Calls : call[c].pc \in LockedPcs \ {"stop"} => Checked(c)

IInv ==
  /\ TypeOK /\ CallsInv /\ MutexInv /\ BornInv /\ RegistryInv /\ ChildInv
  /\ AccountedInv /\ CheckedInv /\ OneOwnerPerDesktop
-----------------------------------------------------------------------------
(* What the small updates do to the functions they update.                 *)

LEMMA GotoFacts ==
  ASSUME call \in [Calls -> CallType], NEW c \in Calls,
         NEW pc \in {"idle"} \union StartPcs \union StopPcs, Goto(c, pc)
  PROVE  /\ call' \in [Calls -> CallType]
         /\ call'[c].pc = pc
         /\ call'[c].desktop = call[c].desktop /\ call'[c].role = call[c].role
         /\ call'[c].mode = call[c].mode /\ call'[c].child = call[c].child
         /\ \A x \in Calls : x # c => call'[x] = call[x]
  BY DEF Goto, CallType

LEMMA ReturnFacts ==
  ASSUME call \in [Calls -> CallType], NEW c \in Calls, Return(c)
  PROVE  /\ call' \in [Calls -> CallType]
         /\ call'[c].pc = "idle"
         /\ \A x \in Calls : x # c => call'[x] = call[x]
  BY DEF Return, CallType, IdleCall, Roles, Modes

LEMMA ReconciledFacts ==
  ASSUME call \in [Calls -> CallType], NEW c \in Calls, Reconciled(c)
  PROVE  /\ call' \in [Calls -> CallType]
         /\ call'[c].pc \in {"inspect", "lock"}
         /\ call'[c].desktop = call[c].desktop
         /\ \A x \in Calls : x # c => call'[x] = call[x]
<1>1. CASE AlsoReconciles(c)
  <2>1. call' = [call EXCEPT ![c] = [@ EXCEPT !.pc = "inspect", !.target = Other(call[c].role)]]
    BY <1>1 DEF Reconciled
  <2>2. Other(call[c].role) \in Roles
    BY DEF Other, Roles
  <2>3. [call[c] EXCEPT !.pc = "inspect", !.target = Other(call[c].role)] \in CallType
    BY <2>2 DEF CallType, StartPcs
  <2>4. [call[c] EXCEPT !.pc = "inspect", !.target = Other(call[c].role)].pc = "inspect"
    BY DEF CallType
  <2>5. [call[c] EXCEPT !.pc = "inspect", !.target = Other(call[c].role)].desktop
          = call[c].desktop
    BY DEF CallType
  <2> HIDE DEF CallType
  <2> QED
    BY <2>1, <2>3, <2>4, <2>5
<1>2. CASE ~AlsoReconciles(c)
  <2>1. call' = [call EXCEPT ![c].pc = "lock"]
    BY <1>2 DEF Reconciled
  <2> QED
    BY <2>1 DEF CallType, StartPcs
<1> QED
  BY <1>1, <1>2

LEMMA WorkerMoves ==
  ASSUME worker \in [Workers -> WorkerType], NEW w \in Workers,
         NEW s \in {"dead"} \union LiveStates, worker' = [worker EXCEPT ![w].state = s]
  PROVE  /\ worker' \in [Workers -> WorkerType]
         /\ worker'[w].state = s
         /\ worker'[w].parent = worker[w].parent
         /\ worker'[w].role = worker[w].role
         /\ worker'[w].mode = worker[w].mode
         /\ \A v \in Workers : v # w => worker'[v] = worker[v]
  BY DEF WorkerType

LEMMA KillFacts ==
  ASSUME worker \in [Workers -> WorkerType], NEW w, Kill(w)
  PROVE  /\ worker' \in [Workers -> WorkerType]
         /\ w \in Workers => worker'[w].state = "dead"
         /\ \A v \in Workers : /\ worker'[v].parent = worker[v].parent
                               /\ worker'[v].role = worker[v].role
                               /\ worker'[v].mode = worker[v].mode
                               /\ worker'[v].state \in {worker[v].state, "dead"}
                               /\ v # w => worker'[v] = worker[v]
  BY DEF Kill, WorkerType

LEMMA FilesType ==
  ASSUME lease \in [Roles -> LeaseType],
         sidecar \in [Desktops -> [Roles -> Workers \union {None}]],
         NEW d, NEW R, RemoveFiles(d, R)
  PROVE  /\ lease' \in [Roles -> LeaseType]
         /\ sidecar' \in [Desktops -> [Roles -> Workers \union {None}]]
  BY DEF RemoveFiles, LeaseType, NoLease, Modes

LEMMA RemoveLeaseType ==
  ASSUME lease \in [Roles -> LeaseType], NEW r, RemoveLease(r)
  PROVE  lease' \in [Roles -> LeaseType]
  BY DEF RemoveLease, LeaseType, NoLease, Modes

\* The fields of a call that is under way.
LEMMA CallFields ==
  ASSUME IInv, NEW c \in Calls, call[c].pc # "idle"
  PROVE  /\ call[c].desktop \in Desktops /\ desktop[call[c].desktop] = "up"
         /\ call[c].role \in Roles /\ call[c].mode \in Modes
         /\ call[c].target \in Roles
         /\ call[c].seen \in Desktops \union {None}
         /\ call[c].child \in Workers \union {None}
  BY DEF IInv, TypeOK, CallsInv, CallType

\* What a start checked stays so while no entry is made in its registry and no
\* worker that was born comes to life again.
LEMMA StaysChecked ==
  ASSUME IInv, NEW x \in Calls, call[x].pc \in LockedPcs \ {"stop"},
         call'[x].desktop = call[x].desktop, call'[x].role = call[x].role,
         call'[x].mode = call[x].mode,
         \A q \in Roles : registry'[call[x].desktop][q] \in {registry[call[x].desktop][q], None},
         \A v \in Workers : worker[v].state # "unborn" =>
           /\ worker'[v].role = worker[v].role /\ worker'[v].mode = worker[v].mode
           /\ worker'[v].state \in LiveStates => Live(v)
  PROVE  Checked(x)'
<1> DEFINE d == call[x].desktop
           r == call[x].role
           m == call[x].mode
           e == registry[d][Other(r)]
           f == registry'[d][Other(r)]
<1>1. /\ d \in Desktops /\ r \in Roles /\ Other(r) \in Roles
  BY CallFields DEF LockedPcs, Other, Roles
<1>2. registry[d][r] = None /\ ~BlockedByOther(d, r, m)
  BY DEF IInv, CheckedInv, Checked
<1>3. registry'[d][r] = None /\ f \in {e, None}
  BY <1>1, <1>2
<1>4. f # None => /\ f \in Workers /\ f = e
                  /\ worker[f].state # "unborn"
  BY <1>1, <1>3 DEF IInv, TypeOK, RegistryInv
<1>5. f # None => /\ worker'[f].role = worker[f].role /\ worker'[f].mode = worker[f].mode
                  /\ worker'[f].state \in LiveStates => Live(f)
  BY <1>4
<1>6. ~(OwnsNodeCore(r, m) /\ f # None /\ worker'[f].state \in LiveStates
          /\ OwnsNodeCore(worker'[f].role, worker'[f].mode))
  <2>1. SUFFICES ASSUME OwnsNodeCore(r, m), f # None, worker'[f].state \in LiveStates,
                        OwnsNodeCore(worker'[f].role, worker'[f].mode)
                 PROVE  FALSE
    OBVIOUS
  <2>2. Live(f) /\ CoreWorker(f) /\ f = e
    BY <2>1, <1>4, <1>5 DEF CoreWorker
  <2> QED
    BY <1>2, <2>1, <2>2 DEF BlockedByOther, LiveEntry
<1>7. ~BlockedByOther(d, r, m)'
  BY <1>6 DEF BlockedByOther, LiveEntry, Live, CoreWorker
<1> QED
  BY <1>3, <1>7 DEF Checked, BlockedByOther, LiveEntry, Live, CoreWorker

-----------------------------------------------------------------------------
(* Steps that preserve IInv by their shape.                                *)

\* Only files change.
LEMMA FilesStep ==
  ASSUME IInv, TypeOK', UNCHANGED <<desktop, registry, mutex, call, worker>>
  PROVE  IInv'
<1>1. CallsInv' /\ MutexInv' /\ BornInv' /\ RegistryInv'
  BY DEF IInv, CallsInv, MutexInv, BornInv, RegistryInv
<1>2. ChildInv'
  BY DEF IInv, ChildInv, Spawned
<1>3. CheckedInv'
  BY DEF IInv, CheckedInv, Checked, BlockedByOther, LiveEntry, Live, CoreWorker
<1>4. AccountedInv' /\ OneOwnerPerDesktop'
  BY DEF IInv, AccountedInv, OneOwnerPerDesktop, Spawned, Live, Collide, CoreWorker
<1> QED
  BY <1>1, <1>2, <1>3, <1>4 DEF IInv

\* One call moves outside the locked sections.
LEMMA QuietStep ==
  ASSUME IInv, TypeOK', UNCHANGED <<desktop, registry, mutex, worker>>,
         NEW c \in Calls,
         \A x \in Calls : x # c => call'[x] = call[x],
         call[c].pc \notin LockedPcs, call'[c].pc \notin LockedPcs,
         call'[c].pc = "idle" \/ /\ call'[c].desktop \in Desktops
                                 /\ desktop[call'[c].desktop] = "up"
  PROVE  IInv'
<1>1. CallsInv' /\ MutexInv'
  BY DEF IInv, CallsInv, MutexInv
<1>2. BornInv' /\ RegistryInv'
  BY DEF IInv, BornInv, RegistryInv
<1>3. ChildInv'
  BY DEF IInv, ChildInv, Spawned, LockedPcs
<1>4. CheckedInv'
  BY DEF IInv, CheckedInv, Checked, LockedPcs, BlockedByOther, LiveEntry, Live, CoreWorker
<1>5. AccountedInv'
  BY DEF IInv, AccountedInv, Spawned, LockedPcs, Live
<1>6. OneOwnerPerDesktop'
  BY DEF IInv, OneOwnerPerDesktop, Live, Collide, CoreWorker
<1> QED
  BY <1>1, <1>2, <1>3, <1>4, <1>5, <1>6 DEF IInv

\* Workers die or advance; none is born.
LEMMA WorkerFrame ==
  ASSUME IInv, TypeOK', UNCHANGED <<desktop, registry, mutex, call>>,
         \A w \in Workers : /\ worker'[w].parent = worker[w].parent
                            /\ worker'[w].role = worker[w].role
                            /\ worker'[w].mode = worker[w].mode
                            /\ worker'[w].state = "unborn" <=> worker[w].state = "unborn"
                            /\ worker'[w].state \in LiveStates => Live(w)
  PROVE  IInv'
<1>1. CallsInv' /\ MutexInv' /\ BornInv' /\ ChildInv'
  BY DEF IInv, CallsInv, MutexInv, BornInv, ChildInv, Spawned
<1>2. RegistryInv'
  <2>1. \A d \in Desktops, r \in Roles : registry[d][r] # None => registry[d][r] \in Workers
    BY DEF IInv, TypeOK
  <2> QED
    BY <2>1 DEF IInv, RegistryInv
<1>3. AccountedInv' /\ OneOwnerPerDesktop'
  BY DEF IInv, AccountedInv, OneOwnerPerDesktop, Spawned, Live, Collide, CoreWorker
<1>4. CheckedInv'
  BY StaysChecked DEF CheckedInv
<1> QED
  BY <1>1, <1>2, <1>3, <1>4 DEF IInv

\* A start moves inside its locked section without a spawn.
LEMMA AdvanceStep ==
  ASSUME IInv, TypeOK', UNCHANGED <<desktop, registry, mutex, worker>>,
         NEW c \in Calls,
         \A x \in Calls : x # c => call'[x] = call[x],
         call[c].pc \in LockedPcs \ {"stop"}, call'[c].pc \in LockedPcs \ {"stop"},
         call'[c].pc \in {"publish", "await"} <=> Spawned(c),
         call'[c].desktop = call[c].desktop, call'[c].role = call[c].role,
         call'[c].mode = call[c].mode, call'[c].child = call[c].child
  PROVE  IInv'
<1>1. CallsInv' /\ MutexInv'
  BY DEF IInv, CallsInv, MutexInv, LockedPcs
<1>2. BornInv' /\ RegistryInv'
  BY DEF IInv, BornInv, RegistryInv
<1>3. ChildInv'
  BY DEF IInv, ChildInv, Spawned
<1>4. CheckedInv'
  BY DEF IInv, CheckedInv, Checked, BlockedByOther, LiveEntry, Live, CoreWorker
<1>5. AccountedInv'
  BY DEF IInv, AccountedInv, Spawned, Live
<1>6. OneOwnerPerDesktop'
  BY DEF IInv, OneOwnerPerDesktop, Live, Collide, CoreWorker
<1> QED
  BY <1>1, <1>2, <1>3, <1>4, <1>5, <1>6 DEF IInv

\* A locked call returns and unlocks; a child it had spawned is dead.
LEMMA UnlockStep ==
  ASSUME IInv, TypeOK', UNCHANGED <<desktop, registry>>,
         NEW c \in Calls, call[c].pc \in LockedPcs,
         Return(c), Unlock(call[c].desktop),
         \A w \in Workers : /\ worker'[w].parent = worker[w].parent
                            /\ worker'[w].role = worker[w].role
                            /\ worker'[w].mode = worker[w].mode
                            /\ worker'[w].state \in {worker[w].state, "dead"}
                            /\ worker'[w].state = "dead" => worker[w].state # "unborn",
         Spawned(c) => worker'[call[c].child].state = "dead"
  PROVE  IInv'
<1>a. /\ call'[c].pc = "idle" /\ "idle" \notin LockedPcs
      /\ \A x \in Calls : x # c => call'[x] = call[x]
  BY ReturnFacts DEF IInv, TypeOK, LockedPcs
<1>b. call[c].desktop \in Desktops /\ mutex[call[c].desktop] = c
  BY CallFields DEF IInv, MutexInv, LockedPcs
<1>c. \A d \in Desktops : mutex'[d] = IF d = call[c].desktop THEN None ELSE mutex[d]
  BY DEF IInv, TypeOK, Unlock
<1>d. \A w \in Workers : (Live(w))' => Live(w)
  BY DEF Live, LiveStates
<1>1. CallsInv' /\ BornInv'
  BY <1>a DEF IInv, CallsInv, BornInv
<1>2. MutexInv'
  BY <1>a, <1>b, <1>c, NoneAssumption DEF IInv, MutexInv
<1>3. RegistryInv' /\ ChildInv'
  <2>1. \A d \in Desktops, r \in Roles : registry[d][r] # None => registry[d][r] \in Workers
    BY DEF IInv, TypeOK
  <2>2. \A w \in Workers : worker[w].state # "unborn" => worker'[w].state # "unborn"
    OBVIOUS
  <2>3. RegistryInv'
    BY <2>1, <2>2 DEF IInv, RegistryInv
  <2>4. ChildInv'
    BY <1>a, <2>2 DEF IInv, ChildInv, Spawned
  <2> QED
    BY <2>3, <2>4
<1>4. AccountedInv' /\ OneOwnerPerDesktop'
  BY <1>a, <1>d DEF IInv, AccountedInv, OneOwnerPerDesktop, Spawned, Live, LiveStates,
                    Collide, CoreWorker
<1>5. CheckedInv'
  <2>1. ASSUME NEW x \in Calls, call'[x].pc \in LockedPcs \ {"stop"}
        PROVE  call'[x] = call[x]
    BY <2>1, <1>a
  <2> QED
    BY <2>1, <1>d, StaysChecked DEF CheckedInv, Live
<1> QED
  BY <1>1, <1>2, <1>3, <1>4, <1>5 DEF IInv

-----------------------------------------------------------------------------
(* The desktop's steps.                                                    *)

LEMMA LaunchPreserves ==
  ASSUME IInv, NEW d \in Desktops, Launch(d) PROVE IInv'
<1>1. TypeOK'
  BY DEF IInv, TypeOK, Launch
<1>2. \A e \in Desktops : /\ desktop[e] = "up" => desktop'[e] = "up"
                          /\ desktop[e] # "off" => desktop'[e] = desktop[e]
                          /\ desktop[e] # "off" => desktop'[e] # "off"
  BY DEF IInv, TypeOK, Launch
<1>3. UNCHANGED <<registry, mutex, call, worker>>
  BY DEF Launch
<1>4. CallsInv' /\ MutexInv' /\ BornInv' /\ RegistryInv' /\ ChildInv'
  BY <1>2, <1>3 DEF IInv, CallsInv, MutexInv, BornInv, RegistryInv, ChildInv, Spawned
<1>5. AccountedInv'
  BY <1>2, <1>3 DEF IInv, BornInv, AccountedInv, Spawned, Live, LiveStates
<1>6. CheckedInv' /\ OneOwnerPerDesktop'
  BY <1>3 DEF IInv, CheckedInv, Checked, OneOwnerPerDesktop, BlockedByOther, LiveEntry, Live,
              CoreWorker, Collide
<1> QED
  BY <1>1, <1>4, <1>5, <1>6 DEF IInv

LEMMA DesktopEndsPreserves ==
  ASSUME IInv, NEW d \in Desktops, DesktopEnds(d) PROVE IInv'
<1>a. /\ call' \in [Calls -> CallType]
      /\ \A c \in Calls : /\ call[c].desktop = d => call'[c].pc = "idle"
                          /\ call[c].desktop # d => call'[c] = call[c]
  BY DEF IInv, TypeOK, DesktopEnds, IdleCall, CallType, Roles, Modes
<1>b. /\ registry' \in [Desktops -> [Roles -> Workers \union {None}]]
      /\ \A e \in Desktops, r \in Roles :
           registry'[e][r] = IF e = d THEN None ELSE registry[e][r]
  BY DEF IInv, TypeOK, DesktopEnds
<1>c. /\ \A e \in Desktops : /\ mutex'[e] = IF e = d THEN None ELSE mutex[e]
                             /\ desktop'[e] = IF e = d THEN "gone" ELSE desktop[e]
      /\ UNCHANGED worker
  BY DEF IInv, TypeOK, DesktopEnds
<1>1. TypeOK'
  BY <1>a, <1>b DEF IInv, TypeOK, DesktopEnds
<1>2a. CallsInv'
  BY <1>a, <1>c DEF IInv, CallsInv
<1>2b. BornInv'
  BY <1>c DEF IInv, BornInv
<1>2c. RegistryInv'
  BY <1>b, <1>c DEF IInv, RegistryInv
<1>3. MutexInv'
  <2>1. ASSUME NEW c \in Calls, NEW e \in Desktops
        PROVE  mutex'[e] = c <=> call'[c].pc \in LockedPcs /\ call'[c].desktop = e
    <3>1. CASE call[c].desktop = d
      <4>1. call'[c].pc \notin LockedPcs
        BY <3>1, <1>a DEF LockedPcs
      <4>2. mutex'[e] # c
        BY <3>1, <1>c, NoneAssumption DEF IInv, MutexInv
      <4> QED
        BY <4>1, <4>2
    <3>2. CASE call[c].desktop # d
      BY <3>2, <1>a, <1>c, NoneAssumption DEF IInv, MutexInv
    <3> QED
      BY <3>1, <3>2
  <2> QED
    BY <2>1 DEF MutexInv
<1>4a. ChildInv'
  BY <1>a, <1>c DEF IInv, ChildInv, Spawned
<1>4b. AccountedInv'
  <2>1. ASSUME NEW w \in Workers, Live(w), desktop'[worker[w].parent] = "up"
        PROVE  \/ registry'[worker[w].parent][worker[w].role] = w
               \/ \E c \in Calls : /\ call'[c].pc \in {"publish", "await"}
                                   /\ call'[c].child = w
                                   /\ call'[c].desktop = worker[w].parent
    <3>1. worker[w].parent \in Desktops /\ worker[w].role \in Roles
      BY <2>1 DEF IInv, BornInv, TypeOK, WorkerType, Live, LiveStates
    <3>2. worker[w].parent # d /\ desktop[worker[w].parent] = "up"
      BY <2>1, <3>1, <1>c
    <3> QED
      BY <2>1, <3>1, <3>2, <1>a, <1>b DEF IInv, AccountedInv, Spawned
  <2> QED
    BY <2>1, <1>c DEF AccountedInv, Spawned, Live
<1>6. CheckedInv'
  <2>1. ASSUME NEW c \in Calls, call'[c].pc \in LockedPcs \ {"stop"}
        PROVE  Checked(c)'
    <3>1. call[c].desktop # d /\ call'[c] = call[c]
      BY <2>1, <1>a DEF LockedPcs
    <3>2. call[c].desktop \in Desktops
      BY <2>1, <3>1, CallFields DEF LockedPcs
    <3>3. \A q \in Roles : registry'[call[c].desktop][q] = registry[call[c].desktop][q]
      BY <3>1, <3>2, <1>b
    <3> QED
      BY <2>1, <3>1, <3>3, <1>c, StaysChecked DEF Live
  <2> QED
    BY <2>1 DEF CheckedInv
<1>7. OneOwnerPerDesktop'
  BY <1>c DEF IInv, OneOwnerPerDesktop, Live, CoreWorker, Collide
<1> QED
  BY <1>1, <1>2a, <1>2b, <1>2c, <1>3, <1>4a, <1>4b, <1>6, <1>7 DEF IInv

LEMMA StatusPollPreserves ==
  ASSUME IInv, NEW d \in Desktops, NEW R \in SUBSET Roles, StatusPoll(d, R) PROVE IInv'
<1>1. TypeOK'
  BY FilesType DEF IInv, TypeOK, StatusPoll
<1> QED
  BY <1>1, FilesStep DEF StatusPoll

LEMMA LeaseAgesPreserves ==
  ASSUME IInv, NEW r \in Roles, LeaseAges(r) PROVE IInv'
<1>1. lease' \in [Roles -> LeaseType]
  <2>1. lease \in [Roles -> LeaseType] /\ lease' = [lease EXCEPT ![r].aged = TRUE]
    BY DEF IInv, TypeOK, LeaseAges
  <2>2. [lease[r] EXCEPT !.aged = TRUE] \in LeaseType
    BY <2>1 DEF LeaseType
  <2> QED
    BY <2>1, <2>2
<1>2. TypeOK'
  BY <1>1 DEF IInv, TypeOK, LeaseAges
<1> QED
  BY <1>2, FilesStep DEF LeaseAges

-----------------------------------------------------------------------------
(* The worker's steps.                                                     *)

LEMMA WorkerPreserves ==
  ASSUME IInv, NEW w \in Workers, WorkerStep(w) PROVE IInv'
<1>1. /\ Live(w) /\ UNCHANGED <<desktop, registry, mutex, call, lease, sidecar>>
      /\ \E s \in {"dead"} \union LiveStates : worker' = [worker EXCEPT ![w].state = s]
  <2>1. CASE WorkerChecksParent(w)
    <3>1. PICK s \in {"starting", "dead"} : worker' = [worker EXCEPT ![w].state = s]
      BY <2>1 DEF WorkerChecksParent
    <3> QED
      BY <2>1, <3>1 DEF WorkerChecksParent, Live, LiveStates
  <2>2. CASE WorkerReady(w)
    BY <2>2 DEF WorkerReady, Live, LiveStates
  <2>3. CASE WorkerTakesStop(w)
    BY <2>3 DEF WorkerTakesStop, Live, LiveStates
  <2>4. CASE WorkerExits(w) \/ WorkerLosesParent(w)
    BY <2>4 DEF WorkerExits, WorkerLosesParent, Kill, Live, LiveStates
  <2> QED
    BY <2>1, <2>2, <2>3, <2>4 DEF WorkerStep
<1>2. /\ worker' \in [Workers -> WorkerType]
      /\ \A v \in Workers : /\ worker'[v].parent = worker[v].parent
                            /\ worker'[v].role = worker[v].role
                            /\ worker'[v].mode = worker[v].mode
                            /\ worker'[v].state = "unborn" <=> worker[v].state = "unborn"
                            /\ worker'[v].state \in LiveStates => Live(v)
  <2>1. PICK s \in {"dead"} \union LiveStates : worker' = [worker EXCEPT ![w].state = s]
    BY <1>1
  <2>2. /\ worker' \in [Workers -> WorkerType]
        /\ worker'[w].state = s
        /\ worker'[w].parent = worker[w].parent
        /\ worker'[w].role = worker[w].role
        /\ worker'[w].mode = worker[w].mode
        /\ \A v \in Workers : v # w => worker'[v] = worker[v]
    BY <2>1, WorkerMoves DEF IInv, TypeOK
  <2>3. s # "unborn" /\ worker[w].state # "unborn"
    BY <1>1 DEF Live, LiveStates
  <2> QED
    BY <1>1, <2>2, <2>3 DEF Live
<1>3. TypeOK'
  BY <1>1, <1>2 DEF IInv, TypeOK
<1> QED
  BY <1>1, <1>2, <1>3, WorkerFrame

-----------------------------------------------------------------------------
(* The commands outside the mutex.                                         *)

LEMMA StartBeginPreserves ==
  ASSUME IInv, NEW c \in Calls, NEW d \in Desktops, NEW r \in Roles, NEW m \in Modes,
         StartBegin(c, d, r, m)
  PROVE  IInv'
<1>1. /\ call' \in [Calls -> CallType]
      /\ call'[c].pc = "inspect" /\ call'[c].desktop = d
      /\ \A x \in Calls : x # c => call'[x] = call[x]
  BY DEF IInv, TypeOK, StartBegin, CallType, IdleCall, StartPcs
<1>2. TypeOK'
  BY <1>1 DEF IInv, TypeOK, StartBegin
<1> QED
  BY <1>1, <1>2, QuietStep DEF StartBegin, LockedPcs

LEMMA StopBeginPreserves ==
  ASSUME IInv, NEW c \in Calls, NEW d \in Desktops, NEW R \in SUBSET Roles,
         StopBegin(c, d, R)
  PROVE  IInv'
<1>1. /\ call' \in [Calls -> CallType]
      /\ call'[c].pc = "stoplock" /\ call'[c].desktop = d
      /\ \A x \in Calls : x # c => call'[x] = call[x]
  BY DEF IInv, TypeOK, StopBegin, CallType, IdleCall, StopPcs, Roles, Modes
<1>2. TypeOK'
  BY <1>1 DEF IInv, TypeOK, StopBegin
<1> QED
  BY <1>1, <1>2, QuietStep DEF StopBegin, LockedPcs

LEMMA InspectLeasePreserves ==
  ASSUME IInv, NEW c \in Calls, InspectLease(c) PROVE IInv'
<1>1. /\ call[c].pc = "inspect"
      /\ UNCHANGED <<desktop, registry, mutex, worker, lease, sidecar>>
  BY DEF InspectLease
<1>2. lease[call[c].target].parent \in Desktops \union {None}
  BY <1>1, CallFields DEF IInv, TypeOK, LeaseType
<1>3. /\ call' \in [Calls -> CallType]
      /\ \A x \in Calls : x # c => call'[x] = call[x]
      /\ \/ call'[c].pc = "idle"
         \/ /\ call'[c].pc \in {"inspect", "lock", "observe"}
            /\ call'[c].desktop = call[c].desktop
  <2>1. CASE Return(c) \/ Reconciled(c)
    BY <2>1, ReturnFacts, ReconciledFacts DEF IInv, TypeOK
  <2>2. CASE call' = [call EXCEPT ![c] = [@ EXCEPT !.pc = "observe",
                                           !.seen = lease[call[c].target].parent]]
    <3>1. ASSUME NEW k \in CallType, NEW s \in Desktops \union {None}
          PROVE  /\ [k EXCEPT !.pc = "observe", !.seen = s] \in CallType
                 /\ [k EXCEPT !.pc = "observe", !.seen = s].pc = "observe"
                 /\ [k EXCEPT !.pc = "observe", !.seen = s].desktop = k.desktop
      BY DEF CallType, StartPcs
    <3>2. call[c] \in CallType /\ call \in [Calls -> CallType]
      BY DEF IInv, TypeOK
    <3> QED
      BY <2>2, <1>2, <3>1, <3>2
  <2> QED
    BY <2>1, <2>2 DEF InspectLease
<1>4. TypeOK'
  BY <1>1, <1>3 DEF IInv, TypeOK
<1> QED
  BY <1>1, <1>3, <1>4, CallFields, QuietStep DEF LockedPcs

LEMMA ObserveStaleLeasePreserves ==
  ASSUME IInv, NEW c \in Calls, ObserveStaleLease(c) PROVE IInv'
<1>1. /\ call[c].pc = "observe"
      /\ UNCHANGED <<desktop, registry, mutex, worker, lease, sidecar>>
  BY DEF ObserveStaleLease
<1>2. /\ call' \in [Calls -> CallType]
      /\ \A x \in Calls : x # c => call'[x] = call[x]
      /\ \/ call'[c].pc = "idle"
         \/ /\ call'[c].pc \in {"inspect", "lock", "unlink"}
            /\ call'[c].desktop = call[c].desktop
  <2>1. Return(c) \/ Reconciled(c) \/ Goto(c, "unlink")
    BY DEF ObserveStaleLease
  <2> QED
    BY <2>1, ReturnFacts, ReconciledFacts, GotoFacts DEF IInv, TypeOK, StartPcs
<1>3. TypeOK'
  BY <1>1, <1>2 DEF IInv, TypeOK
<1> QED
  BY <1>1, <1>2, <1>3, CallFields, QuietStep DEF LockedPcs

LEMMA UnlinkStaleLeasePreserves ==
  ASSUME IInv, NEW c \in Calls, UnlinkStaleLease(c) PROVE IInv'
<1>1. call[c].pc = "unlink" /\ UNCHANGED <<desktop, registry, mutex, worker>>
  BY DEF UnlinkStaleLease
<1>2. /\ call' \in [Calls -> CallType]
      /\ \A x \in Calls : x # c => call'[x] = call[x]
      /\ call'[c].pc \in {"inspect", "lock"} /\ call'[c].desktop = call[c].desktop
  BY ReconciledFacts DEF IInv, TypeOK, UnlinkStaleLease
<1>3. sidecar' \in [Desktops -> [Roles -> Workers \union {None}]]
  BY <1>1, CallFields DEF IInv, TypeOK, UnlinkStaleLease
<1>4. TypeOK'
  BY <1>1, <1>2, <1>3, RemoveLeaseType DEF IInv, TypeOK, UnlinkStaleLease
<1> QED
  BY <1>1, <1>2, <1>4, CallFields, QuietStep DEF LockedPcs

-----------------------------------------------------------------------------
(* The commands under the mutex.                                           *)

\* Dead entries leave the registry of the call's desktop.
LEMMA FinalizeStep ==
  ASSUME IInv, UNCHANGED <<desktop, worker>>, NEW c \in Calls, call[c].pc # "idle",
         NEW R, FinalizeEntries(call[c].desktop, R),
         \A r \in R \cap Roles : ~Live(registry[call[c].desktop][r]),
         \A x \in Calls : x # c => call'[x] = call[x],
         ~Spawned(c), call'[c].pc \notin {"publish", "await"},
         call'[c].pc = "idle" \/ call'[c].desktop = call[c].desktop
  PROVE  /\ registry' \in [Desktops -> [Roles -> Workers \union {None}]]
         /\ \A e \in Desktops, r \in Roles :
              registry'[e][r] = IF e = call[c].desktop /\ r \in R
                                THEN None ELSE registry[e][r]
         /\ CallsInv' /\ BornInv' /\ RegistryInv' /\ ChildInv' /\ AccountedInv'
         /\ OneOwnerPerDesktop'
<1>a. call[c].desktop \in Desktops /\ desktop[call[c].desktop] = "up"
  BY CallFields
<1>1. /\ registry' \in [Desktops -> [Roles -> Workers \union {None}]]
      /\ \A e \in Desktops, r \in Roles :
           registry'[e][r] = IF e = call[c].desktop /\ r \in R
                             THEN None ELSE registry[e][r]
  BY <1>a DEF IInv, TypeOK, FinalizeEntries
<1>2. CallsInv' /\ BornInv'
  BY <1>a DEF IInv, CallsInv, BornInv
<1>3. RegistryInv'
  BY <1>1 DEF IInv, RegistryInv
<1>4. ChildInv'
  BY DEF IInv, ChildInv, Spawned
<1>5. AccountedInv'
  <2>1. ASSUME NEW w \in Workers, Live(w), desktop[worker[w].parent] = "up"
        PROVE  \/ registry'[worker[w].parent][worker[w].role] = w
               \/ \E x \in Calls : /\ call'[x].pc \in {"publish", "await"}
                                   /\ call'[x].child = w
                                   /\ call'[x].desktop = worker[w].parent
    <3>1. worker[w].parent \in Desktops /\ worker[w].role \in Roles
      BY <2>1 DEF IInv, BornInv, TypeOK, WorkerType, Live, LiveStates
    <3>2. CASE registry[worker[w].parent][worker[w].role] = w
      BY <2>1, <3>1, <3>2, <1>1
    <3>3. CASE \E x \in Calls : /\ Spawned(x) /\ call[x].child = w
                               /\ call[x].desktop = worker[w].parent
      BY <3>3 DEF Spawned
    <3> QED
      BY <2>1, <3>2, <3>3 DEF IInv, AccountedInv
  <2> QED
    BY <2>1 DEF AccountedInv, Spawned, Live
<1>6. OneOwnerPerDesktop'
  BY DEF IInv, OneOwnerPerDesktop, Live, CoreWorker, Collide
<1> QED
  BY <1>1, <1>2, <1>3, <1>4, <1>5, <1>6

LEMMA EnterRegistryPreserves ==
  ASSUME IInv, NEW c \in Calls, EnterRegistry(c) PROVE IInv'
<1> DEFINE d == call[c].desktop
           r == call[c].role
           m == call[c].mode
           R == StaleEntries(d, r, m)
<1>1. /\ call[c].pc = "lock" /\ mutex[d] = None /\ UNCHANGED <<desktop, worker>>
      /\ d \in Desktops /\ desktop[d] = "up" /\ r \in Roles /\ m \in Modes
      /\ Other(r) \in Roles
  BY CallFields DEF EnterRegistry, Other, Roles
<1>2. call' \in [Calls -> CallType] /\ \A x \in Calls : x # c => call'[x] = call[x]
  BY ReturnFacts, GotoFacts DEF IInv, TypeOK, EnterRegistry, StartPcs
<1>3. CASE Return(c) /\ UNCHANGED <<registry, mutex, lease, sidecar>>
  <2>1. call'[c].pc = "idle"
    BY <1>3, ReturnFacts DEF IInv, TypeOK
  <2>2. TypeOK'
    BY <1>1, <1>2, <1>3 DEF IInv, TypeOK
  <2> QED
    BY <1>1, <1>2, <1>3, <2>1, <2>2, QuietStep DEF LockedPcs
<1>4. CASE /\ ~BlockedByOther(d, r, m)
           /\ FinalizeEntries(d, R)
           /\ \/ Return(c) /\ UNCHANGED mutex
              \/ ~LiveEntry(d, r) /\ mutex' = [mutex EXCEPT ![d] = c] /\ Goto(c, "reserve")
  <2>1. /\ call'[c].pc \in {"idle", "reserve"}
        /\ \/ call'[c].pc = "idle"
           \/ call'[c].desktop = d /\ call'[c].role = r /\ call'[c].mode = m
    <3>1. CASE Return(c)
      BY <3>1, ReturnFacts DEF IInv, TypeOK
    <3>2. CASE Goto(c, "reserve")
      BY <3>2, GotoFacts DEF IInv, TypeOK, StartPcs
    <3> QED
      BY <1>4, <3>1, <3>2
  <2>2. \A x \in R \cap Roles : ~Live(registry[d][x])
    BY DEF StaleEntries, DeadEntry
  <2>3. ~Spawned(c)
    BY <1>1 DEF Spawned
  <2>4. /\ registry' \in [Desktops -> [Roles -> Workers \union {None}]]
        /\ \A e \in Desktops, x \in Roles :
             registry'[e][x] = IF e = d /\ x \in R THEN None ELSE registry[e][x]
        /\ CallsInv' /\ BornInv' /\ RegistryInv' /\ ChildInv' /\ AccountedInv'
        /\ OneOwnerPerDesktop'
    <3>1. /\ call[c].pc # "idle" /\ call'[c].pc \notin {"publish", "await"}
          /\ call'[c].pc = "idle" \/ call'[c].desktop = d
      BY <1>1, <2>1
    <3>2. FinalizeEntries(d, R)
      BY <1>4
    <3> HIDE DEF R
    <3> QED
      BY <1>1, <1>2, <2>2, <2>3, <3>1, <3>2, FinalizeStep
  <2>5. TypeOK'
    <3>1. /\ lease' \in [Roles -> LeaseType]
          /\ sidecar' \in [Desktops -> [Roles -> Workers \union {None}]]
      BY <1>4, FilesType DEF IInv, TypeOK, FinalizeEntries
    <3>2. mutex' \in [Desktops -> Calls \union {None}]
      BY <1>4 DEF IInv, TypeOK
    <3> QED
      BY <1>1, <1>2, <2>4, <3>1, <3>2 DEF IInv, TypeOK
  <2>6. MutexInv'
    <3>1. ASSUME NEW x \in Calls, NEW e \in Desktops
          PROVE  mutex'[e] = x <=> call'[x].pc \in LockedPcs /\ call'[x].desktop = e
      <4>1. x # c => (mutex[e] = x <=> call'[x].pc \in LockedPcs /\ call'[x].desktop = e)
        BY <1>2 DEF IInv, MutexInv
      <4>2. mutex[e] # c
        BY <1>1 DEF IInv, MutexInv, LockedPcs
      <4>3. CASE Return(c) /\ UNCHANGED mutex
        BY <4>1, <4>2, <4>3, ReturnFacts DEF IInv, TypeOK, LockedPcs
      <4>4. CASE mutex' = [mutex EXCEPT ![d] = c] /\ Goto(c, "reserve")
        <5>1. call'[c].pc = "reserve" /\ call'[c].desktop = d
          BY <4>4, GotoFacts DEF IInv, TypeOK, StartPcs
        <5>2. mutex'[e] = IF e = d THEN c ELSE mutex[e]
          BY <4>4 DEF IInv, TypeOK
        <5> QED
          BY <4>1, <4>2, <5>1, <5>2, <1>1, NoneAssumption DEF LockedPcs
      <4> QED
        BY <1>4, <4>3, <4>4
    <3> QED
      BY <3>1 DEF MutexInv
  <2>7. ASSUME NEW x \in Calls, call'[x].pc \in LockedPcs \ {"stop"}
        PROVE  Checked(x)'
    <3>1. CASE x # c
      <4>1. call'[x] = call[x]
        BY <1>2, <3>1
      <4>2. call[x].desktop \in Desktops
        BY <2>7, <4>1, CallFields DEF LockedPcs
      <4>3. \A q \in Roles :
              registry'[call[x].desktop][q] \in {registry[call[x].desktop][q], None}
        BY <2>4, <4>2
      <4> QED
        BY <1>1, <2>7, <4>1, <4>3, StaysChecked DEF Live
    <3>2. CASE x = c
      <4>1. ~LiveEntry(d, r) /\ call'[c].desktop = d /\ call'[c].role = r /\ call'[c].mode = m
        BY <1>4, <2>1, <2>7, <3>2, ReturnFacts DEF IInv, TypeOK, LockedPcs
      <4>2. registry'[d][r] = None
        BY <1>1, <2>4, <4>1 DEF LiveEntry, StaleEntries, DeadEntry
      <4>3. ~(/\ OwnsNodeCore(r, m) /\ registry'[d][Other(r)] # None
              /\ Live(registry'[d][Other(r)]) /\ CoreWorker(registry'[d][Other(r)]))
        BY <1>1, <1>4, <2>4 DEF BlockedByOther, LiveEntry
      <4> QED
        BY <3>2, <4>1, <4>2, <4>3, <1>1 DEF Checked, BlockedByOther, LiveEntry, Live, CoreWorker
    <3> QED
      BY <3>1, <3>2
  <2>8. CheckedInv'
    BY <2>7 DEF CheckedInv
  <2> QED
    BY <2>4, <2>5, <2>6, <2>8 DEF IInv
<1> QED
  BY <1>3, <1>4 DEF EnterRegistry

LEMMA ReserveLeasePreserves ==
  ASSUME IInv, NEW c \in Calls, ReserveLease(c) PROVE IInv'
<1> DEFINE d == call[c].desktop
           r == call[c].role
<1>1. /\ call[c].pc = "reserve" /\ ~Spawned(c)
      /\ UNCHANGED <<desktop, registry, worker, sidecar>>
      /\ d \in Desktops /\ r \in Roles /\ call[c].mode \in Modes
  BY CallFields DEF ReserveLease, Spawned
<1>2. CASE Return(c) /\ Unlock(d) /\ UNCHANGED lease
  <2>1. TypeOK'
    BY <1>1, <1>2, ReturnFacts DEF IInv, TypeOK, Unlock
  <2> QED
    BY <1>1, <1>2, <2>1, UnlockStep DEF LockedPcs, IInv, TypeOK
<1>3. CASE /\ lease' = [lease EXCEPT ![r] = [state |-> "created", parent |-> d,
                                             mode |-> call[c].mode, aged |-> FALSE]]
           /\ Goto(c, "write")
           /\ UNCHANGED mutex
  <2>1. /\ call' \in [Calls -> CallType] /\ call'[c].pc = "write"
        /\ call'[c].desktop = d /\ call'[c].role = r
        /\ call'[c].mode = call[c].mode /\ call'[c].child = call[c].child
        /\ \A x \in Calls : x # c => call'[x] = call[x]
    BY <1>3, GotoFacts DEF IInv, TypeOK, StartPcs
  <2>2. [state |-> "created", parent |-> d, mode |-> call[c].mode, aged |-> FALSE] \in LeaseType
    BY <1>1 DEF LeaseType
  <2>3. lease' \in [Roles -> LeaseType]
    BY <1>3, <2>2 DEF IInv, TypeOK
  <2>4. TypeOK'
    BY <1>1, <1>3, <2>1, <2>3 DEF IInv, TypeOK
  <2> QED
    BY <1>1, <1>3, <2>1, <2>4, AdvanceStep DEF LockedPcs
<1> QED
  BY <1>2, <1>3 DEF ReserveLease

LEMMA WriteLeasePreserves ==
  ASSUME IInv, NEW c \in Calls, WriteLease(c) PROVE IInv'
<1> DEFINE d == call[c].desktop
           r == call[c].role
<1>1. /\ call[c].pc = "write" /\ ~Spawned(c)
      /\ UNCHANGED <<desktop, registry, worker, sidecar>>
      /\ d \in Desktops /\ r \in Roles
  BY CallFields DEF WriteLease, Spawned
<1>2. CASE RemoveLease(r) /\ Return(c) /\ Unlock(d)
  <2>1. lease' \in [Roles -> LeaseType]
    BY <1>2, RemoveLeaseType DEF IInv, TypeOK
  <2>2. TypeOK'
    BY <1>1, <1>2, <2>1, ReturnFacts DEF IInv, TypeOK, Unlock
  <2> QED
    BY <1>1, <1>2, <2>2, UnlockStep DEF LockedPcs, IInv, TypeOK
<1>3. CASE /\ lease' = IF lease[r].state = "created" /\ lease[r].parent = d
                       THEN [lease EXCEPT ![r].state = "published"]
                       ELSE lease
           /\ Goto(c, "spawn")
           /\ UNCHANGED mutex
  <2>1. /\ call' \in [Calls -> CallType] /\ call'[c].pc = "spawn"
        /\ call'[c].desktop = d /\ call'[c].role = r
        /\ call'[c].mode = call[c].mode /\ call'[c].child = call[c].child
        /\ \A x \in Calls : x # c => call'[x] = call[x]
    BY <1>3, GotoFacts DEF IInv, TypeOK, StartPcs
  <2>2. lease' \in [Roles -> LeaseType]
    <3>1. lease' = lease \/ lease' = [lease EXCEPT ![r].state = "published"]
      BY <1>3
    <3>2. ASSUME NEW l \in LeaseType PROVE [l EXCEPT !.state = "published"] \in LeaseType
      BY DEF LeaseType
    <3>3. lease \in [Roles -> LeaseType] /\ lease[r] \in LeaseType
      BY <1>1 DEF IInv, TypeOK
    <3>4. [lease[r] EXCEPT !.state = "published"] \in LeaseType
      BY <3>2, <3>3
    <3> QED
      BY <3>1, <3>3, <3>4
  <2>3. TypeOK'
    BY <1>1, <1>3, <2>1, <2>2 DEF IInv, TypeOK
  <2> QED
    BY <1>1, <1>3, <2>1, <2>3, AdvanceStep DEF LockedPcs
<1> QED
  BY <1>2, <1>3 DEF WriteLease

\* The one step that adds a live worker.  The mutex makes its call the only one
\* of the desktop past the checks, so every live worker of the desktop is in the
\* registry, where the checks looked.
LEMMA BirthPreserves ==
  ASSUME IInv, NEW c \in Calls, call[c].pc = "spawn",
         NEW w \in Workers, worker[w].state = "unborn",
         worker' = [worker EXCEPT ![w] = [state |-> "booting", parent |-> call[c].desktop,
                                          role |-> call[c].role, mode |-> call[c].mode]],
         call' = [call EXCEPT ![c] = [@ EXCEPT !.pc = "publish", !.child = w]],
         UNCHANGED <<desktop, registry, mutex, lease, sidecar>>
  PROVE  IInv'
<1> DEFINE d == call[c].desktop
           r == call[c].role
           m == call[c].mode
<1>1. /\ d \in Desktops /\ desktop[d] = "up" /\ r \in Roles /\ m \in Modes
      /\ Other(r) \in Roles /\ ~Spawned(c)
  BY CallFields DEF Other, Roles, Spawned
<1>2. /\ call' \in [Calls -> CallType]
      /\ call'[c].pc = "publish" /\ call'[c].child = w
      /\ call'[c].desktop = d /\ call'[c].role = r /\ call'[c].mode = m
      /\ \A x \in Calls : x # c => call'[x] = call[x]
  <2>1. ASSUME NEW k \in CallType
        PROVE  /\ [k EXCEPT !.pc = "publish", !.child = w] \in CallType
               /\ [k EXCEPT !.pc = "publish", !.child = w].pc = "publish"
               /\ [k EXCEPT !.pc = "publish", !.child = w].child = w
               /\ [k EXCEPT !.pc = "publish", !.child = w].desktop = k.desktop
               /\ [k EXCEPT !.pc = "publish", !.child = w].role = k.role
               /\ [k EXCEPT !.pc = "publish", !.child = w].mode = k.mode
    BY DEF CallType, StartPcs
  <2>2. call[c] \in CallType /\ call \in [Calls -> CallType]
    BY DEF IInv, TypeOK
  <2> QED
    BY <2>1, <2>2
<1>3. /\ worker' \in [Workers -> WorkerType]
      /\ worker'[w].state = "booting" /\ worker'[w].parent = d
      /\ worker'[w].role = r /\ worker'[w].mode = m
      /\ \A v \in Workers : v # w => worker'[v] = worker[v]
  BY <1>1 DEF IInv, TypeOK, WorkerType, LiveStates
<1>4. TypeOK'
  BY <1>2, <1>3 DEF IInv, TypeOK
<1>5. CallsInv' /\ BornInv'
  BY <1>1, <1>2, <1>3 DEF IInv, CallsInv, BornInv
<1>6. MutexInv'
  BY <1>2 DEF IInv, MutexInv, LockedPcs
<1>7. \A e \in Desktops, x \in Roles : registry[e][x] # None =>
        registry[e][x] \in Workers /\ registry[e][x] # w
  BY DEF IInv, TypeOK, RegistryInv
<1>8. RegistryInv'
  BY <1>3, <1>7 DEF IInv, RegistryInv
<1>9. ChildInv'
  BY <1>2, <1>3 DEF IInv, ChildInv, Spawned
<1>10. AccountedInv'
  BY <1>2, <1>3, <1>1 DEF IInv, AccountedInv, Spawned, Live
<1>11. ASSUME NEW v \in Workers, v # w, Live(v), worker[v].parent = d
       PROVE  registry[d][worker[v].role] = v
  <2>1. ASSUME NEW x \in Calls, Spawned(x), call[x].desktop = d
        PROVE  FALSE
    BY <1>1, <2>1 DEF IInv, MutexInv, LockedPcs, Spawned
  <2> QED
    BY <1>1, <1>11, <2>1 DEF IInv, AccountedInv
<1>12. ASSUME NEW v \in Workers, v # w, Live(v), worker[v].parent = d
       PROVE  ~(Collide(v, w))'
  <2>1. registry[d][r] = None /\ ~BlockedByOther(d, r, m)
    BY DEF IInv, CheckedInv, Checked, LockedPcs
  <2>2. registry[d][worker[v].role] = v /\ v # None
    BY <1>11, <1>12, NoneAssumption
  <2>3. worker[v].role = Other(r)
    BY <2>1, <2>2, <1>1 DEF IInv, TypeOK, WorkerType, Other, Roles
  <2>4. ~(OwnsNodeCore(r, m) /\ CoreWorker(v))
    BY <2>1, <2>2, <2>3, <1>12 DEF BlockedByOther, LiveEntry
  <2> QED
    BY <1>1, <1>3, <1>12, <2>3, <2>4 DEF Collide, CoreWorker, Other, Roles
<1>13. OneOwnerPerDesktop'
  <2>1. ASSUME NEW u \in Workers, NEW v \in Workers, (Live(u))', (Live(v))',
               worker'[u].parent = worker'[v].parent, (Collide(u, v))'
        PROVE  u = v
    <3>1. CASE u # w /\ v # w
      BY <2>1, <3>1, <1>3 DEF IInv, OneOwnerPerDesktop, Live, Collide, CoreWorker
    <3>2. CASE u = w /\ v # w
      BY <2>1, <3>2, <1>3, <1>12 DEF Live, Collide
    <3>3. CASE u # w /\ v = w
      BY <2>1, <3>3, <1>3, <1>12 DEF Live
    <3> QED
      BY <3>1, <3>2, <3>3
  <2> QED
    BY <2>1 DEF OneOwnerPerDesktop
<1>14. ASSUME NEW x \in Calls, call'[x].pc \in LockedPcs \ {"stop"}
       PROVE  Checked(x)'
  <2>1. /\ call[x].pc \in LockedPcs \ {"stop"}
        /\ call'[x].desktop = call[x].desktop /\ call'[x].role = call[x].role
        /\ call'[x].mode = call[x].mode
    BY <1>2, <1>14 DEF LockedPcs
  <2>2. \A v \in Workers : worker[v].state # "unborn" => worker'[v] = worker[v]
    BY <1>3
  <2> QED
    BY <2>1, <2>2, StaysChecked DEF Live
<1>15. CheckedInv'
  BY <1>14 DEF CheckedInv
<1> QED
  BY <1>4, <1>5, <1>6, <1>8, <1>9, <1>10, <1>13, <1>15 DEF IInv

LEMMA SpawnWorkerPreserves ==
  ASSUME IInv, NEW c \in Calls, SpawnWorker(c) PROVE IInv'
<1> DEFINE d == call[c].desktop
           r == call[c].role
<1>1. call[c].pc = "spawn" /\ ~Spawned(c) /\ UNCHANGED <<desktop, registry, sidecar>>
  BY DEF SpawnWorker, Spawned
<1>2. CASE RemoveLease(r) /\ Return(c) /\ Unlock(d) /\ UNCHANGED worker
  <2>1. TypeOK'
    BY <1>1, <1>2, RemoveLeaseType, ReturnFacts DEF IInv, TypeOK, Unlock
  <2> QED
    BY <1>1, <1>2, <2>1, UnlockStep DEF LockedPcs, IInv, TypeOK
<1>3. CASE ~UNCHANGED worker \/ ~(RemoveLease(r) /\ Return(c) /\ Unlock(d))
  <2>1. PICK w \in Workers :
          /\ worker[w].state = "unborn"
          /\ worker' = [worker EXCEPT ![w] = [state |-> "booting", parent |-> d,
                                              role |-> r, mode |-> call[c].mode]]
          /\ call' = [call EXCEPT ![c] = [@ EXCEPT !.pc = "publish", !.child = w]]
          /\ UNCHANGED <<mutex, lease>>
    BY <1>3 DEF SpawnWorker
  <2> QED
    BY <1>1, <2>1, BirthPreserves
<1> QED
  BY <1>2, <1>3

LEMMA PublishSidecarPreserves ==
  ASSUME IInv, NEW c \in Calls, PublishSidecar(c) PROVE IInv'
<1> DEFINE d == call[c].desktop
           r == call[c].role
           w == call[c].child
<1>1. /\ call[c].pc = "publish" /\ Spawned(c) /\ UNCHANGED <<desktop, registry>>
      /\ d \in Desktops /\ r \in Roles
      /\ w \in Workers /\ worker[w].state # "unborn"
  BY CallFields DEF PublishSidecar, Spawned, IInv, ChildInv
<1>2. CASE /\ sidecar' = [sidecar EXCEPT ![d][r] = w]
           /\ Goto(c, "await")
           /\ UNCHANGED <<mutex, worker, lease>>
  <2>1. /\ call' \in [Calls -> CallType] /\ call'[c].pc = "await"
        /\ call'[c].desktop = d /\ call'[c].role = r
        /\ call'[c].mode = call[c].mode /\ call'[c].child = w
        /\ \A x \in Calls : x # c => call'[x] = call[x]
    BY <1>2, GotoFacts DEF IInv, TypeOK, StartPcs
  <2>2. sidecar' \in [Desktops -> [Roles -> Workers \union {None}]]
    BY <1>1, <1>2 DEF IInv, TypeOK
  <2>3. TypeOK'
    BY <1>1, <1>2, <2>1, <2>2 DEF IInv, TypeOK
  <2> QED
    BY <1>1, <1>2, <2>1, <2>3, AdvanceStep DEF LockedPcs
<1>3. CASE Kill(w) /\ RemoveLease(r) /\ Return(c) /\ Unlock(d) /\ UNCHANGED sidecar
  <2>1. TypeOK'
    BY <1>1, <1>3, RemoveLeaseType, ReturnFacts, KillFacts DEF IInv, TypeOK, Unlock
  <2>2. /\ worker'[w].state = "dead"
        /\ \A v \in Workers :
             /\ worker'[v].parent = worker[v].parent
             /\ worker'[v].role = worker[v].role
             /\ worker'[v].mode = worker[v].mode
             /\ worker'[v].state \in {worker[v].state, "dead"}
             /\ worker'[v].state = "dead" => worker[v].state # "unborn"
    BY <1>1, <1>3, KillFacts DEF IInv, TypeOK
  <2> QED
    BY <1>1, <1>3, <2>1, <2>2, UnlockStep DEF LockedPcs
<1> QED
  BY <1>2, <1>3 DEF PublishSidecar

LEMMA StartFailsPreserves ==
  ASSUME IInv, NEW c \in Calls, StartFails(c) PROVE IInv'
<1> DEFINE d == call[c].desktop
           w == call[c].child
<1>1. /\ call[c].pc = "await" /\ Spawned(c) /\ UNCHANGED <<desktop, registry>>
      /\ Kill(w) /\ Return(c) /\ Unlock(d) /\ RemoveFiles(d, {call[c].role})
      /\ w \in Workers /\ worker[w].state # "unborn"
  BY CallFields DEF StartFails, Spawned, IInv, ChildInv
<1>2. TypeOK'
  BY <1>1, FilesType, ReturnFacts, KillFacts DEF IInv, TypeOK, Unlock
<1>3. /\ worker'[w].state = "dead"
      /\ \A v \in Workers :
           /\ worker'[v].parent = worker[v].parent
           /\ worker'[v].role = worker[v].role
           /\ worker'[v].mode = worker[v].mode
           /\ worker'[v].state \in {worker[v].state, "dead"}
           /\ worker'[v].state = "dead" => worker[v].state # "unborn"
  BY <1>1, KillFacts DEF IInv, TypeOK
<1> QED
  BY <1>1, <1>2, <1>3, UnlockStep DEF LockedPcs

LEMMA StartSucceedsPreserves ==
  ASSUME IInv, NEW c \in Calls, StartSucceeds(c) PROVE IInv'
<1> DEFINE d == call[c].desktop
           r == call[c].role
           w == call[c].child
<1>1. /\ call[c].pc = "await" /\ Spawned(c)
      /\ UNCHANGED <<desktop, worker, lease, sidecar>>
      /\ d \in Desktops /\ r \in Roles
      /\ w \in Workers /\ worker[w].state # "unborn"
      /\ worker[w].parent = d /\ worker[w].role = r
  BY CallFields DEF StartSucceeds, Spawned, IInv, ChildInv
<1>2. /\ call' \in [Calls -> CallType] /\ call'[c].pc = "idle"
      /\ \A x \in Calls : x # c => call'[x] = call[x]
  BY ReturnFacts DEF StartSucceeds, IInv, TypeOK
<1>3. /\ registry' \in [Desktops -> [Roles -> Workers \union {None}]]
      /\ \A e \in Desktops, x \in Roles :
           registry'[e][x] = IF e = d /\ x = r THEN w ELSE registry[e][x]
  BY <1>1 DEF StartSucceeds, IInv, TypeOK
<1>4. \A e \in Desktops : mutex'[e] = IF e = d THEN None ELSE mutex[e]
  BY DEF StartSucceeds, Unlock, IInv, TypeOK
<1>5. TypeOK'
  BY <1>1, <1>2, <1>3 DEF StartSucceeds, Unlock, IInv, TypeOK
<1>6. \A x \in Calls : call[x].pc \in LockedPcs /\ call[x].desktop = d => x = c
  BY <1>1 DEF IInv, MutexInv, LockedPcs
<1>7. CallsInv' /\ BornInv' /\ ChildInv' /\ OneOwnerPerDesktop'
  <2>1. CallsInv' /\ BornInv'
    BY <1>1, <1>2 DEF IInv, CallsInv, BornInv
  <2>2. ChildInv'
    BY <1>1, <1>2 DEF IInv, ChildInv, Spawned
  <2>3. OneOwnerPerDesktop'
    BY <1>1 DEF IInv, OneOwnerPerDesktop, Live, CoreWorker, Collide
  <2> QED
    BY <2>1, <2>2, <2>3
<1>8. MutexInv'
  <2>1. mutex[d] = c
    BY <1>1 DEF IInv, MutexInv, LockedPcs
  <2> QED
    BY <1>2, <1>4, <2>1, NoneAssumption DEF IInv, MutexInv, LockedPcs
<1>9. RegistryInv'
  BY <1>1, <1>3 DEF IInv, RegistryInv
<1>10. AccountedInv'
  <2>1. ASSUME NEW v \in Workers, Live(v), desktop[worker[v].parent] = "up"
        PROVE  \/ registry'[worker[v].parent][worker[v].role] = v
               \/ \E x \in Calls : /\ call'[x].pc \in {"publish", "await"}
                                   /\ call'[x].child = v
                                   /\ call'[x].desktop = worker[v].parent
    <3>1. worker[v].parent \in Desktops /\ worker[v].role \in Roles
      BY <2>1 DEF IInv, BornInv, TypeOK, WorkerType, Live, LiveStates
    <3>2. CASE registry[worker[v].parent][worker[v].role] = v
      <4>1. v # None /\ registry[d][r] = None
        BY <1>1, NoneAssumption DEF IInv, CheckedInv, Checked, LockedPcs
      <4> QED
        BY <3>1, <3>2, <4>1, <1>3
    <3>3. CASE \E x \in Calls : /\ Spawned(x) /\ call[x].child = v
                               /\ call[x].desktop = worker[v].parent
      BY <3>3, <1>1, <1>2, <1>3 DEF Spawned
    <3> QED
      BY <2>1, <3>2, <3>3 DEF IInv, AccountedInv
  <2> QED
    BY <2>1, <1>1 DEF AccountedInv, Spawned, Live
<1>11. ASSUME NEW x \in Calls, call'[x].pc \in LockedPcs \ {"stop"}
       PROVE  Checked(x)'
  <2>1. x # c /\ call'[x] = call[x]
    BY <1>2, <1>11 DEF LockedPcs
  <2>2. call[x].desktop \in Desktops /\ call[x].desktop # d
    BY <1>6, <1>11, <2>1, CallFields DEF LockedPcs
  <2>3. \A q \in Roles : registry'[call[x].desktop][q] = registry[call[x].desktop][q]
    BY <2>2, <1>3
  <2> QED
    BY <1>1, <1>11, <2>1, <2>3, StaysChecked DEF Live
<1>12. CheckedInv'
  BY <1>11 DEF CheckedInv
<1> QED
  BY <1>5, <1>7, <1>8, <1>9, <1>10, <1>12 DEF IInv

LEMMA StopEnterPreserves ==
  ASSUME IInv, NEW c \in Calls, StopEnter(c) PROVE IInv'
<1> DEFINE d == call[c].desktop
           keys == {x \in call[c].keys : registry[d][x] # None}
<1>1. /\ call[c].pc = "stoplock" /\ mutex[d] = None
      /\ UNCHANGED <<desktop, registry, worker, lease, sidecar>>
      /\ d \in Desktops /\ desktop[d] = "up"
  BY CallFields DEF StopEnter
<1>2. CASE Return(c) /\ UNCHANGED mutex
  <2>1. /\ call' \in [Calls -> CallType] /\ call'[c].pc = "idle"
        /\ \A x \in Calls : x # c => call'[x] = call[x]
    BY <1>2, ReturnFacts DEF IInv, TypeOK
  <2>2. TypeOK'
    BY <1>1, <1>2, <2>1 DEF IInv, TypeOK
  <2> QED
    BY <1>1, <1>2, <2>1, <2>2, QuietStep DEF LockedPcs
<1>3. CASE /\ mutex' = [mutex EXCEPT ![d] = c]
           /\ call' = [call EXCEPT ![c] = [@ EXCEPT !.pc = "stop", !.keys = keys]]
  <2>1. /\ call' \in [Calls -> CallType]
        /\ call'[c].pc = "stop" /\ call'[c].desktop = d
        /\ \A x \in Calls : x # c => call'[x] = call[x]
    <3>1. ASSUME NEW k \in CallType, NEW K \in SUBSET Roles
          PROVE  /\ [k EXCEPT !.pc = "stop", !.keys = K] \in CallType
                 /\ [k EXCEPT !.pc = "stop", !.keys = K].pc = "stop"
                 /\ [k EXCEPT !.pc = "stop", !.keys = K].desktop = k.desktop
      BY DEF CallType, StopPcs
    <3>2. /\ call[c] \in CallType /\ call \in [Calls -> CallType]
          /\ keys \in SUBSET Roles
      BY DEF IInv, TypeOK, CallType
    <3> QED
      BY <1>3, <3>1, <3>2
  <2>2. \A e \in Desktops : mutex'[e] = IF e = d THEN c ELSE mutex[e]
    BY <1>3 DEF IInv, TypeOK
  <2>3. TypeOK'
    BY <1>1, <1>3, <2>1 DEF IInv, TypeOK
  <2>4. CallsInv' /\ BornInv' /\ RegistryInv'
    BY <1>1, <2>1 DEF IInv, CallsInv, BornInv, RegistryInv
  <2>5. MutexInv'
    BY <1>1, <2>1, <2>2, NoneAssumption DEF IInv, MutexInv, LockedPcs
  <2>6. ChildInv' /\ AccountedInv'
    BY <1>1, <2>1 DEF IInv, ChildInv, AccountedInv, Spawned, Live
  <2>7. CheckedInv' /\ OneOwnerPerDesktop'
    BY <1>1, <2>1 DEF IInv, CheckedInv, Checked, OneOwnerPerDesktop, BlockedByOther, LiveEntry,
                      Live, CoreWorker, Collide
  <2> QED
    BY <2>3, <2>4, <2>5, <2>6, <2>7 DEF IInv
<1> QED
  BY <1>2, <1>3 DEF StopEnter

LEMMA StopEndsWorkerPreserves ==
  ASSUME IInv, NEW c \in Calls, StopEndsWorker(c) PROVE IInv'
<1> DEFINE w == registry[call[c].desktop][NextKey(c)]
<1>1. /\ Kill(w) /\ Live(w)
      /\ UNCHANGED <<desktop, registry, mutex, call, lease, sidecar>>
  BY DEF StopEndsWorker
<1>2. TypeOK'
  BY <1>1, KillFacts DEF IInv, TypeOK
<1>3. \A v \in Workers : /\ worker'[v].parent = worker[v].parent
                         /\ worker'[v].role = worker[v].role
                         /\ worker'[v].mode = worker[v].mode
                         /\ worker'[v].state = "unborn" <=> worker[v].state = "unborn"
                         /\ worker'[v].state \in LiveStates => Live(v)
  BY <1>1, KillFacts DEF IInv, TypeOK, Live, LiveStates
<1> QED
  BY <1>1, <1>2, <1>3, WorkerFrame

LEMMA StopRemovesPreserves ==
  ASSUME IInv, NEW c \in Calls, StopRemoves(c) PROVE IInv'
<1> DEFINE d == call[c].desktop
           r == NextKey(c)
<1>1. /\ call[c].pc = "stop" /\ ~Spawned(c) /\ UNCHANGED <<desktop, worker>>
      /\ d \in Desktops /\ ~Live(registry[d][r])
      /\ FinalizeEntries(d, {r})
  BY CallFields DEF StopRemoves, Spawned
<1>2. /\ call' \in [Calls -> CallType]
      /\ mutex' \in [Desktops -> Calls \union {None}]
      /\ \A x \in Calls : x # c => call'[x] = call[x]
      /\ MutexInv'
      /\ \/ call'[c].pc = "idle"
         \/ call'[c].pc = "stop" /\ call'[c].desktop = d
  <2>1. CASE call' = [call EXCEPT ![c].keys = @ \ {r}] /\ UNCHANGED mutex
    <3>1. /\ call' \in [Calls -> CallType]
          /\ call'[c].pc = "stop" /\ call'[c].desktop = d
          /\ \A x \in Calls : x # c => call'[x] = call[x]
      <4>1. ASSUME NEW k \in CallType, NEW K \in SUBSET Roles
            PROVE  /\ [k EXCEPT !.keys = K] \in CallType
                   /\ [k EXCEPT !.keys = K].pc = k.pc
                   /\ [k EXCEPT !.keys = K].desktop = k.desktop
        BY DEF CallType
      <4>2. /\ call[c] \in CallType /\ call \in [Calls -> CallType]
            /\ call[c].keys \ {r} \in SUBSET Roles
        BY DEF IInv, TypeOK, CallType
      <4>3. call' = [call EXCEPT ![c] = [call[c] EXCEPT !.keys = call[c].keys \ {r}]]
        BY <2>1
      <4> QED
        BY <1>1, <4>1, <4>2, <4>3
    <3> QED
      BY <1>1, <2>1, <3>1 DEF IInv, TypeOK, MutexInv
  <2>2. CASE Return(c) /\ Unlock(d)
    <3>1. /\ call' \in [Calls -> CallType] /\ call'[c].pc = "idle"
          /\ \A x \in Calls : x # c => call'[x] = call[x]
      BY <2>2, ReturnFacts DEF IInv, TypeOK
    <3>2. /\ mutex' \in [Desktops -> Calls \union {None}]
          /\ \A e \in Desktops : mutex'[e] = IF e = d THEN None ELSE mutex[e]
      BY <2>2 DEF IInv, TypeOK, Unlock
    <3>3. mutex[d] = c
      BY <1>1 DEF IInv, MutexInv, LockedPcs
    <3> QED
      BY <3>1, <3>2, <3>3, NoneAssumption DEF IInv, MutexInv, LockedPcs
  <2> QED
    BY <2>1, <2>2 DEF StopRemoves
<1>3. \A x \in {r} \cap Roles : ~Live(registry[d][x])
  BY <1>1
<1>4a. /\ registry' \in [Desktops -> [Roles -> Workers \union {None}]]
       /\ \A e \in Desktops, x \in Roles :
            registry'[e][x] = IF e = d /\ x = r THEN None ELSE registry[e][x]
  BY <1>1 DEF IInv, TypeOK, FinalizeEntries
<1>4b. CallsInv' /\ BornInv' /\ RegistryInv'
  BY <1>1, <1>2, <1>3, FinalizeStep
<1>4c. ChildInv' /\ AccountedInv' /\ OneOwnerPerDesktop'
  BY <1>1, <1>2, <1>3, FinalizeStep
<1>5. TypeOK'
  <2>1. /\ lease' \in [Roles -> LeaseType]
        /\ sidecar' \in [Desktops -> [Roles -> Workers \union {None}]]
    BY <1>1, FilesType DEF IInv, TypeOK, FinalizeEntries
  <2> QED
    BY <1>1, <1>2, <1>4a, <2>1 DEF IInv, TypeOK
<1>6. ASSUME NEW x \in Calls, call'[x].pc \in LockedPcs \ {"stop"}
      PROVE  Checked(x)'
  <2>1. x # c /\ call'[x] = call[x]
    BY <1>2, <1>6 DEF LockedPcs
  <2>2. call[x].desktop \in Desktops
    BY <1>6, <2>1, CallFields DEF LockedPcs
  <2>3. \A q \in Roles : registry'[call[x].desktop][q] \in {registry[call[x].desktop][q], None}
    BY <2>2, <1>4a
  <2> QED
    BY <1>1, <1>6, <2>1, <2>3, StaysChecked DEF Live
<1>7. CheckedInv'
  BY <1>6 DEF CheckedInv
<1> QED
  BY <1>2, <1>4b, <1>4c, <1>5, <1>7 DEF IInv

LEMMA StopFailsPreserves ==
  ASSUME IInv, NEW c \in Calls, StopFails(c) PROVE IInv'
<1>1. /\ call[c].pc = "stop" /\ ~Spawned(c)
      /\ Return(c) /\ Unlock(call[c].desktop)
      /\ UNCHANGED <<desktop, registry, worker, lease, sidecar>>
  BY DEF StopFails, Spawned
<1>2. TypeOK'
  BY <1>1, ReturnFacts DEF IInv, TypeOK, Unlock
<1> QED
  BY <1>1, <1>2, UnlockStep DEF LockedPcs, IInv, TypeOK

-----------------------------------------------------------------------------
(* The theorems.                                                           *)

LEMMA InitEstablishes == Init => IInv
<1> SUFFICES ASSUME Init PROVE IInv
  OBVIOUS
<1>1. TypeOK
  BY DEF Init, TypeOK, CallType, IdleCall, WorkerType, UnbornWorker, LeaseType, NoLease,
         Roles, Modes
<1>2. /\ \A c \in Calls : call[c].pc = "idle"
      /\ \A w \in Workers : worker[w].state = "unborn"
      /\ \A d \in Desktops : mutex[d] = None
      /\ \A d \in Desktops, r \in Roles : registry[d][r] = None
  BY DEF Init, IdleCall, UnbornWorker
<1>3. CallsInv /\ BornInv /\ RegistryInv /\ ChildInv /\ CheckedInv
  BY <1>2 DEF CallsInv, BornInv, RegistryInv, ChildInv, CheckedInv, Spawned, LockedPcs
<1>4. MutexInv
  BY <1>2, NoneAssumption DEF MutexInv, LockedPcs
<1>5. AccountedInv /\ OneOwnerPerDesktop
  BY <1>2 DEF AccountedInv, OneOwnerPerDesktop, Live, LiveStates
<1> QED
  BY <1>1, <1>3, <1>4, <1>5 DEF IInv

LEMMA NextPreserves == IInv /\ [Next]_vars => IInv'
<1> SUFFICES ASSUME IInv, [Next]_vars PROVE IInv'
  OBVIOUS
<1>1. ASSUME NEW d \in Desktops, DesktopStep(d) PROVE IInv'
  BY <1>1, LaunchPreserves, DesktopEndsPreserves, StatusPollPreserves DEF DesktopStep
<1>2. ASSUME NEW c \in Calls, StartStep(c) PROVE IInv'
  BY <1>2, InspectLeasePreserves, ObserveStaleLeasePreserves, UnlinkStaleLeasePreserves,
     EnterRegistryPreserves, ReserveLeasePreserves, WriteLeasePreserves,
     SpawnWorkerPreserves, PublishSidecarPreserves, StartSucceedsPreserves,
     StartFailsPreserves DEF StartStep
<1>3. ASSUME NEW c \in Calls, StopStep(c) PROVE IInv'
  BY <1>3, StopEnterPreserves, StopEndsWorkerPreserves, StopRemovesPreserves,
     StopFailsPreserves DEF StopStep
<1>4. ASSUME NEW c \in Calls, CallStep(c) PROVE IInv'
  BY <1>2, <1>3, <1>4, StartBeginPreserves, StopBeginPreserves DEF CallStep
<1>5. ASSUME NEW w \in Workers, WorkerStep(w) PROVE IInv'
  BY <1>5, WorkerPreserves
<1>6. ASSUME NEW r \in Roles, LeaseAges(r) PROVE IInv'
  BY <1>6, LeaseAgesPreserves
<1>7. CASE UNCHANGED vars
  <2>1. TypeOK'
    BY <1>7 DEF vars, IInv, TypeOK
  <2> QED
    BY <1>7, <2>1, FilesStep DEF vars
<1> QED
  BY <1>1, <1>4, <1>5, <1>6, <1>7 DEF Next

\* IInv is an inductive invariant of the specification.
LEMMA Inductive == Spec => []IInv
  BY InitEstablishes, NextPreserves, PTL DEF Spec

\* Every variable keeps its type, with any number of desktops, workers and
\* command threads.
THEOREM TypeCorrect == Spec => []TypeOK
<1>1. IInv => TypeOK
  BY DEF IInv
<1> QED
  BY <1>1, Inductive, PTL

\* One desktop never has two live workers of one role, nor two that run a node
\* core, with any overlap of desktops and whatever happens to the lease files:
\* the promise of kgw_worker_start and kgw_worker_stop that needs only the
\* registry and its mutex.
THEOREM OneOwnerPerDesktopHolds == Spec => []OneOwnerPerDesktop
<1>1. IInv => OneOwnerPerDesktop
  BY DEF IInv
<1> QED
  BY <1>1, Inductive, PTL

\* A desktop that is alive never loses track of a live worker of its own: the
\* worker is in the registry, where stop and shutdown-all look for it, or it is
\* the child of a start that still holds the mutex.
THEOREM NoForgottenWorker == Spec => [](AccountedInv /\ MutexInv)
<1>1. IInv => AccountedInv /\ MutexInv
  BY DEF IInv
<1> QED
  BY <1>1, Inductive, PTL

-----------------------------------------------------------------------------
(* The claims on the owner slots: how a step changes the set of them.      *)

Claim(w) == [worker |-> w, role |-> worker[w].role, core |-> CoreWorker(w)]

\* The claims of the live workers that desktops of D started.
ClaimsIn(D) == ClaimsOf({w \in Workers : worker[w].parent \in D})

\* A step of OwnerSlots, or none, on the set of the claims.
SlotStep(S, T) ==
  \/ T = S
  \/ \E o \in [worker : Workers, role : Roles, core : BOOLEAN] :
       \/ (\A p \in S : p.role # o.role /\ ~(p.core /\ o.core)) /\ T = S \union {o}
       \/ o \in S /\ T = S \ {o}

Same(w) == /\ worker'[w].parent = worker[w].parent
           /\ worker'[w].role = worker[w].role
           /\ worker'[w].mode = worker[w].mode

\* In the next state: alive and started by a desktop of D; in each other's way.
LiveNext(w, D) == worker'[w].state \in LiveStates /\ worker'[w].parent \in D

CollideNext(v, w) ==
  \/ worker'[v].role = worker'[w].role
  \/ /\ OwnsNodeCore(worker'[v].role, worker'[v].mode)
     /\ OwnsNodeCore(worker'[w].role, worker'[w].mode)

LEMMA ClaimsFacts ==
  ASSUME NEW D, NEW o
  PROVE  o \in ClaimsIn(D) <=>
           \E w \in Workers : Live(w) /\ worker[w].parent \in D /\ o = Claim(w)
  BY DEF ClaimsIn, ClaimsOf, Claim

LEMMA ClaimsFactsNext ==
  ASSUME NEW D, NEW o
  PROVE  o \in ClaimsIn(D)' <=>
           \E w \in Workers : /\ worker'[w].state \in LiveStates /\ worker'[w].parent \in D
                              /\ o = Claim(w)'
  BY DEF ClaimsIn, ClaimsOf, Claim, Live

LEMMA ClaimType ==
  ASSUME TypeOK, NEW w \in Workers
  PROVE  Claim(w) \in [worker : Workers, role : Roles, core : BOOLEAN]
<1>1. worker[w].role \in Roles /\ CoreWorker(w) \in BOOLEAN
  BY DEF TypeOK, WorkerType, CoreWorker, OwnsNodeCore
<1> QED
  BY <1>1 DEF Claim

LEMMA SameClaim ==
  ASSUME NEW w \in Workers, Same(w)
  PROVE  Claim(w)' = Claim(w)
  BY DEF Same, Claim, CoreWorker

LEMMA ClaimsAreDistinct ==
  ASSUME NEW v, NEW w, Claim(v) = Claim(w)
  PROVE  v = w
  BY DEF Claim

\* No worker is born and none dies.
LEMMA ClaimsStay ==
  ASSUME NEW D,
         \A w \in Workers : Same(w) /\ (worker'[w].state \in LiveStates <=> Live(w))
  PROVE  ClaimsIn(D)' = ClaimsIn(D)
<1>1. ASSUME NEW o PROVE o \in ClaimsIn(D)' <=> o \in ClaimsIn(D)
  <2>1. \A w \in Workers : Claim(w)' = Claim(w)
    BY SameClaim
  <2>2. \A w \in Workers : worker'[w].parent = worker[w].parent
    BY DEF Same
  <2> QED
    BY <2>1, <2>2, ClaimsFacts, ClaimsFactsNext
<1> QED
  BY <1>1

\* One worker of D dies: its claim is released.
LEMMA ClaimReleased ==
  ASSUME TypeOK, NEW D, NEW w \in Workers, worker[w].parent \in D,
         Live(w), worker'[w].state \notin LiveStates,
         \A v \in Workers : v # w => worker'[v] = worker[v]
  PROVE  SlotStep(ClaimsIn(D), ClaimsIn(D)')
<1> DEFINE k == Claim(w)
<1>1. \A v \in Workers : v # w => Claim(v)' = Claim(v) /\ (Live(v) <=> worker'[v].state \in LiveStates)
                                  /\ worker'[v].parent = worker[v].parent
  BY SameClaim DEF Same, Live
<1>2. k \in [worker : Workers, role : Roles, core : BOOLEAN]
  BY ClaimType
<1>3. k \in ClaimsIn(D)
  BY ClaimsFacts
<1>4. ASSUME NEW o PROVE o \in ClaimsIn(D)' <=> o \in ClaimsIn(D) \ {k}
  <2>1. CASE o \in ClaimsIn(D)'
    <3>1. PICK v \in Workers : /\ worker'[v].state \in LiveStates /\ worker'[v].parent \in D
                               /\ o = Claim(v)'
      BY <2>1, ClaimsFactsNext
    <3>2. v # w
      BY <3>1
    <3>3. Live(v) /\ worker[v].parent \in D /\ o = Claim(v)
      BY <1>1, <3>1, <3>2
    <3> QED
      BY <2>1, <3>2, <3>3, ClaimsFacts, ClaimsAreDistinct
  <2>2. CASE o \in ClaimsIn(D) \ {k}
    <3>1. PICK v \in Workers : Live(v) /\ worker[v].parent \in D /\ o = Claim(v)
      BY <2>2, ClaimsFacts
    <3>2. v # w
      BY <2>2, <3>1
    <3>3. /\ worker'[v].state \in LiveStates /\ worker'[v].parent \in D
          /\ o = Claim(v)'
      BY <1>1, <3>1, <3>2
    <3> QED
      BY <2>2, <3>3, ClaimsFactsNext
  <2> QED
    BY <2>1, <2>2
<1>5. ClaimsIn(D)' = ClaimsIn(D) \ {k}
  BY <1>4
<1> QED
  BY <1>2, <1>3, <1>5 DEF SlotStep

\* One worker of D is born, and collides with no live worker of D: its claim is
\* acquired.
LEMMA ClaimAcquired ==
  ASSUME TypeOK', NEW D, NEW w \in Workers, worker'[w].parent \in D,
         ~Live(w), worker'[w].state \in LiveStates,
         \A v \in Workers : v # w => worker'[v] = worker[v],
         \A v \in Workers : v # w /\ Live(v) /\ worker[v].parent \in D => ~CollideNext(v, w)
  PROVE  SlotStep(ClaimsIn(D), ClaimsIn(D)')
<1> DEFINE k == Claim(w)'
<1>1. \A v \in Workers : v # w => Claim(v)' = Claim(v) /\ (Live(v) <=> worker'[v].state \in LiveStates)
                                  /\ worker'[v].parent = worker[v].parent
  BY SameClaim DEF Same, Live
<1>2. k \in [worker : Workers, role : Roles, core : BOOLEAN]
  <2>1. worker'[w].role \in Roles /\ CoreWorker(w)' \in BOOLEAN
    BY DEF TypeOK, WorkerType, CoreWorker, OwnsNodeCore
  <2> QED
    BY <2>1 DEF Claim
<1>3. ASSUME NEW p \in ClaimsIn(D) PROVE p.role # k.role /\ ~(p.core /\ k.core)
  <2>1. PICK v \in Workers : Live(v) /\ worker[v].parent \in D /\ p = Claim(v)
    BY ClaimsFacts
  <2>2. v # w /\ ~CollideNext(v, w)
    BY <2>1
  <2>3. p = Claim(v)'
    BY <1>1, <2>1, <2>2
  <2> QED
    BY <2>2, <2>3 DEF Claim, CollideNext, CoreWorker
<1>4. ASSUME NEW o PROVE o \in ClaimsIn(D)' <=> o \in ClaimsIn(D) \union {k}
  <2>1. CASE o \in ClaimsIn(D)'
    <3>1. PICK v \in Workers : /\ worker'[v].state \in LiveStates /\ worker'[v].parent \in D
                               /\ o = Claim(v)'
      BY <2>1, ClaimsFactsNext
    <3>2. CASE v = w
      BY <2>1, <3>1, <3>2
    <3>3. CASE v # w
      BY <1>1, <2>1, <3>1, <3>3, ClaimsFacts
    <3> QED
      BY <3>2, <3>3
  <2>2. CASE o \in ClaimsIn(D)
    <3>1. PICK v \in Workers : Live(v) /\ worker[v].parent \in D /\ o = Claim(v)
      BY <2>2, ClaimsFacts
    <3> QED
      BY <1>1, <2>2, <3>1, ClaimsFactsNext
  <2>3. CASE o = k
    BY <2>3, ClaimsFactsNext
  <2> QED
    BY <2>1, <2>2, <2>3
<1>5. ClaimsIn(D)' = ClaimsIn(D) \union {k}
  BY <1>4
<1> QED
  BY <1>2, <1>3, <1>5 DEF SlotStep

\* What a step does to the workers: nothing, a move of one that was born, or a
\* birth.
LEMMA WorkerSteps ==
  ASSUME IInv, [Next]_vars
  PROVE  \/ UNCHANGED worker
         \/ \E w \in Workers, s \in {"dead"} \union LiveStates :
              /\ worker[w].state # "unborn" /\ (s \in LiveStates => Live(w))
              /\ worker' = [worker EXCEPT ![w].state = s]
         \/ \E w \in Workers :
              /\ worker[w].state = "unborn" /\ worker'[w].state = "booting"
              /\ worker'[w].parent \in Desktops
              /\ desktop[worker'[w].parent] = "up" /\ UNCHANGED desktop
              /\ \A v \in Workers : v # w => worker'[v] = worker[v]
<1> DEFINE Moves == \E w \in Workers, s \in {"dead"} \union LiveStates :
                      /\ worker[w].state # "unborn" /\ (s \in LiveStates => Live(w))
                      /\ worker' = [worker EXCEPT ![w].state = s]
           Births == \E w \in Workers :
                       /\ worker[w].state = "unborn" /\ worker'[w].state = "booting"
                       /\ worker'[w].parent \in Desktops
                       /\ desktop[worker'[w].parent] = "up" /\ UNCHANGED desktop
                       /\ \A v \in Workers : v # w => worker'[v] = worker[v]
<1>1. ASSUME NEW d \in Desktops, DesktopStep(d) PROVE UNCHANGED worker
  BY <1>1 DEF DesktopStep, Launch, DesktopEnds, StatusPoll
<1>2. ASSUME NEW w \in Workers, Kill(w), worker[w].state # "unborn" PROVE Moves
  <2>1. "dead" \in {"dead"} \union LiveStates /\ "dead" \notin LiveStates
    BY DEF LiveStates
  <2>2. worker' = [worker EXCEPT ![w].state = "dead"]
    BY <1>2 DEF Kill
  <2> QED
    BY <1>2, <2>1, <2>2
<1>3. ASSUME NEW c \in Calls, StartStep(c) PROVE UNCHANGED worker \/ Moves \/ Births
  <2>1. CASE InspectLease(c) \/ ObserveStaleLease(c) \/ UnlinkStaleLease(c)
    BY <2>1 DEF InspectLease, ObserveStaleLease, UnlinkStaleLease
  <2>2. CASE EnterRegistry(c) \/ ReserveLease(c) \/ WriteLease(c) \/ StartSucceeds(c)
    BY <2>2 DEF EnterRegistry, ReserveLease, WriteLease, StartSucceeds
  <2>3. CASE SpawnWorker(c)
    <3>1. CASE UNCHANGED worker
      BY <3>1
    <3>2. CASE ~UNCHANGED worker
      <4>1. PICK w \in Workers :
              /\ worker[w].state = "unborn"
              /\ worker' = [worker EXCEPT ![w] =
                   [state |-> "booting", parent |-> call[c].desktop,
                    role |-> call[c].role, mode |-> call[c].mode]]
        BY <2>3, <3>2 DEF SpawnWorker
      <4>2. /\ call[c].desktop \in Desktops /\ desktop[call[c].desktop] = "up"
            /\ UNCHANGED desktop
        BY <2>3, CallFields DEF SpawnWorker
      <4> QED
        BY <4>1, <4>2 DEF IInv, TypeOK
    <3> QED
      BY <3>1, <3>2
  <2>4. CASE PublishSidecar(c) \/ StartFails(c)
    <3>1. Spawned(c) /\ (UNCHANGED worker \/ Kill(call[c].child))
      BY <2>4 DEF PublishSidecar, StartFails, Spawned
    <3>2. call[c].child \in Workers /\ worker[call[c].child].state # "unborn"
      BY <3>1 DEF IInv, ChildInv
    <3> QED
      BY <1>2, <3>1, <3>2
  <2> QED
    BY <1>3, <2>1, <2>2, <2>3, <2>4 DEF StartStep
<1>4. ASSUME NEW c \in Calls, StopStep(c) PROVE UNCHANGED worker \/ Moves
  <2>1. CASE StopEnter(c) \/ StopRemoves(c) \/ StopFails(c)
    BY <2>1 DEF StopEnter, StopRemoves, StopFails
  <2>2. CASE StopEndsWorker(c)
    <3> DEFINE w == registry[call[c].desktop][NextKey(c)]
    <3>1. Kill(w) /\ Live(w)
      BY <2>2 DEF StopEndsWorker
    <3>2. w \in Workers \/ worker' = worker
      BY <3>1 DEF Kill, IInv, TypeOK
    <3> QED
      BY <1>2, <3>1, <3>2 DEF Live, LiveStates
  <2> QED
    BY <1>4, <2>1, <2>2 DEF StopStep
<1>5. ASSUME NEW c \in Calls, CallStep(c) PROVE UNCHANGED worker \/ Moves \/ Births
  BY <1>3, <1>4, <1>5 DEF CallStep, StartBegin, StopBegin
<1>6. ASSUME NEW w \in Workers, WorkerStep(w) PROVE Moves
  <2>1. CASE WorkerChecksParent(w)
    <3>1. PICK s \in {"starting", "dead"} : worker' = [worker EXCEPT ![w].state = s]
      BY <2>1 DEF WorkerChecksParent
    <3> QED
      BY <2>1, <3>1 DEF WorkerChecksParent, Live, LiveStates
  <2>2. CASE WorkerReady(w)
    BY <2>2 DEF WorkerReady, Live, LiveStates
  <2>3. CASE WorkerTakesStop(w)
    BY <2>3 DEF WorkerTakesStop, Live, LiveStates
  <2>4. CASE WorkerExits(w) \/ WorkerLosesParent(w)
    BY <2>4 DEF WorkerExits, WorkerLosesParent, Kill, Live, LiveStates
  <2> QED
    BY <1>6, <2>1, <2>2, <2>3, <2>4 DEF WorkerStep
<1>7. CASE \E r \in Roles : LeaseAges(r)
  BY <1>7 DEF LeaseAges
<1>8. CASE UNCHANGED vars
  BY <1>8 DEF vars
<1> QED
  BY <1>1, <1>5, <1>6, <1>7, <1>8 DEF Next

\* A step is a step of OwnerSlots for the workers of D, or none, provided that
\* the live workers of D do not collide after it.
LEMMA StepOfSlots ==
  ASSUME IInv, [Next]_vars, NEW D,
         \A v, w \in Workers :
           LiveNext(v, D) /\ LiveNext(w, D) /\ CollideNext(v, w) => v = w
  PROVE  SlotStep(ClaimsIn(D), ClaimsIn(D)')
<1>1. TypeOK /\ TypeOK'
  BY NextPreserves DEF IInv
<1>2. CASE UNCHANGED worker
  <2>1. ClaimsIn(D)' = ClaimsIn(D)
    BY <1>2, ClaimsStay DEF Same, Live
  <2> QED
    BY <2>1 DEF SlotStep
<1>3. CASE \E w \in Workers, s \in {"dead"} \union LiveStates :
             /\ worker[w].state # "unborn" /\ (s \in LiveStates => Live(w))
             /\ worker' = [worker EXCEPT ![w].state = s]
  <2>1. PICK w \in Workers, s \in {"dead"} \union LiveStates :
          /\ worker[w].state # "unborn" /\ (s \in LiveStates => Live(w))
          /\ worker' = [worker EXCEPT ![w].state = s]
    BY <1>3
  <2>2. /\ worker'[w].state = s /\ Same(w)
        /\ \A v \in Workers : v # w => worker'[v] = worker[v]
    BY <1>1, <2>1, WorkerMoves DEF TypeOK, Same
  <2>3. CASE Live(w) /\ s = "dead" /\ worker[w].parent \in D
    BY <1>1, <2>2, <2>3, ClaimReleased DEF LiveStates
  <2>4. CASE Live(w) /\ s = "dead" /\ worker[w].parent \notin D
    <3>1. ASSUME NEW o PROVE o \in ClaimsIn(D)' <=> o \in ClaimsIn(D)
      <4>1. \A v \in Workers : Claim(v)' = Claim(v)
        BY <2>2, SameClaim DEF Same
      <4>2. \A v \in Workers :
              worker'[v].state \in LiveStates /\ worker'[v].parent \in D
                <=> Live(v) /\ worker[v].parent \in D
        BY <2>2, <2>4 DEF Same, Live
      <4> QED
        BY <4>1, <4>2, ClaimsFacts, ClaimsFactsNext
    <3>2. ClaimsIn(D)' = ClaimsIn(D)
      BY <3>1
    <3> QED
      BY <3>2 DEF SlotStep
  <2>5. CASE Live(w) <=> s \in LiveStates
    <3>1. \A v \in Workers : Same(v) /\ (worker'[v].state \in LiveStates <=> Live(v))
      BY <2>2, <2>5 DEF Same, Live
    <3>2. ClaimsIn(D)' = ClaimsIn(D)
      BY <3>1, ClaimsStay
    <3> QED
      BY <3>2 DEF SlotStep
  <2> QED
    BY <2>1, <2>3, <2>4, <2>5 DEF LiveStates
<1>4. CASE \E w \in Workers :
             /\ worker[w].state = "unborn" /\ worker'[w].state = "booting"
             /\ worker'[w].parent \in Desktops
             /\ \A v \in Workers : v # w => worker'[v] = worker[v]
  <2>1. PICK w \in Workers :
          /\ worker[w].state = "unborn" /\ worker'[w].state = "booting"
          /\ \A v \in Workers : v # w => worker'[v] = worker[v]
    BY <1>4
  <2>2. ~Live(w) /\ worker'[w].state \in LiveStates
    BY <2>1 DEF Live, LiveStates
  <2>3. CASE worker'[w].parent \in D
    <3>1. ASSUME NEW v \in Workers, v # w, Live(v), worker[v].parent \in D
          PROVE  ~CollideNext(v, w)
      <4>1. worker'[v].state \in LiveStates /\ worker'[v].parent \in D
        BY <2>1, <3>1 DEF Live
      <4> QED
        BY <2>2, <2>3, <3>1, <4>1 DEF LiveNext
    <3> QED
      BY <1>1, <2>1, <2>2, <2>3, <3>1, ClaimAcquired
  <2>4. CASE worker'[w].parent \notin D
    <3>1. ASSUME NEW o PROVE o \in ClaimsIn(D)' <=> o \in ClaimsIn(D)
      <4>1. \A v \in Workers : v # w => Claim(v)' = Claim(v)
        BY <2>1, SameClaim DEF Same
      <4>2. \A v \in Workers :
              v # w => (worker'[v].state \in LiveStates /\ worker'[v].parent \in D
                          <=> Live(v) /\ worker[v].parent \in D)
        BY <2>1 DEF Live
      <4> QED
        BY <2>2, <2>4, <4>1, <4>2, ClaimsFacts, ClaimsFactsNext
    <3>2. ClaimsIn(D)' = ClaimsIn(D)
      BY <3>1
    <3> QED
      BY <3>2 DEF SlotStep
  <2> QED
    BY <2>3, <2>4
<1> QED
  BY <1>2, <1>3, <1>4, WorkerSteps

LEMMA OneDesktopsClaims ==
  ASSUME NEW d
  PROVE  OwnedBy(d) = ClaimsIn({d}) /\ OwnedBy(d)' = ClaimsIn({d})'
<1>1. \A w \in Workers : worker[w].parent = d <=> worker[w].parent \in {d}
  OBVIOUS
<1>2. \A w \in Workers : worker'[w].parent = d <=> worker'[w].parent \in {d}
  OBVIOUS
<1> QED
  BY <1>1, <1>2 DEF OwnedBy, ClaimsIn

\* The workers of one desktop go through the steps of OwnerSlots only, whatever
\* other desktops do and whatever happens to the lease files.
THEOREM EachDesktopImplementsOwnerSlotsHolds == Spec => EachDesktopImplementsOwnerSlots
<1>1. Init => \A d \in Desktops : OfDesktop(d)!Init
  BY DEF Init, OwnedBy, ClaimsOf, Live, LiveStates, UnbornWorker, OfDesktop!Init
<1>2. IInv /\ [Next]_vars => [\A d \in Desktops : OfDesktop(d)!Next \/ UNCHANGED OwnedBy(d)]_vars
  <2> SUFFICES ASSUME IInv, [Next]_vars, NEW d \in Desktops
               PROVE  OfDesktop(d)!Next \/ UNCHANGED OwnedBy(d)
    OBVIOUS
  <2>1. SlotStep(ClaimsIn({d}), ClaimsIn({d})')
    <3>1. OneOwnerPerDesktop'
      BY NextPreserves DEF IInv
    <3>2. \A v, w \in Workers :
            LiveNext(v, {d}) /\ LiveNext(w, {d}) /\ CollideNext(v, w) => v = w
      BY <3>1 DEF OneOwnerPerDesktop, Live, LiveNext, Collide, CollideNext, CoreWorker
    <3> QED
      BY <3>2, StepOfSlots
  <2>2. SlotStep(OwnedBy(d), OwnedBy(d)')
    BY <2>1, OneDesktopsClaims
  <2> QED
    BY <2>2 DEF SlotStep, OfDesktop!Next, OfDesktop!Acquire, OfDesktop!Release, OfDesktop!Claims,
                Roles
<1> QED
  BY <1>1, <1>2, Inductive, PTL DEF Spec, EachDesktopImplementsOwnerSlots

-----------------------------------------------------------------------------
(* The machine-wide promise, while the desktops follow one another.        *)

\* No two starts are between the look at a stale lease and its removal at the same
\* time: the second would remove, by path, what the first reserves next.
ReconcileAlone ==
  \A a, b \in Calls :
    /\ call[a].pc \in {"observe", "unlink"} /\ call[b].pc \in {"observe", "unlink"}
    /\ call[a].target = call[b].target
    => a = b

OneDesktopUp == \A d, e \in Desktops : desktop[d] = "up" /\ desktop[e] = "up" => d = e

\* A registry entry belongs to a desktop that is up.  The lease of its role is
\* that desktop's or gone, and is there with its sidecar while the worker lives.
EntryInv ==
  \A d \in Desktops, r \in Roles :
    registry[d][r] # None =>
      /\ desktop[d] = "up"
      /\ lease[r].state = "absent" \/ lease[r].parent = d
      /\ Live(registry[d][r]) => sidecar[d][r] = registry[d][r]

LeaseInv ==
  \A r \in Roles :
    lease[r].state # "absent" => /\ lease[r].parent \in Desktops
                                 /\ desktop[lease[r].parent] # "off"

\* A sidecar stands beside the lease of its own desktop and names a worker of
\* that desktop and role.
SidecarInv ==
  \A d \in Desktops, r \in Roles :
    sidecar[d][r] # None => /\ lease[r].state = "published" /\ lease[r].parent = d
                            /\ worker[sidecar[d][r]].state # "unborn"
                            /\ worker[sidecar[d][r]].parent = d
                            /\ worker[sidecar[d][r]].role = r

\* The lease is the worker's desktop's, and no sidecar names another worker.
Holds(w) ==
  LET d == worker[w].parent
      r == worker[w].role IN
  /\ lease[r].state = "published" /\ lease[r].parent = d
  /\ lease[r].mode = worker[w].mode
  /\ sidecar[d][r] \in {w, None}

\* Every worker that can be known, orphans included, is covered by its lease.
HeldInv == \A w \in Workers : Known(w) => Holds(w)

\* One known owner per role and one known node core on the whole machine.
OneOwnerInv ==
  \A v, w \in Workers : Known(v) /\ Known(w) /\ Collide(v, w) => v = w

FilesInv ==
  OneDesktopUp /\ EntryInv /\ LeaseInv /\ SidecarInv /\ HeldInv /\ OneOwnerInv

RoleFree(r) == \A w \in Workers : Known(w) => worker[w].role # r

\* No known worker of another desktop is in the way of what c starts.
NoForeignRole(c) ==
  \A w \in Workers :
    Known(w) /\ worker[w].parent # call[c].desktop => worker[w].role # call[c].role

NoForeignCore(c) ==
  \A w \in Workers :
    Known(w) /\ worker[w].parent # call[c].desktop
      => ~(CoreWorker(w) /\ OwnsNodeCore(call[c].role, call[c].mode))

\* The reservation of c: created or published.
Reserved(c, state) ==
  LET l == lease[call[c].role] IN
  /\ l.state = state /\ l.parent = call[c].desktop /\ l.mode = call[c].mode

\* What each point of a command relies on.
ReconcileInv(c) ==
  /\ call[c].pc \in {"observe", "unlink"} =>
       /\ call[c].seen \in Desktops /\ desktop[call[c].seen] = "gone"
       /\ lease[call[c].target].state = "published"
       /\ lease[call[c].target].parent = call[c].seen
  /\ call[c].pc = "unlink" => RoleFree(call[c].target)
  /\ call[c].pc \in {"inspect", "observe", "unlink"} /\ call[c].target # call[c].role
       => NoForeignRole(c)
  /\ call[c].pc \in {"lock", "reserve", "write", "spawn"}
       => NoForeignRole(c) /\ NoForeignCore(c)

ReservedInv(c) ==
  /\ call[c].pc = "write" => Reserved(c, "created")
  /\ call[c].pc \in {"spawn", "publish"} =>
       Reserved(c, "published") /\ sidecar[call[c].desktop][call[c].role] = None
  /\ call[c].pc = "await" => sidecar[call[c].desktop][call[c].role] = call[c].child
  /\ call[c].pc = "stop" =>
       call[c].keys # {} /\ \A r \in call[c].keys : registry[call[c].desktop][r] # None

CommandInv == \A c \in Calls : ReconcileInv(c) /\ ReservedInv(c)

SeqInv == IInv /\ FilesInv /\ CommandInv

-----------------------------------------------------------------------------
(* What the files and the workers do in a step.                            *)

\* Workers advance or die; none is born, none becomes known.
WorkersMoveOn ==
  \A w \in Workers : /\ Same(w)
                     /\ worker'[w].state = "unborn" <=> worker[w].state = "unborn"
                     /\ worker'[w].state \in LiveStates => Live(w)
                     /\ Known(w)' => Known(w)

\* No desktop is launched or ends, and no sidecar is written.
NothingNamed ==
  /\ UNCHANGED desktop
  /\ \A e \in Desktops, r \in Roles : sidecar'[e][r] \in {sidecar[e][r], None}

LEMMA KnownFrame ==
  ASSUME IInv, NothingNamed,
         \A w \in Workers : /\ Same(w)
                            /\ worker'[w].state = "unborn" <=> worker[w].state = "unborn"
                            /\ worker'[w].state \in LiveStates => Live(w)
  PROVE  WorkersMoveOn
<1>1. ASSUME NEW w \in Workers, Known(w)' PROVE Known(w)
  <2>1. /\ Live(w) /\ w # None
        /\ worker'[w].parent = worker[w].parent /\ worker'[w].role = worker[w].role
    BY <1>1, NoneAssumption DEF Known, Live, Same
  <2>2. worker[w].parent \in Desktops /\ worker[w].role \in Roles
    BY <2>1 DEF IInv, TypeOK, WorkerType, BornInv, Live, LiveStates
  <2>3. CASE desktop'[worker'[w].parent] = "up"
    BY <2>1, <2>3 DEF Known, NothingNamed
  <2>4. CASE sidecar'[worker'[w].parent][worker'[w].role] = w
    BY <2>1, <2>2, <2>4 DEF Known, NothingNamed
  <2> QED
    BY <1>1, <2>3, <2>4 DEF Known
<1> QED
  BY <1>1 DEF WorkersMoveOn

LEMMA UnnamedWorkers ==
  ASSUME SeqInv, NothingNamed, UNCHANGED worker PROVE WorkersMoveOn
  BY KnownFrame DEF Same, Live, SeqInv

LEMMA StillWorkers ==
  ASSUME SeqInv, UNCHANGED <<desktop, worker, sidecar>> PROVE WorkersMoveOn
  BY UnnamedWorkers DEF NothingNamed

LEMMA FilesUnnamed ==
  ASSUME SeqInv, UNCHANGED desktop, NEW d, NEW R, RemoveFiles(d, R) PROVE NothingNamed
  BY DEF NothingNamed, RemoveFiles, SeqInv, IInv, TypeOK

LEMMA KilledWorker ==
  ASSUME SeqInv, NothingNamed, NEW w \in Workers, worker[w].state # "unborn", Kill(w)
  PROVE  WorkersMoveOn
<1>1. \A v \in Workers : /\ Same(v)
                         /\ worker'[v].state = "unborn" <=> worker[v].state = "unborn"
                         /\ worker'[v].state \in LiveStates => Live(v)
  BY KillFacts DEF SeqInv, IInv, TypeOK, Same, Live, LiveStates
<1> QED
  BY <1>1, KnownFrame DEF SeqInv

LEMMA KnownFacts ==
  ASSUME SeqInv, NEW w \in Workers, Known(w)
  PROVE  /\ worker[w].parent \in Desktops /\ worker[w].role \in Roles
         /\ worker[w].state # "unborn" /\ w # None
         /\ Live(w) /\ Holds(w)
<1>1. Live(w)
  BY DEF Known
<1>2. /\ worker[w].parent \in Desktops /\ worker[w].role \in Roles
      /\ worker[w].state # "unborn" /\ w # None
  BY <1>1, NoneAssumption DEF SeqInv, IInv, TypeOK, BornInv, WorkerType, Live, LiveStates
<1>3. Holds(w)
  BY DEF SeqInv, FilesInv, HeldInv
<1> QED
  BY <1>1, <1>2, <1>3

\* Where there is no published lease, nobody owns the role and no sidecar stands.
LEMMA NoLeaseNoOwner ==
  ASSUME SeqInv, NEW r \in Roles, lease[r].state # "published"
  PROVE  RoleFree(r) /\ \A e \in Desktops : sidecar[e][r] = None
<1>1. RoleFree(r)
  BY KnownFacts DEF RoleFree, Holds
<1>2. \A e \in Desktops : sidecar[e][r] = None
  BY DEF SeqInv, FilesInv, SidecarInv
<1> QED
  BY <1>1, <1>2

\* The files of the roles of R go, where no registered and no known worker lives any
\* more.
LEMMA DropFiles ==
  ASSUME SeqInv, WorkersMoveOn, UNCHANGED desktop, NEW R \in SUBSET Roles,
         \A r \in R : /\ lease'[r] = NoLease
                      /\ \A e \in Desktops : sidecar'[e][r] = None
                      /\ \A e \in Desktops :
                           registry[e][r] # None => worker'[registry[e][r]].state \notin LiveStates
                      /\ \A w \in Workers :
                           Known(w) /\ worker'[w].state \in LiveStates => worker[w].role # r,
         \A r \in Roles \ R : /\ lease'[r] = lease[r]
                              /\ \A e \in Desktops : sidecar'[e][r] = sidecar[e][r],
         \A e \in Desktops, r \in Roles : registry'[e][r] \in {registry[e][r], None}
  PROVE  FilesInv'
<1>1. OneDesktopUp' /\ LeaseInv'
  BY DEF SeqInv, FilesInv, OneDesktopUp, LeaseInv, NoLease
<1>2. EntryInv'
  <2>1. ASSUME NEW d \in Desktops, NEW r \in Roles, registry'[d][r] # None
        PROVE  /\ desktop'[d] = "up"
               /\ lease'[r].state = "absent" \/ lease'[r].parent = d
               /\ worker'[registry'[d][r]].state \in LiveStates
                    => sidecar'[d][r] = registry'[d][r]
    <3> DEFINE v == registry[d][r]
    <3>1. /\ registry'[d][r] = v /\ v # None /\ v \in Workers
          /\ worker[v].role = r
      BY <2>1 DEF SeqInv, IInv, TypeOK, RegistryInv
    <3>2. /\ desktop[d] = "up" /\ (lease[r].state = "absent" \/ lease[r].parent = d)
          /\ Live(v) => sidecar[d][r] = v
      BY <3>1 DEF SeqInv, FilesInv, EntryInv
    <3>3. worker'[v].state \in LiveStates => Live(v) /\ r \notin R
      BY <3>1 DEF WorkersMoveOn
    <3>4. lease'[r].state = "absent" \/ lease'[r] = lease[r]
      BY DEF NoLease
    <3> HIDE DEF v
    <3> QED
      BY <3>1, <3>2, <3>3, <3>4
  <2> QED
    BY <2>1 DEF EntryInv, Live
<1>3. SidecarInv'
  <2>1. ASSUME NEW d \in Desktops, NEW r \in Roles, sidecar'[d][r] # None
        PROVE  /\ lease'[r].state = "published" /\ lease'[r].parent = d
               /\ worker'[sidecar'[d][r]].state # "unborn"
               /\ worker'[sidecar'[d][r]].parent = d
               /\ worker'[sidecar'[d][r]].role = r
    <3>1. r \notin R /\ sidecar'[d][r] = sidecar[d][r] /\ lease'[r] = lease[r]
      BY <2>1
    <3>2. sidecar[d][r] \in Workers
      BY <2>1, <3>1 DEF SeqInv, IInv, TypeOK
    <3> QED
      BY <2>1, <3>1, <3>2 DEF SeqInv, FilesInv, SidecarInv, WorkersMoveOn, Same
  <2> QED
    BY <2>1 DEF SidecarInv
<1>4. HeldInv'
  <2>1. ASSUME NEW w \in Workers, Known(w)' PROVE Holds(w)'
    <3> DEFINE d == worker[w].parent
               r == worker[w].role
    <3>1. /\ worker'[w].parent = d /\ worker'[w].role = r
          /\ worker'[w].mode = worker[w].mode /\ Known(w)
          /\ worker'[w].state \in LiveStates
      BY <2>1 DEF WorkersMoveOn, Same, Known, Live
    <3>2. d \in Desktops /\ r \in Roles /\ Holds(w)
      BY <3>1, KnownFacts
    <3>3. lease'[r] = lease[r] /\ sidecar'[d][r] = sidecar[d][r]
      BY <3>1, <3>2
    <3> QED
      BY <3>1, <3>2, <3>3 DEF Holds
  <2> QED
    BY <2>1 DEF HeldInv
<1>5. OneOwnerInv'
  BY DEF SeqInv, FilesInv, OneOwnerInv, WorkersMoveOn, Same, Collide, CoreWorker, Live
<1> QED
  BY <1>1, <1>2, <1>3, <1>4, <1>5 DEF FilesInv

\* Nothing happens to the files.
LEMMA KeepFiles ==
  ASSUME SeqInv, WorkersMoveOn, UNCHANGED <<desktop, registry, lease, sidecar>>
  PROVE  FilesInv'
<1> DEFINE R == {}
<1>1. R \in SUBSET Roles /\ \A r \in R : FALSE
  OBVIOUS
<1>2. /\ \A r \in Roles \ R : /\ lease'[r] = lease[r]
                              /\ \A e \in Desktops : sidecar'[e][r] = sidecar[e][r]
      /\ \A e \in Desktops, r \in Roles : registry'[e][r] \in {registry[e][r], None}
  OBVIOUS
<1> HIDE DEF R
<1> QED
  BY <1>1, <1>2, DropFiles

\* Where a registry holds a worker that has exited, nobody else is registered for
\* its role and, nobody known of its role lives, on the whole machine.
LEMMA DeadEntryFacts ==
  ASSUME SeqInv, NEW d \in Desktops, NEW r \in Roles, DeadEntry(d, r),
         \A x \in Calls : Spawned(x) => call[x].desktop # d
  PROVE  /\ RoleFree(r)
         /\ \A e \in Desktops : /\ sidecar[e][r] # None => e = d
                                /\ registry[e][r] # None => e = d
<1>1. desktop[d] = "up" /\ (lease[r].state = "absent" \/ lease[r].parent = d)
  BY DEF DeadEntry, SeqInv, FilesInv, EntryInv
<1>2. ASSUME NEW w \in Workers, Known(w), worker[w].role = r PROVE FALSE
  <2>1. lease[r].state = "published" /\ lease[r].parent = worker[w].parent /\ Live(w)
    BY <1>2, KnownFacts DEF Holds
  <2>2. worker[w].parent = d
    BY <1>1, <2>1
  <2>3. registry[d][r] = w
    BY <1>1, <1>2, <2>1, <2>2 DEF SeqInv, IInv, AccountedInv
  <2> QED
    BY <2>1, <2>3 DEF DeadEntry
<1>3. \A e \in Desktops : sidecar[e][r] # None => e = d
  BY <1>1 DEF SeqInv, FilesInv, SidecarInv
<1>4. \A e \in Desktops : registry[e][r] # None => e = d
  BY <1>1 DEF SeqInv, FilesInv, EntryInv, OneDesktopUp
<1> QED
  BY <1>2, <1>3, <1>4 DEF RoleFree

\* The files of exited workers of d are removed.
LEMMA RemoveDeadFiles ==
  ASSUME SeqInv, UNCHANGED <<desktop, worker>>, NEW d \in Desktops, NEW R \in SUBSET Roles,
         \A r \in R : DeadEntry(d, r),
         \A x \in Calls : Spawned(x) => call[x].desktop # d,
         RemoveFiles(d, R),
         \A e \in Desktops, r \in Roles : registry'[e][r] \in {registry[e][r], None}
  PROVE  FilesInv'
<1>1. /\ \A r \in Roles : lease'[r] = IF r \in R THEN NoLease ELSE lease[r]
      /\ \A e \in Desktops, r \in Roles :
           sidecar'[e][r] = IF e = d /\ r \in R THEN None ELSE sidecar[e][r]
  BY DEF RemoveFiles, SeqInv, IInv, TypeOK
<1>2. \A r \in R : /\ RoleFree(r)
                   /\ \A e \in Desktops : /\ sidecar[e][r] # None => e = d
                                          /\ registry[e][r] # None => e = d
  BY DeadEntryFacts
<1>3. WorkersMoveOn
  BY FilesUnnamed, UnnamedWorkers
<1>4. \A r \in R : /\ lease'[r] = NoLease
                   /\ \A e \in Desktops : sidecar'[e][r] = None
                   /\ \A e \in Desktops :
                        registry[e][r] # None => worker'[registry[e][r]].state \notin LiveStates
                   /\ \A w \in Workers :
                        Known(w) /\ worker'[w].state \in LiveStates => worker[w].role # r
  BY <1>1, <1>2 DEF RoleFree, Live, DeadEntry
<1>5. \A r \in Roles \ R : /\ lease'[r] = lease[r]
                           /\ \A e \in Desktops : sidecar'[e][r] = sidecar[e][r]
  BY <1>1
<1> QED
  BY <1>3, <1>4, <1>5, DropFiles

-----------------------------------------------------------------------------
(* What the command knows.                                                 *)

\* All that a move of the program counter keeps.
LEMMA GotoKeeps ==
  ASSUME call \in [Calls -> CallType], NEW c \in Calls,
         NEW pc \in {"idle"} \union StartPcs \union StopPcs, Goto(c, pc)
  PROVE  /\ call'[c].pc = pc
         /\ call'[c].desktop = call[c].desktop /\ call'[c].role = call[c].role
         /\ call'[c].mode = call[c].mode /\ call'[c].child = call[c].child
         /\ call'[c].target = call[c].target /\ call'[c].seen = call[c].seen
         /\ call'[c].keys = call[c].keys
  BY DEF Goto, CallType

LEMMA ReconciledKeeps ==
  ASSUME call \in [Calls -> CallType], NEW c \in Calls, Reconciled(c)
  PROVE  /\ call'[c].desktop = call[c].desktop /\ call'[c].role = call[c].role
         /\ call'[c].mode = call[c].mode
         /\ IF AlsoReconciles(c) THEN call'[c].pc = "inspect" ELSE call'[c].pc = "lock"
<1>1. CASE AlsoReconciles(c)
  <2>1. call' = [call EXCEPT ![c] = [@ EXCEPT !.pc = "inspect", !.target = Other(call[c].role)]]
    BY <1>1 DEF Reconciled
  <2>2. ASSUME NEW k \in CallType, NEW t
        PROVE  /\ [k EXCEPT !.pc = "inspect", !.target = t].pc = "inspect"
               /\ [k EXCEPT !.pc = "inspect", !.target = t].desktop = k.desktop
               /\ [k EXCEPT !.pc = "inspect", !.target = t].role = k.role
               /\ [k EXCEPT !.pc = "inspect", !.target = t].mode = k.mode
    BY DEF CallType
  <2>3. call[c] \in CallType
    OBVIOUS
  <2> HIDE DEF CallType
  <2> QED
    BY <1>1, <2>1, <2>2, <2>3
<1>2. CASE ~AlsoReconciles(c)
  BY <1>2 DEF Reconciled, CallType
<1> QED
  BY <1>1, <1>2

LEMMA CommandFacts ==
  ASSUME SeqInv, NEW c \in Calls
  PROVE  IInv /\ FilesInv /\ ReconcileInv(c) /\ ReservedInv(c)
  BY DEF SeqInv, CommandInv

LEMMA RoleStaysFree ==
  ASSUME NEW r, WorkersMoveOn, RoleFree(r)
  PROVE  RoleFree(r)'
  BY DEF RoleFree, WorkersMoveOn, Same

\* Nobody comes in the way of a start that keeps its aim.
LEMMA NoForeignStays ==
  ASSUME NEW c \in Calls, WorkersMoveOn,
         call'[c].desktop = call[c].desktop, call'[c].role = call[c].role,
         call'[c].mode = call[c].mode
  PROVE  /\ NoForeignRole(c) => NoForeignRole(c)'
         /\ NoForeignCore(c) => NoForeignCore(c)'
<1>1. NoForeignRole(c) => NoForeignRole(c)'
  BY DEF NoForeignRole, WorkersMoveOn, Same
<1>2. NoForeignCore(c) => NoForeignCore(c)'
  BY DEF NoForeignCore, WorkersMoveOn, Same, CoreWorker
<1> QED
  BY <1>1, <1>2

\* The lease just reconciled has no owner any more: its start goes on to the
\* other role's lease, or to the mutex with nobody of another desktop in its way.
LEMMA ReconciledCommand ==
  ASSUME SeqInv, WorkersMoveOn, NEW c \in Calls,
         call[c].pc \in {"inspect", "observe", "unlink"},
         RoleFree(call[c].target), Reconciled(c)
  PROVE  ReconcileInv(c)' /\ ReservedInv(c)'
<1> DEFINE r == call[c].role
           t == call[c].target
<1>1. /\ r \in Roles /\ t \in Roles /\ call[c].mode \in Modes
      /\ t # r => NoForeignRole(c)
  BY CallFields, CommandFacts DEF ReconcileInv
<1>2. /\ call'[c].desktop = call[c].desktop /\ call'[c].role = r /\ call'[c].mode = call[c].mode
      /\ IF AlsoReconciles(c) THEN call'[c].pc = "inspect" ELSE call'[c].pc = "lock"
  BY ReconciledKeeps DEF SeqInv, IInv, TypeOK
<1>3. NoForeignRole(c)
  BY <1>1 DEF RoleFree, NoForeignRole
<1>4. ~AlsoReconciles(c) => NoForeignCore(c)
  <2> SUFFICES ASSUME ~AlsoReconciles(c), NEW w \in Workers, Known(w),
                      worker[w].parent # call[c].desktop, CoreWorker(w),
                      OwnsNodeCore(r, call[c].mode)
               PROVE  FALSE
    BY DEF NoForeignCore
  <2>1. worker[w].role \in Roles /\ worker[w].role # r /\ worker[w].role # t /\ Holds(w)
    BY <1>3, KnownFacts DEF RoleFree, NoForeignRole
  <2>2. t = r
    BY <1>1, <2>1 DEF Roles
  <2>3. CASE r = "bridge"
    BY <1>1, <2>2, <2>3 DEF AlsoReconciles, OwnsNodeCore
  <2>4. CASE r = "node"
    <3>1. worker[w].role = "bridge"
      BY <2>1, <2>4 DEF Roles
    <3>2. worker[w].mode = "inprocess"
      BY <3>1 DEF CoreWorker, OwnsNodeCore
    <3> QED
      BY <2>1, <2>2, <2>4, <3>1, <3>2 DEF AlsoReconciles, Holds
  <2> QED
    BY <1>1, <2>3, <2>4 DEF Roles
<1>5. NoForeignRole(c)' /\ (~AlsoReconciles(c) => NoForeignCore(c)')
  BY <1>2, <1>3, <1>4, NoForeignStays
<1>6. ReconcileInv(c)'
  BY <1>2, <1>5 DEF ReconcileInv
<1>7. ReservedInv(c)'
  BY <1>2 DEF ReservedInv
<1> QED
  BY <1>6, <1>7

\* The commands of the one desktop that is up, and the one of them that has its mutex.
LEMMA OneDesktopFacts ==
  ASSUME SeqInv, NEW d \in Desktops, desktop[d] = "up", NEW c \in Calls, call[c].pc # "idle"
  PROVE  call[c].desktop = d
  BY CallFields DEF SeqInv, FilesInv, OneDesktopUp

LEMMA OneLocked ==
  ASSUME SeqInv, NEW c \in Calls, call[c].pc \in LockedPcs, NEW x \in Calls, x # c
  PROVE  call[x].pc \notin LockedPcs
<1> SUFFICES ASSUME call[x].pc \in LockedPcs PROVE FALSE
  OBVIOUS
<1>1. call[c].pc # "idle" /\ call[x].pc # "idle"
  BY DEF LockedPcs
<1>2. call[c].desktop \in Desktops /\ call[x].desktop = call[c].desktop
  BY <1>1, CallFields, OneDesktopFacts DEF SeqInv
<1> QED
  BY <1>2 DEF SeqInv, IInv, MutexInv

\* A command that does not move keeps what it relies on, if its files stay.
LEMMA OtherKeeps ==
  ASSUME SeqInv, WorkersMoveOn, UNCHANGED desktop, NEW x \in Calls, call'[x] = call[x],
         call[x].pc \in {"observe", "unlink"} =>
           /\ lease'[call[x].target].state = lease[call[x].target].state
           /\ lease'[call[x].target].parent = lease[call[x].target].parent,
         call[x].pc \in {"write", "spawn", "publish"} =>
           /\ lease'[call[x].role].state = lease[call[x].role].state
           /\ lease'[call[x].role].parent = lease[call[x].role].parent
           /\ lease'[call[x].role].mode = lease[call[x].role].mode,
         call[x].pc \in {"spawn", "publish", "await"} =>
           sidecar'[call[x].desktop][call[x].role] = sidecar[call[x].desktop][call[x].role],
         call[x].pc = "stop" =>
           \A r \in call[x].keys :
             registry'[call[x].desktop][r] = registry[call[x].desktop][r]
  PROVE  ReconcileInv(x)' /\ ReservedInv(x)'
<1>1. ReconcileInv(x) /\ ReservedInv(x)
  BY CommandFacts
<1>2. /\ NoForeignRole(x) => NoForeignRole(x)'
      /\ NoForeignCore(x) => NoForeignCore(x)'
  BY NoForeignStays
<1>3. RoleFree(call[x].target) => RoleFree(call[x].target)'
  BY RoleStaysFree DEF RoleFree
<1>4. ReconcileInv(x)'
  BY <1>1, <1>2, <1>3 DEF ReconcileInv
<1>5. ReservedInv(x)'
  BY <1>1 DEF ReservedInv, Reserved
<1> QED
  BY <1>4, <1>5

\* Outside the mutex it is enough that the leases of dead desktops stay.
LEMMA UnlockedKeeps ==
  ASSUME SeqInv, WorkersMoveOn, UNCHANGED desktop, NEW x \in Calls, call'[x] = call[x],
         call[x].pc \notin LockedPcs,
         \A r \in Roles :
           \/ lease'[r] = lease[r] \/ lease[r].state = "absent"
           \/ desktop[lease[r].parent] = "up"
  PROVE  ReconcileInv(x)' /\ ReservedInv(x)'
<1>1. ASSUME call[x].pc \in {"observe", "unlink"}
      PROVE  lease'[call[x].target] = lease[call[x].target]
  <2>1. /\ call[x].target \in Roles /\ desktop[call[x].seen] = "gone"
        /\ lease[call[x].target].state = "published"
        /\ lease[call[x].target].parent = call[x].seen
    BY <1>1, CallFields, CommandFacts DEF ReconcileInv
  <2> QED
    BY <2>1
<1> QED
  BY <1>1, OtherKeeps DEF LockedPcs

\* The commands after a step of one of them.
LEMMA AllCommands ==
  ASSUME NEW c \in Calls, ReconcileInv(c)' /\ ReservedInv(c)',
         ASSUME NEW x \in Calls, x # c PROVE ReconcileInv(x)' /\ ReservedInv(x)'
  PROVE  CommandInv'
<1>1. ASSUME NEW x \in Calls PROVE ReconcileInv(x)' /\ ReservedInv(x)'
  <2>1. CASE x = c
    BY <2>1 DEF ReconcileInv, ReservedInv, Reserved, RoleFree, NoForeignRole,
                NoForeignCore, Known, Live, CoreWorker
  <2>2. CASE x # c
    BY <2>2
  <2> QED
    BY <2>1, <2>2
<1> QED
  BY <1>1 DEF CommandInv

\* A command that has returned relies on nothing.
LEMMA ReturnedRelies ==
  ASSUME NEW c \in Calls, call'[c].pc = "idle" PROVE ReconcileInv(c)' /\ ReservedInv(c)'
<1>1. ReconcileInv(c)'
  BY DEF ReconcileInv
<1>2. ReservedInv(c)'
  BY DEF ReservedInv
<1> QED
  BY <1>1, <1>2

\* One command moves while no other is in a locked section.
LEMMA LockedMoves ==
  ASSUME SeqInv, WorkersMoveOn, UNCHANGED desktop, NEW c \in Calls,
         \A x \in Calls : x # c => call'[x] = call[x] /\ call[x].pc \notin LockedPcs,
         \A r \in Roles :
           \/ lease'[r] = lease[r] \/ lease[r].state = "absent"
           \/ desktop[lease[r].parent] = "up",
         ReconcileInv(c)' /\ ReservedInv(c)'
  PROVE  CommandInv'
<1>1. ASSUME NEW x \in Calls, x # c PROVE ReconcileInv(x)' /\ ReservedInv(x)'
  BY <1>1, UnlockedKeeps
<1> QED
  BY <1>1, AllCommands

\* One command moves and touches no file and no worker.
LEMMA QuietSeq ==
  ASSUME SeqInv, UNCHANGED <<desktop, registry, worker, lease, sidecar>>, NEW c \in Calls,
         \A x \in Calls : x # c => call'[x] = call[x],
         ReconcileInv(c)' /\ ReservedInv(c)'
  PROVE  FilesInv' /\ CommandInv'
<1>1. WorkersMoveOn
  BY StillWorkers
<1>2. ASSUME NEW x \in Calls, x # c PROVE ReconcileInv(x)' /\ ReservedInv(x)'
  BY <1>1, <1>2, OtherKeeps
<1>3. CommandInv'
  BY <1>2, AllCommands
<1> QED
  BY <1>1, <1>3, KeepFiles

LEMMA ReturnSeq ==
  ASSUME SeqInv, UNCHANGED <<desktop, registry, worker, lease, sidecar>>,
         NEW c \in Calls, Return(c)
  PROVE  FilesInv' /\ CommandInv'
<1>1. call'[c].pc = "idle" /\ \A x \in Calls : x # c => call'[x] = call[x]
  BY ReturnFacts DEF SeqInv, IInv, TypeOK
<1> QED
  BY <1>1, ReturnedRelies, QuietSeq

-----------------------------------------------------------------------------
(* The steps of the desktops, the workers and the clock.                   *)

LEMMA LaunchSeq ==
  ASSUME ~OverlapAllowed, SeqInv, NEW d \in Desktops, Launch(d) PROVE FilesInv' /\ CommandInv'
<1>1. /\ \A e \in Desktops : desktop[e] # "up"
      /\ \A e \in Desktops : desktop'[e] = IF e = d THEN "up" ELSE desktop[e]
      /\ UNCHANGED <<registry, mutex, call, worker, lease, sidecar>>
  BY DEF Launch, SeqInv, IInv, TypeOK
<1>2. \A e \in Desktops, r \in Roles : registry[e][r] = None
  BY <1>1 DEF SeqInv, FilesInv, EntryInv
<1>3. OneDesktopUp' /\ EntryInv' /\ LeaseInv'
  BY <1>1, <1>2 DEF SeqInv, FilesInv, OneDesktopUp, EntryInv, LeaseInv
<1>4. SidecarInv'
  BY <1>1 DEF SeqInv, FilesInv, SidecarInv
<1>6. \A w \in Workers : Known(w)' => Known(w)
  <2> SUFFICES ASSUME NEW w \in Workers, Known(w)' PROVE Known(w)
    OBVIOUS
  <2>1. Live(w) /\ worker[w].parent # d
    BY <1>1 DEF Known, Launch, SeqInv, IInv, BornInv, Live, LiveStates
  <2>2. worker[w].parent \in Desktops
    BY <2>1 DEF SeqInv, IInv, BornInv, Live, LiveStates
  <2> QED
    BY <1>1, <2>1, <2>2 DEF Known
<1>7. HeldInv' /\ OneOwnerInv'
  BY <1>1, <1>6 DEF SeqInv, FilesInv, HeldInv, Holds, OneOwnerInv, Collide, CoreWorker
<1>5. CommandInv'
  <2>1. ASSUME NEW c \in Calls PROVE ReconcileInv(c)' /\ ReservedInv(c)'
    <3>1. call'[c].pc = "idle"
      BY <1>1, CallFields DEF SeqInv
    <3> QED
      BY <3>1, ReturnedRelies
  <2> QED
    BY <2>1 DEF CommandInv
<1> QED
  BY <1>3, <1>4, <1>5, <1>7 DEF FilesInv

LEMMA DesktopEndsSeq ==
  ASSUME SeqInv, NEW d \in Desktops, DesktopEnds(d) PROVE FilesInv' /\ CommandInv'
<1>1. /\ desktop[d] = "up"
      /\ \A e \in Desktops : desktop'[e] = IF e = d THEN "gone" ELSE desktop[e]
      /\ \A e \in Desktops, r \in Roles :
           registry'[e][r] = IF e = d THEN None ELSE registry[e][r]
      /\ call' = [c \in Calls |-> IF call[c].desktop = d THEN IdleCall ELSE call[c]]
      /\ UNCHANGED <<worker, lease, sidecar>>
  BY DEF DesktopEnds, SeqInv, IInv, TypeOK
<1>2. OneDesktopUp' /\ LeaseInv'
  BY <1>1 DEF SeqInv, FilesInv, OneDesktopUp, LeaseInv
<1>3. EntryInv'
  BY <1>1 DEF SeqInv, FilesInv, EntryInv, Live
<1>4. SidecarInv'
  BY <1>1 DEF SeqInv, FilesInv, SidecarInv
<1>6. \A w \in Workers : Known(w)' => Known(w)
  <2> SUFFICES ASSUME NEW w \in Workers, Known(w)' PROVE Known(w)
    OBVIOUS
  <2>1. Live(w)
    BY <1>1 DEF Known, Live
  <2>2. worker[w].parent \in Desktops
    BY <2>1 DEF SeqInv, IInv, BornInv, Live, LiveStates
  <2> QED
    BY <1>1, <2>1, <2>2 DEF Known
<1>7. HeldInv' /\ OneOwnerInv'
  BY <1>1, <1>6 DEF SeqInv, FilesInv, HeldInv, Holds, OneOwnerInv, Collide, CoreWorker
<1>5. CommandInv'
  <2>1. ASSUME NEW c \in Calls PROVE ReconcileInv(c)' /\ ReservedInv(c)'
    <3>1. call'[c].pc = "idle"
      BY <1>1, OneDesktopFacts DEF IdleCall
    <3> QED
      BY <3>1, ReturnedRelies
  <2> QED
    BY <2>1 DEF CommandInv
<1> QED
  BY <1>2, <1>3, <1>4, <1>5, <1>7 DEF FilesInv

LEMMA StatusPollSeq ==
  ASSUME SeqInv, NEW d \in Desktops, NEW R \in SUBSET Roles, StatusPoll(d, R)
  PROVE  FilesInv' /\ CommandInv'
<1> DEFINE dead == {r \in R : DeadEntry(d, r)}
<1>1. /\ desktop[d] = "up" /\ mutex[d] = None /\ RemoveFiles(d, dead)
      /\ UNCHANGED <<desktop, registry, mutex, call, worker>>
  BY DEF StatusPoll
<1>2. \A c \in Calls : call[c].pc \notin LockedPcs
  <2>1. ASSUME NEW c \in Calls, call[c].pc \in LockedPcs PROVE FALSE
    <3>1. call[c].desktop = d
      BY <1>1, <2>1, OneDesktopFacts DEF LockedPcs
    <3> QED
      BY <1>1, <2>1, <3>1, NoneAssumption DEF SeqInv, IInv, MutexInv
  <2> QED
    BY <2>1
<1>3. \A c \in Calls : Spawned(c) => call[c].desktop # d
  BY <1>2 DEF Spawned, LockedPcs
<1>4. dead \in SUBSET Roles /\ \A r \in dead : DeadEntry(d, r)
  OBVIOUS
<1>5. FilesInv'
  BY <1>1, <1>3, <1>4, RemoveDeadFiles
<1>6. \A r \in Roles :
        \/ lease'[r] = lease[r] \/ lease[r].state = "absent"
        \/ desktop[lease[r].parent] = "up"
  BY <1>1, <1>4 DEF RemoveFiles, DeadEntry, SeqInv, FilesInv, EntryInv
<1>7. CommandInv'
  <2>1. WorkersMoveOn
    BY <1>1, FilesUnnamed, UnnamedWorkers
  <2>2. ASSUME NEW c \in Calls PROVE ReconcileInv(c)' /\ ReservedInv(c)'
    BY <1>1, <1>2, <1>6, <2>1, UnlockedKeeps
  <2> QED
    BY <2>2 DEF CommandInv
<1> QED
  BY <1>5, <1>7

LEMMA LeaseAgesSeq ==
  ASSUME SeqInv, NEW r \in Roles, LeaseAges(r) PROVE FilesInv' /\ CommandInv'
<1>1. /\ lease[r].state = "published"
      /\ UNCHANGED <<desktop, registry, mutex, call, worker, sidecar>>
  BY DEF LeaseAges
<1>2. /\ lease'[r].state = lease[r].state /\ lease'[r].parent = lease[r].parent
      /\ lease'[r].mode = lease[r].mode
      /\ \A x \in Roles : x # r => lease'[x] = lease[x]
  BY DEF LeaseAges, SeqInv, IInv, TypeOK, LeaseType
<1>3. OneDesktopUp' /\ EntryInv' /\ LeaseInv' /\ SidecarInv'
  BY <1>1, <1>2 DEF SeqInv, FilesInv, OneDesktopUp, EntryInv, LeaseInv, SidecarInv, Live
<1>4. HeldInv'
  <2>1. ASSUME NEW w \in Workers, Known(w) PROVE Holds(w)'
    <3>1. worker[w].role \in Roles /\ Holds(w)
      BY <2>1, KnownFacts
    <3> QED
      BY <1>1, <1>2, <3>1 DEF Holds
  <2> QED
    BY <1>1, <2>1 DEF HeldInv, Known, Live
<1>5. OneOwnerInv'
  BY <1>1 DEF SeqInv, FilesInv, OneOwnerInv, Known, Live, Collide, CoreWorker
<1>6. ASSUME NEW c \in Calls
      PROVE  /\ call[c].pc \in {"observe", "unlink"} =>
                  /\ lease'[call[c].target].state = lease[call[c].target].state
                  /\ lease'[call[c].target].parent = lease[call[c].target].parent
             /\ call[c].pc \in {"write", "spawn", "publish"} =>
                  /\ lease'[call[c].role].state = lease[call[c].role].state
                  /\ lease'[call[c].role].parent = lease[call[c].role].parent
                  /\ lease'[call[c].role].mode = lease[call[c].role].mode
  BY <1>2, CallFields DEF SeqInv
<1>7. CommandInv'
  <2>1. WorkersMoveOn
    BY <1>1, StillWorkers
  <2>2. ASSUME NEW c \in Calls PROVE ReconcileInv(c)' /\ ReservedInv(c)'
    BY <1>1, <1>6, <2>1, OtherKeeps
  <2> QED
    BY <2>2 DEF CommandInv
<1> QED
  BY <1>3, <1>4, <1>5, <1>7 DEF FilesInv

\* A worker advances or dies by itself, or a stop ends it.
LEMMA WorkersSeq ==
  ASSUME SeqInv, WorkersMoveOn,
         UNCHANGED <<desktop, registry, call, lease, sidecar>>
  PROVE  FilesInv' /\ CommandInv'
<1>1. FilesInv'
  BY KeepFiles
<1>2. ASSUME NEW c \in Calls PROVE ReconcileInv(c)' /\ ReservedInv(c)'
  BY OtherKeeps
<1>3. CommandInv'
  BY <1>2 DEF CommandInv
<1> QED
  BY <1>1, <1>3

LEMMA WorkerStepSeq ==
  ASSUME SeqInv, NEW w \in Workers, WorkerStep(w) PROVE FilesInv' /\ CommandInv'
<1>1. UNCHANGED <<desktop, registry, mutex, call, lease, sidecar>>
  BY DEF WorkerStep, WorkerChecksParent, WorkerReady, WorkerTakesStop, WorkerExits,
         WorkerLosesParent
<1>2. \E s \in {"dead"} \union LiveStates : worker' = [worker EXCEPT ![w].state = s] /\ Live(w)
  <2>1. CASE WorkerChecksParent(w)
    <3>1. PICK s \in {"starting", "dead"} : worker' = [worker EXCEPT ![w].state = s]
      BY <2>1 DEF WorkerChecksParent
    <3> QED
      BY <2>1, <3>1 DEF WorkerChecksParent, Live, LiveStates
  <2>2. CASE WorkerReady(w) \/ WorkerTakesStop(w)
    BY <2>2 DEF WorkerReady, WorkerTakesStop, Live, LiveStates
  <2>3. CASE WorkerExits(w) \/ WorkerLosesParent(w)
    BY <2>3 DEF WorkerExits, WorkerLosesParent, Kill, Live, LiveStates
  <2> QED
    BY <2>1, <2>2, <2>3 DEF WorkerStep
<1>3. WorkersMoveOn
  <2>1. PICK s \in {"dead"} \union LiveStates : worker' = [worker EXCEPT ![w].state = s] /\ Live(w)
    BY <1>2
  <2>2. /\ worker'[w].state = s /\ Same(w)
        /\ \A v \in Workers : v # w => worker'[v] = worker[v]
    BY <2>1, WorkerMoves DEF SeqInv, IInv, TypeOK, Same
  <2>3. s # "unborn" /\ worker[w].state # "unborn"
    BY <2>1 DEF Live, LiveStates
  <2> QED
    BY <1>1, <2>1, <2>2, <2>3, KnownFrame DEF NothingNamed, Same, Live, SeqInv
<1> QED
  BY <1>1, <1>3, WorkersSeq

LEMMA StopEndsWorkerSeq ==
  ASSUME SeqInv, NEW c \in Calls, StopEndsWorker(c) PROVE FilesInv' /\ CommandInv'
<1> DEFINE w == registry[call[c].desktop][NextKey(c)]
<1>1. /\ Kill(w) /\ Live(w)
      /\ UNCHANGED <<desktop, registry, mutex, call, lease, sidecar>>
  BY DEF StopEndsWorker
<1>2. WorkersMoveOn
  <2>1. CASE w \in Workers
    <3>1. worker[w].state # "unborn"
      BY <1>1 DEF Live, LiveStates
    <3> QED
      BY <1>1, <2>1, <3>1, KilledWorker DEF NothingNamed
  <2>2. CASE w \notin Workers
    <3>1. UNCHANGED worker
      BY <1>1, <2>2 DEF Kill, SeqInv, IInv, TypeOK
    <3> QED
      BY <1>1, <3>1, StillWorkers
  <2> QED
    BY <2>1, <2>2
<1> QED
  BY <1>1, <1>2, WorkersSeq

-----------------------------------------------------------------------------
(* The steps of the command.                                               *)

LEMMA StartBeginSeq ==
  ASSUME SeqInv, NEW c \in Calls, NEW d \in Desktops, NEW r \in Roles,
         NEW m \in Modes, StartBegin(c, d, r, m)
  PROVE  FilesInv' /\ CommandInv'
<1>1. /\ call'[c].pc = "inspect" /\ call'[c].role = r /\ call'[c].target = r
      /\ \A x \in Calls : x # c => call'[x] = call[x]
  BY DEF StartBegin, IdleCall, SeqInv, IInv, TypeOK
<1>2. ReconcileInv(c)'
  BY <1>1 DEF ReconcileInv
<1>3. ReservedInv(c)'
  BY <1>1 DEF ReservedInv
<1> QED
  BY <1>1, <1>2, <1>3, QuietSeq DEF StartBegin

LEMMA StopBeginSeq ==
  ASSUME SeqInv, NEW c \in Calls, NEW d \in Desktops, NEW R, StopBegin(c, d, R)
  PROVE  FilesInv' /\ CommandInv'
<1>1. call'[c].pc = "stoplock" /\ \A x \in Calls : x # c => call'[x] = call[x]
  BY DEF StopBegin, IdleCall, SeqInv, IInv, TypeOK
<1>2. ReconcileInv(c)'
  BY <1>1 DEF ReconcileInv
<1>3. ReservedInv(c)'
  BY <1>1 DEF ReservedInv
<1> QED
  BY <1>1, <1>2, <1>3, QuietSeq DEF StopBegin

LEMMA StopEnterSeq ==
  ASSUME SeqInv, NEW c \in Calls, StopEnter(c) PROVE FilesInv' /\ CommandInv'
<1> DEFINE d == call[c].desktop
           keys == {r \in call[c].keys : registry[d][r] # None}
<1>1. UNCHANGED <<desktop, registry, worker, lease, sidecar>>
  BY DEF StopEnter
<1>2. CASE Return(c)
  BY <1>1, <1>2, ReturnSeq
<1>3. CASE keys # {} /\ call' = [call EXCEPT ![c] = [@ EXCEPT !.pc = "stop", !.keys = keys]]
  <2>1. ASSUME NEW k \in CallType, NEW K
        PROVE  /\ [k EXCEPT !.pc = "stop", !.keys = K].pc = "stop"
               /\ [k EXCEPT !.pc = "stop", !.keys = K].keys = K
               /\ [k EXCEPT !.pc = "stop", !.keys = K].desktop = k.desktop
    BY DEF CallType
  <2>2. /\ call[c] \in CallType /\ call'[c] = [call[c] EXCEPT !.pc = "stop", !.keys = keys]
        /\ \A x \in Calls : x # c => call'[x] = call[x]
    BY <1>3 DEF SeqInv, IInv, TypeOK
  <2> HIDE DEF keys
  <2>3. call'[c].pc = "stop" /\ call'[c].keys = keys /\ call'[c].desktop = d
    BY <2>1, <2>2
  <2>4. ReconcileInv(c)'
    BY <2>3 DEF ReconcileInv
  <2>5. ReservedInv(c)'
    BY <1>1, <1>3, <2>3 DEF ReservedInv, keys
  <2> QED
    BY <1>1, <2>2, <2>4, <2>5, QuietSeq
<1> QED
  BY <1>2, <1>3 DEF StopEnter

LEMMA StopFailsSeq ==
  ASSUME SeqInv, NEW c \in Calls, StopFails(c) PROVE FilesInv' /\ CommandInv'
  BY ReturnSeq DEF StopFails

LEMMA InspectLeaseSeq ==
  ASSUME SeqInv, NEW c \in Calls, InspectLease(c) PROVE FilesInv' /\ CommandInv'
<1> DEFINE t == call[c].target
           l == lease[t]
<1>1. call[c].pc = "inspect" /\ UNCHANGED <<desktop, registry, mutex, worker, lease, sidecar>>
  BY DEF InspectLease
<1>2. t \in Roles /\ (t # call[c].role => NoForeignRole(c))
  BY <1>1, CallFields, CommandFacts DEF ReconcileInv
<1>3. CASE l.state = "absent" /\ Reconciled(c)
  <2>1. RoleFree(t)
    BY <1>2, <1>3, NoLeaseNoOwner
  <2>2. \A x \in Calls : x # c => call'[x] = call[x]
    BY <1>3, ReconciledFacts DEF SeqInv, IInv, TypeOK
  <2> QED
    BY <1>1, <1>3, <2>1, <2>2, StillWorkers, ReconciledCommand, QuietSeq
<1>4. CASE Return(c)
  BY <1>1, <1>4, ReturnSeq
<1>5. CASE /\ l.state = "published" /\ desktop[l.parent] # "up"
           /\ call' = [call EXCEPT ![c] = [@ EXCEPT !.pc = "observe", !.seen = l.parent]]
  <2>1. ASSUME NEW k \in CallType, NEW p
        PROVE  /\ [k EXCEPT !.pc = "observe", !.seen = p].pc = "observe"
               /\ [k EXCEPT !.pc = "observe", !.seen = p].seen = p
               /\ [k EXCEPT !.pc = "observe", !.seen = p].desktop = k.desktop
               /\ [k EXCEPT !.pc = "observe", !.seen = p].target = k.target
               /\ [k EXCEPT !.pc = "observe", !.seen = p].role = k.role
               /\ [k EXCEPT !.pc = "observe", !.seen = p].mode = k.mode
    BY DEF CallType
  <2>2. /\ call[c] \in CallType
        /\ call'[c] = [call[c] EXCEPT !.pc = "observe", !.seen = lease[t].parent]
        /\ \A x \in Calls : x # c => call'[x] = call[x]
    BY <1>5 DEF SeqInv, IInv, TypeOK
  <2>3. /\ call'[c].pc = "observe" /\ call'[c].seen = lease[t].parent
        /\ call'[c].desktop = call[c].desktop /\ call'[c].target = t
        /\ call'[c].role = call[c].role /\ call'[c].mode = call[c].mode
    BY <2>1, <2>2
  <2>4. /\ lease[t].parent \in Desktops /\ desktop[lease[t].parent] # "off"
    BY <1>2, <1>5 DEF SeqInv, FilesInv, LeaseInv
  <2>5. desktop[lease[t].parent] = "gone"
    BY <1>5, <2>4 DEF SeqInv, IInv, TypeOK
  <2>6. t # call[c].role => NoForeignRole(c)'
    BY <1>1, <1>2, <2>3, NoForeignStays, StillWorkers
  <2>7. ReconcileInv(c)'
    BY <1>1, <1>5, <2>3, <2>4, <2>5, <2>6 DEF ReconcileInv
  <2>8. ReservedInv(c)'
    BY <2>3 DEF ReservedInv
  <2> QED
    BY <1>1, <2>2, <2>7, <2>8, QuietSeq
<1> QED
  BY <1>3, <1>4, <1>5 DEF InspectLease

LEMMA ObserveStaleLeaseSeq ==
  ASSUME SeqInv, NEW c \in Calls, ObserveStaleLease(c)
  PROVE  FilesInv' /\ CommandInv'
<1> DEFINE t == call[c].target
           l == lease[t]
           s == call[c].seen
           w == sidecar[s][t]
<1>1. call[c].pc = "observe" /\ UNCHANGED <<desktop, registry, mutex, worker, lease, sidecar>>
  BY DEF ObserveStaleLease
<1>2. /\ t \in Roles /\ (t # call[c].role => NoForeignRole(c))
      /\ s \in Desktops /\ desktop[s] = "gone" /\ l.state = "published" /\ l.parent = s
  BY <1>1, CallFields, CommandFacts DEF ReconcileInv
<1>3. CASE Return(c)
  BY <1>1, <1>3, ReturnSeq
<1>4. CASE ((w = None /\ l.aged) \/ (w # None /\ ~Live(w))) /\ Goto(c, "unlink")
  <2>1. RoleFree(t)
    <3>1. ASSUME NEW v \in Workers, Known(v), worker[v].role = t PROVE FALSE
      <4>1. worker[v].parent = s /\ v # None /\ Live(v)
        BY <1>2, <3>1, KnownFacts DEF Holds
      <4>2. w = v
        BY <1>2, <3>1, <4>1 DEF Known
      <4> QED
        BY <1>4, <4>1, <4>2
    <3> QED
      BY <3>1 DEF RoleFree
  <2>2. /\ call'[c].pc = "unlink"
        /\ call'[c].desktop = call[c].desktop /\ call'[c].role = call[c].role
        /\ call'[c].mode = call[c].mode
        /\ call'[c].target = t /\ call'[c].seen = s
        /\ \A x \in Calls : x # c => call'[x] = call[x]
    BY <1>4, GotoKeeps, GotoFacts DEF SeqInv, IInv, TypeOK, StartPcs
  <2>3. t # call[c].role => NoForeignRole(c)'
    BY <1>1, <1>2, <2>2, NoForeignStays, StillWorkers
  <2>4. RoleFree(t)'
    BY <1>1, <2>1, <2>2 DEF RoleFree, Known, Live
  <2>5. ReconcileInv(c)'
    BY <1>1, <1>2, <2>2, <2>3, <2>4 DEF ReconcileInv, RoleFree
  <2>6. ReservedInv(c)'
    BY <2>2 DEF ReservedInv
  <2> QED
    BY <1>1, <2>2, <2>5, <2>6, QuietSeq
<1> QED
  BY <1>2, <1>3, <1>4 DEF ObserveStaleLease

LEMMA UnlinkStaleLeaseSeq ==
  ASSUME SeqInv, ReconcileAlone, NEW c \in Calls, UnlinkStaleLease(c)
  PROVE  FilesInv' /\ CommandInv'
<1> DEFINE t == call[c].target
           s == call[c].seen
<1>1. /\ call[c].pc = "unlink" /\ Reconciled(c)
      /\ UNCHANGED <<desktop, registry, mutex, worker>>
  BY DEF UnlinkStaleLease
<1>2. /\ t \in Roles /\ s \in Desktops /\ desktop[s] = "gone" /\ RoleFree(t)
      /\ lease[t].state = "published" /\ lease[t].parent = s
  BY <1>1, CallFields, CommandFacts DEF ReconcileInv
<1>3. /\ \A r \in Roles : lease'[r] = IF r = t THEN NoLease ELSE lease[r]
      /\ \A e \in Desktops, r \in Roles :
           sidecar'[e][r] = IF e = s /\ r = t THEN None ELSE sidecar[e][r]
  BY <1>2 DEF UnlinkStaleLease, RemoveLease, SeqInv, IInv, TypeOK
<1>4. \A e \in Desktops : sidecar'[e][t] = None
  BY <1>2, <1>3 DEF SeqInv, FilesInv, SidecarInv
<1>9. WorkersMoveOn
  BY <1>1, <1>3, UnnamedWorkers DEF NothingNamed
<1>5. /\ \A v \in Workers :
           Known(v) /\ worker'[v].state \in LiveStates => worker[v].role # t
      /\ \A e \in Desktops : registry[e][t] = None
  BY <1>1, <1>2 DEF RoleFree, Live, SeqInv, FilesInv, EntryInv
<1>6. FilesInv'
  <2> DEFINE R == {t}
  <2>1. /\ R \in SUBSET Roles
        /\ \A r \in R : /\ lease'[r] = NoLease
                        /\ \A e \in Desktops : sidecar'[e][r] = None
                        /\ \A e \in Desktops :
                             registry[e][r] # None => worker'[registry[e][r]].state \notin LiveStates
                        /\ \A v \in Workers :
                             Known(v) /\ worker'[v].state \in LiveStates => worker[v].role # r
        /\ \A r \in Roles \ R : /\ lease'[r] = lease[r]
                                /\ \A e \in Desktops : sidecar'[e][r] = sidecar[e][r]
    BY <1>2, <1>3, <1>4, <1>5
  <2> HIDE DEF R
  <2> QED
    BY <1>1, <1>9, <2>1, DropFiles
<1>7. ASSUME NEW x \in Calls, x # c PROVE ReconcileInv(x)' /\ ReservedInv(x)'
  <2>1. call'[x] = call[x] /\ WorkersMoveOn
    BY <1>1, <1>7, <1>9, ReconciledFacts DEF SeqInv, IInv, TypeOK
  <2>2. ReconcileInv(x) /\ ReservedInv(x)
    BY CommandFacts
  <2>3. CASE call[x].pc \in {"observe", "unlink"}
    <3>1. call[x].target \in Roles /\ call[x].target # t
      BY <1>1, <1>7, <2>3, CallFields DEF SeqInv, ReconcileAlone
    <3> QED
      BY <1>1, <1>3, <2>1, <2>3, <3>1, OtherKeeps
  <2>4. CASE call[x].pc \in {"write", "spawn", "publish", "await"}
    <3>1. /\ call[x].role \in Roles /\ call[x].desktop \in Desktops
          /\ desktop[call[x].desktop] = "up"
      BY <2>4, CallFields DEF SeqInv
    <3>2. call[x].pc # "await" => call[x].role # t
      BY <1>2, <2>2, <2>4, <3>1 DEF ReservedInv, Reserved
    <3> QED
      BY <1>1, <1>2, <1>3, <2>1, <2>4, <3>1, <3>2, OtherKeeps
  <2>5. CASE call[x].pc \notin {"observe", "unlink", "write", "spawn", "publish", "await"}
    BY <1>1, <2>1, <2>5, OtherKeeps
  <2> QED
    BY <2>3, <2>4, <2>5
<1>8. CommandInv'
  BY <1>1, <1>2, <1>7, <1>9, ReconciledCommand, AllCommands
<1> QED
  BY <1>6, <1>8

\* In a locked section before the spawn no command has a child.
LEMMA NoOtherSpawned ==
  ASSUME SeqInv, NEW c \in Calls, call[c].pc \in LockedPcs, ~Spawned(c)
  PROVE  \A x \in Calls : ~Spawned(x)
<1>1. \A x \in Calls : Spawned(x) => call[x].pc \in LockedPcs
  BY DEF Spawned, LockedPcs
<1> QED
  BY <1>1, OneLocked

\* While nobody has its mutex, a desktop that is up has no command in a locked section.
LEMMA NobodyLocked ==
  ASSUME SeqInv, NEW d \in Desktops, desktop[d] = "up", mutex[d] = None
  PROVE  \A x \in Calls : call[x].pc \notin LockedPcs
<1> SUFFICES ASSUME NEW x \in Calls, call[x].pc \in LockedPcs PROVE FALSE
  OBVIOUS
<1>1. call[x].desktop = d
  BY OneDesktopFacts DEF LockedPcs
<1> QED
  BY <1>1, NoneAssumption DEF SeqInv, IInv, MutexInv

LEMMA EnterRegistrySeq ==
  ASSUME SeqInv, NEW c \in Calls, EnterRegistry(c) PROVE FilesInv' /\ CommandInv'
<1> DEFINE d == call[c].desktop
           r == call[c].role
           m == call[c].mode
           R == StaleEntries(d, r, m)
<1>1. call[c].pc = "lock" /\ mutex[d] = None /\ UNCHANGED <<desktop, worker>>
  BY DEF EnterRegistry
<1>2. /\ d \in Desktops /\ desktop[d] = "up" /\ NoForeignRole(c) /\ NoForeignCore(c)
  BY <1>1, CallFields, CommandFacts DEF ReconcileInv
<1>3. CASE Return(c) /\ UNCHANGED <<registry, mutex, lease, sidecar>>
  BY <1>1, <1>3, ReturnSeq
<1>4. CASE FinalizeEntries(d, R) /\ (Return(c) \/ Goto(c, "reserve"))
  <2>1. R \in SUBSET Roles /\ \A x \in R : DeadEntry(d, x)
    BY DEF StaleEntries
  <2>2. \A x \in Calls : call[x].pc \notin LockedPcs /\ ~Spawned(x)
    BY <1>1, <1>2, NobodyLocked DEF Spawned, LockedPcs
  <2>3. \A e \in Desktops, x \in Roles : registry'[e][x] \in {registry[e][x], None}
    BY <1>4 DEF FinalizeEntries, SeqInv, IInv, TypeOK
  <2>4. RemoveFiles(d, R)
    BY <1>4 DEF FinalizeEntries
  <2> HIDE DEF R
  <2>9. WorkersMoveOn
    BY <1>1, <2>4, FilesUnnamed, UnnamedWorkers
  <2>5. FilesInv'
    BY <1>1, <1>2, <2>1, <2>2, <2>3, <2>4, RemoveDeadFiles
  <2>6. \A x \in Roles :
          \/ lease'[x] = lease[x] \/ lease[x].state = "absent"
          \/ desktop[lease[x].parent] = "up"
    BY <1>2, <2>1, <2>4 DEF RemoveFiles, DeadEntry, SeqInv, FilesInv, EntryInv
  <2>7. CASE Return(c)
    <3>1. call'[c].pc = "idle" /\ \A x \in Calls : x # c => call'[x] = call[x]
      BY <2>7, ReturnFacts DEF SeqInv, IInv, TypeOK
    <3> QED
      BY <1>1, <2>2, <2>5, <2>6, <2>9, <3>1, ReturnedRelies, LockedMoves
  <2>8. CASE Goto(c, "reserve")
    <3>1. /\ call'[c].pc = "reserve" /\ call'[c].desktop = d
          /\ call'[c].role = r /\ call'[c].mode = m
          /\ \A x \in Calls : x # c => call'[x] = call[x]
      BY <2>8, GotoFacts DEF SeqInv, IInv, TypeOK, StartPcs
    <3>2. NoForeignRole(c)' /\ NoForeignCore(c)'
      BY <1>1, <1>2, <2>9, <3>1, NoForeignStays
    <3>3. ReconcileInv(c)'
      BY <3>1, <3>2 DEF ReconcileInv
    <3>4. ReservedInv(c)'
      BY <3>1 DEF ReservedInv
    <3> QED
      BY <1>1, <2>2, <2>5, <2>6, <2>9, <3>1, <3>3, <3>4, LockedMoves
  <2> QED
    BY <1>4, <2>7, <2>8
<1> QED
  BY <1>1, <1>3, <1>4 DEF EnterRegistry

\* While a start has the mutex, no desktop has an entry for its role.
LEMMA StartingRole ==
  ASSUME SeqInv, NEW c \in Calls, call[c].pc \in LockedPcs \ {"stop"}
  PROVE  \A e \in Desktops : registry[e][call[c].role] = None
<1>1. call[c].desktop \in Desktops /\ desktop[call[c].desktop] = "up" /\ call[c].role \in Roles
  BY CallFields DEF SeqInv, LockedPcs
<1>2. registry[call[c].desktop][call[c].role] = None
  BY DEF SeqInv, IInv, CheckedInv, Checked
<1> QED
  BY <1>1, <1>2 DEF SeqInv, FilesInv, EntryInv, OneDesktopUp

\* A start at a point where its role has neither an owner nor a sidecar returns,
\* and its reservation goes.
LEMMA AbandonSeq ==
  ASSUME SeqInv, NEW c \in Calls, WorkersMoveOn,
         UNCHANGED <<desktop, registry, sidecar>>,
         call[c].pc \in LockedPcs \ {"stop"}, lease[call[c].role].parent = call[c].desktop,
         Return(c), RemoveLease(call[c].role),
         \A e \in Desktops : sidecar[e][call[c].role] = None,
         \A w \in Workers :
           Known(w) /\ worker'[w].state \in LiveStates => worker[w].role # call[c].role
  PROVE  FilesInv' /\ CommandInv'
<1> DEFINE r == call[c].role
           R == {r}
<1>1. /\ r \in Roles /\ desktop[lease[r].parent] = "up"
      /\ \A e \in Desktops : registry[e][r] = None
  BY StartingRole, CallFields DEF SeqInv, LockedPcs
<1>2. \A x \in Roles : lease'[x] = IF x = r THEN NoLease ELSE lease[x]
  BY DEF RemoveLease, SeqInv, IInv, TypeOK
<1>3. /\ R \in SUBSET Roles
      /\ \A x \in R : /\ lease'[x] = NoLease
                      /\ \A e \in Desktops : sidecar'[e][x] = None
                      /\ \A e \in Desktops :
                           registry[e][x] # None => worker'[registry[e][x]].state \notin LiveStates
                      /\ \A w \in Workers :
                           Known(w) /\ worker'[w].state \in LiveStates => worker[w].role # x
      /\ \A x \in Roles \ R : /\ lease'[x] = lease[x]
                              /\ \A e \in Desktops : sidecar'[e][x] = sidecar[e][x]
  BY <1>1, <1>2
<1> HIDE DEF R
<1>4. FilesInv'
  BY <1>3, DropFiles
<1>5. /\ call'[c].pc = "idle"
      /\ \A x \in Calls : x # c => call'[x] = call[x] /\ call[x].pc \notin LockedPcs
  BY ReturnFacts, OneLocked DEF SeqInv, IInv, TypeOK
<1> QED
  BY <1>1, <1>2, <1>4, <1>5, ReturnedRelies, LockedMoves

\* Before the spawn nobody of the role lives, and no sidecar of it stands.
LEMMA BeforeSpawn ==
  ASSUME SeqInv, NEW c \in Calls, call[c].pc \in {"write", "spawn"}
  PROVE  /\ RoleFree(call[c].role)
         /\ \A e \in Desktops : sidecar[e][call[c].role] = None
<1> DEFINE d == call[c].desktop
           r == call[c].role
<1>1. d \in Desktops /\ desktop[d] = "up" /\ r \in Roles /\ ReconcileInv(c) /\ ReservedInv(c)
  BY CallFields, CommandFacts
<1>2. CASE call[c].pc = "write"
  BY <1>1, <1>2, NoLeaseNoOwner DEF ReservedInv, Reserved
<1>3. CASE call[c].pc = "spawn"
  <2>1. lease[r].parent = d /\ sidecar[d][r] = None
    BY <1>1, <1>3 DEF ReservedInv, Reserved
  <2>2. \A e \in Desktops : sidecar[e][r] = None
    BY <1>1, <2>1 DEF SeqInv, FilesInv, SidecarInv
  <2>3. ASSUME NEW w \in Workers, Known(w), worker[w].role = r PROVE FALSE
    <3>1. worker[w].parent = d /\ Live(w)
      BY <2>1, <2>3, KnownFacts DEF Holds
    <3>2. registry[d][r] = None
      BY <1>3 DEF SeqInv, IInv, CheckedInv, Checked, LockedPcs
    <3>3. \A x \in Calls : ~Spawned(x)
      BY <1>3, NoOtherSpawned DEF Spawned, LockedPcs
    <3> QED
      BY <1>1, <2>3, <3>1, <3>2, <3>3, NoneAssumption DEF SeqInv, IInv, AccountedInv
  <2> QED
    BY <2>2, <2>3 DEF RoleFree
<1> QED
  BY <1>2, <1>3

LEMMA ReserveLeaseSeq ==
  ASSUME SeqInv, NEW c \in Calls, ReserveLease(c) PROVE FilesInv' /\ CommandInv'
<1> DEFINE d == call[c].desktop
           r == call[c].role
           m == call[c].mode
<1>1. call[c].pc = "reserve" /\ UNCHANGED <<desktop, registry, worker, sidecar>>
  BY DEF ReserveLease
<1>2. /\ d \in Desktops /\ desktop[d] = "up" /\ r \in Roles /\ m \in Modes
      /\ NoForeignRole(c) /\ NoForeignCore(c)
  BY <1>1, CallFields, CommandFacts DEF ReconcileInv
<1>3. CASE Return(c) /\ UNCHANGED lease
  BY <1>1, <1>3, ReturnSeq
<1>4. CASE /\ lease[r].state = "absent" /\ Goto(c, "write")
           /\ lease' = [lease EXCEPT ![r] = [state |-> "created", parent |-> d,
                                             mode |-> call[c].mode, aged |-> FALSE]]
  <2>1. /\ lease'[r] = [state |-> "created", parent |-> d, mode |-> m, aged |-> FALSE]
        /\ \A x \in Roles : x # r => lease'[x] = lease[x]
    BY <1>2, <1>4 DEF SeqInv, IInv, TypeOK
  <2>2. RoleFree(r) /\ \A e \in Desktops : sidecar[e][r] = None
    BY <1>2, <1>4, NoLeaseNoOwner
  <2>3. /\ call'[c].pc = "write" /\ call'[c].desktop = d
        /\ call'[c].role = r /\ call'[c].mode = m
        /\ \A x \in Calls : x # c => call'[x] = call[x] /\ call[x].pc \notin LockedPcs
    BY <1>1, <1>4, GotoFacts, OneLocked DEF LockedPcs, SeqInv, IInv, TypeOK, StartPcs
  <2>4. registry[d][r] = None
    BY <1>1 DEF SeqInv, IInv, CheckedInv, Checked, LockedPcs
  <2>5. OneDesktopUp' /\ LeaseInv'
    BY <1>1, <1>2, <2>1 DEF SeqInv, FilesInv, OneDesktopUp, LeaseInv
  <2>6. EntryInv'
    <3>1. ASSUME NEW e \in Desktops, NEW x \in Roles, registry[e][x] # None
          PROVE  lease'[x] = lease[x]
      <4>1. desktop[e] = "up"
        BY <3>1 DEF SeqInv, FilesInv, EntryInv
      <4>2. e = d
        BY <1>2, <4>1 DEF SeqInv, FilesInv, OneDesktopUp
      <4> QED
        BY <2>1, <2>4, <3>1, <4>2
    <3> QED
      BY <1>1, <3>1 DEF SeqInv, FilesInv, EntryInv, Live
  <2>7. SidecarInv'
    BY <1>1, <2>1, <2>2 DEF SeqInv, FilesInv, SidecarInv
  <2>8. HeldInv'
    <3>1. ASSUME NEW w \in Workers, Known(w) PROVE Holds(w)'
      BY <1>1, <2>1, <2>2, <3>1, KnownFacts DEF RoleFree, Holds
    <3> QED
      BY <1>1, <3>1 DEF HeldInv, Known, Live
  <2>9. OneOwnerInv'
    BY <1>1 DEF SeqInv, FilesInv, OneOwnerInv, Known, Live, Collide, CoreWorker
  <2>10. NoForeignRole(c)' /\ NoForeignCore(c)'
    BY <1>1, <1>2, <2>3, NoForeignStays, StillWorkers
  <2>11. ReconcileInv(c)'
    BY <2>3, <2>10 DEF ReconcileInv
  <2>12. ReservedInv(c)'
    BY <2>1, <2>3 DEF ReservedInv, Reserved
  <2>13. CommandInv'
    BY <1>1, <1>4, <2>1, <2>3, <2>11, <2>12, StillWorkers, LockedMoves
  <2> QED
    BY <2>5, <2>6, <2>7, <2>8, <2>9, <2>13 DEF FilesInv
<1> QED
  BY <1>1, <1>3, <1>4 DEF ReserveLease

LEMMA WriteLeaseSeq ==
  ASSUME SeqInv, NEW c \in Calls, WriteLease(c) PROVE FilesInv' /\ CommandInv'
<1> DEFINE d == call[c].desktop
           r == call[c].role
           m == call[c].mode
<1>1. call[c].pc = "write" /\ UNCHANGED <<desktop, registry, worker, sidecar>>
  BY DEF WriteLease
<1>2. /\ d \in Desktops /\ desktop[d] = "up" /\ r \in Roles /\ m \in Modes
      /\ NoForeignRole(c) /\ NoForeignCore(c) /\ Reserved(c, "created")
  BY <1>1, CallFields, CommandFacts DEF ReconcileInv, ReservedInv
<1>3. RoleFree(r) /\ \A e \in Desktops : sidecar[e][r] = None
  BY <1>1, BeforeSpawn
<1>4. CASE RemoveLease(r) /\ Return(c)
  <2>1. \A w \in Workers : Known(w) /\ worker'[w].state \in LiveStates => worker[w].role # r
    BY <1>1, <1>3 DEF RoleFree, Live
  <2> QED
    BY <1>1, <1>2, <1>3, <1>4, <2>1, StillWorkers, AbandonSeq DEF LockedPcs, Reserved
<1>5. CASE /\ lease' = IF lease[r].state = "created" /\ lease[r].parent = d
                       THEN [lease EXCEPT ![r].state = "published"]
                       ELSE lease
           /\ Goto(c, "spawn")
  <2>1. /\ lease'[r].state = "published" /\ lease'[r].parent = d /\ lease'[r].mode = m
        /\ \A x \in Roles : x # r => lease'[x] = lease[x]
    BY <1>2, <1>5 DEF Reserved, SeqInv, IInv, TypeOK, LeaseType
  <2>2. /\ call'[c].pc = "spawn" /\ call'[c].desktop = d
        /\ call'[c].role = r /\ call'[c].mode = m
        /\ \A x \in Calls : x # c => call'[x] = call[x] /\ call[x].pc \notin LockedPcs
    BY <1>1, <1>5, GotoFacts, OneLocked DEF LockedPcs, SeqInv, IInv, TypeOK, StartPcs
  <2>3. lease[r].parent = d /\ lease[r].state = "created"
    BY <1>2 DEF Reserved
  <2>4. OneDesktopUp' /\ EntryInv' /\ LeaseInv'
    BY <1>1, <1>2, <2>1, <2>3 DEF SeqInv, FilesInv, OneDesktopUp, EntryInv, LeaseInv, Live
  <2>5. SidecarInv'
    BY <1>1, <1>3, <2>1 DEF SeqInv, FilesInv, SidecarInv
  <2>6. HeldInv'
    <3>1. ASSUME NEW w \in Workers, Known(w) PROVE Holds(w)'
      BY <1>1, <1>3, <2>1, <3>1, KnownFacts DEF RoleFree, Holds
    <3> QED
      BY <1>1, <3>1 DEF HeldInv, Known, Live
  <2>7. OneOwnerInv'
    BY <1>1 DEF SeqInv, FilesInv, OneOwnerInv, Known, Live, Collide, CoreWorker
  <2>8. NoForeignRole(c)' /\ NoForeignCore(c)'
    BY <1>1, <1>2, <2>2, NoForeignStays, StillWorkers
  <2>9. ReconcileInv(c)'
    BY <2>2, <2>8 DEF ReconcileInv
  <2>10. ReservedInv(c)'
    BY <1>1, <1>2, <1>3, <2>1, <2>2 DEF ReservedInv, Reserved
  <2>11. CommandInv'
    BY <1>1, <1>2, <2>1, <2>2, <2>3, <2>9, <2>10, StillWorkers, LockedMoves
  <2> QED
    BY <2>4, <2>5, <2>6, <2>7, <2>11 DEF FilesInv
<1> QED
  BY <1>1, <1>4, <1>5 DEF WriteLease

LEMMA SpawnWorkerSeq ==
  ASSUME SeqInv, NEW c \in Calls, SpawnWorker(c) PROVE FilesInv' /\ CommandInv'
<1> DEFINE d == call[c].desktop
           r == call[c].role
           m == call[c].mode
<1>1. call[c].pc = "spawn" /\ UNCHANGED <<desktop, registry, sidecar>>
  BY DEF SpawnWorker
<1>2. /\ d \in Desktops /\ desktop[d] = "up" /\ r \in Roles /\ m \in Modes
      /\ NoForeignRole(c) /\ NoForeignCore(c) /\ Reserved(c, "published")
      /\ sidecar[d][r] = None
  BY <1>1, CallFields, CommandFacts DEF ReconcileInv, ReservedInv
<1>3. CASE RemoveLease(r) /\ Return(c) /\ UNCHANGED worker
  <2>1. /\ \A w \in Workers :
               Known(w) /\ worker'[w].state \in LiveStates => worker[w].role # r
        /\ \A e \in Desktops : sidecar[e][r] = None
    BY <1>1, <1>3, BeforeSpawn DEF RoleFree, Live
  <2> QED
    BY <1>1, <1>2, <1>3, <2>1, StillWorkers, AbandonSeq DEF LockedPcs, Reserved
<1>4. ASSUME NEW w \in Workers, worker[w].state = "unborn",
             worker' = [worker EXCEPT ![w] = [state |-> "booting", parent |-> d,
                                              role |-> r, mode |-> call[c].mode]],
             call' = [call EXCEPT ![c] = [@ EXCEPT !.pc = "publish", !.child = w]],
             UNCHANGED lease
      PROVE  FilesInv' /\ CommandInv'
  <2>1. /\ worker'[w] = [state |-> "booting", parent |-> d, role |-> r, mode |-> m]
        /\ \A v \in Workers : v # w => worker'[v] = worker[v]
    BY <1>4 DEF SeqInv, IInv, TypeOK
  <2>2. ASSUME NEW k \in CallType
        PROVE  /\ [k EXCEPT !.pc = "publish", !.child = w].pc = "publish"
               /\ [k EXCEPT !.pc = "publish", !.child = w].desktop = k.desktop
               /\ [k EXCEPT !.pc = "publish", !.child = w].role = k.role
               /\ [k EXCEPT !.pc = "publish", !.child = w].mode = k.mode
    BY DEF CallType
  <2>3. /\ call[c] \in CallType /\ call'[c] = [call[c] EXCEPT !.pc = "publish", !.child = w]
        /\ \A x \in Calls : x # c => call'[x] = call[x]
    BY <1>4 DEF SeqInv, IInv, TypeOK
  <2>4. /\ call'[c].pc = "publish" /\ call'[c].desktop = d
        /\ call'[c].role = r /\ call'[c].mode = m
    BY <2>2, <2>3
  <2>5. OneDesktopUp' /\ LeaseInv'
    BY <1>1, <1>4 DEF SeqInv, FilesInv, OneDesktopUp, LeaseInv
  <2>6. EntryInv'
    <3>1. ASSUME NEW e \in Desktops, NEW x \in Roles, registry[e][x] # None
          PROVE  registry[e][x] \in Workers /\ registry[e][x] # w
      BY <1>4, <3>1 DEF SeqInv, IInv, TypeOK, RegistryInv
    <3> QED
      BY <1>1, <1>4, <2>1, <3>1 DEF SeqInv, FilesInv, EntryInv, Live
  <2>7. SidecarInv'
    <3>1. ASSUME NEW e \in Desktops, NEW x \in Roles, sidecar[e][x] # None
          PROVE  sidecar[e][x] \in Workers /\ sidecar[e][x] # w
      BY <1>4, <3>1 DEF SeqInv, IInv, TypeOK, FilesInv, SidecarInv
    <3> QED
      BY <1>1, <1>4, <2>1, <3>1 DEF SeqInv, FilesInv, SidecarInv
  <2>8. HeldInv'
    <3>1. Holds(w)'
      BY <1>1, <1>2, <1>4, <2>1 DEF Holds, Reserved
    <3>2. ASSUME NEW v \in Workers, v # w, Known(v) PROVE Holds(v)'
      BY <1>1, <1>4, <2>1, <3>2, KnownFacts DEF Holds
    <3> QED
      BY <1>1, <2>1, <3>1, <3>2 DEF HeldInv, Known, Live
  <2>9. OneOwnerInv'
    <3> DEFINE KnownNext(v) == Known(v)'
    <3> SUFFICES \A u, v \in Workers :
                   KnownNext(u) /\ KnownNext(v) /\ CollideNext(u, v) => u = v
      BY DEF OneOwnerInv, Collide, CoreWorker, CollideNext
    <3>1. \A u, v \in Workers :
            /\ KnownNext(u) /\ KnownNext(v)
            /\ worker'[u].parent = worker'[v].parent /\ CollideNext(u, v)
            => u = v
      BY SpawnWorkerPreserves
         DEF SeqInv, IInv, OneOwnerPerDesktop, Known, Live, Collide, CoreWorker, CollideNext
    <3>4. /\ \A v \in Workers : v # w /\ KnownNext(v) => Known(v)
          /\ KnownNext(w)
      BY <1>1, <1>2, <2>1 DEF Known, Live, LiveStates
    <3> HIDE DEF KnownNext
    <3>2. ASSUME NEW v \in Workers, v # w, KnownNext(v)
          PROVE  ~CollideNext(v, w)
      <4>1. worker'[v] = worker[v] /\ Known(v)
        BY <2>1, <3>2, <3>4
      <4>2. CASE worker[v].parent = d
        BY <2>1, <3>1, <3>2, <3>4, <4>1, <4>2
      <4>3. CASE worker[v].parent # d
        BY <1>2, <2>1, <4>1, <4>3
           DEF NoForeignRole, NoForeignCore, CollideNext, CoreWorker
      <4> QED
        BY <4>2, <4>3
    <3>3. ASSUME NEW u \in Workers, NEW v \in Workers, u # w, v # w,
                 KnownNext(u), KnownNext(v), CollideNext(u, v)
          PROVE  u = v
      BY <2>1, <3>3, <3>4
         DEF SeqInv, FilesInv, OneOwnerInv, Collide, CoreWorker, CollideNext
    <3>5. \A u, v \in Workers : CollideNext(u, v) => CollideNext(v, u)
      BY DEF CollideNext
    <3> QED
      BY <3>2, <3>3, <3>5
  <2>10. ReconcileInv(c)'
    BY <2>4 DEF ReconcileInv
  <2>11. ReservedInv(c)'
    BY <1>1, <1>2, <1>4, <2>4 DEF ReservedInv, Reserved
  <2>12. ASSUME NEW x \in Calls, x # c PROVE ReconcileInv(x)' /\ ReservedInv(x)'
    <3>1. call'[x] = call[x] /\ call[x].pc \notin LockedPcs /\ ReconcileInv(x)
      BY <1>1, <2>3, <2>12, OneLocked, CommandFacts DEF LockedPcs
    <3>2. call[x].pc # "idle" => call[x].desktop = d
      BY <1>2, OneDesktopFacts
    <3>3. call[x].pc = "unlink" => RoleFree(call[x].target)'
      <4>1. call[x].pc = "unlink" => call[x].target # r
        BY <1>2, <3>1 DEF ReconcileInv, Reserved
      <4> QED
        BY <1>1, <2>1, <3>1, <4>1 DEF RoleFree, ReconcileInv, Known, Live
    <3>4. /\ call[x].pc # "idle" /\ NoForeignRole(x) => NoForeignRole(x)'
          /\ call[x].pc # "idle" /\ NoForeignCore(x) => NoForeignCore(x)'
      BY <1>1, <2>1, <3>1, <3>2 DEF NoForeignRole, NoForeignCore, Known, Live, CoreWorker
    <3>5. ReconcileInv(x)'
      BY <1>1, <1>4, <3>1, <3>3, <3>4 DEF ReconcileInv, RoleFree
    <3>6. ReservedInv(x)'
      BY <3>1 DEF ReservedInv, LockedPcs
    <3> QED
      BY <3>5, <3>6
  <2>13. CommandInv'
    BY <2>10, <2>11, <2>12, AllCommands
  <2> QED
    BY <2>5, <2>6, <2>7, <2>8, <2>9, <2>13 DEF FilesInv
<1> QED
  BY <1>1, <1>3, <1>4 DEF SpawnWorker

\* While a start waits for its child, the lease is its desktop's and nobody else
\* known has the role on the whole machine.
LEMMA OnlyTheChild ==
  ASSUME SeqInv, NEW c \in Calls, Spawned(c)
  PROVE  /\ lease[call[c].role].state = "published"
         /\ lease[call[c].role].parent = call[c].desktop
         /\ \A e \in Desktops : e # call[c].desktop => sidecar[e][call[c].role] = None
         /\ \A w \in Workers :
              Known(w) /\ worker[w].role = call[c].role => w = call[c].child
         /\ call[c].child \in Workers /\ worker[call[c].child].state # "unborn"
         /\ worker[call[c].child].parent = call[c].desktop
         /\ worker[call[c].child].role = call[c].role
         /\ call[c].desktop \in Desktops /\ desktop[call[c].desktop] = "up"
         /\ call[c].role \in Roles
         /\ call[c].pc \in LockedPcs \ {"stop"}
<1> DEFINE d == call[c].desktop
           r == call[c].role
<1>1. /\ d \in Desktops /\ desktop[d] = "up" /\ r \in Roles /\ ReservedInv(c)
  BY CallFields, CommandFacts DEF Spawned
<1>2. /\ call[c].child \in Workers /\ worker[call[c].child].state # "unborn"
      /\ worker[call[c].child].parent = d /\ worker[call[c].child].role = r
  BY DEF SeqInv, IInv, ChildInv
<1>3. lease[r].state = "published" /\ lease[r].parent = d
  <2>1. CASE call[c].pc = "publish"
    BY <1>1, <2>1 DEF ReservedInv, Reserved
  <2>2. CASE call[c].pc = "await"
    <3>1. sidecar[d][r] = call[c].child /\ call[c].child # None
      BY <1>1, <1>2, <2>2, NoneAssumption DEF ReservedInv
    <3> QED
      BY <1>1, <3>1 DEF SeqInv, FilesInv, SidecarInv
  <2> QED
    BY <2>1, <2>2 DEF Spawned
<1>4. \A e \in Desktops : e # d => sidecar[e][r] = None
  BY <1>1, <1>3 DEF SeqInv, FilesInv, SidecarInv
<1>5. registry[d][r] = None /\ call[c].pc \in LockedPcs \ {"stop"}
  BY DEF SeqInv, IInv, CheckedInv, Checked, Spawned, LockedPcs
<1>6. ASSUME NEW w \in Workers, Known(w), worker[w].role = r PROVE w = call[c].child
  <2>1. worker[w].parent = d /\ w # None /\ Live(w)
    BY <1>3, <1>6, KnownFacts DEF Holds
  <2>2. \E x \in Calls : Spawned(x) /\ call[x].child = w
    BY <1>1, <1>5, <1>6, <2>1 DEF SeqInv, IInv, AccountedInv
  <2> QED
    BY <1>5, <2>2, OneLocked DEF Spawned, LockedPcs
<1> QED
  BY <1>1, <1>2, <1>3, <1>4, <1>5, <1>6

LEMMA PublishSidecarSeq ==
  ASSUME SeqInv, NEW c \in Calls, PublishSidecar(c) PROVE FilesInv' /\ CommandInv'
<1> DEFINE d == call[c].desktop
           r == call[c].role
           k == call[c].child
<1>1. call[c].pc = "publish" /\ UNCHANGED <<desktop, registry>>
  BY DEF PublishSidecar
<1>2. /\ lease[r].state = "published" /\ lease[r].parent = d
      /\ \A e \in Desktops : e # d => sidecar[e][r] = None
      /\ \A w \in Workers : Known(w) /\ worker[w].role = r => w = k
      /\ k \in Workers /\ worker[k].state # "unborn"
      /\ worker[k].parent = d /\ worker[k].role = r
      /\ d \in Desktops /\ desktop[d] = "up" /\ r \in Roles
      /\ \A e \in Desktops : registry[e][r] = None
      /\ call[c].pc \in LockedPcs \ {"stop"}
  BY <1>1, OnlyTheChild, StartingRole DEF Spawned
<1>3. sidecar[d][r] = None /\ Reserved(c, "published")
  BY <1>1, CommandFacts DEF ReservedInv
<1>4. CASE Kill(k) /\ RemoveLease(r) /\ Return(c) /\ UNCHANGED sidecar
  <2>1. WorkersMoveOn
    BY <1>1, <1>2, <1>4, KilledWorker DEF NothingNamed
  <2>2. \A w \in Workers : Known(w) /\ worker'[w].state \in LiveStates => worker[w].role # r
    <3>1. worker'[k].state = "dead"
      BY <1>2, <1>4, KillFacts DEF SeqInv, IInv, TypeOK
    <3> QED
      BY <1>2, <2>1, <3>1 DEF WorkersMoveOn, LiveStates
  <2> QED
    BY <1>1, <1>2, <1>3, <1>4, <2>1, <2>2, AbandonSeq
<1>5. CASE /\ sidecar' = [sidecar EXCEPT ![d][r] = call[c].child]
           /\ Goto(c, "await") /\ UNCHANGED <<worker, lease>>
  <2>1. \A e \in Desktops, x \in Roles :
          sidecar'[e][x] = IF e = d /\ x = r THEN k ELSE sidecar[e][x]
    BY <1>2, <1>5 DEF SeqInv, IInv, TypeOK
  <2>2. /\ call'[c].pc = "await" /\ call'[c].desktop = d
        /\ call'[c].role = r /\ call'[c].child = k
        /\ \A x \in Calls : x # c => call'[x] = call[x] /\ call[x].pc \notin LockedPcs
    BY <1>2, <1>5, GotoFacts, OneLocked DEF SeqInv, IInv, TypeOK, StartPcs
  <2>11. WorkersMoveOn
    <3>1. ASSUME NEW w \in Workers, Known(w)' PROVE Known(w)
      <4>1. Live(w) /\ worker'[w] = worker[w]
        BY <1>5, <3>1 DEF Known, Live
      <4>2. worker[w].parent \in Desktops /\ worker[w].role \in Roles
        BY <4>1 DEF SeqInv, IInv, TypeOK, WorkerType, BornInv, Live, LiveStates
      <4>3. CASE worker[w].parent = d
        BY <1>2, <4>1, <4>3 DEF Known
      <4>4. CASE worker[w].parent # d
        <5>1. sidecar'[worker[w].parent][worker[w].role] = sidecar[worker[w].parent][worker[w].role]
          BY <2>1, <4>2, <4>4
        <5> QED
          BY <1>1, <3>1, <4>1, <5>1 DEF Known
      <4> QED
        BY <4>3, <4>4
    <3> QED
      BY <1>5, <3>1 DEF WorkersMoveOn, Same, Live
  <2>3. OneDesktopUp' /\ LeaseInv'
    BY <1>1, <1>5 DEF SeqInv, FilesInv, OneDesktopUp, LeaseInv
  <2>4. EntryInv'
    BY <1>1, <1>2, <1>5, <2>1 DEF SeqInv, FilesInv, EntryInv, Live
  <2>5. SidecarInv'
    <3>1. ASSUME NEW e \in Desktops, NEW x \in Roles, sidecar'[e][x] # None
          PROVE  /\ lease'[x].state = "published" /\ lease'[x].parent = e
                 /\ worker'[sidecar'[e][x]].state # "unborn"
                 /\ worker'[sidecar'[e][x]].parent = e
                 /\ worker'[sidecar'[e][x]].role = x
      <4>1. CASE e = d /\ x = r
        BY <1>2, <1>5, <2>1, <4>1
      <4>2. CASE ~(e = d /\ x = r)
        <5>1. sidecar'[e][x] = sidecar[e][x]
          BY <2>1, <4>2
        <5> QED
          BY <1>5, <3>1, <5>1 DEF SeqInv, FilesInv, SidecarInv
      <4> QED
        BY <4>1, <4>2
    <3> QED
      BY <3>1 DEF SidecarInv
  <2>6. HeldInv'
    <3>1. ASSUME NEW w \in Workers, Known(w) PROVE Holds(w)'
      <4>1. /\ Holds(w) /\ worker[w].parent \in Desktops /\ worker[w].role \in Roles
        BY <3>1, KnownFacts
      <4>2. CASE worker[w].role = r
        BY <1>2, <1>5, <2>1, <3>1, <4>1, <4>2 DEF Holds
      <4>3. CASE worker[w].role # r
        BY <1>5, <2>1, <4>1, <4>3 DEF Holds
      <4> QED
        BY <4>2, <4>3
    <3> QED
      BY <2>11, <3>1 DEF HeldInv, WorkersMoveOn
  <2>7. OneOwnerInv'
    BY <1>5, <2>11 DEF SeqInv, FilesInv, OneOwnerInv, WorkersMoveOn, Collide, CoreWorker
  <2>8. ReconcileInv(c)'
    BY <2>2 DEF ReconcileInv
  <2>9. ReservedInv(c)'
    BY <1>2, <2>1, <2>2 DEF ReservedInv
  <2>10. CommandInv'
    BY <1>1, <1>5, <2>2, <2>8, <2>9, <2>11, LockedMoves
  <2> QED
    BY <2>3, <2>4, <2>5, <2>6, <2>7, <2>10 DEF FilesInv
<1> QED
  BY <1>4, <1>5 DEF PublishSidecar

LEMMA StartSucceedsSeq ==
  ASSUME SeqInv, NEW c \in Calls, StartSucceeds(c) PROVE FilesInv' /\ CommandInv'
<1> DEFINE d == call[c].desktop
           r == call[c].role
           k == call[c].child
<1>1. /\ call[c].pc = "await" /\ Return(c)
      /\ UNCHANGED <<desktop, worker, lease, sidecar>>
  BY DEF StartSucceeds
<1>2. /\ lease[r].parent = d /\ d \in Desktops /\ desktop[d] = "up" /\ r \in Roles
      /\ call[c].pc \in LockedPcs
  BY <1>1, OnlyTheChild DEF Spawned
<1>3. sidecar[d][r] = k
  BY <1>1, CommandFacts DEF ReservedInv
<1>4. \A e \in Desktops, x \in Roles :
        registry'[e][x] = IF e = d /\ x = r THEN k ELSE registry[e][x]
  BY <1>2 DEF StartSucceeds, SeqInv, IInv, TypeOK
<1>5. EntryInv'
  BY <1>1, <1>2, <1>3, <1>4 DEF SeqInv, FilesInv, EntryInv, Live
<1>6. /\ OneDesktopUp' /\ LeaseInv' /\ SidecarInv' /\ HeldInv' /\ OneOwnerInv'
  BY <1>1 DEF SeqInv, FilesInv, OneDesktopUp, LeaseInv, SidecarInv, HeldInv, Holds,
              OneOwnerInv, Known, Live, Collide, CoreWorker
<1>7. /\ call'[c].pc = "idle"
      /\ \A x \in Calls : x # c => call'[x] = call[x] /\ call[x].pc \notin LockedPcs
  BY <1>1, <1>2, ReturnFacts, OneLocked DEF SeqInv, IInv, TypeOK
<1>8. CommandInv'
  BY <1>1, <1>7, ReturnedRelies, StillWorkers, LockedMoves
<1> QED
  BY <1>5, <1>6, <1>8 DEF FilesInv

LEMMA StartFailsSeq ==
  ASSUME SeqInv, NEW c \in Calls, StartFails(c) PROVE FilesInv' /\ CommandInv'
<1> DEFINE d == call[c].desktop
           r == call[c].role
           k == call[c].child
           R == {r}
<1>1. /\ call[c].pc = "await" /\ Kill(k) /\ Return(c) /\ RemoveFiles(d, {r})
      /\ UNCHANGED <<desktop, registry>>
  BY DEF StartFails
<1>2. /\ \A e \in Desktops : e # d => sidecar[e][r] = None
      /\ \A w \in Workers : Known(w) /\ worker[w].role = r => w = k
      /\ k \in Workers /\ worker[k].state # "unborn"
      /\ d \in Desktops /\ desktop[d] = "up" /\ r \in Roles /\ lease[r].parent = d
      /\ \A e \in Desktops : registry[e][r] = None
      /\ call[c].pc \in LockedPcs
  BY <1>1, OnlyTheChild, StartingRole DEF Spawned
<1>3. /\ \A x \in Roles : lease'[x] = IF x = r THEN NoLease ELSE lease[x]
      /\ \A e \in Desktops, x \in Roles :
           sidecar'[e][x] = IF e = d /\ x = r THEN None ELSE sidecar[e][x]
  BY <1>1, <1>2 DEF RemoveFiles, SeqInv, IInv, TypeOK
<1>4. WorkersMoveOn
  BY <1>1, <1>2, FilesUnnamed, KilledWorker
<1>5. \A w \in Workers : Known(w) /\ worker'[w].state \in LiveStates => worker[w].role # r
  <2>1. worker'[k].state = "dead"
    BY <1>1, <1>2, KillFacts DEF SeqInv, IInv, TypeOK
  <2> QED
    BY <1>2, <1>4, <2>1 DEF WorkersMoveOn, LiveStates
<1>6. /\ R \in SUBSET Roles
      /\ \A x \in R : /\ lease'[x] = NoLease
                      /\ \A e \in Desktops : sidecar'[e][x] = None
                      /\ \A e \in Desktops :
                           registry[e][x] # None => worker'[registry[e][x]].state \notin LiveStates
                      /\ \A w \in Workers :
                           Known(w) /\ worker'[w].state \in LiveStates => worker[w].role # x
      /\ \A x \in Roles \ R : /\ lease'[x] = lease[x]
                              /\ \A e \in Desktops : sidecar'[e][x] = sidecar[e][x]
  BY <1>2, <1>3, <1>5
<1> HIDE DEF R
<1>7. FilesInv'
  BY <1>1, <1>4, <1>6, DropFiles
<1>8. /\ call'[c].pc = "idle"
      /\ \A x \in Calls : x # c => call'[x] = call[x] /\ call[x].pc \notin LockedPcs
  BY <1>1, <1>2, ReturnFacts, OneLocked DEF SeqInv, IInv, TypeOK
<1>9. CommandInv'
  BY <1>1, <1>2, <1>3, <1>4, <1>8, ReturnedRelies, LockedMoves
<1> QED
  BY <1>7, <1>9

LEMMA StopRemovesSeq ==
  ASSUME SeqInv, NEW c \in Calls, StopRemoves(c) PROVE FilesInv' /\ CommandInv'
<1> DEFINE d == call[c].desktop
           K == call[c].keys
           r == NextKey(c)
           R == {r}
<1>1. /\ call[c].pc = "stop" /\ ~Live(registry[d][r]) /\ FinalizeEntries(d, {r})
      /\ UNCHANGED <<desktop, worker>>
  BY DEF StopRemoves
<1>2. /\ d \in Desktops /\ desktop[d] = "up" /\ K \subseteq Roles /\ K # {}
      /\ \A x \in K : registry[d][x] # None
  BY <1>1, CallFields, CommandFacts DEF ReservedInv, IInv, TypeOK, CallType
<1>3. r \in K
  BY <1>2 DEF NextKey, Roles
<1>4. R \in SUBSET Roles /\ \A x \in R : DeadEntry(d, x)
  BY <1>1, <1>2, <1>3 DEF DeadEntry
<1>5. \A e \in Desktops, x \in Roles :
        registry'[e][x] = IF e = d /\ x = r THEN None ELSE registry[e][x]
  BY <1>1, <1>2 DEF FinalizeEntries, SeqInv, IInv, TypeOK
<1>6. RemoveFiles(d, R)
  BY <1>1 DEF FinalizeEntries
<1>7. \A x \in Calls : ~Spawned(x)
  BY <1>1, NoOtherSpawned DEF Spawned, LockedPcs
<1>12. WorkersMoveOn
  BY <1>1, <1>6, FilesUnnamed, UnnamedWorkers
<1>8. FilesInv'
  <2>1. \A e \in Desktops, x \in Roles : registry'[e][x] \in {registry[e][x], None}
    BY <1>5
  <2> HIDE DEF R
  <2> QED
    BY <1>1, <1>2, <1>4, <1>6, <1>7, <2>1, RemoveDeadFiles
<1>9. /\ \A x \in Calls : x # c => call[x].pc \notin LockedPcs
      /\ \A x \in Roles :
           \/ lease'[x] = lease[x] \/ lease[x].state = "absent"
           \/ desktop[lease[x].parent] = "up"
  <2>1. \A x \in Calls : x # c => call[x].pc \notin LockedPcs
    BY <1>1, OneLocked DEF LockedPcs
  <2>2. \A x \in R : lease[x].state = "absent" \/ lease[x].parent = d
    BY <1>2, <1>4 DEF DeadEntry, SeqInv, FilesInv, EntryInv
  <2> QED
    BY <1>2, <1>6, <2>1, <2>2 DEF RemoveFiles
<1>10. CASE Return(c)
  <2>1. call'[c].pc = "idle" /\ \A x \in Calls : x # c => call'[x] = call[x]
    BY <1>10, ReturnFacts DEF SeqInv, IInv, TypeOK
  <2> QED
    BY <1>1, <1>8, <1>9, <1>12, <2>1, ReturnedRelies, LockedMoves
<1>11. CASE K # {r} /\ call' = [call EXCEPT ![c].keys = @ \ {r}]
  <2>1. /\ call'[c].pc = "stop" /\ call'[c].desktop = d /\ call'[c].keys = K \ {r}
        /\ \A x \in Calls : x # c => call'[x] = call[x]
    BY <1>1, <1>11 DEF SeqInv, IInv, TypeOK, CallType
  <2>2. K \ {r} # {}
    BY <1>3, <1>11
  <2>3. ReconcileInv(c)'
    BY <2>1 DEF ReconcileInv
  <2>4. \A x \in K \ {r} : registry'[d][x] # None
    BY <1>2, <1>5
  <2>5. ReservedInv(c)'
    BY <2>1, <2>2, <2>4 DEF ReservedInv
  <2> QED
    BY <1>1, <1>8, <1>9, <1>12, <2>1, <2>3, <2>5, LockedMoves
<1> QED
  BY <1>10, <1>11 DEF StopRemoves

-----------------------------------------------------------------------------
LEMMA InitSeq == Init => SeqInv
<1> SUFFICES ASSUME Init PROVE SeqInv
  OBVIOUS
<1>1. /\ \A d \in Desktops : desktop[d] = "off"
      /\ \A c \in Calls : call[c].pc = "idle"
      /\ \A w \in Workers : ~Live(w)
      /\ \A r \in Roles : lease[r].state = "absent"
      /\ \A d \in Desktops, r \in Roles : registry[d][r] = None /\ sidecar[d][r] = None
  BY DEF Init, IdleCall, UnbornWorker, NoLease, Live, LiveStates
<1>2. FilesInv
  BY <1>1 DEF FilesInv, OneDesktopUp, EntryInv, LeaseInv, SidecarInv, HeldInv, OneOwnerInv, Known
<1>3. CommandInv
  BY <1>1 DEF CommandInv, ReconcileInv, ReservedInv
<1> QED
  BY <1>2, <1>3, InitEstablishes DEF SeqInv

LEMMA NextSeq ==
  ASSUME ~OverlapAllowed, ReconcileAlone, SeqInv, [Next]_vars PROVE SeqInv'
<1> DEFINE Goal == FilesInv' /\ CommandInv'
<1>1. ASSUME NEW d \in Desktops, DesktopStep(d) PROVE Goal
  BY <1>1, LaunchSeq, DesktopEndsSeq, StatusPollSeq DEF DesktopStep
<1>2. ASSUME NEW c \in Calls, StartStep(c) PROVE Goal
  BY <1>2, InspectLeaseSeq, ObserveStaleLeaseSeq, UnlinkStaleLeaseSeq, EnterRegistrySeq,
     ReserveLeaseSeq, WriteLeaseSeq, SpawnWorkerSeq, PublishSidecarSeq, StartSucceedsSeq,
     StartFailsSeq DEF StartStep
<1>3. ASSUME NEW c \in Calls, StopStep(c) PROVE Goal
  BY <1>3, StopEnterSeq, StopEndsWorkerSeq, StopRemovesSeq, StopFailsSeq DEF StopStep
<1>4. ASSUME NEW c \in Calls, CallStep(c) PROVE Goal
  BY <1>2, <1>3, <1>4, StartBeginSeq, StopBeginSeq DEF CallStep
<1>5. ASSUME NEW w \in Workers, WorkerStep(w) PROVE Goal
  BY <1>5, WorkerStepSeq
<1>6. ASSUME NEW r \in Roles, LeaseAges(r) PROVE Goal
  BY <1>6, LeaseAgesSeq
<1>7. ASSUME UNCHANGED vars PROVE Goal
  BY <1>7, StillWorkers, WorkersSeq DEF vars
<1>8. IInv'
  BY NextPreserves DEF SeqInv
<1>9. Goal
  BY <1>1, <1>4, <1>5, <1>6, <1>7 DEF Next
<1> QED
  BY <1>8, <1>9 DEF SeqInv

\* SeqInv is an inductive invariant while no two starts reconcile one lease at once.
LEMMA SeqInductive ==
  ASSUME ~OverlapAllowed PROVE Spec /\ []ReconcileAlone => []SeqInv
<1>1. SeqInv /\ ReconcileAlone /\ [Next]_vars => SeqInv'
  BY NextSeq
<1> QED
  BY <1>1, InitSeq, PTL DEF Spec

\* A live worker that is registered or published keeps its reservation and its
\* sidecar, orphans included, while the desktops follow one another and no two
\* starts reconcile one lease at once: no other removal of files by path (StatusPoll,
\* EnterRegistry, StopRemoves, a failed start), whatever commands run with it, ever
\* takes a live worker's.
THEOREM LiveOwnerHoldsLeaseHolds ==
  ASSUME ~OverlapAllowed PROVE Spec /\ []ReconcileAlone => []LiveOwnerHoldsLease
<1>1. SeqInv => LiveOwnerHoldsLease
  <2> SUFFICES ASSUME SeqInv, NEW d \in Desktops, NEW r \in Roles, NEW w \in Workers,
                      Live(w), w \in {registry[d][r], sidecar[d][r]}
               PROVE  /\ lease[r].state = "published" /\ lease[r].parent = d
                      /\ sidecar[d][r] = w
    BY DEF LiveOwnerHoldsLease
  <2>1. w # None
    BY NoneAssumption
  <2>2. sidecar[d][r] = w
    BY <2>1 DEF SeqInv, FilesInv, EntryInv
  <2> QED
    BY <2>1, <2>2 DEF SeqInv, FilesInv, SidecarInv
<1> QED
  BY <1>1, SeqInductive, PTL

-----------------------------------------------------------------------------
(* Who is known, from one step to the next.                                *)

\* A desktop is launched, one ends, or none does either.
LEMMA DesktopSteps ==
  ASSUME [Next]_vars
  PROVE  \/ UNCHANGED desktop
         \/ \E d \in Desktops : Launch(d)
         \/ \E d \in Desktops : DesktopEnds(d)
<1>1. ASSUME NEW c \in Calls, CallStep(c) PROVE UNCHANGED desktop
  BY <1>1 DEF CallStep, StartStep, InspectLease, ObserveStaleLease, UnlinkStaleLease,
              EnterRegistry, ReserveLease, WriteLease, SpawnWorker, PublishSidecar,
              StartSucceeds, StartFails, StopStep, StopEnter, StopEndsWorker, StopRemoves,
              StopFails, StartBegin, StopBegin
<1>2. ASSUME NEW w \in Workers, WorkerStep(w) PROVE UNCHANGED desktop
  BY <1>2 DEF WorkerStep, WorkerChecksParent, WorkerReady, WorkerTakesStop, WorkerExits,
              WorkerLosesParent
<1>3. ASSUME NEW r \in Roles, LeaseAges(r) PROVE UNCHANGED desktop
  BY <1>3 DEF LeaseAges
<1>4. ASSUME NEW d \in Desktops, DesktopStep(d)
      PROVE  UNCHANGED desktop \/ Launch(d) \/ DesktopEnds(d)
  BY <1>4 DEF DesktopStep, StatusPoll
<1> QED
  BY <1>1, <1>2, <1>3, <1>4 DEF Next, vars

\* A sidecar of a desktop that is not up is left alone, or removed where nobody
\* known has its role.
LEMMA SidecarSteps ==
  ASSUME SeqInv, [Next]_vars, NEW e \in Desktops, NEW r \in Roles, desktop[e] # "up"
  PROVE  sidecar'[e][r] = sidecar[e][r] \/ (sidecar'[e][r] = None /\ RoleFree(r))
<1>1. ASSUME NEW d \in Desktops, NEW R, desktop[d] = "up", RemoveFiles(d, R)
      PROVE  sidecar'[e][r] = sidecar[e][r]
  BY <1>1 DEF RemoveFiles, SeqInv, IInv, TypeOK
<1>2. ASSUME NEW c \in Calls, call[c].pc # "idle"
      PROVE  call[c].desktop \in Desktops /\ desktop[call[c].desktop] = "up"
  BY <1>2, CallFields DEF SeqInv
<1>3. ASSUME NEW c \in Calls, StartStep(c)
      PROVE  sidecar'[e][r] = sidecar[e][r] \/ (sidecar'[e][r] = None /\ RoleFree(r))
  <2>1. CASE \/ InspectLease(c) \/ ObserveStaleLease(c) \/ ReserveLease(c)
             \/ WriteLease(c) \/ SpawnWorker(c) \/ StartSucceeds(c)
    BY <2>1 DEF InspectLease, ObserveStaleLease, ReserveLease, WriteLease, SpawnWorker,
                StartSucceeds
  <2>2. CASE UnlinkStaleLease(c)
    <3>1. /\ call[c].pc = "unlink"
          /\ sidecar' = [sidecar EXCEPT ![call[c].seen][call[c].target] = None]
      BY <2>2 DEF UnlinkStaleLease
    <3>2. RoleFree(call[c].target)
      BY <3>1, CommandFacts DEF ReconcileInv
    <3>3. sidecar \in [Desktops -> [Roles -> Workers \union {None}]]
      BY DEF SeqInv, IInv, TypeOK
    <3> QED
      BY <3>1, <3>2, <3>3
  <2>3. CASE EnterRegistry(c)
    <3>1. call[c].pc # "idle"
      BY <2>3 DEF EnterRegistry
    <3> QED
      BY <1>1, <1>2, <2>3, <3>1 DEF EnterRegistry, FinalizeEntries
  <2>4. CASE PublishSidecar(c)
    <3>1. /\ call[c].pc # "idle"
          /\ \/ UNCHANGED sidecar
             \/ sidecar' = [sidecar EXCEPT ![call[c].desktop][call[c].role] = call[c].child]
      BY <2>4 DEF PublishSidecar
    <3>2. call[c].desktop # e
      BY <1>2, <3>1
    <3>3. sidecar \in [Desktops -> [Roles -> Workers \union {None}]]
      BY DEF SeqInv, IInv, TypeOK
    <3> QED
      BY <3>1, <3>2, <3>3
  <2>5. CASE StartFails(c)
    <3>1. call[c].pc # "idle" /\ RemoveFiles(call[c].desktop, {call[c].role})
      BY <2>5 DEF StartFails
    <3> QED
      BY <1>1, <1>2, <3>1
  <2> QED
    BY <1>3, <2>1, <2>2, <2>3, <2>4, <2>5 DEF StartStep
<1>4. ASSUME NEW c \in Calls, StopStep(c) PROVE sidecar'[e][r] = sidecar[e][r]
  <2>1. CASE StopRemoves(c)
    <3>1. call[c].pc # "idle" /\ RemoveFiles(call[c].desktop, {NextKey(c)})
      BY <2>1 DEF StopRemoves, FinalizeEntries
    <3> QED
      BY <1>1, <1>2, <3>1
  <2> QED
    BY <1>4, <2>1 DEF StopStep, StopEnter, StopEndsWorker, StopFails
<1>5. ASSUME NEW c \in Calls, CallStep(c)
      PROVE  sidecar'[e][r] = sidecar[e][r] \/ (sidecar'[e][r] = None /\ RoleFree(r))
  BY <1>3, <1>4, <1>5 DEF CallStep, StartBegin, StopBegin
<1>6. ASSUME NEW d \in Desktops, DesktopStep(d) PROVE sidecar'[e][r] = sidecar[e][r]
  BY <1>1, <1>6 DEF DesktopStep, Launch, DesktopEnds, StatusPoll
<1>7. ASSUME NEW w \in Workers, WorkerStep(w) PROVE sidecar'[e][r] = sidecar[e][r]
  BY <1>7 DEF WorkerStep, WorkerChecksParent, WorkerReady, WorkerTakesStop, WorkerExits,
              WorkerLosesParent
<1>8. ASSUME NEW x \in Roles, LeaseAges(x) PROVE sidecar'[e][r] = sidecar[e][r]
  BY <1>8 DEF LeaseAges
<1> QED
  BY <1>5, <1>6, <1>7, <1>8 DEF Next, vars

\* A worker that lives on keeps what it was started as.
LEMMA BornStaysSame ==
  ASSUME IInv, [Next]_vars, NEW w \in Workers, Live(w)
  PROVE  Same(w)
<1>1. CASE \E v \in Workers, s \in {"dead"} \union LiveStates :
             /\ worker[v].state # "unborn" /\ (s \in LiveStates => Live(v))
             /\ worker' = [worker EXCEPT ![v].state = s]
  BY <1>1, WorkerMoves DEF IInv, TypeOK, Same
<1> QED
  BY <1>1, WorkerSteps DEF Same, Live, LiveStates

\* A worker that lives on is known as before, unless its desktop ends.
LEMMA KnownSteps ==
  ASSUME SeqInv, SeqInv', [Next]_vars, NEW w \in Workers, Live(w), Live(w)'
  PROVE  /\ Known(w)' => Known(w)
         /\ Known(w) /\ desktop'[worker[w].parent] = desktop[worker[w].parent] => Known(w)'
<1> DEFINE d == worker[w].parent
           r == worker[w].role
<1>1. /\ d \in Desktops /\ r \in Roles /\ w # None /\ desktop[d] # "off"
      /\ worker'[w].parent = d /\ worker'[w].role = r
  BY BornStaysSame, NoneAssumption
     DEF Same, SeqInv, IInv, TypeOK, WorkerType, BornInv, Live, LiveStates
<1>2. desktop'[d] = "up" => desktop[d] = "up"
  BY <1>1, DesktopSteps DEF Launch, DesktopEnds, SeqInv, IInv, TypeOK
<1>3. CASE desktop[d] = "up"
  BY <1>1, <1>3 DEF Known
<1>4. CASE desktop[d] # "up"
  <2>1. sidecar'[d][r] = sidecar[d][r] \/ (sidecar'[d][r] = None /\ RoleFree(r))
    BY <1>1, <1>4, SidecarSteps
  <2> QED
    BY <1>1, <1>2, <1>4, <2>1 DEF Known, RoleFree
<1> QED
  BY <1>3, <1>4

\* A desktop that ends leaves no two workers that nobody knows of: they would both
\* be the child of the start that has its mutex.
LEMMA EndLeavesOne ==
  ASSUME SeqInv, NEW d \in Desktops, DesktopEnds(d), NEW v \in Workers, NEW w \in Workers,
         Live(v), worker[v].parent = d, ~Known(v)',
         Live(w), worker[w].parent = d, ~Known(w)'
  PROVE  v = w
<1>1. desktop[d] = "up" /\ UNCHANGED <<worker, sidecar>>
  BY DEF DesktopEnds
<1>2. ASSUME NEW u \in Workers, Live(u), worker[u].parent = d, ~Known(u)'
      PROVE  \E c \in Calls : Spawned(c) /\ call[c].child = u /\ mutex[d] = c
  <2>1. worker[u].role \in Roles /\ u # None /\ sidecar[d][worker[u].role] # u
    BY <1>1, <1>2, NoneAssumption DEF Known, Live, SeqInv, IInv, TypeOK, WorkerType
  <2>2. registry[d][worker[u].role] # u
    BY <1>2, <2>1 DEF SeqInv, FilesInv, EntryInv
  <2>3. PICK c \in Calls : Spawned(c) /\ call[c].child = u /\ call[c].desktop = d
    BY <1>1, <1>2, <2>2 DEF SeqInv, IInv, AccountedInv
  <2>4. mutex[d] = c
    BY <2>3 DEF SeqInv, IInv, MutexInv, Spawned, LockedPcs
  <2> QED
    BY <2>3, <2>4
<1> QED
  BY <1>2

\* No desktop leaves two live workers that nobody knows of.
StrayInv ==
  \A v, w \in Workers :
    /\ Live(v) /\ ~Known(v) /\ Live(w) /\ ~Known(w)
    /\ worker[v].parent = worker[w].parent
    => v = w

\* A worker is born where its desktop is up.
LEMMA BirthIsKnown ==
  ASSUME SeqInv, [Next]_vars, NEW w \in Workers, ~Live(w), Live(w)'
  PROVE  /\ Known(w)'
         /\ \A v \in Workers : v # w => worker'[v] = worker[v]
         /\ UNCHANGED desktop
<1>1. CASE \E v \in Workers, s \in {"dead"} \union LiveStates :
             /\ worker[v].state # "unborn" /\ (s \in LiveStates => Live(v))
             /\ worker' = [worker EXCEPT ![v].state = s]
  BY <1>1, WorkerMoves DEF SeqInv, IInv, TypeOK, Live, LiveStates
<1>2. CASE \E v \in Workers :
             /\ worker[v].state = "unborn" /\ worker'[v].state = "booting"
             /\ desktop[worker'[v].parent] = "up" /\ UNCHANGED desktop
             /\ \A u \in Workers : u # v => worker'[u] = worker[u]
  <2>1. PICK v \in Workers :
          /\ desktop[worker'[v].parent] = "up" /\ UNCHANGED desktop
          /\ \A u \in Workers : u # v => worker'[u] = worker[u]
    BY <1>2
  <2>2. v = w
    BY <2>1 DEF Live
  <2> QED
    BY <2>1, <2>2 DEF Known
<1>3. CASE UNCHANGED worker
  BY <1>3 DEF Live
<1> QED
  BY <1>1, <1>2, <1>3, WorkerSteps DEF SeqInv

LEMMA StrayNext ==
  ASSUME SeqInv, SeqInv', StrayInv, [Next]_vars PROVE StrayInv'
<1> SUFFICES ASSUME NEW v \in Workers, NEW w \in Workers,
                    Live(v)', ~Known(v)', Live(w)', ~Known(w)',
                    worker'[v].parent = worker'[w].parent
             PROVE  v = w
  BY DEF StrayInv
<1> DEFINE d == worker[v].parent
<1>1. /\ Live(v) /\ Live(w)
      /\ worker'[v].parent = d /\ worker'[w].parent = worker[w].parent
      /\ d \in Desktops
  BY BirthIsKnown, BornStaysSame DEF SeqInv, IInv, BornInv, Same, Live, LiveStates
<1>2. CASE desktop'[d] = desktop[d]
  <2>1. ~Known(v) /\ ~Known(w)
    BY <1>1, <1>2, KnownSteps
  <2> QED
    BY <1>1, <2>1 DEF StrayInv
<1>3. CASE desktop'[d] # desktop[d]
  <2>1. desktop[d] # "off"
    BY <1>1 DEF SeqInv, IInv, BornInv, Live, LiveStates
  <2>2. DesktopEnds(d)
    BY <1>1, <1>3, <2>1, DesktopSteps DEF Launch, DesktopEnds, SeqInv, IInv, TypeOK
  <2> QED
    BY <1>1, <2>2, EndLeavesOne
<1> QED
  BY <1>2, <1>3

-----------------------------------------------------------------------------
(* The claims of the known workers.                                        *)

KnownWorkers == {w \in Workers : Known(w)}

\* At most one known worker is lost or gained in a step.
LEMMA KnownSetStep ==
  ASSUME SeqInv, SeqInv', [Next]_vars
  PROVE  \/ KnownWorkers' = KnownWorkers
         \/ \E w \in KnownWorkers : KnownWorkers' = KnownWorkers \ {w}
         \/ \E w \in KnownWorkers' : w \notin KnownWorkers /\ KnownWorkers' = KnownWorkers \union {w}
<1>1. \A w \in Workers : /\ w \in KnownWorkers <=> Known(w)
                         /\ w \in KnownWorkers' <=> Known(w)'
                         /\ Known(w) => Live(w)
                         /\ Known(w)' => Live(w)'
      /\ KnownWorkers \subseteq Workers /\ KnownWorkers' \subseteq Workers
  BY DEF KnownWorkers, Known
<1>2. CASE \E w \in Workers : ~Live(w) /\ Live(w)'
  <2>1. PICK w \in Workers : ~Live(w) /\ Live(w)'
    BY <1>2
  <2>2. /\ Known(w)' /\ ~Known(w)
        /\ \A v \in Workers : v # w => worker'[v] = worker[v]
        /\ UNCHANGED desktop
    BY <1>1, <2>1, BirthIsKnown
  <2>3. ASSUME NEW v \in Workers, v # w PROVE Known(v)' <=> Known(v)
    <3>1. Live(v)' <=> Live(v)
      BY <2>2, <2>3 DEF Live
    <3>2. Live(v) => desktop'[worker[v].parent] = desktop[worker[v].parent]
      BY <2>2
    <3> QED
      BY <1>1, <3>1, <3>2, KnownSteps
  <2>4. KnownWorkers' = KnownWorkers \union {w}
    BY <1>1, <2>2, <2>3
  <2> QED
    BY <1>1, <2>2, <2>4
<1>3. CASE /\ \A w \in Workers : Live(w)' => Live(w)
           /\ \E w \in Workers : Live(w) /\ ~Live(w)'
  <2>1. PICK w \in Workers : Live(w) /\ ~Live(w)'
    BY <1>3
  <2>2. \A v \in Workers : v # w => worker'[v] = worker[v]
    <3>1. CASE \E u \in Workers, s \in {"dead"} \union LiveStates :
                 /\ worker[u].state # "unborn" /\ (s \in LiveStates => Live(u))
                 /\ worker' = [worker EXCEPT ![u].state = s]
      BY <2>1, <3>1, WorkerMoves DEF SeqInv, IInv, TypeOK, Live
    <3>2. CASE UNCHANGED worker
      BY <3>2
    <3>3. CASE \E u \in Workers :
                 /\ worker[u].state = "unborn" /\ worker'[u].state = "booting"
                 /\ \A v \in Workers : v # u => worker'[v] = worker[v]
      BY <1>3, <3>3 DEF Live, LiveStates
    <3> QED
      BY <3>1, <3>2, <3>3, WorkerSteps DEF SeqInv
  <2>3. UNCHANGED desktop
    BY <2>1, DesktopSteps DEF Launch, DesktopEnds, Live
  <2>4. ASSUME NEW v \in Workers, v # w PROVE Known(v)' <=> Known(v)
    <3>1. Live(v)' <=> Live(v)
      BY <2>2, <2>4 DEF Live
    <3> QED
      BY <1>1, <2>3, <3>1, KnownSteps
  <2>5. ~Known(w)'
    BY <1>1, <2>1
  <2>6. KnownWorkers' = KnownWorkers \ {w}
    BY <1>1, <2>4, <2>5
  <2> QED
    BY <1>1, <2>6
<1>4. CASE \A w \in Workers : Live(w)' <=> Live(w)
  <2>1. \A w \in Workers : Known(w)' => Known(w)
    BY <1>1, <1>4, KnownSteps
  <2>2. CASE \A w \in Workers : Known(w) => Known(w)'
    <3>1. ASSUME NEW w PROVE w \in KnownWorkers' <=> w \in KnownWorkers
      <4>1. /\ w \in KnownWorkers <=> w \in Workers /\ Known(w)
            /\ w \in KnownWorkers' <=> w \in Workers /\ Known(w)'
        BY DEF KnownWorkers
      <4> QED
        BY <2>1, <2>2, <4>1
    <3>2. KnownWorkers' = KnownWorkers
      BY <3>1
    <3> QED
      BY <3>2
  <2>3. CASE \E w \in Workers : Known(w) /\ ~Known(w)'
    <3>1. PICK w \in Workers : Known(w) /\ ~Known(w)'
      BY <2>3
    <3> DEFINE d == worker[w].parent
    <3>2. /\ Live(w) /\ desktop'[d] # desktop[d] /\ d \in Desktops /\ desktop[d] # "off"
      BY <1>1, <1>4, <3>1, KnownSteps DEF SeqInv, IInv, BornInv, Live, LiveStates
    <3>3. DesktopEnds(d)
      BY <3>2, DesktopSteps DEF Launch, DesktopEnds, SeqInv, IInv, TypeOK
    <3>4. ASSUME NEW v \in Workers, v # w, Known(v) PROVE Known(v)'
      <4>1. Live(v) /\ Live(v)'
        BY <1>1, <1>4, <3>4
      <4>2. CASE worker[v].parent = d
        BY <3>1, <3>2, <3>3, <3>4, <4>1, <4>2, EndLeavesOne
      <4>3. CASE worker[v].parent # d
        BY <3>3, <3>4, <4>1, <4>3, KnownSteps DEF DesktopEnds
      <4> QED
        BY <4>2, <4>3
    <3>5. KnownWorkers' = KnownWorkers \ {w}
      BY <1>1, <2>1, <3>1, <3>4
    <3> QED
      BY <1>1, <3>1, <3>5
  <2> QED
    BY <2>2, <2>3
<1> QED
  BY <1>2, <1>3, <1>4

LEMMA KnownClaims ==
  /\ ClaimsOf(KnownWorkers) = {Claim(w) : w \in KnownWorkers}
  /\ ClaimsOf(KnownWorkers)' = {Claim(w)' : w \in KnownWorkers'}
<1>1. ClaimsOf(KnownWorkers) = {Claim(w) : w \in KnownWorkers}
  BY DEF ClaimsOf, Claim, KnownWorkers, Known
<1>2. ClaimsOf(KnownWorkers)' = {Claim(w)' : w \in KnownWorkers'}
  BY DEF ClaimsOf, Claim, KnownWorkers, Known
<1> QED
  BY <1>1, <1>2

\* A step is a step of OwnerSlots for the workers that are known, or none.
LEMMA MachineStep ==
  ASSUME SeqInv, SeqInv', [Next]_vars
  PROVE  SlotStep(ClaimsOf(KnownWorkers), ClaimsOf(KnownWorkers)')
<1> DEFINE a == [w \in Workers |-> Claim(w)]
           b == [w \in Workers |-> Claim(w)']
           A == KnownWorkers
           B == KnownWorkers'
<1>1. /\ A \subseteq Workers /\ B \subseteq Workers
      /\ \A w \in A : Known(w) /\ Live(w)
      /\ \A w \in B : Known(w)' /\ Live(w)'
  BY DEF KnownWorkers, Known
<1>2. ASSUME NEW w \in Workers
      PROVE  /\ Claim(w) \in [worker : {w}, role : Roles, core : BOOLEAN]
             /\ Claim(w)' \in [worker : {w}, role : Roles, core : BOOLEAN]
  <2>1. /\ worker[w].role \in Roles /\ CoreWorker(w) \in BOOLEAN
        /\ worker'[w].role \in Roles /\ CoreWorker(w)' \in BOOLEAN
    BY DEF SeqInv, IInv, TypeOK, WorkerType, CoreWorker, OwnsNodeCore
  <2> QED
    BY <2>1 DEF Claim
<1>3. \A w \in A \intersect B : Claim(w)' = Claim(w)
  BY <1>1, BornStaysSame, SameClaim DEF SeqInv
<1>4. ASSUME NEW v \in B, NEW w \in B,
             Claim(v)'.role = Claim(w)'.role \/ (Claim(v)'.core /\ Claim(w)'.core)
      PROVE  v = w
  <2>1. CollideNext(v, w)
    BY <1>4 DEF Claim, CollideNext, CoreWorker
  <2>2. v \in Workers /\ w \in Workers /\ Known(v)' /\ Known(w)'
    BY <1>1
  <2> QED
    BY <2>1, <2>2 DEF SeqInv, FilesInv, OneOwnerInv, Collide, CollideNext, CoreWorker
<1>5. \/ A = B
      \/ \E w \in A : B = A \ {w}
      \/ \E w \in B : w \notin A /\ B = A \union {w}
  BY KnownSetStep
<1>6. /\ \A w \in A : a[w] = Claim(w)
      /\ \A w \in B : b[w] = Claim(w)'
  BY <1>1
<1> HIDE DEF a, b, A, B
<1>7. /\ \A w \in A : a[w] \in [worker : {w}, role : Roles, core : BOOLEAN]
      /\ \A w \in B : b[w] \in [worker : {w}, role : Roles, core : BOOLEAN]
  BY <1>1, <1>2, <1>6
<1>8. \A w \in A \intersect B : b[w] = a[w]
  BY <1>3, <1>6
<1>9. \A v, w \in B : b[v].role = b[w].role \/ (b[v].core /\ b[w].core) => v = w
  <2>1. \A v, w \in B : Claim(v)'.role = Claim(w)'.role \/ (Claim(v)'.core /\ Claim(w)'.core) => v = w
    BY <1>4
  <2> QED
    BY <1>6, <2>1
<1> DEFINE S == {a[w] : w \in A}
           T == {b[w] : w \in B}
<1>13. ASSUME A = B PROVE SlotStep(S, T)
  <2>1. T = S
    BY <1>8, <1>13
  <2> QED
    BY <2>1 DEF SlotStep
<1>14. ASSUME NEW w \in A, B = A \ {w} PROVE SlotStep(S, T)
  <2>1. \A v \in A : v # w => a[v] # a[w]
    <3>1. \A v \in A : a[v].worker = v
      BY <1>7
    <3> QED
      BY <3>1
  <2>2. \A v \in B : b[v] = a[v]
    BY <1>8, <1>14
  <2>3. T = S \ {a[w]}
    BY <1>14, <2>1, <2>2
  <2>4. a[w] \in [worker : Workers, role : Roles, core : BOOLEAN]
    BY <1>1, <1>7
  <2> QED
    BY <2>3, <2>4 DEF SlotStep
<1>15. ASSUME NEW w \in B, w \notin A, B = A \union {w} PROVE SlotStep(S, T)
  <2>1. \A v \in A : b[v] = a[v]
    BY <1>8, <1>15
  <2>2. T = S \union {b[w]}
    BY <1>15, <2>1
  <2>3. b[w] \in [worker : Workers, role : Roles, core : BOOLEAN]
    BY <1>1, <1>7
  <2>4. \A p \in S : p.role # b[w].role /\ ~(p.core /\ b[w].core)
    BY <1>9, <1>15, <2>1
  <2> QED
    BY <2>2, <2>3, <2>4 DEF SlotStep
<1>16. \/ A = B
       \/ \E w \in A : B = A \ {w}
       \/ \E w \in B : w \notin A /\ B = A \union {w}
  BY <1>5 DEF A, B
<1>10. SlotStep(S, T)
  BY <1>13, <1>14, <1>15, <1>16
<1>11. ClaimsOf(KnownWorkers) = {a[w] : w \in A}
  <2>1. {Claim(w) : w \in A} = {a[w] : w \in A}
    BY <1>6
  <2> QED
    BY <2>1, KnownClaims DEF A
<1>12. ClaimsOf(KnownWorkers)' = {b[w] : w \in B}
  <2>1. {Claim(w)' : w \in B} = {b[w] : w \in B}
    BY <1>6
  <2> QED
    BY <2>1, KnownClaims DEF B
<1> QED
  BY <1>10, <1>11, <1>12

-----------------------------------------------------------------------------
(* The machine-wide promise.                                               *)

LEMMA StrayInductive ==
  ASSUME ~OverlapAllowed PROVE Spec /\ []ReconcileAlone => [](SeqInv /\ StrayInv)
<1>1. Init => StrayInv
  BY DEF Init, StrayInv, Live, LiveStates, UnbornWorker
<1>2. SeqInv /\ SeqInv' /\ StrayInv /\ [Next]_vars => StrayInv'
  BY StrayNext
<1> QED
  BY <1>1, <1>2, SeqInductive, PTL DEF Spec

\* Whenever the starting grace ends, no two workers of the whole machine that can be
\* known, orphans of dead desktops included, have one role or both run a node core,
\* and a desktop that ends leaves at most one that nobody knows of: what the lease
\* and its sidecar add to the mutex (kgw_runtime_owner_reconcile_stale_lease_v1).
THEOREM OneKnownOwnerHolds ==
  ASSUME ~OverlapAllowed PROVE Spec /\ []ReconcileAlone => []OneKnownOwner
<1>1. SeqInv /\ StrayInv => OneKnownOwner
  BY DEF SeqInv, FilesInv, OneOwnerInv, StrayInv, OneKnownOwner
<1> QED
  BY <1>1, StrayInductive, PTL

\* The machine's workers that can be known go through the steps of OwnerSlots only,
\* and stay known until they exit: a relaunched desktop takes a role, or the node
\* core, once the orphan that held it under a sidecar has exited (kgw_worker_start).
THEOREM ImplementsOwnerSlotsHolds ==
  ASSUME ~OverlapAllowed PROVE Spec /\ []ReconcileAlone => ImplementsOwnerSlots
<1>1. Init => Machine!Init
  BY DEF Init, ClaimsOf, Known, Live, LiveStates, UnbornWorker, Machine!Init
<1>2. SeqInv /\ SeqInv' /\ [Next]_vars
        => [Machine!Next]_(ClaimsOf({w \in Workers : Known(w)}))
  <2> SUFFICES ASSUME SeqInv, SeqInv', [Next]_vars
               PROVE  \/ Machine!Next
                      \/ UNCHANGED ClaimsOf({w \in Workers : Known(w)})
    OBVIOUS
  <2>1. SlotStep(ClaimsOf({w \in Workers : Known(w)}), ClaimsOf({w \in Workers : Known(w)})')
    BY MachineStep DEF KnownWorkers
  <2> QED
    BY <2>1 DEF SlotStep, Machine!Next, Machine!Acquire, Machine!Release, Machine!Claims, Roles
<1>3. SeqInv /\ SeqInv' /\ [Next]_vars =>
        [\A w \in Workers :
           Known(w) /\ Live(w)' /\ desktop'[worker[w].parent] = desktop[worker[w].parent]
             => Known(w)']_vars
  BY KnownSteps DEF Known
<1> QED
  BY <1>1, <1>2, <1>3, SeqInductive, PTL DEF Spec, ImplementsOwnerSlots, Machine!Spec
=============================================================================
