-------------------------- MODULE RuntimeOwnership --------------------------
(***************************************************************************)
(* Who may run the node and bridge self-workers of one network: the        *)
(* desktop's in-memory registry and its mutex, the lease file each role    *)
(* reserves before spawn, the sidecar file that names the exact worker,    *)
(* and the start, stop and status commands that read and write them        *)
(* (integrated_runtime_commands.rs), with the worker's own checks of its   *)
(* parent (lib.rs).                                                        *)
(*                                                                         *)
(* A desktop is one exact process (pid, start time, executable): one that  *)
(* is gone never comes back, a relaunch is another desktop.  No plugin     *)
(* limits the program to one instance, so desktops may overlap.            *)
(***************************************************************************)
EXTENDS Naturals, FiniteSets

CONSTANTS
  Desktops,         \* desktop processes
  Workers,          \* self-worker processes
  Calls,            \* native command threads
  None,             \* no process, no thread
  OverlapAllowed    \* may two desktops run at once?

ASSUME NoneAssumption == None \notin Desktops \union Workers \union Calls
ASSUME SwitchAssumption == OverlapAllowed \in BOOLEAN

VARIABLES
  desktop,    \* off, up or gone
  registry,   \* kgw_parallel_self_workers: the worker of each role
  mutex,      \* the call that holds the registry lock
  call,       \* the command threads
  worker,     \* the worker processes
  lease,      \* <role>-<network>.json
  sidecar     \* <role>-<network>.<parent>.worker.json

vars == <<desktop, registry, mutex, call, worker, lease, sidecar>>

-----------------------------------------------------------------------------
Roles == {"node", "bridge"}
Modes == {"inprocess", "external"}

Other(r) == IF r = "node" THEN "bridge" ELSE "node"

\* The modes a start of role r may ask for.
ModesOf(r) == IF r = "node" THEN {"inprocess"} ELSE Modes

StartPcs == {"inspect", "observe", "unlink", "lock",
             "reserve", "write", "spawn", "publish", "await"}
StopPcs == {"stoplock", "stop"}

\* Where a call holds its desktop's registry mutex.
LockedPcs == {"reserve", "write", "spawn", "publish", "await", "stop"}

CallType ==
  [pc : {"idle"} \union StartPcs \union StopPcs,
   desktop : Desktops \union {None},
   role : Roles, mode : Modes,
   target : Roles,                       \* the lease being reconciled
   seen : Desktops \union {None},        \* the dead parent it was read to name
   child : Workers \union {None},
   keys : SUBSET Roles]                  \* the registry keys still to stop

IdleCall ==
  [pc |-> "idle", desktop |-> None, role |-> "node", mode |-> "inprocess",
   target |-> "node", seen |-> None, child |-> None, keys |-> {}]

\* booting: before the exact-parent check; starting: after it, not READY yet;
\* stopping: it took a stop request, and may end up held for its parent to kill.
LiveStates == {"booting", "starting", "ready", "stopping"}

WorkerType ==
  [state : {"unborn", "dead"} \union LiveStates,
   parent : Desktops \union {None}, role : Roles, mode : Modes]

UnbornWorker ==
  [state |-> "unborn", parent |-> None, role |-> "node", mode |-> "inprocess"]

\* A lease file is absent, created but not written, or published; parent names
\* the process that created this very file, readable only when published.
LeaseType ==
  [state : {"absent", "created", "published"},
   parent : Desktops \union {None}, mode : Modes, aged : BOOLEAN]

NoLease == [state |-> "absent", parent |-> None, mode |-> "inprocess", aged |-> FALSE]

TypeOK ==
  /\ desktop \in [Desktops -> {"off", "up", "gone"}]
  /\ registry \in [Desktops -> [Roles -> Workers \union {None}]]
  /\ mutex \in [Desktops -> Calls \union {None}]
  /\ call \in [Calls -> CallType]
  /\ worker \in [Workers -> WorkerType]
  /\ lease \in [Roles -> LeaseType]
  /\ sidecar \in [Desktops -> [Roles -> Workers \union {None}]]

-----------------------------------------------------------------------------
Live(w) == worker[w].state \in LiveStates

\* kgw_worker_owns_official_node_core_v1
OwnsNodeCore(role, mode) == role = "node" \/ mode = "inprocess"

CoreWorker(w) == OwnsNodeCore(worker[w].role, worker[w].mode)

\* The registry entry of role r in desktop d is a worker that has exited.
DeadEntry(d, r) == registry[d][r] # None /\ ~Live(registry[d][r])
LiveEntry(d, r) == registry[d][r] # None /\ Live(registry[d][r])

\* kgw_runtime_owner_remove_files_v1 for each role of R, by path and with no
\* look at whose lease the file holds now.
RemoveFiles(d, R) ==
  /\ lease' = [r \in Roles |-> IF r \in R THEN NoLease ELSE lease[r]]
  /\ sidecar' = [sidecar EXCEPT ![d] =
                   [r \in Roles |-> IF r \in R THEN None ELSE sidecar[d][r]]]

RemoveLease(r) == lease' = [lease EXCEPT ![r] = NoLease]

\* Variant: killed, never waited for.
KillWithoutWait(w) == worker' = [worker EXCEPT ![w].state = "zombie"]

Kill(w) == worker' = [worker EXCEPT ![w].state = "dead"]

Goto(c, pc) == call' = [call EXCEPT ![c].pc = pc]
Return(c) == call' = [call EXCEPT ![c] = IdleCall]
Unlock(d) == mutex' = [mutex EXCEPT ![d] = None]

Init ==
  /\ desktop = [d \in Desktops |-> "off"]
  /\ registry = [d \in Desktops |-> [r \in Roles |-> None]]
  /\ mutex = [d \in Desktops |-> None]
  /\ call = [c \in Calls |-> IdleCall]
  /\ worker = [w \in Workers |-> UnbornWorker]
  /\ lease = [r \in Roles |-> NoLease]
  /\ sidecar = [d \in Desktops |-> [r \in Roles |-> None]]

-----------------------------------------------------------------------------
(* The desktop process.                                                    *)

Launch(d) ==
  /\ desktop[d] = "off"
  /\ OverlapAllowed \/ \A e \in Desktops : desktop[e] # "up"
  /\ desktop' = [desktop EXCEPT ![d] = "up"]
  /\ UNCHANGED <<registry, mutex, call, worker, lease, sidecar>>

\* The process ends, by a crash or by exit(0) after a clean close: its threads,
\* registry and mutex vanish, its files and its workers stay.
DesktopEnds(d) ==
  /\ desktop[d] = "up"
  /\ desktop' = [desktop EXCEPT ![d] = "gone"]
  /\ registry' = [registry EXCEPT ![d] = [r \in Roles |-> None]]
  /\ mutex' = [mutex EXCEPT ![d] = None]
  /\ call' = [c \in Calls |-> IF call[c].desktop = d THEN IdleCall ELSE call[c]]
  /\ UNCHANGED <<worker, lease, sidecar>>

-----------------------------------------------------------------------------
(* kgw_worker_start, first half: reconciliation, outside the mutex.        *)

StartBegin(c, d, r, m) ==
  /\ desktop[d] = "up" /\ call[c].pc = "idle"
  /\ m \in ModesOf(r)
  /\ call' = [call EXCEPT ![c] = [IdleCall EXCEPT !.pc = "inspect", !.desktop = d,
                                    !.role = r, !.mode = m, !.target = r]]
  /\ UNCHANGED <<desktop, registry, mutex, worker, lease, sidecar>>

\* Variant: a start reconciles the lease of its own role and no other.
NeverAlsoReconciles(c) == FALSE

\* Once its own lease is reconciled, an inprocess bridge also reconciles the
\* node's, and a node reconciles the bridge's if it reads as inprocess.
AlsoReconciles(c) ==
  /\ call[c].target = call[c].role
  /\ IF call[c].role = "bridge"
     THEN call[c].mode = "inprocess"
     ELSE lease["bridge"].state = "published" /\ lease["bridge"].mode = "inprocess"

Reconciled(c) ==
  call' = IF AlsoReconciles(c)
          THEN [call EXCEPT ![c] = [@ EXCEPT !.pc = "inspect", !.target = Other(call[c].role)]]
          ELSE [call EXCEPT ![c].pc = "lock"]

\* The first read of the lease.  An unreadable lease and a lease whose exact
\* parent is alive (this very desktop included) refuse the start.
InspectLease(c) ==
  LET l == lease[call[c].target] IN
  /\ call[c].pc = "inspect"
  /\ \/ l.state = "absent" /\ Reconciled(c)
     \/ l.state = "created" /\ Return(c)
     \/ l.state = "published" /\ desktop[l.parent] = "up" /\ Return(c)
     \/ /\ l.state = "published" /\ desktop[l.parent] # "up"
        /\ call' = [call EXCEPT ![c] = [@ EXCEPT !.pc = "observe", !.seen = l.parent]]
  /\ UNCHANGED <<desktop, registry, mutex, worker, lease, sidecar>>

\* One turn of the reconciliation loop, up to the decision to remove.
ObserveStaleLease(c) ==
  LET t == call[c].target
      l == lease[t]
      w == sidecar[call[c].seen][t] IN
  /\ call[c].pc = "observe"
  /\ \/ l.state = "absent" /\ Reconciled(c)
     \/ l.state = "created" /\ Return(c)
     \/ l.state = "published" /\ l.parent # call[c].seen /\ Return(c)
     \/ /\ l.state = "published" /\ l.parent = call[c].seen
        /\ IF (w = None /\ l.aged) \/ (w # None /\ ~Live(w))
           THEN Goto(c, "unlink")
           ELSE Return(c)                 \* the deadline: terminality unproven
  /\ UNCHANGED <<desktop, registry, mutex, worker, lease, sidecar>>

\* The removal that follows the decision, by path.
UnlinkStaleLease(c) ==
  /\ call[c].pc = "unlink"
  /\ RemoveLease(call[c].target)
  /\ sidecar' = [sidecar EXCEPT ![call[c].seen][call[c].target] = None]
  /\ Reconciled(c)
  /\ UNCHANGED <<desktop, registry, mutex, worker>>

-----------------------------------------------------------------------------
(* kgw_worker_start, second half: under the registry mutex to its end.     *)

\* Variant: the other role is left to its own start to check.
NeverBlockedByOther(d, r, m) == FALSE

\* The other role's worker holds, in this registry, the node core wanted here.
BlockedByOther(d, r, m) ==
  /\ OwnsNodeCore(r, m)
  /\ LiveEntry(d, Other(r))
  /\ CoreWorker(registry[d][Other(r)])

\* The dead entries a start takes out: its own, and the other role's unless it
\* starts an external bridge.
StaleEntries(d, r, m) ==
  {x \in Roles : DeadEntry(d, x) /\ (x = r \/ OwnsNodeCore(r, m))}

\* Dead entries leave the registry and their files are removed.
FinalizeEntries(d, R) ==
  /\ registry' = [registry EXCEPT ![d] =
                    [r \in Roles |-> IF r \in R THEN None ELSE registry[d][r]]]
  /\ RemoveFiles(d, R)

EnterRegistry(c) ==
  LET d == call[c].desktop
      r == call[c].role
      m == call[c].mode IN
  /\ call[c].pc = "lock" /\ mutex[d] = None
  /\ \/ /\ BlockedByOther(d, r, m)
        /\ Return(c)
        /\ UNCHANGED <<registry, mutex, lease, sidecar>>
     \/ /\ ~BlockedByOther(d, r, m)
        /\ FinalizeEntries(d, StaleEntries(d, r, m))
        /\ \/ Return(c) /\ UNCHANGED mutex     \* duplicate-owner, or no free listener
           \/ /\ ~LiveEntry(d, r)
              /\ mutex' = [mutex EXCEPT ![d] = c]
              /\ Goto(c, "reserve")
  /\ UNCHANGED <<desktop, worker>>

\* create_new: fails when any file is there.
ReserveLease(c) ==
  LET d == call[c].desktop
      r == call[c].role IN
  /\ call[c].pc = "reserve"
  /\ \/ /\ lease[r].state # "absent"
        /\ Return(c) /\ Unlock(d)
        /\ UNCHANGED lease
     \/ /\ lease[r].state = "absent"
        /\ lease' = [lease EXCEPT ![r] = [state |-> "created", parent |-> d,
                                          mode |-> call[c].mode, aged |-> FALSE]]
        /\ Goto(c, "write")
        /\ UNCHANGED mutex
  /\ UNCHANGED <<desktop, registry, worker, sidecar>>

\* The payload goes to the file this call opened, wherever its name points now;
\* a failed write removes whatever file has the name.
WriteLease(c) ==
  LET d == call[c].desktop
      r == call[c].role IN
  /\ call[c].pc = "write"
  /\ \/ /\ lease' = IF lease[r].state = "created" /\ lease[r].parent = d
                    THEN [lease EXCEPT ![r].state = "published"]
                    ELSE lease
        /\ Goto(c, "spawn")
        /\ UNCHANGED mutex
     \/ /\ RemoveLease(r)
        /\ Return(c) /\ Unlock(d)
  /\ UNCHANGED <<desktop, registry, worker, sidecar>>

\* Any failure up to and including spawn drops the armed guard.
SpawnWorker(c) ==
  LET d == call[c].desktop
      r == call[c].role IN
  /\ call[c].pc = "spawn"
  /\ \/ \E w \in Workers :
          /\ worker[w].state = "unborn"
          /\ worker' = [worker EXCEPT ![w] = [state |-> "booting", parent |-> d,
                                              role |-> r, mode |-> call[c].mode]]
          /\ call' = [call EXCEPT ![c] = [@ EXCEPT !.pc = "publish", !.child = w]]
          /\ UNCHANGED <<mutex, lease>>
     \/ /\ RemoveLease(r)
        /\ Return(c) /\ Unlock(d)
        /\ UNCHANGED worker
  /\ UNCHANGED <<desktop, registry, sidecar>>

\* kgw_runtime_owner_update_spawned_lease_v1; on any error (an I/O error, a child
\* that is gone, a lease or a sidecar that is not what it should be) the exact
\* child is killed and the guard, which has no sidecar path yet, removes the lease.
PublishSidecar(c) ==
  LET d == call[c].desktop
      r == call[c].role
      mine == lease[r].state = "published" /\ lease[r].parent = d IN
  /\ call[c].pc = "publish"
  /\ \/ /\ mine /\ sidecar[d][r] = None
        /\ sidecar' = [sidecar EXCEPT ![d][r] = call[c].child]
        /\ Goto(c, "await")
        /\ UNCHANGED <<mutex, worker, lease>>
     \/ /\ Kill(call[c].child)
        /\ RemoveLease(r)
        /\ Return(c) /\ Unlock(d)
        /\ UNCHANGED sidecar
  /\ UNCHANGED <<desktop, registry>>

\* READY read and the child still running: the guard is disarmed and the worker
\* enters the registry.
StartSucceeds(c) ==
  LET d == call[c].desktop IN
  /\ call[c].pc = "await"
  /\ worker[call[c].child].state = "ready"
  /\ registry' = [registry EXCEPT ![d][call[c].role] = call[c].child]
  /\ Return(c) /\ Unlock(d)
  /\ UNCHANGED <<desktop, worker, lease, sidecar>>

\* Variant: the error path leaves the registry locked.
StartFailsLocked(c) ==
  LET d == call[c].desktop IN
  /\ call[c].pc = "await"
  /\ Kill(call[c].child)
  /\ RemoveFiles(d, {call[c].role})
  /\ Return(c)
  /\ UNCHANGED <<desktop, registry, mutex>>

\* FAILED, an invalid attestation, an exit or the deadline: the exact child is
\* killed and the guard removes both files.
StartFails(c) ==
  LET d == call[c].desktop IN
  /\ call[c].pc = "await"
  /\ Kill(call[c].child)
  /\ RemoveFiles(d, {call[c].role})
  /\ Return(c) /\ Unlock(d)
  /\ UNCHANGED <<desktop, registry>>

-----------------------------------------------------------------------------
(* kgw_worker_stop and kgw_shutdown_all_runtime_workers_v1.                *)

StopBegin(c, d, R) ==
  /\ desktop[d] = "up" /\ call[c].pc = "idle"
  /\ call' = [call EXCEPT ![c] = [IdleCall EXCEPT !.pc = "stoplock",
                                    !.desktop = d, !.keys = R]]
  /\ UNCHANGED <<desktop, registry, mutex, worker, lease, sidecar>>

StopEnter(c) ==
  LET d == call[c].desktop
      keys == {r \in call[c].keys : registry[d][r] # None} IN
  /\ call[c].pc = "stoplock" /\ mutex[d] = None
  /\ \/ keys = {} /\ Return(c) /\ UNCHANGED mutex
     \/ /\ keys # {}
        /\ mutex' = [mutex EXCEPT ![d] = c]
        /\ call' = [call EXCEPT ![c] = [@ EXCEPT !.pc = "stop", !.keys = keys]]
  /\ UNCHANGED <<desktop, registry, worker, lease, sidecar>>

\* The bridge is stopped before the node.
NextKey(c) == IF "bridge" \in call[c].keys THEN "bridge" ELSE "node"

\* kgw_worker_stop_one_v1 ends with the worker exited, by itself or killed
\* (WorkerStop models how).
StopEndsWorker(c) ==
  LET w == registry[call[c].desktop][NextKey(c)] IN
  /\ call[c].pc = "stop"
  /\ Live(w)
  /\ Kill(w)
  /\ UNCHANGED <<desktop, registry, mutex, call, lease, sidecar>>

\* Variant: the worker is taken out of the registry on request alone.
StopRemovesUnproven(c) ==
  LET d == call[c].desktop IN
  /\ call[c].pc = "stop"
  /\ FinalizeEntries(d, {NextKey(c)})
  /\ Return(c) /\ Unlock(d)
  /\ UNCHANGED <<desktop, worker>>

\* A terminal worker leaves the registry.  Stop then goes on, unless this was
\* the last key or the worker reported a failed stop.
StopRemoves(c) ==
  LET d == call[c].desktop
      r == NextKey(c) IN
  /\ call[c].pc = "stop"
  /\ ~Live(registry[d][r])
  /\ FinalizeEntries(d, {r})
  /\ \/ /\ call[c].keys # {r}
        /\ call' = [call EXCEPT ![c].keys = @ \ {r}]
        /\ UNCHANGED mutex
     \/ Return(c) /\ Unlock(d)
  /\ UNCHANGED <<desktop, worker>>

\* A stop that cannot kill, or cannot prove the exit, returns its error with
\* the worker still registered.
StopFails(c) ==
  /\ call[c].pc = "stop"
  /\ Return(c) /\ Unlock(call[c].desktop)
  /\ UNCHANGED <<desktop, registry, worker, lease, sidecar>>

\* Variant: the poll does not ask whether the worker still runs.
StatusPollAnyEntry(d, R) ==
  LET entries == {r \in R : registry[d][r] # None} IN
  /\ desktop[d] = "up" /\ mutex[d] = None
  /\ entries # {}
  /\ RemoveFiles(d, entries)
  /\ UNCHANGED <<desktop, registry, mutex, call, worker>>

\* kgw_worker_status: try_lock, then the files of every dead entry of R are
\* removed, on every poll, while the entry itself stays.
StatusPoll(d, R) ==
  LET dead == {r \in R : DeadEntry(d, r)} IN
  /\ desktop[d] = "up" /\ mutex[d] = None
  /\ dead # {}
  /\ RemoveFiles(d, dead)
  /\ UNCHANGED <<desktop, registry, mutex, call, worker>>

-----------------------------------------------------------------------------
(* The self-worker process and the clock.                                  *)

\* The first thing a worker does is to look for its exact parent.
WorkerChecksParent(w) ==
  /\ worker[w].state = "booting"
  /\ worker' = [worker EXCEPT ![w].state =
                  IF desktop[worker[w].parent] = "up" THEN "starting" ELSE "dead"]
  /\ UNCHANGED <<desktop, registry, mutex, call, lease, sidecar>>

\* A starting worker does not watch its parent.
WorkerReady(w) ==
  /\ worker[w].state = "starting"
  /\ worker' = [worker EXCEPT ![w].state = "ready"]
  /\ UNCHANGED <<desktop, registry, mutex, call, lease, sidecar>>

\* It reads the request of a stop (WorkerStop models what follows).
WorkerTakesStop(w) ==
  /\ worker[w].state = "ready"
  /\ \E c \in Calls : /\ call[c].pc = "stop"
                      /\ registry[call[c].desktop][NextKey(c)] = w
  /\ worker' = [worker EXCEPT ![w].state = "stopping"]
  /\ UNCHANGED <<desktop, registry, mutex, call, lease, sidecar>>

\* A startup error, a runtime failure, a crash.
WorkerExits(w) ==
  /\ Live(w)
  /\ Kill(w)
  /\ UNCHANGED <<desktop, registry, mutex, call, lease, sidecar>>

\* Variant: the parent is looked at on the way to READY only.
WorkerLosesParentEarly(w) ==
  /\ worker[w].state = "starting"
  /\ desktop[worker[w].parent] = "gone"
  /\ Kill(w)
  /\ UNCHANGED <<desktop, registry, mutex, call, lease, sidecar>>

\* A READY worker that finds its exact parent gone shuts down and exits.
WorkerLosesParent(w) ==
  /\ worker[w].state = "ready"
  /\ desktop[worker[w].parent] = "gone"
  /\ Kill(w)
  /\ UNCHANGED <<desktop, registry, mutex, call, lease, sidecar>>

\* The 10 s of starting grace of a published lease are over, wherever its start, or
\* the worker that start left behind, has come to.
LeaseAges(r) ==
  /\ lease[r].state = "published" /\ ~lease[r].aged
  /\ lease' = [lease EXCEPT ![r].aged = TRUE]
  /\ UNCHANGED <<desktop, registry, mutex, call, worker, sidecar>>

-----------------------------------------------------------------------------
StartStep(c) ==
  \/ InspectLease(c) \/ ObserveStaleLease(c) \/ UnlinkStaleLease(c)
  \/ EnterRegistry(c) \/ ReserveLease(c) \/ WriteLease(c) \/ SpawnWorker(c)
  \/ PublishSidecar(c) \/ StartSucceeds(c) \/ StartFails(c)

StopStep(c) == StopEnter(c) \/ StopEndsWorker(c) \/ StopRemoves(c) \/ StopFails(c)

CallStep(c) ==
  \/ StartStep(c) \/ StopStep(c)
  \/ \E d \in Desktops :
       \/ \E r \in Roles, m \in Modes : StartBegin(c, d, r, m)
       \/ \E R \in SUBSET Roles \ {{}} : StopBegin(c, d, R)

WorkerStep(w) ==
  \/ WorkerChecksParent(w) \/ WorkerReady(w) \/ WorkerTakesStop(w)
  \/ WorkerExits(w) \/ WorkerLosesParent(w)

DesktopStep(d) ==
  \/ Launch(d) \/ DesktopEnds(d)
  \/ \E R \in SUBSET Roles \ {{}} : StatusPoll(d, R)

Next ==
  \/ \E d \in Desktops : DesktopStep(d)
  \/ \E c \in Calls : CallStep(c)
  \/ \E w \in Workers : WorkerStep(w)
  \/ \E r \in Roles : LeaseAges(r)

Spec == Init /\ [][Next]_vars

-----------------------------------------------------------------------------
(* The program runs its threads and processes; nothing makes a user act or *)
(* a process crash.  Stops are assumed to end: the node core's stop has no *)
(* deadline, so this includes that the official shutdown joins.            *)

CallProgress(c) ==
  \/ StartStep(c)
  \/ StopEnter(c) \/ StopEndsWorker(c) \/ StopRemoves(c)

WorkerProgress(w) ==
  WorkerChecksParent(w) \/ WorkerReady(w) \/ WorkerLosesParent(w)

FairSpec ==
  /\ Spec
  /\ \A c \in Calls : WF_vars(CallProgress(c)) /\ SF_vars(EnterRegistry(c))
                      /\ SF_vars(StopEnter(c))
  /\ \A w \in Workers : WF_vars(WorkerProgress(w))
  /\ \A r \in Roles : WF_vars(LeaseAges(r))

-----------------------------------------------------------------------------
(* Properties.                                                             *)

Collide(v, w) ==
  \/ worker[v].role = worker[w].role
  \/ CoreWorker(v) /\ CoreWorker(w)

\* However many desktops overlap and however their commands interleave, one
\* desktop never has two live workers of one role, nor two that run a node
\* core: the registry mutex is held from the duplicate check to the insert
\* (kgw_worker_start), and a worker that leaves the registry has exited.
OneOwnerPerDesktop ==
  \A v, w \in Workers :
    Live(v) /\ Live(w) /\ worker[v].parent = worker[w].parent /\ Collide(v, w) => v = w

\* Somebody can know of worker w: its desktop is up, or its sidecar names it.  A
\* desktop that dies between spawn and sidecar leaves one that nobody knows of.
Known(w) ==
  /\ Live(w)
  /\ \/ desktop[worker[w].parent] = "up"
     \/ sidecar[worker[w].parent][worker[w].role] = w

\* On the whole machine no two known workers, orphans included, have one role or
\* both run a node core, and no desktop leaves two that nobody knows of.  It does
\* not hold for two desktops that are up together: StatusPoll removes a lease by
\* path.
OneKnownOwner ==
  \A v, w \in Workers :
    \/ Known(v) /\ Known(w) /\ Collide(v, w)
    \/ /\ Live(v) /\ ~Known(v) /\ Live(w) /\ ~Known(w)
       /\ worker[v].parent = worker[w].parent
    => v = w

\* A live worker that is registered, or whose sidecar is published, keeps the
\* reservation and the sidecar, even as an orphan: without them no relaunch
\* knows that there is an exit to wait for.
LiveOwnerHoldsLease ==
  \A d \in Desktops, r \in Roles, w \in Workers :
    Live(w) /\ w \in {registry[d][r], sidecar[d][r]} =>
      /\ lease[r].state = "published" /\ lease[r].parent = d
      /\ sidecar[d][r] = w

\* A start that is refused on its first look at a lease is refused for a
\* desktop that is alive: a relaunch gets past what a dead one left behind.  It
\* does not hold after a crash between ReserveLease and WriteLease.
RefusalNamesLiveOwner ==
  [][\A c \in Calls :
       InspectLease(c) /\ call'[c].pc = "idle"
         => desktop[lease[call[c].target].parent] = "up"]_vars

\* A worker that outlives its desktop ends, wherever its start had come to.  One
\* that had taken a stop request may be held instead (WorkerStop).
OrphanTerminates ==
  \A w \in Workers :
    Live(w) /\ worker[w].state # "stopping" /\ desktop[worker[w].parent] = "gone"
      ~> ~Live(w)

\* Every command returns: no interleaving of starts, stops, crashes and
\* reconciliations leaves one waiting for the mutex, a lease or a worker.
CommandsReturn ==
  \A c \in Calls : call[c].pc # "idle" ~> call[c].pc = "idle"

\* The claims of the workers that are alive, of one desktop or of all.
ClaimsOf(W) ==
  {[worker |-> w, role |-> worker[w].role, core |-> CoreWorker(w)] : w \in {v \in W : Live(v)}}

Machine == INSTANCE OwnerSlots WITH owners <- ClaimsOf({w \in Workers : Known(w)})

\* The machine-wide promise, step by step: a relaunch starts nothing beside an
\* orphan that can be known, and one that can be known stays so until it exits.
ImplementsOwnerSlots ==
  /\ Machine!Spec
  /\ [][\A w \in Workers :
          Known(w) /\ Live(w)' /\ desktop'[worker[w].parent] = desktop[worker[w].parent]
            => Known(w)']_vars

\* The same promise for the workers of one desktop, with any overlap.
OwnedBy(d) == ClaimsOf({w \in Workers : worker[w].parent = d})
OfDesktop(d) == INSTANCE OwnerSlots WITH owners <- OwnedBy(d)

EachDesktopImplementsOwnerSlots ==
  /\ \A d \in Desktops : OfDesktop(d)!Init
  /\ [][\A d \in Desktops : OfDesktop(d)!Next \/ UNCHANGED OwnedBy(d)]_vars
=============================================================================
