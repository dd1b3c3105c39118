# TLA+ models of Kaspa Gateway

Kaspa Gateway is a desktop program (Rust, Tauri) that runs the official Kaspa
node and Stratum bridge as child processes of its own executable, keeps a local
transaction history, and manages its databases.  This directory holds TLA+
modules of the parts of it whose correctness depends on the order of steps of
several processes, threads or files, the TLC configurations that check them on
small instances, and proofs for TLAPS.

Run from this directory:

    tlc -config own_overlap.cfg MCRuntimeOwnership.tla
    tlapm RuntimeOwnershipProofs.tla

`PROJECT.json` is the index: components, runs, the source lines of every
definition (`map`), the mutants by which each property was tried, the hazards of
the code and the properties that watch them, findings and theorems.

| Module | Models | Checked by |
|---|---|---|
| `OwnerSlots` | abstract promise: exclusive claims on roles and on the node core | (refined) |
| `RuntimeOwnership` | start, stop, close, status of the self-workers; mutex, lease, sidecar | `own_*` |
| `RuntimeOwnershipProofs` | its theorems | TLAPS |
| `WorkerStop` | stop protocol between a desktop and one READY worker | `stop*` |
| `WorkerStopProofs` | its theorems | TLAPS |
| `OfficialRuntime` | what a worker owns: core and listener threads, their start, watch and shutdown | `runtime` |
| `OfficialRuntimeProofs` | its theorems | TLAPS |
| `NodeTab` | the WebView's node tab: buttons, lock, answers that come late | `tab` |
| `NodeTabProofs` | its theorems | TLAPS |
| `TransactionSync` | paged synchronisation and forced refresh of a history | `sync*` |
| `TransactionSyncProofs` | its theorems | TLAPS |
| `NaturalOrder` | least and greatest elements of sets of naturals, for the proofs | TLAPS |
| `BackupRestore` | backup, deletion and restore of the database files | `backup`, `restore_latest` |
| `BackupRestoreProofs` | its theorems | TLAPS |
| `FencedLease` | abstract promise: one holder, an epoch per grant | (refined) |
| `WriterClaim` | the single-writer claim of `xtask` under one git ref | `claim` |
| `WriterClaimProofs` | its theorems, the refinement among them | TLAPS |
| `MC*` | model values, symmetry, small parameters | |

Below, `IRC` is `integrated_runtime_commands.rs`, `LIB` is `lib.rs`, both in
`apps/kaspa-gateway-desktop/src-tauri/src/`.

# 1. Inventory

## Worker ownership (desktop side): modelled

`IRC`.  The desktop spawns copies of its own executable ("self-workers"), one per
role (node, bridge) and network.  *State*: the registry
`kgw_parallel_self_workers` under one process-wide mutex; per role and network a
**lease** file `<role>-<network>.json`, reserved with `create_new` before spawn;
a **sidecar** file that names the exact worker; ready, stop and outcome files.
*Operations*: `kgw_worker_start` (reconcile a dead owner's lease, then, under
the mutex, check for duplicates, reserve, spawn, publish the sidecar, await
READY), `kgw_worker_stop`, `kgw_shutdown_all_runtime_workers_v1` (the window's
close), `kgw_worker_status` (which also removes files of dead workers).
*Interaction*: with other desktops through lease and sidecar only; with workers
through control files and exact process identity (pid, start time, executable).
*Hard*: several command threads and several desktops, a crash between any two
file operations, decisions taken on one read and carried out by path later, a
mutex held over child waits.  *Correct when*: one owner per role, one node core
per network, no live worker forgotten, a relaunch gets past a dead desktop and
never past a live worker that a sidecar names, a worker that nothing names ends, every
command returns.

## Worker stop protocol: modelled

`kgw_worker_stop_one_v1` in `IRC`, `kgw_execute_supervised_stop_request_v1` and
what it calls in `LIB`.  *State*: request and outcome file, the worker's main
thread, the thread that runs the official shutdown, the desktop's local flags.
*Hard*: outcome published between a look and an exit; deadlines that exist for a
bridge and not for a node core; control files that cannot be written; kills that
fail; loss of the parent in the middle.  *Correct when*: graceful means joined, a
core is not killed while its database closes, only a dead worker is forgotten,
a stop returns.

## Self-worker process: partly

Boot (exact-parent check), startup to READY, parent supervision, stop, exit: in
`RuntimeOwnership` (as one worker among many), `WorkerStop` (from READY on) and
`OfficialRuntime` (what it hosts).  Argument parsing and logging are outside.

## Official runtime session and bridge owner threads: partly

`KgwRealOwnerRuntime` (`kaspa-gateway-rk-node/src/kgw_real_owner_runtime.rs`), the
bridge owner threads of `kaspa-gateway-rk-bridge/src/lib.rs`, and the two functions
of `LIB` that host them, `kgw_run_node_self_worker` and
`kgw_run_bridge_self_worker`.  *State*: the core's thread with its shutdown and
outcome channels; per bridge instance a thread with a startup and a shutdown
channel; the startup control file; how far the main thread is.  *Operations*:
start the core and attest it, start the instances one after the other, roll back,
publish READY, watch, join the listeners, stop and join the core; an error return
drops the handles and channels of what still runs.  *Hard*: threads
end or panic between any two of these; several channels are read at different
times; a later failure must not stop the shutdown of the rest.  *Correct when*:
listeners end before the core is asked, graceful means all joined, a start that
fails before all listeners are up leaves none, a lost part takes the worker down.

## Node tab of the frontend: partly

`kaspa-gateway-frontend-wasm/src/node_tab.rs`.  *State*: per network the transition,
the display-only lock the bridge tab sets, the in-flight keys of start and stop,
the status task, two buttons.  *Operations*: clicks, the network switch, a poll on
every pulse, the answers.  *Hard*: one thread, but every handler awaits several
times and what it read before may be old when it goes on.  *Correct when*: the
buttons fit the newest lock and transition, no transition is left behind, an old
answer does not unlock, and the buttons end up true.

## Writer claim of `xtask`: modelled

`xtask/src/writer_claim.rs`.  *State*: one git ref with the claim.  *Operations*:
acquire, renew, verify, release (and status, which prints).  *Interaction*:
processes of several sessions, through git's compare-and-swap alone.  *Hard*: the
clock, the ref and the swap are three steps.  *Correct when*: the commands are
atomic steps of a lease with a fencing epoch.

## Transaction synchronisation and repository: modelled / partly

`kaspa-gateway-runtime/src/transaction_sync.rs`, the SQLite
`TransactionsRepository` of `kaspa-gateway-db/src/lib.rs`, the commands of
`transaction_routes.rs`.  *State*: rows of `address_transactions`, the canonical
rows shared by addresses, a temporary stage, the registered sync with its
cancellation token and cursor.  *Hard*: a history that grows while it is paged
through, cut-short syncs, shared rows, an explorer that answers too little.
*Correct when*: a sync that says complete is, a forced refresh is all or nothing,
canonical rows are exactly those referred to.

## Backup, restore and deletion of databases: partly

`kaspa-gateway-db/src/backup_restore.rs`, `db_status_commands.rs`, `db_state.rs`
(`DB_OPERATION_LOCK`).  *State*: three database files, backup directories, the
pinned copy and the safety backup of a restore.  *Hard*: several files replaced
one by one, failures in the replacement and in taking it back, crashes, a backup
that changes while it is used.  The lock keeps these operations apart; it keeps no
database free of writers: `with_database_manager` is used by the address list, the
synchronisation and this component, while the address-book imports
(`address_book.rs:139-249`), the Python migrations (`migration.rs:84`,
`python_migration_real.rs`), the settings and the top addresses open their
database without it.  *Correct when*: but for what is written meanwhile, what
the user had is always live or in a backup, a restore is of one moment, a failed
restore changes nothing.  Compacting and cache clearing are writes under the lock.

## Not modelled, with the reason

| Component | Reason |
|---|---|
| service controller (`kgw_service_controller.rs`, `kgw_inproc_*.rs`) | used by developer smoke commands only; its slots say what the last event said and are never refreshed from what runs, a disable overtakes queued starts, and a start-bridge event starts nothing: there is no agreement of status and service that it keeps |
| node probes, runtime facade, CLI | sequential or stateless |
| configuration, desktop settings, address book | one record per command, without interaction |
| known names, top addresses | a rewrite without a transaction, listed as a hazard; the code promises nothing about it |
| logs, prices, live metrics | appends and time-limited reads |
| analysis, reports, exports | pure queries and formatting |
| Python data migration | one-shot import of a foreign format; that it writes every database without the lock is in `BackupRestore!Write` |
| audits, enforcement, security, core types, observability | stateless scans and types |
| explorer API client | external to the models; what it may answer is an input of `TransactionSync` |
| frontend (WASM), but for the node tab | views; the bridge tab is modelled by the lock it sets on the node tab |
| e2e and `xtask`, but for the writer claim | test harness, repository gates, release automation |

By lines these are nearly all of the repository: its bulk is views, formatting,
queries, validation, tests as programs (`xtask`, e2e) and diagnostics, which are
sequential or stateless.  The models cover the small part whose correctness depends
on the order of steps, so the share of the source they map is small, and mapping
the rest would restate it rather than check anything about it.

# 2. RuntimeOwnership

## State

| Variable | Code |
|---|---|
| `desktop[d]` | one exact desktop process; `gone` never comes back, a relaunch is another element |
| `registry[d][r]` | `kgw_parallel_self_workers` |
| `mutex[d]` | the lock on it, with the call that holds it |
| `call[c]` | one native command thread: where it is and its locals |
| `worker[w]` | one worker process: `unborn`, `booting` (before the parent check), `starting`, `ready`, `stopping`, `dead` |
| `lease[r]` | `absent`, `created` (not yet written), `published`; who created it; mode; `aged` = older than the starting grace |
| `sidecar[d][r]` | the worker named by the sidecar of parent `d` |

One network is modelled: keys, files and reservations of two networks are
disjoint.  An `inprocess` bridge owns a node core (`OwnsNodeCore`).

## Actions

A start is `StartBegin`, then `InspectLease`, `ObserveStaleLease`,
`UnlinkStaleLease` for its own role and, when cores could collide, for the other
role (`AlsoReconciles`): all of this is *outside* the mutex in the code, so the
decision and the unlink are separate actions, and the unlink is by path.  Then
`EnterRegistry` takes the mutex and does the duplicate and cross-role checks;
`ReserveLease` and `WriteLease` are two actions because `create_new` and the
write are two system calls between which the process may die; `SpawnWorker`,
`PublishSidecar`, `StartSucceeds` or `StartFails`.  Each failure path removes
what the code's guard removes, by path.  `StopBegin`, `StopEnter`,
`StopEndsWorker`, `StopRemoves`, `StopFails` are stop and shutdown-all.
`StatusPoll` is the side effect of `kgw_worker_status`.  `DesktopEnds` is a crash
at any point, or the exit after a clean close.  `LeaseAges` is the clock.

One constant names an assumption: `OverlapAllowed` (may two desktops be up at
once: nothing in the program prevents it).  The properties that need it false are
checked so, and the others without.  Nothing is assumed of time: `LeaseAges` may
happen at any moment after a lease is published, also while its start has not
written the sidecar yet, or after the desktop died there and its worker still boots.

A worker is `Known` when its desktop is up or its sidecar names it.  The one that is
not is the child of a desktop that died between spawn and sidecar: nothing on the
machine names it, and when the grace runs out before it has seen that its parent is
gone a relaunch starts a second owner beside it.  The machine-wide properties are
therefore about known workers, and say of the others that there is at most one for
each desktop; that it ends is `OrphanTerminates`.

## Runs

* **own_overlap** (1.4 M states): two overlapping desktops, two threads, two
  workers, no timing assumption.  `OneOwnerPerDesktop`, and
  `EachDesktopImplementsOwnerSlots`: the claims of one desktop's workers change
  as `OwnerSlots` allows, at every step.
* **own_sequential** (753 K): three desktops one after the other, each crashing
  anywhere, three workers, one command at a time, a grace that ends at any moment.
  The machine's known workers implement `OwnerSlots`, and one that is known stays
  known until it exits or its own desktop is launched or ends
  (`ImplementsOwnerSlots`: without the second half a worker could leave the promise
  by being forgotten); a live worker that is registered or named by a sidecar keeps
  its reservation (`LiveOwnerHoldsLease`).
* **own_liveness** (100 K): one desktop that may crash, two threads, two
  workers: `CommandsReturn`, `OrphanTerminates`.

`OneKnownOwner` (of the whole machine) does not hold with two desktops up at once,
and `RefusalNamesLiveOwner` does not hold at all; both are stated in the module, and
section 11 says how they fail.  The first is a theorem for one desktop at a time.

*Bounds.*  Two workers are the least that collide, three allow an owner, an
orphan and a newcomer.  Three desktops in sequence are a crash, a relaunch that
crashes, and one that meets the leftovers of both.  Workers are never reused, so
the number of starts per run is bounded by `Workers`.  Two threads give every
pairwise interleaving of commands; the proofs remove the bounds, and the limit to one
command at a time.

*Fairness* (`FairSpec`).  Weak fairness of a running command's next step and of a
worker's own steps: they are threads and processes the system runs.  Strong
fairness of the two actions that take the mutex: a lock that is free infinitely
often is obtained.  Weak fairness of the clock.  None on the user, on crashes, on
`WorkerExits`, on failures (`StopFails`).  A stop is taken to end, which
`WorkerStop` examines.

# 3. WorkerStop

`stop` is the desktop's `kgw_worker_stop_one_v1` with its flags, `child` the
worker's main thread, `job` the thread that runs the official shutdown,
`request` and `outcome` the two files, `held` whether the registry still has the
worker, `report` what was returned.  `LookForOutcome` and `CheckExit` are the two
halves of one turn of the polling loop; the second one looks at the outcome
again, since the worker may have published and exited in between.
`child.kind` says whether it owns a node core: then neither side has a deadline.

* **stop** (4 K states, complete): both kinds, control files that may fail to be
  written, kills that may fail.  `GracefulMeansJoined`, `CleanStopIsNotForced`,
  `FailureIsProven` (a failure that is not a forced one: the shutdown ended and the
  worker has exited), `CoreShutsDownUndisturbed`; and under fairness
  `StopReturnsOrCoreHolds`, which says at once that a bridge's stop always returns
  and that a core's does unless the core holds itself, and `OrphanEndsOrHolds`.
* **stop_core_unpublished** (violation of `StopReturns`): a node core that cannot
  publish its outcome holds itself for a fallback that, without a deadline, never
  runs; the stop polls for ever with the registry mutex.

The state space is finite without bounds.  *Fairness*: both processes run, the
bridge's deadlines pass, and the official shutdown of a **node core** ends: the
code gives it no deadline for that very reason.  The shutdown of a bridge is not
trusted.

# 4. TransactionSync

A transaction is its block time's rank; `top` of them are on the chain, `local`
and `canonical` are the two tables, `staged` the temporary table, `sync` the sync
under way with its cursor (`before`), page count and stop reason.  `FetchPage`
receives the newest `PageLimit` rows below the cursor, or an empty page although
there are some (`misled`).  `StorePage`, `Turn` (the loop's tests in their order:
before the start date, all existing, no next page, page limit), `FinishForce`,
`Return`.  `NewTransaction`, `Cancel`, `Fails`, `Crash` come between any two.
`since` and `solid` are history: what the chain and the database had at the start.

* **sync** (110 K states): `RangeSyncCompletes` (a sync that says complete, over a
  range without a hole, is), `ForceReplacesWhole`, `ForceKeepsSomething`,
  `CanonicalRowsAreReferenced`.
* **sync_hole** (violation of `AllExistingMeansComplete`): "every row of this page
  exists" is not "SQLite has the data" once a sync was cut short
  (`HarmlessEndsLeaveNoHole` says by what, section 9).

*Bounds*: six transactions, pages of two, two pages per sync, two addresses with
a common transaction: enough for a full page, a short page, a page limit reached
with rows left, a page of only known rows, and rows newer and older than a
filter.  *Abstracted*: content of rows, statistics, progress events, retries
inside one fetch, and equal block times (the cursor is a rank).

# 5. BackupRestore

A file's content is the number of the write that made it.  `backups` are the
directories in order of creation, with their label; `op` is the operation that
holds the lock, at which file it is; `kept` is history: what the user had when
the last restore began.  Copy, pin, check, apply, verify, recover and reverify go
file by file as the code does, `StepFails` and `Crash` fall anywhere, `Tamper`
changes a user's backup at any time, and `Write` has no guard: every database has
commands that write it without the lock (section 1), so any file may be written
between any two steps of any operation.  A writer that takes the lock is a special
case of it.

So no operation leaves the files as it found them; what it leaves is said file by
file, with what was written since as the only exception (numbers of writes tell
which is which):

* **backup** (7.0 M states): `OriginalRecoverable` (what the user had when the restore
  began, or newer, is live or all in one backup), `RestoredIsOneSnapshot`,
  `FailedRestoreChangesNothing` (each file is what it was or was written since),
  `PublishedIsCurrent` (the files of a backup are of one moment but for those
  written while it was made: what the lock does give, that no deletion or restore
  comes between two copies).
* **restore_latest** (violation of `LatestIsRestored`): the latest backup is chosen
  by directory name, label first, so a safety backup outranks any ordinary backup
  made after it (`RestoredByName`: exactly then).

*Bounds*: three files (first, middle, last of the sequence of replacements), two
writes (two distinct later states), three backups (one to select, the safety
backup, and one more so that selection matters).

# 6. OfficialRuntime

`mode` is what the worker owns: a node (the core), an external bridge (listeners)
or an in-process bridge (both).  `main` is the worker's main thread and the instance
it is at, and how many handles it keeps; `core` the core's thread with
`core_shutdown_tx` (`stop`: open, asked, or dropped by its only owner, which the
core's loop takes for a request) and
`core_terminal_outcome` (`outcome`: written by the thread, taken by whoever reads
it first); `listener[i]` the owner thread of instance `i` with its two channels;
`control` the startup file; `failures` and `verdict` what the shutdown collects
and reports.

| Actions | Code |
|---|---|
| `SpawnCore`, `Attest`, `CheckCore` | `start_node_owner_session` |
| `StartListener`, `AwaitReady`, `AwaitFails`, `JoinFailed`, `UndoneAll` | `start_bridge_owners_ready_with` and the wait for one instance |
| `PublishReady`, `StartObserver`, `Abandon`, `ExitFailed` | the end of the start, in `LIB` |
| `StopArrives`, `MonitorFinds` | `kgw_wait_for_post_ready_event_v1` with the runtime's monitor |
| `AskListener`, `JoinListener`, `JoinedAll`, `AskCore`, `JoinCore`, `Leave` | `kgw_shutdown_all_owned_components_v1`, `BridgeOwnerRuntimeHandle::join`, `stop_network` |
| `WorkersEnd`, `CoreNotices`, `CorePanics`, `CoreBegins`, `CoreShutsDown` | `spawn_mainline_core_thread` |
| `Attach`, `Listener*` | `start_mainline_bridge_owner_thread_ready` |

The roll-back of a start joins the thread that failed (`rollback`) and then stops and
joins the kept handles one after the other (`undo`), by the same `AskListener` and
`JoinListener` as the shutdown, since the code calls the same `join`: a listener
further down the list runs on while an earlier one takes its time.

An error return stops nothing in order.  `Abandon` is the moment the locals are
dropped: the kept handles unjoined, and with them the senders.  Every listener finds
its channel closed, and so does the core, whose loop takes that for a request
(`kgw_real_owner_runtime.rs:1108`): `core.shutdown()` may begin, and even end, before
the main thread writes FAILED and exits (`ExitFailed`), which waits for none of them.
When the start failed before the last listener was ready, the roll-back has joined
them all; when it failed after, because READY could not be written (`LIB:2570`) or the
observer not be started (`LIB:2576`), they still run (`LateFailure`).

`WorkerStop` takes this shutdown as its `job`; the two modules are not composed by
INSTANCE, because a worker's shutdown here has no desktop and its job there no
threads: what `WorkerStop!JobEnds` chooses freely (well, terminal failure, open
failure, panic) covers both verdicts of this module.

* **runtime** (9.6 K states, complete): the three kinds of worker with three
  instances; control files and the observer thread may fail.
  `CoreOutlivesListeners` (the core is told to stop, by a message or by a dropped
  sender, only when every listener is over, `LateFailure` alone excepted),
  `GracefulMeansJoined`, `FailedStartLeavesNoListener` (of a start that fails before
  every instance is up), and under fairness `LostPartEndsWorker` (which includes that
  the roll-back ends).

*Bounds*: three instances are a first, one in the middle and a last one to fail; the
proofs are for any number.  *Fairness*: the main thread goes on, a core that was
asked or has lost its workers ends, a listener that was asked ends (the code joins
them without a deadline; `WorkerStop` gives the budget around it).  *Abstracted*:
attestation of port and process, arguments, the claim on the core's network (taken
once per process), observation samples.

# 7. NodeTab

One network.  `transition`, `lock` and `enabled` are the tab's own stores,
`confirming` is the dialog a start awaits, `view` the two buttons and the state
shown.  `status` is the shared status task: it asks for the node, then for the
bridge; `saw` and `touched` stand for the entry of the lock store that was there
when it asked, since the code compares that object with the one there later
(`LockChanged`).  `start`, `stop` are the two requests from handler to backend,
`late` a start the tab gave up waiting for, `op` the bridge tab's command, `node`
and `bridge` what really runs.  The backend is the registry of `RuntimeOwnership`,
reduced to its mutex: a command holds it, a status that finds it held is an error
(`Busy`).

* **tab** (108 K states): five events in any order with the answers of everything
  asked before.  `ButtonsFitTab`, `TransitionHasRequest`, `StaleAnswerKeepsLock`,
  and under fairness `TabSettles`: the buttons end up telling the truth.

*Bounds*: `MaxEvents` counts clicks, switches, bridge commands, deaths and timeouts;
five are enough for a start, its timeout, a bridge command, a death and one click
more.  *Fairness* in two parts: `BackendAnswers` (commands return, which is
`RuntimeOwnership`'s `CommandsReturn`, and a start leaves its preparation) and
`HandlersRun` (the pulse goes on, a handler whose answer is there runs).
*Abstracted*: settings are valid; notices, traces and layout; the refresh that is
scheduled after an action is a `Poll`; an external bridge owns no node and does not
lock the tab.

# 8. FencedLease and WriterClaim

`FencedLease` is the promise in three actions: `Grant` when nobody holds an unexpired
lease, with a new epoch; `Extend` and `End` by the holder.  `WriterClaim` is the code:
a command reads the clock (`Start`), then the ref (`Read`), decides (`Granted`,
`Decided`: `decide_acquire`, `verify_holder`, `decide_renew`, `decide_release`) and
replaces the ref if it still is what it read (`CasWins`, `CasLoses`); it may die
anywhere (`Ends`).  `wins` and `fence` are history: the writes that won, and the
epoch when a command started.

* **claim** (1.5 M states): two commands at a time of two sessions.  `TransitionWonOnce`,
  `NothingIsOverwritten`, `EpochHasOneSession`, `FencedOut`, and
  `RefinesFencedLease`.

The time a lease is judged by is the one the command read, before the ref: the
refinement holds because time only grows, so a lease that was over then is over at
the swap, and a holder who renews late extends a lease nobody else was granted since
(the swap would fail).  *Bounds*: three seconds, three transitions, leases of zero
and one second: a grant, a takeover and a return of the first session.  *Not in
it*: the sum of renewal and lease saturates in the code at 2^64 seconds; the
mutation a verification protects is made outside and is not atomic with it.

# 9. Proofs

## RuntimeOwnershipProofs

`RuntimeOwnershipProofs` proves for every set of desktops, workers and threads,
from the two assumptions on the constants alone (and for either value of
`OverlapAllowed`):

* `TypeCorrect`: `Spec => []TypeOK`;
* `OneOwnerPerDesktopHolds`: `Spec => []OneOwnerPerDesktop`;
* `NoForgottenWorker`: a live worker of a live desktop is in the registry or is
  the child of the start that holds the mutex, and the mutex is held by exactly
  the call that is in a locked section.

`OneOwnerPerDesktop` is not inductive: that a start finds no colliding worker
follows only if *every* live worker of the desktop is visible to it.  The
inductive invariant `IInv` therefore has, beside the types:

* `CallsInv`, `MutexInv`: a call in a locked section is of a live desktop and
  holds its mutex; so there is at most one;
* `BornInv`, `RegistryInv`, `ChildInv`: a registered worker, and the child of a
  start, is a born worker of this desktop, in the role and mode it was started in;
* `AccountedInv`: a live worker of a live desktop is registered or is such a child;
* `CheckedInv`: from `reserve` to `spawn`, what `EnterRegistry` checked still
  holds, because nobody else changes the registry while the mutex is held.

The lemmas come first (what `Goto`, `Return`, `Unlock`, `RemoveFiles`, `Kill` and
the frame of a step that touches no worker preserve), then one lemma per action,
then `Inductive`.  Lease and sidecar occur only in `TypeOK`: the property does not
depend on files, which is why it holds in spite of what section 11 says of the files.

From the same invariant, `EachDesktopImplementsOwnerSlotsHolds`: the claims of one
desktop's workers go through the steps of `OwnerSlots` only.  A step changes the set
of the claims of the workers of the desktops of D (`ClaimsIn(D)`) by one claim or not
at all (`WorkerSteps`, `ClaimAcquired`, `ClaimReleased`, `ClaimsStay`), and `Acquire`
finds no claim in its way as long as no two of them collide (`StepOfSlots`).

The second half is about the whole machine and does depend on the files.  It has two
hypotheses, that no two desktops are up at once (`~OverlapAllowed`) and
`[]ReconcileAlone`; the code guarantees neither, and each is needed.
`LiveOwnerHoldsLeaseHolds`, `OneKnownOwnerHolds` and `ImplementsOwnerSlotsHolds` rest
on both, and on nothing about time: the starting grace may end whenever it likes.

`ReconcileAlone` says that no two starts are, for one lease, between the look at it
and its removal; it excludes exactly the race of section 11 and nothing else: any
number of starts, stops and polls may run together, and in `own_sequential` (one
command at a time) it holds by itself.  The invariant is
`SeqInv == IInv /\ FilesInv /\ CommandInv`:

* `EntryInv`: the lease of a registered role is this desktop's or gone, and while the
  worker lives the sidecar names it; `SidecarInv`: a sidecar stands beside the lease
  of its own desktop; `LeaseInv`: a lease names a desktop that was launched;
* `HeldInv`: every known worker, an orphan too, is covered by the lease of its own
  desktop, beside which no sidecar names another; so no two of them collide
  (`OneOwnerInv`).  Nothing covers a worker that is not known, and nothing of what
  follows relies on one;
* `ReconcileInv`: what a start has seen of a stale lease is still so when it acts on
  it, no known worker has the role when it unlinks, and from the mutex on no known
  worker of another desktop is in its way; `ReservedInv`: the reservation is there
  until the start ends.

`DropFiles` is the lemma behind every removal by path: files may go where no
registered and no known worker of the role lives.

Two lemmas are about becoming known and unknown: no step of a worker's own or of a
command makes a live worker unknown (`KnownSteps`), and when a desktop ends at most
one of its workers is, the child of the start that held the mutex (`EndLeavesOne`).
`StrayInv` keeps the latter, and is the second half of `OneKnownOwner`.

## TransactionSyncProofs

For any addresses, number of transactions, common transactions, filters, page
size and page limit, from `ParameterAssumption` alone: `TypeCorrect`,
`CanonicalRowsReferenced`, `RangeSyncCompletesHolds`, `ForceReplacesWholeHolds` and
`ForceKeepsSomethingHolds`, which are all the properties of the `sync` run.

What a sync promises at its end is not inductive: it follows from what every turn
of the loop keeps.  The inductive invariant (each part an invariant of the small
instance too) says

* `RowsInv`, `StageInv`, `RunInv`: rows and stage hold only what is on the chain,
  and a sync is in the mode, range and place its history allows;
* `CoverInv`, `PageInv`: a page has no hole (`PageFacts`: it is the newest part of
  what is below the cursor), and the last one has all that is left;
* `StoredInv`: a page is stored before the loop turns;
* `TakenInv`: down to the cursor everything the chain had at the start has been
  taken, into the stage or, within the range, into the table;
* `SolidInv`: a history without a hole at the start has none below this sync's
  own pages.  This is what the fast stop (`all_existing`) relies on, and what a
  sync that was cut short destroys (`sync_hole`);
* `CompleteInv`: a stage that may be promoted is everything; `LoadedInv`: rows
  known at the start of a forced refresh are still known at its end.

An explorer that answers an empty page too early (`misled`) is excluded by name
from `CoverInv`, `TakenInv` and `CompleteInv`; `ForceKeepsSomethingHolds` is proved
without that exclusion.

`AllExistingMeansComplete`, which the run `sync_hole` violates, is then proved under
a condition on the behaviour, `HarmlessEnds` (`AllExistingMeansCompleteHolds`): every
sync that ends, or dies with its process, is a forced refresh that was not promoted
or was not misled, or a normal sync that has had no page or that came to an empty
page, to a page without a next one or to known rows, and was not misled.
`HarmlessEndsLeaveNoHole` is the stronger statement behind it: no history ever has a
hole between two syncs.  So forced refreshes cut short at any point, deletions,
filters on the newest rows and transactions that come during a sync make no hole;
what does is a normal sync that ends after a page with an error, a cancellation, a
crash, the page limit or the start of its range, and any sync misled by an empty
page.  Each of these is needed: TLC finds a hole when any one is allowed.

`WholeInv` is relative to `IInv`: `QuietInv` says which histories are whole now,
`BelowInv` and `AboveInv` what there is on either side of the cursor, `PageWholeInv`
and `StageWholeInv` the same of a page and of a stage, and `HonestInv` that nothing
has misled a sync that goes on.

## BackupRestoreProofs

For any list of files, any number of writes and backups, and writes of every file at
every moment, from `FilesAssumption` alone: `TypeCorrect`, `OriginalRecoverableHolds`,
`FailedRestoreChangesNothingHolds`, `PublishedIsCurrentHolds` and
`RestoredIsOneSnapshotHolds`, all the properties of the `backup` run.

`OriginalRecoverable` is not inductive for two reasons: a backup the user made may
be changed, and nothing in it says that a replacement has a safety backup.
`IInv` adds

* `PhaseInv`: which step an operation is at says what it is and what it has made;
  `NewerInv`: a write of this operation's time has a number above what was there when
  it began;
* `KeptLive`: until something is replaced, what the user had is live, or newer;
* `CopyInv`: what has been copied is still live, or the file was written since, and in
  a restore it is what the user had, so the safety backup is; `SafetyInv`: it stays so,
  nobody changes it;
* `ReverifyInv`: what a recovery has compared is as it was, or newer;
* `KeptSafe`: `OriginalRecoverable` with a backup that nobody changes.

A second invariant, `SnapInv`, relative to the first, follows the pinned copy:
until somebody changes the selected backup the copy is that backup (`PinnedInv`);
the last check either has a copy of a recorded state or compares every file with
the state that is final (`LastCheckInv`).  It rests on `Tamper` changing a backup
once; a backup changed back and forth is outside the model.  The choice of the
latest directory exists by `NaturalOrder`.

A third one, `ChoiceInv`, follows the choice of the latest backup, the property the
run `restore_latest` violates.  `RestoredByName` needs no hypothesis: a restore
brings back the newest backup if and only if the newest has the last name
(`NewestIsLastName`: label first).  From it `LatestIsRestoredHolds`, as long as that
is so, for instance while the user has only made ordinary backups.

## WorkerStopProofs

For any set of kinds and any values of the two switches: `TypeCorrect`,
`GracefulMeansJoinedHolds`, `CleanStopIsNotForcedHolds`, `FailureIsProvenHolds`,
`CoreShutsDownUndisturbedHolds`, and `RemovedOnlyWhenDeadHolds` (what
`RuntimeOwnership!StopRemoves` relies on).  What a stop reports rests on flags set
turns earlier, so `IInv` follows them:

* `ChildInv`: where the worker is says how far its shutdown is; `OutcomeInv`: what
  the outcome file says was true of the shutdown;
* `StopInv`: attested and proven imply that the outcome was read in this stop;
* `CoreInv`: while a worker that owns a core is on its way to success, the stop that
  asked it still waits, so the fallback does not run under its shutdown;
* `ReportInv`: the reports, and that only a dead worker was removed.

`StopReturns`, which the run `stop_core_unpublished` violates, is liveness; what is
behind it is not, and is proved.  `Stranded` is a stop that polls a node core which
holds itself, with no outcome there and none heard.  `StrandedForGood`: nothing leads
out of it while the desktop lives, whatever the switches.  `NoStopIsStranded`: without
`PublishMayFail` and `KillMayFail` nothing leads into it.  TLC reaches it with either
switch: an outcome that cannot be written is the finding, a kill that fails and is
tried again is the retry of section 11.  Its invariant, `AnswerInv`, is relative to
`IInv`: nothing is said before the worker holds itself or leaves (`SilentInv`), a
core that shuts down for its desktop is waited for (`AskedInv`), and what it said is
there or was heard (`HoldInv`).

## OfficialRuntimeProofs

For any number of instances and any modes: `TypeCorrect`, `CoreOutlivesListenersHolds`,
`GracefulMeansJoinedHolds`, `FailedStartLeavesNoListenerHolds`.  `NodeInv`: a node
worker has no listener; `StartInv`: which handles are kept and which threads there are
at every point of the start, and in a roll-back that the thread that failed and the
handles already joined are over; `ProgressInv`: the instances before the one being
joined were asked and are over, without a panic unless `failures` says so, and the
core's channel is open until all of them are, or until the start has failed.

## NodeTabProofs

For any number of events: `TypeCorrect`, `ButtonsFitTabHolds`,
`TransitionHasRequestHolds`, `StaleAnswerKeepsLockHolds`.  The invariant is the
properties with the types; every handler draws from the newest lock and transition
(`ButtonsFit`), or draws nothing that can be clicked (`UnknownFits`).

## WriterClaimProofs

For any sessions, commands, leases and bounds: `Typed`, `EpochFences`, `WonOnce`,
`NoWriteLost`, `OldEpochIsRefused` and `ImplementsFencedLease`, the refinement.
`HistoryInv`: the writes that won are numbered without a gap and end in the claim;
`CommandInv`: the clock a command read is not ahead; `FenceInv`: a command sees no
epoch from before it started.

## Only model-checked

Everything under fairness (`ENABLED` and liveness are outside the prover's reach):
`CommandsReturn`, `OrphanTerminates`, `StopReturnsOrCoreHolds`, `OrphanEndsOrHolds`,
`LostPartEndsWorker`, `TabSettles`.  Every other property of a passing run is a
theorem.  Of the three that a run violates, `AllExistingMeansComplete` and
`LatestIsRestored` are theorems under the condition that the finding breaks, and the
state `StopReturns` is lost in is bounded by two theorems.

# 10. What is left

1. The queue before `DB_OPERATION_LOCK`: a sync registers only when it has the lock,
   so a cancellation before finds nothing; and the two sections of a deletion.
   Both are described in section 11; the code promises neither.
2. The bridge tab with several instances, which repeats the machine of `NodeTab`.
3. An INSTANCE of `OfficialRuntime` in `WorkerStop` in the place of its `job`.

# 11. What the checks and the reading found

The three *violation* runs are findings in `PROJECT.json`, with the sentence of the
repository each contradicts.  The following disagreements are stated as properties
in the modules but have no run:

* `RuntimeOwnership!OneKnownOwner` (with `OverlapAllowed`): a status poll of a dead
  entry removes the lease file by path on every poll, whoever's lease it is by now
  (`IRC:3504`).  With two desktops up it removes the other's, and a second owner of
  the role starts, while `docs/architecture/README.md:9` says "one owner per runtime
  instance".
* `RuntimeOwnership!LiveOwnerHoldsLease`, with two concurrent starts of one relaunched
  desktop: both decide, before the registry lock, to unlink a dead owner's lease, and
  the slower one unlinks the faster one's (`IRC:764`).  No second owner follows in
  this desktop (the registry check is under the mutex), but after a crash the live
  worker is unknown.  The run `own_sequential` has one command at a time;
  `LiveOwnerHoldsLeaseHolds` shows that this race is the only way to lose a lease in
  one desktop.
* `RuntimeOwnership!RefusalNamesLiveOwner`: a crash between `create_new` and the write
  leaves a file that `kgw_runtime_owner_read_lease_v1` cannot read, so every later
  start is refused (`IRC:682`, `IRC:863`).
* `OfficialRuntime!ReadyIsFinal` (with `ObserverMayFail`): when the observer thread
  cannot be started, after READY was published, READY is overwritten by FAILED
  (`LIB:2576`); the comment at `LIB:2274` says that only errors before READY may.

Reading the code for the models also showed the following:

* Switching a network off during its start sends a stop beside it
  (`node_tab.rs:1485`): whichever returns first clears the other's transition
  (`node_tab.rs:1640`), although the tab says "Stop becomes available after READY"
  (`node_tab.rs:702`).  `TabSettles` shows that the buttons recover.
* The lock of the node tab is compared by identity of its entry (`node_tab.rs:940`):
  two absent entries are the same, so a lock that was set and cleared during the
  await goes unnoticed.  The next poll repairs it.
* An in-process bridge worker whose start fails drops the sender of the core's
  shutdown channel, which starts the core's shutdown, and exits without waiting for
  it: the process may end before the core's database is closed.  When the start
  failed after every listener was ready (READY cannot be written, the observer cannot
  be started), that shutdown runs under listeners that still serve, against the
  comment that they are joined first (`LateFailure`, section 6).  The claim on the
  core's network is never given back, by design: one session per process.
* Two desktops can both reserve a node core: a node start and an in-process bridge
  start each check the other role's lease before creating their own.
* A desktop that dies between spawn and sidecar leaves a worker that nothing names.
  When it has not seen the loss of its parent before the starting grace ends, a
  relaunch starts a second owner of its role beside it, or a second node core, until
  it does (`OrphanTerminates`).  The code gives the worker no deadline for its boot, so
  nothing keeps it within the 10 s.  There is at most one for each desktop, and every
  other orphan is waited for (`OneKnownOwner`).
* A worker whose start is refused because its own desktop's lease is still there
  waits for the next status poll to remove it.
* A worker that holds itself never looks at its parent again, so it outlives a
  desktop that dies then; a runtime failure exits even when its outcome could not
  be published, unlike the failure of a stop.
* A stop that failed and is tried again deletes the outcome file, which a held
  worker does not write twice (`Stranded`, section 9).  `stop_one` reports a child that exited by itself
  without attestation as forced.
* Deleting "transactions" removes `Transactions.duckdb` and leaves
  `Transactions.sqlite`, which has the history.
* What is written between the backup before a deletion and the deletion is lost:
  they are two sections of the lock.
* Every database has writers outside `DB_OPERATION_LOCK`: settings and top addresses,
  the address-book imports (`address_book.rs:139-249`), both Python migrations
  (`migration.rs:84`, `python_migration_real.rs`).  What such a command writes between
  a restore's safety backup and the replacement is in neither, what it writes before
  a recovery puts the safety backup back is taken back, and a backup made meanwhile
  has it in one file and not in the next.  The properties of section 5 say what holds
  all the same.
* After a crash in the middle of a restore the live files are of two states until
  somebody restores again; the safety backup has the original.
* The known names are rewritten without a transaction.
* The cancellation of a sync that still waits for the lock finds nothing.
* An empty page in the middle of a history is taken for its end, and a transaction
  accepted late with an older block time is not found by the fast stop.
