--------------------------- MODULE OfficialRuntime ---------------------------
(***************************************************************************)
(* What a self-worker owns and how it brings it up and down: the official  *)
(* core on a thread of its own (KgwRealOwnerRuntime), the bridge owner     *)
(* threads, one per instance, started one after the other, the READY or    *)
(* FAILED message of the start, the watch on all of them, the shutdown     *)
(* that joins the listeners before it asks the core, and the error return, *)
(* which drops the handles and the channels of whatever still runs         *)
(* (kgw_run_node_self_worker, kgw_run_bridge_self_worker).  WorkerStop     *)
(* takes the shutdown as its job and the loss of a part as RuntimeFails.   *)
(***************************************************************************)
EXTENDS Naturals

CONSTANTS
  Modes,            \* of "node", "external" and "inprocess": what the worker owns
  Count,            \* how many bridge instances are configured
  PublishMayFail,   \* may the startup message fail to be written?
  ObserverMayFail   \* may the observer thread fail to start?

ASSUME RuntimeAssumption ==
  /\ Modes \subseteq {"node", "external", "inprocess"} /\ Modes # {}
  /\ Count \in Nat \ {0}
  /\ PublishMayFail \in BOOLEAN /\ ObserverMayFail \in BOOLEAN

VARIABLES
  mode,       \* what this worker owns
  main,       \* the worker's main thread, and the instance it is at
  core,       \* the core's owner thread, its workers and its two channels
  listener,   \* the bridge owner threads
  control,    \* what the startup control file says
  failures,   \* did the shutdown under way meet a failure?
  verdict     \* what the shutdown reported

vars == <<mode, main, core, listener, control, failures, verdict>>

-----------------------------------------------------------------------------
Instances == 1 .. Count

OwnsCore == mode # "external"
OwnsListeners == mode # "node"

Main == [pc : {"spawn", "attest", "check", "listen", "await", "rollback", "undo",
               "publish", "observe", "watch", "join", "stop", "joinCore", "reported",
               "failed", "exit", "gone"},
         at : 1 .. Count + 1,
         handles : 0 .. Count]                                  \* how many are kept

CoreThread == [thread : {"none", "running", "stopping", "ended"},
               workers : {"up", "down"},
               stop : {"open", "asked", "dropped"},             \* core_shutdown_tx
               outcome : {"none", "joined", "failed", "read"}]  \* core_terminal_outcome

Listener == [thread : {"none", "attaching", "attached", "serving", "ended"},
             told : {"nothing", "ready", "failed"},             \* startup_tx
             asked : BOOLEAN,                 \* shutdown_tx says stop, or is gone
             panicked : BOOLEAN]

TypeOK ==
  /\ mode \in Modes
  /\ main \in Main
  /\ core \in CoreThread
  /\ listener \in [Instances -> Listener]
  /\ control \in {"none", "READY", "FAILED"}
  /\ failures \in BOOLEAN
  /\ verdict \in {"none", "graceful", "terminal"}
  /\ core.thread = "none" => core.outcome = "none" /\ core.stop = "open"
  /\ core.outcome # "none" => core.thread = "ended"
  /\ main.pc \in {"await", "rollback"} => main.at \in Instances

NoCore == [thread |-> "none", workers |-> "down", stop |-> "open", outcome |-> "none"]
NoListener == [thread |-> "none", told |-> "nothing", asked |-> FALSE, panicked |-> FALSE]

Init ==
  /\ mode \in Modes
  /\ main = [pc |-> IF OwnsCore THEN "spawn" ELSE "listen", at |-> 1, handles |-> 0]
  /\ core = NoCore
  /\ listener = [i \in Instances |-> NoListener]
  /\ control = "none" /\ failures = FALSE /\ verdict = "none"

Up == main.pc # "gone"
Goto(pc) == main' = [main EXCEPT !.pc = pc]
From(pc, i) == main' = [main EXCEPT !.pc = pc, !.at = i]
Alive(i) == listener[i].thread \in {"attaching", "attached", "serving"}
Over(i) == listener[i].thread \in {"none", "ended"}
CoreAlive == core.thread \in {"running", "stopping"}
RpcAnswers == core.thread = "running" /\ core.workers = "up"

-----------------------------------------------------------------------------
(* The core's owner thread (spawn_mainline_core_thread).                   *)

\* The core's own workers end without being asked to.
WorkersEnd ==
  /\ Up /\ RpcAnswers
  /\ core' = [core EXCEPT !.workers = "down"]
  /\ UNCHANGED <<mode, main, listener, control, failures, verdict>>

\* The loop looks for a shutdown message first and at the workers only then.
CoreNotices ==
  /\ Up /\ core.thread = "running" /\ core.stop = "open" /\ core.workers = "down"
  /\ core' = [core EXCEPT !.thread = "ended", !.outcome = "failed"]
  /\ UNCHANGED <<mode, main, listener, control, failures, verdict>>

CorePanics ==
  /\ Up /\ CoreAlive
  /\ core' = [core EXCEPT !.thread = "ended", !.workers = "down", !.outcome = "failed"]
  /\ UNCHANGED <<mode, main, listener, control, failures, verdict>>

\* A sender that is gone counts as a request; core.shutdown() is called.
CoreBegins ==
  /\ Up /\ core.thread = "running" /\ core.stop # "open"
  /\ core' = [core EXCEPT !.thread = "stopping"]
  /\ UNCHANGED <<mode, main, listener, control, failures, verdict>>

CoreShutsDown ==
  /\ Up /\ core.thread = "stopping"
  /\ core' = [core EXCEPT !.thread = "ended", !.workers = "down", !.outcome = "joined"]
  /\ UNCHANGED <<mode, main, listener, control, failures, verdict>>

-----------------------------------------------------------------------------
(* A bridge owner thread (start_mainline_bridge_owner_thread_ready).       *)

Becomes(i, l) ==
  /\ listener' = [listener EXCEPT ![i] = l]
  /\ UNCHANGED <<mode, main, core, control, failures, verdict>>

\* The node answers; an external one is not this worker's.
Attach(i) ==
  /\ Up /\ listener[i].thread = "attaching"
  /\ mode = "inprocess" => RpcAnswers
  /\ Becomes(i, [listener[i] EXCEPT !.thread = "attached"])

ListenerReady(i) ==
  /\ Up /\ listener[i].thread = "attached"
  /\ Becomes(i, [listener[i] EXCEPT !.thread = "serving", !.told = "ready"])

ListenerFails(i) ==
  /\ Up /\ listener[i].thread \in {"attaching", "attached"}
  /\ Becomes(i, [listener[i] EXCEPT !.thread = "ended", !.told = "failed"])

\* The listener or its Prometheus server ends, or the thread panics.
ListenerEnds(i) ==
  /\ Up /\ Alive(i)
  /\ \/ /\ listener[i].thread = "serving"
        /\ Becomes(i, [listener[i] EXCEPT !.thread = "ended"])
     \/ Becomes(i, [listener[i] EXCEPT !.thread = "ended", !.panicked = TRUE])

ListenerStops(i) ==
  /\ Up /\ Alive(i) /\ listener[i].asked
  /\ Becomes(i, [listener[i] EXCEPT !.thread = "ended"])

-----------------------------------------------------------------------------
(* The start.                                                              *)

SpawnCore ==
  /\ main.pc = "spawn"
  /\ \/ /\ core' = [NoCore EXCEPT !.thread = "running", !.workers = "up"]
        /\ Goto("attest")
     \/ Goto("failed") /\ UNCHANGED core
  /\ UNCHANGED <<mode, listener, control, failures, verdict>>

\* fail_if_core_terminated reads the outcome; the deadline is a failure too.
Attest ==
  /\ main.pc = "attest"
  /\ \/ RpcAnswers /\ Goto("check") /\ UNCHANGED core
     \/ /\ Goto("failed")
        /\ core' = [core EXCEPT !.outcome = IF @ = "none" THEN @ ELSE "read"]
  /\ UNCHANGED <<mode, listener, control, failures, verdict>>

\* official_core_running is whether the thread has not ended by now.
CheckCore ==
  /\ main.pc = "check"
  /\ IF CoreAlive THEN Goto(IF OwnsListeners THEN "listen" ELSE "publish")
                  ELSE Goto("failed")
  /\ UNCHANGED <<mode, core, listener, control, failures, verdict>>

\* Variant: the end of the list is noticed one instance too late.
StartListenerPastEnd ==
  /\ main.pc = "listen"
  /\ \/ main.at > Count + 1 /\ Goto("publish") /\ UNCHANGED listener
     \/ /\ main.at <= Count + 1
        /\ Goto("await")
        /\ listener' = [listener EXCEPT ![main.at] =
                          [NoListener EXCEPT !.thread = "attaching"]]
     \/ main.at <= Count + 1 /\ From("undo", 1) /\ UNCHANGED listener
  /\ UNCHANGED <<mode, core, control, failures, verdict>>

\* start_bridge_owners_ready_with: all are there, or the next instance is started,
\* which may fail before there is a thread.
StartListener ==
  /\ main.pc = "listen"
  /\ \/ main.at > Count /\ Goto("publish") /\ UNCHANGED listener
     \/ /\ main.at <= Count
        /\ Goto("await")
        /\ listener' = [listener EXCEPT ![main.at] =
                          [NoListener EXCEPT !.thread = "attaching"]]
     \/ main.at <= Count /\ From("undo", 1) /\ UNCHANGED listener
  /\ UNCHANGED <<mode, core, control, failures, verdict>>

\* Ready is taken as it was sent, whatever happened to the thread since.
AwaitReady ==
  /\ main.pc = "await" /\ listener[main.at].told = "ready"
  /\ main' = [pc |-> "listen", at |-> main.at + 1, handles |-> main.handles + 1]
  /\ UNCHANGED <<mode, core, listener, control, failures, verdict>>

\* A failure, a thread that went without a word, or a parent that waited too
\* long; the thread is asked to stop.
AwaitFails ==
  /\ main.pc = "await" /\ listener[main.at].told # "ready"
  /\ Goto("rollback")
  /\ listener' = [listener EXCEPT ![main.at].asked = TRUE]
  /\ UNCHANGED <<mode, core, control, failures, verdict>>

\* Variant: the instances that were up are left to the end of the process.
JoinFailedOnly ==
  /\ main.pc = "rollback" /\ Over(main.at)
  /\ Goto("failed")
  /\ UNCHANGED <<mode, core, listener, control, failures, verdict>>

\* The thread that failed is joined first; its handle was never kept.
JoinFailed ==
  /\ main.pc = "rollback" /\ Over(main.at)
  /\ From("undo", 1)
  /\ UNCHANGED <<mode, core, listener, control, failures, verdict>>

\* The handles that were kept have been joined, in order (AskListener, JoinListener).
UndoneAll ==
  /\ main.pc = "undo" /\ main.at > main.handles
  /\ Goto("failed")
  /\ UNCHANGED <<mode, core, listener, control, failures, verdict>>

PublishReady ==
  /\ main.pc = "publish"
  /\ \/ control' = "READY" /\ Goto("observe")
     \/ PublishMayFail /\ Goto("failed") /\ UNCHANGED control
  /\ UNCHANGED <<mode, core, listener, failures, verdict>>

\* An error here is an error of the start, though READY is out.
StartObserver ==
  /\ main.pc = "observe"
  /\ \/ Goto("watch")
     \/ ObserverMayFail /\ Goto("failed")
  /\ UNCHANGED <<mode, core, listener, control, failures, verdict>>

\* The error return drops the kept handles unjoined and the only senders: a listener
\* finds its channel closed, the core's loop takes that for a request.
Abandon ==
  /\ main.pc = "failed"
  /\ listener' = [i \in Instances |->
                    IF Alive(i) THEN [listener[i] EXCEPT !.asked = TRUE] ELSE listener[i]]
  /\ core' = IF CoreAlive THEN [core EXCEPT !.stop = "dropped"] ELSE core
  /\ Goto("exit")
  /\ UNCHANGED <<mode, control, failures, verdict>>

\* FAILED is written if it can be, and the process exits with whatever still runs in
\* it: it waits for nothing.
ExitFailed ==
  /\ main.pc = "exit"
  /\ \/ control' = "FAILED"
     \/ PublishMayFail /\ UNCHANGED control
  /\ Goto("gone")
  /\ UNCHANGED <<mode, core, listener, failures, verdict>>

-----------------------------------------------------------------------------
(* The watch and the shutdown.                                             *)

BeginShutdown == From(IF OwnsListeners THEN "join" ELSE "stop", 1)

\* A stop request or the loss of the parent.
StopArrives ==
  /\ main.pc = "watch"
  /\ BeginShutdown
  /\ UNCHANGED <<mode, core, listener, control, failures, verdict>>

\* Variant: the monitor asks the core alone.
MonitorCoreOnly ==
  /\ main.pc = "watch"
  /\ OwnsCore /\ core.thread = "ended"
  /\ BeginShutdown
  /\ core' = [core EXCEPT !.outcome = "read"]
  /\ UNCHANGED <<mode, listener, control, failures, verdict>>

\* terminal_failure reads the outcome of a core that has ended; then each
\* bridge thread is asked whether it has finished.
MonitorFinds ==
  /\ main.pc = "watch"
  /\ \/ /\ OwnsCore /\ core.thread = "ended"
        /\ core' = [core EXCEPT !.outcome = "read"]
     \/ /\ OwnsCore => core.thread # "ended"
        /\ OwnsListeners /\ \E i \in Instances : Over(i)
        /\ UNCHANGED core
  /\ BeginShutdown
  /\ UNCHANGED <<mode, listener, control, failures, verdict>>

\* BridgeOwnerRuntimeHandle::join asks and waits, in the shutdown and in the roll-back
\* of a start, where a panic is ignored.
Joining == main.pc \in {"join", "undo"} /\ main.at <= main.handles

AskListener ==
  /\ Joining /\ ~listener[main.at].asked
  /\ listener' = [listener EXCEPT ![main.at].asked = TRUE]
  /\ UNCHANGED <<mode, main, core, control, failures, verdict>>

Joined ==
  /\ main' = [main EXCEPT !.at = @ + 1]
  /\ failures' = (failures \/ (main.pc = "join" /\ listener[main.at].panicked))
  /\ UNCHANGED <<mode, core, listener, control, verdict>>

\* Variant: asked is good enough.
PassListener == Joining /\ listener[main.at].asked /\ Joined

JoinListener == Joining /\ listener[main.at].asked /\ Over(main.at) /\ Joined

Report(failed) ==
  /\ Goto("reported")
  /\ verdict' = IF failed THEN "terminal" ELSE "graceful"

\* Every component has been shut down, whatever the one before it answered.
JoinedAll ==
  /\ main.pc = "join" /\ main.at > main.handles
  /\ IF OwnsCore THEN Goto("stop") /\ UNCHANGED verdict ELSE Report(failures)
  /\ UNCHANGED <<mode, core, listener, control, failures>>

\* stop_network takes the handles and sends the request, which fails when the
\* core has ended.
AskCore ==
  /\ main.pc = "stop"
  /\ IF CoreAlive
     THEN core' = [core EXCEPT !.stop = "asked"] /\ UNCHANGED failures
     ELSE failures' = TRUE /\ UNCHANGED core
  /\ Goto("joinCore")
  /\ UNCHANGED <<mode, listener, control, verdict>>

\* Variant: the core's answer is not looked at.
JoinCoreUnread ==
  /\ main.pc = "joinCore" /\ ~CoreAlive
  /\ Report(failures)
  /\ UNCHANGED <<mode, core, listener, control, failures>>

JoinCore ==
  /\ main.pc = "joinCore" /\ ~CoreAlive
  /\ Report(failures \/ core.outcome # "joined")
  /\ UNCHANGED <<mode, core, listener, control, failures>>

Leave ==
  /\ main.pc = "reported"
  /\ Goto("gone")
  /\ UNCHANGED <<mode, core, listener, control, failures, verdict>>

-----------------------------------------------------------------------------
MainStep ==
  \/ SpawnCore \/ Attest \/ CheckCore
  \/ StartListener \/ AwaitReady \/ AwaitFails \/ JoinFailed \/ UndoneAll
  \/ PublishReady \/ StartObserver \/ Abandon \/ ExitFailed
  \/ MonitorFinds \/ AskListener \/ JoinListener \/ JoinedAll
  \/ AskCore \/ JoinCore \/ Leave

Next ==
  \/ MainStep \/ StopArrives
  \/ WorkersEnd \/ CoreNotices \/ CorePanics \/ CoreBegins \/ CoreShutsDown
  \/ \E i \in Instances :
       \/ Attach(i) \/ ListenerReady(i) \/ ListenerFails(i)
       \/ ListenerEnds(i) \/ ListenerStops(i)

Spec == Init /\ [][Next]_vars

\* The worker's own thread goes on; the core and the listeners do end when they
\* are asked to.  Nothing has to end of itself.
FairSpec ==
  /\ Spec
  /\ WF_vars(MainStep)
  /\ WF_vars(CoreNotices) /\ WF_vars(CoreBegins) /\ WF_vars(CoreShutsDown)
  /\ \A i \in Instances : WF_vars(ListenerStops(i))

-----------------------------------------------------------------------------
(* Properties.                                                             *)

\* The start failed after the last listener was ready: READY could not be written, or
\* the observer not be started.
LateFailure == main.pc \in {"exit", "gone"} /\ verdict = "none" /\ main.handles = Count

\* "Bridge listeners depend on the Node RPC service. Stop and join them before
\* requesting official Core shutdown" (kgw_real_owner_runtime.rs): over the threads of
\* every instance, whatever failed on the way, and for a request the core reads from
\* a sender that was dropped.  Only a late failure of the start shuts the core down
\* under its listeners.
CoreOutlivesListeners ==
  core.stop # "open" => (\A i \in Instances : Over(i)) \/ LateFailure

\* A shutdown is called graceful only when every thread was seen to end: no
\* listener runs or panicked, and the core answered that it joined its workers.
GracefulMeansJoined ==
  verdict = "graceful" =>
    /\ \A i \in Instances : Over(i) /\ ~listener[i].panicked
    /\ OwnsCore => core.outcome = "joined"

\* A start that fails before every instance is up, at whichever of them and however
\* long the others take to stop, returns its error with no listener left.
FailedStartLeavesNoListener ==
  main.pc \in {"failed", "exit", "gone"} /\ main.handles < Count =>
    \A i \in Instances : Over(i)

\* "Only errors produced before READY are allowed to use startup FAILED" (lib.rs).
\* It does not hold when ObserverMayFail: StartObserver comes after PublishReady.
ReadyIsFinal == [][control = "READY" => control' = "READY"]_control

\* A core or a listener that ends while the worker is watched over takes the whole
\* worker down; a shutdown that was begun, for whatever reason, and the roll-back of a
\* start come to an end with every thread that is still up.
Falling ==
  \/ main.pc \in {"join", "stop", "rollback", "undo"}
  \/ /\ main.pc = "watch"
     /\ \/ core.thread = "ended"
        \/ \E i \in Instances : listener[i].thread = "ended"

LostPartEndsWorker == Falling ~> main.pc = "gone"
=============================================================================
