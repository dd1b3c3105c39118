----------------------------- MODULE WorkerStop -----------------------------
(***************************************************************************)
(* How a desktop stops one READY worker and how the worker answers: the    *)
(* request and outcome files, the official shutdown that runs on a thread  *)
(* of the worker, the attestation the desktop demands before it calls a    *)
(* stop graceful, and the fallback that kills the exact child              *)
(* (kgw_worker_stop_one_v1; kgw_execute_supervised_stop_request_v1).       *)
(* RuntimeOwnership takes the whole of it as StopEndsWorker and what       *)
(* follows, WorkerTakesStop, WorkerExits and WorkerLosesParent.            *)
(***************************************************************************)

CONSTANTS
  Kinds,            \* "core": a node worker or an inprocess bridge, no deadlines
                    \* "bridge": a worker that owns no node core
  PublishMayFail,   \* may a control file fail to be written?
  KillMayFail       \* may the kill of a live child fail?

ASSUME SwitchAssumption ==
  /\ Kinds \subseteq {"core", "bridge"} /\ Kinds # {}
  /\ PublishMayFail \in BOOLEAN
  /\ KillMayFail \in BOOLEAN

VARIABLES
  parent,    \* the desktop process
  stop,      \* kgw_worker_stop_one_v1 under way, its local variables
  report,    \* what the last stop returned
  held,      \* is the worker in the desktop's registry?
  request,   \* is the stop request file there?
  outcome,   \* what the stop outcome file says
  child,     \* the worker's main thread
  job        \* the thread that runs the official shutdown

vars == <<parent, stop, report, held, request, outcome, child, job>>

-----------------------------------------------------------------------------
Outcomes == {"stopped", "failedTerminal", "failedOpen"}

Idle == [pc |-> "idle", attested |-> FALSE, proven |-> FALSE,
         received |-> FALSE, unasked |-> FALSE, expired |-> FALSE]

Looping == {"look", "check"}
Ended == {"ok", "failedTerminal", "failedOpen", "panicked"}

StopCall == [pc : {"idle", "clear", "ask", "force"} \union Looping,
             attested : BOOLEAN, proven : BOOLEAN, received : BOOLEAN,
             unasked : BOOLEAN, expired : BOOLEAN]

Child == [kind : Kinds,
          pc : {"watch", "confirm", "shutdown", "cleanup", "publishStopped",
                "publishFailed", "publishCleanup", "leave", "hold", "dead"},
          lost : BOOLEAN,                      \* it knows its parent is gone
          verdict : {"failedTerminal", "failedOpen"},
          status : {"running", "success", "failure", "killed"}]

TypeOK ==
  /\ parent \in {"up", "gone"}
  /\ stop \in StopCall
  /\ report \in {"none", "already", "graceful", "failed", "forced", "error"}
  /\ held \in BOOLEAN /\ request \in BOOLEAN
  /\ outcome \in {"none"} \union Outcomes
  /\ child \in Child
  /\ job \in {"none", "running"} \union Ended

Init ==
  /\ parent = "up" /\ stop = Idle /\ report = "none"
  /\ held = TRUE /\ request = FALSE /\ outcome = "none"
  /\ child \in [kind : Kinds, pc : {"watch"}, lost : {FALSE},
                verdict : {"failedOpen"}, status : {"running"}]
  /\ job = "none"

\* kgw_worker_reservation_owns_node_core_v1
OwnsCore == child.kind = "core"

Alive == child.pc # "dead"

-----------------------------------------------------------------------------
(* The desktop.                                                            *)

ParentEnds ==
  /\ parent = "up"
  /\ parent' = "gone"
  /\ stop' = Idle
  /\ UNCHANGED <<report, held, request, outcome, child, job>>

\* A worker that leaves the registry takes its control files with it.
Report(r) ==
  /\ report' = r
  /\ held' = FALSE
  /\ request' = FALSE /\ outcome' = "none"
  /\ stop' = Idle

StopBegin ==
  /\ parent = "up" /\ held /\ stop.pc = "idle"
  /\ \/ ~Alive /\ Report("already")
     \/ Alive /\ stop' = [Idle EXCEPT !.pc = "clear"]
              /\ UNCHANGED <<report, held, request, outcome>>
  /\ UNCHANGED <<parent, child, job>>

ClearControl ==
  /\ stop.pc = "clear"
  /\ request' = FALSE /\ outcome' = "none"
  /\ stop' = [stop EXCEPT !.pc = "ask"]
  /\ UNCHANGED <<parent, report, held, child, job>>

\* A request that cannot be written counts as the final answer of a worker that
\* has no deadline.
AskStop ==
  /\ stop.pc = "ask"
  /\ \/ request' = TRUE /\ stop' = [stop EXCEPT !.pc = "look"]
     \/ /\ PublishMayFail
        /\ stop' = [stop EXCEPT !.pc = "look", !.unasked = TRUE, !.received = OwnsCore]
        /\ UNCHANGED request
  /\ UNCHANGED <<parent, report, held, outcome, child, job>>

\* Variant: one deadline for every worker.
EveryDeadlinePasses ==
  /\ stop.pc \in Looping /\ ~stop.expired
  /\ stop' = [stop EXCEPT !.expired = TRUE]
  /\ UNCHANGED <<parent, report, held, request, outcome, child, job>>

DeadlinePasses ==
  /\ ~OwnsCore
  /\ stop.pc \in Looping /\ ~stop.expired
  /\ stop' = [stop EXCEPT !.expired = TRUE]
  /\ UNCHANGED <<parent, report, held, request, outcome, child, job>>

\* The outcome file as the stop's flags, read once and removed.
Heard ==
  IF outcome = "none" THEN stop
  ELSE [stop EXCEPT !.received = TRUE,
                    !.attested = @ \/ outcome = "stopped",
                    !.proven = IF outcome = "stopped" THEN @
                               ELSE outcome = "failedTerminal"]

GoesOn == (~stop.received \/ stop.attested \/ stop.proven) /\ ~stop.expired

\* The head of the polling loop and the look for an outcome.
LookForOutcome ==
  /\ stop.pc = "look"
  /\ IF GoesOn
     THEN stop' = [Heard EXCEPT !.pc = "check"] /\ outcome' = "none"
     ELSE stop' = [stop EXCEPT !.pc = "force"] /\ UNCHANGED outcome
  /\ UNCHANGED <<parent, report, held, request, child, job>>

\* Variant: an outcome published after the look and before the exit is not read.
CheckExitOnce ==
  /\ stop.pc = "check"
  /\ \/ Alive /\ stop' = [stop EXCEPT !.pc = "look"]
              /\ UNCHANGED <<report, held, request, outcome>>
     \/ /\ ~Alive
        /\ IF stop.attested /\ child.status = "success"
           THEN Report("graceful")
           ELSE /\ stop' = [stop EXCEPT !.pc = "force"]
                /\ UNCHANGED <<report, held, request, outcome>>
  /\ UNCHANGED <<parent, child, job>>

\* try_wait; on an exit the outcome file is looked at once more, because the
\* worker may have published between the look and its exit.
CheckExit ==
  LET heard == IF stop.received THEN stop ELSE Heard IN
  /\ stop.pc = "check"
  /\ \/ Alive /\ stop' = [stop EXCEPT !.pc = "look"]
              /\ UNCHANGED <<report, held, request, outcome>>
     \/ /\ ~Alive
        /\ IF heard.attested /\ child.status = "success"
           THEN Report("graceful")
           ELSE /\ stop' = [heard EXCEPT !.pc = "force"]
                /\ outcome' = IF stop.received THEN outcome ELSE "none"
                /\ UNCHANGED <<report, held, request>>
  /\ UNCHANGED <<parent, child, job>>

\* The worker said that it failed with everything terminal, and it is gone.
ReportFailure ==
  /\ stop.pc = "force" /\ stop.proven /\ ~Alive
  /\ Report("failed")
  /\ UNCHANGED <<parent, child, job>>

\* Kill and wait; both succeed on a child that has already exited.
ForceStop ==
  /\ stop.pc = "force" /\ ~(stop.proven /\ ~Alive)
  /\ child' = IF Alive THEN [child EXCEPT !.pc = "dead", !.status = "killed"] ELSE child
  /\ job' = IF Alive /\ job = "running" THEN "none" ELSE job
  /\ Report("forced")
  /\ UNCHANGED parent

\* The kill fails: the error is returned, the worker stays registered.
ForceFails ==
  /\ KillMayFail
  /\ stop.pc = "force" /\ Alive
  /\ report' = "error"
  /\ stop' = Idle
  /\ UNCHANGED <<parent, held, request, outcome, child, job>>

StopStep ==
  \/ ClearControl \/ AskStop \/ LookForOutcome \/ CheckExit
  \/ ReportFailure \/ ForceStop

-----------------------------------------------------------------------------
(* The worker.                                                             *)

ChildGoes(pc) == child' = [child EXCEPT !.pc = pc]

\* It exits with this status as soon as it gets to run.
Leaves(status) == child' = [child EXCEPT !.pc = "leave", !.status = status]

\* kgw_wait_for_post_ready_event_v1: a request or the loss of the parent.
SeeStopOrLoss ==
  /\ child.pc = "watch"
  /\ request \/ parent = "gone"
  /\ ChildGoes("confirm")
  /\ UNCHANGED <<parent, stop, report, held, request, outcome, job>>

\* The official runtime terminated by itself; clean up what else is owned.
RuntimeFails ==
  /\ child.pc = "watch"
  /\ \/ ChildGoes("cleanup") /\ job' = "running"
     \/ /\ child' = [child EXCEPT !.pc = "publishCleanup", !.verdict = "failedOpen"]
        /\ UNCHANGED job                              \* no thread could be started
  /\ UNCHANGED <<parent, stop, report, held, request, outcome>>

\* kgw_wait_for_stop_or_parent_loss_v1: the request is read again, and removed;
\* without one the parent is looked for.
StartShutdown ==
  /\ child.pc = "confirm"
  /\ request \/ parent = "gone"
  /\ request' = FALSE
  /\ \/ child' = [child EXCEPT !.pc = "shutdown", !.lost = ~request] /\ job' = "running"
     \/ /\ child' = [child EXCEPT !.pc = "publishFailed", !.lost = ~request,
                                  !.verdict = "failedOpen"]
        /\ UNCHANGED job
  /\ UNCHANGED <<parent, stop, report, held, outcome>>

\* The official shutdown returns, or panics.
JobEnds ==
  /\ job = "running"
  /\ job' \in Ended
  /\ UNCHANGED <<parent, stop, report, held, request, outcome, child>>

\* While it waits for the result the worker polls its parent.
NoticeLoss ==
  /\ child.pc \in {"shutdown", "cleanup"} /\ job = "running"
  /\ parent = "gone" /\ ~child.lost
  /\ child' = [child EXCEPT !.lost = TRUE]
  /\ UNCHANGED <<parent, stop, report, held, request, outcome, job>>

\* The end of the wait with this verdict: published, unless nobody reads it.
Concludes(verdict) ==
  IF child.lost THEN Leaves("failure")
  ELSE child' = [child EXCEPT !.verdict = verdict,
                   !.pc = IF child.pc = "cleanup" THEN "publishCleanup" ELSE "publishFailed"]

\* Variant: time up is taken for terminal.
BudgetEndsTerminal ==
  /\ ~OwnsCore
  /\ child.pc \in {"shutdown", "cleanup"} /\ job = "running"
  /\ Concludes("failedTerminal")
  /\ UNCHANGED <<parent, stop, report, held, request, outcome, job>>

\* Variant: the budget is forgotten once the parent is gone.
BudgetEndsAttended ==
  /\ ~OwnsCore
  /\ child.pc \in {"shutdown", "cleanup"} /\ job = "running" /\ ~child.lost
  /\ Concludes("failedOpen")
  /\ UNCHANGED <<parent, stop, report, held, request, outcome, job>>

\* The child's budget for its official shutdown.
BudgetEnds ==
  /\ ~OwnsCore
  /\ child.pc \in {"shutdown", "cleanup"} /\ job = "running"
  /\ Concludes("failedOpen")
  /\ UNCHANGED <<parent, stop, report, held, request, outcome, job>>

\* Variant: a shutdown that failed with everything terminal is called STOPPED.
TakeAnyResult ==
  /\ child.pc \in {"shutdown", "cleanup"} /\ job \in Ended
  /\ IF child.pc = "shutdown" /\ job \in {"ok", "failedTerminal"}
     THEN IF child.lost THEN Leaves("success") ELSE ChildGoes("publishStopped")
     ELSE Concludes(IF job \in {"ok", "failedTerminal"} THEN "failedTerminal" ELSE "failedOpen")
  /\ UNCHANGED <<parent, stop, report, held, request, outcome, job>>

\* Variant: a thread that panicked is waited for like one that runs.
TakeSentResult ==
  /\ child.pc \in {"shutdown", "cleanup"} /\ job \in Ended \ {"panicked"}
  /\ IF child.pc = "shutdown" /\ job = "ok"
     THEN IF child.lost THEN Leaves("success") ELSE ChildGoes("publishStopped")
     ELSE Concludes(IF job \in {"ok", "failedTerminal"} THEN "failedTerminal" ELSE "failedOpen")
  /\ UNCHANGED <<parent, stop, report, held, request, outcome, job>>

\* Variant: the outcome of a panic is left unset.
TakeResultUnset ==
  /\ child.pc \in {"shutdown", "cleanup"} /\ job \in Ended
  /\ IF child.pc = "shutdown" /\ job = "ok"
     THEN IF child.lost THEN Leaves("success") ELSE ChildGoes("publishStopped")
     ELSE Concludes(IF job = "panicked" THEN "none"
                    ELSE IF job = "failedOpen" THEN "failedOpen" ELSE "failedTerminal")
  /\ UNCHANGED <<parent, stop, report, held, request, outcome, job>>

\* A clean shutdown is STOPPED, after a runtime failure it is still a failure.
TakeResult ==
  /\ child.pc \in {"shutdown", "cleanup"} /\ job \in Ended
  /\ IF child.pc = "shutdown" /\ job = "ok"
     THEN IF child.lost THEN Leaves("success") ELSE ChildGoes("publishStopped")
     ELSE Concludes(IF job \in {"ok", "failedTerminal"} THEN "failedTerminal" ELSE "failedOpen")
  /\ UNCHANGED <<parent, stop, report, held, request, outcome, job>>

PublishStopped ==
  /\ child.pc = "publishStopped"
  /\ \/ outcome' = "stopped" /\ Leaves("success")
     \/ /\ PublishMayFail
        /\ child' = [child EXCEPT !.pc = "publishFailed", !.verdict = "failedTerminal"]
        /\ UNCHANGED outcome
  /\ UNCHANGED <<parent, stop, report, held, request, job>>

\* kgw_publish_stop_failure_v1 and kgw_post_ready_stop_action_v1: a failure that
\* is not proven terminal, or not published, holds the worker for its parent.
PublishFailed ==
  /\ child.pc = "publishFailed"
  /\ \/ /\ outcome' = child.verdict
        /\ IF child.verdict = "failedTerminal" THEN Leaves("failure") ELSE ChildGoes("hold")
     \/ /\ PublishMayFail
        /\ ChildGoes("hold")
        /\ UNCHANGED outcome
  /\ UNCHANGED <<parent, stop, report, held, request, job>>

\* After a runtime failure the worker exits, published or not.
PublishCleanup ==
  /\ child.pc = "publishCleanup"
  /\ \/ outcome' = child.verdict /\ Leaves("failure")
     \/ /\ PublishMayFail
        /\ Leaves("failure")
        /\ UNCHANGED outcome
  /\ UNCHANGED <<parent, stop, report, held, request, job>>

Exit ==
  /\ child.pc = "leave"
  /\ ChildGoes("dead")
  /\ job' = IF job = "running" THEN "none" ELSE job
  /\ UNCHANGED <<parent, stop, report, held, request, outcome>>

ChildStep ==
  \/ SeeStopOrLoss \/ StartShutdown \/ NoticeLoss \/ BudgetEnds \/ TakeResult
  \/ PublishStopped \/ PublishFailed \/ PublishCleanup \/ Exit

-----------------------------------------------------------------------------
Next ==
  \/ ParentEnds \/ StopBegin \/ StopStep \/ ForceFails \/ DeadlinePasses
  \/ ChildStep \/ RuntimeFails \/ JobEnds

Spec == Init /\ [][Next]_vars

\* Both processes run.  The official shutdown of a node core is trusted to end,
\* which is why it has no deadline; that of an external bridge is not.
FairSpec ==
  /\ Spec
  /\ WF_vars(StopStep) /\ WF_vars(DeadlinePasses)
  /\ WF_vars(ChildStep) /\ WF_vars(BudgetEnds) /\ WF_vars(NoticeLoss)
  /\ WF_vars(OwnsCore /\ JobEnds)

-----------------------------------------------------------------------------
(* Properties.                                                             *)

\* Graceful means that the official shutdown returned well and the worker then
\* exited with success: no race of outcome file, exit and poll attests more.
GracefulMeansJoined ==
  report = "graceful" => job = "ok" /\ child.pc = "dead" /\ child.status = "success"

\* A stop that is reported as a failure, not as a forced one, had its shutdown end
\* and its worker exit: the worker's word alone is not believed.
FailureIsProven ==
  report = "failed" => job \in {"ok", "failedTerminal"} /\ ~Alive

\* A worker leaves the registry only when it has exited: what RuntimeOwnership
\* relies on in StopRemoves.
RemovedOnlyWhenDead == ~held => ~Alive

\* A node core is never killed while its official shutdown still runs, unless
\* the stop could not even be asked for: killing it then loses its database.
CoreShutsDownUndisturbed ==
  [][OwnsCore /\ Alive /\ child'.status = "killed" => job # "running" \/ stop.unasked]_vars

\* A node core that shut down well is not reported as killed.
CleanStopIsNotForced ==
  OwnsCore /\ report = "forced" => child.status # "success"

\* A stop returns: the desktop's fallback takes over when the worker cannot answer.
StopReturns == stop.pc # "idle" ~> stop.pc = "idle"

\* A stop returns through every failure of files, kills and threads, unless a node
\* core, which has no deadline, has decided to hold itself for the fallback.
StopReturnsOrCoreHolds ==
  stop.pc # "idle" ~> stop.pc = "idle" \/ (OwnsCore /\ child.pc = "hold")

\* A worker that lost its desktop ends, or holds itself.
OrphanEndsOrHolds == parent = "gone" ~> child.pc \in {"dead", "hold"}
=============================================================================
