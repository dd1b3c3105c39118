------------------------------- MODULE NodeTab -------------------------------
(***************************************************************************)
(* The node tab of the WebView for one network (node_tab.rs): one thread   *)
(* of JavaScript whose handlers run to their next await, so that a click,  *)
(* a poll, a lock set by the bridge tab and the answers of calls made      *)
(* earlier come in any order.  What the tab talks to is the registry of    *)
(* RuntimeOwnership: starts and stops hold its mutex, and a status that    *)
(* finds it held is an error.                                              *)
(***************************************************************************)
EXTENDS Naturals

CONSTANT MaxEvents   \* how many clicks, losses, timeouts and bridge operations

ASSUME EventsAssumption == MaxEvents \in Nat

VARIABLES
  transition,   \* TRANSITIONS: which action the tab says is under way
  lock,         \* an in-process bridge owns the node, the tab only displays
  enabled,      \* is the network enabled?
  confirming,   \* a start waits for the user to accept dangerous settings
  view,         \* the two buttons and the state shown
  status,       \* the status task in flight (STATUS_IN_FLIGHT)
  start,        \* the start request, as its handler and the backend see it
  late,         \* a start the tab no longer waits for
  stop,         \* the stop request
  op,           \* what the bridge tab does to the in-process bridge
  node, bridge, \* what runs, in truth
  events        \* how many events were spent

tab == <<transition, lock, enabled, confirming, view>>
calls == <<start, late, stop>>
vars == <<tab, status, calls, op, node, bridge, events>>

-----------------------------------------------------------------------------
NoStatus == [pc |-> "idle", running |-> FALSE, answer |-> "none",
             saw |-> FALSE, touched |-> FALSE]

\* set_runtime_buttons.
Buttons(running, locked, under, on) ==
  [start |-> ~running /\ under = "none" /\ ~locked /\ on,
   stop  |-> running /\ under = "none" /\ ~locked,
   shown |-> IF under # "none" THEN under ELSE IF running THEN "running" ELSE "stopped"]

\* set_runtime_unknown.
Unknown == [start |-> FALSE, stop |-> FALSE, shown |-> "unknown"]

TypeOK ==
  /\ transition \in {"none", "starting", "stopping"}
  /\ lock \in BOOLEAN /\ enabled \in BOOLEAN /\ confirming \in BOOLEAN
  /\ view \in [start : BOOLEAN, stop : BOOLEAN,
               shown : {"running", "stopped", "starting", "stopping", "unknown"}]
  /\ status \in [pc : {"idle", "node", "bridge"}, running : BOOLEAN,
                 answer : {"none", "yes", "no", "busy"}, saw : BOOLEAN, touched : BOOLEAN]
  /\ start \in {"idle", "prepare", "queued", "held", "ready", "error"}
  /\ late \in {"none", "queued", "held"}
  /\ stop \in {"idle", "queued", "held", "stopped", "error"}
  /\ op \in {"none", "starting", "stopping", "started", "stopped"}
  /\ node \in BOOLEAN /\ bridge \in BOOLEAN /\ ~(node /\ bridge)
  /\ events \in 0 .. MaxEvents

Init ==
  /\ transition = "none" /\ lock = FALSE /\ enabled \in BOOLEAN /\ confirming = FALSE
  /\ view = Buttons(FALSE, FALSE, "none", enabled)
  /\ status = NoStatus
  /\ start = "idle" /\ late = "none" /\ stop = "idle" /\ op = "none"
  /\ node = FALSE /\ bridge = FALSE
  /\ events = 0

Spend == events < MaxEvents /\ events' = events + 1

\* The registry's mutex is held.
Busy == start = "held" \/ late = "held" \/ stop = "held" \/ op \in {"starting", "stopping"}

-----------------------------------------------------------------------------
(* The user, who can do nothing else while the confirmation is open.       *)

ClickStart ==
  /\ Spend
  /\ ~confirming /\ view.start /\ ~lock
  /\ confirming' = TRUE
  /\ UNCHANGED <<transition, lock, enabled, view, status, calls, op, node, bridge>>

DeclineStart ==
  /\ confirming
  /\ confirming' = FALSE
  /\ UNCHANGED <<transition, lock, enabled, view, status, calls, op, node, bridge, events>>

\* After the confirmation: the network may be off, the bridge may own the node by
\* now, or a start may be on its way.
AcceptStart ==
  /\ confirming
  /\ confirming' = FALSE
  /\ \/ /\ ~enabled \/ lock \/ start # "idle"
        /\ view' = IF ~enabled \/ lock THEN Buttons(FALSE, lock, transition, enabled) ELSE view
        /\ UNCHANGED <<transition, start>>
     \/ /\ enabled /\ ~lock /\ start = "idle"
        /\ start' = "prepare" /\ transition' = "starting"
        /\ view' = Buttons(FALSE, lock, "starting", enabled)
  /\ UNCHANGED <<lock, enabled, status, late, stop, op, node, bridge, events>>

\* run_integrated_action("stop"), when no stop is on its way.
SendStop(on) ==
  /\ stop' = "queued" /\ transition' = "stopping"
  /\ view' = Buttons(TRUE, lock, "stopping", on)

ClickStop ==
  /\ Spend
  /\ ~confirming /\ view.stop /\ ~lock
  /\ IF stop = "idle" THEN SendStop(enabled) ELSE UNCHANGED <<stop, transition, view>>
  /\ UNCHANGED <<lock, enabled, confirming, status, start, late, op, node, bridge>>

\* handle_network_change: a network that is switched off is stopped.
SwitchNetwork ==
  /\ Spend
  /\ ~confirming /\ ~lock
  /\ enabled' = ~enabled
  /\ IF enabled /\ stop = "idle"
     THEN SendStop(FALSE)
     ELSE /\ view' = Buttons(FALSE, lock, transition, ~enabled)
          /\ UNCHANGED <<stop, transition>>
  /\ UNCHANGED <<lock, confirming, status, start, late, op, node, bridge>>

-----------------------------------------------------------------------------
(* The backend's side of the calls.                                        *)

\* node_prepare_preview is awaited before the command is sent.
Prepared ==
  /\ start = "prepare"
  /\ start' \in {"queued", "error"}
  /\ UNCHANGED <<tab, status, late, stop, op, node, bridge, events>>

\* A command takes the mutex.
TakesMutex ==
  /\ ~Busy
  /\ \/ start = "queued" /\ start' = "held" /\ UNCHANGED <<late, stop>>
     \/ late = "queued" /\ late' = "held" /\ UNCHANGED <<start, stop>>
     \/ stop = "queued" /\ stop' = "held" /\ UNCHANGED <<start, late>>
  /\ UNCHANGED <<tab, status, op, node, bridge, events>>

\* A start is refused beside another owner of the node, or fails.
StartEnds ==
  /\ \/ /\ start = "held"
        /\ \/ ~node /\ ~bridge /\ node' = TRUE /\ start' = "ready"
           \/ start' = "error" /\ UNCHANGED node
        /\ UNCHANGED late
     \/ /\ late = "held" /\ late' = "none"
        /\ node' \in {node, ~bridge}
        /\ UNCHANGED start
  /\ UNCHANGED <<tab, status, stop, op, bridge, events>>

\* A stop ends the worker, or its kill failed.
StopEnds ==
  /\ stop = "held"
  /\ \/ stop' = "stopped" /\ node' = FALSE
     \/ stop' = "error" /\ UNCHANGED node
  /\ UNCHANGED <<tab, status, start, late, op, bridge, events>>

\* A worker dies, or the in-process bridge does, and tells nobody.
Dies ==
  /\ Spend
  /\ \/ node /\ node' = FALSE /\ UNCHANGED bridge
     \/ bridge /\ bridge' = FALSE /\ UNCHANGED node
  /\ UNCHANGED <<tab, status, calls, op>>

-----------------------------------------------------------------------------
(* The bridge tab (bridge_run_integrated_action_ui).                       *)

\* set_bridge_lock: the store, and the handler of the event it dispatches.
SetLock(locked) ==
  /\ lock' = locked
  /\ view' = Buttons(FALSE, locked, transition, enabled)

BridgeCommand ==
  /\ Spend
  /\ op = "none" /\ ~Busy
  /\ op' \in {"starting", "stopping"}
  /\ UNCHANGED <<tab, status, calls, node, bridge>>

\* Variant: the node is not looked for.
BridgeCommandEndsBeside ==
  /\ \/ op = "starting" /\ ~bridge /\ bridge' = TRUE /\ op' \in {"started", "none"}
     \/ op = "stopping" /\ bridge' = FALSE /\ op' \in {"stopped", "none"}
     \/ op \in {"starting", "stopping"} /\ op' = "none" /\ UNCHANGED bridge
  /\ UNCHANGED <<tab, status, calls, node, events>>

\* A start is refused beside a node or a bridge; either command may fail, and the
\* tab that sent it may no longer wait for its answer.
BridgeCommandEnds ==
  /\ \/ /\ op = "starting" /\ ~node /\ ~bridge
        /\ bridge' = TRUE /\ op' \in {"started", "none"}
     \/ op = "stopping" /\ bridge' = FALSE /\ op' \in {"stopped", "none"}
     \/ op \in {"starting", "stopping"} /\ op' = "none" /\ UNCHANGED bridge
  /\ UNCHANGED <<tab, status, calls, node, events>>

BridgeTabHears ==
  /\ op \in {"started", "stopped"}
  /\ op' = "none"
  /\ SetLock(op = "started")
  /\ status' = [status EXCEPT !.touched = TRUE]
  /\ UNCHANGED <<transition, enabled, confirming, calls, node, bridge, events>>

-----------------------------------------------------------------------------
(* The answers of the commands.                                            *)

\* Variant: the end of the handler is not reached after an error.
StartReturnsEarly ==
  /\ start \in {"ready", "error"}
  /\ start' = "idle"
  /\ transition' = IF start = "ready" THEN "none" ELSE transition
  /\ view' = IF start = "ready" THEN Buttons(TRUE, lock, "none", enabled) ELSE Unknown
  /\ UNCHANGED <<lock, enabled, confirming, status, late, stop, op, node, bridge, events>>

StartReturns ==
  /\ start \in {"ready", "error"}
  /\ start' = "idle" /\ transition' = "none"
  /\ view' = IF start = "ready" THEN Buttons(TRUE, lock, "none", enabled) ELSE Unknown
  /\ UNCHANGED <<lock, enabled, confirming, status, late, stop, op, node, bridge, events>>

\* await_command_with_timeout; the backend goes on.
StartTimesOut ==
  /\ Spend
  /\ start \in {"queued", "held"} /\ late = "none"
  /\ late' = start /\ start' = "idle"
  /\ transition' = "none" /\ view' = Unknown
  /\ UNCHANGED <<lock, enabled, confirming, status, stop, op, node, bridge>>

\* A stop has no timeout.
StopReturns ==
  /\ stop \in {"stopped", "error"}
  /\ stop' = "idle" /\ transition' = "none"
  /\ view' = IF stop = "stopped" THEN Buttons(FALSE, lock, "none", enabled) ELSE Unknown
  /\ UNCHANGED <<lock, enabled, confirming, status, start, late, op, node, bridge, events>>

-----------------------------------------------------------------------------
(* The refresh (refresh_all, status_task, bridge_inprocess_locked).        *)

\* The pulse of the backend, and the refresh after an action.  A locked tab is
\* drawn again; no status is asked for during a transition, and one at a time.
Poll ==
  /\ lock \/ (transition = "none" /\ status.pc = "idle")
  /\ view' = IF lock THEN Buttons(FALSE, TRUE, transition, enabled) ELSE view
  /\ status' = IF transition = "none" /\ status.pc = "idle"
               THEN [NoStatus EXCEPT !.pc = "node"] ELSE status
  /\ UNCHANGED <<transition, lock, enabled, confirming, calls, op, node, bridge, events>>

\* kgw_worker_status, for one role or the other.
Reads(runs) == IF Busy THEN "busy" ELSE IF runs THEN "yes" ELSE "no"

AnswerStatus ==
  /\ status.pc # "idle" /\ status.answer = "none"
  /\ status' = [status EXCEPT !.answer = Reads(IF status.pc = "node" THEN node ELSE bridge)]
  /\ UNCHANGED <<tab, calls, op, node, bridge, events>>

\* The answer does not come in time.
StatusTimesOut ==
  /\ Spend
  /\ status.pc # "idle" /\ status.answer = "none"
  /\ status' = [status EXCEPT !.answer = "busy"]
  /\ UNCHANGED <<tab, calls, op, node, bridge>>

\* Variant: the task that met an error stays in flight.
HearNodeStuck ==
  /\ status.pc = "node" /\ status.answer # "none"
  /\ IF status.answer = "busy"
     THEN view' = Unknown /\ UNCHANGED status
     ELSE /\ status' = [NoStatus EXCEPT !.pc = "bridge", !.running = status.answer = "yes",
                                        !.saw = lock]
          /\ UNCHANGED view
  /\ UNCHANGED <<transition, lock, enabled, confirming, calls, op, node, bridge, events>>

\* The node's answer; the bridge is asked next, and what the lock was is kept.
HearNode ==
  /\ status.pc = "node" /\ status.answer # "none"
  /\ IF status.answer = "busy"
     THEN view' = Unknown /\ status' = NoStatus
     ELSE /\ status' = [NoStatus EXCEPT !.pc = "bridge", !.running = status.answer = "yes",
                                        !.saw = lock]
          /\ UNCHANGED view
  /\ UNCHANGED <<transition, lock, enabled, confirming, calls, op, node, bridge, events>>

\* The entry of the lock store is another object than the one observed.  Two
\* absent entries are the same.
LockChanged == IF status.saw THEN status.touched ELSE lock

\* Variant: the answer counts whatever happened to the lock meanwhile.
HearBridgeBlindly ==
  LET locked == IF status.answer = "busy" THEN lock ELSE status.answer = "yes" IN
  /\ status.pc = "bridge" /\ status.answer # "none"
  /\ lock' = locked
  /\ view' = Buttons(status.running, locked, transition, enabled)
  /\ status' = NoStatus
  /\ UNCHANGED <<transition, enabled, confirming, calls, op, node, bridge, events>>

\* Variant: the buttons follow the answer alone.
HearBridgeAlone ==
  LET keep == status.answer = "busy" \/ LockChanged
      locked == IF keep THEN lock ELSE status.answer = "yes" IN
  /\ status.pc = "bridge" /\ status.answer # "none"
  /\ lock' = locked
  /\ view' = Buttons(status.running, status.answer = "yes", transition, enabled)
  /\ status' = NoStatus
  /\ UNCHANGED <<transition, enabled, confirming, calls, op, node, bridge, events>>

\* The bridge's answer sets the lock, unless the lock was set or cleared since;
\* then the buttons, from the node's answer.
HearBridge ==
  LET locked == IF status.answer = "busy" \/ LockChanged THEN lock
                ELSE status.answer = "yes" IN
  /\ status.pc = "bridge" /\ status.answer # "none"
  /\ lock' = locked
  /\ view' = Buttons(status.running, locked, transition, enabled)
  /\ status' = NoStatus
  /\ UNCHANGED <<transition, enabled, confirming, calls, op, node, bridge, events>>

-----------------------------------------------------------------------------
Next ==
  \/ ClickStart \/ DeclineStart \/ AcceptStart \/ ClickStop \/ SwitchNetwork
  \/ BridgeCommand \/ Dies \/ StartTimesOut \/ StatusTimesOut
  \/ Prepared \/ TakesMutex \/ StartEnds \/ StopEnds \/ BridgeCommandEnds \/ AnswerStatus
  \/ StartReturns \/ StopReturns \/ BridgeTabHears \/ Poll \/ HearNode \/ HearBridge

Spec == Init /\ [][Next]_vars

\* The pulse goes on, handlers run when their answer is there, and the backend
\* answers: that its commands return is RuntimeOwnership's CommandsReturn.
BackendAnswers ==
  /\ WF_vars(Prepared) /\ WF_vars(TakesMutex) /\ WF_vars(StartEnds)
  /\ WF_vars(StopEnds) /\ WF_vars(BridgeCommandEnds) /\ WF_vars(AnswerStatus)

HandlersRun ==
  /\ WF_vars(Poll) /\ WF_vars(HearNode) /\ WF_vars(HearBridge)
  /\ WF_vars(StartReturns) /\ WF_vars(StopReturns) /\ WF_vars(BridgeTabHears)

FairSpec == Spec /\ BackendAnswers /\ HandlersRun

-----------------------------------------------------------------------------
(* Properties.                                                             *)

\* Whatever answer came last, a button is offered only when it fits the newest
\* lock, transition and setting, and never both.
ButtonsFitTab ==
  /\ view.start \/ view.stop => ~lock /\ transition = "none"
  /\ view.start => enabled /\ ~view.stop

\* "starting" and "stopping" are shown, and the status poll is off, only while
\* such a request is on its way: no order of answers leaves them behind.
TransitionHasRequest ==
  /\ transition = "starting" => start # "idle"
  /\ transition = "stopping" => stop # "idle"

\* An answer of the bridge that was asked for before the bridge tab set or
\* cleared the lock never clears it.
StaleAnswerKeepsLock ==
  [][status.pc = "bridge" /\ status.touched /\ lock /\ ~lock' => op # "none"]_vars

\* When nothing more happens the buttons tell the truth, whatever answers were
\* stale, late, lost or refused before.
Truthful ==
  /\ lock = bridge
  /\ view.stop = (node /\ ~bridge)
  /\ view.start = (~node /\ ~bridge /\ enabled)

TabSettles == <>[]Truthful
=============================================================================
