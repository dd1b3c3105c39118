----------------------------- MODULE NodeTabProofs -----------------------------
(***************************************************************************)
(* Theorems of NodeTab, for any number of events: whatever order answers   *)
(* come in, the buttons fit the tab, a transition has its request, and a   *)
(* stale answer does not unlock the tab.                                   *)
(***************************************************************************)
EXTENDS NodeTab, TLAPS

IInv == TypeOK /\ ButtonsFitTab /\ TransitionHasRequest

Views == [start : BOOLEAN, stop : BOOLEAN,
          shown : {"running", "stopped", "starting", "stopping", "unknown"}]

Transitions == {"none", "starting", "stopping"}

\* What may be shown for this lock, transition and setting.
Fits(v, locked, under, on) ==
  /\ v \in Views
  /\ v.start \/ v.stop => ~locked /\ under = "none"
  /\ v.start => on /\ ~v.stop

-----------------------------------------------------------------------------
\* set_runtime_buttons never offers what does not fit, whatever it is told runs.
LEMMA ButtonsFit ==
  ASSUME NEW running \in BOOLEAN, NEW locked \in BOOLEAN, NEW under \in Transitions,
         NEW on \in BOOLEAN
  PROVE  Fits(Buttons(running, locked, under, on), locked, under, on)
BY DEF Fits, Buttons, Views, Transitions

LEMMA UnknownFits ==
  ASSUME NEW locked, NEW under, NEW on
  PROVE  Fits(Unknown, locked, under, on)
BY DEF Fits, Unknown, Views

\* The bound on events.
LEMMA SpendBounded ==
  ASSUME TypeOK, Spend \/ UNCHANGED events
  PROVE  events' \in 0 .. MaxEvents
BY EventsAssumption DEF TypeOK, Spend

LEMMA InitInv == Init => IInv
<1> SUFFICES ASSUME Init PROVE IInv
  OBVIOUS
<1>1. Fits(view, lock, transition, enabled)
  BY ButtonsFit DEF Init, Transitions
<1>2. TypeOK
  <2>1. NoStatus \in [pc : {"idle", "node", "bridge"}, running : BOOLEAN,
                     answer : {"none", "yes", "no", "busy"}, saw : BOOLEAN,
                     touched : BOOLEAN]
    BY DEF NoStatus
  <2>2. events \in 0 .. MaxEvents
    BY EventsAssumption DEF Init
  <2> QED BY <1>1, <2>1, <2>2 DEF Init, TypeOK, Fits, Views
<1>3. ButtonsFitTab /\ TransitionHasRequest
  BY <1>1 DEF Init, Fits, ButtonsFitTab, TransitionHasRequest
<1> QED BY <1>2, <1>3 DEF IInv

\* The view now, and what follows when a step leaves the tab as it is.
LEMMA ViewFits == ASSUME IInv PROVE Fits(view, lock, transition, enabled)
BY DEF IInv, TypeOK, ButtonsFitTab, Fits, Views

LEMMA FitKept ==
  ASSUME Fits(view', lock', transition', enabled')
  PROVE  ButtonsFitTab' /\ view' \in Views
BY DEF Fits, ButtonsFitTab

-----------------------------------------------------------------------------
\* The backend's steps, and the losses: the tab does not change.
LEMMA OutsideInv ==
  ASSUME IInv,
         \/ Prepared \/ TakesMutex \/ StartEnds \/ StopEnds \/ Dies
         \/ BridgeCommand \/ BridgeCommandEnds
  PROVE  IInv'
<1>1. UNCHANGED <<tab, status>>
  BY DEF Prepared, TakesMutex, StartEnds, StopEnds, Dies, BridgeCommand, BridgeCommandEnds
<1>2. events' \in 0 .. MaxEvents
  <2>1. Spend \/ UNCHANGED events
    BY DEF Prepared, TakesMutex, StartEnds, StopEnds, Dies, BridgeCommand,
           BridgeCommandEnds
  <2> QED BY <2>1, SpendBounded DEF IInv
<1>3. /\ start' \in {"idle", "prepare", "queued", "held", "ready", "error"}
      /\ late' \in {"none", "queued", "held"}
      /\ stop' \in {"idle", "queued", "held", "stopped", "error"}
      /\ op' \in {"none", "starting", "stopping", "started", "stopped"}
      /\ start' = "idle" => start = "idle"
      /\ stop' = "idle" => stop = "idle"
  BY DEF Prepared, TakesMutex, StartEnds, StopEnds, Dies, BridgeCommand, BridgeCommandEnds,
         calls, IInv, TypeOK
<1>4. node' \in BOOLEAN /\ bridge' \in BOOLEAN /\ ~(node' /\ bridge')
  <2>1. node \in BOOLEAN /\ bridge \in BOOLEAN /\ ~(node /\ bridge)
    BY DEF IInv, TypeOK
  <2>2. CASE UNCHANGED <<node, bridge>>
    BY <2>1, <2>2
  <2>3. CASE UNCHANGED bridge /\ (node' = FALSE \/ (node' = TRUE /\ ~bridge))
    BY <2>1, <2>3
  <2>4. CASE UNCHANGED node /\ (bridge' = FALSE \/ (bridge' = TRUE /\ ~node))
    BY <2>1, <2>4
  <2>5. ASSUME StartEnds, node' # node
        PROVE  UNCHANGED bridge /\ (node' = FALSE \/ (node' = TRUE /\ ~bridge))
    <3>1. UNCHANGED bridge
      BY <2>5 DEF StartEnds
    <3>2. (~bridge /\ node' = TRUE) \/ node' = ~bridge
      BY <2>5 DEF StartEnds
    <3>3. CASE ~bridge /\ node' = TRUE
      BY <3>1, <3>3
    <3>4. CASE node' = ~bridge
      BY <3>1, <3>4, <2>1
    <3> QED BY <3>2, <3>3, <3>4
  <2>6. StartEnds => UNCHANGED bridge
    BY DEF StartEnds
  <2>7. ASSUME Prepared \/ TakesMutex \/ StopEnds \/ Dies \/ BridgeCommand \/ BridgeCommandEnds
        PROVE  \/ UNCHANGED <<node, bridge>>
               \/ UNCHANGED bridge /\ node' = FALSE
               \/ UNCHANGED node /\ (bridge' = FALSE \/ (bridge' = TRUE /\ ~node))
    BY <2>7 DEF Prepared, TakesMutex, StopEnds, Dies, BridgeCommand, BridgeCommandEnds
  <2> QED BY <2>2, <2>3, <2>4, <2>5, <2>6, <2>7
<1> QED BY <1>1, <1>2, <1>3, <1>4
        DEF tab, IInv, TypeOK, ButtonsFitTab, TransitionHasRequest

\* The user's actions.
LEMMA UserInv ==
  ASSUME IInv, ClickStart \/ DeclineStart \/ AcceptStart \/ ClickStop \/ SwitchNetwork
  PROVE  IInv'
<1> USE DEF Transitions
<1>1. /\ lock \in BOOLEAN /\ enabled \in BOOLEAN /\ transition \in Transitions
      /\ Fits(view, lock, transition, enabled)
  BY ViewFits DEF IInv, TypeOK
<1>2. events' \in 0 .. MaxEvents
  <2>1. Spend \/ UNCHANGED events
    BY DEF ClickStart, DeclineStart, AcceptStart, ClickStop, SwitchNetwork
  <2> QED BY <2>1, SpendBounded DEF IInv
<1>3. UNCHANGED <<lock, status, late, op, node, bridge>>
  BY DEF ClickStart, DeclineStart, AcceptStart, ClickStop, SwitchNetwork, calls
<1>4. /\ enabled' \in BOOLEAN /\ confirming' \in BOOLEAN
      /\ Fits(view', lock', transition', enabled') /\ transition' \in Transitions
  <2>1. CASE ClickStart \/ DeclineStart
    BY <2>1, <1>1 DEF ClickStart, DeclineStart
  <2>2. CASE AcceptStart
    BY <2>2, <1>1, ButtonsFit DEF AcceptStart
  <2>3. CASE ClickStop
    BY <2>3, <1>1, ButtonsFit DEF ClickStop, SendStop, IInv, TypeOK
  <2>4. CASE SwitchNetwork
    BY <2>4, <1>1, ButtonsFit DEF SwitchNetwork, SendStop, IInv, TypeOK
  <2> QED BY <2>1, <2>2, <2>3, <2>4
<1>5. /\ start' \in {start, "prepare"} /\ stop' \in {stop, "queued"}
      /\ TransitionHasRequest'
  BY DEF ClickStart, DeclineStart, AcceptStart, ClickStop, SwitchNetwork, SendStop, calls,
         IInv, TransitionHasRequest
<1>6. view' \in Views /\ ButtonsFitTab'
  BY <1>4, FitKept
<1>7. TypeOK'
  BY <1>2, <1>3, <1>4, <1>5, <1>6 DEF IInv, TypeOK, Views
<1> QED BY <1>5, <1>6, <1>7 DEF IInv

\* The answers of starts, stops and bridge commands.
LEMMA AnswerInv ==
  ASSUME IInv, StartReturns \/ StartTimesOut \/ StopReturns \/ BridgeTabHears
  PROVE  IInv'
<1> USE DEF Transitions
<1>1. /\ lock \in BOOLEAN /\ enabled \in BOOLEAN /\ transition \in Transitions
      /\ status \in [pc : {"idle", "node", "bridge"}, running : BOOLEAN,
                     answer : {"none", "yes", "no", "busy"}, saw : BOOLEAN,
                     touched : BOOLEAN]
  BY DEF IInv, TypeOK
<1>2. events' \in 0 .. MaxEvents
  <2>1. Spend \/ UNCHANGED events
    BY DEF StartReturns, StartTimesOut, StopReturns, BridgeTabHears
  <2> QED BY <2>1, SpendBounded DEF IInv
<1>3. UNCHANGED <<enabled, confirming, node, bridge>>
  BY DEF StartReturns, StartTimesOut, StopReturns, BridgeTabHears
<1>4. /\ lock' \in BOOLEAN /\ transition' \in Transitions
      /\ Fits(view', lock', transition', enabled')
  <2>1. CASE StartReturns \/ StopReturns
    <3>1. /\ Fits(Buttons(TRUE, lock, "none", enabled), lock, "none", enabled)
          /\ Fits(Buttons(FALSE, lock, "none", enabled), lock, "none", enabled)
          /\ Fits(Unknown, lock, "none", enabled)
      BY <1>1, ButtonsFit, UnknownFits
    <3>2. /\ lock' = lock /\ enabled' = enabled /\ transition' = "none"
          /\ view' \in {Buttons(TRUE, lock, "none", enabled),
                       Buttons(FALSE, lock, "none", enabled), Unknown}
      BY <2>1 DEF StartReturns, StopReturns
    <3> QED BY <1>1, <3>1, <3>2
  <2>2. CASE StartTimesOut
    BY <2>2, <1>1, UnknownFits DEF StartTimesOut
  <2>3. CASE BridgeTabHears
    <3>1. \A b \in BOOLEAN : Fits(Buttons(FALSE, b, transition, enabled), b, transition, enabled)
      BY <1>1, ButtonsFit
    <3>2. (op = "started") \in BOOLEAN
      OBVIOUS
    <3>3. /\ lock' = (op = "started") /\ transition' = transition /\ enabled' = enabled
          /\ view' = Buttons(FALSE, op = "started", transition, enabled)
      BY <2>3 DEF BridgeTabHears, SetLock
    <3> QED BY <1>1, <3>1, <3>2, <3>3
  <2> QED BY <2>1, <2>2, <2>3
<1>5. /\ start' \in {start, "idle"} /\ stop' \in {stop, "idle"}
      /\ late' \in {late, start} /\ (late' # late => start \in {"queued", "held"})
      /\ op' \in {op, "none"} /\ TransitionHasRequest'
  BY DEF StartReturns, StartTimesOut, StopReturns, BridgeTabHears, calls, IInv,
         TransitionHasRequest
<1>6. status' \in [pc : {"idle", "node", "bridge"}, running : BOOLEAN,
                   answer : {"none", "yes", "no", "busy"}, saw : BOOLEAN,
                   touched : BOOLEAN]
  <2>1. status' = status \/ status' = [status EXCEPT !.touched = TRUE]
    BY DEF StartReturns, StartTimesOut, StopReturns, BridgeTabHears
  <2> QED BY <1>1, <2>1
<1>7. view' \in Views /\ ButtonsFitTab'
  BY <1>4, FitKept
<1>8. TypeOK'
  BY <1>1, <1>2, <1>3, <1>4, <1>5, <1>6, <1>7 DEF IInv, TypeOK, Views
<1> QED BY <1>5, <1>7, <1>8 DEF IInv

\* The refresh.
LEMMA RefreshInv ==
  ASSUME IInv, Poll \/ AnswerStatus \/ StatusTimesOut \/ HearNode \/ HearBridge
  PROVE  IInv'
<1> USE DEF Transitions
<1> DEFINE Statuses == [pc : {"idle", "node", "bridge"}, running : BOOLEAN,
                        answer : {"none", "yes", "no", "busy"}, saw : BOOLEAN,
                        touched : BOOLEAN]
<1>1. /\ lock \in BOOLEAN /\ enabled \in BOOLEAN /\ transition \in Transitions
      /\ status \in Statuses /\ status.running \in BOOLEAN
      /\ Fits(view, lock, transition, enabled)
  BY ViewFits DEF IInv, TypeOK
<1>2. events' \in 0 .. MaxEvents
  <2>1. Spend \/ UNCHANGED events
    BY DEF Poll, AnswerStatus, StatusTimesOut, HearNode, HearBridge
  <2> QED BY <2>1, SpendBounded DEF IInv
<1>3. UNCHANGED <<transition, enabled, confirming, calls, op, node, bridge>>
  BY DEF Poll, AnswerStatus, StatusTimesOut, HearNode, HearBridge, tab
<1>4. lock' \in BOOLEAN /\ Fits(view', lock', transition', enabled')
  <2>1. CASE Poll
    BY <2>1, <1>1, ButtonsFit DEF Poll
  <2>2. CASE AnswerStatus \/ StatusTimesOut
    BY <2>2, <1>1 DEF AnswerStatus, StatusTimesOut, tab
  <2>3. CASE HearNode
    BY <2>3, <1>1, UnknownFits DEF HearNode
  <2>4. CASE HearBridge
    <3>1. PICK b \in BOOLEAN : lock' = b /\ view' = Buttons(status.running, b, transition, enabled)
      BY <2>4, <1>1 DEF HearBridge
    <3> QED BY <2>4, <1>1, <3>1, ButtonsFit DEF HearBridge
  <2> QED BY <2>1, <2>2, <2>3, <2>4
<1>5. status' \in Statuses
  <2>1. NoStatus \in Statuses /\ [NoStatus EXCEPT !.pc = "node"] \in Statuses
    BY DEF NoStatus
  <2>2. CASE Poll \/ HearBridge
    BY <2>2, <2>1, <1>1 DEF Poll, HearBridge
  <2>3. CASE AnswerStatus \/ StatusTimesOut
    BY <2>3, <1>1 DEF AnswerStatus, StatusTimesOut, Reads
  <2>4. CASE HearNode
    <3>1. ASSUME NEW b \in BOOLEAN, NEW k \in BOOLEAN
          PROVE  [NoStatus EXCEPT !.pc = "bridge", !.running = b, !.saw = k] \in Statuses
      BY DEF NoStatus
    <3>2. PICK b \in BOOLEAN :
            \/ status' = NoStatus
            \/ status' = [NoStatus EXCEPT !.pc = "bridge", !.running = b, !.saw = lock]
      BY <2>4 DEF HearNode
    <3>3. [NoStatus EXCEPT !.pc = "bridge", !.running = b, !.saw = lock] \in Statuses
      BY <1>1, <3>1
    <3> QED BY <2>1, <3>2, <3>3
  <2> QED BY <2>2, <2>3, <2>4
<1>6. view' \in Views /\ ButtonsFitTab'
  BY <1>4, FitKept
<1>7. TypeOK'
  BY <1>2, <1>3, <1>4, <1>5, <1>6 DEF IInv, TypeOK, Views, calls
<1>8. TransitionHasRequest'
  BY <1>3 DEF IInv, TransitionHasRequest, calls
<1> QED BY <1>6, <1>7, <1>8 DEF IInv

-----------------------------------------------------------------------------
LEMMA StepInv == IInv /\ [Next]_vars => IInv'
<1> SUFFICES ASSUME IInv, [Next]_vars PROVE IInv'
  OBVIOUS
<1>1. CASE UNCHANGED vars
  BY <1>1 DEF vars, tab, calls, IInv, TypeOK, ButtonsFitTab, TransitionHasRequest
<1>2. CASE Next
  BY <1>2, OutsideInv, UserInv, AnswerInv, RefreshInv DEF Next
<1> QED BY <1>1, <1>2

\* The invariant holds in every state.
THEOREM Invariance == Spec => []IInv
<1> QED BY InitInv, StepInv, PTL DEF Spec

\* Every variable keeps its type.
THEOREM TypeCorrect == Spec => []TypeOK
<1>1. IInv => TypeOK
  BY DEF IInv
<1> QED BY <1>1, Invariance, PTL

\* The buttons fit the newest lock, transition and setting (set_runtime_buttons and
\* its callers).
THEOREM ButtonsFitTabHolds == Spec => []ButtonsFitTab
<1>1. IInv => ButtonsFitTab
  BY DEF IInv
<1> QED BY <1>1, Invariance, PTL

\* A transition that is shown has its request on the way (run_integrated_action).
THEOREM TransitionHasRequestHolds == Spec => []TransitionHasRequest
<1>1. IInv => TransitionHasRequest
  BY DEF IInv
<1> QED BY <1>1, Invariance, PTL

\* An answer that was asked for before the lock was set or cleared does not clear it
\* (bridge_inprocess_locked).
THEOREM StaleAnswerKeepsLockHolds == Spec => StaleAnswerKeepsLock
<1>1. IInv /\ [Next]_vars =>
        (status.pc = "bridge" /\ status.touched /\ lock /\ ~lock' => op # "none")
  <2> SUFFICES ASSUME IInv, [Next]_vars, status.touched, lock, ~lock'
               PROVE  op # "none"
    OBVIOUS
  <2>1. CASE HearBridge
    BY <2>1 DEF HearBridge, LockChanged
  <2>2. CASE BridgeTabHears
    BY <2>2 DEF BridgeTabHears
  <2>3. UNCHANGED lock \/ HearBridge \/ BridgeTabHears
    BY DEF Next, vars, tab, ClickStart, DeclineStart, AcceptStart, ClickStop,
           SwitchNetwork, BridgeCommand, Dies, StartTimesOut, StatusTimesOut, Prepared,
           TakesMutex, StartEnds, StopEnds, BridgeCommandEnds, AnswerStatus, StartReturns,
           StopReturns, Poll, HearNode
  <2> QED BY <2>1, <2>2, <2>3
<1> QED BY <1>1, Invariance, PTL DEF Spec, StaleAnswerKeepsLock
===============================================================================
