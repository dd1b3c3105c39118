------------------------ MODULE OfficialRuntimeProofs ------------------------
(***************************************************************************)
(* Theorems of OfficialRuntime, for any number of bridge instances: the    *)
(* core goes last unless the start fails when all is up, a graceful        *)
(* shutdown saw everything end, and a start that fails at one instance     *)
(* leaves none of the others.                                              *)
(***************************************************************************)
EXTENDS OfficialRuntime, TLAPS

\* A listener the shutdown has dealt with: it ended, and a panic is remembered.
Done(i) == Over(i) /\ (listener[i].panicked => failures)

\* A node worker has no listeners.
NodeInv ==
  mode = "node" =>
    /\ main.handles = 0 /\ \A i \in Instances : listener[i] = NoListener
    /\ main.pc \notin {"listen", "await", "rollback", "undo", "join"}

\* How far the start has come: which handles are kept and which threads there are, and,
\* when it is taken back, which of them are known to have ended.
StartInv ==
  /\ main.pc \in {"spawn", "attest", "check"} =>
       main.at = 1 /\ main.handles = 0 /\ \A i \in Instances : Over(i)
  /\ main.pc \in {"listen", "await", "rollback"} =>
       main.handles + 1 = main.at /\ \A i \in Instances : i > main.at => Over(i)
  /\ main.pc = "listen" => \A i \in Instances : i >= main.at => Over(i)
  /\ main.pc = "undo" =>
       /\ main.handles < Count
       /\ \A i \in Instances : i < main.at \/ i > main.handles => Over(i)
  /\ main.pc \in {"publish", "observe", "watch", "join", "stop", "joinCore", "reported"} =>
       mode = "node" \/ main.handles = Count

\* How far the shutdown has come.
ProgressInv ==
  /\ main.pc = "join" => \A i \in Instances : i < main.at => Done(i)
  /\ main.pc \in {"stop", "joinCore", "reported"} => \A i \in Instances : Done(i)
  /\ core.stop # "open" => main.pc \in {"joinCore", "reported", "exit", "gone"}
  /\ verdict # "none" => main.pc \in {"reported", "gone"}

IInv ==
  /\ TypeOK /\ NodeInv /\ StartInv /\ ProgressInv
  /\ CoreOutlivesListeners /\ GracefulMeansJoined /\ FailedStartLeavesNoListener

-----------------------------------------------------------------------------
\* Records keep their type when a field changes.
LEMMA ListenerFields ==
  ASSUME NEW l \in Listener
  PROVE  /\ [l EXCEPT !.thread = "attached"] \in Listener
         /\ [l EXCEPT !.thread = "serving", !.told = "ready"] \in Listener
         /\ [l EXCEPT !.thread = "ended", !.told = "failed"] \in Listener
         /\ [l EXCEPT !.thread = "ended"] \in Listener
         /\ [l EXCEPT !.thread = "ended", !.panicked = TRUE] \in Listener
         /\ [l EXCEPT !.asked = TRUE] \in Listener
BY DEF Listener

LEMMA CoreFields ==
  ASSUME NEW k \in CoreThread
  PROVE  /\ [k EXCEPT !.workers = "down"] \in CoreThread
         /\ [k EXCEPT !.thread = "ended", !.outcome = "failed"] \in CoreThread
         /\ [k EXCEPT !.thread = "stopping"] \in CoreThread
         /\ [k EXCEPT !.thread = "ended", !.workers = "down", !.outcome = "failed"]
              \in CoreThread
         /\ [k EXCEPT !.thread = "ended", !.workers = "down", !.outcome = "joined"]
              \in CoreThread
         /\ [k EXCEPT !.outcome = "read"] \in CoreThread
         /\ [k EXCEPT !.stop = "asked"] \in CoreThread
         /\ [k EXCEPT !.stop = "dropped"] \in CoreThread
BY DEF CoreThread

LEMMA NewThreads ==
  /\ NoCore \in CoreThread /\ NoListener \in Listener
  /\ [NoCore EXCEPT !.thread = "running", !.workers = "up"] \in CoreThread
  /\ [NoListener EXCEPT !.thread = "attaching"] \in Listener
BY DEF NoCore, NoListener, CoreThread, Listener

LEMMA InitInv == Init => IInv
<1> SUFFICES ASSUME Init PROVE IInv
  OBVIOUS
<1>1. /\ main \in Main /\ main.pc \in {"spawn", "listen"} /\ main.at = 1
      /\ main.handles = 0 /\ (mode = "node" => main.pc = "spawn")
  BY RuntimeAssumption DEF Init, Main, OwnsCore
<1>2. core.thread = "none" /\ core.outcome = "none" /\ core.stop = "open"
  BY DEF Init, NoCore
<1>3. \A i \in Instances : listener[i] = NoListener /\ listener[i].thread = "none"
  BY DEF Init, NoListener
<1>4. TypeOK
  <2>1. listener \in [Instances -> Listener] /\ core \in CoreThread
    BY NewThreads DEF Init
  <2> QED BY <1>1, <1>2, <2>1 DEF Init, TypeOK
<1>5. NodeInv /\ StartInv
  BY <1>1, <1>3 DEF NodeInv, StartInv, Over
<1>6. ProgressInv
  BY <1>1, <1>2 DEF Init, ProgressInv
<1>7. CoreOutlivesListeners /\ GracefulMeansJoined /\ FailedStartLeavesNoListener
  BY <1>1, <1>2 DEF Init, CoreOutlivesListeners, GracefulMeansJoined,
                    FailedStartLeavesNoListener
<1> QED BY <1>4, <1>5, <1>6, <1>7 DEF IInv

-----------------------------------------------------------------------------
\* The core's thread goes on: nobody else changes, and an outcome is an end.
LEMMA CoreStep ==
  ASSUME IInv, UNCHANGED <<mode, main, listener, control, failures, verdict>>,
         CoreAlive, core' \in CoreThread, core'.thread # "none",
         core'.stop = core.stop, core'.outcome # "none" => core'.thread = "ended"
  PROVE  IInv'
<1>1. TypeOK'
  BY DEF IInv, TypeOK
<1>2. core.outcome = "none"
  BY DEF IInv, TypeOK, CoreAlive
<1>3. NodeInv' /\ StartInv' /\ ProgressInv'
  BY DEF IInv, NodeInv, StartInv, ProgressInv, Done, Over, Instances
<1>4. CoreOutlivesListeners' /\ FailedStartLeavesNoListener'
  BY DEF IInv, Over, CoreOutlivesListeners, LateFailure, FailedStartLeavesNoListener,
         Instances
<1>5. GracefulMeansJoined'
  BY <1>2 DEF IInv, GracefulMeansJoined, Over, OwnsCore, Instances
<1> QED BY <1>1, <1>3, <1>4, <1>5 DEF IInv

LEMMA CoreInv ==
  ASSUME IInv,
         WorkersEnd \/ CoreNotices \/ CorePanics \/ CoreBegins \/ CoreShutsDown
  PROVE  IInv'
<1>1. core \in CoreThread /\ CoreAlive /\ core.outcome = "none"
  BY DEF IInv, TypeOK, WorkersEnd, CoreNotices, CorePanics, CoreBegins, CoreShutsDown,
         RpcAnswers, CoreAlive
<1>2. UNCHANGED <<mode, main, listener, control, failures, verdict>>
  BY DEF WorkersEnd, CoreNotices, CorePanics, CoreBegins, CoreShutsDown
<1>3. core' \in CoreThread
  BY <1>1, CoreFields DEF WorkersEnd, CoreNotices, CorePanics, CoreBegins, CoreShutsDown
<1>4. /\ core'.thread # "none" /\ core'.stop = core.stop
      /\ core'.outcome # "none" => core'.thread = "ended"
  BY <1>1 DEF WorkersEnd, CoreNotices, CorePanics, CoreBegins, CoreShutsDown, CoreThread,
              CoreAlive
<1> QED BY <1>1, <1>2, <1>3, <1>4, CoreStep

\* A listener's thread goes on: one that the shutdown has dealt with does not.
LEMMA ListenerStep ==
  ASSUME IInv, NEW i \in Instances, NEW l \in Listener, Becomes(i, l), Alive(i)
  PROVE  IInv'
<1>1. /\ listener' = [listener EXCEPT ![i] = l]
      /\ UNCHANGED <<mode, main, core, control, failures, verdict>>
  BY DEF Becomes
<1>2. TypeOK'
  BY <1>1 DEF IInv, TypeOK
<1>3. ~Over(i) /\ listener[i] # NoListener /\ listener[i].thread # "none"
  BY DEF Alive, Over, NoListener
<1>4. \A j \in Instances : j # i => listener'[j] = listener[j]
  BY <1>1 DEF IInv, TypeOK
<1>5. NodeInv' /\ StartInv'
  BY <1>1, <1>3, <1>4 DEF IInv, NodeInv, StartInv, Over
<1>6. ProgressInv'
  BY <1>1, <1>3, <1>4 DEF IInv, ProgressInv, Done, Over
<1>7. CoreOutlivesListeners' /\ FailedStartLeavesNoListener'
  BY <1>1, <1>3, <1>4 DEF IInv, CoreOutlivesListeners, LateFailure,
                          FailedStartLeavesNoListener, Over
<1>8. GracefulMeansJoined'
  BY <1>1, <1>3 DEF IInv, GracefulMeansJoined, Instances, OwnsCore
<1> QED BY <1>2, <1>5, <1>6, <1>7, <1>8 DEF IInv

LEMMA ListenerInv ==
  ASSUME IInv, NEW i \in Instances,
         \/ Attach(i) \/ ListenerReady(i) \/ ListenerFails(i)
         \/ ListenerEnds(i) \/ ListenerStops(i)
  PROVE  IInv'
<1>1. listener[i] \in Listener
  BY DEF IInv, TypeOK
<1>2. Alive(i)
  BY DEF Attach, ListenerReady, ListenerFails, ListenerEnds, ListenerStops, Alive
<1>3. PICK l \in Listener : Becomes(i, l)
  <2> USE <1>1, ListenerFields
  <2>1. CASE Attach(i)
    BY Zenon, <2>1 DEF Attach
  <2>2. CASE ListenerReady(i)
    BY Zenon, <2>2 DEF ListenerReady
  <2>3. CASE ListenerFails(i)
    BY Zenon, <2>3 DEF ListenerFails
  <2>4. CASE ListenerEnds(i)
    BY Zenon, <2>4 DEF ListenerEnds
  <2>5. CASE ListenerStops(i)
    BY Zenon, <2>5 DEF ListenerStops
  <2> QED BY <2>1, <2>2, <2>3, <2>4, <2>5
<1> QED BY <1>2, <1>3, ListenerStep

-----------------------------------------------------------------------------
\* The start: no shutdown is under way before it and none after it, so that only
\* the types, what the start keeps and how it fails are at stake.
Starting == {"spawn", "attest", "check", "listen", "await", "rollback", "undo", "publish",
             "observe", "watch", "failed"}

LEMMA StartStep ==
  ASSUME IInv, TypeOK', StartInv', UNCHANGED <<mode, failures, verdict>>,
         main.pc \in Starting, main'.pc \in Starting, core'.stop = "open",
         mode = "node" =>
           /\ listener' = listener /\ main'.handles = main.handles
           /\ main'.pc \notin {"listen", "await", "rollback", "undo"},
         main'.pc = "failed" => FailedStartLeavesNoListener'
  PROVE  IInv'
<1>1. NodeInv'
  BY DEF IInv, NodeInv, Starting, Instances
<1>2. ProgressInv' /\ verdict = "none"
  BY DEF IInv, ProgressInv, Starting
<1>3. CoreOutlivesListeners' /\ GracefulMeansJoined'
  BY <1>2 DEF CoreOutlivesListeners, GracefulMeansJoined
<1>4. FailedStartLeavesNoListener'
  BY DEF FailedStartLeavesNoListener, Starting
<1> QED BY <1>1, <1>2, <1>3, <1>4 DEF IInv

\* The program counter moves, and the types hold.
LEMMA GotoType ==
  ASSUME IInv, NEW pc, Goto(pc), [main EXCEPT !.pc = pc] \in Main
  PROVE  /\ main' \in Main /\ main'.pc = pc /\ main'.at = main.at
         /\ main'.handles = main.handles
BY DEF Goto, IInv, TypeOK, Main

\* The same for a move to the first instance.
LEMMA FromType ==
  ASSUME main \in Main, NEW pc \in {"undo", "join", "stop"}, From(pc, 1)
  PROVE  /\ main' \in Main /\ main'.pc = pc /\ main'.at = 1
         /\ main'.handles = main.handles
<1>1. 1 \in 1 .. Count + 1
  BY RuntimeAssumption
<1>2. main' = [main EXCEPT !.pc = pc, !.at = 1]
  BY DEF From
<1> QED BY <1>1, <1>2 DEF Main

LEMMA StartCoreInv ==
  ASSUME IInv, SpawnCore \/ Attest \/ CheckCore
  PROVE  IInv'
<1>1. /\ main.pc \in {"spawn", "attest", "check"} /\ core.stop = "open"
      /\ main.at = 1 /\ main.handles = 0 /\ \A i \in Instances : Over(i)
  BY DEF SpawnCore, Attest, CheckCore, IInv, ProgressInv, StartInv
<1>2. UNCHANGED <<mode, listener, control, failures, verdict>>
  BY DEF SpawnCore, Attest, CheckCore
<1>3. /\ main' \in Main /\ main'.at = 1 /\ main'.handles = 0
      /\ main'.pc \in {"attest", "check", "listen", "publish", "failed"}
      /\ main'.pc = "listen" => mode # "node"
      /\ main'.pc = "publish" => mode = "node"
  BY <1>1 DEF SpawnCore, Attest, CheckCore, Goto, IInv, TypeOK, Main, OwnsListeners
<1>4. core' \in CoreThread /\ core'.stop = "open"
  <2>1. core \in CoreThread
    BY DEF IInv, TypeOK
  <2>2. \/ core' = core
        \/ core' = [NoCore EXCEPT !.thread = "running", !.workers = "up"]
        \/ core' = [core EXCEPT !.outcome = IF @ = "none" THEN @ ELSE "read"]
    BY DEF SpawnCore, Attest, CheckCore
  <2>3. [core EXCEPT !.outcome = IF @ = "none" THEN @ ELSE "read"] \in CoreThread
    BY <2>1 DEF CoreThread
  <2>4. core' \in CoreThread
    BY <2>1, <2>2, <2>3, NewThreads
  <2>5. core'.stop = "open"
    BY <1>1, <2>1, <2>2 DEF CoreThread, NoCore
  <2> QED BY <2>4, <2>5
<1>5. /\ core'.thread = "none" => core'.outcome = "none"
      /\ core'.outcome # "none" => core'.thread = "ended"
  BY DEF SpawnCore, Attest, CheckCore, IInv, TypeOK, CoreThread, NoCore
<1>6. TypeOK'
  BY <1>2, <1>3, <1>4, <1>5 DEF IInv, TypeOK, Instances
<1>7. StartInv' /\ FailedStartLeavesNoListener'
  <2>1. \A i \in Instances : Over(i)'
    BY <1>1, <1>2 DEF Over, Instances
  <2> QED BY <1>2, <1>3, <2>1 DEF StartInv, FailedStartLeavesNoListener, Over, Instances
<1> QED BY <1>1, <1>2, <1>3, <1>4, <1>6, <1>7, StartStep DEF Starting

LEMMA StartListenersInv ==
  ASSUME IInv, StartListener \/ AwaitReady \/ AwaitFails \/ JoinFailed \/ UndoneAll
  PROVE  IInv'
<1>1. /\ main.pc \in {"listen", "await", "rollback", "undo"} /\ mode # "node"
      /\ core.stop = "open"
  BY DEF StartListener, AwaitReady, AwaitFails, JoinFailed, UndoneAll, IInv, ProgressInv,
         NodeInv
<1>2. UNCHANGED <<mode, core, control, failures, verdict>>
  BY DEF StartListener, AwaitReady, AwaitFails, JoinFailed, UndoneAll
<1>3. /\ main \in Main /\ listener \in [Instances -> Listener] /\ Count \in Nat \ {0}
      /\ main.at \in 1 .. Count + 1 /\ main.handles \in 0 .. Count
      /\ main.pc \in {"await", "rollback"} => main.at \in Instances
      /\ main.pc \in {"listen", "await", "rollback"} => main.handles + 1 = main.at
  BY RuntimeAssumption DEF IInv, TypeOK, Main, StartInv
<1> DEFINE Here(pc, at, n) == main'.pc = pc /\ main'.at = at /\ main'.handles = n
<1>4. CASE main.pc = "listen" /\ main.at > Count /\ Goto("publish") /\ UNCHANGED listener
  <2>1. main' \in Main /\ Here("publish", main.at, main.handles)
    BY <1>3, <1>4 DEF Goto, Main
  <2>2. TypeOK'
    BY <1>2, <1>4, <2>1 DEF IInv, TypeOK, Instances
  <2>3. StartInv'
    BY <1>2, <1>3, <1>4, <2>1 DEF StartInv
  <2> QED BY <1>1, <1>2, <2>1, <2>2, <2>3, StartStep DEF Starting
<1>5. CASE /\ main.pc = "listen" /\ main.at <= Count /\ Goto("await")
           /\ listener' = [listener EXCEPT ![main.at] =
                             [NoListener EXCEPT !.thread = "attaching"]]
  <2>1. main' \in Main /\ Here("await", main.at, main.handles) /\ main.at \in Instances
    BY <1>3, <1>5 DEF Goto, Main, Instances
  <2>2. listener' \in [Instances -> Listener]
    BY Zenon, <1>5, <1>3, NewThreads
  <2>3. TypeOK'
    BY <1>2, <2>1, <2>2 DEF IInv, TypeOK, Instances
  <2>4. \A i \in Instances : i > main.at => listener'[i] = listener[i] /\ Over(i)
    BY <1>3, <1>5, <2>1 DEF IInv, StartInv, Instances
  <2>5. StartInv'
    BY <1>3, <1>5, <2>1, <2>4 DEF StartInv, Over, Instances
  <2> QED BY <1>1, <1>2, <2>1, <2>3, <2>5, StartStep DEF Starting
<1>6. CASE main.pc = "listen" /\ main.at <= Count /\ From("undo", 1) /\ UNCHANGED listener
  <2>1. main' \in Main /\ Here("undo", 1, main.handles)
    BY <1>3, <1>6, FromType
  <2>2. TypeOK'
    BY <1>2, <1>6, <2>1 DEF IInv, TypeOK, Instances
  <2>3. \A i \in Instances : i > main.handles => Over(i)
    BY <1>3, <1>6 DEF IInv, StartInv, Instances
  <2>4. StartInv'
    BY <1>2, <1>3, <1>6, <2>1, <2>3 DEF StartInv, Over, Instances
  <2> QED BY <1>1, <1>2, <2>1, <2>2, <2>4, StartStep DEF Starting
<1>7. CASE AwaitReady
  <2>1. main.pc = "await" /\ listener' = listener
    BY <1>7 DEF AwaitReady
  <2>2. main' \in Main /\ Here("listen", main.at + 1, main.handles + 1)
    BY <1>3, <1>7, <2>1 DEF AwaitReady, Main, Instances
  <2>3. TypeOK'
    BY <1>2, <2>1, <2>2 DEF IInv, TypeOK, Instances
  <2>4. \A i \in Instances : i > main.at => Over(i)
    BY <2>1 DEF IInv, StartInv
  <2>5. StartInv'
    BY <1>3, <2>1, <2>2, <2>4 DEF StartInv, Over, Instances
  <2> QED BY <1>1, <1>2, <2>2, <2>3, <2>5, StartStep DEF Starting
<1>8. CASE AwaitFails
  <2>1. /\ main.pc = "await" /\ main.at \in Instances
        /\ listener' = [listener EXCEPT ![main.at] = [@ EXCEPT !.asked = TRUE]]
    BY <1>3, <1>8 DEF AwaitFails
  <2>2. main' \in Main /\ Here("rollback", main.at, main.handles)
    BY <1>3, <1>8 DEF AwaitFails, Goto, Main
  <2>3. listener[main.at] \in Listener
    BY <1>3, <2>1
  <2>4. listener' \in [Instances -> Listener]
    BY <1>3, <2>1, <2>3, ListenerFields
  <2>5. TypeOK'
    BY <1>2, <2>1, <2>2, <2>4 DEF IInv, TypeOK, Instances
  <2>6. \A i \in Instances : i > main.at => listener'[i] = listener[i] /\ Over(i)
    BY <1>3, <2>1 DEF IInv, StartInv, Instances
  <2>7. StartInv'
    BY <1>3, <2>1, <2>2, <2>6 DEF StartInv, Over, Instances
  <2> QED BY <1>1, <1>2, <2>2, <2>5, <2>7, StartStep DEF Starting
<1>9. CASE JoinFailed
  <2>1. main.pc = "rollback" /\ listener' = listener /\ Over(main.at)
    BY <1>9 DEF JoinFailed
  <2>2. main' \in Main /\ Here("undo", 1, main.handles)
    BY <1>3, <1>9, FromType DEF JoinFailed
  <2>3. TypeOK'
    BY <1>2, <2>1, <2>2 DEF IInv, TypeOK, Instances
  <2>4. \A i \in Instances : i > main.handles => Over(i)
    BY <1>3, <2>1 DEF IInv, StartInv, Instances
  <2>5. StartInv'
    BY <1>2, <1>3, <2>1, <2>2, <2>4 DEF StartInv, Over, Instances
  <2> QED BY <1>1, <1>2, <2>2, <2>3, <2>5, StartStep DEF Starting
<1>10. CASE UndoneAll
  <2>1. main.pc = "undo" /\ listener' = listener /\ main.at > main.handles
    BY <1>10 DEF UndoneAll
  <2>2. main' \in Main /\ Here("failed", main.at, main.handles)
    BY <1>3, <1>10 DEF UndoneAll, Goto, Main
  <2>3. TypeOK'
    BY <1>2, <2>1, <2>2 DEF IInv, TypeOK, Instances
  <2>4. \A i \in Instances : Over(i)
    BY <1>3, <2>1 DEF IInv, StartInv, Instances
  <2>5. StartInv' /\ FailedStartLeavesNoListener'
    BY <2>1, <2>2, <2>4 DEF StartInv, FailedStartLeavesNoListener, Over, Instances
  <2> QED BY <1>1, <1>2, <2>2, <2>3, <2>5, StartStep DEF Starting
<1> QED
  BY <1>4, <1>5, <1>6, <1>7, <1>8, <1>9, <1>10 DEF StartListener, JoinFailed

LEMMA PublishInv ==
  ASSUME IInv, PublishReady \/ StartObserver
  PROVE  IInv'
<1>1. main.pc \in {"publish", "observe"} /\ core.stop = "open"
  BY DEF PublishReady, StartObserver, IInv, ProgressInv
<1>2. UNCHANGED <<mode, core, listener, failures, verdict>>
  BY DEF PublishReady, StartObserver
<1>3. /\ main' \in Main /\ main'.pc \in {"observe", "watch", "failed"}
      /\ main'.handles = main.handles /\ main'.at = main.at
      /\ control' \in {"none", "READY", "FAILED"}
  BY DEF PublishReady, StartObserver, Goto, IInv, TypeOK, Main
<1>4. TypeOK'
  BY <1>2, <1>3 DEF IInv, TypeOK, Instances
<1>5. mode = "node" \/ main.handles = Count
  BY <1>1 DEF IInv, StartInv
<1>6. StartInv'
  BY <1>2, <1>3, <1>5 DEF StartInv
<1>7. FailedStartLeavesNoListener'
  <2>1. CASE mode = "node"
    BY <1>2, <2>1 DEF IInv, NodeInv, NoListener, FailedStartLeavesNoListener, Over,
                      Instances
  <2>2. CASE main.handles = Count
    BY <1>3, <2>2, RuntimeAssumption DEF FailedStartLeavesNoListener
  <2> QED BY <1>5, <2>1, <2>2
<1> QED BY <1>1, <1>2, <1>3, <1>4, <1>6, <1>7, StartStep DEF Starting

-----------------------------------------------------------------------------
\* A start that failed drops what it kept: a late one has the core shut down now.
LEMMA AbandonInv == ASSUME IInv, Abandon PROVE IInv'
<1>1. /\ main.pc = "failed" /\ verdict = "none" /\ core.stop = "open"
      /\ UNCHANGED <<mode, control, failures, verdict>>
  BY DEF Abandon, IInv, ProgressInv
<1>2. /\ main' \in Main /\ main'.pc = "exit" /\ main'.handles = main.handles
      /\ main.handles \in 0 .. Count
  BY DEF Abandon, Goto, IInv, TypeOK, Main
<1>3. /\ core' \in CoreThread /\ core'.thread = core.thread /\ core'.outcome = core.outcome
      /\ core'.thread = "none" => core'.stop = "open"
  <2>1. core \in CoreThread /\ (core.thread = "none" => core.stop = "open")
    BY DEF IInv, TypeOK
  <2>2. core' = core \/ (CoreAlive /\ core' = [core EXCEPT !.stop = "dropped"])
    BY DEF Abandon
  <2>3. core' \in CoreThread
    BY <2>1, <2>2, CoreFields
  <2>4. core'.thread = core.thread /\ core'.outcome = core.outcome
    BY <2>1, <2>2 DEF CoreThread
  <2>5. core'.thread = "none" => core' = core
    BY <2>2, <2>4 DEF CoreAlive
  <2> QED BY <2>1, <2>3, <2>4, <2>5
<1>4. \A i \in Instances : /\ listener'[i] \in Listener
                           /\ Over(i) => listener'[i] = listener[i]
  <2> SUFFICES ASSUME NEW i \in Instances
               PROVE  /\ listener'[i] \in Listener
                      /\ Over(i) => listener'[i] = listener[i]
    OBVIOUS
  <2>1. listener[i] \in Listener
    BY DEF IInv, TypeOK
  <2>2. listener'[i] = IF Alive(i) THEN [listener[i] EXCEPT !.asked = TRUE]
                                   ELSE listener[i]
    BY DEF Abandon
  <2>3. Over(i) => ~Alive(i)
    BY DEF Over, Alive
  <2> QED BY <2>1, <2>2, <2>3, ListenerFields
<1>5. listener' \in [Instances -> Listener]
  BY <1>4 DEF Abandon
<1>6. TypeOK'
  BY <1>1, <1>2, <1>3, <1>5 DEF IInv, TypeOK, Instances
<1>7. NodeInv'
  BY <1>1, <1>2, <1>4 DEF IInv, NodeInv, Over, NoListener, Instances
<1>8. StartInv' /\ ProgressInv' /\ GracefulMeansJoined'
  BY <1>1, <1>2 DEF StartInv, ProgressInv, GracefulMeansJoined
<1>9. CASE main.handles < Count
  <2>1. \A i \in Instances : Over(i)'
    BY <1>1, <1>4, <1>9 DEF IInv, FailedStartLeavesNoListener, Over, Instances
  <2> QED BY <1>6, <1>7, <1>8, <2>1 DEF IInv, CoreOutlivesListeners,
                                        FailedStartLeavesNoListener, Instances
<1>10. CASE main.handles = Count
  <2>1. LateFailure' /\ FailedStartLeavesNoListener'
    BY <1>1, <1>2, <1>10, RuntimeAssumption DEF LateFailure, FailedStartLeavesNoListener
  <2> QED BY <1>6, <1>7, <1>8, <2>1 DEF IInv, CoreOutlivesListeners
<1> QED BY <1>2, <1>9, <1>10, RuntimeAssumption

\* The process ends: what was promised stays so.
LEMMA EndInv ==
  ASSUME IInv, ExitFailed \/ Leave
  PROVE  IInv'
<1>1. /\ UNCHANGED <<mode, core, listener, failures, verdict>>
      /\ main.pc \in {"exit", "reported"} /\ main'.handles = main.handles
      /\ main' \in Main /\ main'.pc = "gone" /\ control' \in {"none", "READY", "FAILED"}
  BY DEF ExitFailed, Leave, Goto, IInv, TypeOK, Main
<1>2. TypeOK'
  BY <1>1 DEF IInv, TypeOK, Instances
<1>3. NodeInv' /\ StartInv' /\ ProgressInv'
  BY <1>1 DEF IInv, NodeInv, StartInv, ProgressInv, Instances
<1>4. CoreOutlivesListeners' /\ GracefulMeansJoined'
  BY <1>1 DEF IInv, CoreOutlivesListeners, LateFailure, GracefulMeansJoined, Over, OwnsCore,
              Instances
<1>5. FailedStartLeavesNoListener'
  <2>1. CASE main.pc = "exit"
    BY <1>1, <2>1 DEF IInv, FailedStartLeavesNoListener, Over, Instances
  <2>2. CASE main.pc = "reported"
    BY <1>1, <2>2 DEF IInv, ProgressInv, Done, FailedStartLeavesNoListener, Over, Instances
  <2> QED BY <1>1, <2>1, <2>2
<1> QED BY <1>2, <1>3, <1>4, <1>5 DEF IInv

\* A shutdown begins: nothing has been asked, so nothing has been promised.
LEMMA BeginInv ==
  ASSUME IInv, StopArrives \/ MonitorFinds
  PROVE  IInv'
<1>1. main.pc = "watch" /\ core.stop = "open" /\ verdict = "none"
  BY DEF StopArrives, MonitorFinds, IInv, ProgressInv
<1>2. UNCHANGED <<mode, listener, control, failures, verdict>>
  BY DEF StopArrives, MonitorFinds
<1>3. /\ main' \in Main /\ main'.at = 1 /\ main'.handles = main.handles
      /\ main'.pc = IF mode # "node" THEN "join" ELSE "stop"
  <2>1. main \in Main
    BY DEF IInv, TypeOK
  <2>2. From(IF mode # "node" THEN "join" ELSE "stop", 1)
    BY Zenon DEF StopArrives, MonitorFinds, BeginShutdown, OwnsListeners
  <2>3. CASE mode # "node"
    BY <2>1, <2>2, <2>3, FromType
  <2>4. CASE mode = "node"
    BY <2>1, <2>2, <2>4, FromType
  <2> QED BY <2>3, <2>4
<1>4. core' \in CoreThread /\ core'.stop = "open"
  <2>1. core \in CoreThread
    BY DEF IInv, TypeOK
  <2>2. core' = core \/ core' = [core EXCEPT !.outcome = "read"]
    BY DEF StopArrives, MonitorFinds
  <2>3. core' \in CoreThread
    BY <2>1, <2>2, CoreFields
  <2>4. core'.stop = "open"
    BY <1>1, <2>1, <2>2 DEF CoreThread
  <2> QED BY <2>3, <2>4
<1>5. /\ core'.thread = "none" => core'.outcome = "none"
      /\ core'.outcome # "none" => core'.thread = "ended"
  BY DEF StopArrives, MonitorFinds, IInv, TypeOK, CoreThread
<1>6. TypeOK'
  BY <1>2, <1>3, <1>4, <1>5 DEF IInv, TypeOK, Instances
<1>7. mode = "node" => \A i \in Instances : Done(i)
  BY DEF IInv, NodeInv, Done, Over, NoListener
<1>8. NodeInv' /\ StartInv'
  BY <1>1, <1>2, <1>3 DEF IInv, NodeInv, StartInv, Instances
<1>9. ProgressInv'
  BY <1>1, <1>2, <1>3, <1>4, <1>7 DEF ProgressInv, Done, Over, Instances
<1>10. CoreOutlivesListeners' /\ GracefulMeansJoined' /\ FailedStartLeavesNoListener'
  BY <1>1, <1>2, <1>3, <1>4 DEF CoreOutlivesListeners, GracefulMeansJoined,
                                FailedStartLeavesNoListener
<1> QED BY <1>6, <1>8, <1>9, <1>10 DEF IInv

\* The shutdown and the roll-back join the kept handles one by one.
LEMMA AskListenerInv == ASSUME IInv, AskListener PROVE IInv'
<1>1. /\ main.pc \in {"join", "undo"} /\ core.stop = "open" /\ verdict = "none"
      /\ mode # "node" /\ UNCHANGED <<mode, main, core, control, failures, verdict>>
  BY DEF AskListener, Joining, IInv, ProgressInv, NodeInv
<1>2. main.at \in Instances /\ listener \in [Instances -> Listener]
  BY RuntimeAssumption DEF AskListener, Joining, IInv, TypeOK, Main, Instances
<1>3. listener' = [listener EXCEPT ![main.at] = [@ EXCEPT !.asked = TRUE]]
  BY DEF AskListener
<1>4. listener' \in [Instances -> Listener]
  BY <1>2, <1>3, ListenerFields
<1>5. TypeOK'
  BY <1>1, <1>4 DEF IInv, TypeOK, Instances
<1>6. \A i \in Instances : /\ listener'[i].thread = listener[i].thread
                           /\ listener'[i].panicked = listener[i].panicked
  BY <1>2, <1>3 DEF Listener
<1>7. StartInv' /\ ProgressInv'
  BY <1>1, <1>6 DEF IInv, StartInv, ProgressInv, Done, Over, Instances
<1> QED BY <1>1, <1>5, <1>7 DEF IInv, NodeInv, CoreOutlivesListeners, GracefulMeansJoined,
                                FailedStartLeavesNoListener

LEMMA JoinListenerInv == ASSUME IInv, JoinListener PROVE IInv'
<1>1. /\ main.pc \in {"join", "undo"} /\ core.stop = "open" /\ verdict = "none"
      /\ mode # "node" /\ UNCHANGED <<mode, core, listener, control, verdict>>
  BY DEF JoinListener, Joining, Joined, IInv, ProgressInv, NodeInv
<1>2. main.at \in Instances /\ main.at + 1 \in 1 .. Count + 1 /\ Count \in Nat
  BY RuntimeAssumption DEF JoinListener, Joining, IInv, TypeOK, Main, Instances
<1>3. /\ main' \in Main /\ main'.pc = main.pc /\ main'.at = main.at + 1
      /\ main'.handles = main.handles
  <2>1. main \in Main
    BY DEF IInv, TypeOK
  <2>2. main' = [main EXCEPT !.at = @ + 1]
    BY DEF JoinListener, Joined
  <2> QED BY <1>2, <2>1, <2>2 DEF Main
<1>4. failures' = (failures \/ (main.pc = "join" /\ listener[main.at].panicked))
      /\ Over(main.at)
  BY DEF JoinListener, Joined
<1>5. failures' \in BOOLEAN /\ (failures => failures')
      /\ (main.pc = "join" /\ listener[main.at].panicked => failures')
  BY Zenon, <1>4 DEF IInv, TypeOK
<1>6. TypeOK'
  BY <1>1, <1>3, <1>5 DEF IInv, TypeOK, Instances
<1>7. \A i \in Instances : i < main.at + 1 => i < main.at \/ i = main.at
  BY <1>2 DEF Instances
<1>8. StartInv'
  BY <1>1, <1>3, <1>4, <1>7 DEF IInv, StartInv, Over, Instances
<1>9. ProgressInv'
  BY <1>1, <1>3, <1>4, <1>5, <1>7 DEF IInv, ProgressInv, Done, Over, Instances
<1>10. NodeInv'
  BY <1>1 DEF NodeInv
<1>11. CoreOutlivesListeners' /\ GracefulMeansJoined' /\ FailedStartLeavesNoListener'
  BY <1>1, <1>3 DEF CoreOutlivesListeners, GracefulMeansJoined, FailedStartLeavesNoListener
<1> QED BY <1>6, <1>8, <1>9, <1>10, <1>11 DEF IInv

LEMMA JoinedAllInv == ASSUME IInv, JoinedAll PROVE IInv'
<1>1. /\ main.pc = "join" /\ main.at > main.handles /\ core.stop = "open" /\ mode # "node"
      /\ UNCHANGED <<mode, core, listener, control, failures>> /\ verdict = "none"
      /\ main.handles = Count
  BY DEF JoinedAll, IInv, ProgressInv, NodeInv, StartInv
<1>2. \A i \in Instances : i < main.at
  BY <1>1, RuntimeAssumption DEF IInv, TypeOK, Main, Instances
<1>3. \A i \in Instances : Done(i)
  BY <1>1, <1>2 DEF IInv, ProgressInv
<1>4. CASE OwnsCore
  <2>1. /\ main' \in Main /\ main'.pc = "stop" /\ main'.handles = main.handles
        /\ main'.at = main.at /\ verdict' = verdict
    BY <1>4 DEF JoinedAll, Goto, IInv, TypeOK, Main
  <2>2. TypeOK'
    BY <1>1, <2>1 DEF IInv, TypeOK, Instances
  <2>3. ProgressInv' /\ StartInv'
    BY <1>1, <1>3, <2>1 DEF ProgressInv, StartInv, Done, Over, Instances
  <2> QED BY <1>1, <2>1, <2>2, <2>3 DEF IInv, NodeInv, CoreOutlivesListeners,
                                        GracefulMeansJoined, FailedStartLeavesNoListener
<1>5. CASE ~OwnsCore
  <2>1. /\ main' \in Main /\ main'.pc = "reported" /\ main'.handles = main.handles
        /\ verdict' = IF failures THEN "terminal" ELSE "graceful"
    BY <1>5 DEF JoinedAll, Report, Goto, IInv, TypeOK, Main
  <2>2. TypeOK'
    BY <1>1, <2>1 DEF IInv, TypeOK, Instances
  <2>3. ProgressInv' /\ StartInv' /\ NodeInv' /\ CoreOutlivesListeners'
        /\ FailedStartLeavesNoListener'
    BY <1>1, <1>3, <2>1 DEF ProgressInv, StartInv, Done, Over, Instances, NodeInv,
                            CoreOutlivesListeners, FailedStartLeavesNoListener
  <2>4. GracefulMeansJoined'
    BY <1>1, <1>3, <1>5, <2>1 DEF GracefulMeansJoined, Done, Over, OwnsCore, Instances
  <2> QED BY <2>2, <2>3, <2>4 DEF IInv
<1> QED BY <1>4, <1>5

LEMMA AskCoreInv == ASSUME IInv, AskCore PROVE IInv'
<1>1. /\ main.pc = "stop" /\ verdict = "none" /\ \A i \in Instances : Done(i)
      /\ UNCHANGED <<mode, listener, control, verdict>>
  BY DEF AskCore, IInv, ProgressInv
<1>2. /\ main' \in Main /\ main'.pc = "joinCore" /\ main'.handles = main.handles
      /\ main'.at = main.at
  BY DEF AskCore, Goto, IInv, TypeOK, Main
<1>3. /\ core' \in CoreThread /\ core'.thread = core.thread /\ core'.outcome = core.outcome
      /\ core'.thread = "none" => core'.stop = "open"
  <2>1. core \in CoreThread /\ (core.thread = "none" => core.stop = "open")
    BY DEF IInv, TypeOK
  <2>2. core' = core \/ (CoreAlive /\ core' = [core EXCEPT !.stop = "asked"])
    BY DEF AskCore
  <2>3. core' \in CoreThread
    BY <2>1, <2>2, CoreFields
  <2>4. core'.thread = core.thread /\ core'.outcome = core.outcome
    BY <2>1, <2>2 DEF CoreThread
  <2>5. core'.thread = "none" => core' = core
    BY <2>2, <2>4 DEF CoreAlive
  <2> QED BY <2>1, <2>3, <2>4, <2>5
<1>4. failures' \in BOOLEAN /\ (failures => failures')
  BY DEF AskCore, IInv, TypeOK
<1>5. TypeOK'
  BY <1>1, <1>2, <1>3, <1>4 DEF IInv, TypeOK, Instances
<1>6. ProgressInv' /\ NodeInv' /\ StartInv'
  BY <1>1, <1>2, <1>4 DEF IInv, ProgressInv, NodeInv, StartInv, Done, Over, Instances
<1>7. CoreOutlivesListeners' /\ GracefulMeansJoined' /\ FailedStartLeavesNoListener'
  BY <1>1, <1>2 DEF CoreOutlivesListeners, GracefulMeansJoined,
                    FailedStartLeavesNoListener, Done, Over, Instances
<1> QED BY <1>5, <1>6, <1>7 DEF IInv

LEMMA JoinCoreInv == ASSUME IInv, JoinCore PROVE IInv'
<1>1. /\ main.pc = "joinCore" /\ \A i \in Instances : Done(i)
      /\ UNCHANGED <<mode, core, listener, control, failures>>
  BY DEF JoinCore, IInv, ProgressInv
<1>2. /\ main' \in Main /\ main'.pc = "reported" /\ main'.handles = main.handles
      /\ verdict' \in {"terminal", "graceful"}
      /\ verdict' = "graceful" => ~failures /\ core.outcome = "joined"
  BY DEF JoinCore, Report, Goto, IInv, TypeOK, Main
<1>3. TypeOK'
  BY <1>1, <1>2 DEF IInv, TypeOK, Instances
<1>4. ProgressInv' /\ NodeInv' /\ StartInv'
  BY <1>1, <1>2 DEF IInv, ProgressInv, NodeInv, StartInv, Done, Over, Instances
<1>5. CoreOutlivesListeners' /\ GracefulMeansJoined' /\ FailedStartLeavesNoListener'
  BY <1>1, <1>2 DEF CoreOutlivesListeners, GracefulMeansJoined,
                    FailedStartLeavesNoListener, Done, Over, Instances, OwnsCore
<1> QED BY <1>3, <1>4, <1>5 DEF IInv

-----------------------------------------------------------------------------
LEMMA StutterInv == ASSUME IInv, UNCHANGED vars PROVE IInv'
<1>1. TypeOK' /\ NodeInv' /\ StartInv'
  BY DEF IInv, vars, TypeOK, NodeInv, StartInv, Over, Instances
<1>2. ProgressInv' /\ CoreOutlivesListeners'
  BY DEF IInv, vars, ProgressInv, CoreOutlivesListeners, LateFailure, Done, Over, Instances
<1>3. GracefulMeansJoined' /\ FailedStartLeavesNoListener'
  BY DEF IInv, vars, GracefulMeansJoined, FailedStartLeavesNoListener, Over, OwnsCore,
         Instances
<1> QED BY <1>1, <1>2, <1>3 DEF IInv

LEMMA StepInv == IInv /\ [Next]_vars => IInv'
<1> SUFFICES ASSUME IInv, [Next]_vars PROVE IInv'
  OBVIOUS
<1>1. CASE WorkersEnd \/ CoreNotices \/ CorePanics \/ CoreBegins \/ CoreShutsDown
  BY <1>1, CoreInv
<1>2. CASE \E i \in Instances : \/ Attach(i) \/ ListenerReady(i) \/ ListenerFails(i)
                               \/ ListenerEnds(i) \/ ListenerStops(i)
  BY <1>2, ListenerInv
<1>3. CASE MainStep \/ StopArrives
  BY <1>3, StartCoreInv, StartListenersInv, PublishInv, AbandonInv, EndInv, BeginInv,
     AskListenerInv, JoinListenerInv, JoinedAllInv, AskCoreInv, JoinCoreInv DEF MainStep
<1>4. CASE UNCHANGED vars
  BY <1>4, StutterInv
<1> QED BY <1>1, <1>2, <1>3, <1>4 DEF Next

\* The invariant holds in every state.
THEOREM Invariance == Spec => []IInv
<1> QED BY InitInv, StepInv, PTL DEF Spec

\* Every variable keeps its type, however many instances there are.
THEOREM TypeCorrect == Spec => []TypeOK
<1>1. IInv => TypeOK
  BY DEF IInv
<1> QED BY <1>1, Invariance, PTL

\* The core is told to shut down, by a request or by a sender that is dropped, when no
\* listener is left, unless the start failed after all of them were ready
\* (stop_network comes last in the shutdown closure of kgw_run_bridge_self_worker).
THEOREM CoreOutlivesListenersHolds == Spec => []CoreOutlivesListeners
<1>1. IInv => CoreOutlivesListeners
  BY DEF IInv
<1> QED BY <1>1, Invariance, PTL

\* A graceful shutdown saw every listener end without a panic, and the core answer.
THEOREM GracefulMeansJoinedHolds == Spec => []GracefulMeansJoined
<1>1. IInv => GracefulMeansJoined
  BY DEF IInv
<1> QED BY <1>1, Invariance, PTL

\* A start that fails before every instance is up leaves no listener: the handles that
\* were kept are asked and joined one by one (start_bridge_owners_ready_with).
THEOREM FailedStartLeavesNoListenerHolds == Spec => []FailedStartLeavesNoListener
<1>1. IInv => FailedStartLeavesNoListener
  BY DEF IInv
<1> QED BY <1>1, Invariance, PTL
==============================================================================
