--------------------------- MODULE WorkerStopProofs ---------------------------
(***************************************************************************)
(* Theorems of WorkerStop, for any of its switches: what a stop reports is *)
(* true of the worker, a worker leaves the registry dead, and a node core  *)
(* is not killed under its shutdown.  The last section is about stops that *)
(* wait for a worker that will say nothing more.                           *)
(***************************************************************************)
EXTENDS WorkerStop, TLAPS

\* The worker has answered with a failure, or exited with one.
Answered == child.pc = "hold" \/ child.status \in {"failure", "killed"}

\* The worker will not exit with success any more.
Committed == Answered \/ child.pc \in {"cleanup", "publishFailed", "publishCleanup"}

\* The worker is on the way to success.
Succeeding ==
  child.pc \in {"confirm", "shutdown", "publishStopped"} \/ child.status = "success"

Terminal == job \in {"ok", "failedTerminal"}

\* An asked stop that polls for the answer.
Asking == stop.pc \in Looping /\ ~stop.unasked

ChildInv ==
  /\ child.pc \in {"watch", "confirm"} => job = "none"
  /\ OwnsCore /\ job = "running" => child.pc \in {"shutdown", "cleanup"}
  /\ child.pc = "publishStopped" => job = "ok"
  /\ child.pc \in {"publishFailed", "publishCleanup"} /\ child.verdict = "failedTerminal"
       => Terminal
  /\ child.status = "running" <=> child.pc \notin {"leave", "dead"}
  /\ child.status = "success" => job = "ok"
  /\ child.status = "killed" => child.pc = "dead"
  /\ child.lost => parent = "gone"

OutcomeInv ==
  /\ outcome \in {"failedTerminal", "failedOpen"} => Answered
  /\ outcome = "failedTerminal" => Terminal

StopInv ==
  /\ stop.pc # "idle" => parent = "up" /\ held
  /\ stop.pc \in {"idle", "clear", "ask"} =>
       ~stop.received /\ ~stop.unasked /\ ~stop.attested /\ ~stop.proven
  /\ stop.pc = "ask" => ~request
  /\ stop.attested => stop.received
  /\ OwnsCore => ~stop.expired
  /\ stop.proven => Terminal
  /\ stop.received /\ ~stop.attested /\ ~stop.unasked => Answered
  /\ OwnsCore /\ stop.pc = "force" /\ Alive /\ ~stop.unasked => Answered

\* A node core that succeeds is waited for by a stop that will hear of it.
CoreInv ==
  OwnsCore /\ parent = "up" =>
    /\ request => Asking \/ Committed
    /\ held /\ Succeeding =>
         /\ Asking /\ (stop.received => stop.attested)
         /\ child.status = "success" => stop.attested \/ outcome = "stopped"

ReportInv ==
  /\ RemovedOnlyWhenDead
  /\ report \in {"already", "graceful", "failed", "forced"} => ~held
  /\ GracefulMeansJoined
  /\ CleanStopIsNotForced
  /\ FailureIsProven

IInv == TypeOK /\ ChildInv /\ OutcomeInv /\ StopInv /\ CoreInv /\ ReportInv

-----------------------------------------------------------------------------
\* The flags of a stop that returned, and of one that has heard.
LEMMA IdleFacts ==
  /\ Idle \in StopCall /\ Idle.pc = "idle"
  /\ ~Idle.received /\ ~Idle.unasked /\ ~Idle.attested /\ ~Idle.proven /\ ~Idle.expired
BY DEF Idle, StopCall

LEMMA HeardFacts ==
  ASSUME IInv
  PROVE  /\ Heard \in StopCall /\ Heard.pc = stop.pc
         /\ Heard.unasked = stop.unasked /\ Heard.expired = stop.expired
         /\ Heard.received = (stop.received \/ outcome # "none")
         /\ Heard.attested = (stop.attested \/ outcome = "stopped")
         /\ Heard.proven = IF outcome \in {"none", "stopped"} THEN stop.proven
                           ELSE outcome = "failedTerminal"
<1>1. stop \in StopCall
  BY DEF IInv, TypeOK
<1>2. CASE outcome = "none"
  BY <1>1, <1>2 DEF Heard, StopCall
<1>3. CASE outcome # "none"
  BY <1>1, <1>3 DEF Heard, StopCall
<1> QED BY <1>2, <1>3

\* What the moves of the worker's main thread do to its record.
LEMMA GoesFacts ==
  ASSUME child \in Child,
         NEW pc \in {"watch", "confirm", "shutdown", "cleanup", "publishStopped",
                     "publishFailed", "publishCleanup", "leave", "hold", "dead"},
         ChildGoes(pc)
  PROVE  /\ child' \in Child /\ child'.pc = pc /\ child'.kind = child.kind
         /\ child'.status = child.status /\ child'.lost = child.lost
         /\ child'.verdict = child.verdict
BY DEF ChildGoes, Child

LEMMA LeavesFacts ==
  ASSUME child \in Child, NEW status \in {"running", "success", "failure", "killed"},
         Leaves(status)
  PROVE  /\ child' \in Child /\ child'.pc = "leave" /\ child'.kind = child.kind
         /\ child'.status = status /\ child'.lost = child.lost
         /\ child'.verdict = child.verdict
BY DEF Leaves, Child

LEMMA PublishesFacts ==
  ASSUME child \in Child, NEW v \in {"failedTerminal", "failedOpen"},
         NEW pc \in {"publishFailed", "publishCleanup"},
         child' = [child EXCEPT !.pc = pc, !.verdict = v]
  PROVE  /\ child' \in Child /\ child'.pc = pc /\ child'.kind = child.kind
         /\ child'.status = child.status /\ child'.lost = child.lost
         /\ child'.verdict = v
BY DEF Child

LEMMA ConcludesFacts ==
  ASSUME child \in Child, child.pc \in {"shutdown", "cleanup"},
         NEW v \in {"failedTerminal", "failedOpen"}, Concludes(v)
  PROVE  /\ child' \in Child /\ child'.kind = child.kind /\ child'.lost = child.lost
         /\ \/ child.lost /\ child'.pc = "leave" /\ child'.status = "failure"
            \/ /\ ~child.lost /\ child'.status = child.status /\ child'.verdict = v
               /\ child'.pc = IF child.pc = "cleanup" THEN "publishCleanup" ELSE "publishFailed"
<1>1. CASE child.lost
  BY <1>1, LeavesFacts DEF Concludes
<1>2. CASE ~child.lost
  <2> DEFINE pc == IF child.pc = "cleanup" THEN "publishCleanup" ELSE "publishFailed"
  <2>1. /\ child' = [child EXCEPT !.pc = pc, !.verdict = v]
        /\ pc \in {"publishFailed", "publishCleanup"}
    BY <1>2, Zenon DEF Concludes
  <2> HIDE DEF pc
  <2>2. /\ child' \in Child /\ child'.pc = pc /\ child'.kind = child.kind
        /\ child'.status = child.status /\ child'.lost = child.lost
        /\ child'.verdict = v
    BY <2>1, PublishesFacts
  <2> QED BY <1>2, <2>2 DEF pc
<1> QED BY <1>1, <1>2 DEF Child

-----------------------------------------------------------------------------
\* The initial state.
LEMMA InitInv == Init => IInv
<1> SUFFICES ASSUME Init PROVE IInv
  OBVIOUS
<1>1. child \in Child /\ child.pc = "watch" /\ child.status = "running" /\ ~child.lost
  BY DEF Init, Child
<1>2. TypeOK
  BY <1>1, IdleFacts DEF Init, TypeOK
<1>3. ChildInv /\ OutcomeInv /\ StopInv
  BY <1>1, IdleFacts DEF Init, ChildInv, OutcomeInv, StopInv
<1>4. CoreInv /\ ReportInv
  BY <1>1 DEF Init, CoreInv, Succeeding, ReportInv, RemovedOnlyWhenDead,
              GracefulMeansJoined, CleanStopIsNotForced, FailureIsProven
<1> QED BY <1>2, <1>3, <1>4 DEF IInv

-----------------------------------------------------------------------------
(* The desktop's steps.  Each lemma says first when the step is taken and  *)
(* what it leaves alone (<1>a) and what it changes (<1>b).                 *)

\* A stop that returned has no flags.
LEMMA IdleStop ==
  ASSUME stop' = Idle
  PROVE  /\ stop' \in StopCall /\ stop'.pc = "idle"
         /\ ~stop'.received /\ ~stop'.unasked /\ ~stop'.attested
         /\ ~stop'.proven /\ ~stop'.expired
BY IdleFacts

\* A stop that moves on keeps its flags.
LEMMA MovesFacts ==
  ASSUME NEW s \in StopCall, NEW pc \in {"clear", "ask", "force", "look", "check"},
         stop' = [s EXCEPT !.pc = pc]
  PROVE  /\ stop' \in StopCall /\ stop'.pc = pc
         /\ stop'.received = s.received /\ stop'.unasked = s.unasked
         /\ stop'.attested = s.attested /\ stop'.proven = s.proven
         /\ stop'.expired = s.expired
BY DEF StopCall, Looping

LEMMA ParentEndsInv == ASSUME IInv, ParentEnds PROVE IInv'
<1>a. /\ parent' = "gone" /\ stop' = Idle
      /\ UNCHANGED <<report, held, request, outcome, child, job>>
  BY DEF ParentEnds
<1>b. /\ stop' \in StopCall /\ stop'.pc = "idle"
      /\ ~stop'.received /\ ~stop'.unasked /\ ~stop'.attested
      /\ ~stop'.proven /\ ~stop'.expired
  BY <1>a, IdleStop
<1>1. TypeOK'
  BY <1>a, <1>b DEF IInv, TypeOK, Ended, Outcomes
<1>2. ChildInv'
  BY <1>a, <1>b DEF IInv, ChildInv, OwnsCore, Terminal, Ended
<1>3. OutcomeInv'
  BY <1>a, <1>b DEF IInv, OutcomeInv, ChildInv, Answered, Terminal
<1>4. StopInv'
  BY <1>a, <1>b DEF IInv, StopInv, ChildInv, OwnsCore, Answered, Terminal, Alive,
     Looping
<1>5. CoreInv'
  BY <1>a, <1>b DEF IInv, CoreInv, StopInv, ChildInv, OwnsCore, Asking, Succeeding,
     Committed, Answered, Looping
<1>6. ReportInv'
  BY <1>a, <1>b DEF IInv, ReportInv, RemovedOnlyWhenDead, GracefulMeansJoined,
     CleanStopIsNotForced, FailureIsProven, StopInv, ChildInv, CoreInv, OwnsCore,
     Terminal, Alive, Succeeding, Asking, Looping
<1> QED BY <1>1, <1>2, <1>3, <1>4, <1>5, <1>6 DEF IInv

LEMMA StopBeginInv == ASSUME IInv, StopBegin PROVE IInv'
<1>a. /\ parent = "up" /\ held /\ stop.pc = "idle" /\ UNCHANGED <<parent, child, job>>
  BY DEF StopBegin
<1>b. /\ stop' \in StopCall
      /\ ~stop'.received /\ ~stop'.unasked /\ ~stop'.attested
      /\ ~stop'.proven /\ ~stop'.expired
      /\ \/ /\ ~Alive /\ stop'.pc = "idle" /\ report' = "already"
            /\ held' = FALSE /\ request' = FALSE /\ outcome' = "none"
         \/ Alive /\ stop'.pc = "clear" /\ UNCHANGED <<report, held, request, outcome>>
  <2>1. CASE ~Alive /\ Report("already")
    BY <2>1, IdleStop DEF Report
  <2>2. CASE /\ Alive /\ stop' = [Idle EXCEPT !.pc = "clear"]
             /\ UNCHANGED <<report, held, request, outcome>>
    BY <2>2, IdleFacts, MovesFacts
  <2> QED BY <2>1, <2>2 DEF StopBegin
<1>1. TypeOK'
  BY <1>a, <1>b DEF IInv, TypeOK, Ended, Outcomes
<1>2. ChildInv'
  BY <1>a, <1>b DEF IInv, ChildInv, OwnsCore, Terminal, Ended
<1>3. OutcomeInv'
  BY <1>a, <1>b DEF IInv, OutcomeInv, ChildInv, Answered, Terminal
<1>4. StopInv'
  BY <1>a, <1>b DEF IInv, StopInv, ChildInv, OwnsCore, Answered, Terminal, Alive,
     Looping
<1>5. CoreInv'
  BY <1>a, <1>b DEF IInv, CoreInv, StopInv, ChildInv, OwnsCore, Asking, Succeeding,
     Committed, Answered, Looping
<1>6. ReportInv'
  BY <1>a, <1>b DEF IInv, ReportInv, RemovedOnlyWhenDead, GracefulMeansJoined,
     CleanStopIsNotForced, FailureIsProven, StopInv, ChildInv, CoreInv, OwnsCore,
     Terminal, Alive, Succeeding, Asking, Looping
<1> QED BY <1>1, <1>2, <1>3, <1>4, <1>5, <1>6 DEF IInv

LEMMA ClearControlInv == ASSUME IInv, ClearControl PROVE IInv'
<1>a. /\ stop.pc = "clear" /\ request' = FALSE /\ outcome' = "none"
      /\ stop' = [stop EXCEPT !.pc = "ask"] /\ stop \in StopCall
      /\ UNCHANGED <<parent, report, held, child, job>>
  BY DEF ClearControl, IInv, TypeOK
<1>b. /\ stop' \in StopCall /\ stop'.pc = "ask"
      /\ stop'.received = stop.received /\ stop'.unasked = stop.unasked
      /\ stop'.attested = stop.attested /\ stop'.proven = stop.proven
      /\ stop'.expired = stop.expired
  BY <1>a, MovesFacts
<1>1. TypeOK'
  BY <1>a, <1>b DEF IInv, TypeOK, Ended, Outcomes
<1>2. ChildInv'
  BY <1>a, <1>b DEF IInv, ChildInv, OwnsCore, Terminal, Ended
<1>3. OutcomeInv'
  BY <1>a, <1>b DEF IInv, OutcomeInv, ChildInv, Answered, Terminal
<1>4. StopInv'
  BY <1>a, <1>b DEF IInv, StopInv, ChildInv, OwnsCore, Answered, Terminal, Alive,
     Looping
<1>5. CoreInv'
  BY <1>a, <1>b DEF IInv, CoreInv, StopInv, ChildInv, OwnsCore, Asking, Succeeding,
     Committed, Answered, Looping
<1>6. ReportInv'
  BY <1>a, <1>b DEF IInv, ReportInv, RemovedOnlyWhenDead, GracefulMeansJoined,
     CleanStopIsNotForced, FailureIsProven, StopInv, ChildInv, CoreInv, OwnsCore,
     Terminal, Alive, Succeeding, Asking, Looping
<1> QED BY <1>1, <1>2, <1>3, <1>4, <1>5, <1>6 DEF IInv

LEMMA AskStopInv == ASSUME IInv, AskStop PROVE IInv'
<1>a. /\ stop.pc = "ask" /\ stop \in StopCall
      /\ UNCHANGED <<parent, report, held, outcome, child, job>>
  BY DEF AskStop, IInv, TypeOK
<1>b. /\ stop' \in StopCall /\ stop'.pc = "look" /\ stop'.attested = stop.attested
      /\ stop'.proven = stop.proven /\ stop'.expired = stop.expired
      /\ \/ /\ request' = TRUE
            /\ stop'.received = stop.received /\ stop'.unasked = stop.unasked
         \/ request' = request /\ stop'.received = OwnsCore /\ stop'.unasked
  <2>1. CASE request' = TRUE /\ stop' = [stop EXCEPT !.pc = "look"]
    BY <1>a, <2>1, MovesFacts
  <2>2. CASE /\ stop' = [stop EXCEPT !.pc = "look", !.unasked = TRUE, !.received = OwnsCore]
             /\ UNCHANGED request
    <3>1. ASSUME NEW b \in BOOLEAN,
                 stop' = [stop EXCEPT !.pc = "look", !.unasked = TRUE, !.received = b]
          PROVE  /\ stop' \in StopCall /\ stop'.pc = "look"
                 /\ stop'.attested = stop.attested /\ stop'.proven = stop.proven
                 /\ stop'.expired = stop.expired /\ stop'.received = b /\ stop'.unasked
      BY <1>a, <3>1 DEF StopCall, Looping
    <3>2. OwnsCore \in BOOLEAN
      BY DEF OwnsCore
    <3> QED BY <2>2, <3>1, <3>2
  <2> QED BY <2>1, <2>2 DEF AskStop
<1>1. TypeOK'
  BY <1>a, <1>b DEF IInv, TypeOK, Ended, Outcomes
<1>2. ChildInv'
  BY <1>a, <1>b DEF IInv, ChildInv, OwnsCore, Terminal, Ended
<1>3. OutcomeInv'
  BY <1>a, <1>b DEF IInv, OutcomeInv, ChildInv, Answered, Terminal
<1>4. StopInv'
  BY <1>a, <1>b DEF IInv, StopInv, ChildInv, OwnsCore, Answered, Terminal, Alive,
     Looping
<1>5. CoreInv'
  BY <1>a, <1>b DEF IInv, CoreInv, StopInv, ChildInv, OwnsCore, Asking, Succeeding,
     Committed, Answered, Looping
<1>6. ReportInv'
  BY <1>a, <1>b DEF IInv, ReportInv, RemovedOnlyWhenDead, GracefulMeansJoined,
     CleanStopIsNotForced, FailureIsProven, StopInv, ChildInv, CoreInv, OwnsCore,
     Terminal, Alive, Succeeding, Asking, Looping
<1> QED BY <1>1, <1>2, <1>3, <1>4, <1>5, <1>6 DEF IInv

LEMMA DeadlinePassesInv == ASSUME IInv, DeadlinePasses PROVE IInv'
<1>a. /\ child.kind # "core" /\ stop.pc \in Looping /\ stop \in StopCall
      /\ stop' = [stop EXCEPT !.expired = TRUE]
      /\ UNCHANGED <<parent, report, held, request, outcome, child, job>>
  BY DEF DeadlinePasses, OwnsCore, IInv, TypeOK
<1>b. /\ stop' \in StopCall /\ stop'.pc = stop.pc
      /\ stop'.received = stop.received /\ stop'.unasked = stop.unasked
      /\ stop'.attested = stop.attested /\ stop'.proven = stop.proven
  BY <1>a DEF StopCall
<1>1. TypeOK'
  BY <1>a, <1>b DEF IInv, TypeOK, Ended, Outcomes
<1>2. ChildInv'
  BY <1>a, <1>b DEF IInv, ChildInv, OwnsCore, Terminal, Ended
<1>3. OutcomeInv'
  BY <1>a, <1>b DEF IInv, OutcomeInv, ChildInv, Answered, Terminal
<1>4. StopInv'
  BY <1>a, <1>b DEF IInv, StopInv, ChildInv, OwnsCore, Answered, Terminal, Alive,
     Looping
<1>5. CoreInv'
  BY <1>a, <1>b DEF IInv, CoreInv, StopInv, ChildInv, OwnsCore, Asking, Succeeding,
     Committed, Answered, Looping
<1>6. ReportInv'
  BY <1>a, <1>b DEF IInv, ReportInv, RemovedOnlyWhenDead, GracefulMeansJoined,
     CleanStopIsNotForced, FailureIsProven, StopInv, ChildInv, CoreInv, OwnsCore,
     Terminal, Alive, Succeeding, Asking, Looping
<1> QED BY <1>1, <1>2, <1>3, <1>4, <1>5, <1>6 DEF IInv

LEMMA LookForOutcomeInv == ASSUME IInv, LookForOutcome PROVE IInv'
<1>a. /\ stop.pc = "look" /\ stop \in StopCall
      /\ UNCHANGED <<parent, report, held, request, child, job>>
  BY DEF LookForOutcome, IInv, TypeOK
<1>b. /\ stop' \in StopCall
      /\ stop'.unasked = stop.unasked /\ stop'.expired = stop.expired
      /\ \/ /\ GoesOn /\ stop'.pc = "check" /\ outcome' = "none"
            /\ stop'.received = Heard.received /\ stop'.attested = Heard.attested
            /\ stop'.proven = Heard.proven
         \/ /\ ~GoesOn /\ stop'.pc = "force" /\ outcome' = outcome
            /\ stop'.received = stop.received /\ stop'.attested = stop.attested
            /\ stop'.proven = stop.proven
  <2>1. CASE GoesOn
    <3>1. stop' = [Heard EXCEPT !.pc = "check"] /\ outcome' = "none"
      BY <2>1 DEF LookForOutcome
    <3>2. Heard \in StopCall /\ Heard.unasked = stop.unasked /\ Heard.expired = stop.expired
      BY HeardFacts
    <3> QED BY <2>1, <3>1, <3>2 DEF StopCall, Looping
  <2>2. CASE ~GoesOn
    <3>1. stop' = [stop EXCEPT !.pc = "force"] /\ outcome' = outcome
      BY <2>2 DEF LookForOutcome
    <3> QED BY <1>a, <2>2, <3>1 DEF StopCall
  <2> QED BY <2>1, <2>2
<1>c. /\ Heard.received = (stop.received \/ outcome # "none")
      /\ Heard.attested = (stop.attested \/ outcome = "stopped")
      /\ Heard.proven = IF outcome \in {"none", "stopped"} THEN stop.proven
                        ELSE outcome = "failedTerminal"
  BY HeardFacts
<1>d. /\ outcome \in {"none", "stopped", "failedTerminal", "failedOpen"}
      /\ stop.attested \in BOOLEAN /\ stop.received \in BOOLEAN
      /\ stop.proven \in BOOLEAN /\ stop.unasked \in BOOLEAN /\ stop.expired \in BOOLEAN
  BY <1>a DEF IInv, TypeOK, Outcomes, StopCall
<1>1. TypeOK'
  BY <1>a, <1>b DEF IInv, TypeOK, Ended, Outcomes
<1>2. ChildInv'
  BY <1>a, <1>b DEF IInv, ChildInv, OwnsCore, Terminal, Ended
<1>3. OutcomeInv'
  BY <1>a, <1>b DEF IInv, OutcomeInv, ChildInv, Answered, Terminal
<1>4. StopInv'
  <2>1. CASE GoesOn
    BY <1>a, <1>b, <1>c, <1>d, <2>1
    DEF IInv, StopInv, OutcomeInv, OwnsCore, Answered, Terminal, Alive
  <2>2. CASE ~GoesOn
    BY <1>a, <1>b, <1>d, <2>2
    DEF IInv, StopInv, OwnsCore, Answered, Terminal, Alive, GoesOn
  <2> QED BY <2>1, <2>2
<1>5. CoreInv'
  <2>1. CASE GoesOn
    <3>1. stop'.pc = "check" /\ stop'.unasked = stop.unasked
      BY <1>b, <2>1
    <3>2. /\ stop'.received = (stop.received \/ outcome # "none")
          /\ stop'.attested = (stop.attested \/ outcome = "stopped")
      BY <1>b, <1>c, <2>1
    <3>3. outcome \in {"failedTerminal", "failedOpen"} => ~Succeeding
      BY DEF IInv, OutcomeInv, ChildInv, Succeeding, Answered
    <3>4. OwnsCore /\ parent = "up" /\ held /\ Succeeding =>
            /\ Asking /\ (stop'.received => stop'.attested)
            /\ child.status = "success" => stop'.attested
      BY <1>d, <3>2, <3>3 DEF IInv, CoreInv
    <3> QED BY <1>a, <3>1, <3>4
            DEF IInv, CoreInv, OwnsCore, Asking, Succeeding, Committed, Answered, Looping
  <2>2. CASE ~GoesOn
    <3>1. OwnsCore => stop.received /\ ~stop.attested
      BY <2>2 DEF IInv, StopInv, GoesOn
    <3>2. OwnsCore /\ Asking => Committed
      BY <3>1 DEF IInv, StopInv, Asking, Committed
    <3>3. OwnsCore /\ parent = "up" =>
            (request => Committed) /\ ~(held /\ Succeeding)
      BY <3>1, <3>2 DEF IInv, CoreInv
    <3> QED BY <1>a, <3>3 DEF CoreInv, OwnsCore, Asking, Succeeding, Committed, Answered
  <2> QED BY <2>1, <2>2
<1>6. ReportInv'
  BY <1>a, <1>b DEF IInv, ReportInv, RemovedOnlyWhenDead, GracefulMeansJoined,
     CleanStopIsNotForced, FailureIsProven, StopInv, ChildInv, CoreInv, OwnsCore,
     Terminal, Alive, Succeeding, Asking, Looping
<1> QED BY <1>1, <1>2, <1>3, <1>4, <1>5, <1>6 DEF IInv

LEMMA CheckExitInv == ASSUME IInv, CheckExit PROVE IInv'
<1>a. /\ stop.pc = "check" /\ stop \in StopCall /\ UNCHANGED <<parent, child, job>>
  BY DEF CheckExit, IInv, TypeOK
<1> DEFINE heard == IF stop.received THEN stop ELSE Heard
<1>h. /\ heard \in StopCall
      /\ heard.unasked = stop.unasked /\ heard.expired = stop.expired
      /\ heard.attested => heard.received
      /\ heard.received /\ ~heard.attested /\ ~heard.unasked => Answered
      /\ heard.proven => Terminal
      /\ stop.attested \/ (~stop.received /\ outcome = "stopped") => heard.attested
  BY <1>a, HeardFacts DEF IInv, TypeOK, StopInv, OutcomeInv, Outcomes
<1> HIDE DEF heard
<1>b. /\ stop' \in StopCall
      /\ \/ /\ Alive /\ stop'.pc = "look" /\ UNCHANGED <<report, held, request, outcome>>
            /\ stop'.received = stop.received /\ stop'.unasked = stop.unasked
            /\ stop'.attested = stop.attested /\ stop'.proven = stop.proven
            /\ stop'.expired = stop.expired
         \/ /\ ~Alive /\ heard.attested /\ child.status = "success"
            /\ report' = "graceful" /\ held' = FALSE
            /\ request' = FALSE /\ outcome' = "none"
            /\ stop'.pc = "idle" /\ ~stop'.received /\ ~stop'.unasked /\ ~stop'.attested
            /\ ~stop'.proven /\ ~stop'.expired
         \/ /\ ~Alive /\ ~(heard.attested /\ child.status = "success")
            /\ stop'.pc = "force" /\ UNCHANGED <<report, held, request>>
            /\ outcome' \in {outcome, "none"}
            /\ stop'.received = heard.received /\ stop'.unasked = heard.unasked
            /\ stop'.attested = heard.attested /\ stop'.proven = heard.proven
            /\ stop'.expired = heard.expired
  <2>1. CASE /\ Alive /\ stop' = [stop EXCEPT !.pc = "look"]
             /\ UNCHANGED <<report, held, request, outcome>>
    BY <1>a, <2>1, MovesFacts
  <2>2. CASE ~Alive /\ heard.attested /\ child.status = "success" /\ Report("graceful")
    BY <2>2, IdleStop DEF Report
  <2>3. CASE /\ ~Alive /\ ~(heard.attested /\ child.status = "success")
             /\ stop' = [heard EXCEPT !.pc = "force"]
             /\ outcome' \in {outcome, "none"} /\ UNCHANGED <<report, held, request>>
    BY <1>h, <2>3, MovesFacts
  <2> QED BY <2>1, <2>2, <2>3 DEF CheckExit, heard
<1>c. ~Alive => child.pc = "dead" /\ child.status # "running"
  BY DEF IInv, ChildInv, Alive
<1>1. CASE \/ /\ Alive /\ stop'.pc = "look" /\ UNCHANGED <<report, held, request, outcome>>
          /\ stop'.received = stop.received /\ stop'.unasked = stop.unasked
          /\ stop'.attested = stop.attested /\ stop'.proven = stop.proven
          /\ stop'.expired = stop.expired
  <2>1. TypeOK'
    BY <1>a, <1>b, <1>1
    DEF IInv, TypeOK, Ended, Outcomes
  <2>2. ChildInv'
    BY <1>a, <1>1
    DEF IInv, ChildInv, OwnsCore, Terminal, Ended
  <2>3. OutcomeInv'
    BY <1>a, <1>c, <1>1
    DEF IInv, OutcomeInv, ChildInv, Answered, Terminal
  <2>4. StopInv'
    BY <1>a, <1>c, <1>1
    DEF IInv, StopInv, ChildInv, OwnsCore, Answered, Terminal, Alive,
          Looping
  <2>5. CoreInv'
    BY <1>a, <1>c, <1>1
    DEF IInv, CoreInv, StopInv, ChildInv, OwnsCore, Asking, Succeeding,
          Committed, Answered, Looping
  <2>6. ReportInv'
    BY <1>a, <1>c, <1>1
    DEF IInv, ReportInv, RemovedOnlyWhenDead, GracefulMeansJoined,
          CleanStopIsNotForced, FailureIsProven, StopInv, ChildInv, CoreInv, OwnsCore,
          Terminal, Alive, Succeeding, Asking, Looping
  <2> QED BY <2>1, <2>2, <2>3, <2>4, <2>5, <2>6 DEF IInv
<1>2. CASE /\ ~Alive /\ heard.attested /\ child.status = "success"
          /\ report' = "graceful" /\ held' = FALSE
          /\ request' = FALSE /\ outcome' = "none"
          /\ stop'.pc = "idle" /\ ~stop'.received /\ ~stop'.unasked /\ ~stop'.attested
          /\ ~stop'.proven /\ ~stop'.expired
  <2>1. TypeOK'
    BY <1>a, <1>b, <1>2
    DEF IInv, TypeOK, Ended, Outcomes
  <2>2. ChildInv'
    BY <1>a, <1>2
    DEF IInv, ChildInv, OwnsCore, Terminal, Ended
  <2>3. OutcomeInv'
    BY <1>a, <1>c, <1>2
    DEF IInv, OutcomeInv, ChildInv, Answered, Terminal
  <2>4. StopInv'
    BY <1>a, <1>c, <1>2
    DEF IInv, StopInv, ChildInv, OwnsCore, Answered, Terminal, Alive,
          Looping
  <2>5. CoreInv'
    BY <1>a, <1>c, <1>2
    DEF IInv, CoreInv, StopInv, ChildInv, OwnsCore, Asking, Succeeding,
          Committed, Answered, Looping
  <2>6. ReportInv'
    BY <1>a, <1>c, <1>2
    DEF IInv, ReportInv, RemovedOnlyWhenDead, GracefulMeansJoined,
          CleanStopIsNotForced, FailureIsProven, StopInv, ChildInv, CoreInv, OwnsCore,
          Terminal, Alive, Succeeding, Asking, Looping
  <2> QED BY <2>1, <2>2, <2>3, <2>4, <2>5, <2>6 DEF IInv
<1>3. CASE /\ ~Alive /\ ~(heard.attested /\ child.status = "success")
          /\ stop'.pc = "force" /\ UNCHANGED <<report, held, request>>
          /\ outcome' \in {outcome, "none"}
          /\ stop'.received = heard.received /\ stop'.unasked = heard.unasked
          /\ stop'.attested = heard.attested /\ stop'.proven = heard.proven
          /\ stop'.expired = heard.expired
  <2>1. TypeOK'
    BY <1>a, <1>b, <1>3, <1>h
    DEF IInv, TypeOK, Ended, Outcomes
  <2>2. ChildInv'
    BY <1>a, <1>3, <1>h
    DEF IInv, ChildInv, OwnsCore, Terminal, Ended
  <2>3. OutcomeInv'
    BY <1>a, <1>c, <1>3, <1>h
    DEF IInv, OutcomeInv, ChildInv, Answered, Terminal
  <2>4. StopInv'
    BY <1>a, <1>c, <1>3, <1>h
    DEF IInv, StopInv, ChildInv, OwnsCore, Answered, Terminal, Alive,
          Looping
  <2>5. CoreInv'
    <3>1. /\ parent = "up" /\ held /\ child.pc = "dead"
          /\ child.status \in {"success", "failure", "killed"}
      BY <1>a, <1>c, <1>3 DEF IInv, TypeOK, Child, StopInv
    <3>2. OwnsCore /\ child.status = "success" => heard.attested
      BY <1>h, <3>1 DEF IInv, CoreInv, Succeeding
    <3>3. OwnsCore => child.status \in {"failure", "killed"}
      BY <1>3, <3>1, <3>2
    <3> QED BY <1>a, <1>3, <3>1, <3>3 DEF CoreInv, OwnsCore, Succeeding, Committed, Answered
  <2>6. ReportInv'
    BY <1>a, <1>c, <1>3, <1>h
    DEF IInv, ReportInv, RemovedOnlyWhenDead, GracefulMeansJoined,
          CleanStopIsNotForced, FailureIsProven, StopInv, ChildInv, CoreInv, OwnsCore,
          Terminal, Alive, Succeeding, Asking, Looping
  <2> QED BY <2>1, <2>2, <2>3, <2>4, <2>5, <2>6 DEF IInv
<1> QED BY <1>b, <1>1, <1>2, <1>3

LEMMA ReportFailureInv == ASSUME IInv, ReportFailure PROVE IInv'
<1>a. /\ stop.pc = "force" /\ stop.proven /\ ~Alive /\ UNCHANGED <<parent, child, job>>
      /\ stop' = Idle /\ report' = "failed" /\ held' = FALSE
      /\ request' = FALSE /\ outcome' = "none"
  BY DEF ReportFailure, Report
<1>b. /\ stop' \in StopCall /\ stop'.pc = "idle"
      /\ ~stop'.received /\ ~stop'.unasked /\ ~stop'.attested
      /\ ~stop'.proven /\ ~stop'.expired
  BY <1>a, IdleStop
<1>1. TypeOK'
  BY <1>a, <1>b DEF IInv, TypeOK, Ended, Outcomes
<1>2. ChildInv'
  BY <1>a, <1>b DEF IInv, ChildInv, OwnsCore, Terminal, Ended
<1>3. OutcomeInv'
  BY <1>a, <1>b DEF IInv, OutcomeInv, ChildInv, Answered, Terminal
<1>4. StopInv'
  BY <1>a, <1>b DEF IInv, StopInv, ChildInv, OwnsCore, Answered, Terminal, Alive,
     Looping
<1>5. CoreInv'
  BY <1>a, <1>b DEF IInv, CoreInv, StopInv, ChildInv, OwnsCore, Asking, Succeeding,
     Committed, Answered, Looping
<1>6. ReportInv'
  BY <1>a, <1>b DEF IInv, ReportInv, RemovedOnlyWhenDead, GracefulMeansJoined,
     CleanStopIsNotForced, FailureIsProven, StopInv, ChildInv, CoreInv, OwnsCore,
     Terminal, Alive, Succeeding, Asking, Looping
<1> QED BY <1>1, <1>2, <1>3, <1>4, <1>5, <1>6 DEF IInv

LEMMA ForceStopInv == ASSUME IInv, ForceStop PROVE IInv'
<1>a. /\ stop.pc = "force" /\ child \in Child /\ UNCHANGED parent
      /\ stop' = Idle /\ report' = "forced" /\ held' = FALSE
      /\ request' = FALSE /\ outcome' = "none"
      /\ job' = IF Alive /\ job = "running" THEN "none" ELSE job
  BY DEF ForceStop, Report, IInv, TypeOK
<1>b. /\ stop' \in StopCall /\ stop'.pc = "idle"
      /\ ~stop'.received /\ ~stop'.unasked /\ ~stop'.attested
      /\ ~stop'.proven /\ ~stop'.expired
      /\ child' \in Child /\ child'.kind = child.kind /\ child'.lost = child.lost
      /\ child'.verdict = child.verdict /\ child'.pc = "dead"
      /\ child'.status = IF Alive THEN "killed" ELSE child.status
  <2>1. CASE Alive
    <3>1. child' = [child EXCEPT !.pc = "dead", !.status = "killed"]
      BY <2>1 DEF ForceStop
    <3>2. /\ child' \in Child /\ child'.kind = child.kind /\ child'.lost = child.lost
          /\ child'.verdict = child.verdict /\ child'.pc = "dead" /\ child'.status = "killed"
      BY <1>a, <3>1 DEF Child
    <3> QED BY <1>a, <2>1, <3>2, IdleStop
  <2>2. CASE ~Alive
    <3>1. child' = child
      BY <2>2 DEF ForceStop
    <3> QED BY <1>a, <2>2, <3>1, IdleStop DEF Alive
  <2> QED BY <2>1, <2>2
<1>1. TypeOK'
  BY <1>a, <1>b DEF IInv, TypeOK, Ended, Outcomes
<1>2. ChildInv'
  <2>1. CASE Alive
    BY <1>a, <1>b, <2>1
       DEF IInv, ChildInv, OwnsCore, Terminal, Ended, Alive
  <2>2. CASE ~Alive
    BY <1>a, <1>b, <2>2
       DEF IInv, ChildInv, OwnsCore, Terminal, Ended, Alive
  <2> QED BY <2>1, <2>2
<1>3. OutcomeInv'
  BY <1>a, <1>b DEF IInv, OutcomeInv, ChildInv, Answered, Terminal
<1>4. StopInv'
  BY <1>a, <1>b DEF IInv, StopInv, ChildInv, OwnsCore, Answered, Terminal, Alive,
     Looping
<1>5. CoreInv'
  BY <1>a, <1>b DEF IInv, CoreInv, StopInv, ChildInv, OwnsCore, Asking, Succeeding,
     Committed, Answered, Looping
<1>6. ReportInv'
  BY <1>a, <1>b DEF IInv, ReportInv, RemovedOnlyWhenDead, GracefulMeansJoined,
     CleanStopIsNotForced, FailureIsProven, StopInv, ChildInv, CoreInv, OwnsCore,
     Terminal, Alive, Succeeding, Asking, Looping
<1> QED BY <1>1, <1>2, <1>3, <1>4, <1>5, <1>6 DEF IInv

LEMMA ForceFailsInv == ASSUME IInv, ForceFails PROVE IInv'
<1>a. /\ stop.pc = "force" /\ stop' = Idle /\ report' = "error"
      /\ UNCHANGED <<parent, held, request, outcome, child, job>> /\ Alive
  BY DEF ForceFails
<1>b. /\ stop' \in StopCall /\ stop'.pc = "idle"
      /\ ~stop'.received /\ ~stop'.unasked /\ ~stop'.attested
      /\ ~stop'.proven /\ ~stop'.expired
  BY <1>a, IdleStop
<1>1. TypeOK'
  BY <1>a, <1>b DEF IInv, TypeOK, Ended, Outcomes
<1>2. ChildInv'
  BY <1>a, <1>b DEF IInv, ChildInv, OwnsCore, Terminal, Ended
<1>3. OutcomeInv'
  BY <1>a, <1>b DEF IInv, OutcomeInv, ChildInv, Answered, Terminal
<1>4. StopInv'
  BY <1>a, <1>b DEF IInv, StopInv, ChildInv, OwnsCore, Answered, Terminal, Alive,
     Looping
<1>5. CoreInv'
  BY <1>a, <1>b DEF IInv, CoreInv, StopInv, ChildInv, OwnsCore, Asking, Succeeding,
     Committed, Answered, Looping
<1>6. ReportInv'
  BY <1>a, <1>b DEF IInv, ReportInv, RemovedOnlyWhenDead, GracefulMeansJoined,
     CleanStopIsNotForced, FailureIsProven, StopInv, ChildInv, CoreInv, OwnsCore,
     Terminal, Alive, Succeeding, Asking, Looping
<1> QED BY <1>1, <1>2, <1>3, <1>4, <1>5, <1>6 DEF IInv

-----------------------------------------------------------------------------
(* The worker's steps, laid out in the same way.                           *)

LEMMA SeeStopOrLossInv == ASSUME IInv, SeeStopOrLoss PROVE IInv'
<1>a. /\ child \in Child /\ child.pc = "watch" /\ ChildGoes("confirm")
      /\ UNCHANGED <<parent, stop, report, held, request, outcome, job>>
      /\ request \/ parent = "gone"
  BY DEF SeeStopOrLoss, IInv, TypeOK
<1>b. /\ child' \in Child /\ child'.pc = "confirm" /\ child'.kind = child.kind
      /\ child'.status = child.status /\ child'.lost = child.lost
      /\ child'.verdict = child.verdict
  BY <1>a, GoesFacts
<1>1. TypeOK'
  BY <1>a, <1>b DEF IInv, TypeOK, Ended, Outcomes
<1>2. ChildInv'
  BY <1>a, <1>b DEF IInv, ChildInv, OwnsCore, Terminal, Ended
<1>3. OutcomeInv'
  BY <1>a, <1>b DEF IInv, OutcomeInv, ChildInv, Answered, Terminal
<1>4. StopInv'
  BY <1>a, <1>b DEF IInv, StopInv, ChildInv, OwnsCore, Answered, Terminal, Alive,
     Looping
<1>5. CoreInv'
  BY <1>a, <1>b DEF IInv, CoreInv, StopInv, ChildInv, OwnsCore, Asking, Succeeding,
     Committed, Answered, Looping
<1>6. ReportInv'
  BY <1>a, <1>b DEF IInv, ReportInv, RemovedOnlyWhenDead, GracefulMeansJoined,
     CleanStopIsNotForced, FailureIsProven, StopInv, ChildInv, CoreInv, OwnsCore,
     Terminal, Alive, Succeeding, Asking, Looping
<1> QED BY <1>1, <1>2, <1>3, <1>4, <1>5, <1>6 DEF IInv

LEMMA RuntimeFailsInv == ASSUME IInv, RuntimeFails PROVE IInv'
<1>a. /\ child \in Child /\ child.pc = "watch" /\ child.status = "running"
      /\ job = "none" /\ job' \in {"none", "running"}
      /\ UNCHANGED <<parent, stop, report, held, request, outcome>>
  BY DEF RuntimeFails, IInv, TypeOK, ChildInv
<1>b. /\ child' \in Child /\ child'.kind = child.kind /\ child'.lost = child.lost
      /\ child'.status = child.status
      /\ \/ child'.pc = "cleanup" /\ job' = "running"
         \/ child'.pc = "publishCleanup" /\ child'.verdict = "failedOpen" /\ job' = job
  <2>1. CASE ChildGoes("cleanup") /\ job' = "running"
    BY <1>a, <2>1, GoesFacts
  <2>2. CASE /\ child' = [child EXCEPT !.pc = "publishCleanup", !.verdict = "failedOpen"]
             /\ UNCHANGED job
    BY <1>a, <2>2, PublishesFacts
  <2> QED BY <2>1, <2>2 DEF RuntimeFails
<1>1. TypeOK'
  BY <1>a, <1>b DEF IInv, TypeOK, Ended, Outcomes
<1>2. ChildInv'
  BY <1>a, <1>b DEF IInv, ChildInv, OwnsCore, Terminal, Ended
<1>3. OutcomeInv'
  BY <1>a, <1>b DEF IInv, OutcomeInv, ChildInv, Answered, Terminal
<1>4. StopInv'
  BY <1>a, <1>b DEF IInv, StopInv, ChildInv, OwnsCore, Answered, Terminal, Alive,
     Looping
<1>5. CoreInv'
  BY <1>a, <1>b DEF IInv, CoreInv, StopInv, ChildInv, OwnsCore, Asking, Succeeding,
     Committed, Answered, Looping
<1>6. ReportInv'
  BY <1>a, <1>b DEF IInv, ReportInv, RemovedOnlyWhenDead, GracefulMeansJoined,
     CleanStopIsNotForced, FailureIsProven, StopInv, ChildInv, CoreInv, OwnsCore,
     Terminal, Alive, Succeeding, Asking, Looping
<1> QED BY <1>1, <1>2, <1>3, <1>4, <1>5, <1>6 DEF IInv

LEMMA StartShutdownInv == ASSUME IInv, StartShutdown PROVE IInv'
<1>a. /\ child \in Child /\ child.pc = "confirm" /\ child.status = "running"
      /\ job = "none" /\ request' = FALSE /\ request \in BOOLEAN
      /\ request \/ parent = "gone"
      /\ UNCHANGED <<parent, stop, report, held, outcome>>
  BY DEF StartShutdown, IInv, TypeOK, ChildInv
<1>b. /\ child' \in Child /\ child'.kind = child.kind /\ child'.status = "running"
      /\ child'.lost = ~request
      /\ \/ child'.pc = "shutdown" /\ job' = "running"
         \/ child'.pc = "publishFailed" /\ child'.verdict = "failedOpen" /\ job' = job
  <2> DEFINE b == ~request
  <2>1. b \in BOOLEAN
    OBVIOUS
  <2>2. \/ child' = [child EXCEPT !.pc = "shutdown", !.lost = b] /\ job' = "running"
        \/ /\ child' = [child EXCEPT !.pc = "publishFailed", !.lost = b,
                                     !.verdict = "failedOpen"]
           /\ job' = job
    BY DEF StartShutdown
  <2> HIDE DEF b
  <2>3. /\ child' \in Child /\ child'.kind = child.kind /\ child'.status = "running"
        /\ child'.lost = b
        /\ \/ child'.pc = "shutdown" /\ job' = "running"
           \/ child'.pc = "publishFailed" /\ child'.verdict = "failedOpen" /\ job' = job
    BY <1>a, <2>1, <2>2 DEF Child
  <2> QED BY <2>3 DEF b
<1>1. TypeOK'
  BY <1>a, <1>b DEF IInv, TypeOK, Ended, Outcomes
<1>2. ChildInv'
  BY <1>a, <1>b DEF IInv, ChildInv, OwnsCore, Terminal, Ended
<1>3. OutcomeInv'
  BY <1>a, <1>b DEF IInv, OutcomeInv, ChildInv, Answered, Terminal
<1>4. StopInv'
  BY <1>a, <1>b DEF IInv, StopInv, ChildInv, OwnsCore, Answered, Terminal, Alive,
     Looping
<1>5. CoreInv'
  BY <1>a, <1>b DEF IInv, CoreInv, StopInv, ChildInv, OwnsCore, Asking, Succeeding,
     Committed, Answered, Looping
<1>6. ReportInv'
  BY <1>a, <1>b DEF IInv, ReportInv, RemovedOnlyWhenDead, GracefulMeansJoined,
     CleanStopIsNotForced, FailureIsProven, StopInv, ChildInv, CoreInv, OwnsCore,
     Terminal, Alive, Succeeding, Asking, Looping
<1> QED BY <1>1, <1>2, <1>3, <1>4, <1>5, <1>6 DEF IInv

LEMMA JobEndsInv == ASSUME IInv, JobEnds PROVE IInv'
<1>a. /\ job = "running" /\ job' \in Ended
      /\ UNCHANGED <<parent, stop, report, held, request, outcome, child>>
  BY DEF JobEnds
<1>b. Terminal => job # "running"
  BY DEF Terminal
<1>1. TypeOK'
  BY <1>a, <1>b DEF IInv, TypeOK, Ended, Outcomes
<1>2. ChildInv'
  BY <1>a, <1>b DEF IInv, ChildInv, OwnsCore, Terminal, Ended
<1>3. OutcomeInv'
  BY <1>a, <1>b DEF IInv, OutcomeInv, ChildInv, Answered, Terminal
<1>4. StopInv'
  BY <1>a, <1>b DEF IInv, StopInv, ChildInv, OwnsCore, Answered, Terminal, Alive,
     Looping
<1>5. CoreInv'
  BY <1>a, <1>b DEF IInv, CoreInv, StopInv, ChildInv, OwnsCore, Asking, Succeeding,
     Committed, Answered, Looping
<1>6. ReportInv'
  BY <1>a, <1>b DEF IInv, ReportInv, RemovedOnlyWhenDead, GracefulMeansJoined,
     CleanStopIsNotForced, FailureIsProven, StopInv, ChildInv, CoreInv, OwnsCore,
     Terminal, Alive, Succeeding, Asking, Looping
<1> QED BY <1>1, <1>2, <1>3, <1>4, <1>5, <1>6 DEF IInv

LEMMA NoticeLossInv == ASSUME IInv, NoticeLoss PROVE IInv'
<1>a. /\ child \in Child /\ child.pc \in {"shutdown", "cleanup"} /\ parent = "gone"
      /\ child' = [child EXCEPT !.lost = TRUE]
      /\ UNCHANGED <<parent, stop, report, held, request, outcome, job>>
  BY DEF NoticeLoss, IInv, TypeOK
<1>b. /\ child' \in Child /\ child'.pc = child.pc /\ child'.kind = child.kind
      /\ child'.status = child.status /\ child'.verdict = child.verdict
  BY <1>a DEF Child
<1>1. TypeOK'
  BY <1>a, <1>b DEF IInv, TypeOK, Ended, Outcomes
<1>2. ChildInv'
  BY <1>a, <1>b DEF IInv, ChildInv, OwnsCore, Terminal, Ended
<1>3. OutcomeInv'
  BY <1>a, <1>b DEF IInv, OutcomeInv, ChildInv, Answered, Terminal
<1>4. StopInv'
  BY <1>a, <1>b DEF IInv, StopInv, ChildInv, OwnsCore, Answered, Terminal, Alive,
     Looping
<1>5. CoreInv'
  BY <1>a, <1>b DEF IInv, CoreInv, StopInv, ChildInv, OwnsCore, Asking, Succeeding,
     Committed, Answered, Looping
<1>6. ReportInv'
  BY <1>a, <1>b DEF IInv, ReportInv, RemovedOnlyWhenDead, GracefulMeansJoined,
     CleanStopIsNotForced, FailureIsProven, StopInv, ChildInv, CoreInv, OwnsCore,
     Terminal, Alive, Succeeding, Asking, Looping
<1> QED BY <1>1, <1>2, <1>3, <1>4, <1>5, <1>6 DEF IInv

LEMMA BudgetEndsInv == ASSUME IInv, BudgetEnds PROVE IInv'
<1>a. /\ child \in Child /\ child.kind # "core"
      /\ child.pc \in {"shutdown", "cleanup"} /\ job = "running"
      /\ UNCHANGED <<parent, stop, report, held, request, outcome, job>>
  BY DEF BudgetEnds, OwnsCore, IInv, TypeOK
<1>b. /\ child' \in Child /\ child'.kind = child.kind /\ child'.lost = child.lost
      /\ \/ child.lost /\ child'.pc = "leave" /\ child'.status = "failure"
         \/ /\ ~child.lost /\ child'.status = child.status
            /\ child'.verdict = "failedOpen"
            /\ child'.pc \in {"publishCleanup", "publishFailed"}
  BY <1>a, ConcludesFacts DEF BudgetEnds
<1>1. TypeOK'
  BY <1>a, <1>b DEF IInv, TypeOK, Ended, Outcomes
<1>2. ChildInv'
  BY <1>a, <1>b DEF IInv, ChildInv, OwnsCore, Terminal, Ended
<1>3. OutcomeInv'
  BY <1>a, <1>b DEF IInv, OutcomeInv, ChildInv, Answered, Terminal
<1>4. StopInv'
  BY <1>a, <1>b DEF IInv, StopInv, ChildInv, OwnsCore, Answered, Terminal, Alive,
     Looping
<1>5. CoreInv'
  BY <1>a, <1>b DEF IInv, CoreInv, StopInv, ChildInv, OwnsCore, Asking, Succeeding,
     Committed, Answered, Looping
<1>6. ReportInv'
  BY <1>a, <1>b DEF IInv, ReportInv, RemovedOnlyWhenDead, GracefulMeansJoined,
     CleanStopIsNotForced, FailureIsProven, StopInv, ChildInv, CoreInv, OwnsCore,
     Terminal, Alive, Succeeding, Asking, Looping
<1> QED BY <1>1, <1>2, <1>3, <1>4, <1>5, <1>6 DEF IInv

LEMMA TakeResultInv == ASSUME IInv, TakeResult PROVE IInv'
<1>a. /\ child \in Child /\ child.pc \in {"shutdown", "cleanup"} /\ job \in Ended
      /\ UNCHANGED <<parent, stop, report, held, request, outcome, job>>
      /\ child.status = "running"
  BY DEF TakeResult, IInv, TypeOK, ChildInv
<1>b. /\ child' \in Child /\ child'.kind = child.kind /\ child'.lost = child.lost
      /\ \/ /\ child.pc = "shutdown" /\ job = "ok"
            /\ \/ child.lost /\ child'.pc = "leave" /\ child'.status = "success"
               \/ ~child.lost /\ child'.pc = "publishStopped" /\ child'.status = child.status
         \/ child.lost /\ child'.pc = "leave" /\ child'.status = "failure"
         \/ /\ ~child.lost /\ child'.status = child.status
            /\ child'.pc = IF child.pc = "cleanup" THEN "publishCleanup" ELSE "publishFailed"
            /\ child'.verdict = "failedTerminal" => Terminal
  <2>1. CASE child.pc = "shutdown" /\ job = "ok"
    <3>1. CASE child.lost /\ Leaves("success")
      BY <1>a, <2>1, <3>1, LeavesFacts
    <3>2. CASE ~child.lost /\ ChildGoes("publishStopped")
      BY <1>a, <2>1, <3>2, GoesFacts
    <3> QED BY <2>1, <3>1, <3>2 DEF TakeResult
  <2>2. CASE ~(child.pc = "shutdown" /\ job = "ok")
    <3> DEFINE v == IF job \in {"ok", "failedTerminal"} THEN "failedTerminal" ELSE "failedOpen"
    <3>1. Concludes(v) /\ v \in {"failedTerminal", "failedOpen"}
          /\ (v = "failedTerminal" => Terminal)
      BY <2>2 DEF TakeResult, Terminal
    <3> HIDE DEF v
    <3>2. /\ child' \in Child /\ child'.kind = child.kind /\ child'.lost = child.lost
          /\ \/ child.lost /\ child'.pc = "leave" /\ child'.status = "failure"
             \/ /\ ~child.lost /\ child'.status = child.status /\ child'.verdict = v
                /\ child'.pc = IF child.pc = "cleanup" THEN "publishCleanup"
                                                      ELSE "publishFailed"
      BY <1>a, <3>1, ConcludesFacts
    <3> QED BY <3>1, <3>2
  <2> QED BY <2>1, <2>2
<1>1. TypeOK'
  BY <1>a, <1>b DEF IInv, TypeOK, Ended, Outcomes
<1>2. ChildInv'
  BY <1>a, <1>b DEF IInv, ChildInv, OwnsCore, Terminal, Ended
<1>3. OutcomeInv'
  BY <1>a, <1>b DEF IInv, OutcomeInv, ChildInv, Answered, Terminal
<1>4. StopInv'
  BY <1>a, <1>b DEF IInv, StopInv, ChildInv, OwnsCore, Answered, Terminal, Alive,
     Looping
<1>5. CoreInv'
  BY <1>a, <1>b DEF IInv, CoreInv, StopInv, ChildInv, OwnsCore, Asking, Succeeding,
     Committed, Answered, Looping
<1>6. ReportInv'
  BY <1>a, <1>b DEF IInv, ReportInv, RemovedOnlyWhenDead, GracefulMeansJoined,
     CleanStopIsNotForced, FailureIsProven, StopInv, ChildInv, CoreInv, OwnsCore,
     Terminal, Alive, Succeeding, Asking, Looping
<1> QED BY <1>1, <1>2, <1>3, <1>4, <1>5, <1>6 DEF IInv

LEMMA PublishStoppedInv == ASSUME IInv, PublishStopped PROVE IInv'
<1>a. /\ child \in Child /\ child.pc = "publishStopped" /\ child.status = "running"
      /\ job = "ok" /\ UNCHANGED <<parent, stop, report, held, request, job>>
  BY DEF PublishStopped, IInv, TypeOK, ChildInv
<1>b. /\ child' \in Child /\ child'.kind = child.kind /\ child'.lost = child.lost
      /\ \/ outcome' = "stopped" /\ child'.pc = "leave" /\ child'.status = "success"
         \/ /\ outcome' = outcome /\ child'.pc = "publishFailed"
            /\ child'.status = child.status /\ child'.verdict = "failedTerminal"
  <2>1. CASE outcome' = "stopped" /\ Leaves("success")
    BY <1>a, <2>1, LeavesFacts
  <2>2. CASE /\ child' = [child EXCEPT !.pc = "publishFailed", !.verdict = "failedTerminal"]
             /\ UNCHANGED outcome
    BY <1>a, <2>2, PublishesFacts
  <2> QED BY <2>1, <2>2 DEF PublishStopped
<1>1. TypeOK'
  BY <1>a, <1>b DEF IInv, TypeOK, Ended, Outcomes
<1>2. ChildInv'
  BY <1>a, <1>b DEF IInv, ChildInv, OwnsCore, Terminal, Ended
<1>3. OutcomeInv'
  BY <1>a, <1>b DEF IInv, OutcomeInv, ChildInv, Answered, Terminal
<1>4. StopInv'
  BY <1>a, <1>b DEF IInv, StopInv, ChildInv, OwnsCore, Answered, Terminal, Alive,
     Looping
<1>5. CoreInv'
  BY <1>a, <1>b DEF IInv, CoreInv, StopInv, ChildInv, OwnsCore, Asking, Succeeding,
     Committed, Answered, Looping
<1>6. ReportInv'
  BY <1>a, <1>b DEF IInv, ReportInv, RemovedOnlyWhenDead, GracefulMeansJoined,
     CleanStopIsNotForced, FailureIsProven, StopInv, ChildInv, CoreInv, OwnsCore,
     Terminal, Alive, Succeeding, Asking, Looping
<1> QED BY <1>1, <1>2, <1>3, <1>4, <1>5, <1>6 DEF IInv

LEMMA PublishFailedInv == ASSUME IInv, PublishFailed PROVE IInv'
<1>a. /\ child \in Child /\ child.pc = "publishFailed" /\ child.status = "running"
      /\ child.verdict \in {"failedTerminal", "failedOpen"}
      /\ UNCHANGED <<parent, stop, report, held, request, job>>
  BY DEF PublishFailed, IInv, TypeOK, ChildInv, Child
<1>b. /\ child' \in Child /\ child'.kind = child.kind /\ child'.lost = child.lost
      /\ child'.verdict = child.verdict
      /\ \/ /\ outcome' = child.verdict /\ child.verdict = "failedTerminal"
            /\ child'.pc = "leave" /\ child'.status = "failure"
         \/ /\ outcome' \in {outcome, "failedOpen"}
            /\ child'.pc = "hold" /\ child'.status = child.status
  <2>1. CASE /\ outcome' = child.verdict /\ child.verdict = "failedTerminal"
             /\ Leaves("failure")
    BY <1>a, <2>1, LeavesFacts
  <2>2. CASE outcome' \in {outcome, "failedOpen"} /\ ChildGoes("hold")
    BY <1>a, <2>2, GoesFacts
  <2> QED BY <1>a, <2>1, <2>2 DEF PublishFailed
<1>1. TypeOK'
  BY <1>a, <1>b DEF IInv, TypeOK, Ended, Outcomes
<1>2. ChildInv'
  BY <1>a, <1>b DEF IInv, ChildInv, OwnsCore, Terminal, Ended
<1>3. OutcomeInv'
  BY <1>a, <1>b DEF IInv, OutcomeInv, ChildInv, Answered, Terminal
<1>4. StopInv'
  BY <1>a, <1>b DEF IInv, StopInv, ChildInv, OwnsCore, Answered, Terminal, Alive,
     Looping
<1>5. CoreInv'
  BY <1>a, <1>b DEF IInv, CoreInv, StopInv, ChildInv, OwnsCore, Asking, Succeeding,
     Committed, Answered, Looping
<1>6. ReportInv'
  BY <1>a, <1>b DEF IInv, ReportInv, RemovedOnlyWhenDead, GracefulMeansJoined,
     CleanStopIsNotForced, FailureIsProven, StopInv, ChildInv, CoreInv, OwnsCore,
     Terminal, Alive, Succeeding, Asking, Looping
<1> QED BY <1>1, <1>2, <1>3, <1>4, <1>5, <1>6 DEF IInv

LEMMA PublishCleanupInv == ASSUME IInv, PublishCleanup PROVE IInv'
<1>a. /\ child \in Child /\ child.pc = "publishCleanup" /\ child.status = "running"
      /\ child.verdict \in {"failedTerminal", "failedOpen"} /\ Leaves("failure")
      /\ outcome' \in {outcome, child.verdict}
      /\ UNCHANGED <<parent, stop, report, held, request, job>>
  BY DEF PublishCleanup, IInv, TypeOK, ChildInv, Child
<1>b. /\ child' \in Child /\ child'.pc = "leave" /\ child'.status = "failure"
      /\ child'.kind = child.kind /\ child'.lost = child.lost
      /\ child'.verdict = child.verdict
  BY <1>a, LeavesFacts
<1>1. TypeOK'
  BY <1>a, <1>b DEF IInv, TypeOK, Ended, Outcomes
<1>2. ChildInv'
  BY <1>a, <1>b DEF IInv, ChildInv, OwnsCore, Terminal, Ended
<1>3. OutcomeInv'
  BY <1>a, <1>b DEF IInv, OutcomeInv, ChildInv, Answered, Terminal
<1>4. StopInv'
  BY <1>a, <1>b DEF IInv, StopInv, ChildInv, OwnsCore, Answered, Terminal, Alive,
     Looping
<1>5. CoreInv'
  BY <1>a, <1>b DEF IInv, CoreInv, StopInv, ChildInv, OwnsCore, Asking, Succeeding,
     Committed, Answered, Looping
<1>6. ReportInv'
  BY <1>a, <1>b DEF IInv, ReportInv, RemovedOnlyWhenDead, GracefulMeansJoined,
     CleanStopIsNotForced, FailureIsProven, StopInv, ChildInv, CoreInv, OwnsCore,
     Terminal, Alive, Succeeding, Asking, Looping
<1> QED BY <1>1, <1>2, <1>3, <1>4, <1>5, <1>6 DEF IInv

LEMMA ExitInv == ASSUME IInv, Exit PROVE IInv'
<1>a. /\ child \in Child /\ child.pc = "leave" /\ ChildGoes("dead")
      /\ job' = IF job = "running" THEN "none" ELSE job
      /\ UNCHANGED <<parent, stop, report, held, request, outcome>>
  BY DEF Exit, IInv, TypeOK
<1>b. /\ child' \in Child /\ child'.pc = "dead" /\ child'.kind = child.kind
      /\ child'.status = child.status /\ child'.lost = child.lost
      /\ child'.verdict = child.verdict
  BY <1>a, GoesFacts
<1>1. TypeOK'
  BY <1>a, <1>b DEF IInv, TypeOK, Ended, Outcomes
<1>2. ChildInv'
  BY <1>a, <1>b DEF IInv, ChildInv, OwnsCore, Terminal, Ended
<1>3. OutcomeInv'
  BY <1>a, <1>b DEF IInv, OutcomeInv, ChildInv, Answered, Terminal
<1>4. StopInv'
  BY <1>a, <1>b DEF IInv, StopInv, ChildInv, OwnsCore, Answered, Terminal, Alive,
     Looping
<1>5. CoreInv'
  BY <1>a, <1>b DEF IInv, CoreInv, StopInv, ChildInv, OwnsCore, Asking, Succeeding,
     Committed, Answered, Looping
<1>6. ReportInv'
  BY <1>a, <1>b DEF IInv, ReportInv, RemovedOnlyWhenDead, GracefulMeansJoined,
     CleanStopIsNotForced, FailureIsProven, StopInv, ChildInv, CoreInv, OwnsCore,
     Terminal, Alive, Succeeding, Asking, Looping
<1> QED BY <1>1, <1>2, <1>3, <1>4, <1>5, <1>6 DEF IInv

-----------------------------------------------------------------------------
LEMMA StutterInv == ASSUME IInv, UNCHANGED vars PROVE IInv'
BY DEF IInv, vars, TypeOK, ChildInv, OutcomeInv, StopInv, CoreInv, ReportInv,
       RemovedOnlyWhenDead, GracefulMeansJoined, CleanStopIsNotForced, FailureIsProven,
       Answered, Committed, Succeeding, Terminal, Asking, OwnsCore, Alive

LEMMA StepInv == IInv /\ [Next]_vars => IInv'
<1> SUFFICES ASSUME IInv, [Next]_vars PROVE IInv'
  OBVIOUS
<1>1. CASE ParentEnds \/ StopBegin \/ StopStep \/ ForceFails \/ DeadlinePasses
  BY <1>1, ParentEndsInv, StopBeginInv, ClearControlInv, AskStopInv, DeadlinePassesInv,
     LookForOutcomeInv, CheckExitInv, ReportFailureInv, ForceStopInv, ForceFailsInv
     DEF StopStep
<1>2. CASE ChildStep \/ RuntimeFails \/ JobEnds
  BY <1>2, SeeStopOrLossInv, RuntimeFailsInv, StartShutdownInv, JobEndsInv, NoticeLossInv,
     BudgetEndsInv, TakeResultInv, PublishStoppedInv, PublishFailedInv, PublishCleanupInv,
     ExitInv
     DEF ChildStep
<1>3. CASE UNCHANGED vars
  BY <1>3, StutterInv
<1> QED BY <1>1, <1>2, <1>3 DEF Next

\* The invariant holds in every state.
THEOREM Invariance == Spec => []IInv
<1> QED BY InitInv, StepInv, PTL DEF Spec

\* Every variable keeps its type.
THEOREM TypeCorrect == Spec => []TypeOK
<1>1. IInv => TypeOK
  BY DEF IInv
<1> QED BY <1>1, Invariance, PTL

\* A stop that is called graceful had the official shutdown return well and the
\* worker exit with success (kgw_worker_stop_one_v1).
THEOREM GracefulMeansJoinedHolds == Spec => []GracefulMeansJoined
<1>1. IInv => GracefulMeansJoined
  BY DEF IInv, ReportInv
<1> QED BY <1>1, Invariance, PTL

\* A node core that shut down well is not reported as killed.
THEOREM CleanStopIsNotForcedHolds == Spec => []CleanStopIsNotForced
<1>1. IInv => CleanStopIsNotForced
  BY DEF IInv, ReportInv
<1> QED BY <1>1, Invariance, PTL

\* A failure that is reported as terminal is one.
THEOREM FailureIsProvenHolds == Spec => []FailureIsProven
<1>1. IInv => FailureIsProven
  BY DEF IInv, ReportInv
<1> QED BY <1>1, Invariance, PTL

\* A worker leaves the registry only when it has exited.
THEOREM RemovedOnlyWhenDeadHolds == Spec => []RemovedOnlyWhenDead
<1>1. IInv => RemovedOnlyWhenDead
  BY DEF IInv, ReportInv
<1> QED BY <1>1, Invariance, PTL

\* A node core is not killed while its official shutdown runs, unless it could
\* not be asked (the fallback of kgw_worker_stop_one_v1).
THEOREM CoreShutsDownUndisturbedHolds == Spec => CoreShutsDownUndisturbed
<1>1. IInv /\ [Next]_vars =>
        (OwnsCore /\ Alive /\ child'.status = "killed" => job # "running" \/ stop.unasked)
  <2> SUFFICES ASSUME IInv, [Next]_vars, OwnsCore, Alive, child'.status = "killed",
                      ~stop.unasked
               PROVE  job # "running"
    OBVIOUS
  <2>1. child \in Child /\ child.status # "killed"
    BY DEF IInv, TypeOK, ChildInv, Alive
  <2>2. CASE ForceStop
    BY <2>2, <2>1 DEF ForceStop, IInv, StopInv, ChildInv, Answered
  <2>3. ForceStop \/ child'.status # "killed"
    <3>1. CASE UNCHANGED child
      BY <3>1, <2>1
    <3>2. CASE ChildStep \/ RuntimeFails
      BY <3>2, <2>1
         DEF ChildStep, SeeStopOrLoss, RuntimeFails, StartShutdown, NoticeLoss, BudgetEnds,
             TakeResult, PublishStopped, PublishFailed, PublishCleanup, Exit, Concludes,
             Leaves, ChildGoes, Child
    <3>3. UNCHANGED child \/ ForceStop \/ ChildStep \/ RuntimeFails
      BY DEF Next, StopStep, ParentEnds, StopBegin, ClearControl, AskStop, DeadlinePasses,
             LookForOutcome, CheckExit, ReportFailure, ForceFails, JobEnds, vars
    <3> QED BY <3>1, <3>2, <3>3
  <2> QED BY <2>2, <2>3
<1> QED BY <1>1, Invariance, PTL DEF Spec, CoreShutsDownUndisturbed

-----------------------------------------------------------------------------
(* Stops that wait for nothing: what is behind the failure of StopReturns. *)

\* A node core holds itself for a fallback, and the stop, which has no deadline,
\* waits for an answer that is neither there nor heard.
Stranded ==
  OwnsCore /\ child.pc = "hold" /\ stop.pc \in Looping /\ outcome = "none" /\ GoesOn

\* Nothing has been said before the worker holds itself or leaves.
SilentInv ==
  child.pc \notin {"leave", "dead", "hold"} => outcome = "none" /\ ~stop.received

\* A node core that shuts down for its desktop has a stop that polls for it.
AskedInv ==
  /\ OwnsCore /\ parent = "up"
  /\ \/ child.pc \in {"confirm", "shutdown", "publishStopped", "publishFailed"}
     \/ child.pc = "watch" /\ request
  => stop.pc \in Looping

\* What a node core has said before it holds itself is there, or has been heard.
HoldInv ==
  OwnsCore /\ parent = "up" /\ child.pc = "hold" =>
    \/ stop.pc \in Looping /\ ~stop.received /\ outcome = "failedOpen"
    \/ stop.pc \in Looping \union {"force"} /\ stop.received /\ ~stop.attested /\ ~stop.proven

AnswerInv == SilentInv /\ AskedInv /\ HoldInv

\* The desktop asks; without failures only its own steps move the stop.
LEMMA DesktopAnswers ==
  ASSUME ~PublishMayFail, ~KillMayFail, IInv, AnswerInv,
         \/ ParentEnds \/ StopBegin \/ ClearControl \/ AskStop \/ LookForOutcome
         \/ CheckExit \/ ReportFailure \/ ForceStop \/ DeadlinePasses
  PROVE  AnswerInv'
<1> USE DEF IInv, AnswerInv
<1>1. stop \in StopCall /\ child \in Child
  BY DEF TypeOK
<1>2. CASE ParentEnds
  BY <1>2, IdleFacts DEF ParentEnds, SilentInv, AskedInv, HoldInv
<1>3. CASE StopBegin
  <2>1. CASE Alive
    <3>1. /\ stop' = [Idle EXCEPT !.pc = "clear"] /\ stop.pc = "idle"
          /\ UNCHANGED <<parent, request, outcome, child>>
      BY <1>3, <2>1 DEF StopBegin
    <3>2. stop'.pc = "clear" /\ ~stop'.received
      BY <3>1, IdleFacts DEF StopCall
    <3> QED BY <3>1, <3>2 DEF SilentInv, AskedInv, HoldInv, OwnsCore, Looping
  <2>2. CASE ~Alive
    BY <1>3, <2>2 DEF StopBegin, Alive, SilentInv, AskedInv, HoldInv
  <2> QED BY <2>1, <2>2
<1>4. CASE ClearControl
  <2>1. /\ stop.pc = "clear" /\ outcome' = "none" /\ UNCHANGED <<parent, child>> /\ ~request'
        /\ stop'.received = stop.received
    BY <1>1, <1>4 DEF ClearControl, StopCall
  <2> QED BY <2>1 DEF SilentInv, AskedInv, HoldInv, OwnsCore, Looping
<1>5. CASE AskStop
  <2>1. /\ stop.pc = "ask" /\ UNCHANGED <<parent, outcome, child>>
        /\ stop'.pc = "look" /\ stop'.received = stop.received
    BY <1>1, <1>5 DEF AskStop, StopCall
  <2> QED BY <2>1 DEF SilentInv, AskedInv, HoldInv, OwnsCore, Looping
<1>6. CASE LookForOutcome
  <2>1. stop.pc = "look" /\ UNCHANGED <<parent, request, child>>
    BY <1>6 DEF LookForOutcome
  <2>2. CASE GoesOn
    <3>1. stop' = [Heard EXCEPT !.pc = "check"] /\ outcome' = "none"
      BY <1>6, <2>2 DEF LookForOutcome
    <3>2. /\ stop'.pc = "check" /\ stop'.received = (stop.received \/ outcome # "none")
          /\ stop'.attested = (stop.attested \/ outcome = "stopped")
          /\ stop'.proven = IF outcome \in {"none", "stopped"} THEN stop.proven
                            ELSE outcome = "failedTerminal"
      BY <3>1, HeardFacts DEF StopCall
    <3>3. SilentInv' /\ AskedInv'
      BY <2>1, <3>1, <3>2, Zenon DEF SilentInv, AskedInv, OwnsCore, Looping
    <3>4. HoldInv'
      <4>1. SUFFICES ASSUME OwnsCore, parent = "up", child.pc = "hold"
                     PROVE  stop'.received /\ ~stop'.attested /\ ~stop'.proven
        BY <2>1, <3>2 DEF HoldInv, OwnsCore, Looping
      <4>2. ~stop.received /\ outcome = "failedOpen"
        BY <2>2, <4>1 DEF HoldInv, GoesOn
      <4>3. ~stop.attested
        BY <4>2 DEF StopInv
      <4> QED BY <3>2, <4>2, <4>3, Zenon
    <3> QED BY <3>3, <3>4
  <2>3. CASE ~GoesOn
    <3>1. /\ stop'.pc = "force" /\ stop'.received = stop.received
          /\ stop'.attested = stop.attested /\ stop'.proven = stop.proven
          /\ outcome' = outcome
      BY <1>1, <1>6, <2>3 DEF LookForOutcome, StopCall
    <3>2. OwnsCore => stop.received
      BY <2>3 DEF GoesOn, StopInv
    <3> QED BY <2>1, <3>1, <3>2 DEF SilentInv, AskedInv, HoldInv, OwnsCore, Looping
  <2> QED BY <2>2, <2>3
<1>7. CASE CheckExit
  <2>1. CASE Alive
    <3>1. /\ UNCHANGED <<parent, request, outcome, child>> /\ stop.pc = "check"
          /\ stop' = [stop EXCEPT !.pc = "look"]
      BY <1>7, <2>1 DEF CheckExit
    <3>2. /\ stop'.pc = "look" /\ stop'.received = stop.received
          /\ stop'.attested = stop.attested /\ stop'.proven = stop.proven
      BY <1>1, <3>1 DEF StopCall
    <3> QED BY <3>1, <3>2 DEF SilentInv, AskedInv, HoldInv, OwnsCore, Looping
  <2>2. CASE ~Alive
    <3>1. child'.pc = "dead"
      BY <1>7, <2>2 DEF CheckExit, Alive
    <3> QED BY <3>1 DEF SilentInv, AskedInv, HoldInv
  <2> QED BY <2>1, <2>2
<1>8. CASE ReportFailure \/ ForceStop
  <2>1. child'.pc = "dead"
    BY <1>1, <1>8 DEF ReportFailure, ForceStop, Alive, Child
  <2> QED BY <2>1 DEF SilentInv, AskedInv, HoldInv
<1>9. CASE DeadlinePasses
  <2>1. /\ ~OwnsCore /\ UNCHANGED <<parent, request, outcome, child>>
        /\ stop'.received = stop.received
    BY <1>1, <1>9 DEF DeadlinePasses, StopCall
  <2> QED BY <2>1 DEF SilentInv, AskedInv, HoldInv, OwnsCore
<1> QED BY <1>2, <1>3, <1>4, <1>5, <1>6, <1>7, <1>8, <1>9

\* The worker answers before it holds itself.
LEMMA WorkerAnswers ==
  ASSUME ~PublishMayFail, IInv, AnswerInv, ChildStep \/ RuntimeFails \/ JobEnds
  PROVE  AnswerInv'
<1> USE DEF IInv, AnswerInv
<1>1. child \in Child /\ UNCHANGED <<parent, stop>>
  BY DEF TypeOK, ChildStep, SeeStopOrLoss, StartShutdown, NoticeLoss, BudgetEnds, TakeResult,
     PublishStopped, PublishFailed, PublishCleanup, Exit, RuntimeFails, JobEnds
<1>2. child'.kind = child.kind
  <2>1. CASE SeeStopOrLoss \/ RuntimeFails \/ StartShutdown \/ JobEnds
    BY <1>1, <2>1 DEF Child, SeeStopOrLoss, RuntimeFails, StartShutdown, JobEnds, ChildGoes
  <2>2. CASE NoticeLoss \/ BudgetEnds \/ TakeResult
    BY <1>1, <2>2 DEF Child, NoticeLoss, BudgetEnds, TakeResult, Concludes, Leaves, ChildGoes
  <2>3. CASE PublishStopped \/ PublishFailed \/ PublishCleanup \/ Exit
    BY <1>1, <2>3 DEF Child, PublishStopped, PublishFailed, PublishCleanup, Exit, Leaves,
       ChildGoes
  <2> QED BY <2>1, <2>2, <2>3 DEF ChildStep
<1>3. CASE SeeStopOrLoss
  <2>1. /\ child.pc = "watch" /\ child'.pc = "confirm" /\ UNCHANGED <<request, outcome>>
        /\ request \/ parent = "gone"
    BY <1>1, <1>3 DEF SeeStopOrLoss, ChildGoes, Child
  <2> QED BY <1>1, <1>2, <2>1 DEF SilentInv, AskedInv, HoldInv, OwnsCore, TypeOK
<1>4. CASE RuntimeFails
  <2>1. /\ child.pc = "watch" /\ child'.pc \in {"cleanup", "publishCleanup"}
        /\ UNCHANGED <<request, outcome>>
    BY <1>1, <1>4 DEF RuntimeFails, ChildGoes, Child
  <2> QED BY <1>1, <1>2, <2>1 DEF SilentInv, AskedInv, HoldInv, OwnsCore
<1>5. CASE StartShutdown
  <2>1. /\ child.pc = "confirm" /\ child'.pc \in {"shutdown", "publishFailed"}
        /\ UNCHANGED outcome
    BY <1>1, <1>5 DEF StartShutdown, Child
  <2> QED BY <1>1, <1>2, <2>1 DEF SilentInv, AskedInv, HoldInv, OwnsCore
<1>6. CASE JobEnds
  BY <1>6 DEF JobEnds, SilentInv, AskedInv, HoldInv, OwnsCore
<1>7. CASE NoticeLoss \/ BudgetEnds \/ TakeResult
  <2>1. /\ child.pc \in {"shutdown", "cleanup"} /\ UNCHANGED <<request, outcome>>
        /\ child'.pc \in {child.pc, "leave", "publishStopped", "publishFailed", "publishCleanup"}
        /\ child'.pc \in {"publishStopped", "publishFailed"} => child.pc = "shutdown"
    BY <1>1, <1>7 DEF NoticeLoss, BudgetEnds, TakeResult, Concludes, Leaves, ChildGoes, Child
  <2> QED BY <1>1, <1>2, <2>1 DEF SilentInv, AskedInv, HoldInv, OwnsCore
<1>8. CASE PublishFailed
  <2>1. /\ child.pc = "publishFailed" /\ UNCHANGED request
        /\ \/ child'.pc = "leave"
           \/ child'.pc = "hold" /\ outcome' = "failedOpen"
    BY <1>1, <1>8 DEF PublishFailed, Leaves, ChildGoes, Child
  <2> QED BY <1>1, <1>2, <2>1 DEF SilentInv, AskedInv, HoldInv, OwnsCore
<1>9. CASE PublishStopped \/ PublishCleanup \/ Exit
  <2>1. child'.pc \in {"leave", "dead"}
    BY <1>1, <1>9 DEF PublishStopped, PublishCleanup, Exit, Leaves, ChildGoes, Child
  <2> QED BY <2>1 DEF SilentInv, AskedInv, HoldInv
<1> QED
  BY <1>3, <1>4, <1>5, <1>6, <1>7, <1>8, <1>9 DEF ChildStep

\* When control files can be written and kills succeed, no stop is stranded: a node
\* core that holds itself has said so (kgw_publish_stop_failure_v1).
THEOREM NoStopIsStranded ==
  ASSUME ~PublishMayFail, ~KillMayFail
  PROVE  Spec => [](~Stranded)
<1>1. Init => AnswerInv
  BY IdleFacts DEF Init, AnswerInv, SilentInv, AskedInv, HoldInv
<1>2. IInv /\ AnswerInv /\ [Next]_vars => AnswerInv'
  <2>1. UNCHANGED vars /\ AnswerInv => AnswerInv'
    BY DEF vars, AnswerInv, SilentInv, AskedInv, HoldInv, OwnsCore
  <2>2. ~ForceFails
    BY DEF ForceFails
  <2> QED BY <2>1, <2>2, DesktopAnswers, WorkerAnswers DEF Next, StopStep
<1>3. IInv /\ AnswerInv => ~Stranded
  <2>1. IInv => (stop.pc # "idle" => parent = "up")
    BY DEF IInv, StopInv
  <2> QED BY <2>1 DEF AnswerInv, HoldInv, Stranded, GoesOn, Looping
<1> QED BY <1>1, <1>2, <1>3, Invariance, PTL DEF Spec

\* A stop that is stranded stays stranded as long as its desktop lives: nothing in
\* either process ends the wait (the loop of kgw_worker_stop_one_v1).
THEOREM StrandedForGood == Spec => [][Stranded => Stranded' \/ parent' = "gone"]_vars
<1> DEFINE Stays == Stranded => Stranded' \/ parent' = "gone"
<1>1. IInv /\ [Next]_vars => [Stays]_vars
  <2> SUFFICES ASSUME IInv, [Next]_vars, Stranded, ~(parent' = "gone") PROVE Stranded'
    OBVIOUS
  <2>1. stop \in StopCall /\ child \in Child /\ stop.pc # "idle"
    BY DEF IInv, TypeOK, Stranded, Looping
  <2>2. CASE LookForOutcome
    <3>1. /\ stop' = [stop EXCEPT !.pc = "check"] /\ outcome' = "none" /\ child' = child
      BY <2>2 DEF LookForOutcome, Heard, Stranded
    <3> QED BY <2>1, <3>1 DEF Stranded, GoesOn, OwnsCore, Looping, StopCall
  <2>3. CASE CheckExit
    <3>1. /\ stop' = [stop EXCEPT !.pc = "look"] /\ outcome' = outcome /\ child' = child
      BY <2>3 DEF CheckExit, Stranded, Alive
    <3> QED BY <2>1, <3>1 DEF Stranded, GoesOn, OwnsCore, Looping, StopCall
  <2>4. CASE JobEnds \/ UNCHANGED vars
    BY <2>4 DEF JobEnds, vars, Stranded, GoesOn, OwnsCore
  <2>5. ~(StopBegin \/ ClearControl \/ AskStop \/ ReportFailure \/ ForceStop \/ ForceFails
            \/ DeadlinePasses)
    BY <2>1 DEF Stranded, Looping, StopBegin, ClearControl, AskStop, ReportFailure, ForceStop,
       ForceFails, DeadlinePasses
  <2>6. ~(ChildStep \/ RuntimeFails)
    BY DEF Stranded, ChildStep, RuntimeFails, SeeStopOrLoss, StartShutdown, NoticeLoss,
       BudgetEnds, TakeResult, PublishStopped, PublishFailed, PublishCleanup, Exit
  <2>7. ~ParentEnds
    BY DEF ParentEnds
  <2> QED BY <2>2, <2>3, <2>4, <2>5, <2>6, <2>7 DEF Next, StopStep
<1> QED BY <1>1, Invariance, PTL DEF Spec
===============================================================================
