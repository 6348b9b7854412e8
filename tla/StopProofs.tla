------------------------------ MODULE StopProofs ------------------------------
(***************************************************************************)
(* What a terminal update and the end of the process say of the container  *)
(* and of the rules on the host, when stopping the container and taking    *)
(* the rules back work; what the end of the process tells the agent; and   *)
(* that the executor implements TaskLifecycle.                             *)
(***************************************************************************)
EXTENDS TerminalProofs

(* A running container is known to tearDown; main tears down for a reason.   *)
TearInv ==
  /\ container = "running" => knownID
  /\ pc["main"] \in {"preRun", "run"} => knownID
  /\ call["main"] \in {"kill", "abort"} => pc["main"] = "flag" \/ shutdown
  /\ call["main"] = "fail" => launched

(* Goroutine g is past the pre-stop hooks, or past the stop, of a tearDown.  *)
Unruled(g) ==
  pc[g] \in {"stop", "postStop", "update", "record"} /\ call[g] \notin {"launch", "beat"}
Stopped(g) ==
  pc[g] \in {"postStop", "update", "record"} /\ call[g] \notin {"launch", "beat"}

(* Only the launch starts the container.                                     *)
LEMMA ContainerStarts ==
  ASSUME [Next]_vars, container # "running", container' = "running"
  PROVE  LaunchRun
<1> USE DEF dockerVars
<1>1. ~SubscriptionStep /\ ~EventStep
  BY DEF SubscriptionStep, OuterLoop, PrepareSubscribe, Subscribe, SubscribeError, InnerLoop,
     StreamBroken, Abort, EventStep, HandleSubscribed, HandleLaunch, HandleKill,
     HandleMessage, HandleAcknowledged
<1>2. ~ReceiveSignal /\ ~WaitReturns /\ ~HealthStep /\ ~CheckerStep /\ ~ContainerStep
  BY DEF ReceiveSignal, WaitReturns, ContainerWait, HealthStep, HealthStart,
     HealthBeat, HealthDone, HealthExited, CheckerStep, ContainerStep, ContainerExits
<1>3. ASSUME NEW g \in Goroutine
      PROVE  ~SharedStep(g)
  BY DEF SharedStep, KillSetsFlag, TearDownQuit, TearDownPreStop, TearDownStop,
     TearDownPostStop, SendUpdate, UpdateError, RecordUpdate, ContainerStop,
     ContainerRemove
<1>4. LaunchSteps
  BY <1>1, <1>2, <1>3 DEF Next, vars
<1> QED
  BY <1>4 DEF LaunchSteps, LaunchPreCreate, LaunchCreate, LaunchAssign, LaunchPreRun,
     LaunchHealthCheck, LaunchPostRun, ContainerCreate, ContainerGetPID

(* Who changes the rules and the identifier.                                 *)
LEMMA TaskMoves ==
  ASSUME [Next]_vars
  PROVE  \/ UNCHANGED <<rules, knownID>>
         \/ LaunchAssign
         \/ LaunchPostRun
         \/ \E g \in Goroutine : TearDownPreStop(g)
<1> USE DEF taskVars
<1>1. CASE SubscriptionStep \/ EventStep
  BY <1>1 DEF SubscriptionStep, OuterLoop, PrepareSubscribe, Subscribe, SubscribeError, InnerLoop,
     StreamBroken, Abort, EventStep, HandleSubscribed, HandleLaunch, HandleKill,
     HandleMessage, HandleAcknowledged
<1>2. CASE LaunchSteps /\ ~LaunchAssign /\ ~LaunchPostRun
  <2>1. UNCHANGED <<rules, knownID>>
    BY <1>2 DEF LaunchSteps, LaunchPreCreate, LaunchCreate, LaunchPreRun, LaunchRun,
       LaunchHealthCheck
  <2> QED
    BY <2>1
<1>3. CASE ReceiveSignal \/ WaitReturns \/ HealthStep \/ CheckerStep \/ ContainerStep
  BY <1>3 DEF ReceiveSignal, WaitReturns, HealthStep, HealthStart, HealthBeat,
     HealthDone, HealthExited, CheckerStep, ContainerStep
<1>4. ASSUME NEW g \in Goroutine, SharedStep(g), ~TearDownPreStop(g)
      PROVE  UNCHANGED <<rules, knownID>>
  BY <1>4 DEF SharedStep, KillSetsFlag, TearDownQuit, TearDownStop, TearDownPostStop,
     SendUpdate, UpdateError, RecordUpdate
<1>5. CASE UNCHANGED vars
  BY <1>5 DEF vars
<1> QED
  BY <1>1, <1>2, <1>3, <1>4, <1>5 DEF Next

LEMMA TaskMovesOn ==
  ASSUME TaskTypeOK, [Next]_vars
  PROVE  /\ knownID => knownID'
         /\ rules' => rules \/ LaunchPostRun
<1>1. CASE UNCHANGED <<rules, knownID>>
  BY <1>1, Zenon
<1>2. CASE LaunchAssign
  <2>1. knownID' = TRUE /\ rules' = rules
    BY <1>2 DEF LaunchAssign
  <2> QED
    BY <2>1, Zenon
<1>3. CASE LaunchPostRun
  <2>1. knownID' = knownID
    BY <1>3 DEF LaunchPostRun
  <2> QED
    BY <1>3, <2>1, Zenon
<1>4. ASSUME NEW g \in Goroutine, TearDownPreStop(g)
      PROVE  (knownID => knownID') /\ (rules' => rules)
  BY <1>4, Zenon DEF TearDownPreStop
<1> QED
  BY <1>1, <1>2, <1>3, <1>4, TaskMoves

LEMMA StaysDown ==
  ASSUME TaskTypeOK, pc["main"] \notin LaunchLabels, [Next]_vars
  PROVE  /\ container # "running" => container' # "running"
         /\ ~rules => ~rules'
<1>1. ~LaunchRun /\ ~LaunchPostRun
  BY DEF LaunchLabels, LaunchRun, LaunchPostRun, LaunchStep, At
<1>2. container # "running" => container' # "running"
  BY <1>1, ContainerStarts
<1>3. ~rules => ~rules'
  BY <1>1, TaskMovesOn, Zenon
<1> QED
  BY <1>2, <1>3

(* The stop takes effect.                                                    *)
LEMMA StopWorks ==
  ASSUME "stop" \notin Faults, TearInv, NEW g \in Goroutine, TearDownStop(g)
  PROVE  container' # "running"
<1>1. PICK ok \in BOOLEAN : ContainerStop(knownID, ok)
  BY DEF TearDownStop
<1>2. CASE ok
  BY <1>1, <1>2 DEF ContainerStop
<1>3. CASE ~ok
  <2>1. container' = container /\ ~(knownID /\ container = "running")
    BY <1>1, <1>3, Zenon DEF ContainerStop, Outcomes, dockerVars
  <2> QED
    BY <2>1 DEF TearInv
<1> QED
  BY <1>2, <1>3

LEMMA TearInvStep ==
  ASSUME BooksInv, TearInv, [Next]_vars
  PROVE  TearInv'
<1> USE DEF BooksInv, TypeOK, ControlTypeOK, TaskTypeOK, Goroutine, At, Goto, Begin
<1> DEFINE Main == /\ pc["main"] \in {"preRun", "run"} => knownID
                   /\ call["main"] \in {"kill", "abort"} => pc["main"] = "flag" \/ shutdown
                   /\ call["main"] = "fail" => launched
<1>1. knownID => knownID'
  BY TaskMovesOn
<1>2. container' = "running" => knownID'
  <2>1. LaunchRun => pc["main"] = "run"
    BY DEF LaunchRun, LaunchStep
  <2> QED
    BY <1>1, <2>1, ContainerStarts DEF TearInv
<1>3. Main
  BY DEF TearInv
<1>4. SUFFICES Main'
  BY <1>2 DEF TearInv
<1>5. CASE SubscriptionStep
  BY <1>1, <1>3, <1>5 DEF SubscriptionStep, OuterLoop, PrepareSubscribe, Subscribe, SubscribeError,
     InnerLoop, StreamBroken, Abort, agentVars
<1>6. CASE EventStep
  BY <1>1, <1>3, <1>6 DEF EventStep, HandleSubscribed, HandleLaunch, HandleKill,
     HandleMessage, HandleAcknowledged, agentVars
<1>7. CASE LaunchSteps
  BY <1>1, <1>3, <1>7 DEF LaunchSteps, LaunchPreCreate, LaunchCreate, LaunchAssign,
     LaunchPreRun, LaunchRun, LaunchPostRun, LaunchHealthCheck, LaunchStep, LaunchOrder,
     LaunchLabels, agentVars
<1>8. CASE ReceiveSignal \/ WaitReturns \/ HealthStep
  BY <1>1, <1>3, <1>8 DEF ReceiveSignal, WaitReturns, HealthStep, HealthStart,
     HealthBeat, HealthDone, HealthExited, agentVars
<1>9. CASE CheckerStep \/ ContainerStep \/ UNCHANGED vars
  BY <1>1, <1>3, <1>9 DEF CheckerStep, ContainerStep, vars, controlVars, agentVars
<1>10. ASSUME NEW g \in Goroutine, SharedStep(g)
       PROVE  Main'
  <2>1. CASE UpdateError(g) \/ RecordUpdate(g)
    <3>1. PICK ok \in BOOLEAN : Return(g, ok)
      BY <2>1 DEF UpdateError, RecordUpdate
    <3>2. launched' = launched /\ shutdown' = shutdown
      BY <2>1 DEF UpdateError, RecordUpdate, agentVars
    <3>3. \/ g # "main" /\ pc'["main"] = pc["main"] /\ call'["main"] = call["main"]
          \/ g = "main" /\ call["main"] = "launch" /\ pc'["main"] = "quit"
               /\ call'["main"] = "fail"
          \/ g = "main" /\ pc'["main"] = "flag" /\ call'["main"] = "abort"
          \/ g = "main" /\ pc'["main"] \in {"inner", "failed", "finished"}
               /\ call'["main"] = "none"
      <4>1. CASE g # "main"
        BY <3>1, <4>1, ReturnCases
      <4>2. CASE g = "main"
        <5>1. \/ \E label \in {"inner", "failed", "finished"} :
                   /\ \/ pc' = [pc EXCEPT !["main"] = label]
                      \/ pc' = [pc EXCEPT !["main"] = label, !["waiter"] = "waiting"]
                   /\ call' = [call EXCEPT !["main"] = "none"]
              \/ /\ call["main"] = "launch"
                 /\ pc' = [pc EXCEPT !["main"] = "quit"]
                 /\ call' = [call EXCEPT !["main"] = "fail"]
              \/ /\ pc' = [pc EXCEPT !["main"] = "flag"]
                 /\ call' = [call EXCEPT !["main"] = "abort"]
          BY <3>1, <4>2, Zenon DEF Return
        <5> QED
          BY <4>2, <5>1
      <4> QED
        BY <4>1, <4>2
    <3>4. call["main"] = "launch" => launched
      BY DEF LaunchOrder
    <3> QED
      BY <1>1, <1>3, <3>2, <3>3, <3>4
  <2>2. CASE ~UpdateError(g) /\ ~RecordUpdate(g)
    BY <1>1, <1>3, <1>10, <2>2 DEF SharedStep, KillSetsFlag, TearDownQuit,
       TearDownPreStop, TearDownStop, TearDownPostStop, SendUpdate, agentVars
  <2> QED
    BY <2>1, <2>2
<1> QED
  BY <1>5, <1>6, <1>7, <1>8, <1>9, <1>10 DEF Next

(* A goroutine that is past the hooks of its tearDown left the launch to     *)
(* main long ago, unless an early signal sent it there.                      *)
LEMMA PastLaunch ==
  ASSUME BooksInv, MainInv, Senders, TearInv, Signals # "any", NEW g \in Goroutine,
         pc[g] \in KillLabels \cup UpdateLabels, call[g] \notin {"launch", "beat"},
         pc[g] # "flag", pc[g] # "quit"
  PROVE  NoLaunch
<1> USE DEF BooksInv, TypeOK, NoLaunch, LaunchOrder, LaunchLabels, KillLabels, UpdateLabels
<1>1. CASE g = "main"
  BY <1>1 DEF MainInv, MainCalls, TearInv
<1>2. CASE g = "health" \/ g = "waiter"
  BY <1>2
<1>3. CASE g = "signals"
  BY <1>3 DEF Senders, LaunchOver
<1> QED
  BY <1>1, <1>2, <1>3 DEF Goroutine

(* A tearDown goes through its steps in order.                               *)
LEMMA TearDownOrder ==
  ASSUME ControlTypeOK, LaunchOrder, [Next]_vars, NEW g \in Goroutine,
         pc[g] \in {"preStop", "stop", "postStop"}
  PROVE  /\ call'[g] = call[g]
         /\ \/ pc'[g] = pc[g]
            \/ pc[g] = "preStop" /\ pc'[g] = "stop" /\ TearDownPreStop(g)
            \/ pc[g] = "stop" /\ pc'[g] = "postStop" /\ TearDownStop(g)
            \/ pc[g] = "postStop" /\ pc'[g] = "update"
<1> USE DEF ControlTypeOK, LaunchOrder, LaunchLabels, Goroutine, At, Goto, Begin
<1>1. CASE SubscriptionStep \/ EventStep
  BY <1>1 DEF SubscriptionStep, OuterLoop, PrepareSubscribe, Subscribe, SubscribeError, InnerLoop,
     StreamBroken, Abort, EventStep, HandleSubscribed, HandleLaunch, HandleKill,
     HandleMessage, HandleAcknowledged
<1>2. CASE LaunchSteps
  BY <1>2 DEF LaunchSteps, LaunchPreCreate, LaunchCreate, LaunchAssign, LaunchPreRun,
     LaunchRun, LaunchPostRun, LaunchHealthCheck, LaunchStep
<1>3. CASE ReceiveSignal \/ WaitReturns \/ HealthStep
  BY <1>3 DEF ReceiveSignal, WaitReturns, HealthStep, HealthStart, HealthBeat,
     HealthDone, HealthExited
<1>4. CASE CheckerStep \/ ContainerStep \/ UNCHANGED vars
  BY <1>4 DEF CheckerStep, ContainerStep, vars, controlVars
<1>5. ASSUME NEW h \in Goroutine, SharedStep(h), h # g
      PROVE  pc'[g] = pc[g] /\ call'[g] = call[g]
  <2>1. CASE UpdateError(h) \/ RecordUpdate(h)
    <3>1. \E ok \in BOOLEAN : Return(h, ok)
      BY <2>1 DEF UpdateError, RecordUpdate
    <3> QED
      BY <1>5, <3>1, ReturnCases
  <2>2. CASE ~UpdateError(h) /\ ~RecordUpdate(h)
    BY <1>5, <2>2 DEF SharedStep, KillSetsFlag, TearDownQuit, TearDownPreStop,
       TearDownStop, TearDownPostStop, SendUpdate
  <2> QED
    BY <2>1, <2>2
<1>6. CASE TearDownPreStop(g)
  <2>1. pc[g] = "preStop" /\ pc'[g] = "stop" /\ call' = call
    BY <1>6 DEF TearDownPreStop
  <2> QED
    BY <1>6, <2>1
<1>7. CASE TearDownStop(g)
  <2>1. pc[g] = "stop" /\ pc'[g] = "postStop" /\ call' = call
    BY <1>7 DEF TearDownStop
  <2> QED
    BY <1>7, <2>1
<1>8. CASE TearDownPostStop(g)
  <2>1. pc[g] = "postStop" /\ pc'[g] = "update" /\ call' = call
    BY <1>8 DEF TearDownPostStop
  <2> QED
    BY <2>1
<1>9. SharedStep(g) => TearDownPreStop(g) \/ TearDownStop(g) \/ TearDownPostStop(g)
  BY DEF SharedStep, KillSetsFlag, TearDownQuit, SendUpdate, UpdateError, RecordUpdate
<1> QED
  BY <1>1, <1>2, <1>3, <1>4, <1>5, <1>6, <1>7, <1>8, <1>9 DEF Next

(* Past the hooks and past the stop: by the steps of the tearDown.           *)
LEMMA PastStarts ==
  ASSUME ControlTypeOK, LaunchOrder, [Next]_vars, NEW g \in Goroutine
  PROVE  /\ Unruled(g)' => Unruled(g) \/ TearDownPreStop(g)
         /\ Stopped(g)' => Stopped(g) \/ TearDownStop(g)
<1> SUFFICES ASSUME Unruled(g)'
             PROVE  /\ Unruled(g) \/ TearDownPreStop(g)
                    /\ Stopped(g)' => Stopped(g) \/ TearDownStop(g)
  BY DEF Unruled, Stopped
<1>1. Ending(g) \/ TearDownQuit(g)
  BY EndingStarts DEF Unruled, Ending, UpdateLabels
<1>2. ~TearDownQuit(g)
  BY DEF Unruled, TearDownQuit, Goto, ControlTypeOK
<1>3. CASE pc[g] \in UpdateLabels /\ call[g] \notin {"launch", "beat"}
  BY <1>3 DEF UpdateLabels, Unruled, Stopped
<1>4. CASE pc[g] \in {"preStop", "stop", "postStop"}
  BY <1>4, TearDownOrder DEF Unruled, Stopped
<1> QED
  BY <1>1, <1>2, <1>3, <1>4 DEF Ending
-----------------------------------------------------------------------------
(* A terminal update tells the truth.                                        *)

Truth ==
  /\ \A g \in Goroutine : Stopped(g) => container # "running"
  /\ (\E u \in accepted : Terminal(u)) => NoLaunch /\ container # "running"

LEMMA TruthStep ==
  ASSUME "stop" \notin Faults, Signals # "any", BooksInv, MainInv, Senders, TearInv, Truth,
         [Next]_vars
  PROVE  Truth'
<1> USE DEF BooksInv, TypeOK
<1>1. ASSUME NEW g \in Goroutine, Stopped(g)
      PROVE  NoLaunch /\ container # "running"
  BY <1>1, PastLaunch DEF Truth, Stopped, KillLabels, UpdateLabels
<1>2. NoLaunch /\ container # "running" => (NoLaunch /\ container # "running")'
  BY NoLaunchStays, StaysDown DEF NoLaunch
<1>3. ASSUME NEW g \in Goroutine, Stopped(g)'
      PROVE  container' # "running"
  BY <1>1, <1>2, <1>3, PastStarts, StopWorks
<1>4. ASSUME NEW u \in accepted', Terminal(u)
      PROVE  NoLaunch /\ container # "running"
  <2>1. CASE u \in accepted
    BY <1>4, <2>1 DEF Truth
  <2>2. CASE u \notin accepted
    <3>1. PICK g \in Goroutine : u = CurrentUpdate(g) /\ pc[g] = "update"
      BY <1>4, <2>2, AcceptedFrom
    <3>2. u.call = call[g]
      BY <3>1 DEF CurrentUpdate
    <3>3. Stopped(g)
      BY <1>4, <3>1, <3>2, TerminalCall DEF Stopped
    <3> QED
      BY <1>1, <3>3
  <2> QED
    BY <2>1, <2>2
<1> QED
  BY <1>2, <1>3, <1>4 DEF Truth

LEMMA TearInvariant == Spec => []TearInv
<1>1. Init => TearInv
  BY DEF Init, DockerInit, TearInv, Goroutine
<1>2. BooksInv /\ TearInv /\ [Next]_vars => TearInv'
  BY TearInvStep
<1> QED
  BY <1>1, <1>2, BooksInvariant, PTL DEF Spec

(* When a stop that the daemon can do does not fail, and no signal comes     *)
(* before the launch is over, the container is down for good once any        *)
(* goroutine reported the end of the task                                    *)
(* (executor.go:302-311, 438-464, 491-499).                                  *)
THEOREM TerminalIsTrue ==
  ASSUME "stop" \notin Faults, Signals # "any"
  PROVE  Spec => []TerminalMeansStopped
<1>1. Init => Senders /\ Truth
  BY DEF Init, Senders, Truth, Stopped, Goroutine
<1>2. BooksInv /\ MainInv /\ Senders /\ [Next]_vars => Senders'
  BY SendersStep
<1>3. BooksInv /\ MainInv /\ Senders /\ TearInv /\ Truth /\ [Next]_vars => Truth'
  BY TruthStep
<1>4. Truth => TerminalMeansStopped
  BY DEF Truth, TerminalMeansStopped
<1> QED
  BY <1>1, <1>2, <1>3, <1>4, BooksInvariant, MainInvariant, TearInvariant, PTL DEF Spec
-----------------------------------------------------------------------------
(* How the process leaves the container and the rules.                       *)

Tearing == pc["main"] \in KillLabels \cup UpdateLabels /\ call["main"] # "launch"
Clean == container # "running" /\ ~rules

ExitInv ==
  /\ Unruled("main") => ~rules
  /\ Stopped("main") => container # "running"
  /\ pc["main"] = "failed" => Clean
  /\ pc["main"] = "returned" => shutdown
  /\ shutdown /\ ~checker /\ pc["signals"] = "idle" =>
       Tearing \/ (pc["main"] \in {"inner", "outer", "returned", "failed"} /\ Clean)
  /\ pc["waiter"] # "flag"
  /\ pc["health"] # "off" => checker

(* Where main goes from a tearDown, and once it has torn down.               *)
LEMMA MainLeaves ==
  ASSUME ControlTypeOK, LaunchOrder, MainInv, [Next]_vars
  PROVE  /\ Tearing /\ ~Tearing' =>
              Unruled("main") /\ Stopped("main") /\ pc'["main"] \in {"inner", "failed"}
         /\ shutdown /\ pc["main"] \in {"inner", "outer", "returned", "failed"} =>
              pc'["main"] \in {"inner", "outer", "returned", "failed"}
         /\ pc'["main"] = "failed" /\ pc["main"] # "failed" =>
              Unruled("main") /\ Stopped("main")
         /\ pc'["main"] = "returned" => pc["main"] = "returned" \/ shutdown
         /\ shutdown => shutdown'
<1> USE DEF ControlTypeOK, LaunchOrder, LaunchLabels, Goroutine, At, Goto, Begin, Tearing,
            KillLabels, UpdateLabels, MainInv, MainCalls, Unruled, Stopped, MainLabels
<1>1. CASE SubscriptionStep
  BY <1>1 DEF SubscriptionStep, OuterLoop, PrepareSubscribe, Subscribe, SubscribeError, InnerLoop,
     StreamBroken, Abort
<1>2. CASE EventStep
  BY <1>2 DEF EventStep, HandleSubscribed, HandleLaunch, HandleKill, HandleMessage,
     HandleAcknowledged
<1>3. CASE LaunchSteps
  BY <1>3 DEF LaunchSteps, LaunchPreCreate, LaunchCreate, LaunchAssign, LaunchPreRun,
     LaunchRun, LaunchPostRun, LaunchHealthCheck, LaunchStep
<1>4. CASE ReceiveSignal \/ WaitReturns \/ HealthStep
  BY <1>4 DEF ReceiveSignal, WaitReturns, HealthStep, HealthStart, HealthBeat,
     HealthDone, HealthExited
<1>5. CASE CheckerStep \/ ContainerStep \/ UNCHANGED vars
  BY <1>5 DEF CheckerStep, ContainerStep, vars, controlVars
<1>6. ASSUME NEW g \in Goroutine, SharedStep(g), g # "main"
      PROVE  pc'["main"] = pc["main"] /\ call'["main"] = call["main"]
             /\ (shutdown => shutdown')
  <2>1. CASE UpdateError(g) \/ RecordUpdate(g)
    <3>1. shutdown' = shutdown /\ \E ok \in BOOLEAN : Return(g, ok)
      BY <2>1 DEF UpdateError, RecordUpdate
    <3> QED
      BY <1>6, <3>1, ReturnCases
  <2>2. CASE ~UpdateError(g) /\ ~RecordUpdate(g)
    <3>1. /\ shutdown' = shutdown \/ shutdown' = TRUE
          /\ call' = call /\ \E label \in Label : pc' = [pc EXCEPT ![g] = label]
      BY <1>6, <2>2 DEF SharedStep, KillSetsFlag, TearDownQuit, TearDownPreStop,
         TearDownStop, TearDownPostStop, SendUpdate, Label
    <3> QED
      BY <1>6, <3>1
  <2> QED
    BY <2>1, <2>2
<1>7. CASE UpdateError("main") \/ RecordUpdate("main")
  <2>1. shutdown' = shutdown /\ pc["main"] \in {"update", "record"}
    BY <1>7 DEF UpdateError, RecordUpdate
  <2>2. PICK ok \in BOOLEAN : Return("main", ok)
    BY <1>7 DEF UpdateError, RecordUpdate
  <2>3. \/ /\ call["main"] = "launch"
           /\ \/ pc' = [pc EXCEPT !["main"] = "quit"]
              \/ pc' = [pc EXCEPT !["main"] = "inner", !["waiter"] = "waiting"]
        \/ /\ pc' = [pc EXCEPT !["main"] = "flag"]
           /\ call' = [call EXCEPT !["main"] = "abort"]
        \/ /\ call["main"] \notin {"launch", "beat"}
           /\ \E label \in {"inner", "failed", "finished"} :
                pc' = [pc EXCEPT !["main"] = label]
           /\ call["main"] \in {"kill", "fail", "abort"} => pc'["main"] # "finished"
        \/ call["main"] \notin {"launch", "kill", "fail", "abort"}
    <3>1. CASE call["main"] = "launch"
      BY <2>2, <3>1, Zenon DEF Return
    <3>2. CASE call["main"] = "kill"
      <4>1. \/ /\ pc' = [pc EXCEPT !["main"] = "flag"]
               /\ call' = [call EXCEPT !["main"] = "abort"]
            \/ pc' = [pc EXCEPT !["main"] = "inner"]
        BY <2>2, <3>2, Zenon DEF Return
      <4> QED
        BY <3>2, <4>1
    <3>3. CASE call["main"] = "fail"
      <4>1. /\ pc' = [pc EXCEPT !["main"] = "flag"]
            /\ call' = [call EXCEPT !["main"] = "abort"]
        BY <2>2, <3>3, Zenon DEF Return
      <4> QED
        BY <4>1
    <3>4. CASE call["main"] = "abort"
      <4>1. pc' = [pc EXCEPT !["main"] = "failed"]
        BY <2>2, <3>4, Zenon DEF Return
      <4> QED
        BY <3>4, <4>1
    <3> QED
      BY <3>1, <3>2, <3>3, <3>4
  <2> QED
    BY <2>1, <2>3
<1>8. CASE SharedStep("main") /\ ~UpdateError("main") /\ ~RecordUpdate("main")
  <2>1. /\ shutdown' = shutdown \/ shutdown' = TRUE
        /\ call' = call
        /\ pc["main"] \in KillLabels \cup UpdateLabels
        /\ \E label \in KillLabels \cup UpdateLabels : pc' = [pc EXCEPT !["main"] = label]
    BY <1>8 DEF SharedStep, KillSetsFlag, TearDownQuit, TearDownPreStop, TearDownStop,
       TearDownPostStop, SendUpdate
  <2> QED
    BY <2>1
<1> QED
  BY <1>1, <1>2, <1>3, <1>4, <1>5, <1>6, <1>7, <1>8 DEF Next

(* Only main, a signal and a checker's goroutine set Shutdown.               *)
LEMMA FlagSetBy ==
  ASSUME ControlTypeOK, [Next]_vars, ~shutdown, shutdown'
  PROVE  \E g \in Goroutine : KillSetsFlag(g)
<1>1. shutdown' # shutdown
  BY Zenon
<1>2. ~SubscriptionStep /\ ~EventStep
  BY <1>1 DEF SubscriptionStep, OuterLoop, PrepareSubscribe, Subscribe, SubscribeError, InnerLoop,
     StreamBroken, Abort, EventStep, HandleSubscribed, HandleLaunch, HandleKill,
     HandleMessage, HandleAcknowledged
<1>3. ~LaunchSteps
  BY <1>1 DEF LaunchSteps, LaunchPreCreate, LaunchCreate, LaunchAssign, LaunchPreRun,
     LaunchRun, LaunchPostRun, LaunchHealthCheck, LaunchStep
<1>4. ~ReceiveSignal /\ ~WaitReturns /\ ~HealthStep /\ ~CheckerStep /\ ~ContainerStep
  BY <1>1 DEF ReceiveSignal, WaitReturns, HealthStep, HealthStart, HealthBeat, HealthDone,
     HealthExited, CheckerStep, ContainerStep, controlVars
<1>5. ASSUME NEW g \in Goroutine, SharedStep(g)
      PROVE  KillSetsFlag(g)
  BY <1>1, <1>5 DEF SharedStep, TearDownQuit, TearDownPreStop, TearDownStop,
     TearDownPostStop, SendUpdate, UpdateError, RecordUpdate
<1> QED
  BY <1>1, <1>2, <1>3, <1>4, <1>5 DEF Next, vars, controlVars

(* The waiter never sets Shutdown; the health goroutine comes with a checker.*)
LEMMA OthersStart ==
  ASSUME ControlTypeOK, LaunchOrder, [Next]_vars
  PROVE  /\ pc'["waiter"] = "flag" => pc["waiter"] = "flag"
         /\ pc'["health"] # "off" => pc["health"] # "off" \/ checker' = TRUE
<1> USE DEF ControlTypeOK, LaunchOrder, Goroutine, At, Goto, Begin
<1>1. CASE SubscriptionStep \/ EventStep
  BY <1>1 DEF SubscriptionStep, OuterLoop, PrepareSubscribe, Subscribe, SubscribeError, InnerLoop,
     StreamBroken, Abort, EventStep, HandleSubscribed, HandleLaunch, HandleKill,
     HandleMessage, HandleAcknowledged
<1>2. CASE LaunchSteps
  BY <1>2 DEF LaunchSteps, LaunchPreCreate, LaunchCreate, LaunchAssign, LaunchPreRun,
     LaunchRun, LaunchPostRun, LaunchHealthCheck, LaunchStep
<1>3. CASE ReceiveSignal \/ WaitReturns \/ HealthStep
  BY <1>3 DEF ReceiveSignal, WaitReturns, HealthStep, HealthStart, HealthBeat,
     HealthDone, HealthExited
<1>4. CASE CheckerStep \/ ContainerStep \/ UNCHANGED vars
  BY <1>4 DEF CheckerStep, ContainerStep, vars, controlVars
<1>5. ASSUME NEW g \in Goroutine, SharedStep(g)
      PROVE  /\ pc'["waiter"] = "flag" => pc["waiter"] = "flag"
             /\ pc'["health"] # "off" => pc["health"] # "off"
  <2>1. CASE UpdateError(g) \/ RecordUpdate(g)
    <3>1. pc[g] \in {"update", "record"} /\ \E ok \in BOOLEAN : Return(g, ok)
      BY <2>1 DEF UpdateError, RecordUpdate
    <3>2. g = "waiter" => pc'["waiter"] # "flag"
      <4> SUFFICES ASSUME g = "waiter"
                   PROVE  pc'["waiter"] # "flag"
        OBVIOUS
      <4>1. pc' = [pc EXCEPT !["waiter"] = "finished"]
        BY <3>1, Zenon DEF Return
      <4> QED
        BY <4>1
    <3> QED
      BY <3>1, <3>2, ReturnCases
  <2>2. CASE ~UpdateError(g) /\ ~RecordUpdate(g)
    BY <1>5, <2>2 DEF SharedStep, KillSetsFlag, TearDownQuit, TearDownPreStop,
       TearDownStop, TearDownPostStop, SendUpdate
  <2> QED
    BY <2>1, <2>2
<1> QED
  BY <1>1, <1>2, <1>3, <1>4, <1>5 DEF Next

LEMMA ExitStep ==
  ASSUME "stop" \notin Faults, "unhook" \notin Faults,
         BooksInv, MainInv, TearInv, ExitInv, [Next]_vars
  PROVE  ExitInv'
<1> USE DEF BooksInv, TypeOK
<1>1. Unruled("main")' => ~rules'
  <2>1. CASE Unruled("main")
    <3>1. ~rules /\ pc["main"] \notin LaunchLabels
      BY <2>1 DEF ExitInv, Unruled, LaunchLabels
    <3> QED
      BY <3>1, StaysDown
  <2>2. CASE TearDownPreStop("main")
    <3>1. PICK ok \in Outcomes("unhook", TRUE) : rules' = (rules /\ ~ok)
      BY <2>2 DEF TearDownPreStop
    <3>2. ok
      BY <3>1, Zenon DEF Outcomes
    <3> QED
      BY <3>1, <3>2, Zenon
  <2> QED
    BY <2>1, <2>2, PastStarts DEF Goroutine
<1>2. Stopped("main")' => container' # "running"
  <2>1. CASE Stopped("main")
    <3>1. container # "running" /\ pc["main"] \notin LaunchLabels
      BY <2>1 DEF ExitInv, Stopped, LaunchLabels
    <3> QED
      BY <3>1, StaysDown
  <2> QED
    BY <2>1, StopWorks, PastStarts DEF Goroutine
<1>3. Unruled("main") /\ Stopped("main") => Clean'
  <2> SUFFICES ASSUME Unruled("main"), Stopped("main")
               PROVE  Clean'
    OBVIOUS
  <2>1. Clean /\ pc["main"] \notin LaunchLabels
    BY DEF ExitInv, Unruled, Clean, LaunchLabels
  <2> QED
    BY <2>1, StaysDown DEF Clean
<1>4. Clean /\ pc["main"] \in {"inner", "outer", "returned", "failed"} => Clean'
  BY StaysDown DEF Clean, LaunchLabels
<1>5. pc'["main"] = "failed" => Clean'
  BY <1>3, <1>4, MainLeaves DEF ExitInv
<1>6. pc'["main"] = "returned" => shutdown'
  BY MainLeaves DEF ExitInv
<1>7. pc'["waiter"] # "flag"
  BY OthersStart DEF ExitInv
<1>8. checker' = checker \/ (checker' = TRUE /\ checker' # checker)
  BY CheckerInstalled DEF LaunchHealthCheck, TaskTypeOK, At, Begin, Goto, ControlTypeOK
<1>9. pc'["health"] # "off" => checker'
  BY <1>8, OthersStart DEF ExitInv
<1>10. ASSUME shutdown', ~checker', pc'["signals"] = "idle", ~Tearing'
       PROVE  pc'["main"] \in {"inner", "outer", "returned", "failed"} /\ Clean'
  <2>1. ~checker /\ pc["signals"] = "idle"
    BY <1>8, <1>10, StartsOnce
  <2>2. shutdown
    <3> SUFFICES ASSUME ~shutdown
                 PROVE  FALSE
      OBVIOUS
    <3>1. PICK g \in Goroutine : KillSetsFlag(g)
      BY <1>10, FlagSetBy
    <3>2. pc[g] = "flag" /\ pc' = [pc EXCEPT ![g] = "quit"] /\ call' = call
      BY <3>1 DEF KillSetsFlag, At, Goto
    <3>3. g # "signals" /\ g # "waiter"
      BY <2>1, <3>2 DEF ExitInv
    <3>4. g # "health"
      BY <2>1, <3>2 DEF ExitInv
    <3>5. g = "main"
      BY <3>3, <3>4 DEF Goroutine
    <3>6. call["main"] # "launch"
      BY <3>2, <3>5 DEF MainInv, MainCalls, KillLabels
    <3> QED
      BY <1>10, <3>2, <3>5, <3>6 DEF Tearing, KillLabels, ControlTypeOK, Goroutine
  <2>3. CASE Tearing
    BY <1>3, <1>10, <2>3, MainLeaves
  <2>4. CASE ~Tearing
    <3>1. pc["main"] \in {"inner", "outer", "returned", "failed"} /\ Clean
      BY <2>1, <2>2, <2>4 DEF ExitInv
    <3> QED
      BY <1>4, <2>2, <3>1, MainLeaves
  <2> QED
    BY <2>3, <2>4
<1> QED
  BY <1>1, <1>2, <1>5, <1>6, <1>7, <1>9, <1>10 DEF ExitInv

(* When the stop and the hooks that take rules back do not fail, Execute     *)
(* leaves no running container and no rule on the host when it fails, and    *)
(* when it returns unless a signal or a checker sent it away, whatever else  *)
(* fails and whenever signals come (executor.go:183-206, 455-464).           *)
THEOREM ExitIsClean ==
  ASSUME "stop" \notin Faults, "unhook" \notin Faults
  PROVE  Spec => []ExitClean
<1>1. Init => ExitInv
  BY DEF Init, ExitInv, Unruled, Stopped, Goroutine
<1>2. BooksInv /\ MainInv /\ TearInv /\ ExitInv /\ [Next]_vars => ExitInv'
  BY ExitStep
<1>3. ExitInv => ExitClean
  BY DEF ExitInv, ExitClean, Exited, Tearing, Clean, KillLabels, UpdateLabels
<1> QED
  BY <1>1, <1>2, <1>3, BooksInvariant, MainInvariant, TearInvariant, PTL DEF Spec
-----------------------------------------------------------------------------
(* What a kill that sends main away tells the agent, and what it leaves.     *)

PastFlag == {"quit", "preStop", "stop", "postStop", "update", "record"}
Killing(g) == call[g] \in {"kill", "abort"} /\ pc[g] \in PastFlag
KilledTold == \E u \in accepted \cup lost : StateOf(u) = "KILLED"

(* A goroutine sets Shutdown in a kill, and each kill that set it reports    *)
(* TASK_KILLED or is on its way.                                             *)
TellInv ==
  /\ \A g \in Goroutine : call[g] = "abort" => g = "main"
  /\ \A g \in Goroutine : pc[g] = "flag" => call[g] \in {"kill", "abort"}
  /\ shutdown => KilledTold \/ \E g \in Goroutine : Killing(g)
  /\ pc["main"] = "failed" => KilledTold
  /\ pc["main"] = "returned" => shutdown

(* Where Return takes a goroutine, and in which call.                        *)
LEMMA ReturnCalls ==
  ASSUME NEW g \in Goroutine, NEW ok \in BOOLEAN, Return(g, ok)
  PROVE  \/ /\ g = "main"
            /\ pc' = [pc EXCEPT !["main"] = "flag"]
            /\ call' = [call EXCEPT !["main"] = "abort"]
         \/ /\ g = "main" /\ call["main"] = "launch"
            /\ pc' = [pc EXCEPT !["main"] = "inner", !["waiter"] = "waiting"]
            /\ call' = [call EXCEPT !["main"] = "none"]
         \/ \E label \in {"quit", "inner", "failed", "select", "finished"},
               c \in {"fail", "none"} :
              /\ pc' = [pc EXCEPT ![g] = label]
              /\ call' = [call EXCEPT ![g] = c]
              /\ label = "failed" => call[g] = "abort"
<1>1. CASE g = "main" /\ call["main"] = "launch"
  BY <1>1, Zenon DEF Return, Begin, Goto
<1>2. CASE g = "main" /\ call["main"] = "kill"
  BY <1>2, Zenon DEF Return, Begin, Goto
<1>3. CASE g = "main" /\ call["main"] = "fail"
  BY <1>3, Zenon DEF Return, Begin, Goto
<1>4. CASE g = "main" /\ call["main"] = "abort"
  BY <1>4, Zenon DEF Return, Begin, Goto
<1>5. CASE g # "main" \/ call["main"] \notin {"launch", "kill", "fail", "abort"}
  <2>1. Begin(g, "select", "none") \/ Begin(g, "finished", "none")
    BY <1>5, Zenon DEF Return
  <2> QED
    BY <2>1, Zenon DEF Begin, Goto
<1> QED
  BY <1>1, <1>2, <1>3, <1>4, <1>5

(* From the flag to the report, a goroutine goes on in the call it is in.    *)
LEMMA CallGoesOn ==
  ASSUME ControlTypeOK, LaunchOrder, [Next]_vars, NEW g \in Goroutine, pc[g] \in PastFlag,
         ~UpdateError(g), ~RecordUpdate(g)
  PROVE  /\ call'[g] = call[g]
         /\ \/ pc'[g] = pc[g]
            \/ pc[g] = "quit" /\ pc'[g] = "preStop"
            \/ pc[g] = "preStop" /\ pc'[g] = "stop"
            \/ pc[g] = "stop" /\ pc'[g] = "postStop" /\ TearDownStop(g)
            \/ pc[g] = "postStop" /\ pc'[g] = "update"
            \/ pc[g] = "update" /\ pc'[g] = "record"
<1> USE DEF PastFlag
<1>1. CASE pc[g] \in {"preStop", "stop", "postStop"}
  BY <1>1, TearDownOrder
<1>2. CASE pc[g] \in {"quit", "update", "record"}
  <2> USE DEF ControlTypeOK, LaunchOrder, LaunchLabels, Goroutine, At, Goto, Begin
  <2>1. CASE SubscriptionStep \/ EventStep
    BY <1>2, <2>1 DEF SubscriptionStep, OuterLoop, PrepareSubscribe, Subscribe, SubscribeError, InnerLoop,
       StreamBroken, Abort, EventStep, HandleSubscribed, HandleLaunch, HandleKill,
       HandleMessage, HandleAcknowledged
  <2>2. CASE LaunchSteps
    BY <1>2, <2>2 DEF LaunchSteps, LaunchPreCreate, LaunchCreate, LaunchAssign,
       LaunchPreRun, LaunchRun, LaunchPostRun, LaunchHealthCheck, LaunchStep
  <2>3. CASE ReceiveSignal \/ WaitReturns \/ HealthStep
    BY <1>2, <2>3 DEF ReceiveSignal, WaitReturns, HealthStep, HealthStart, HealthBeat,
       HealthDone, HealthExited
  <2>4. CASE CheckerStep \/ ContainerStep \/ UNCHANGED vars
    BY <2>4 DEF CheckerStep, ContainerStep, vars, controlVars
  <2>5. ASSUME NEW h \in Goroutine, SharedStep(h), h # g
        PROVE  pc'[g] = pc[g] /\ call'[g] = call[g]
    <3>1. CASE UpdateError(h) \/ RecordUpdate(h)
      <4>1. \E ok \in BOOLEAN : Return(h, ok)
        BY <3>1 DEF UpdateError, RecordUpdate
      <4> QED
        BY <1>2, <2>5, <4>1, ReturnCases
    <3>2. CASE ~UpdateError(h) /\ ~RecordUpdate(h)
      BY <2>5, <3>2 DEF SharedStep, KillSetsFlag, TearDownQuit, TearDownPreStop,
         TearDownStop, TearDownPostStop, SendUpdate
    <3> QED
      BY <3>1, <3>2
  <2>6. CASE SharedStep(g)
    <3>1. TearDownQuit(g) \/ SendUpdate(g)
      BY <1>2, <2>6 DEF SharedStep, KillSetsFlag, TearDownPreStop, TearDownStop,
         TearDownPostStop
    <3> QED
      BY <3>1 DEF TearDownQuit, SendUpdate
  <2> QED
    BY <2>1, <2>2, <2>3, <2>4, <2>5, <2>6 DEF Next
<1> QED
  BY <1>1, <1>2

LEMMA ToldStays ==
  ASSUME KilledTold, [Next]_vars
  PROVE  KilledTold'
<1>1. accepted \subseteq accepted' /\ lost \subseteq lost'
  BY LedgerCases DEF ledgerVars, HandleAcknowledged, SendUpdate, UpdateError,
     RecordUpdate, agentVars
<1> QED
  BY <1>1 DEF KilledTold, StateOf

(* A kill that comes to its end has told the agent, or its call failed.      *)
LEMMA KillTells ==
  ASSUME Books, NEW g \in Goroutine, call[g] \in {"kill", "abort"},
         UpdateError(g) \/ RecordUpdate(g)
  PROVE  KilledTold'
<1>1. CurrentUpdate(g).call \in {"kill", "abort"}
  BY DEF CurrentUpdate
<1>2. CurrentUpdate(g) \in accepted' \cup lost'
  <2>1. CASE UpdateError(g)
    BY <2>1 DEF UpdateError
  <2>2. CASE RecordUpdate(g)
    BY <2>2 DEF RecordUpdate, At, Books, agentVars
  <2> QED
    BY <2>1, <2>2
<1> QED
  BY <1>1, <1>2 DEF KilledTold, StateOf

(* Who is sent to abort, and who sets Shutdown.                              *)
LEMMA FlagCalls ==
  ASSUME ControlTypeOK, LaunchOrder, [Next]_vars, NEW g \in Goroutine
  PROVE  /\ call'[g] = "abort" => call[g] = "abort" \/ g = "main"
         /\ pc'[g] = "flag" =>
              call'[g] \in {"kill", "abort"} \/ (pc[g] = "flag" /\ call'[g] = call[g])
<1> USE DEF ControlTypeOK, LaunchOrder, LaunchLabels, Goroutine, At, Goto, Begin
<1>1. CASE SubscriptionStep \/ EventStep
  BY <1>1 DEF SubscriptionStep, OuterLoop, PrepareSubscribe, Subscribe, SubscribeError, InnerLoop,
     StreamBroken, Abort, EventStep, HandleSubscribed, HandleLaunch, HandleKill,
     HandleMessage, HandleAcknowledged
<1>2. CASE LaunchSteps
  BY <1>2 DEF LaunchSteps, LaunchPreCreate, LaunchCreate, LaunchAssign, LaunchPreRun,
     LaunchRun, LaunchPostRun, LaunchHealthCheck, LaunchStep
<1>3. CASE ReceiveSignal \/ WaitReturns \/ HealthStep
  BY <1>3 DEF ReceiveSignal, WaitReturns, HealthStep, HealthStart, HealthBeat,
     HealthDone, HealthExited
<1>4. CASE CheckerStep \/ ContainerStep \/ UNCHANGED vars
  BY <1>4 DEF CheckerStep, ContainerStep, vars, controlVars
<1>5. ASSUME NEW h \in Goroutine, SharedStep(h)
      PROVE  /\ call'[g] = "abort" => call[g] = "abort" \/ g = "main"
             /\ pc'[g] = "flag" =>
                  call'[g] \in {"kill", "abort"} \/ (pc[g] = "flag" /\ call'[g] = call[g])
  <2>1. CASE UpdateError(h) \/ RecordUpdate(h)
    <3>1. \E ok \in BOOLEAN : Return(h, ok)
      BY <2>1 DEF UpdateError, RecordUpdate
    <3> QED
      BY <3>1, ReturnCalls
  <2>2. CASE ~UpdateError(h) /\ ~RecordUpdate(h)
    BY <1>5, <2>2 DEF SharedStep, KillSetsFlag, TearDownQuit, TearDownPreStop,
       TearDownStop, TearDownPostStop, SendUpdate
  <2> QED
    BY <2>1, <2>2
<1> QED
  BY <1>1, <1>2, <1>3, <1>4, <1>5 DEF Next

(* Setting Shutdown puts a goroutine past the flag of its kill.              *)
LEMMA FlagKills ==
  ASSUME ControlTypeOK, TellInv, [Next]_vars, ~shutdown, shutdown'
  PROVE  \E g \in Goroutine :
           KillSetsFlag(g) /\ call'[g] \in {"kill", "abort"} /\ pc'[g] = "quit"
<1>1. PICK g \in Goroutine : KillSetsFlag(g)
  BY FlagSetBy
<1>2. pc[g] = "flag" /\ pc' = [pc EXCEPT ![g] = "quit"] /\ call' = call
  BY <1>1 DEF KillSetsFlag, At, Goto
<1>3. call'[g] \in {"kill", "abort"} /\ pc'[g] = "quit"
  BY <1>2 DEF TellInv, ControlTypeOK
<1> QED
  BY <1>1, <1>3

LEMMA TellStep ==
  ASSUME BooksInv, MainInv, TellInv, [Next]_vars
  PROVE  TellInv'
<1> USE DEF BooksInv, TypeOK
<1>1. KilledTold => KilledTold'
  BY ToldStays
<1>2. ASSUME NEW g \in Goroutine, Killing(g)
      PROVE  KilledTold' \/ Killing(g)'
  <2>1. CASE UpdateError(g) \/ RecordUpdate(g)
    BY <1>2, <2>1, KillTells DEF Killing
  <2>2. CASE ~UpdateError(g) /\ ~RecordUpdate(g)
    <3>1. /\ call'[g] = call[g]
          /\ \/ pc'[g] = pc[g]
             \/ pc'[g] \in {"preStop", "stop", "postStop", "update", "record"}
      BY <1>2, <2>2, CallGoesOn DEF Killing
    <3> QED
      BY <1>2, <3>1 DEF Killing, PastFlag
  <2> QED
    BY <2>1, <2>2
<1>3. shutdown' => KilledTold' \/ \E g \in Goroutine : Killing(g)'
  <2>1. CASE shutdown
    BY <1>1, <1>2, <2>1 DEF TellInv
  <2>2. CASE ~shutdown
    BY <2>2, FlagKills DEF Killing, PastFlag
  <2> QED
    BY <2>1, <2>2
<1>4. ASSUME pc'["main"] = "failed", pc["main"] # "failed"
      PROVE  KilledTold'
  <2>1. pc["main"] \in PastFlag
    BY <1>4, MainLeaves DEF Unruled, PastFlag
  <2>2. UpdateError("main") \/ RecordUpdate("main")
    BY <1>4, <2>1, CallGoesOn DEF Goroutine, PastFlag
  <2>3. PICK ok \in BOOLEAN : Return("main", ok)
    BY <2>2 DEF UpdateError, RecordUpdate
  <2>4. call["main"] = "abort"
    BY <1>4, <2>3, ReturnCalls DEF ControlTypeOK, Goroutine
  <2> QED
    BY <2>2, <2>4, KillTells DEF Goroutine
<1>5. pc'["main"] = "failed" => KilledTold'
  BY <1>1, <1>4 DEF TellInv
<1>6. pc'["main"] = "returned" => shutdown'
  BY MainLeaves DEF TellInv
<1>7. ASSUME NEW g \in Goroutine
      PROVE  /\ call'[g] = "abort" => g = "main"
             /\ pc'[g] = "flag" => call'[g] \in {"kill", "abort"}
  BY FlagCalls DEF TellInv
<1> QED
  BY <1>3, <1>5, <1>6, <1>7 DEF TellInv

LEMMA TellInvariant == Spec => []TellInv
<1>1. Init => TellInv
  BY DEF Init, TellInv, Goroutine
<1>2. BooksInv /\ MainInv /\ TellInv /\ [Next]_vars => TellInv'
  BY TellStep
<1> QED
  BY <1>1, <1>2, BooksInvariant, MainInvariant, PTL DEF Spec

(* Whoever kills when main has left Execute is another goroutine, in         *)
(* handleKill.                                                               *)
LEMMA KillerAtExit ==
  ASSUME MainInv, TellInv, Exited, NEW g \in Goroutine, call[g] \in {"kill", "abort"}
  PROVE  g # "main" /\ call[g] = "kill"
BY DEF MainInv, MainCalls, MainLabels, TellInv, Exited

(* Whatever fails and whenever signals come, Execute does not end in         *)
(* silence: the call with TASK_KILLED was made, or, when it returns, another *)
(* goroutine is on its way to it (executor.go:183-206, 302-311, 379-400,     *)
(* 503-510).                                                                 *)
THEOREM ExitTellsTheAgent == Spec => []ExitIsTold
<1>1. MainInv /\ TellInv => ExitIsTold
  <2> SUFFICES ASSUME MainInv, TellInv
               PROVE  ExitIsTold
    OBVIOUS
  <2>1. pc["main"] = "failed" => KilledTold
    BY DEF TellInv
  <2>2. ASSUME pc["main"] = "returned", ~KilledTold
        PROVE  \E g \in Goroutine \ {"main"} : call[g] = "kill"
    <3>1. PICK g \in Goroutine : Killing(g)
      BY <2>2 DEF TellInv
    <3> QED
      BY <2>2, <3>1, KillerAtExit DEF Killing, Exited
  <2> QED
    BY <2>1, <2>2 DEF ExitIsTold, KilledTold
<1> QED
  BY <1>1, MainInvariant, TellInvariant, PTL

(* A kill that set Shutdown and has not stopped the container yet.           *)
MidKill(g) == call[g] \in {"kill", "abort"} /\ pc[g] \in {"quit", "preStop", "stop"}

(* Once Shutdown is set there is nothing left to launch, and the container   *)
(* and its rules are gone, or a goroutine is on its way to take them down.   *)
LeftInv ==
  /\ shutdown => NoLaunch
  /\ \A g \in Goroutine : Unruled(g) => ~rules
  /\ shutdown => Clean \/ \E g \in Goroutine : MidKill(g)
  /\ pc["main"] = "failed" => Clean

LeftFacts == BooksInv /\ MainInv /\ Senders /\ TearInv /\ Truth /\ TellInv

LEMMA LeftStep ==
  ASSUME "stop" \notin Faults, "unhook" \notin Faults, Signals # "any",
         LeftFacts, LeftInv, [Next]_vars
  PROVE  LeftInv'
<1> USE DEF LeftFacts, BooksInv, TypeOK
<1>1. NoLaunch => pc["main"] \notin LaunchLabels
  BY DEF NoLaunch
<1>2. NoLaunch => NoLaunch'
  BY NoLaunchStays
<1>3. NoLaunch /\ Clean => Clean'
  BY <1>1, StaysDown DEF Clean
<1>4. ASSUME NEW g \in Goroutine, Unruled(g)
      PROVE  NoLaunch /\ ~rules
  BY <1>4, PastLaunch DEF LeftInv, Unruled, KillLabels, UpdateLabels
<1>5. ASSUME NEW g \in Goroutine, Unruled(g)'
      PROVE  ~rules'
  <2>1. CASE Unruled(g)
    BY <1>1, <1>4, <2>1, StaysDown
  <2>2. CASE TearDownPreStop(g)
    <3>1. PICK ok \in Outcomes("unhook", TRUE) : rules' = (rules /\ ~ok)
      BY <2>2 DEF TearDownPreStop
    <3>2. ok
      BY <3>1, Zenon DEF Outcomes
    <3> QED
      BY <3>1, <3>2, Zenon
  <2> QED
    BY <1>5, <2>1, <2>2, PastStarts
<1>6. ASSUME NEW g \in Goroutine, MidKill(g)
      PROVE  Clean' \/ MidKill(g)'
  <2>1. pc[g] \in PastFlag /\ ~UpdateError(g) /\ ~RecordUpdate(g)
    BY <1>6 DEF MidKill, PastFlag, UpdateError, RecordUpdate, At
  <2>2. /\ call'[g] = call[g]
        /\ \/ pc'[g] \in {"quit", "preStop", "stop"}
           \/ pc[g] = "stop" /\ TearDownStop(g)
    BY <1>6, <2>1, CallGoesOn DEF MidKill
  <2>3. CASE pc[g] = "stop" /\ TearDownStop(g)
    <3>1. Unruled(g)
      BY <1>6, <2>3 DEF MidKill, Unruled
    <3>2. ~rules'
      BY <1>1, <1>4, <3>1, StaysDown
    <3>3. container' # "running"
      BY <2>3, StopWorks
    <3> QED
      BY <3>2, <3>3 DEF Clean
  <2>4. CASE pc'[g] \in {"quit", "preStop", "stop"}
    BY <1>6, <2>2, <2>4 DEF MidKill
  <2> QED
    BY <2>2, <2>3, <2>4
<1>7. ASSUME ~shutdown, shutdown'
      PROVE  NoLaunch' /\ \E g \in Goroutine : MidKill(g)'
  <2>1. PICK g \in Goroutine :
          KillSetsFlag(g) /\ call'[g] \in {"kill", "abort"} /\ pc'[g] = "quit"
    BY <1>7, FlagKills
  <2>2. /\ pc[g] = "flag" /\ pc' = [pc EXCEPT ![g] = "quit"] /\ call' = call
        /\ launched' = launched
    BY <2>1 DEF KillSetsFlag, At, Goto, agentVars
  <2>3. MidKill(g)'
    BY <2>1 DEF MidKill
  <2>4. SUFFICES NoLaunch'
    BY <2>3
  <2>5. CASE g = "main"
    <3>1. pc'["main"] = "quit"
      BY <2>1, <2>5
    <3> QED
      BY <1>7, <3>1 DEF NoLaunch, LaunchLabels
  <2>6. CASE g = "signals"
    <3>1. NoLaunch
      BY <2>2, <2>6 DEF Senders, LaunchOver, NoLaunch
    <3> QED
      BY <1>2, <3>1
  <2>7. CASE g = "health" \/ g = "waiter"
    <3>1. NoLaunch
      BY <2>2, <2>7 DEF NoLaunch, LaunchOrder
    <3> QED
      BY <1>2, <3>1
  <2> QED
    BY <2>5, <2>6, <2>7 DEF Goroutine
<1>8. shutdown' => NoLaunch'
  BY <1>2, <1>7 DEF LeftInv
<1>9. shutdown' => Clean' \/ \E g \in Goroutine : MidKill(g)'
  BY <1>3, <1>6, <1>7 DEF LeftInv
<1>10. pc'["main"] = "failed" => Clean'
  <2>1. CASE pc["main"] = "failed"
    BY <2>1, StaysDown DEF LeftInv, Clean, LaunchLabels
  <2>2. CASE Unruled("main") /\ Stopped("main")
    <3>1. Clean /\ NoLaunch
      BY <1>4, <2>2 DEF Truth, Clean, Goroutine
    <3> QED
      BY <1>3, <3>1
  <2> QED
    BY <2>1, <2>2, MainLeaves
<1> QED
  BY <1>5, <1>8, <1>9, <1>10 DEF LeftInv

(* When the stop and the hooks that take rules back do not fail, and no      *)
(* signal comes before the launch is over, the process leaves a running      *)
(* container or a rule on the host only when it ends while another goroutine *)
(* is in a kill whose stop is still to come (executor.go:177, 302-311,       *)
(* 455-464, 503-510).                                                        *)
THEOREM LeavesOnlyMidKill ==
  ASSUME "stop" \notin Faults, "unhook" \notin Faults, Signals # "any"
  PROVE  Spec => []LeftOnlyMidKill
<1>1. Init => Senders /\ Truth /\ LeftInv
  BY DEF Init, Senders, Truth, Stopped, Unruled, LeftInv, Goroutine
<1>2. BooksInv /\ MainInv /\ Senders /\ [Next]_vars => Senders'
  BY SendersStep
<1>3. BooksInv /\ MainInv /\ Senders /\ TearInv /\ Truth /\ [Next]_vars => Truth'
  BY TruthStep
<1>4. BooksInv /\ MainInv /\ Senders /\ TearInv /\ Truth /\ TellInv /\ LeftInv /\ [Next]_vars
        => LeftInv'
  BY LeftStep DEF LeftFacts
<1>5. MainInv /\ TellInv /\ LeftInv => LeftOnlyMidKill
  <2> SUFFICES ASSUME MainInv, TellInv, LeftInv, Exited, ~Clean
               PROVE  \E g \in Goroutine \ {"main"} :
                        call[g] = "kill" /\ pc[g] \in {"quit", "preStop", "stop"}
    BY DEF LeftOnlyMidKill, Clean
  <2>1. shutdown
    BY DEF Exited, TellInv, LeftInv
  <2>2. PICK g \in Goroutine : MidKill(g)
    BY <2>1 DEF LeftInv
  <2> QED
    BY <2>2, KillerAtExit DEF MidKill
<1> QED
  BY <1>1, <1>2, <1>3, <1>4, <1>5, BooksInvariant, MainInvariant, TearInvariant,
     TellInvariant, PTL DEF Spec
-----------------------------------------------------------------------------
(* The task as the framework sees it.                                        *)

(* The health goroutine runs for a task with a check that was started; main  *)
(* alone launches, and the waiter alone finishes, a task.                    *)
TaskInv ==
  /\ pc["health"] # "off" => HasRun /\ checkType # "NONE"
  /\ pc["main"] = "inspect" => checkType # "NONE"
  /\ \A g \in Goroutine : call[g] = "launch" => g = "main"
  /\ \A g \in Goroutine : call[g] = "finish" => g = "waiter"

LEMMA CheckTypeFixed ==
  ASSUME [Next]_vars
  PROVE  checkType' = checkType
<1>1. [CkNext]_ckVars
  BY CheckerSimulation
<1>2. check' = check
  BY <1>1 DEF ckVars, CkNext, CkStart, CkTick, CkInternal, CkDelayElapsed, CkGraceExpire,
     CkTake, CkHealthyResult, CkUnhealthyResult, CkUnhealthy, CkHang, CkHungEnds, CkSend,
     CkSendHealthy, CkSendDone, CkSendUnsupported, CkSendExited, CkRecvQuit
<1> QED
  BY <1>2 DEF checkType

LEMMA TaskInvStep ==
  ASSUME BooksInv, FinishedInv, TaskInv, [Next]_vars
  PROVE  TaskInv'
<1> USE DEF BooksInv, TypeOK, ControlTypeOK, LaunchOrder, Goroutine, At, Goto, Begin
<1>1. HasRun => HasRun'
  BY ContainerMoves
<1>2. checkType' = checkType
  BY CheckTypeFixed
<1> DEFINE Where ==
      /\ pc'["health"] # "off" =>
           pc["health"] # "off" \/ (pc["main"] = "inspect" /\ LaunchSteps)
      /\ pc'["main"] = "inspect" => pc["main"] = "inspect" \/ checkType # "NONE"
      /\ \A g \in Goroutine : call'[g] = "launch" => call[g] = "launch" \/ g = "main"
      /\ \A g \in Goroutine : call'[g] = "finish" => call[g] = "finish" \/ g = "waiter"
<1>3. CASE SubscriptionStep \/ EventStep
  <2>1. Where
    BY <1>3 DEF SubscriptionStep, OuterLoop, PrepareSubscribe, Subscribe, SubscribeError, InnerLoop,
       StreamBroken, Abort, EventStep, HandleSubscribed, HandleLaunch, HandleKill,
       HandleMessage, HandleAcknowledged
  <2> QED
    BY <1>1, <1>2, <2>1 DEF TaskInv, FinishedInv
<1>4. CASE LaunchSteps
  <2>1. Where
    <3>1. CASE LaunchPostRun
      BY <3>1 DEF LaunchPostRun, LaunchStep
    <3>2. CASE LaunchHealthCheck
      BY <1>4, <3>2 DEF LaunchHealthCheck
    <3>3. CASE LaunchPreCreate \/ LaunchCreate \/ LaunchAssign \/ LaunchPreRun \/ LaunchRun
      <4>1. /\ pc'["health"] = pc["health"] /\ pc'["main"] # "inspect"
            /\ \A g \in Goroutine : call'[g] = "launch" => call[g] = "launch"
            /\ \A g \in Goroutine : call'[g] = "finish" => call[g] = "finish"
        BY <3>3 DEF LaunchPreCreate, LaunchCreate, LaunchAssign, LaunchPreRun, LaunchRun,
           LaunchStep
      <4> QED
        BY <4>1
    <3> QED
      BY <1>4, <3>1, <3>2, <3>3 DEF LaunchSteps
  <2> QED
    BY <1>1, <1>2, <2>1 DEF TaskInv, FinishedInv
<1>5. CASE ReceiveSignal \/ WaitReturns \/ HealthStep
  <2>1. Where
    BY <1>5 DEF ReceiveSignal, WaitReturns, HealthStep, HealthStart, HealthBeat,
       HealthDone, HealthExited
  <2> QED
    BY <1>1, <1>2, <2>1 DEF TaskInv, FinishedInv
<1>6. CASE CheckerStep \/ ContainerStep \/ UNCHANGED vars
  <2>1. pc' = pc /\ call' = call
    BY <1>6 DEF CheckerStep, ContainerStep, vars, controlVars
  <2> QED
    BY <1>1, <1>2, <2>1 DEF TaskInv
<1>7. ASSUME NEW h \in Goroutine, SharedStep(h)
      PROVE  TaskInv'
  <2>1. CASE UpdateError(h) \/ RecordUpdate(h)
    <3>1. pc[h] \in {"update", "record"} /\ \E ok \in BOOLEAN : Return(h, ok)
      BY <2>1 DEF UpdateError, RecordUpdate
    <3>2. Where
      BY <3>1, ReturnCases
    <3> QED
      BY <1>1, <1>2, <3>2 DEF TaskInv, FinishedInv
  <2>2. CASE ~UpdateError(h) /\ ~RecordUpdate(h)
    <3>1. Where
      BY <1>7, <2>2 DEF SharedStep, KillSetsFlag, TearDownQuit, TearDownPreStop,
         TearDownStop, TearDownPostStop, SendUpdate
    <3> QED
      BY <1>1, <1>2, <3>1 DEF TaskInv, FinishedInv
  <2> QED
    BY <2>1, <2>2
<1> QED
  BY <1>3, <1>4, <1>5, <1>6, <1>7 DEF Next

LEMMA TaskInvariant == Spec => [](FinishedInv /\ TaskInv)
<1>1. Init => FinishedInv /\ TaskInv
  BY DEF Init, FinishedInv, TaskInv, Told, InCall, KillLabels, UpdateLabels, LaunchLabels, Goroutine
<1>2. BooksInv /\ MainInv /\ FinishedInv /\ [Next]_vars => FinishedInv'
  BY FinishedStep
<1>3. BooksInv /\ FinishedInv /\ TaskInv /\ [Next]_vars => TaskInv'
  BY TaskInvStep
<1> QED
  BY <1>1, <1>2, <1>3, BooksInvariant, MainInvariant, PTL DEF Spec

ToldStates == {StateOf(u) : u \in accepted}

(* Main reports TASK_RUNNING before any end is reported, unless an early     *)
(* signal or a health checker may have reported one.                         *)
LEMMA MainRunsFirst ==
  ASSUME Signals # "any", BooksInv, MainInv, Senders, TaskInv, checkType = "NONE",
         pc["main"] = "update", call["main"] = "launch"
  PROVE  ToldStates \subseteq {"RUNNING"}
<1> USE DEF BooksInv, TypeOK
<1>1. pc["waiter"] = "off" /\ pc["signals"] = "idle" /\ pc["health"] = "off"
  BY DEF LaunchOrder, Senders, LaunchOver, TaskInv
<1>2. Running \notin accepted
  BY FreshUpdate DEF MainUpdate, Running
<1>3. ASSUME NEW u \in accepted, Terminal(u)
      PROVE  FALSE
  <2>1. u.by = "main"
    BY <1>1, <1>2 DEF AgentTypeOK, Update, Goroutine, Senders, RunningFirst
  <2>2. u = MainUpdate(u.call) /\ u.call \in {"kill", "fail", "abort"}
    BY <1>3, <2>1, TerminalCall DEF Senders
  <2> QED
    BY <2>2 DEF MainInv, MainOrder, Sending, Aborting
<1> QED
  BY <1>3 DEF ToldStates, Terminal

(* What the agent hears next, and from where.                                *)
LEMMA NewReport ==
  ASSUME BooksInv, [Next]_vars, accepted' # accepted
  PROVE  \E g \in Goroutine :
           /\ pc[g] = "update"
           /\ accepted' = accepted \cup {CurrentUpdate(g)}
           /\ container' = container
           /\ ToldStates' = ToldStates \cup {StateOf(CurrentUpdate(g))}
<1> USE DEF BooksInv, TypeOK
<1>1. accepted \subseteq accepted'
  BY LedgerCases DEF ledgerVars, HandleAcknowledged, SendUpdate, UpdateError,
     RecordUpdate, agentVars
<1>2. PICK u \in accepted' : u \notin accepted
  BY <1>1
<1>3. PICK g \in Goroutine : pc[g] = "update" /\ (SendUpdate(g) \/ UpdateError(g))
  BY <1>2, AcceptedFrom
<1>4. accepted' = accepted \cup {CurrentUpdate(g)} /\ container' = container
  BY <1>2, <1>3 DEF SendUpdate, UpdateError, dockerVars
<1>5. ToldStates' = ToldStates \cup {StateOf(CurrentUpdate(g))}
  <2>1. \A v \in accepted' : StateOf(v)' = StateOf(v)
    BY DEF StateOf
  <2> QED
    BY <1>4, <2>1 DEF ToldStates
<1> QED
  BY <1>3, <1>4, <1>5

TaskFacts == BooksInv /\ MainInv /\ Senders /\ Truth /\ FinishedInv /\ TaskInv

(* The states of the refined task.                                           *)
LEMMA PhaseIs ==
  /\ Phase = "staging" <=> ~HasRun /\ ~\E u \in accepted : Terminal(u)
  /\ Phase = "up" <=> container = "running" /\ ~\E u \in accepted : Terminal(u)
  /\ Phase \in {"staging", "up", "over"}
BY DEF Phase, Over, HasRun, Ended

(* A report of TASK_RUNNING.                                                 *)
LEMMA RunningReported ==
  ASSUME Signals # "any", TaskFacts, [Next]_vars, NEW g \in Goroutine, pc[g] = "update",
         accepted' = accepted \cup {CurrentUpdate(g)}, container' = container,
         ToldStates' = ToldStates \cup {StateOf(CurrentUpdate(g))}, ~Terminal(CurrentUpdate(g))
  PROVE  Task!ReportRunning
<1> USE DEF TaskFacts, BooksInv, TypeOK
<1>1. StateOf(CurrentUpdate(g)) = "RUNNING"
  BY DEF Terminal
<1>2. call[g] \in {"launch", "beat"}
  BY TerminalCall DEF CurrentUpdate
<1>3. Phase' = Phase
  <2>1. \A u \in accepted' : Terminal(u)' = Terminal(u)
    BY DEF Terminal, StateOf
  <2> QED
    BY <2>1, Zenon DEF Phase, Over
<1>4. checkType' = checkType
  BY CheckTypeFixed
<1>5. HasRun /\ (checkType # "NONE" \/ ToldStates \subseteq {"RUNNING"})
  <2>1. CASE g = "health"
    BY <2>1 DEF TaskInv
  <2>2. CASE g = "main"
    BY <1>2, <2>2, MainRunsFirst DEF FinishedInv, LaunchOrder
  <2>3. CASE g \in {"signals", "waiter"}
    BY <1>2, <2>3 DEF LaunchOrder, TaskInv
  <2> QED
    BY <2>1, <2>2, <2>3 DEF Goroutine
<1>6. Phase # "staging"
  BY <1>5, PhaseIs
<1> QED
  BY <1>1, <1>3, <1>4, <1>5, <1>6, Zenon DEF Task!ReportRunning, ToldStates

(* A report of an end.                                                       *)
LEMMA EndReported ==
  ASSUME TaskFacts, [Next]_vars, NEW g \in Goroutine, pc[g] = "update",
         accepted' = accepted \cup {CurrentUpdate(g)}, container' = container,
         ToldStates' = ToldStates \cup {StateOf(CurrentUpdate(g))}, Terminal(CurrentUpdate(g))
  PROVE  \E state \in Task!TerminalStates : Task!ReportEnd(state)
<1> USE DEF TaskFacts, BooksInv, TypeOK
<1> DEFINE state == StateOf(CurrentUpdate(g))
<1>1. state \in {"KILLED", "FAILED", "FINISHED"}
  BY DEF Terminal, StateOf
<1>2. state \in Task!TerminalStates
  BY <1>1 DEF Task!TerminalStates
<1>3. container # "running"
  BY TerminalCall DEF CurrentUpdate, Truth, Stopped
<1>4. Phase # "up"
  BY <1>3, PhaseIs
<1>5. ASSUME state = "FINISHED"
      PROVE  "RUNNING" \in ToldStates
  <2>1. call[g] \in Call \ {"none"}
    BY DEF ControlTypeOK, FinishedInv, InCall, UpdateLabels
  <2>2. call[g] = "finish"
    BY <1>5, <2>1 DEF StateOf, CurrentUpdate, Call
  <2>3. Running \in accepted
    BY <2>2 DEF TaskInv, RunningFirst
  <2>4. StateOf(Running) = "RUNNING"
    BY DEF StateOf, Running
  <2> QED
    BY <2>3, <2>4 DEF ToldStates
<1>6. Phase' = "over"
  <2>1. CurrentUpdate(g) \in accepted'
    OBVIOUS
  <2>2. \E u \in accepted' : Terminal(u)
    BY <2>1
  <2>3. \A u : Terminal(u)' = Terminal(u)
    BY DEF Terminal, StateOf
  <2>4. Over'
    BY <2>2, <2>3, Zenon DEF Over
  <2> QED
    BY <2>4 DEF Phase
<1>7. checkType' = checkType
  BY CheckTypeFixed
<1>8. Task!ReportEnd(state)
  <2> HIDE DEF state
  <2>1. ToldStates' = ToldStates \cup {state}
    BY DEF state
  <2> QED
    BY <1>4, <1>5, <1>6, <1>7, <2>1, Zenon DEF Task!ReportEnd, ToldStates
<1> QED
  BY <1>2, <1>8

(* The steps that report nothing.                                            *)
LEMMA NothingReported ==
  ASSUME TypeOK, [Next]_vars, accepted' = accepted
  PROVE  [Task!Next]_(Task!lifecycle)
<1> USE DEF TypeOK, DockerTypeOK, ContainerStates
<1>1. ToldStates' = ToldStates
  BY DEF ToldStates, StateOf
<1>2. checkType' = checkType
  BY CheckTypeFixed
<1>3. (HasRun => HasRun') /\ (Ended => Ended')
  BY ContainerMoves
<1>4. /\ Phase' \in {"staging", "up", "over"}
      /\ Phase' = "staging" => Phase = "staging"
      /\ Phase' = "up" => Phase \in {"staging", "up"}
  <2>1. CASE \E u \in accepted : Terminal(u)
    <3>1. Phase = "over" /\ Phase' = "over"
      BY <2>1 DEF Phase, Over, Terminal, StateOf
    <3> QED
      BY <3>1
  <2>2. CASE ~\E u \in accepted : Terminal(u)
    <3>1. /\ Phase = IF Ended THEN "over" ELSE IF container = "running" THEN "up" ELSE "staging"
          /\ Phase' = IF Ended' THEN "over" ELSE IF container' = "running" THEN "up" ELSE "staging"
      BY <2>2 DEF Phase, Over, Ended, Terminal, StateOf
    <3> QED
      BY <1>3, <3>1 DEF HasRun, Ended
  <2> QED
    BY <2>1, <2>2
<1>5. CASE Phase' = "over"
  BY <1>1, <1>2, <1>5, Zenon DEF Task!Next, Task!End, ToldStates
<1>6. CASE Phase = "staging" /\ Phase' = "up"
  BY <1>1, <1>2, <1>6, Zenon DEF Task!Next, Task!Start, ToldStates
<1>7. CASE Phase' = Phase
  BY <1>1, <1>2, <1>7, Zenon DEF Task!lifecycle, ToldStates
<1> QED
  BY <1>4, <1>5, <1>6, <1>7

LEMMA TaskStep ==
  ASSUME Signals # "any", TaskFacts, [Next]_vars
  PROVE  [Task!Next]_(Task!lifecycle)
<1>1. CASE accepted' = accepted
  BY <1>1, NothingReported DEF TaskFacts, BooksInv
<1>2. CASE accepted' # accepted
  <2>1. PICK g \in Goroutine :
          /\ pc[g] = "update"
          /\ accepted' = accepted \cup {CurrentUpdate(g)}
          /\ container' = container
          /\ ToldStates' = ToldStates \cup {StateOf(CurrentUpdate(g))}
    BY <1>2, NewReport DEF TaskFacts
  <2>2. CASE Terminal(CurrentUpdate(g))
    <3>1. \E state \in Task!TerminalStates : Task!ReportEnd(state)
      BY <2>1, <2>2, EndReported
    <3> QED
      BY <3>1, Zenon DEF Task!Next
  <2>3. CASE ~Terminal(CurrentUpdate(g))
    <3>1. Task!ReportRunning
      BY <2>1, <2>3, RunningReported
    <3> QED
      BY <3>1, Zenon DEF Task!Next
  <2> QED
    BY <2>2, <2>3
<1> QED
  BY <1>1, <1>2

(* When no signal comes before the launch is over, and a stop the daemon can *)
(* do does not fail, what four goroutines report of the task follows         *)
(* TaskLifecycle: the task starts at most once, no end of it is reported     *)
(* while it runs, no success before TASK_RUNNING, and TASK_RUNNING never     *)
(* comes after an end unless a health checker reports too                    *)
(* (executor.go:209-311, 402-510).                                           *)
THEOREM TaskFollowsLifecycle ==
  ASSUME "stop" \notin Faults, Signals # "any"
  PROVE  Spec => ImplementsTask
<1>1. Init => Senders /\ Truth /\ Task!Init
  <2> SUFFICES ASSUME Init
               PROVE  Senders /\ Truth /\ Task!Init
    OBVIOUS
  <2>1. Senders /\ Truth
    BY DEF Init, Senders, Truth, Stopped, Goroutine
  <2>2. Phase = "staging" /\ ToldStates = {}
    BY DEF Init, DockerInit, Phase, Over, ToldStates
  <2>3. (checkType # "NONE") \in BOOLEAN
    OBVIOUS
  <2> QED
    BY <2>1, <2>2, <2>3, Zenon DEF Task!Init, ToldStates
<1>2. BooksInv /\ MainInv /\ Senders /\ [Next]_vars => Senders'
  BY SendersStep
<1>3. BooksInv /\ MainInv /\ Senders /\ TearInv /\ Truth /\ [Next]_vars => Truth'
  BY TruthStep
<1>4. BooksInv /\ MainInv /\ Senders /\ Truth /\ (FinishedInv /\ TaskInv) /\ [Next]_vars
        => [Task!Next]_(Task!lifecycle)
  BY TaskStep DEF TaskFacts
<1> QED
  BY <1>1, <1>2, <1>3, <1>4, BooksInvariant, MainInvariant, TearInvariant, TaskInvariant,
     PTL DEF Spec, ImplementsTask, Task!Spec
=============================================================================
