--------------------------- MODULE TerminalProofs ---------------------------
(***************************************************************************)
(* Why the agent gets at most one terminal update of a task with a health  *)
(* checker, unless a stop signal interrupts its launch: the checker takes  *)
(* Quit once, so one goroutine gets past it.  And why main never handles   *)
(* the acknowledgement of a terminal update of its own.                    *)
(***************************************************************************)
EXTENDS UpdateProofs

LEMMA TerminalCall ==
  ASSUME NEW u
  PROVE  Terminal(u) <=> u.call \notin {"launch", "beat"}
BY DEF Terminal, StateOf

(* Goroutine g is past Quit on its way to a terminal update. *)
Ending(g) ==
  \/ pc[g] \in {"preStop", "stop", "postStop"}
  \/ pc[g] \in UpdateLabels /\ call[g] \notin {"launch", "beat"}

QuitTaken == ckPC \in {"sendExited", "returned"}

OneEnding ==
  checker =>
    /\ \A g \in Goroutine : Ending(g) => QuitTaken
    /\ \A u \in accepted : Terminal(u) => QuitTaken
    /\ \A g, h \in Goroutine : Ending(g) /\ Ending(h) => g = h
    /\ \A g \in Goroutine, u \in accepted :
         Ending(g) /\ Terminal(u) => pc[g] = "record" /\ u = CurrentUpdate(g)
    /\ \A u, v \in accepted : Terminal(u) /\ Terminal(v) => u = v

(* Who sent what, as long as a goroutine has not started. *)
Senders ==
  /\ Signals # "any" => pc["signals"] = "idle" \/ LaunchOver
  /\ pc["signals"] = "idle" => \A u \in accepted : u.by # "signals"
  /\ pc["health"] = "off" => \A u \in accepted : u.by # "health"
  /\ \A u \in accepted : u.by = "main" =>
       u = MainUpdate(u.call) /\ u.call \in {"launch", "kill", "fail", "abort"}

LEMMA QuitStays == QuitTaken /\ [Next]_vars => QuitTaken'
<1> SUFFICES ASSUME QuitTaken, [Next]_vars
             PROVE  QuitTaken'
  OBVIOUS
<1> QED
  BY CheckerSimulation DEF QuitTaken, ckVars, CkNext, CkStart, CkTick, CkInternal,
     CkDelayElapsed, CkGraceExpire, CkTake, CkHealthyResult, CkUnhealthyResult,
     CkUnhealthy, CkHang, CkHungEnds, CkSend, CkSendHealthy, CkSendDone,
     CkSendUnsupported, CkSendExited, CkRecvQuit

(* Only Quit lets a goroutine on to a terminal update.                       *)
LEMMA EndingStarts ==
  ASSUME ControlTypeOK, LaunchOrder, [Next]_vars, NEW g \in Goroutine, Ending(g)'
  PROVE  Ending(g) \/ TearDownQuit(g)
<1> USE DEF ControlTypeOK, LaunchOrder, Goroutine, At, Goto, Begin, Ending, UpdateLabels,
            LaunchLabels
<1>1. CASE SubscriptionStep \/ EventStep
  BY <1>1 DEF SubscriptionStep, OuterLoop, PrepareSubscribe, Subscribe, SubscribeError, InnerLoop,
     StreamBroken, Abort, EventStep, HandleSubscribed, HandleLaunch, HandleKill,
     HandleMessage, HandleAcknowledged
<1>2. CASE LaunchSteps
  <2>1. CASE LaunchPreCreate \/ LaunchCreate \/ LaunchAssign
    BY <2>1 DEF LaunchPreCreate, LaunchCreate, LaunchAssign, LaunchStep
  <2>2. CASE LaunchPreRun \/ LaunchRun
    BY <2>2 DEF LaunchPreRun, LaunchRun, LaunchStep
  <2>3. CASE LaunchPostRun
    BY <2>3 DEF LaunchPostRun, LaunchStep
  <2>4. CASE LaunchHealthCheck
    BY <2>4 DEF LaunchHealthCheck
  <2> QED
    BY <1>2, <2>1, <2>2, <2>3, <2>4 DEF LaunchSteps
<1>3. CASE ReceiveSignal \/ WaitReturns \/ HealthStep
  BY <1>3 DEF ReceiveSignal, WaitReturns, HealthStep, HealthStart, HealthBeat,
     HealthDone, HealthExited
<1>4. CASE CheckerStep \/ ContainerStep \/ UNCHANGED vars
  BY <1>4 DEF CheckerStep, ContainerStep, vars, controlVars
<1>5. ASSUME NEW h \in Goroutine, SharedStep(h)
      PROVE  Ending(g) \/ TearDownQuit(g)
  <2>1. CASE UpdateError(h) \/ RecordUpdate(h)
    <3>1. \E ok \in BOOLEAN : Return(h, ok)
      BY <2>1 DEF UpdateError, RecordUpdate
    <3> QED
      BY <3>1, ReturnCases
  <2>2. CASE TearDownQuit(h)
    BY <2>2 DEF TearDownQuit
  <2>3. CASE ~UpdateError(h) /\ ~RecordUpdate(h) /\ ~TearDownQuit(h)
    BY <1>5, <2>3 DEF SharedStep, KillSetsFlag, TearDownPreStop, TearDownStop,
       TearDownPostStop, SendUpdate
  <2> QED
    BY <2>1, <2>2, <2>3
<1> QED
  BY <1>1, <1>2, <1>3, <1>4, <1>5 DEF Next

(* Main does not launch, and will not.                                       *)
NoLaunch ==
  /\ pc["main"] \notin LaunchLabels
  /\ launched \/ (shutdown /\ pc["main"] # "decode")

LEMMA NoLaunchStays ==
  ASSUME ControlTypeOK, LaunchOrder, NoLaunch, [Next]_vars
  PROVE  NoLaunch'
<1> USE DEF ControlTypeOK, LaunchOrder, NoLaunch, LaunchLabels, Goroutine, At, Goto, Begin,
            agentVars
<1>1. CASE SubscriptionStep
  BY <1>1 DEF SubscriptionStep, OuterLoop, PrepareSubscribe, Subscribe, SubscribeError, InnerLoop,
     StreamBroken, Abort
<1>2. CASE EventStep
  BY <1>2 DEF EventStep, HandleSubscribed, HandleLaunch, HandleKill, HandleMessage,
     HandleAcknowledged
<1>3. CASE LaunchSteps
  BY <1>3 DEF LaunchSteps, LaunchPreCreate, LaunchCreate, LaunchAssign, LaunchPreRun,
     LaunchRun, LaunchPostRun, LaunchHealthCheck, LaunchStep
<1>4. CASE ReceiveSignal \/ WaitReturns \/ HealthStep
  BY <1>4 DEF ReceiveSignal, WaitReturns, HealthStep, HealthStart, HealthBeat,
     HealthDone, HealthExited
<1>5. CASE CheckerStep \/ ContainerStep \/ UNCHANGED vars
  BY <1>5 DEF CheckerStep, ContainerStep, vars, controlVars
<1>6. ASSUME NEW g \in Goroutine, SharedStep(g)
      PROVE  NoLaunch'
  <2>1. CASE UpdateError(g) \/ RecordUpdate(g)
    <3>1. \E ok \in BOOLEAN : Return(g, ok)
      BY <2>1 DEF UpdateError, RecordUpdate
    <3>2. launched' = launched /\ shutdown' = shutdown
      BY <2>1 DEF UpdateError, RecordUpdate
    <3> QED
      BY <3>1, <3>2, ReturnCases
  <2>2. CASE ~UpdateError(g) /\ ~RecordUpdate(g)
    BY <1>6, <2>2 DEF SharedStep, KillSetsFlag, TearDownQuit, TearDownPreStop,
       TearDownStop, TearDownPostStop, SendUpdate
  <2> QED
    BY <2>1, <2>2
<1> QED
  BY <1>1, <1>2, <1>3, <1>4, <1>5, <1>6 DEF Next

(* An event of the agent alone starts a launch.                              *)
LEMMA LaunchBegins ==
  ASSUME ControlTypeOK, [Next]_vars, call'["main"] = "launch"
  PROVE  call["main"] = "launch" \/ HandleLaunch
<1> USE DEF ControlTypeOK, Goroutine, Goto, Begin
<1>1. CASE SubscriptionStep
  BY <1>1 DEF SubscriptionStep, OuterLoop, PrepareSubscribe, Subscribe, SubscribeError, InnerLoop,
     StreamBroken, Abort
<1>2. CASE EventStep
  BY <1>2 DEF EventStep, HandleSubscribed, HandleKill, HandleMessage, HandleAcknowledged
<1>3. CASE LaunchSteps
  BY <1>3 DEF LaunchSteps, LaunchPreCreate, LaunchCreate, LaunchAssign, LaunchPreRun,
     LaunchRun, LaunchPostRun, LaunchHealthCheck, LaunchStep
<1>4. CASE ReceiveSignal \/ WaitReturns \/ HealthStep
  BY <1>4 DEF ReceiveSignal, WaitReturns, HealthStep, HealthStart, HealthBeat,
     HealthDone, HealthExited
<1>5. CASE CheckerStep \/ ContainerStep \/ UNCHANGED vars
  BY <1>5 DEF CheckerStep, ContainerStep, vars, controlVars
<1>6. ASSUME NEW g \in Goroutine, SharedStep(g)
      PROVE  call["main"] = "launch" \/ HandleLaunch
  <2>1. CASE UpdateError(g) \/ RecordUpdate(g)
    <3>1. \E ok \in BOOLEAN : Return(g, ok)
      BY <2>1 DEF UpdateError, RecordUpdate
    <3> QED
      BY <3>1, ReturnCases
  <2>2. CASE ~UpdateError(g) /\ ~RecordUpdate(g)
    BY <1>6, <2>2 DEF SharedStep, KillSetsFlag, TearDownQuit, TearDownPreStop,
       TearDownStop, TearDownPostStop, SendUpdate
  <2> QED
    BY <2>1, <2>2
<1> QED
  BY <1>1, <1>2, <1>3, <1>4, <1>5, <1>6 DEF Next

LEMMA LaunchOverStays ==
  ASSUME ControlTypeOK, LaunchOrder, LaunchOver, [Next]_vars
  PROVE  LaunchOver'
<1>1. NoLaunch /\ call["main"] # "launch"
  BY DEF LaunchOver, NoLaunch
<1>2. NoLaunch'
  BY <1>1, NoLaunchStays
<1>3. ~HandleLaunch
  BY <1>1 DEF NoLaunch, HandleLaunch, At
<1>4. call'["main"] # "launch"
  BY <1>1, <1>3, LaunchBegins
<1> QED
  BY <1>2, <1>4 DEF LaunchOver, NoLaunch

(* A goroutine that started has started for good.                            *)
LEMMA StartsOnce ==
  ASSUME ControlTypeOK, LaunchOrder, [Next]_vars
  PROVE  /\ pc'["signals"] = "idle" => pc["signals"] = "idle"
         /\ pc'["health"] = "off" => pc["health"] = "off"
         /\ pc["signals"] = "idle" => pc'["signals"] = "idle" \/ ReceiveSignal
<1> USE DEF ControlTypeOK, LaunchOrder, Goroutine, At, Goto, Begin
<1>1. CASE SubscriptionStep \/ EventStep
  BY <1>1 DEF SubscriptionStep, OuterLoop, PrepareSubscribe, Subscribe, SubscribeError, InnerLoop,
     StreamBroken, Abort, EventStep, HandleSubscribed, HandleLaunch, HandleKill,
     HandleMessage, HandleAcknowledged
<1>2. CASE LaunchSteps
  BY <1>2 DEF LaunchSteps, LaunchPreCreate, LaunchCreate, LaunchAssign, LaunchPreRun,
     LaunchRun, LaunchPostRun, LaunchHealthCheck, LaunchStep
<1>3. CASE ReceiveSignal \/ WaitReturns \/ HealthStep
  BY <1>3 DEF ReceiveSignal, WaitReturns, HealthStep, HealthStart, HealthBeat,
     HealthDone, HealthExited
<1>4. CASE CheckerStep \/ ContainerStep \/ UNCHANGED vars
  BY <1>4 DEF CheckerStep, ContainerStep, vars, controlVars
<1>5. ASSUME NEW g \in Goroutine, SharedStep(g)
      PROVE  /\ pc'["signals"] = "idle" => pc["signals"] = "idle"
             /\ pc'["health"] = "off" => pc["health"] = "off"
             /\ pc["signals"] = "idle" => pc'["signals"] = "idle" \/ ReceiveSignal
  <2>1. CASE UpdateError(g) \/ RecordUpdate(g)
    <3>1. pc[g] \in {"update", "record"} /\ \E ok \in BOOLEAN : Return(g, ok)
      BY <2>1 DEF UpdateError, RecordUpdate
    <3> QED
      BY <3>1, ReturnCases
  <2>2. CASE ~UpdateError(g) /\ ~RecordUpdate(g)
    BY <1>5, <2>2 DEF SharedStep, KillSetsFlag, TearDownQuit, TearDownPreStop,
       TearDownStop, TearDownPostStop, SendUpdate
  <2> QED
    BY <2>1, <2>2
<1> QED
  BY <1>1, <1>2, <1>3, <1>4, <1>5 DEF Next

LEMMA SendersStep ==
  ASSUME BooksInv, MainInv, Senders, [Next]_vars
  PROVE  Senders'
<1> USE DEF BooksInv, TypeOK, ControlTypeOK, LaunchOrder, Goroutine, Senders, At, Goto,
            Begin
<1>1. ASSUME NEW g \in Goroutine, pc[g] = "update"
      PROVE  CurrentUpdate(g).by = g
  BY DEF CurrentUpdate
<1>2. \A u \in accepted' : u.by = "main" =>
        u = MainUpdate(u.call) /\ u.call \in {"launch", "kill", "fail", "abort"}
  <2> SUFFICES ASSUME NEW u \in accepted', u \notin accepted, u.by = "main"
               PROVE  /\ u = MainUpdate(u.call)
                      /\ u.call \in {"launch", "kill", "fail", "abort"}
    OBVIOUS
  <2>1. u = CurrentUpdate("main") /\ pc["main"] = "update"
    BY <1>1, AcceptedFrom
  <2> QED
    BY <2>1, MainUpdateNow DEF MainUpdate, MainInv, MainCalls
<1>3. /\ pc'["signals"] = "idle" => pc["signals"] = "idle"
      /\ pc'["health"] = "off" => pc["health"] = "off"
      /\ pc["signals"] = "idle" => pc'["signals"] = "idle" \/ ReceiveSignal
  BY StartsOnce
<1>4. pc'["signals"] = "idle" => \A u \in accepted' : u.by # "signals"
  BY <1>1, <1>3, AcceptedFrom
<1>5. pc'["health"] = "off" => \A u \in accepted' : u.by # "health"
  BY <1>1, <1>3, AcceptedFrom
<1>6. Signals # "any" => pc'["signals"] = "idle" \/ LaunchOver'
  <2>1. Signals # "any" /\ ReceiveSignal => LaunchOver
    BY DEF ReceiveSignal
  <2> QED
    BY <1>3, <2>1, LaunchOverStays
<1> QED
  BY <1>2, <1>3, <1>4, <1>5, <1>6

(* The checker is installed while nothing has ended yet.                     *)
LEMMA NothingEnded ==
  ASSUME BooksInv, MainInv, Senders, Signals # "any", pc["main"] = "inspect"
  PROVE  /\ \A g \in Goroutine : ~Ending(g)
         /\ \A u \in accepted : ~Terminal(u)
<1> USE DEF BooksInv, TypeOK
<1>1. call["main"] = "launch" /\ pc["health"] = "off" /\ pc["waiter"] = "off"
  BY DEF LaunchOrder, LaunchLabels
<1>2. pc["signals"] = "idle"
  BY DEF Senders, LaunchOver, LaunchLabels
<1>3. \A g \in Goroutine : ~Ending(g)
  BY <1>1, <1>2 DEF Goroutine, Ending, UpdateLabels
<1>4. ASSUME NEW u \in accepted, Terminal(u)
      PROVE  FALSE
  <2>1. u.by \in Goroutine
    BY DEF AgentTypeOK, Update
  <2>2. u.by # "signals" /\ u.by # "health"
    BY <1>1, <1>2 DEF Senders
  <2>3. u.by # "waiter"
    <3>1. Running \notin accepted
      BY <1>1 DEF MainInv, MainOrder, MainUpdate, Running
    <3> QED
      BY <3>1 DEF RunningFirst
  <2>4. u = MainUpdate(u.call) /\ u.call \in {"kill", "fail", "abort"}
    BY <1>4, <2>1, <2>2, <2>3, TerminalCall DEF Senders, Goroutine
  <2> QED
    BY <1>1, <2>4 DEF MainInv, MainOrder, Sending, Aborting
<1> QED
  BY <1>3, <1>4

(* A checker, once installed, stays, and it is installed by the launch.      *)
LEMMA CheckerInstalled ==
  ASSUME [Next]_vars, checker' # checker
  PROVE  LaunchHealthCheck /\ pc["main"] = "inspect"
<1> USE DEF taskVars
<1>1. ~SubscriptionStep /\ ~EventStep
  BY DEF SubscriptionStep, OuterLoop, PrepareSubscribe, Subscribe, SubscribeError, InnerLoop,
     StreamBroken, Abort, EventStep, HandleSubscribed, HandleLaunch, HandleKill,
     HandleMessage, HandleAcknowledged
<1>2. ~ReceiveSignal /\ ~WaitReturns /\ ~HealthStep /\ ~CheckerStep /\ ~ContainerStep
  BY DEF ReceiveSignal, WaitReturns, HealthStep, HealthStart, HealthBeat, HealthDone,
     HealthExited, CheckerStep, ContainerStep
<1>3. ASSUME NEW g \in Goroutine
      PROVE  ~SharedStep(g)
  BY DEF SharedStep, KillSetsFlag, TearDownQuit, TearDownPreStop, TearDownStop,
     TearDownPostStop, SendUpdate, UpdateError, RecordUpdate
<1>4. LaunchSteps
  BY <1>1, <1>2, <1>3 DEF Next, vars
<1> QED
  BY <1>4 DEF LaunchSteps, LaunchPreCreate, LaunchCreate, LaunchAssign, LaunchPreRun,
     LaunchRun, LaunchPostRun, LaunchHealthCheck, At

LEMMA ReturnEnds ==
  ASSUME ControlTypeOK, NEW g \in Goroutine, UpdateError(g) \/ RecordUpdate(g)
  PROVE  ~Ending(g)'
<1>1. \E ok \in BOOLEAN : Return(g, ok)
  BY DEF UpdateError, RecordUpdate
<1>2. pc'[g] \in {"quit", "inner", "flag", "failed", "select", "finished"}
  BY <1>1, ReturnCases DEF ControlTypeOK, Goroutine
<1> QED
  BY <1>2 DEF Ending, UpdateLabels

(* Taking Quit: nobody was past it.                                          *)
LEMMA QuitStep ==
  ASSUME BooksInv, OneEnding, [Next]_vars, checker, NEW g \in Goroutine, TearDownQuit(g)
  PROVE  OneEnding'
<1> USE DEF BooksInv, TypeOK
<1>1. /\ ~QuitTaken /\ QuitTaken'
      /\ pc[g] = "quit" /\ pc' = [pc EXCEPT ![g] = "preStop"]
      /\ accepted' = accepted
  BY DEF TearDownQuit, CkRecvQuit, QuitTaken, At, Goto, agentVars
<1>2. /\ \A h \in Goroutine : ~Ending(h)
      /\ \A u \in accepted : ~Terminal(u)
  BY <1>1 DEF OneEnding
<1>3. ASSUME NEW h \in Goroutine, Ending(h)'
      PROVE  h = g
  <2>1. TearDownQuit(h)
    BY <1>2, <1>3, EndingStarts
  <2>2. pc[h] = "quit" /\ pc' = [pc EXCEPT ![h] = "preStop"]
    BY <2>1 DEF TearDownQuit, At, Goto
  <2> QED
    BY <1>1, <2>2 DEF ControlTypeOK
<1>4. \A u \in accepted' : ~Terminal(u)
  BY <1>1, <1>2
<1> QED
  BY <1>1, <1>3, <1>4 DEF OneEnding

(* Past Quit: the goroutine that took it sends its update once.              *)
LEMMA EndingStep ==
  ASSUME BooksInv, OneEnding, [Next]_vars, checker,
         \A g \in Goroutine : ~TearDownQuit(g)
  PROVE  OneEnding'
<1> USE DEF BooksInv, TypeOK, OneEnding
<1>1. \A g \in Goroutine : Ending(g)' => Ending(g)
  BY EndingStarts
<1>2. QuitTaken => QuitTaken'
  BY QuitStays
<1>3. ASSUME NEW u \in accepted', Terminal(u), u \notin accepted
      PROVE  \E g \in Goroutine :
               /\ Ending(g) /\ pc[g] = "update" /\ u = CurrentUpdate(g)
               /\ SendUpdate(g) \/ UpdateError(g)
  <2>1. PICK g \in Goroutine :
          u = CurrentUpdate(g) /\ pc[g] = "update" /\ (SendUpdate(g) \/ UpdateError(g))
    BY <1>3, AcceptedFrom
  <2>2. u.call = call[g]
    BY <2>1 DEF CurrentUpdate
  <2>3. Ending(g)
    BY <1>3, <2>1, <2>2, TerminalCall DEF Ending, UpdateLabels
  <2> QED
    BY <2>1, <2>3
<1>4. ASSUME NEW u \in accepted', Terminal(u)
      PROVE  QuitTaken
  BY <1>3, <1>4
<1>5. ASSUME NEW g \in Goroutine, NEW u \in accepted', Ending(g)', Terminal(u)
      PROVE  pc'[g] = "record" /\ u = CurrentUpdate(g)'
  <2>1. ~UpdateError(g) /\ ~RecordUpdate(g)
    BY <1>5, ReturnEnds
  <2>2. CASE u \in accepted
    <3>1. pc[g] = "record" /\ u = CurrentUpdate(g)
      BY <1>1, <1>5, <2>2
    <3> QED
      BY <2>1, <3>1, InFlightStays
  <2>3. CASE u \notin accepted
    <3>1. PICK h \in Goroutine : /\ Ending(h) /\ u = CurrentUpdate(h)
                                 /\ SendUpdate(h) \/ UpdateError(h)
      BY <1>3, <1>5, <2>3
    <3>2. h = g
      BY <1>1, <1>5, <3>1
    <3> QED
      BY <2>1, <3>1, <3>2 DEF SendUpdate, CurrentUpdate, Goto, ControlTypeOK
  <2> QED
    BY <2>2, <2>3
<1>6. ASSUME NEW u \in accepted', NEW v \in accepted', Terminal(u), Terminal(v),
             u \notin accepted
      PROVE  u = v
  <2>1. PICK g \in Goroutine : Ending(g) /\ pc[g] = "update" /\ u = CurrentUpdate(g)
    BY <1>3, <1>6
  <2>2. v \notin accepted
    BY <1>6, <2>1
  <2>3. PICK h \in Goroutine : Ending(h) /\ v = CurrentUpdate(h)
    BY <1>3, <1>6, <2>2
  <2> QED
    BY <2>1, <2>3
<1>7. \A u, v \in accepted' : Terminal(u) /\ Terminal(v) => u = v
  BY <1>6
<1> QED
  BY <1>1, <1>2, <1>4, <1>5, <1>7

LEMMA OneEndingStep ==
  ASSUME BooksInv, MainInv, Senders, Signals # "any", OneEnding, [Next]_vars
  PROVE  OneEnding'
<1>1. CASE ~checker'
  BY <1>1 DEF OneEnding
<1>2. CASE checker
  BY <1>2, QuitStep, EndingStep
<1>3. CASE ~checker /\ checker'
  <2>1. LaunchHealthCheck /\ pc["main"] = "inspect"
    BY <1>3, CheckerInstalled
  <2>2. /\ \A g \in Goroutine : ~Ending(g)
        /\ \A u \in accepted : ~Terminal(u)
    BY <2>1, NothingEnded
  <2>3. accepted' = accepted
    BY <2>1 DEF LaunchHealthCheck, agentVars
  <2>4. \A g \in Goroutine : ~TearDownQuit(g)
    BY <1>3 DEF TearDownQuit, taskVars
  <2>5. \A g \in Goroutine : ~Ending(g)'
    BY <2>2, <2>4, EndingStarts DEF BooksInv, TypeOK
  <2>6. \A u \in accepted' : ~Terminal(u)
    BY <2>2, <2>3
  <2> QED
    BY <2>5, <2>6 DEF OneEnding
<1> QED
  BY <1>1, <1>2, <1>3

(* With a health checker, and no stop signal before the launch is over, the  *)
(* agent gets one terminal update at most, whatever fails and whoever ends   *)
(* the task first, a signal among them                                       *)
(* (executor.go:457-459, healthcheck.go:129-133).                            *)
THEOREM OneTerminal ==
  ASSUME Signals # "any"
  PROVE  Spec => []OneTerminalUpdate
<1>1. Init => Senders /\ OneEnding
  BY DEF Init, Senders, OneEnding, Goroutine
<1>2. BooksInv /\ MainInv /\ Senders /\ [Next]_vars => Senders'
  BY SendersStep
<1>3. BooksInv /\ MainInv /\ Senders /\ OneEnding /\ [Next]_vars => OneEnding'
  BY OneEndingStep
<1>4. OneEnding => OneTerminalUpdate
  BY DEF OneEnding, OneTerminalUpdate
<1> QED
  BY <1>1, <1>2, <1>3, <1>4, BooksInvariant, MainInvariant, PTL DEF Spec
-----------------------------------------------------------------------------
(* Whose acknowledgements main can still decode.                             *)
LEMMA UnackedStep ==
  ASSUME BooksInv, AcksReached, MainInv, Senders, MainEndsUnacked, [Next]_vars
  PROVE  MainEndsUnacked'
<1>1. ASSUME NEW u \in acks, HandleAcknowledged(u), u.by = "main"
      PROVE  ~Terminal(u)
  <2>1. u = MainUpdate(u.call) /\ u.call \in {"launch", "kill", "fail", "abort"}
    BY <1>1 DEF AcksReached, Senders
  <2>2. pc["main"] = "decode" /\ call["main"] = "none" /\ u \in accepted
    BY <1>1 DEF HandleAcknowledged, At, MainInv, MainCalls, MainLabels, AcksReached
  <2>3. u.call = "launch"
    BY <2>1, <2>2 DEF MainInv, MainOrder, Sending, Aborting
  <2> QED
    BY <2>3, TerminalCall
<1>2. ASSUME NEW u \in acked', u \notin acked
      PROVE  u \in acks /\ HandleAcknowledged(u)
  BY <1>2, LedgerCases DEF ledgerVars, HandleAcknowledged, SendUpdate, UpdateError,
     RecordUpdate
<1>3. ASSUME NEW u \in acked', u.by = "main"
      PROVE  ~Terminal(u)
  BY <1>1, <1>2, <1>3 DEF MainEndsUnacked
<1> QED
  BY <1>3 DEF MainEndsUnacked, Terminal, StateOf

(* The acknowledgement of an update of main that ends the task comes too     *)
(* late, whatever fails and whenever signals come (executor.go:177, 183-206, *)
(* 302-341).                                                                 *)
THEOREM MainEndsBeforeAck == Spec => []MainEndsUnacked
<1>1. Init => AcksReached /\ Senders /\ MainEndsUnacked
  BY DEF Init, AcksReached, Senders, MainEndsUnacked, Goroutine
<1>2. BooksInv /\ AcksReached /\ [Next]_vars => AcksReached'
  BY AcksReachedStep DEF BooksInv
<1>3. BooksInv /\ MainInv /\ Senders /\ [Next]_vars => Senders'
  BY SendersStep
<1>4. BooksInv /\ AcksReached /\ MainInv /\ Senders /\ MainEndsUnacked /\ [Next]_vars
        => MainEndsUnacked'
  BY UnackedStep
<1> QED
  BY <1>1, <1>2, <1>3, <1>4, BooksInvariant, MainInvariant, PTL DEF Spec
=============================================================================
