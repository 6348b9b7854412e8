--------------------------- MODULE ExecutorProofs ---------------------------
(***************************************************************************)
(* Proofs about the executor, for every task, every set of faults and any  *)
(* number of health updates.                                               *)
(***************************************************************************)
EXTENDS Executor, HealthCheckerProofs

(* The actions that leave the checker alone.                                 *)
LEMMA CheckerFrame ==
  \/ SubscriptionStep \/ EventStep \/ LaunchSteps \/ ReceiveSignal
  \/ WaitReturns \/ ContainerStep
  \/ \E g \in Goroutine :
       \/ KillSetsFlag(g) \/ TearDownPreStop(g) \/ TearDownStop(g)
       \/ TearDownPostStop(g) \/ SendUpdate(g) \/ UpdateError(g) \/ RecordUpdate(g)
  => UNCHANGED ckVars
<1>1. SubscriptionStep => UNCHANGED ckVars
  BY DEF SubscriptionStep, OuterLoop, PrepareSubscribe, Subscribe, SubscribeError, InnerLoop,
         StreamBroken, Abort
<1>2. EventStep => UNCHANGED ckVars
  BY DEF EventStep, HandleSubscribed, HandleLaunch, HandleKill, HandleMessage,
         HandleAcknowledged
<1>3. LaunchSteps => UNCHANGED ckVars
  BY DEF LaunchSteps, LaunchPreCreate, LaunchCreate, LaunchAssign, LaunchPreRun,
         LaunchRun, LaunchPostRun, LaunchHealthCheck
<1>4. ReceiveSignal \/ WaitReturns \/ ContainerStep => UNCHANGED ckVars
  BY DEF ReceiveSignal, WaitReturns, ContainerStep
<1>5. ASSUME NEW g \in Goroutine,
             \/ KillSetsFlag(g) \/ TearDownPreStop(g) \/ TearDownStop(g)
             \/ TearDownPostStop(g) \/ SendUpdate(g) \/ UpdateError(g)
             \/ RecordUpdate(g)
      PROVE  UNCHANGED ckVars
  BY <1>5 DEF KillSetsFlag, TearDownPreStop, TearDownStop, TearDownPostStop,
              SendUpdate, UpdateError, RecordUpdate
<1> QED
  BY <1>1, <1>2, <1>3, <1>4, <1>5

(* Whatever the executor does, the checker it started takes a step of its    *)
(* own specification or none.                                                *)
LEMMA CheckerSimulation == [Next]_vars => [CkNext]_ckVars
<1> SUFFICES ASSUME [Next]_vars
             PROVE  [CkNext]_ckVars
  OBVIOUS
<1>1. CASE HealthStep
  BY <1>1 DEF HealthStep, HealthStart, HealthBeat, HealthDone, HealthExited,
              CkNext, CkSend
<1>2. ASSUME NEW g \in Goroutine, TearDownQuit(g)
      PROVE  [CkNext]_ckVars
  BY <1>2 DEF TearDownQuit, CkNext
<1>3. CASE CheckerStep
  BY <1>3 DEF CheckerStep, CkNext
<1>4. CASE UNCHANGED vars
  BY <1>4 DEF vars
<1> QED
  BY <1>1, <1>2, <1>3, <1>4, CheckerFrame DEF Next, SharedStep

(* The executor implements the safety part of the checker's specification:   *)
(* the guarantees proved of the checker alone hold of the one it runs        *)
(* (executor.go:402-432, 457-459; healthcheck.go:50-136).                    *)
THEOREM ExecutorRunsChecker == Spec => CkSafeSpec
<1>1. Init => CkInit
  BY DEF Init
<1> QED
  BY <1>1, CheckerSimulation, PTL DEF Spec, CkSafeSpec
-----------------------------------------------------------------------------
(* The types, by groups of variables.                                        *)

LEMMA UpdateTyped ==
  ASSUME ControlTypeOK, NEW g \in Goroutine
  PROVE  CurrentUpdate(g) \in Update
<1>1. (IF call[g] = "beat" THEN beats ELSE 0) \in Nat
  BY DEF ControlTypeOK
<1> QED
  BY <1>1 DEF ControlTypeOK, CurrentUpdate, Update

LEMMA GotoTyped ==
  ASSUME ControlTypeOK, NEW g \in Goroutine, NEW label \in Label, Goto(g, label)
  PROVE  pc' \in [Goroutine -> Label]
BY DEF ControlTypeOK, Goto

LEMMA BeginTyped ==
  ASSUME ControlTypeOK, NEW g \in Goroutine, NEW label \in Label, NEW c \in Call,
         Begin(g, label, c)
  PROVE  pc' \in [Goroutine -> Label] /\ call' \in [Goroutine -> Call]
BY DEF ControlTypeOK, Begin, Goto

LEMMA SomeBeginTyped ==
  ASSUME ControlTypeOK, \E g \in Goroutine, label \in Label, c \in Call : Begin(g, label, c)
  PROVE  pc' \in [Goroutine -> Label] /\ call' \in [Goroutine -> Call]
BY BeginTyped

LEMMA ReturnTyped ==
  ASSUME ControlTypeOK, NEW g \in Goroutine, NEW ok \in BOOLEAN, Return(g, ok)
  PROVE  pc' \in [Goroutine -> Label] /\ call' \in [Goroutine -> Call]
<1> USE DEF Label, Call, KillLabels, UpdateLabels, LaunchLabels, MainLabels
<1>1. \/ \E label \in Label, c \in Call : Begin(g, label, c)
      \/ /\ g = "main"
         /\ pc' = [pc EXCEPT ![g] = "inner", !["waiter"] = "waiting"]
         /\ call' = [call EXCEPT ![g] = "none"]
  BY DEF Return
<1>2. CASE \E label \in Label, c \in Call : Begin(g, label, c)
  BY <1>2, BeginTyped
<1>3. CASE /\ g = "main"
           /\ pc' = [pc EXCEPT ![g] = "inner", !["waiter"] = "waiting"]
           /\ call' = [call EXCEPT ![g] = "none"]
  BY <1>3 DEF ControlTypeOK, Goroutine
<1> QED
  BY <1>1, <1>2, <1>3

LEMMA DockerTypeStep == DockerTypeOK /\ [Next]_vars => DockerTypeOK'
<1> SUFFICES ASSUME DockerTypeOK, [Next]_vars
             PROVE  DockerTypeOK'
  OBVIOUS
<1> USE DEF DockerTypeOK, ContainerStates, dockerVars
<1>1. CASE SubscriptionStep
  BY <1>1 DEF SubscriptionStep, OuterLoop, PrepareSubscribe, Subscribe, SubscribeError, InnerLoop,
              StreamBroken, Abort
<1>2. CASE EventStep
  BY <1>2 DEF EventStep, HandleSubscribed, HandleLaunch, HandleKill,
              HandleMessage, HandleAcknowledged
<1>3. CASE LaunchSteps
  BY <1>3 DEF LaunchSteps, LaunchPreCreate, LaunchCreate, LaunchAssign,
              LaunchPreRun, LaunchRun, LaunchPostRun, LaunchHealthCheck,
              ContainerCreate, ContainerRun, ContainerGetPID
<1>4. CASE ReceiveSignal \/ WaitReturns \/ HealthStep \/ CheckerStep
  BY <1>4 DEF ReceiveSignal, WaitReturns, ContainerWait, HealthStep, HealthStart,
              HealthBeat, HealthDone, HealthExited, CheckerStep
<1>5. ASSUME NEW g \in Goroutine, SharedStep(g)
      PROVE  DockerTypeOK'
  BY <1>5 DEF SharedStep, KillSetsFlag, TearDownQuit, TearDownPreStop,
              TearDownStop, TearDownPostStop, SendUpdate, UpdateError,
              RecordUpdate, ContainerStop, ContainerRemove
<1>6. CASE ContainerStep
  BY <1>6 DEF ContainerStep, ContainerExits
<1>7. CASE UNCHANGED vars
  BY <1>7 DEF vars
<1> QED
  BY <1>1, <1>2, <1>3, <1>4, <1>5, <1>6, <1>7 DEF Next

LEMMA TaskTypeStep == TaskTypeOK /\ [Next]_vars => TaskTypeOK'
<1> SUFFICES ASSUME TaskTypeOK, [Next]_vars
             PROVE  TaskTypeOK'
  OBVIOUS
<1> USE DEF TaskTypeOK, taskVars
<1>1. CASE SubscriptionStep
  BY <1>1 DEF SubscriptionStep, OuterLoop, PrepareSubscribe, Subscribe, SubscribeError, InnerLoop,
              StreamBroken, Abort
<1>2. CASE EventStep
  BY <1>2 DEF EventStep, HandleSubscribed, HandleLaunch, HandleKill,
              HandleMessage, HandleAcknowledged
<1>3. CASE LaunchSteps
  <2>1. CASE LaunchPreCreate \/ LaunchCreate \/ LaunchPreRun \/ LaunchRun
    BY <2>1 DEF LaunchPreCreate, LaunchCreate, LaunchPreRun, LaunchRun
  <2>2. CASE LaunchAssign
    BY <2>2, Zenon DEF LaunchAssign
  <2>3. CASE LaunchPostRun
    <3>1. rules' \in BOOLEAN /\ UNCHANGED <<knownID, checker>>
      BY <2>3, Zenon DEF LaunchPostRun
    <3> QED
      BY <3>1, Zenon
  <2>4. CASE LaunchHealthCheck
    BY <2>4, Zenon DEF LaunchHealthCheck
  <2> QED
    BY <1>3, <2>1, <2>2, <2>3, <2>4 DEF LaunchSteps
<1>4. CASE ReceiveSignal \/ WaitReturns \/ HealthStep \/ CheckerStep \/ ContainerStep
  BY <1>4 DEF ReceiveSignal, WaitReturns, HealthStep, HealthStart, HealthBeat,
              HealthDone, HealthExited, CheckerStep, ContainerStep
<1>5. ASSUME NEW g \in Goroutine, SharedStep(g)
      PROVE  TaskTypeOK'
  <2>1. CASE TearDownPreStop(g)
    BY <2>1, Zenon DEF TearDownPreStop
  <2>2. CASE ~TearDownPreStop(g)
    BY <1>5, <2>2 DEF SharedStep, KillSetsFlag, TearDownQuit, TearDownStop,
       TearDownPostStop, SendUpdate, UpdateError, RecordUpdate
  <2> QED
    BY <2>1, <2>2
<1>6. CASE UNCHANGED vars
  BY <1>6 DEF vars
<1> QED
  BY <1>1, <1>2, <1>3, <1>4, <1>5, <1>6 DEF Next

LEMMA LedgerTypeStep ==
  ControlTypeOK /\ LedgerTypeOK /\ AgentTypeOK /\ [Next]_vars => LedgerTypeOK'
<1> SUFFICES ASSUME ControlTypeOK, LedgerTypeOK, AgentTypeOK, [Next]_vars
             PROVE  LedgerTypeOK'
  OBVIOUS
<1> USE DEF LedgerTypeOK, ledgerVars
<1>1. CASE SubscriptionStep
  BY <1>1 DEF SubscriptionStep, OuterLoop, PrepareSubscribe, Subscribe, SubscribeError, InnerLoop,
              StreamBroken, Abort
<1>2. CASE EventStep
  BY <1>2 DEF EventStep, HandleSubscribed, HandleLaunch, HandleKill,
              HandleMessage, HandleAcknowledged, AgentTypeOK
<1>3. CASE LaunchSteps
  BY <1>3 DEF LaunchSteps, LaunchPreCreate, LaunchCreate, LaunchAssign,
              LaunchPreRun, LaunchRun, LaunchPostRun, LaunchHealthCheck, LaunchStep
<1>4. CASE ReceiveSignal \/ WaitReturns \/ HealthStep \/ CheckerStep \/ ContainerStep
  BY <1>4 DEF ReceiveSignal, WaitReturns, HealthStep, HealthStart, HealthBeat,
              HealthDone, HealthExited, CheckerStep, ContainerStep
<1>5. ASSUME NEW g \in Goroutine, SharedStep(g)
      PROVE  LedgerTypeOK'
  BY <1>5, UpdateTyped DEF SharedStep, KillSetsFlag, TearDownQuit,
     TearDownPreStop, TearDownStop, TearDownPostStop, SendUpdate, UpdateError,
     RecordUpdate
<1>6. CASE UNCHANGED vars
  BY <1>6 DEF vars
<1> QED
  BY <1>1, <1>2, <1>3, <1>4, <1>5, <1>6 DEF Next

LEMMA AgentTypeStep ==
  ControlTypeOK /\ LedgerTypeOK /\ AgentTypeOK /\ [Next]_vars => AgentTypeOK'
<1> SUFFICES ASSUME ControlTypeOK, LedgerTypeOK, AgentTypeOK, [Next]_vars
             PROVE  AgentTypeOK'
  OBVIOUS
<1> USE DEF AgentTypeOK, agentVars
<1>1. CASE SubscriptionStep
  BY <1>1 DEF SubscriptionStep, OuterLoop, PrepareSubscribe, Subscribe, SubscribeError, InnerLoop,
              StreamBroken, Abort, LedgerTypeOK
<1>2. CASE EventStep
  <2>1. CASE HandleLaunch
    BY <2>1, Zenon DEF HandleLaunch
  <2>2. CASE ~HandleLaunch
    BY <1>2, <2>2 DEF EventStep, HandleSubscribed, HandleKill, HandleMessage,
                      HandleAcknowledged
  <2> QED
    BY <2>1, <2>2
<1>3. CASE LaunchSteps
  BY <1>3 DEF LaunchSteps, LaunchPreCreate, LaunchCreate, LaunchAssign,
              LaunchPreRun, LaunchRun, LaunchPostRun, LaunchHealthCheck, LaunchStep
<1>4. CASE ReceiveSignal \/ WaitReturns \/ HealthStep \/ CheckerStep \/ ContainerStep
  BY <1>4 DEF ReceiveSignal, WaitReturns, HealthStep, HealthStart, HealthBeat,
              HealthDone, HealthExited, CheckerStep, ContainerStep
<1>5. ASSUME NEW g \in Goroutine, SharedStep(g)
      PROVE  AgentTypeOK'
  BY <1>5, UpdateTyped DEF SharedStep, KillSetsFlag, TearDownQuit,
     TearDownPreStop, TearDownStop, TearDownPostStop, SendUpdate, UpdateError,
     RecordUpdate
<1>6. CASE UNCHANGED vars
  BY <1>6 DEF vars
<1> QED
  BY <1>1, <1>2, <1>3, <1>4, <1>5, <1>6 DEF Next

LEMMA ControlTypeStep == ControlTypeOK /\ [Next]_vars => ControlTypeOK'
<1> SUFFICES ASSUME ControlTypeOK, [Next]_vars
             PROVE  ControlTypeOK'
  OBVIOUS
<1> DEFINE Typed == pc' \in [Goroutine -> Label] /\ call' \in [Goroutine -> Call]
<1> USE DEF Goroutine, Label, Call, KillLabels, UpdateLabels, LaunchLabels, MainLabels
<1>1. CASE SubscriptionStep
  <2>1. \/ \E label \in Label : Goto("main", label) /\ UNCHANGED call
        \/ Begin("main", "flag", "abort")
    BY <1>1 DEF SubscriptionStep, OuterLoop, PrepareSubscribe, Subscribe, SubscribeError, InnerLoop,
                StreamBroken, Abort
  <2>2. Typed
    BY <2>1, GotoTyped, BeginTyped DEF ControlTypeOK
  <2>3. UNCHANGED <<shutdown, beats>>
    BY <1>1 DEF SubscriptionStep, OuterLoop, PrepareSubscribe, Subscribe, SubscribeError, InnerLoop,
                StreamBroken, Abort
  <2> QED
    BY <2>2, <2>3, Zenon DEF ControlTypeOK
<1>2. CASE EventStep
  <2>1. \/ Goto("main", "inner") /\ UNCHANGED call
        \/ Begin("main", "preCreate", "launch")
        \/ Begin("main", "flag", "kill")
    BY <1>2 DEF EventStep, HandleSubscribed, HandleLaunch, HandleKill,
                HandleMessage, HandleAcknowledged
  <2>2. Typed
    BY <2>1, GotoTyped, BeginTyped DEF ControlTypeOK
  <2>3. UNCHANGED <<shutdown, beats>>
    BY <1>2 DEF EventStep, HandleSubscribed, HandleLaunch, HandleKill,
                HandleMessage, HandleAcknowledged
  <2> QED
    BY <2>2, <2>3, Zenon DEF ControlTypeOK
<1>3. CASE LaunchSteps
  <2>1. \/ \E label \in Label : Goto("main", label) /\ UNCHANGED call
        \/ Begin("main", "quit", "fail")
        \/ /\ pc' = [pc EXCEPT !["main"] = "update", !["health"] = "start"]
           /\ UNCHANGED call
    BY <1>3 DEF LaunchSteps, LaunchPreCreate, LaunchCreate, LaunchAssign,
                LaunchPreRun, LaunchRun, LaunchPostRun, LaunchHealthCheck, LaunchStep
  <2>2. Typed
    <3>1. CASE \E label \in Label : Goto("main", label) /\ UNCHANGED call
      BY <3>1, GotoTyped DEF ControlTypeOK
    <3>2. CASE Begin("main", "quit", "fail")
      BY <3>2, BeginTyped
    <3>3. CASE /\ pc' = [pc EXCEPT !["main"] = "update", !["health"] = "start"]
               /\ UNCHANGED call
      BY <3>3 DEF ControlTypeOK
    <3> QED
      BY <2>1, <3>1, <3>2, <3>3
  <2>3. UNCHANGED <<shutdown, beats>>
    BY <1>3 DEF LaunchSteps, LaunchPreCreate, LaunchCreate, LaunchAssign,
                LaunchPreRun, LaunchRun, LaunchPostRun, LaunchHealthCheck, LaunchStep
  <2> QED
    BY <2>2, <2>3, Zenon DEF ControlTypeOK
<1>4. CASE ReceiveSignal \/ WaitReturns \/ HealthStep
  <2>1. \/ \E g \in Goroutine, label \in Label :
             Goto(g, label) /\ UNCHANGED call
        \/ \E g \in Goroutine, label \in Label, c \in Call : Begin(g, label, c)
    BY <1>4 DEF ReceiveSignal, WaitReturns, HealthStep, HealthStart, HealthBeat,
                HealthDone, HealthExited
  <2>2. Typed
    <3>1. CASE \E g \in Goroutine, label \in Label : Goto(g, label) /\ UNCHANGED call
      <4>1. pc' \in [Goroutine -> Label] /\ UNCHANGED call
        BY <3>1, GotoTyped, Zenon
      <4> QED
        BY <4>1, Zenon DEF ControlTypeOK
    <3>2. CASE \E g \in Goroutine, label \in Label, c \in Call : Begin(g, label, c)
      BY <3>2, SomeBeginTyped, Zenon
    <3> QED
      BY <2>1, <3>1, <3>2, Zenon
  <2>3. UNCHANGED shutdown /\ (UNCHANGED beats \/ beats' = beats + 1)
    BY <1>4 DEF ReceiveSignal, WaitReturns, HealthStep, HealthStart, HealthBeat,
                HealthDone, HealthExited
  <2>4. beats' \in Nat
    BY <2>3 DEF ControlTypeOK
  <2> QED
    BY <2>2, <2>3, <2>4, Zenon DEF ControlTypeOK
<1>5. ASSUME NEW g \in Goroutine, SharedStep(g)
      PROVE  ControlTypeOK'
  <2>1. \/ \E label \in Label : Goto(g, label) /\ UNCHANGED call
        \/ \E ok \in BOOLEAN : Return(g, ok)
    BY <1>5 DEF SharedStep, KillSetsFlag, TearDownQuit, TearDownPreStop,
       TearDownStop, TearDownPostStop, SendUpdate, UpdateError, RecordUpdate
  <2>2. Typed
    BY <2>1, GotoTyped, ReturnTyped DEF ControlTypeOK
  <2>3. (UNCHANGED shutdown \/ shutdown' = TRUE) /\ UNCHANGED beats
    BY <1>5 DEF SharedStep, KillSetsFlag, TearDownQuit, TearDownPreStop,
       TearDownStop, TearDownPostStop, SendUpdate, UpdateError, RecordUpdate
  <2> QED
    BY <2>2, <2>3, Zenon DEF ControlTypeOK
<1>6. CASE CheckerStep \/ ContainerStep \/ UNCHANGED vars
  BY <1>6 DEF CheckerStep, ContainerStep, vars, controlVars, ControlTypeOK
<1> QED
  BY <1>1, <1>2, <1>3, <1>4, <1>5, <1>6 DEF Next

(* Each goroutine makes calls of its own.                                    *)
LEMMA CallsStep == ControlTypeOK /\ CallsTypeOK /\ [Next]_vars => CallsTypeOK'
<1> SUFFICES ASSUME ControlTypeOK, CallsTypeOK, [Next]_vars
             PROVE  CallsTypeOK'
  OBVIOUS
<1> DEFINE Calls == \E g \in Goroutine : \E c \in CallsOf(g) : call' = [call EXCEPT ![g] = c]
<1>0. ASSUME UNCHANGED call \/ Calls
      PROVE  CallsTypeOK'
  BY <1>0 DEF CallsTypeOK, ControlTypeOK, CallsOf
<1> SUFFICES UNCHANGED call \/ Calls
  BY <1>0
<1> USE DEF Goto, Begin, Goroutine, CallsOf
<1>1. CASE SubscriptionStep
  BY <1>1 DEF SubscriptionStep, OuterLoop, PrepareSubscribe, Subscribe, SubscribeError, InnerLoop,
              StreamBroken, Abort
<1>2. CASE EventStep
  BY <1>2 DEF EventStep, HandleSubscribed, HandleLaunch, HandleKill, HandleMessage,
              HandleAcknowledged
<1>3. CASE LaunchSteps
  BY <1>3 DEF LaunchSteps, LaunchPreCreate, LaunchCreate, LaunchAssign, LaunchPreRun,
              LaunchRun, LaunchPostRun, LaunchHealthCheck, LaunchStep
<1>4. CASE ReceiveSignal \/ WaitReturns \/ HealthStep
  BY <1>4 DEF ReceiveSignal, WaitReturns, HealthStep, HealthStart, HealthBeat,
              HealthDone, HealthExited
<1>5. ASSUME NEW g \in Goroutine, SharedStep(g)
      PROVE  UNCHANGED call \/ Calls
  <2>1. CASE \E ok \in BOOLEAN : Return(g, ok)
    <3>1. \/ call' = [call EXCEPT ![g] = "none"]
          \/ g = "main" /\ \E c \in {"fail", "abort"} : call' = [call EXCEPT ![g] = c]
      BY <2>1 DEF Return
    <3> QED
      BY <3>1
  <2>2. CASE UNCHANGED call
    BY <2>2
  <2> QED
    BY <1>5, <2>1, <2>2 DEF SharedStep, KillSetsFlag, TearDownQuit, TearDownPreStop,
       TearDownStop, TearDownPostStop, SendUpdate, UpdateError, RecordUpdate
<1>6. CASE CheckerStep \/ ContainerStep \/ UNCHANGED vars
  BY <1>6 DEF CheckerStep, ContainerStep, vars, controlVars
<1> QED
  BY <1>1, <1>2, <1>3, <1>4, <1>5, <1>6 DEF Next

(* Every behaviour of the executor is well typed, and each goroutine makes   *)
(* only the calls that are its own (executor.go:36-54, 302-341, 468-510).    *)
THEOREM ExecutorTyped == Spec => []TypeOK
<1>1. Init => TypeOK
  <2> SUFFICES ASSUME Init
               PROVE  TypeOK
    OBVIOUS
  <2>1. CkTypeOK
    <3>1. 0 \in 0 .. (CounterSize - 1)
      BY CheckerAssumption
    <3> QED
      BY <3>1, Zenon DEF Init, CkInit, CkTypeOK, CkStates
  <2>2. DockerTypeOK
    BY DEF Init, DockerInit, DockerTypeOK, ContainerStates
  <2>3. ControlTypeOK
    <3>1. pc \in [Goroutine -> Label] /\ call \in [Goroutine -> Call] /\ beats \in Nat
      BY DEF Init, Goroutine, Label, Call, MainLabels
    <3> QED
      BY <3>1, Zenon DEF Init, ControlTypeOK
  <2>4. CallsTypeOK
    BY DEF Init, CallsTypeOK, CallsOf, Goroutine
  <2>5. TaskTypeOK /\ LedgerTypeOK /\ AgentTypeOK
    BY Zenon DEF Init, TaskTypeOK, LedgerTypeOK, AgentTypeOK
  <2> QED
    BY <2>1, <2>2, <2>3, <2>4, <2>5 DEF TypeOK
<1>2. TypeOK /\ [Next]_vars => TypeOK'
  BY CheckerSimulation, CkTypeStep, DockerTypeStep, ControlTypeStep, CallsStep,
     TaskTypeStep, LedgerTypeStep, AgentTypeStep DEF TypeOK
<1> QED
  BY <1>1, <1>2, PTL DEF Spec
-----------------------------------------------------------------------------
(* The books of status updates.                                              *)

(* The goroutines come in an order: handleLaunch runs once; the health       *)
(* goroutine starts at its end and the waiter after it; only the health      *)
(* goroutine sends beats.                                                    *)
LaunchOrder ==
  /\ ~launched => /\ pc["health"] = "off"
                  /\ pc["waiter"] = "off"
                  /\ call["main"] # "launch"
  /\ pc["main"] \in LaunchLabels => call["main"] = "launch" /\ pc["health"] = "off"
  /\ call["main"] = "launch" => pc["waiter"] = "off"
  /\ \A g \in Goroutine : call[g] = "beat" => g = "health"

(* Every update the executor has, or is about to send again, is one the      *)
(* agent received or a goroutine is about to record, and the other way round *)
(* but for lost ones; the waiter starts after the agent received Running.    *)
Known == unacked \cup acked \cup InFlight \cup lost

Books ==
  /\ accepted \cup resend \subseteq Known
  /\ unacked \cup resend \subseteq accepted
  /\ \A g \in Goroutine : pc[g] = "record" => CurrentUpdate(g) \in accepted

RunningFirst ==
  /\ pc["waiter"] # "off" => Running \in accepted
  /\ \A u \in accepted \cup lost : u.by = "waiter" => Running \in accepted

(* What Return can do, without its cases.                                    *)
LEMMA ReturnCases ==
  ASSUME NEW g, NEW ok \in BOOLEAN, Return(g, ok)
  PROVE  \/ /\ g = "main" /\ call[g] = "launch" /\ ok
            /\ pc' = [pc EXCEPT ![g] = "inner", !["waiter"] = "waiting"]
            /\ call' = [call EXCEPT ![g] = "none"]
         \/ \E label \in {"quit", "inner", "flag", "failed", "select", "finished"},
               c \in {"fail", "none", "abort"} :
              /\ pc' = [pc EXCEPT ![g] = label]
              /\ call' = [call EXCEPT ![g] = c]
BY Zenon DEF Return, Begin, Goto

LEMMA LaunchOrderStep ==
  ControlTypeOK /\ LaunchOrder /\ [Next]_vars => LaunchOrder'
<1> SUFFICES ASSUME ControlTypeOK, LaunchOrder, [Next]_vars
             PROVE  LaunchOrder'
  OBVIOUS
<1> USE DEF ControlTypeOK, LaunchOrder, LaunchLabels, Goroutine, At, Goto, Begin
<1>1. CASE SubscriptionStep
  BY <1>1 DEF SubscriptionStep, OuterLoop, PrepareSubscribe, Subscribe, SubscribeError, InnerLoop,
              StreamBroken, Abort, agentVars
<1>2. CASE EventStep
  BY <1>2 DEF EventStep, HandleSubscribed, HandleLaunch, HandleKill,
              HandleMessage, HandleAcknowledged, agentVars
<1>3. CASE LaunchSteps
  BY <1>3 DEF LaunchSteps, LaunchPreCreate, LaunchCreate, LaunchAssign,
              LaunchPreRun, LaunchRun, LaunchPostRun, LaunchHealthCheck,
              LaunchStep, agentVars
<1>4. CASE ReceiveSignal \/ WaitReturns \/ HealthStep
  BY <1>4 DEF ReceiveSignal, WaitReturns, HealthStep, HealthStart, HealthBeat,
              HealthDone, HealthExited, agentVars
<1>5. ASSUME NEW g \in Goroutine, SharedStep(g)
      PROVE  LaunchOrder'
  <2>1. CASE UpdateError(g) \/ RecordUpdate(g)
    <3>1. UNCHANGED launched
      BY <2>1 DEF UpdateError, RecordUpdate, agentVars
    <3>2. pc[g] \in {"update", "record"}
      BY <2>1 DEF UpdateError, RecordUpdate
    <3>3. \E ok \in BOOLEAN : Return(g, ok)
      BY <2>1 DEF UpdateError, RecordUpdate
    <3> QED
      BY <3>1, <3>2, <3>3, ReturnCases
  <2>2. CASE ~UpdateError(g) /\ ~RecordUpdate(g)
    BY <1>5, <2>2 DEF SharedStep, KillSetsFlag, TearDownQuit, TearDownPreStop,
       TearDownStop, TearDownPostStop, SendUpdate, agentVars
  <2> QED
    BY <2>1, <2>2
<1>6. CASE CheckerStep \/ ContainerStep \/ UNCHANGED vars
  BY <1>6 DEF CheckerStep, ContainerStep, vars, controlVars, agentVars
<1> QED
  BY <1>1, <1>2, <1>3, <1>4, <1>5, <1>6 DEF Next

(* An update being recorded stays so, unless its own goroutine records it.   *)
LEMMA InFlightStays ==
  ASSUME ControlTypeOK, LaunchOrder, [Next]_vars,
         NEW h \in Goroutine, pc[h] = "record", ~RecordUpdate(h)
  PROVE  pc'[h] = "record" /\ CurrentUpdate(h)' = CurrentUpdate(h)
<1>1. SUFFICES pc'[h] = "record" /\ call'[h] = call[h]
               /\ (call[h] = "beat" => beats' = beats)
  BY DEF CurrentUpdate
<1> USE DEF ControlTypeOK, LaunchOrder, LaunchLabels, Goroutine, At, Goto, Begin
<1>2. CASE SubscriptionStep
  BY <1>2 DEF SubscriptionStep, OuterLoop, PrepareSubscribe, Subscribe, SubscribeError, InnerLoop,
              StreamBroken, Abort
<1>3. CASE EventStep
  BY <1>3 DEF EventStep, HandleSubscribed, HandleLaunch, HandleKill,
              HandleMessage, HandleAcknowledged
<1>4. CASE LaunchSteps
  BY <1>4 DEF LaunchSteps, LaunchPreCreate, LaunchCreate, LaunchAssign,
              LaunchPreRun, LaunchRun, LaunchPostRun, LaunchHealthCheck, LaunchStep
<1>5. CASE ReceiveSignal \/ WaitReturns \/ HealthStep
  BY <1>5 DEF ReceiveSignal, WaitReturns, HealthStep, HealthStart, HealthBeat,
              HealthDone, HealthExited
<1>6. ASSUME NEW g \in Goroutine, SharedStep(g)
      PROVE  pc'[h] = "record" /\ call'[h] = call[h] /\ beats' = beats
  <2>1. CASE UpdateError(g) \/ RecordUpdate(g)
    <3>1. h # g /\ beats' = beats
      BY <2>1 DEF UpdateError, RecordUpdate
    <3>2. \E ok \in BOOLEAN : Return(g, ok)
      BY <2>1 DEF UpdateError, RecordUpdate
    <3> QED
      BY <3>1, <3>2, ReturnCases
  <2>2. CASE ~UpdateError(g) /\ ~RecordUpdate(g)
    BY <1>6, <2>2 DEF SharedStep, KillSetsFlag, TearDownQuit, TearDownPreStop,
       TearDownStop, TearDownPostStop, SendUpdate
  <2> QED
    BY <2>1, <2>2
<1>7. CASE CheckerStep \/ ContainerStep \/ UNCHANGED vars
  BY <1>7 DEF CheckerStep, ContainerStep, vars, controlVars
<1> QED
  BY <1>2, <1>3, <1>4, <1>5, <1>6, <1>7 DEF Next

(* Only the goroutine's own call makes an update one being recorded.         *)
LEMMA InFlightStarts ==
  ASSUME ControlTypeOK, [Next]_vars,
         NEW h \in Goroutine, pc'[h] = "record", pc[h] # "record"
  PROVE  SendUpdate(h)
<1> USE DEF ControlTypeOK, Goroutine, Goto, Begin
<1>1. ~SubscriptionStep /\ ~EventStep /\ ~LaunchSteps
  <2>1. ~SubscriptionStep
    BY DEF SubscriptionStep, OuterLoop, PrepareSubscribe, Subscribe,
       SubscribeError, InnerLoop, StreamBroken, Abort
  <2>2. ~EventStep
    BY DEF EventStep, HandleSubscribed, HandleLaunch,
       HandleKill, HandleMessage, HandleAcknowledged
  <2>3. ~LaunchSteps
    BY DEF LaunchSteps, LaunchPreCreate, LaunchCreate,
       LaunchAssign, LaunchPreRun, LaunchRun, LaunchPostRun,
       LaunchHealthCheck, LaunchStep
  <2> QED
    BY <2>1, <2>2, <2>3
<1>2. ~ReceiveSignal /\ ~WaitReturns /\ ~HealthStep
  BY DEF ReceiveSignal, WaitReturns, HealthStep, HealthStart,
     HealthBeat, HealthDone, HealthExited
<1>3. ASSUME NEW g \in Goroutine, UpdateError(g) \/ RecordUpdate(g)
      PROVE  FALSE
  <2>1. \E ok \in BOOLEAN : Return(g, ok)
    BY <1>3 DEF UpdateError, RecordUpdate
  <2> QED
    BY <2>1, ReturnCases
<1>4. ASSUME NEW g \in Goroutine, SharedStep(g)
      PROVE  SendUpdate(g) /\ g = h
  BY <1>3, <1>4 DEF SharedStep, KillSetsFlag, TearDownQuit,
     TearDownPreStop, TearDownStop, TearDownPostStop, SendUpdate
<1>5. ~CheckerStep /\ ~ContainerStep /\ vars' # vars
  BY DEF CheckerStep, ContainerStep, vars, controlVars
<1> QED
  BY <1>1, <1>2, <1>4, <1>5 DEF Next

(* How a step changes the updates the executor has and the agent received.   *)
LEMMA LedgerCases ==
  ASSUME [Next]_vars
  PROVE  \/ UNCHANGED <<unacked, acked, lost, accepted>>
              /\ (resend' = resend \/ resend' = unacked)
         \/ Subscribe /\ UNCHANGED ledgerVars /\ accepted' = accepted \cup resend
         \/ \E u \in acks : HandleAcknowledged(u)
         \/ \E g \in Goroutine : SendUpdate(g) \/ UpdateError(g) \/ RecordUpdate(g)
<1> USE DEF ledgerVars, agentVars
<1>1. CASE SubscriptionStep
  BY <1>1 DEF SubscriptionStep, OuterLoop, PrepareSubscribe, Subscribe, SubscribeError, InnerLoop,
              StreamBroken, Abort
<1>2. CASE EventStep
  BY <1>2 DEF EventStep, HandleSubscribed, HandleLaunch, HandleKill, HandleMessage
<1>3. CASE LaunchSteps
  BY <1>3 DEF LaunchSteps, LaunchPreCreate, LaunchCreate, LaunchAssign,
              LaunchPreRun, LaunchRun, LaunchPostRun, LaunchHealthCheck, LaunchStep
<1>4. CASE ReceiveSignal \/ WaitReturns \/ HealthStep
  BY <1>4 DEF ReceiveSignal, WaitReturns, HealthStep, HealthStart, HealthBeat,
              HealthDone, HealthExited
<1>5. ASSUME NEW g \in Goroutine, SharedStep(g),
             ~SendUpdate(g), ~UpdateError(g), ~RecordUpdate(g)
      PROVE  UNCHANGED <<ledgerVars, accepted>>
  BY <1>5 DEF SharedStep, KillSetsFlag, TearDownQuit, TearDownPreStop,
     TearDownStop, TearDownPostStop
<1>6. CASE CheckerStep \/ ContainerStep \/ UNCHANGED vars
  BY <1>6 DEF CheckerStep, ContainerStep, vars
<1> QED
  BY <1>1, <1>2, <1>3, <1>4, <1>5, <1>6 DEF Next, SharedStep

(* Nothing the executor knows of is forgotten.                               *)
LEMMA KnownGrows ==
  ASSUME ControlTypeOK, LaunchOrder, [Next]_vars
  PROVE  Known \subseteq Known'
<1>1. acked \subseteq acked' /\ lost \subseteq lost'
  BY LedgerCases DEF ledgerVars, HandleAcknowledged, SendUpdate, UpdateError,
     RecordUpdate
<1>2. unacked \subseteq unacked' \cup acked'
  BY LedgerCases DEF ledgerVars, HandleAcknowledged, SendUpdate, UpdateError,
     RecordUpdate
<1>3. InFlight \subseteq InFlight' \cup unacked'
  <2> SUFFICES ASSUME NEW h \in Goroutine, pc[h] = "record"
               PROVE  CurrentUpdate(h) \in InFlight' \cup unacked'
    BY DEF InFlight
  <2>1. CASE RecordUpdate(h)
    BY <2>1 DEF RecordUpdate
  <2>2. CASE ~RecordUpdate(h)
    <3>1. pc'[h] = "record" /\ CurrentUpdate(h)' = CurrentUpdate(h)
      BY <2>2, InFlightStays
    <3> QED
      BY <3>1 DEF InFlight
  <2> QED
    BY <2>1, <2>2
<1> QED
  BY <1>1, <1>2, <1>3 DEF Known

LEMMA BooksStep ==
  ASSUME ControlTypeOK, LaunchOrder, Books, [Next]_vars
  PROVE  Books'
<1>1. accepted \subseteq accepted'
  BY LedgerCases DEF ledgerVars, HandleAcknowledged, SendUpdate, UpdateError,
     RecordUpdate, agentVars
<1>2. ASSUME NEW h \in Goroutine, pc'[h] = "record"
      PROVE  CurrentUpdate(h)' \in accepted'
  <2>1. CASE pc[h] = "record"
    <3>1. ~RecordUpdate(h)
      <4> SUFFICES ASSUME RecordUpdate(h)
                   PROVE  FALSE
        OBVIOUS
      <4>1. PICK ok \in BOOLEAN : Return(h, ok)
        BY DEF RecordUpdate
      <4> USE DEF ControlTypeOK, Goroutine
      <4>2. CASE pc' = [pc EXCEPT ![h] = "inner", !["waiter"] = "waiting"] /\ h = "main"
        BY <1>2, <4>2
      <4>3. CASE \E label \in {"quit", "inner", "flag", "failed", "select", "finished"} :
                   pc' = [pc EXCEPT ![h] = label]
        BY <1>2, <4>3
      <4> QED
        BY <4>1, <4>2, <4>3, ReturnCases
    <3> QED
      BY <1>1, <2>1, <3>1, InFlightStays DEF Books
  <2>2. CASE pc[h] # "record"
    <3>1. SendUpdate(h)
      BY <1>2, <2>2, InFlightStarts
    <3>2. CurrentUpdate(h)' = CurrentUpdate(h)
      BY <3>1 DEF SendUpdate, CurrentUpdate
    <3> QED
      BY <3>1, <3>2 DEF SendUpdate
  <2> QED
    BY <2>1, <2>2
<1>3. unacked' \cup resend' \subseteq accepted'
  BY <1>1, LedgerCases DEF Books, ledgerVars, HandleAcknowledged, SendUpdate,
     UpdateError, RecordUpdate, At, agentVars
<1>4. accepted' \cup resend' \subseteq Known'
  <2>1. ASSUME NEW g \in Goroutine, SendUpdate(g)
        PROVE  CurrentUpdate(g) \in Known'
    BY <2>1 DEF SendUpdate, Goto, ControlTypeOK, Known, InFlight, CurrentUpdate
  <2>2. ASSUME NEW g \in Goroutine, UpdateError(g)
        PROVE  CurrentUpdate(g) \in Known'
    BY <2>2 DEF UpdateError, Known
  <2>3. accepted \cup resend \cup unacked \subseteq Known'
    BY KnownGrows DEF Books, Known
  <2> QED
    BY <2>1, <2>2, <2>3, LedgerCases
    DEF ledgerVars, HandleAcknowledged, SendUpdate, UpdateError, RecordUpdate, agentVars
<1> QED
  BY <1>2, <1>3, <1>4 DEF Books

(* The waiter is started by main alone, when it has recorded Running.        *)
LEMMA WaiterStarts ==
  ASSUME ControlTypeOK, [Next]_vars, pc["waiter"] = "off", pc'["waiter"] # "off"
  PROVE  RecordUpdate("main") /\ call["main"] = "launch"
<1> USE DEF ControlTypeOK, Goroutine, At, Goto, Begin
<1>1. ~SubscriptionStep
  BY DEF SubscriptionStep, OuterLoop, PrepareSubscribe, Subscribe, SubscribeError, InnerLoop,
         StreamBroken, Abort
<1>2. ~EventStep
  BY DEF EventStep, HandleSubscribed, HandleLaunch, HandleKill, HandleMessage,
         HandleAcknowledged
<1>3. ~LaunchSteps
  BY DEF LaunchSteps, LaunchPreCreate, LaunchCreate, LaunchAssign, LaunchPreRun,
         LaunchRun, LaunchPostRun, LaunchHealthCheck, LaunchStep
<1>4. ~ReceiveSignal /\ ~WaitReturns /\ ~HealthStep
  BY DEF ReceiveSignal, WaitReturns, HealthStep, HealthStart, HealthBeat,
         HealthDone, HealthExited
<1>5. ASSUME NEW g \in Goroutine, SharedStep(g)
      PROVE  RecordUpdate("main") /\ call["main"] = "launch"
  <2>1. CASE UpdateError(g)
    <3>1. Return(g, FALSE) /\ pc[g] = "update"
      BY <2>1 DEF UpdateError
    <3>2. PICK label \in {"quit", "inner", "flag", "failed", "select", "finished"} :
            pc' = [pc EXCEPT ![g] = label]
      BY <3>1, ReturnCases
    <3> QED
      BY <3>1, <3>2
  <2>2. CASE RecordUpdate(g)
    <3>1. Return(g, TRUE) /\ pc[g] = "record"
      BY <2>2 DEF RecordUpdate
    <3>2. CASE g = "main" /\ call["main"] = "launch"
      BY <2>2, <3>2
    <3>3. CASE \E label \in {"quit", "inner", "flag", "failed", "select", "finished"} :
                 pc' = [pc EXCEPT ![g] = label]
      BY <3>1, <3>3
    <3> QED
      BY <3>1, <3>2, <3>3, ReturnCases
  <2>3. CASE ~UpdateError(g) /\ ~RecordUpdate(g)
    BY <1>5, <2>3 DEF SharedStep, KillSetsFlag, TearDownQuit, TearDownPreStop,
       TearDownStop, TearDownPostStop, SendUpdate
  <2> QED
    BY <2>1, <2>2, <2>3
<1>6. ~CheckerStep /\ ~ContainerStep /\ vars' # vars
  BY DEF CheckerStep, ContainerStep, vars, controlVars
<1> QED
  BY <1>1, <1>2, <1>3, <1>4, <1>5, <1>6 DEF Next

LEMMA RunningFirstStep ==
  ASSUME ControlTypeOK, Books, RunningFirst, [Next]_vars
  PROVE  RunningFirst'
<1>1. accepted \subseteq accepted'
  BY LedgerCases DEF ledgerVars, HandleAcknowledged, SendUpdate, UpdateError,
     RecordUpdate, agentVars
<1>2. ASSUME pc'["waiter"] # "off"
      PROVE  Running \in accepted'
  <2>1. CASE pc["waiter"] # "off"
    BY <1>1, <2>1 DEF RunningFirst
  <2>2. CASE pc["waiter"] = "off"
    <3>1. pc["main"] = "record" /\ call["main"] = "launch"
      BY <1>2, <2>2, WaiterStarts DEF RecordUpdate, At
    <3>2. CurrentUpdate("main") = Running
      BY <3>1 DEF CurrentUpdate, Running
    <3> QED
      BY <1>1, <3>1, <3>2 DEF Books, Goroutine
  <2> QED
    BY <2>1, <2>2
<1>3. ASSUME NEW u \in accepted' \cup lost', u.by = "waiter"
      PROVE  Running \in accepted'
  <2>1. CASE u \in accepted \cup lost
    BY <1>1, <1>3, <2>1 DEF RunningFirst
  <2>2. CASE u \notin accepted \cup lost
    <3>1. PICK g \in Goroutine : pc[g] = "update" /\ u = CurrentUpdate(g)
      BY <2>2, LedgerCases DEF Books, ledgerVars, agentVars, HandleAcknowledged,
         SendUpdate, UpdateError, RecordUpdate, At
    <3>2. g = "waiter"
      BY <1>3, <3>1 DEF CurrentUpdate
    <3> QED
      BY <1>1, <3>1, <3>2 DEF RunningFirst
  <2> QED
    BY <2>1, <2>2
<1> QED
  BY <1>2, <1>3 DEF RunningFirst

(* The inductive invariant of the books: types, the order in which the       *)
(* goroutines come, the books and the precedence of Running.                 *)
BooksInv == TypeOK /\ LaunchOrder /\ Books /\ RunningFirst

LEMMA BooksInvariant == Spec => []BooksInv
<1>1. Init => LaunchOrder /\ Books /\ RunningFirst
  BY DEF Init, LaunchOrder, LaunchLabels, Goroutine, Books, RunningFirst
<1>2. TypeOK /\ LaunchOrder /\ Books /\ RunningFirst /\ [Next]_vars
        => (LaunchOrder /\ Books /\ RunningFirst)'
  BY LaunchOrderStep, BooksStep, RunningFirstStep DEF TypeOK
<1> QED
  BY <1>1, <1>2, ExecutorTyped, PTL DEF Spec, BooksInv

(* No update the agent received escapes the executor's books, for any        *)
(* Threshold, any number of health updates and any faults                    *)
(* (executor.go:313-325, 350-400).                                           *)
THEOREM UpdatesAccountedFor == Spec => []UpdateAccounting
<1>1. BooksInv => UpdateAccounting
  BY DEF BooksInv, Books, Known, UpdateAccounting
<1> QED
  BY <1>1, BooksInvariant, PTL

(* The end of a container is reported only after its start                   *)
(* (executor.go:287-298, 468-500).                                           *)
THEOREM EndReportedAfterRunning == Spec => []EndFollowsRunning
<1>1. BooksInv => EndFollowsRunning
  BY DEF BooksInv, RunningFirst, EndFollowsRunning
<1> QED
  BY <1>1, BooksInvariant, PTL

(* Inside the executor too the checker gives up only after that many         *)
(* failures in a row (healthcheck.go:105-124).                               *)
THEOREM ExecutorDoneJustified == Spec => []DoneJustified
BY ExecutorRunsChecker, CheckerDoneJustified, PTL
=============================================================================
