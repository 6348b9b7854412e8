------------------------------ MODULE Executor ------------------------------
(***************************************************************************)
(* The core of the executor, executor/executor.go: the goroutines that     *)
(* share one Executor value, the health checker they talk to               *)
(* (HealthChecker) and the container they drive (Containerizer).           *)
(*                                                                         *)
(*   main     Execute: subscribes, decodes events and handles them         *)
(*   signals  handleStopSignals                                            *)
(*   health   healthCheck, the core's end of the checker's channels        *)
(*   waiter   waitContainer                                                *)
(*                                                                         *)
(* Each goroutine has a program counter, pc, and the call it is in, call.  *)
(* handleKill, throwError, tearDown and updateStatus are shared by all of  *)
(* them: their steps are actions of a goroutine g, and Return says where g *)
(* goes when the call ends.  The process ends when main returns.           *)
(***************************************************************************)
EXTENDS HealthChecker, Containerizer

CONSTANTS
  Signals,      \* when the process may receive a stop signal: never, "late",
                \* which is once no launch is under way or to come, or at any time
  RemoveHook,   \* the removeContainer hook is enabled
  MaxBeats      \* bound: the ticker stops ticking after that many health updates

ASSUME ExecutorAssumption ==
  /\ Signals \in {"never", "late", "any"}
  /\ RemoveHook \in BOOLEAN
  /\ MaxBeats \in Nat

VARIABLES
  pc, call,   \* where each goroutine is, and in which call
  shutdown,   \* Shutdown
  knownID,    \* ContainerID has been assigned
  checker,    \* HealthChecker is not nil
  beats,      \* health updates issued so far: each has a UUID of its own
  unacked,    \* UnackedUpdates
  resend,     \* the updates in the last SUBSCRIBE call
  stream,     \* the event stream of the last subscription
  rules,      \* host rules injected by the post-run hooks are in place
  launched,   \* the agent: it has sent LAUNCH
  accepted,   \* the agent: updates it has received
  acks,       \* the agent: acknowledgements on their way to the executor
  acked,      \* history: updates whose acknowledgement was handled
  lost        \* history: updates whose call returned an error

agentVars == <<stream, launched, accepted, acks>>
ledgerVars == <<unacked, resend, acked, lost>>
taskVars == <<knownID, checker, rules>>
controlVars == <<pc, call, shutdown, beats>>
vars == <<controlVars, taskVars, ledgerVars, agentVars, dockerVars, ckVars>>

Goroutine == {"main", "signals", "health", "waiter"}
Call == {"none", "launch", "kill", "fail", "abort", "finish", "beat"}

KillLabels == {"flag", "quit", "preStop", "stop", "postStop"}
UpdateLabels == {"update", "record"}
LaunchLabels == {"preCreate", "create", "assign", "preRun", "run", "postRun",
                 "inspect"}
MainLabels == {"outer", "prepare", "subscribing", "inner", "decode", "returned",
               "failed"}
Label == KillLabels \cup UpdateLabels \cup LaunchLabels \cup MainLabels
           \cup {"idle", "off", "start", "select", "waiting", "finished"}

(* An update, named by who sends it and in which call; n tells beats apart.  *)
Update == [by : Goroutine, call : Call, n : Nat]
CurrentUpdate(g) ==
  [by |-> g, call |-> call[g], n |-> IF call[g] = "beat" THEN beats ELSE 0]

(* TASK_RUNNING, TASK_KILLED, TASK_FAILED and TASK_FINISHED. *)
StateOf(u) == CASE u.call \in {"launch", "beat"} -> "RUNNING"
                [] u.call \in {"kill", "abort"} -> "KILLED"
                [] u.call = "fail" -> "FAILED"
                [] OTHER -> "FINISHED"
Terminal(u) == StateOf(u) # "RUNNING"

(* The update main sends at the end of a launch. *)
Running == [by |-> "main", call |-> "launch", n |-> 0]

(* The update a stop signal leads to. *)
SignalKilled == [by |-> "signals", call |-> "kill", n |-> 0]

Exited == pc["main"] \in {"returned", "failed"}

Goto(g, label) == pc' = [pc EXCEPT ![g] = label]
Begin(g, label, c) == Goto(g, label) /\ call' = [call EXCEPT ![g] = c]
At(g, label) == ~Exited /\ pc[g] = label

Init ==
  /\ CkInit
  /\ DockerInit
  /\ pc = [main |-> "outer", signals |-> "idle", health |-> "off",
           waiter |-> "off"]
  /\ call = [g \in Goroutine |-> "none"]
  /\ shutdown = FALSE
  /\ knownID = FALSE
  /\ checker = FALSE
  /\ rules = FALSE
  /\ beats = 0
  /\ unacked = {} /\ resend = {} /\ acked = {} /\ lost = {}
  /\ stream = "down"
  /\ launched = FALSE
  /\ accepted = {} /\ acks = {}

-----------------------------------------------------------------------------
(* Execute: the subscription loop.                                           *)

(* Outer loop: stop, or subscribe. *)
OuterLoop ==
  /\ At("main", "outer")
  /\ Goto("main", IF shutdown THEN "returned" ELSE "prepare")
  /\ UNCHANGED <<call, shutdown, beats, agentVars, ledgerVars, taskVars, dockerVars, ckVars>>

(* A mutant of PrepareSubscribe: every subscription starts from scratch. *)
PrepareFromScratch ==
  /\ At("main", "prepare")
  /\ Goto("main", "subscribing")
  /\ resend' = {}
  /\ UNCHANGED <<call, shutdown, beats, unacked, acked, lost>>
  /\ UNCHANGED <<taskVars, agentVars, dockerVars, ckVars>>

(* A SUBSCRIBE with the updates that are unacknowledged now, and no task. *)
PrepareSubscribe ==
  /\ At("main", "prepare")
  /\ Goto("main", "subscribing")
  /\ resend' = unacked
  /\ UNCHANGED <<call, shutdown, beats, unacked, acked, lost>>
  /\ UNCHANGED <<taskVars, agentVars, dockerVars, ckVars>>

(* The agent takes the subscription and acknowledges the updates it carries. *)
Subscribe ==
  /\ At("main", "subscribing")
  /\ Goto("main", "inner")
  /\ stream' = "open"
  /\ accepted' = accepted \cup resend
  /\ acks' = acks \cup resend
  /\ UNCHANGED <<call, shutdown, beats, launched, ledgerVars, taskVars, dockerVars, ckVars>>

(* The subscription fails: main sleeps and starts over. *)
SubscribeError ==
  /\ At("main", "subscribing")
  /\ "subscribe" \in Faults
  /\ Goto("main", "outer")
  /\ UNCHANGED <<call, shutdown, beats, agentVars, ledgerVars, taskVars, dockerVars, ckVars>>

(* A mutant of InnerLoop: it does not look at Shutdown. *)
InnerLoopForEver ==
  /\ At("main", "inner")
  /\ Goto("main", "decode")
  /\ UNCHANGED <<call, shutdown, beats, agentVars, ledgerVars, taskVars, dockerVars, ckVars>>

(* Inner loop: stop, or block in Decode. *)
InnerLoop ==
  /\ At("main", "inner")
  /\ Goto("main", IF shutdown THEN "outer" ELSE "decode")
  /\ UNCHANGED <<call, shutdown, beats, agentVars, ledgerVars, taskVars, dockerVars, ckVars>>

(* Decode returns io.ErrUnexpectedEOF, the connection broke: main leaves the *)
(* inner loop.  Acknowledgements on their way may be lost.                   *)
StreamBroken ==
  /\ At("main", "decode")
  /\ "stream" \in Faults
  /\ Goto("main", "outer")
  /\ stream' = "down"
  /\ acks' \in SUBSET acks
  /\ UNCHANGED <<call, shutdown, beats, launched, accepted>>
  /\ UNCHANGED <<ledgerVars, taskVars, dockerVars, ckVars>>

(* A mutant of Abort: the error is returned without a handleKill. *)
AbortWithoutKill ==
  /\ At("main", "decode")
  /\ "error" \in Faults
  /\ Begin("main", "failed", "none")
  /\ UNCHANGED <<shutdown, beats, agentVars, ledgerVars, taskVars, dockerVars, ckVars>>

(* Decode returns another error, or the handler of an ERROR event does:      *)
(* main calls handleKill and then returns the error.                         *)
Abort ==
  /\ At("main", "decode")
  /\ "error" \in Faults
  /\ Begin("main", "flag", "abort")
  /\ UNCHANGED <<shutdown, beats, agentVars, ledgerVars, taskVars, dockerVars, ckVars>>

-----------------------------------------------------------------------------
(* The event handlers of main.                                               *)

HandleSubscribed ==
  /\ At("main", "decode")
  /\ stream = "open"
  /\ stream' = "subscribed"
  /\ Goto("main", "inner")
  /\ UNCHANGED <<call, shutdown, beats, launched, accepted, acks>>
  /\ UNCHANGED <<ledgerVars, taskVars, dockerVars, ckVars>>

(* The agent sends one LAUNCH to an executor. *)
HandleLaunch ==
  /\ At("main", "decode")
  /\ stream = "subscribed"
  /\ ~launched
  /\ launched' = TRUE
  /\ Begin("main", "preCreate", "launch")
  /\ UNCHANGED <<shutdown, beats, stream, accepted, acks>>
  /\ UNCHANGED <<ledgerVars, taskVars, dockerVars, ckVars>>

(* KILL of the launched task, or SHUTDOWN: both are handleKill. *)
HandleKill ==
  /\ At("main", "decode")
  /\ stream = "subscribed"
  /\ Begin("main", "flag", "kill")
  /\ UNCHANGED <<shutdown, beats, agentVars, ledgerVars, taskVars, dockerVars, ckVars>>

(* A mutant of HandleAcknowledged: the entry is looked up by a wrong key. *)
HandleAcknowledgedMisses(u) ==
  /\ At("main", "decode")
  /\ stream = "subscribed"
  /\ u \in acks
  /\ acks' = acks \ {u}
  /\ acked' = acked \cup {u}
  /\ Goto("main", "inner")
  /\ UNCHANGED <<call, shutdown, beats, unacked, resend, lost, stream, launched, accepted>>
  /\ UNCHANGED <<taskVars, dockerVars, ckVars>>

HandleAcknowledged(u) ==
  /\ At("main", "decode")
  /\ stream = "subscribed"
  /\ u \in acks
  /\ acks' = acks \ {u}
  /\ unacked' = unacked \ {u}
  /\ acked' = acked \cup {u}
  /\ Goto("main", "inner")
  /\ UNCHANGED <<call, shutdown, beats, resend, lost, stream, launched, accepted>>
  /\ UNCHANGED <<taskVars, dockerVars, ckVars>>

HandleMessage ==
  /\ At("main", "decode")
  /\ stream = "subscribed"
  /\ Goto("main", "inner")
  /\ UNCHANGED <<call, shutdown, beats, agentVars, ledgerVars, taskVars, dockerVars, ckVars>>

-----------------------------------------------------------------------------
(* handleLaunch, step by step; every error goes to throwError.               *)

LaunchStep(label, next, ok) ==
  /\ At("main", label)
  /\ IF ok
       THEN Goto("main", next) /\ UNCHANGED call
       ELSE Begin("main", "quit", "fail")
  /\ UNCHANGED <<shutdown, beats, ledgerVars, agentVars>>

(* The resource limits of the task and its pre-create hooks. *)
LaunchPreCreate ==
  \E ok \in Outcomes("hook", TRUE) :
    /\ LaunchStep("preCreate", "create", ok)
    /\ UNCHANGED <<taskVars, dockerVars, ckVars>>

LaunchCreate ==
  \E ok \in BOOLEAN :
    /\ LaunchStep("create", "assign", ok)
    /\ ContainerCreate(ok)
    /\ UNCHANGED <<taskVars, ckVars>>

(* The identifier becomes visible to the other goroutines. *)
LaunchAssign ==
  /\ LaunchStep("assign", "preRun", TRUE)
  /\ knownID' = TRUE
  /\ UNCHANGED <<checker, rules, dockerVars, ckVars>>

LaunchPreRun ==
  \E ok \in Outcomes("hook", TRUE) :
    /\ LaunchStep("preRun", "run", ok)
    /\ UNCHANGED <<taskVars, dockerVars, ckVars>>

(* A mutant of LaunchRun: waitContainer starts before the launch is over. *)
LaunchRunAndWait ==
  \E ok \in BOOLEAN :
    /\ At("main", "run")
    /\ IF ok
         THEN /\ pc' = [pc EXCEPT !["main"] = "postRun", !["waiter"] = "waiting"]
              /\ UNCHANGED call
         ELSE Begin("main", "quit", "fail")
    /\ ContainerRun(ok)
    /\ UNCHANGED <<shutdown, beats, ledgerVars, agentVars, taskVars, ckVars>>

LaunchRun ==
  \E ok \in BOOLEAN :
    /\ LaunchStep("run", "postRun", ok)
    /\ ContainerRun(ok)
    /\ UNCHANGED <<taskVars, ckVars>>

(* Post-run hooks that inspect the container fail once it is gone, and the   *)
(* others do not; a failing hook may have injected some of its rules.        *)
LaunchPostRun ==
  \E ok \in {TRUE} \cup Outcomes("hook", container # "removed") :
    /\ LaunchStep("postRun", IF checkType = "NONE" THEN "update" ELSE "inspect", ok)
    /\ IF ok THEN rules' = TRUE ELSE rules' \in {rules, TRUE}
    /\ UNCHANGED <<knownID, checker, dockerVars, ckVars>>

(* A task with a health check: install the checker, start its goroutine.     *)
LaunchHealthCheck ==
  \E ok \in BOOLEAN :
    /\ At("main", "inspect")
    /\ ContainerGetPID(ok)
    /\ IF ok
         THEN /\ pc' = [pc EXCEPT !["main"] = "update", !["health"] = "start"]
              /\ checker' = TRUE
              /\ UNCHANGED call
         ELSE Begin("main", "quit", "fail") /\ UNCHANGED checker
    /\ UNCHANGED <<shutdown, beats, knownID, rules, ledgerVars, agentVars, ckVars>>

-----------------------------------------------------------------------------
(* The goroutines main starts.                                               *)

(* The launch is over, or there will be none. *)
LaunchOver ==
  /\ pc["main"] \notin LaunchLabels /\ call["main"] # "launch"
  /\ launched \/ (shutdown /\ pc["main"] # "decode")

ReceiveSignal ==
  /\ At("signals", "idle")
  /\ Signals = "any" \/ (Signals = "late" /\ LaunchOver)
  /\ Begin("signals", "flag", "kill")
  /\ UNCHANGED <<shutdown, beats, agentVars, ledgerVars, taskVars, dockerVars, ckVars>>

HealthStart ==
  /\ At("health", "start")
  /\ Goto("health", "select")
  /\ CkStart
  /\ UNCHANGED <<call, shutdown, beats, agentVars, ledgerVars, taskVars, dockerVars>>

(* A result on Healthy: a TASK_RUNNING update that says how the task is. *)
HealthBeat ==
  /\ At("health", "select")
  /\ CkSendHealthy \/ CkSendUnsupported
  /\ Begin("health", "update", "beat")
  /\ beats' = beats + 1
  /\ UNCHANGED <<shutdown, agentVars, ledgerVars, taskVars, dockerVars>>

HealthDone ==
  /\ At("health", "select")
  /\ CkSendDone
  /\ Begin("health", "flag", "kill")
  /\ UNCHANGED <<shutdown, beats, agentVars, ledgerVars, taskVars, dockerVars>>

HealthExited ==
  /\ At("health", "select")
  /\ CkSendExited
  /\ Goto("health", "finished")
  /\ UNCHANGED <<call, shutdown, beats, agentVars, ledgerVars, taskVars, dockerVars>>

(* A mutant of WaitReturns: an error is dropped. *)
WaitDropsError ==
  \E ok \in BOOLEAN :
    /\ At("waiter", "waiting")
    /\ ContainerWait(ok)
    /\ IF ok
         THEN Begin("waiter", "quit", IF exitCode = 0 THEN "finish" ELSE "fail")
         ELSE Begin("waiter", "finished", "none")
    /\ UNCHANGED <<shutdown, beats, agentVars, ledgerVars, taskVars, ckVars>>

(* A mutant of WaitReturns: a task that fails is killed. *)
WaitKills ==
  \E ok \in BOOLEAN :
    /\ At("waiter", "waiting")
    /\ ContainerWait(ok)
    /\ IF ok /\ exitCode = 0
         THEN Begin("waiter", "quit", "finish")
         ELSE Begin("waiter", "flag", "kill")
    /\ UNCHANGED <<shutdown, beats, agentVars, ledgerVars, taskVars, ckVars>>

(* The container stopped, or the wait failed. *)
WaitReturns ==
  \E ok \in BOOLEAN :
    /\ At("waiter", "waiting")
    /\ ContainerWait(ok)
    /\ Begin("waiter", "quit", IF ok /\ exitCode = 0 THEN "finish" ELSE "fail")
    /\ UNCHANGED <<shutdown, beats, agentVars, ledgerVars, taskVars, ckVars>>

-----------------------------------------------------------------------------
(* handleKill and tearDown, in any goroutine.                                *)

(* A mutant of KillSetsFlag: Shutdown is never set. *)
KillSetsNoFlag(g) ==
  /\ At(g, "flag")
  /\ Goto(g, "quit")
  /\ UNCHANGED <<call, shutdown, beats, agentVars, ledgerVars, taskVars, dockerVars, ckVars>>

(* e.Shutdown = true, before anything is torn down *)
KillSetsFlag(g) ==
  /\ At(g, "flag")
  /\ shutdown' = TRUE
  /\ Goto(g, "quit")
  /\ UNCHANGED <<call, beats, agentVars, ledgerVars, taskVars, dockerVars, ckVars>>

(* A mutant of TearDownQuit: it does not wait for the checker. *)
TearDownWithoutQuit(g) ==
  /\ At(g, "quit")
  /\ Goto(g, "preStop")
  /\ UNCHANGED <<call, shutdown, beats, agentVars, ledgerVars, taskVars, dockerVars, ckVars>>

(* With a checker, the send on Quit blocks until the checker receives it. *)
TearDownQuit(g) ==
  /\ At(g, "quit")
  /\ IF checker THEN CkRecvQuit ELSE UNCHANGED ckVars
  /\ Goto(g, "preStop")
  /\ UNCHANGED <<call, shutdown, beats, agentVars, ledgerVars, taskVars, dockerVars>>

(* Errors of the pre-stop hooks are ignored: some rules may stay in place. *)
TearDownPreStop(g) ==
  /\ At(g, "preStop")
  /\ \E ok \in Outcomes("unhook", TRUE) : rules' = (rules /\ ~ok)
  /\ Goto(g, "stop")
  /\ UNCHANGED <<call, shutdown, beats, knownID, checker>>
  /\ UNCHANGED <<agentVars, ledgerVars, dockerVars, ckVars>>

(* A mutant of TearDownStop: the container is not stopped. *)
TearDownNoStop(g) ==
  /\ At(g, "stop")
  /\ Goto(g, "postStop")
  /\ UNCHANGED <<call, shutdown, beats, agentVars, ledgerVars, taskVars, dockerVars, ckVars>>

(* The error of ContainerStop is ignored. *)
TearDownStop(g) ==
  /\ At(g, "stop")
  /\ \E ok \in BOOLEAN : ContainerStop(knownID, ok)
  /\ Goto(g, "postStop")
  /\ UNCHANGED <<call, shutdown, beats, agentVars, ledgerVars, taskVars, ckVars>>

(* So are the errors of the post-stop hooks. *)
TearDownPostStop(g) ==
  /\ At(g, "postStop")
  /\ IF RemoveHook
       THEN \E ok \in BOOLEAN : ContainerRemove(knownID, ok)
       ELSE UNCHANGED dockerVars
  /\ Goto(g, "update")
  /\ UNCHANGED <<call, shutdown, beats, agentVars, ledgerVars, taskVars, ckVars>>

-----------------------------------------------------------------------------
(* updateStatus, in any goroutine, and what follows it.                      *)

(* A mutant of Return: the wait for the container starts before the update   *)
(* of the launch, and goes on when that fails.                               *)
ReturnAndWait(g, ok) ==
  CASE g = "main" /\ call[g] = "launch" ->
         /\ pc' = [pc EXCEPT ![g] = IF ok THEN "inner" ELSE "quit", !["waiter"] = "waiting"]
         /\ call' = [call EXCEPT ![g] = IF ok THEN "none" ELSE "fail"]
    [] g = "main" /\ call[g] = "kill" /\ ok -> Begin(g, "inner", "none")
    [] g = "main" /\ call[g] = "kill" /\ ~ok -> Begin(g, "flag", "abort")
    [] g = "main" /\ call[g] = "fail" -> Begin(g, "flag", "abort")
    [] g = "main" /\ call[g] = "abort" -> Begin(g, "failed", "none")
    [] g = "health" /\ call[g] = "beat" -> Begin(g, "select", "none")
    [] OTHER -> Begin(g, "finished", "none")

(* Where goroutine g goes when updateStatus returns in its current call:     *)
(* a failed launch is thrown, an error of a handler of main aborts Execute,  *)
(* and the errors met elsewhere are dropped.                                 *)
Return(g, ok) ==
  CASE g = "main" /\ call[g] = "launch" /\ ~ok -> Begin(g, "quit", "fail")
    [] g = "main" /\ call[g] = "launch" /\ ok ->
         /\ pc' = [pc EXCEPT ![g] = "inner", !["waiter"] = "waiting"]
         /\ call' = [call EXCEPT ![g] = "none"]
    [] g = "main" /\ call[g] = "kill" /\ ok -> Begin(g, "inner", "none")
    [] g = "main" /\ call[g] = "kill" /\ ~ok -> Begin(g, "flag", "abort")
    [] g = "main" /\ call[g] = "fail" -> Begin(g, "flag", "abort")
    [] g = "main" /\ call[g] = "abort" -> Begin(g, "failed", "none")
    [] g = "health" /\ call[g] = "beat" -> Begin(g, "select", "none")
    [] OTHER -> Begin(g, "finished", "none")

(* The call succeeds: the agent has the update, and will acknowledge it. *)
SendUpdate(g) ==
  /\ At(g, "update")
  /\ accepted' = accepted \cup {CurrentUpdate(g)}
  /\ acks' = acks \cup {CurrentUpdate(g)}
  /\ Goto(g, "record")
  /\ UNCHANGED <<call, shutdown, beats, stream, launched>>
  /\ UNCHANGED <<ledgerVars, taskVars, dockerVars, ckVars>>

(* The call returns an error, whether or not the agent got the update: it is *)
(* not recorded.                                                             *)
UpdateError(g) ==
  /\ At(g, "update")
  /\ "update" \in Faults
  /\ lost' = lost \cup {CurrentUpdate(g)}
  /\ \/ UNCHANGED <<accepted, acks>>
     \/ /\ accepted' = accepted \cup {CurrentUpdate(g)}
        /\ acks' = acks \cup {CurrentUpdate(g)}
  /\ Return(g, FALSE)
  /\ UNCHANGED <<shutdown, beats, unacked, resend, acked, stream, launched>>
  /\ UNCHANGED <<taskVars, dockerVars, ckVars>>

(* A mutant of RecordUpdate: the map keeps the last update only. *)
RecordLastUpdate(g) ==
  /\ At(g, "record")
  /\ unacked' = {CurrentUpdate(g)}
  /\ Return(g, TRUE)
  /\ UNCHANGED <<shutdown, beats, resend, acked, lost>>
  /\ UNCHANGED <<agentVars, taskVars, dockerVars, ckVars>>

(* Under the mutex, and only now, the update enters UnackedUpdates. *)
RecordUpdate(g) ==
  /\ At(g, "record")
  /\ unacked' = unacked \cup {CurrentUpdate(g)}
  /\ Return(g, TRUE)
  /\ UNCHANGED <<shutdown, beats, resend, acked, lost>>
  /\ UNCHANGED <<agentVars, taskVars, dockerVars, ckVars>>

-----------------------------------------------------------------------------
(* The checker's own steps and the container, beside the goroutines.         *)

CheckerStep ==
  /\ ~Exited
  /\ \/ CkInternal
     \/ CkTick /\ beats < MaxBeats
     \/ CkHungEnds /\ container # "running"
  /\ UNCHANGED <<controlVars, taskVars, ledgerVars, agentVars, dockerVars>>

ContainerStep ==
  /\ ContainerExits
  /\ UNCHANGED <<controlVars, taskVars, ledgerVars, agentVars, ckVars>>

SubscriptionStep ==
  \/ OuterLoop \/ PrepareSubscribe \/ Subscribe \/ SubscribeError
  \/ InnerLoop \/ StreamBroken \/ Abort

EventStep ==
  \/ HandleSubscribed \/ HandleLaunch \/ HandleKill \/ HandleMessage
  \/ \E u \in acks : HandleAcknowledged(u)

LaunchSteps ==
  \/ LaunchPreCreate \/ LaunchCreate \/ LaunchAssign \/ LaunchPreRun
  \/ LaunchRun \/ LaunchPostRun \/ LaunchHealthCheck

HealthStep == HealthStart \/ HealthBeat \/ HealthDone \/ HealthExited

SharedStep(g) ==
  \/ KillSetsFlag(g) \/ TearDownQuit(g) \/ TearDownPreStop(g)
  \/ TearDownStop(g) \/ TearDownPostStop(g)
  \/ SendUpdate(g) \/ UpdateError(g) \/ RecordUpdate(g)

Next ==
  \/ SubscriptionStep
  \/ EventStep
  \/ LaunchSteps
  \/ ReceiveSignal
  \/ HealthStep
  \/ WaitReturns
  \/ \E g \in Goroutine : SharedStep(g)
  \/ CheckerStep
  \/ ContainerStep

Spec == Init /\ [][Next]_vars

(* Every goroutine the runtime schedules goes on: calls to the agent and to  *)
(* the Docker daemon return, with a result or an error, and a goroutine      *)
(* waiting on a channel is served when the other end is ready.  The agent    *)
(* does not for ever refuse subscriptions, nor for ever fail to deliver an   *)
(* acknowledgement it owes.  Nothing obliges it to send any other event, a   *)
(* signal to arrive, the container to end or a connection to break.          *)
Fairness ==
  /\ WF_vars(OuterLoop \/ PrepareSubscribe)
  /\ WF_vars(InnerLoop)
  /\ SF_vars(HandleSubscribed)
  /\ WF_vars(LaunchSteps)
  /\ WF_vars(HealthStep)
  /\ WF_vars(WaitReturns)
  /\ WF_vars(CheckerStep)
  /\ \A g \in Goroutine : WF_vars(SharedStep(g))
  /\ WF_vars(Subscribe \/ SubscribeError)
  /\ SF_vars(Subscribe)
  /\ SF_vars(HandleAcknowledged(Running))
  /\ SF_vars(HandleAcknowledged(SignalKilled))

FairSpec == Spec /\ Fairness

-----------------------------------------------------------------------------
(* Types of the executor's state (executor.go:36-54), by groups of variables. *)
ControlTypeOK ==
  /\ pc \in [Goroutine -> Label]
  /\ call \in [Goroutine -> Call]
  /\ shutdown \in BOOLEAN
  /\ beats \in Nat

(* Each goroutine makes calls of its own: only the handlers of main throw or  *)
(* abort, only main and the two goroutines that are told to kill do so, and   *)
(* the waiter never does.                                                     *)
CallsOf(g) ==
  CASE g = "main" -> {"none", "launch", "kill", "fail", "abort"}
    [] g = "signals" -> {"none", "kill"}
    [] g = "health" -> {"none", "kill", "beat"}
    [] OTHER -> {"none", "fail", "finish"}

CallsTypeOK == \A g \in Goroutine : call[g] \in CallsOf(g)

TaskTypeOK ==
  /\ knownID \in BOOLEAN
  /\ checker \in BOOLEAN
  /\ rules \in BOOLEAN

LedgerTypeOK ==
  /\ unacked \subseteq Update
  /\ resend \subseteq Update
  /\ acked \subseteq Update
  /\ lost \subseteq Update

AgentTypeOK ==
  /\ stream \in {"down", "open", "subscribed"}
  /\ launched \in BOOLEAN
  /\ accepted \subseteq Update
  /\ acks \subseteq Update

(* The type invariant of the executor, its checker and its container.        *)
TypeOK ==
  /\ CkTypeOK
  /\ DockerTypeOK
  /\ ControlTypeOK
  /\ CallsTypeOK
  /\ TaskTypeOK
  /\ LedgerTypeOK
  /\ AgentTypeOK

InFlight == {CurrentUpdate(g) : g \in {h \in Goroutine : pc[h] = "record"}}

(* No update the agent received escapes the executor's books: it is recorded *)
(* for the next subscription, or acknowledged, or being recorded, unless its *)
(* call returned an error (executor.go:313-325, 350-400).                    *)
UpdateAccounting == accepted \subseteq unacked \cup acked \cup InFlight \cup lost

(* An acknowledged update of main is never kept for the next subscription:   *)
(* main records an update before it can decode its acknowledgement, across   *)
(* broken streams and repeated acknowledgements (executor.go:314-325,        *)
(* 377-400).                                                                 *)
MainAckIsFinal == \A u \in acked : u.by = "main" => u \notin unacked

(* Main handles no acknowledgement of an update of its own that ends the     *)
(* task: once it sent one it never decodes again, so the process ends before *)
(* it hears of it (executor.go:177, 183-206, 302-341).                       *)
MainEndsUnacked == \A u \in acked : u.by = "main" => ~Terminal(u)

(* The waiter reports the end of a container only after the agent received   *)
(* the TASK_RUNNING of its launch (executor.go:287-298, 468-500).            *)
EndFollowsRunning ==
  \A u \in accepted \cup lost : u.by = "waiter" => Running \in accepted

(* A terminal update tells the truth: once the agent has one, whoever sent   *)
(* it, the container does not run and never will (executor.go:302-311,       *)
(* 438-464, 491-499).                                                        *)
TerminalMeansStopped ==
  (\E u \in accepted : Terminal(u)) => container # "running"

(* TASK_FINISHED is the end of a launch that succeeded, with exit code 0: no  *)
(* goroutine reports, before or after it, that the launch failed, although    *)
(* the container runs while main is still on its way to TASK_RUNNING, may end *)
(* meanwhile, and the update itself may fail.  It does not say that nobody    *)
(* killed the task: one that answers the stop signal with code 0 finished     *)
(* (executor.go:287-298, 334-341, 474-497; docker.go:146-149).                *)
FinishedMeansSuccess ==
  (\E u \in accepted \cup lost : StateOf(u) = "FINISHED") =>
    /\ exitCode = 0
    /\ call["main"] # "fail"
    /\ \A u \in accepted \cup lost : u.by = "main" => StateOf(u) # "FAILED"

(* No container is left running and no host rule is left behind when Execute *)
(* fails, and when it returns, unless the goroutine of a signal or of a      *)
(* health checker sent main away (executor.go:183-206, 455-464).             *)
ExitClean ==
  pc["main"] = "failed" \/ (Exited /\ ~checker /\ pc["signals"] = "idle")
    => container # "running" /\ ~rules

(* What the process leaves behind it leaves only when it ends in the middle  *)
(* of a kill by another goroutine, which set Shutdown first and has not      *)
(* stopped the container yet (executor.go:177, 302-311, 455-464, 503-510).   *)
LeftOnlyMidKill ==
  Exited =>
    \/ container # "running" /\ ~rules
    \/ \E g \in Goroutine \ {"main"} :
         call[g] = "kill" /\ pc[g] \in {"quit", "preStop", "stop"}

(* Execute does not end in silence: when it fails, the call with TASK_KILLED *)
(* was made; when it returns, it was made or another goroutine is still on   *)
(* its way to it (executor.go:183-206, 302-311, 379-400, 503-510).           *)
ExitIsTold ==
  /\ pc["main"] = "failed" => \E u \in accepted \cup lost : StateOf(u) = "KILLED"
  /\ pc["main"] = "returned" =>
       \/ \E u \in accepted \cup lost : StateOf(u) = "KILLED"
       \/ \E g \in Goroutine \ {"main"} : call[g] = "kill"

(* With a health checker at most one terminal update reaches the agent: the  *)
(* checker receives Quit once, so one tearDown gets past it                  *)
(* (executor.go:457-459, healthcheck.go:129-133).                            *)
OneTerminalUpdate ==
  checker => \A u, v \in accepted : Terminal(u) /\ Terminal(v) => u = v

-----------------------------------------------------------------------------
(* A kill that main handles ends the process, whatever fails on the way      *)
(* (executor.go:183-206, 302-341).                                           *)
KillEndsProcess == pc["main"] = "flag" ~> Exited

(* The end of a launched container is reported, or its report failed, or the *)
(* process ends first (executor.go:296, 468-500).                            *)
EndIsReported ==
  (pc["waiter"] = "waiting" /\ container \in {"exited", "removed"}) ~>
    (Exited \/ \E u \in accepted \cup lost : u.by = "waiter")

(* The launch's TASK_RUNNING, once recorded, does not stay unacknowledged:   *)
(* when its acknowledgement is lost with the stream, the next subscription   *)
(* carries it again (executor.go:156, 314-325, 350-363).                     *)
RunningIsAcknowledged == Running \in unacked ~> (Exited \/ Running \notin unacked)

(* A stop signal ends the process, provided its TASK_KILLED reaches the      *)
(* agent (executor.go:143-149, 177, 503-510).                                *)
SignalEndsProcess ==
  pc["signals"] = "flag" ~> (Exited \/ \E u \in lost : u.by = "signals")

-----------------------------------------------------------------------------
(* What the documentation says and the code does not do: each of these is    *)
(* the property of a run that finds it violated.                             *)

(* When Execute returns normally every task has been killed                  *)
(* (executor.go:202-203).                                                    *)
AllTasksKilledAtExit == pc["main"] = "returned" => container # "running"

(* An update is kept only until its acknowledgement is handled               *)
(* (executor.go:396).                                                        *)
AcknowledgedIsForgotten == unacked \cap acked = {}

(* A task that failed its last check is killed (README.md:174).              *)
UnhealthyIsKilled == ckPC = "sendDone" ~> (Exited \/ container # "running")
=============================================================================
