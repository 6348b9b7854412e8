--------------------------- MODULE HealthChecker ---------------------------
(***************************************************************************)
(* The native health checker of a task: the goroutine that runs            *)
(* Checker.Run in healthcheck/healthcheck.go.  It ticks, checks the task,  *)
(* counts consecutive failures and talks to the core of the executor over  *)
(* four unbuffered channels: Healthy, Done and Exited (it sends), Quit (it *)
(* receives).                                                              *)
(*                                                                         *)
(* An unbuffered channel is a rendezvous.  The operators CkSendHealthy,    *)
(* CkSendDone, CkRecvQuit, CkSendExited and CkSendUnsupported are the      *)
(* checker's half of one: Executor conjoins each with the core's half.     *)
(* On its own this module lets the core be ready at any time (CkNext).     *)
(***************************************************************************)
EXTENDS Naturals

CONSTANTS
  CheckTypes,   \* the health check types a task may come with ("NONE": no check)
  Thresholds,   \* the values of consecutive_failures a task may come with
  CounterSize   \* number of values of ConsecutiveFailures (2^32 in the code)

ASSUME CheckerAssumption ==
  /\ CheckTypes \subseteq {"NONE", "HTTP", "TCP", "COMMAND", "UNKNOWN"}
  /\ CounterSize \in Nat
  /\ CounterSize >= 2
  /\ Thresholds \subseteq 0 .. (CounterSize - 1)

VARIABLES
  check,      \* HealthCheck of the task: type and threshold; it never changes
  ckPC,       \* where Run is; "checking" and "hung" wait for a check's result
  ticking,    \* the ticker has not been stopped
  tick,       \* a tick is buffered in ticker.C (capacity one, extra ticks drop)
  graceOver,  \* gracePeriodExpired
  failures,   \* ConsecutiveFailures
  streak,     \* history: unhealthy results outside the grace period since the
              \* last healthy one (saturates)
  finished    \* history: Done has been sent

ckVars == <<check, ckPC, ticking, tick, graceOver, failures, streak, finished>>

checkType == check.type
Threshold == check.threshold

CkStates == {"off", "delay", "select", "checking", "hung", "sendHealthy",
             "sendDone", "sendUnsupported", "sendExited", "returned"}

CkInit ==
  /\ check \in [type : CheckTypes, threshold : Thresholds]
  /\ ckPC = "off"
  /\ ticking = FALSE
  /\ tick = FALSE
  /\ graceOver = FALSE
  /\ failures = 0
  /\ streak = 0
  /\ finished = FALSE

-----------------------------------------------------------------------------
(* `go e.HealthChecker.Run()': the ticker starts before the initial delay. *)
CkStart ==
  /\ checkType # "NONE"
  /\ ckPC = "off"
  /\ ckPC' = "delay"
  /\ ticking' = TRUE
  /\ UNCHANGED <<check, tick, graceOver, failures, streak, finished>>

(* The delay is over: the type of the check selects the check function, and *)
(* an unknown type is reported as unhealthy.                                *)
CkDelayElapsed ==
  /\ ckPC = "delay"
  /\ ckPC' = IF checkType = "UNKNOWN" THEN "sendUnsupported" ELSE "select"
  /\ UNCHANGED <<check, ticking, tick, graceOver, failures, streak, finished>>

(* The runtime's ticker; Stop does not drain the channel. *)
CkTick ==
  /\ ticking
  /\ ~tick
  /\ tick' = TRUE
  /\ UNCHANGED <<check, ckPC, ticking, graceOver, failures, streak, finished>>

(* The goroutine waiting for the grace timer, armed after the delay and      *)
(* stopped when Run returns.                                                 *)
CkGraceExpire ==
  /\ ckPC \notin {"off", "delay", "returned"}
  /\ ~graceOver
  /\ graceOver' = TRUE
  /\ UNCHANGED <<check, ckPC, ticking, tick, failures, streak, finished>>

(* The select takes a tick and starts the check goroutine. *)
CkTake ==
  /\ ckPC = "select"
  /\ tick
  /\ tick' = FALSE
  /\ ckPC' = "checking"
  /\ UNCHANGED <<check, ticking, graceOver, failures, streak, finished>>

(* The result of a check is true. *)
CkHealthyResult ==
  /\ ckPC = "checking"
  /\ failures' = 0
  /\ graceOver' = TRUE
  /\ streak' = 0
  /\ ckPC' = "sendHealthy"
  /\ UNCHANGED <<check, ticking, tick, finished>>

(* Mutants of NextFailures: a counter that does not wrap; one that counts     *)
(* in the grace period.                                                       *)
NextFailuresUnbounded == IF graceOver THEN failures + 1 ELSE failures
NextFailuresInGrace == IF failures < CounterSize - 1 THEN failures + 1 ELSE 0

(* ConsecutiveFailures++ outside the grace period; an unsigned counter wraps. *)
NextFailures ==
  CASE ~graceOver -> failures
    [] graceOver /\ failures < CounterSize - 1 -> failures + 1
    [] graceOver /\ failures = CounterSize - 1 -> 0

(* Mutants of GiveUp: at least, or more than, instead of exactly. *)
GiveUpAtLeast(count) == graceOver /\ count >= Threshold
GiveUpPast(count) == graceOver /\ count > Threshold

(* The failures that end the checker: the count reaches the threshold. *)
GiveUp(count) == graceOver /\ count = Threshold

(* What Run does with a false result; the streak saturates. *)
CkUnhealthy ==
  /\ failures' = NextFailures
  /\ streak' = IF graceOver /\ streak < CounterSize - 1 THEN streak + 1 ELSE streak
  /\ IF GiveUp(NextFailures)
       THEN ckPC' = "sendDone" /\ ticking' = FALSE
       ELSE ckPC' = "sendHealthy" /\ UNCHANGED ticking
  /\ UNCHANGED <<check, tick, graceOver, finished>>

CkUnhealthyResult == ckPC = "checking" /\ CkUnhealthy

(* Only the dial of an HTTP check has a deadline: reading the response may   *)
(* block until the other end closes the connection.                          *)
CkHang ==
  /\ ckPC = "checking"
  /\ checkType = "HTTP"
  /\ ckPC' = "hung"
  /\ UNCHANGED <<check, ticking, tick, graceOver, failures, streak, finished>>

(* The connection was closed under the blocked read: the result is false. *)
CkHungEnds == ckPC = "hung" /\ CkUnhealthy

-----------------------------------------------------------------------------
(* The checker's half of each rendezvous with the core. *)

(* c.Healthy <- healthy *)
CkSendHealthy ==
  /\ ckPC = "sendHealthy"
  /\ ckPC' = "select"
  /\ UNCHANGED <<check, ticking, tick, graceOver, failures, streak, finished>>

(* c.Done <- struct{}{}; the break that follows leaves the select only. *)
CkSendDone ==
  /\ ckPC = "sendDone"
  /\ ckPC' = "select"
  /\ finished' = TRUE
  /\ UNCHANGED <<check, ticking, tick, graceOver, failures, streak>>

(* c.Healthy <- false of an unknown type, after which Run returns and its    *)
(* deferred calls stop the ticker.                                           *)
CkSendUnsupported ==
  /\ ckPC = "sendUnsupported"
  /\ ckPC' = "returned"
  /\ ticking' = FALSE
  /\ UNCHANGED <<check, tick, graceOver, failures, streak, finished>>

(* <-c.Quit, in the select *)
CkRecvQuit ==
  /\ ckPC = "select"
  /\ ckPC' = "sendExited"
  /\ UNCHANGED <<check, ticking, tick, graceOver, failures, streak, finished>>

(* c.Exited <- struct{}{} and the return of Run *)
CkSendExited ==
  /\ ckPC = "sendExited"
  /\ ckPC' = "returned"
  /\ ticking' = FALSE
  /\ UNCHANGED <<check, tick, graceOver, failures, streak, finished>>

-----------------------------------------------------------------------------
(* The steps the checker takes by itself, the ticker's aside. *)
CkInternal ==
  \/ CkDelayElapsed
  \/ CkGraceExpire
  \/ CkTake
  \/ CkHealthyResult
  \/ CkUnhealthyResult
  \/ CkHang

CkSend == CkSendHealthy \/ CkSendDone \/ CkSendUnsupported \/ CkSendExited

CkNext == CkStart \/ CkTick \/ CkInternal \/ CkHungEnds \/ CkSend \/ CkRecvQuit

(* Timers fire, checks with a deadline answer, and a core that listens takes *)
(* what is sent; nothing obliges the core to send Quit, nor the other end of *)
(* a hung check to close the connection.                                     *)
CkFairness ==
  /\ WF_ckVars(CkStart \/ CkDelayElapsed \/ CkSend)
  /\ WF_ckVars(CkTick)
  /\ WF_ckVars(CkGraceExpire)
  /\ WF_ckVars(CkTake)
  /\ WF_ckVars(CkHealthyResult \/ CkUnhealthyResult)

CkSafeSpec == CkInit /\ [][CkNext]_ckVars
CkSpec == CkSafeSpec /\ CkFairness

-----------------------------------------------------------------------------
(* Types of the checker's state (healthcheck.go:22-32, 52-90). *)
CkTypeOK ==
  /\ check \in [type : CheckTypes, threshold : Thresholds]
  /\ ckPC \in CkStates
  /\ ticking \in BOOLEAN
  /\ tick \in BOOLEAN
  /\ graceOver \in BOOLEAN
  /\ failures \in 0 .. (CounterSize - 1)
  /\ streak \in 0 .. (CounterSize - 1)
  /\ finished \in BOOLEAN

(* The core is told to kill the task only after the grace period and after   *)
(* at least Threshold unhealthy results in a row since then: failures seen   *)
(* during the grace period, or separated by a healthy result, never add up,  *)
(* although the timer of the grace period may fire between any two results   *)
(* (healthcheck.go:105-124).                                                 *)
DoneJustified == ckPC = "sendDone" => graceOver /\ streak >= Threshold

(* Done is sent at most once, although the loop goes on after it and a       *)
(* buffered tick may start one more check: a second Done would find nobody   *)
(* listening and block the checker for ever (healthcheck.go:118-123).        *)
DoneOnce == [][CkSendDone => ~finished]_ckVars

(* A task that is unhealthy from some point on is given up, unless the core  *)
(* makes the checker quit first, when every check has a deadline             *)
(* (healthcheck.go:110-124).                                                 *)
UnhealthyIsGivenUp ==
  checkType # "HTTP" /\ <>[](streak > 0)
    => <>(finished \/ ckPC \in {"sendExited", "returned"})

(* A checker the core listens to always comes back to the select where it    *)
(* accepts Quit, or has accepted it: without this the core's send on Quit    *)
(* blocks a kill (healthcheck.go:91-135).                                    *)
ReturnsToSelect ==
  checkType \in {"TCP", "COMMAND"}
    => []<>(ckPC \in {"select", "sendExited", "returned"})
=============================================================================
