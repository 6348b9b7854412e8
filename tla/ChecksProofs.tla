---------------------------- MODULE ChecksProofs ----------------------------
(***************************************************************************)
(* Proofs about the checks, for every number of threads, checks and        *)
(* namespace handles, every threshold and any switch that fails, where a   *)
(* theorem does not say otherwise.                                         *)
(***************************************************************************)
EXTENDS Checks, HealthCheckerProofs, FiniteSetTheorems

(* Each step of the checks is one of the checker, or leaves it alone.        *)
LEMMA ChecksSimulation == [Next]_vars => [CkNext]_ckVars
<1> SUFFICES ASSUME [Next]_vars
             PROVE  [CkNext]_ckVars
  OBVIOUS
<1>1. CASE RunAlone
  BY <1>1 DEF RunAlone, RunStep, CkNext, CkInternal
<1>2. ASSUME NEW s \in Slots,
             Take(s) \/ HealthyResult(s) \/ UnhealthyResult(s) \/ HungEnds(s) \/ ReadHangs(s)
      PROVE  CkNext
  BY <1>2 DEF Take, HealthyResult, UnhealthyResult, HungEnds, Result, ReadHangs,
              CkNext, CkInternal
<1>3. ASSUME NEW s \in Slots,
             \/ Enter(s) \/ Switch(s) \/ Dial(s) \/ ReadResponse(s) \/ Exec(s)
             \/ WaitAnswer(s) \/ WaitDeadline(s) \/ Exit(s) \/ Cancel(s) \/ Deadline(s)
      PROVE  UNCHANGED ckVars
  BY <1>3 DEF Enter, Switch, Dial, ReadResponse, Exec, WaitAnswer,
              WaitDeadline, Exit, Cancel, Deadline, Quiet
<1>4. CASE Environment \/ UNCHANGED vars
  BY <1>4 DEF Environment, vars
<1> QED
  BY <1>1, <1>2, <1>3, <1>4 DEF Next, CheckStep

(* With its check functions the checker keeps the safety part of its         *)
(* specification: what is proved of HealthChecker holds with real checks     *)
(* (healthcheck.go:50-136, 138-279).                                         *)
THEOREM ChecksRunChecker == Spec => CkSafeSpec
<1>1. Init => CkInit
  BY DEF Init
<1> QED
  BY <1>1, ChecksSimulation, PTL DEF Spec, CkSafeSpec

(* So its counter wraps inside its range, whatever the checks answer         *)
(* (healthcheck.go:22-32, 52-90).                                            *)
THEOREM ChecksCounterTyped == Spec => []CkTypeOK
BY ChecksRunChecker, CheckerTyped, PTL

(* It gives up only after that many unhealthy results in a row outside the   *)
(* grace period (healthcheck.go:105-124).                                    *)
THEOREM ChecksDoneJustified == Spec => []DoneJustified
BY ChecksRunChecker, CheckerDoneJustified, PTL

(* It gives up at most once (healthcheck.go:118-123).                        *)
THEOREM ChecksDoneOnce == Spec => DoneOnce
BY ChecksRunChecker, CheckerDoneOnce, PTL
-----------------------------------------------------------------------------
(* Threads and namespaces.                                                   *)

NsTyped ==
  /\ ns \in [Threads -> Spaces \cup {"none"}]
  /\ lockedBy \in [Threads -> Slots \cup {"nobody"}]
  /\ opened \in [Threads -> Spaces \cup {"none"}]
  /\ handles \in Nat
  /\ pidOwner \in Spaces \cup {"nobody"}

(* The steps that leave the threads alone. *)
LEMMA ThreadsFrame ==
  ASSUME [Next]_vars,
         \A s \in Slots : ~Enter(s) /\ ~Switch(s) /\ ~Exit(s),
         ~(Bridged /\ StartThread)
  PROVE  /\ UNCHANGED <<ns, lockedBy, opened, handles>>
         /\ PidChanges \/ UNCHANGED pidOwner
<1> USE DEF nsVars
<1>1. CASE RunAlone
  BY <1>1 DEF RunAlone
<1>2. ASSUME NEW s \in Slots,
             \/ Take(s) \/ Dial(s) \/ ReadResponse(s) \/ Exec(s) \/ WaitAnswer(s)
             \/ WaitDeadline(s) \/ HealthyResult(s) \/ UnhealthyResult(s)
             \/ Cancel(s) \/ ReadHangs(s) \/ HungEnds(s) \/ Deadline(s)
      PROVE  UNCHANGED nsVars
  BY <1>2 DEF Take, Dial, ReadResponse, Exec, WaitAnswer, WaitDeadline,
     HealthyResult, UnhealthyResult, HungEnds, Result, Cancel, ReadHangs, Deadline
<1>3. CASE Environment \/ UNCHANGED vars
  BY <1>3 DEF Environment, PidChanges, vars
<1> QED
  BY <1>1, <1>2, <1>3 DEF Next, CheckStep

LEMMA NsTypedStep == NsTyped /\ [Next]_vars => NsTyped'
<1> SUFFICES ASSUME NsTyped, [Next]_vars
             PROVE  NsTyped'
  OBVIOUS
<1> USE DEF NsTyped, Spaces
<1>1. ASSUME NEW s \in Slots, Enter(s)
      PROVE  NsTyped'
  <2>1. PICK ok \in BOOLEAN : OpenUnless(s, ok, {"host"})
    BY <1>1 DEF Enter, OpenNamespace
  <2>2. ok => pidOwner \in Spaces
    BY <2>1, Zenon DEF OpenUnless, CanOpen
  <2>3. handles' \in Nat
    BY <2>1 DEF OpenUnless
  <2> QED
    BY <2>1, <2>2, <2>3 DEF OpenUnless, Unlocked, Started
<1>2. ASSUME NEW s \in Slots, Switch(s) \/ Exit(s)
      PROVE  NsTyped'
  BY <1>2 DEF Switch, SwitchNamespace, Exit, ExitNetworkNamespace
<1>3. CASE StartThread
  BY <1>3 DEF StartThread, Started, Unlocked
<1>4. CASE UNCHANGED <<ns, lockedBy, opened, handles>> /\ (PidChanges \/ UNCHANGED pidOwner)
  BY <1>4 DEF PidChanges
<1> QED
  BY <1>1, <1>2, <1>3, <1>4, ThreadsFrame

(* With a runtime that starts no thread from a locked one, and where no      *)
(* switch back fails, no goroutine but the check that entered it ever runs   *)
(* in the namespace of a container, however many threads and checks there    *)
(* are.  Both assumptions are needed: the code sees to neither               *)
(* (namespace.go:31, 51-58).                                                 *)
THEOREM UnlockedAtHome ==
  ASSUME ~Inherits, "exit" \notin SwitchFaults
  PROVE  Spec => []UnlockedIsHome
<1> DEFINE Inv == NsTyped /\ UnlockedIsHome
<1>1. Init => Inv
  BY DEF Init, NsInit, NsTyped, Spaces, UnlockedIsHome, Unlocked, Started
<1>2. Inv /\ [Next]_vars => Inv'
  <2> SUFFICES ASSUME Inv, [Next]_vars
               PROVE  UnlockedIsHome'
    BY NsTypedStep
  <2> USE ChecksAssumption DEF NsTyped, UnlockedIsHome, Unlocked, Started
  <2>1. ASSUME NEW s \in Slots, Enter(s)
        PROVE  UnlockedIsHome'
    BY <2>1 DEF Enter, OpenNamespace, OpenUnless
  <2>2. ASSUME NEW s \in Slots, Switch(s)
        PROVE  UnlockedIsHome'
    BY <2>2 DEF Switch, SwitchNamespace
  <2>3. ASSUME NEW s \in Slots, Exit(s)
        PROVE  UnlockedIsHome'
    BY <2>3 DEF Exit, ExitNetworkNamespace
  <2>4. CASE StartThread
    BY <2>4 DEF StartThread
  <2>5. CASE UNCHANGED <<ns, lockedBy>>
    BY <2>5
  <2> QED
    BY <2>1, <2>2, <2>3, <2>4, <2>5, ThreadsFrame
<1> QED
  BY <1>1, <1>2, PTL DEF Spec
-----------------------------------------------------------------------------
(* Where a healthy result comes from.                                        *)

(* The network mode, and with it the type of check, never changes.           *)
LEMMA TaskStays == [Next]_vars => UNCHANGED <<check, network>>
<1> SUFFICES ASSUME [Next]_vars
             PROVE  UNCHANGED <<check, network>>
  OBVIOUS
<1>1. UNCHANGED check
  BY ChecksSimulation DEF ckVars, CkNext, CkStart, CkTick, CkInternal, CkDelayElapsed,
     CkGraceExpire, CkTake, CkHealthyResult, CkUnhealthyResult, CkUnhealthy, CkHang,
     CkHungEnds, CkSend, CkSendHealthy, CkSendDone, CkSendUnsupported, CkSendExited,
     CkRecvQuit
<1>2. CASE RunAlone \/ Environment \/ UNCHANGED vars
  BY <1>1, <1>2 DEF RunAlone, Environment, vars, checkVars
<1>3. ASSUME NEW s \in Slots,
             Take(s) \/ CheckStep(s) \/ ReadHangs(s) \/ HungEnds(s) \/ Deadline(s)
      PROVE  UNCHANGED network
  BY <1>3 DEF Take, CheckStep, ReadHangs, HungEnds, Deadline, Enter, Switch, Dial,
     ReadResponse, Exec, WaitAnswer, WaitDeadline, HealthyResult,
     UnhealthyResult, Result, Exit, Cancel, Quiet
<1> QED
  BY <1>1, <1>2, <1>3 DEF Next

(* Where a check of each kind can be. *)
Route(s) ==
  /\ checkType = "COMMAND" =>
       at[s] \in {"idle", "exec", "wait", "healthy", "unhealthy", "cancel"}
  /\ checkType # "COMMAND" => at[s] \notin {"exec", "wait", "cancel"}
  /\ ~Bridged => at[s] \notin {"enter", "switch", "exit"}

Routes == at \in [Slots -> CheckLabels] /\ \A s \in Slots : Route(s)

LEMMA RoutesStep == Routes /\ [Next]_vars => Routes'
<1> SUFFICES ASSUME Routes, [Next]_vars
             PROVE  Routes'
  OBVIOUS
<1>1. Bridged' = Bridged /\ checkType' = checkType /\ (Bridged => checkType # "COMMAND")
  BY TaskStays DEF Bridged, checkType
<1> USE <1>1 DEF Routes, Route, CheckLabels, Goto
<1>2. CASE UNCHANGED at
  BY <1>2
<1>3. ASSUME NEW s \in Slots, Take(s)
      PROVE  Routes'
  <2>1. \/ checkType = "COMMAND" /\ at' = [at EXCEPT ![s] = "exec"]
        \/ Bridged /\ at' = [at EXCEPT ![s] = "enter"]
        \/ checkType # "COMMAND" /\ at' = [at EXCEPT ![s] = "dial"]
    BY <1>3, Zenon DEF Take
  <2> QED
    BY <2>1
<1>4. ASSUME NEW s \in Slots, Enter(s) \/ Switch(s) \/ Dial(s) \/ ReadResponse(s) \/ ReadHangs(s)
      PROVE  Routes'
  BY <1>4 DEF Enter, Switch, Dial, ReadResponse, ReadHangs
<1>5. ASSUME NEW s \in Slots,
             Exec(s) \/ WaitAnswer(s) \/ WaitDeadline(s) \/ Exit(s) \/ Cancel(s)
      PROVE  Routes'
  BY <1>5 DEF Exec, WaitAnswer, WaitDeadline, Exit, Cancel
<1>6. ASSUME NEW s \in Slots, HealthyResult(s) \/ UnhealthyResult(s) \/ HungEnds(s)
      PROVE  Routes'
  <2>1. \E label \in {"cancel", "exit", "idle"} :
           /\ at' = [at EXCEPT ![s] = label]
           /\ label = "cancel" => checkType = "COMMAND"
           /\ label = "exit" => Bridged
    BY <1>6, Zenon DEF HealthyResult, UnhealthyResult, HungEnds, Result, Deferred
  <2> QED
    BY <2>1
<1>7. CASE RunAlone \/ Environment \/ UNCHANGED vars \/ \E s \in Slots : Deadline(s)
  BY <1>7, <1>2 DEF RunAlone, Environment, vars, checkVars, Deadline
<1> QED
  BY <1>3, <1>4, <1>5, <1>6, <1>7 DEF Next, CheckStep

(* A check of a bridged task has no thread before it enters, and then one    *)
(* that opened and entered the namespace of a container; without bridge no   *)
(* thread leaves the executor's namespace.                                   *)
Away == {"container", "other"}

InPlace(s) ==
  /\ at[s] \in {"idle", "enter"} => \A t \in Threads : lockedBy[t] # s
  /\ at[s] \in {"switch", "dial"} => \E t \in Threads : lockedBy[t] = s
  /\ at[s] = "switch" => \A t \in Threads : lockedBy[t] = s => opened[t] \in Away
  /\ at[s] = "dial" => \A t \in Threads : lockedBy[t] = s => ns[t] \in Away

Places ==
  IF Bridged
    THEN \A s \in Slots : InPlace(s)
    ELSE \A t \in Threads : ns[t] \in {"none", "host"} /\ lockedBy[t] = "nobody"

(* The places that only an entry, a switch or an exit brings a check to.     *)
Kept(s) ==
  /\ at'[s] \in {"switch", "dial", "idle"} => at'[s] = at[s]
  /\ at'[s] = "enter" => at[s] \in {"idle", "enter"}

LEMMA EntersFrame ==
  ASSUME Routes, [Next]_vars, NEW s \in Slots, ~Enter(s), ~Switch(s), ~Exit(s), Bridged
  PROVE  Kept(s)
<1> USE DEF Routes, Route, Goto, Kept
<1>1. CASE RunAlone \/ Environment \/ UNCHANGED vars
  BY <1>1 DEF RunAlone, Environment, vars, checkVars
<1>2. ASSUME NEW q \in Slots, Take(q)
      PROVE  Kept(s)
  <2>1. at' = [at EXCEPT ![q] = "enter"] /\ at[q] = "idle"
    BY <1>2, Zenon DEF Take, Bridged
  <2> QED
    BY <2>1
<1>3. ASSUME NEW q \in Slots, HealthyResult(q) \/ UnhealthyResult(q) \/ HungEnds(q)
      PROVE  Kept(s)
  <2>1. checkType # "COMMAND"
    BY DEF Bridged
  <2>2. at' = [at EXCEPT ![q] = "exit"]
    BY <1>3, <2>1, Zenon DEF HealthyResult, UnhealthyResult, HungEnds, Result, Deferred
  <2> QED
    BY <2>2
<1>4. ASSUME NEW q \in Slots, Enter(q) \/ Switch(q) \/ Exit(q)
      PROVE  Kept(s)
  BY <1>4 DEF Enter, Switch, Exit
<1>5. ASSUME NEW q \in Slots,
             \/ Dial(q) \/ ReadResponse(q) \/ ReadHangs(q)
             \/ WaitAnswer(q) \/ WaitDeadline(q) \/ Exec(q) \/ Deadline(q)
      PROVE  Kept(s)
  BY <1>5 DEF Dial, ReadResponse, ReadHangs, Exec, WaitAnswer,
     WaitDeadline, Deadline
<1>6. ASSUME NEW q \in Slots, Cancel(q)
      PROVE  Kept(s)
  BY <1>6 DEF Cancel, Bridged
<1> QED
  BY <1>1, <1>2, <1>3, <1>4, <1>5, <1>6 DEF Next, CheckStep

LEMMA PlacesStep ==
  NsTyped /\ Routes /\ Places /\ [Next]_vars => Places'
<1> SUFFICES ASSUME NsTyped, Routes, Places, [Next]_vars
             PROVE  Places'
  OBVIOUS
<1>1. Bridged' = Bridged
  BY TaskStays DEF Bridged, checkType
<1> USE ChecksAssumption DEF NsTyped, Places
<1>2. CASE ~Bridged
  <2>1. \A s \in Slots : ~Enter(s) /\ ~Switch(s) /\ ~Exit(s)
    BY <1>2 DEF Routes, Route, Enter, Switch, Exit
  <2> QED
    BY <1>1, <1>2, <2>1, ThreadsFrame
<1>3. CASE Bridged
  <2> SUFFICES ASSUME NEW s \in Slots
               PROVE  InPlace(s)'
    BY <1>1, <1>3
  <2> USE DEF InPlace
  <2>1. CASE Enter(s)
    <3>1. PICK ok \in BOOLEAN :
            OpenNamespace(s, ok) /\ Goto(s, IF ok THEN "switch" ELSE "unhealthy")
      BY <2>1 DEF Enter
    <3>2. \A t \in Threads : lockedBy[t] # s
      BY <1>3, <2>1 DEF Enter
    <3>3. PICK t \in Unlocked :
            /\ lockedBy' = [lockedBy EXCEPT ![t] = s]
            /\ opened' = [opened EXCEPT ![t] = IF ok THEN pidOwner ELSE "none"]
      BY <3>1 DEF OpenNamespace, OpenUnless
    <3>4. ok => pidOwner \in Away
      BY <3>1 DEF OpenNamespace, OpenUnless, CanOpen, Away, Spaces
    <3> QED
      BY <3>1, <3>2, <3>3, <3>4 DEF Goto, Routes, Unlocked, Started
  <2>2. CASE Switch(s)
    BY <1>3, <2>2 DEF Switch, SwitchNamespace, Goto, Routes
  <2>3. CASE Exit(s)
    BY <1>3, <2>3 DEF Exit, ExitNetworkNamespace, Goto, Routes
  <2>4. CASE ~Enter(s) /\ ~Switch(s) /\ ~Exit(s)
    <3>1. Kept(s)
      BY <1>3, <2>4, EntersFrame
    <3> USE DEF Kept
    <3>2. ASSUME NEW q \in Slots, q # s, Enter(q)
          PROVE  InPlace(s)'
      BY <1>3, <3>1, <3>2 DEF Enter, OpenNamespace, OpenUnless, Unlocked, Started
    <3>3. ASSUME NEW q \in Slots, q # s, Switch(q)
          PROVE  InPlace(s)'
      BY <1>3, <3>1, <3>3 DEF Switch, SwitchNamespace
    <3>4. ASSUME NEW q \in Slots, q # s, Exit(q)
          PROVE  InPlace(s)'
      BY <1>3, <3>1, <3>4 DEF Exit, ExitNetworkNamespace
    <3>5. CASE StartThread
      BY <1>3, <3>1, <3>5 DEF StartThread, Started, Away
    <3>6. CASE UNCHANGED <<ns, lockedBy, opened>>
      BY <1>3, <3>1, <3>6
    <3> QED
      BY <2>4, <3>2, <3>3, <3>4, <3>5, <3>6, ThreadsFrame
  <2> QED
    BY <2>1, <2>2, <2>3, <2>4
<1> QED
  BY <1>2, <1>3

(* As long as the task's process has the pid no other container is reached:  *)
(* the pid never comes back to the task.                                     *)
NoOtherYet ==
  pidOwner = "container" =>
    /\ \A t \in Threads : ns[t] # "other" /\ opened[t] # "other"
    /\ \A s \in Slots : probed[s] # "other"

(* What a check that read, or is healthy, got its answer from. *)
Where == IF Bridged THEN Away ELSE {"host"}
Answered(s) ==
  IF checkType = "COMMAND"
    THEN at[s] = "healthy" \/ (at[s] = "wait" /\ poller[s] = "zero") => exitedZero[s]
    ELSE at[s] \in {"read", "healthy"} => probed[s] \in Where

Probes ==
  /\ probed \in [Slots -> Spaces \cup {"none"}]
  /\ poller \in [Slots -> PollerStates]
  /\ exitedZero \in [Slots -> BOOLEAN]
  /\ \A s \in Slots : Answered(s)

LEMMA ProbesStep ==
  NsTyped /\ Routes /\ Places /\ Probes /\ [Next]_vars => Probes'
<1> SUFFICES ASSUME NsTyped, Routes, Places, Probes, [Next]_vars
             PROVE  Probes'
  OBVIOUS
<1>1. Bridged' = Bridged /\ checkType' = checkType /\ Where' = Where
  BY TaskStays DEF Bridged, checkType, Where
<1>2. Bridged => checkType # "COMMAND"
  BY DEF Bridged
<1> USE <1>1, <1>2 DEF Probes, Answered, Routes, Route, Goto, execVars
<1>3. CASE RunAlone \/ UNCHANGED vars
  BY <1>3 DEF RunAlone, vars, checkVars
<1>4. CASE Environment
  <2>1. CASE UNCHANGED <<checkVars, execVars>>
    BY <2>1 DEF checkVars
  <2>2. ASSUME NEW s \in Slots, PollerStep(s), UNCHANGED checkVars
        PROVE  Probes'
    <3>1. CASE PollerCreate(s)
      BY <2>2, <3>1 DEF PollerCreate, PollerGoto, PollerStates, checkVars
    <3>2. CASE PollerStart(s)
      BY <2>2, <3>2 DEF PollerStart, PollerGoto, PollerStates, checkVars
    <3>3. CASE PollerTurn(s)
      <4>1. CASE ctxDone[s]
        BY <2>2, <3>3, <4>1 DEF PollerTurn, PollerGoto, PollerStates, checkVars
      <4>2. CASE ~ctxDone[s]
        <5>1. PICK answer \in {"poll", "zero", "nonzero"} :
                /\ poller' = [poller EXCEPT ![s] = answer]
                /\ exitedZero' = [exitedZero EXCEPT ![s] = @ \/ answer = "zero"]
          BY <3>3, <4>2 DEF PollerTurn, PollerGoto
        <5> QED
          BY <2>2, <5>1 DEF PollerStates, checkVars
      <4> QED
        BY <4>1, <4>2
    <3> QED
      BY <2>2, <3>1, <3>2, <3>3 DEF PollerStep
  <2> QED
    BY <1>4, <2>1, <2>2 DEF Environment
<1>5. ASSUME NEW s \in Slots, Take(s)
      PROVE  Probes'
  <2>1. \E label \in {"exec", "enter", "dial"} : at' = [at EXCEPT ![s] = label]
    BY <1>5, Zenon DEF Take
  <2> QED
    BY <1>5, <2>1 DEF Take
<1>6. ASSUME NEW s \in Slots, Enter(s) \/ Switch(s) \/ ReadResponse(s) \/ ReadHangs(s)
      PROVE  Probes'
  BY <1>6 DEF Enter, Switch, ReadResponse, ReadHangs
<1>7. ASSUME NEW s \in Slots, Dial(s)
      PROVE  Probes'
  <2>1. checkType # "COMMAND" /\ at[s] = "dial"
    BY <1>7 DEF Dial
  <2>2. \A t \in RunsOn(s) : ns[t] \in Where /\ t \in Threads
    BY <2>1, ChecksAssumption
    DEF RunsOn, LockedTo, Unlocked, Started, Places, InPlace, NsTyped, Where
  <2>3. \/ at' = [at EXCEPT ![s] = "unhealthy"] /\ UNCHANGED probed
        \/ \E n \in Where, label \in {"healthy", "read"} :
             probed' = [probed EXCEPT ![s] = n] /\ at' = [at EXCEPT ![s] = label]
    BY <1>7, <2>2 DEF Dial
  <2>4. UNCHANGED execVars
    BY <1>7 DEF Dial
  <2> QED
    BY <2>1, <2>3, <2>4 DEF Where, Away, Spaces
<1>8. ASSUME NEW s \in Slots, Exec(s)
      PROVE  Probes'
  BY <1>8 DEF Exec, ContainerExec, PollerGoto, PollerStates
<1>9. ASSUME NEW s \in Slots, WaitAnswer(s) \/ WaitDeadline(s)
      PROVE  Probes'
  BY <1>9 DEF WaitAnswer, SendAnswer, PollerGoto, WaitDeadline, PollerStates
<1>10. ASSUME NEW s \in Slots, Exit(s)
       PROVE  Probes'
  BY <1>10 DEF Exit
<1>11. ASSUME NEW s \in Slots, Cancel(s) \/ Deadline(s)
       PROVE  Probes'
  BY <1>11 DEF Cancel, Deadline, EndContext
<1>12. ASSUME NEW s \in Slots, HealthyResult(s) \/ UnhealthyResult(s) \/ HungEnds(s)
       PROVE  Probes'
  <2>1. \E label \in {"cancel", "exit", "idle"} : at' = [at EXCEPT ![s] = label]
    BY <1>12, Zenon DEF HealthyResult, UnhealthyResult, HungEnds, Result, Deferred
  <2> QED
    BY <1>12, <2>1 DEF HealthyResult, UnhealthyResult, HungEnds, Result
<1> QED
  BY <1>3, <1>4, <1>5, <1>6, <1>7, <1>8, <1>9, <1>10, <1>11, <1>12
  DEF Next, CheckStep

LEMMA NoOtherYetStep ==
  NsTyped /\ Probes /\ NoOtherYet /\ [Next]_vars => NoOtherYet'
<1> SUFFICES ASSUME NsTyped, Probes, NoOtherYet, [Next]_vars, pidOwner' = "container"
             PROVE  NoOtherYet'
  BY DEF NoOtherYet
<1>1. pidOwner = "container"
  <2>1. ASSUME NEW s \in Slots, Enter(s) \/ Switch(s) \/ Exit(s)
        PROVE  UNCHANGED pidOwner
    BY <2>1 DEF Enter, OpenNamespace, OpenUnless, Switch, SwitchNamespace, Exit,
       ExitNetworkNamespace
  <2>2. CASE StartThread
    BY <2>2 DEF StartThread
  <2>3. ~PidChanges
    BY DEF PidChanges
  <2> QED
    BY <2>1, <2>2, <2>3, ThreadsFrame
<1>2. /\ \A t \in Threads : ns[t] # "other" /\ opened[t] # "other"
      /\ \A s \in Slots : probed[s] # "other"
  BY <1>1 DEF NoOtherYet
<1>3. \A t \in Threads : ns'[t] # "other" /\ opened'[t] # "other"
  <2>1. ASSUME NEW s \in Slots, Enter(s)
        PROVE  \A t \in Threads : ns'[t] # "other" /\ opened'[t] # "other"
    <3>1. ns' = ns
      BY <2>1 DEF Enter, OpenNamespace, OpenUnless
    <3>2. \E u \in Threads, n \in {"container", "none"} : opened' = [opened EXCEPT ![u] = n]
      BY <1>1, <2>1 DEF Enter, OpenNamespace, OpenUnless, Unlocked, Started
    <3> QED
      BY <1>2, <3>1, <3>2 DEF NsTyped
  <2>2. ASSUME NEW s \in Slots, Switch(s) \/ Exit(s)
        PROVE  \A t \in Threads : ns'[t] # "other" /\ opened'[t] # "other"
    <3>1. \A t \in Threads : ns'[t] \in {ns[t], opened[t], "host"}
      <4>1. CASE Switch(s)
        BY <4>1 DEF Switch, SwitchNamespace
      <4>2. CASE Exit(s)
        BY <4>2 DEF Exit, ExitNetworkNamespace
      <4> QED
        BY <2>2, <4>1, <4>2
    <3>2. \A t \in Threads : opened'[t] \in {opened[t], "none"}
      BY <2>2 DEF NsTyped, Switch, SwitchNamespace, Exit, ExitNetworkNamespace
    <3> QED
      BY <1>2, <3>1, <3>2
  <2>3. CASE StartThread
    BY <1>2, <2>3 DEF NsTyped, StartThread, Started, Unlocked
  <2>4. CASE UNCHANGED <<ns, opened>>
    BY <1>2, <2>4
  <2> QED
    BY <2>1, <2>2, <2>3, <2>4, ThreadsFrame
<1>4. \A s \in Slots : probed'[s] # "other"
  <2>1. ASSUME NEW s \in Slots, Take(s) \/ Dial(s)
        PROVE  \A q \in Slots : probed'[q] # "other"
    BY <1>2, <2>1
    DEF Probes, NsTyped, Take, Dial, RunsOn, LockedTo, Unlocked, Started
  <2>2. ASSUME NEW s \in Slots,
               \/ CheckStep(s) /\ ~Dial(s)
               \/ ReadHangs(s) \/ HungEnds(s) \/ Deadline(s)
        PROVE  UNCHANGED probed
    BY <2>2 DEF CheckStep, Enter, Switch, ReadResponse, Exec, WaitAnswer,
       WaitDeadline, HealthyResult, UnhealthyResult, HungEnds, Result, Exit, Cancel,
       ReadHangs, Deadline
  <2>3. CASE RunAlone \/ Environment \/ UNCHANGED vars
    BY <1>2, <2>3 DEF RunAlone, Environment, vars, checkVars
  <2> QED
    BY <1>2, <2>1, <2>2, <2>3 DEF Next, CheckStep
<1> QED
  BY <1>3, <1>4 DEF NoOtherYet

(* What the theorems about types and answers rest on. *)
ChecksInv == NsTyped /\ Routes /\ Places /\ Probes /\ NoOtherYet

LEMMA ChecksInvInit == Init => ChecksInv
<1> SUFFICES ASSUME Init
             PROVE  ChecksInv
  OBVIOUS
<1>1. NsTyped /\ Places /\ NoOtherYet
  BY ChecksAssumption
  DEF Init, NsInit, NsTyped, Spaces, Places, InPlace, NoOtherYet
<1>2. Routes
  BY DEF Init, Routes, Route, CheckLabels
<1>3. Probes
  BY DEF Init, ExecInit, Probes, Answered, PollerStates
<1> QED
  BY <1>1, <1>2, <1>3 DEF ChecksInv

LEMMA ChecksInvStep == ChecksInv /\ [Next]_vars => ChecksInv'
BY NsTypedStep, RoutesStep, PlacesStep, ProbesStep, NoOtherYetStep DEF ChecksInv

(* A healthy result of a command is the answer to that very command.  One    *)
(* of a bridged task was got in the namespace of a container, never in that  *)
(* of the host, and in the task's own as long as the task's process has the  *)
(* pid; one of any other task was got in the host's, where a task of a user  *)
(* network or of none does not run.  This holds for every network mode, any  *)
(* number of threads, handles and overlapping checks, whichever switch       *)
(* fails, whoever gets the pid and whether or not threads inherit a          *)
(* namespace (healthcheck.go:96, 143, 211, 259; namespace.go:29-46;          *)
(* docker.go:242).                                                           *)
THEOREM HealthyAnswered == Spec => []HealthyIsAnswered
<1>1. ChecksInv => HealthyIsAnswered
  <2> SUFFICES ASSUME ChecksInv, NEW s \in Slots, at[s] = "healthy"
               PROVE  CASE checkType = "COMMAND" -> exitedZero[s]
                        [] Bridged -> /\ probed[s] \in {"container", "other"}
                                      /\ pidOwner = "container" => probed[s] = "container"
                        [] OTHER -> probed[s] = "host"
    BY Zenon DEF HealthyIsAnswered
  <2>1. Answered(s) /\ NoOtherYet /\ (Bridged => checkType # "COMMAND")
    BY DEF ChecksInv, Probes, Bridged
  <2>2. checkType = "COMMAND" => exitedZero[s]
    BY <2>1 DEF Answered
  <2>3. checkType # "COMMAND" => probed[s] \in Where
    BY <2>1 DEF Answered
  <2>4. Bridged => /\ probed[s] \in {"container", "other"}
                   /\ pidOwner = "container" => probed[s] = "container"
    BY <2>1, <2>3 DEF Where, Away, NoOtherYet
  <2>5. ~Bridged /\ checkType # "COMMAND" => probed[s] = "host"
    BY <2>3 DEF Where
  <2> QED
    BY <2>1, <2>2, <2>4, <2>5, Zenon
<1> QED
  BY <1>1, ChecksInvInit, ChecksInvStep, PTL DEF Spec
-----------------------------------------------------------------------------
(* Which checks are under way.                                               *)

(* The checks that have not given their result to Run.                       *)
Busy == {s \in Slots : at[s] \notin {"idle", "exit", "cancel"}}
Waiting == ckPC \in {"checking", "hung"}

(* While Run waits for a result there is one check to give it, whatever      *)
(* older checks still have to clean up.                                      *)
OneBusy ==
  /\ Waiting => \E s \in Slots : Busy = {s}
  /\ ~Waiting => Busy = {}

(* Where a check that starts goes.                                           *)
LEMMA TakeGoes ==
  ASSUME NEW s \in Slots, Take(s)
  PROVE  \E label \in {"exec", "enter", "dial"} : at' = [at EXCEPT ![s] = label]
<1>1. Bridged => checkType # "COMMAND"
  BY DEF Bridged
<1> QED
  BY <1>1, Zenon DEF Take, Goto

LEMMA OneBusyStep == Routes /\ OneBusy /\ [Next]_vars => OneBusy'
<1> SUFFICES ASSUME Routes, OneBusy, [Next]_vars
             PROVE  OneBusy'
  OBVIOUS
<1> USE DEF Routes, OneBusy, Busy, Waiting, Goto
<1>1. CASE RunAlone
  <2>1. \/ UNCHANGED at /\ ~Waiting /\ ~Waiting'
        \/ UNCHANGED <<at, ckPC>>
    BY <1>1 DEF RunAlone, checkVars, RunStep, CkStart, CkDelayElapsed, CkGraceExpire,
       CkTick, CkSend, CkSendHealthy, CkSendDone, CkSendUnsupported, CkSendExited,
       CkRecvQuit
  <2> QED
    BY <2>1
<1>2. ASSUME NEW s \in Slots, Take(s)
      PROVE  OneBusy'
  <2>1. at[s] = "idle" /\ ~Waiting /\ Waiting'
    BY <1>2 DEF Take, CkTake
  <2>2. \E label \in {"exec", "enter", "dial"} : at' = [at EXCEPT ![s] = label]
    BY <1>2, TakeGoes
  <2>3. Busy' = {s}
    BY <2>1, <2>2
  <2> QED
    BY <2>1, <2>3
<1>3. ASSUME NEW s \in Slots,
             \/ Enter(s) \/ Switch(s) \/ Dial(s) \/ ReadResponse(s) \/ Exec(s)
             \/ WaitAnswer(s) \/ WaitDeadline(s) \/ Exit(s) \/ Cancel(s)
             \/ Deadline(s) \/ ReadHangs(s)
      PROVE  OneBusy'
  <2>1. UNCHANGED ckPC \/ (ckPC = "checking" /\ ckPC' = "hung")
    BY <1>3 DEF Enter, Switch, Dial, ReadResponse, Exec, WaitAnswer,
       WaitDeadline, Exit, Cancel, Deadline, Quiet, ReadHangs, CkHang, ckVars
  <2>2. Busy' = Busy
    <3>1. CASE Enter(s) \/ Switch(s) \/ Dial(s) \/ ReadResponse(s) \/ ReadHangs(s)
      BY <3>1 DEF Enter, Switch, Dial, ReadResponse, ReadHangs
    <3>2. CASE Exec(s) \/ WaitAnswer(s) \/ WaitDeadline(s) \/ Deadline(s)
      BY <3>2 DEF Exec, WaitAnswer, WaitDeadline, Deadline
    <3>3. CASE Exit(s) \/ Cancel(s)
      BY <3>3 DEF Exit, Cancel
    <3> QED
      BY <1>3, <3>1, <3>2, <3>3
  <2> QED
    BY <2>1, <2>2
<1>4. ASSUME NEW s \in Slots, HealthyResult(s) \/ UnhealthyResult(s) \/ HungEnds(s)
      PROVE  OneBusy'
  <2>1. Waiting /\ ~Waiting'
    BY <1>4 DEF HealthyResult, UnhealthyResult, HungEnds, Result, CkHealthyResult,
       CkUnhealthyResult, CkHungEnds, CkUnhealthy
  <2>2. s \in Busy
    BY <1>4 DEF HealthyResult, UnhealthyResult, HungEnds, Result
  <2>3. \E label \in {"cancel", "exit", "idle"} : at' = [at EXCEPT ![s] = label]
    BY <1>4, Zenon DEF HealthyResult, UnhealthyResult, HungEnds, Result, Deferred
  <2>4. Busy' = {}
    BY <2>1, <2>2, <2>3
  <2> QED
    BY <2>1, <2>4
<1>5. CASE Environment \/ UNCHANGED vars
  BY <1>5 DEF Environment, vars, checkVars, ckVars
<1> QED
  BY <1>1, <1>2, <1>3, <1>4, <1>5 DEF Next, CheckStep

(* The state of the checks keeps its types, and exactly one check has a      *)
(* result to give while Run waits for one, however many older checks have    *)
(* not cleaned up (healthcheck.go:95-98, 138-279).                           *)
THEOREM ChecksTyped == Spec => []ChecksTypeOK
<1> DEFINE Inv == ChecksInv /\ OneBusy
<1>1. Init => Inv
  BY ChecksInvInit DEF Init, OneBusy, Busy, Waiting, CkInit
<1>2. Inv /\ [Next]_vars => Inv'
  BY ChecksInvStep, OneBusyStep DEF ChecksInv
<1>3. Inv => ChecksTypeOK
  <2> SUFFICES ASSUME Inv
               PROVE  ChecksTypeOK
    OBVIOUS
  <2>1. Cardinality(Busy) = IF Waiting THEN 1 ELSE 0
    BY FS_EmptySet, FS_Singleton DEF OneBusy
  <2> QED
    BY <2>1 DEF ChecksTypeOK, ChecksInv, NsTyped, Routes, Probes, Busy, Waiting
<1> QED
  BY <1>1, <1>2, <1>3, PTL DEF Spec
=============================================================================
