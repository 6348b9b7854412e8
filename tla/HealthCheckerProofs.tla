------------------------ MODULE HealthCheckerProofs ------------------------
(***************************************************************************)
(* Proofs about the health checker, for every set of check types, every    *)
(* threshold and every size of the failure counter.                        *)
(***************************************************************************)
EXTENDS HealthChecker, TLAPS

USE DEF checkType, Threshold

(* The checker's state keeps its types (healthcheck.go:22-136): in           *)
(* particular the failure counter wraps inside its range.                    *)
LEMMA CkTypeStep == CkTypeOK /\ [CkNext]_ckVars => CkTypeOK'
<1> SUFFICES ASSUME CkTypeOK, [CkNext]_ckVars
             PROVE  CkTypeOK'
  OBVIOUS
<1> USE CheckerAssumption DEF CkTypeOK, CkStates
<1>1. CASE CkStart
  BY <1>1 DEF CkStart
<1>2. CASE CkTick
  BY <1>2 DEF CkTick
<1>3. CASE CkDelayElapsed
  BY <1>3 DEF CkDelayElapsed
<1>4. CASE CkGraceExpire
  BY <1>4 DEF CkGraceExpire
<1>5. CASE CkTake
  BY <1>5 DEF CkTake
<1>6. CASE CkHealthyResult
  BY <1>6 DEF CkHealthyResult
<1>7. CASE CkUnhealthyResult \/ CkHungEnds
  <2>1. CkUnhealthy
    BY <1>7 DEF CkUnhealthyResult, CkHungEnds
  <2>2. NextFailures \in 0 .. (CounterSize - 1)
    BY DEF NextFailures
  <2>3. failures' \in 0 .. (CounterSize - 1) /\ streak' \in 0 .. (CounterSize - 1)
    BY <2>1, <2>2 DEF CkUnhealthy
  <2>4. ckPC' \in CkStates /\ ticking' \in BOOLEAN
    BY <2>1, Zenon DEF CkUnhealthy
  <2> QED
    BY <2>1, <2>3, <2>4, Zenon DEF CkUnhealthy
<1>8. CASE CkHang
  BY <1>8 DEF CkHang
<1>9. CASE CkSendHealthy \/ CkSendDone \/ CkSendUnsupported
  BY <1>9 DEF CkSendHealthy, CkSendDone, CkSendUnsupported
<1>10. CASE CkSendExited \/ CkRecvQuit
  BY <1>10 DEF CkSendExited, CkRecvQuit
<1>11. CASE UNCHANGED ckVars
  BY <1>11 DEF ckVars
<1> QED
  BY <1>1, <1>2, <1>3, <1>4, <1>5, <1>6, <1>7, <1>8, <1>9, <1>10, <1>11
  DEF CkNext, CkInternal, CkSend

(* Every behaviour of the checker is well typed.                             *)
THEOREM CheckerTyped == CkSafeSpec => []CkTypeOK
<1>1. CkInit => CkTypeOK
  <2>1. 0 \in 0 .. (CounterSize - 1)
    BY CheckerAssumption
  <2> QED
    BY <2>1, Zenon DEF CkInit, CkTypeOK, CkStates
<1> QED
  BY <1>1, CkTypeStep, PTL DEF CkSafeSpec

-----------------------------------------------------------------------------
(* The strengthening of DoneJustified: the count never exceeds the number of *)
(* unhealthy results in a row outside the grace period, and Done is offered  *)
(* at the threshold exactly.                                                 *)
CountBelowStreak ==
  /\ failures <= streak
  /\ ckPC = "sendDone" => graceOver /\ failures = Threshold

LEMMA CountStep ==
  CkTypeOK /\ CountBelowStreak /\ [CkNext]_ckVars => CountBelowStreak'
<1> SUFFICES ASSUME CkTypeOK, CountBelowStreak, [CkNext]_ckVars
             PROVE  CountBelowStreak'
  OBVIOUS
<1> USE CheckerAssumption DEF CkTypeOK, CountBelowStreak
<1>1. CASE CkStart \/ CkTick \/ CkDelayElapsed \/ CkGraceExpire
  BY <1>1 DEF CkStart, CkTick, CkDelayElapsed, CkGraceExpire
<1>2. CASE CkTake \/ CkHang
  BY <1>2 DEF CkTake, CkHang
<1>3. CASE CkHealthyResult
  BY <1>3 DEF CkHealthyResult
<1>4. CASE CkUnhealthyResult \/ CkHungEnds
  <2>1. CkUnhealthy
    BY <1>4 DEF CkUnhealthyResult, CkHungEnds
  <2>2. failures' <= streak'
    BY <2>1 DEF CkUnhealthy, NextFailures
  <2>3. ckPC' = "sendDone" => graceOver' /\ failures' = Threshold'
    BY <2>1 DEF CkUnhealthy, GiveUp
  <2> QED
    BY <2>2, <2>3
<1>5. CASE CkSend \/ CkRecvQuit
  BY <1>5 DEF CkSend, CkSendHealthy, CkSendDone, CkSendUnsupported,
              CkSendExited, CkRecvQuit
<1>6. CASE UNCHANGED ckVars
  BY <1>6 DEF ckVars
<1> QED
  BY <1>1, <1>2, <1>3, <1>4, <1>5, <1>6 DEF CkNext, CkInternal

(* The core is told to kill the task only after the grace period and after   *)
(* Threshold unhealthy results in a row since then, whenever the timer of    *)
(* the period fires (healthcheck.go:105-124).                                *)
THEOREM CheckerDoneJustified == CkSafeSpec => []DoneJustified
<1>1. CkInit => CountBelowStreak
  BY CheckerAssumption DEF CkInit, CountBelowStreak
<1>2. CkTypeOK /\ CountBelowStreak => DoneJustified
  BY CheckerAssumption DEF CkTypeOK, CountBelowStreak, DoneJustified
<1> QED
  BY <1>1, <1>2, CountStep, CheckerTyped, PTL DEF CkSafeSpec

-----------------------------------------------------------------------------
(* Why Done is sent once: after it the ticker is stopped, so at most one     *)
(* check is left, and it starts from a count equal to the threshold, which   *)
(* it either resets or steps over.                                           *)
DoneIsLast ==
  /\ ckPC = "sendDone" => ~ticking /\ ~finished /\ graceOver /\ failures = Threshold
  /\ finished => ~ticking
  /\ finished /\ (tick \/ ckPC \in {"checking", "hung"})
       => graceOver /\ failures = Threshold
  /\ finished /\ ckPC \in {"checking", "hung"} => ~tick
  /\ finished => ckPC \notin {"off", "delay"}
  /\ ckPC = "off" => ~ticking

LEMMA DoneIsLastStep ==
  CkTypeOK /\ DoneIsLast /\ [CkNext]_ckVars => DoneIsLast'
<1> SUFFICES ASSUME CkTypeOK, DoneIsLast, [CkNext]_ckVars
             PROVE  DoneIsLast'
  OBVIOUS
<1> USE CheckerAssumption DEF CkTypeOK, DoneIsLast
<1>1. CASE CkStart \/ CkTick \/ CkDelayElapsed \/ CkGraceExpire
  BY <1>1 DEF CkStart, CkTick, CkDelayElapsed, CkGraceExpire
<1>2. CASE CkTake \/ CkHang
  BY <1>2 DEF CkTake, CkHang
<1>3. CASE CkHealthyResult
  BY <1>3 DEF CkHealthyResult
<1>4. CASE CkUnhealthyResult \/ CkHungEnds
  <2>1. CkUnhealthy /\ ckPC \in {"checking", "hung"}
    BY <1>4 DEF CkUnhealthyResult, CkHungEnds
  <2>2. CASE finished
    <3>1. NextFailures # Threshold
      BY <2>1, <2>2 DEF NextFailures
    <3> QED
      BY <2>1, <2>2, <3>1 DEF CkUnhealthy, GiveUp
  <2>3. CASE ~finished
    BY <2>1, <2>3 DEF CkUnhealthy, GiveUp
  <2> QED
    BY <2>2, <2>3
<1>5. CASE CkSend \/ CkRecvQuit
  BY <1>5 DEF CkSend, CkSendHealthy, CkSendDone, CkSendUnsupported,
              CkSendExited, CkRecvQuit
<1>6. CASE UNCHANGED ckVars
  BY <1>6 DEF ckVars
<1> QED
  BY <1>1, <1>2, <1>3, <1>4, <1>5, <1>6 DEF CkNext, CkInternal

(* Done is sent at most once, although the loop goes on after it             *)
(* (healthcheck.go:118-123).                                                 *)
THEOREM CheckerDoneOnce == CkSafeSpec => DoneOnce
<1>1. CkInit => DoneIsLast
  BY DEF CkInit, DoneIsLast
<1>2. DoneIsLast => (CkSendDone => ~finished)
  BY DEF DoneIsLast, CkSendDone
<1> QED
  BY <1>1, <1>2, DoneIsLastStep, CheckerTyped, PTL DEF CkSafeSpec, DoneOnce
=============================================================================
