SPECIFICATION FairSpec
CONSTANTS
  CheckTypes = {"NONE"}
  Thresholds = {1}
  CounterSize = 3
  Faults <- SignalFaults
  Signals = "any"
  RemoveHook = FALSE
  MaxBeats = 0
INVARIANTS
  TypeOK
  UpdateAccounting
  MainAckIsFinal
  MainEndsUnacked
  EndFollowsRunning
  FinishedMeansSuccess
  ExitIsTold
PROPERTIES
  ImplementsLedger
  KillEndsProcess
  EndIsReported
  RunningIsAcknowledged
  SignalEndsProcess
\* The process ends, and a goroutine may block for ever before that.
CHECK_DEADLOCK FALSE
