SPECIFICATION FairSpec
CONSTANTS
  CheckTypes = {"TCP", "HTTP", "COMMAND", "UNKNOWN", "NONE"}
  Thresholds = {0, 1, 2}
  CounterSize = 3
  Networks = {"BRIDGE", "HOST", "USER", "NONE"}
  Threads = {t1, t2}
  FirstThread = t1
  \* a runtime that starts no thread from a locked one, Go 1.10 or later
  Inherits = FALSE
  HandleLimit = 2
  SwitchFaults = {"enter"}
  Slots = {c1, c2}
INVARIANTS
  CkTypeOK
  DoneJustified
  ChecksTypeOK
  UnlockedIsHome
  HealthyIsAnswered
PROPERTIES
  DoneOnce
  UnhealthyIsGivenUp
  ReturnsToSelect
  ImplementsChecker
\* A checker that returned, or that a task without health check never starts, stops.
CHECK_DEADLOCK FALSE
