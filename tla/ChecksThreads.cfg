SPECIFICATION Spec
CONSTANTS
  CheckTypes = {"TCP"}
  Thresholds = {1}
  CounterSize = 3
  Networks = {"BRIDGE"}
  Threads = {t1, t2}
  FirstThread = t1
  \* a runtime that clones the thread it is on, locked or not, such as Go 1.9
  Inherits = TRUE
  HandleLimit = 2
  SwitchFaults = {}
  Slots = {c1, c2}
INVARIANT UnlockedIsHome
\* A checker that returned stops.
CHECK_DEADLOCK FALSE
