SPECIFICATION FairSpec
CONSTANTS
  CheckTypes = {"TCP"}
  Thresholds = {1}
  CounterSize = 3
  Faults = {}
  Signals = "never"
  RemoveHook = FALSE
  MaxBeats = 1
PROPERTIES
  UnhealthyIsKilled
\* The process ends, and a goroutine may block for ever before that.
CHECK_DEADLOCK FALSE
