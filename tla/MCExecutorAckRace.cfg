SPECIFICATION Spec
CONSTANTS
  CheckTypes = {"NONE"}
  Thresholds = {1}
  CounterSize = 3
  Faults = {}
  Signals = "never"
  RemoveHook = FALSE
  MaxBeats = 0
INVARIANTS
  AcknowledgedIsForgotten
\* The process ends, and a goroutine may block for ever before that.
CHECK_DEADLOCK FALSE
