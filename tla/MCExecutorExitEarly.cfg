SPECIFICATION Spec
CONSTANTS
  CheckTypes = {"NONE"}
  Thresholds = {1}
  CounterSize = 3
  Faults = {}
  Signals = "any"
  RemoveHook = FALSE
  MaxBeats = 0
INVARIANTS
  AllTasksKilledAtExit
\* The process ends, and a goroutine may block for ever before that.
CHECK_DEADLOCK FALSE
