SPECIFICATION Spec
CONSTANTS
  CheckTypes = {"NONE", "HTTP", "UNKNOWN"}
  Thresholds = {1}
  CounterSize = 3
  Faults <- CheckedFaults
  Signals = "late"
  RemoveHook = TRUE
  MaxBeats = 1
INVARIANTS
  OneTerminalUpdate
  TerminalMeansStopped
  ExitClean
  LeftOnlyMidKill
PROPERTIES
  ImplementsTask
\* The process ends, and a goroutine may block for ever before that.
CHECK_DEADLOCK FALSE
