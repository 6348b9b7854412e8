SPECIFICATION Spec
CONSTANTS
  Executors = {e1, e2}
  Addresses = {a1}
  Bridge = bridge
  Masquerading = TRUE
  Forwarding = TRUE
  MayEndEarly = FALSE
  MaxTeardowns = 2
  Faults = {}
INVARIANT RunningHasRules
\* The executors stop when all are down.
CHECK_DEADLOCK FALSE
