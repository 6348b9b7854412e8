SPECIFICATION Spec
CONSTANTS
  Executors = {e1, e2}
  Addresses = {a1}
  Bridge = bridge
  Masquerading = TRUE
  Forwarding = TRUE
  MayEndEarly = TRUE
  MaxTeardowns = 1
  Faults = {}
INVARIANT RulesNameContainers
\* The executors stop when all are down.
CHECK_DEADLOCK FALSE
