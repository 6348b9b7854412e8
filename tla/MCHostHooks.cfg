SPECIFICATION Spec
CONSTANTS
  TaskLabels <- MCLabels
  Ports = 1
  Defaults <- MCDefaults
  TaskNetworks = {"BRIDGE", "HOST"}
  HostFaults = {"chain", "append", "delete"}
  NetnsFaults = {"inspect", "symlink", "remove"}
  Priorities = {0, 1}
INVARIANTS
  HookTypeOK
  HighestPriorityFirst
  OnlyOwnFailureLeaks
  LaunchedWithAcl
PROPERTIES
  ImplementsManager
