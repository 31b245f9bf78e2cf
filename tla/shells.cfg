SPECIFICATION FairSpec
CONSTANTS
  ShellIds = {s1}
  MaxOpens = 2
  MaxDrops = 1
INVARIANTS
  TypeOK
  FdsInUseAreOpen
  RegistryIsExact
PROPERTIES
  ClosedShellsAreLetGo
  ExitedShellsLeave
CHECK_DEADLOCK FALSE
