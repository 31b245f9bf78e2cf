SPECIFICATION FairSpec
CONSTANTS
  Tasks = {check}
  Check = check
  Cli = cli
  MaxVersion = 3
  Size <- MCSize
  Files = 6
  MaxErrors = 1
INVARIANTS
  TypeOK
  InstalledIsWhole
PROPERTIES
  InstallsAtomically
  UpdateTakesEffect
  ReachesLatest
