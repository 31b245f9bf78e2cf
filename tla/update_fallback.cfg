SPECIFICATION FairSpec
CONSTANTS
  Tasks = {check}
  Check = check
  Cli = cli
  MaxVersion = 2
  Size <- MCSize
  Files = 6
  MaxErrors = 0
INVARIANTS
  FallbackInstalls
