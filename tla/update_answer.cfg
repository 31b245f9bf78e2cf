SPECIFICATION Spec
CONSTANTS
  Tasks = {check, request}
  Check = check
  Cli = cli
  MaxVersion = 2
  Size <- MCSize
  Files = 6
  MaxErrors = 0
PROPERTIES
  AnswersBeforeRestart
