CONSTANTS
  shell = shell
  check = check
  client = client
  Caller <- MCCaller
  Shell = {shell}
  Command = {check}
  Client = {client}
  Requests <- MCRequests
  MaxCalls = 2
  MaxStarts = 2
SPECIFICATION Spec
INVARIANTS
  AnswersAreTrue
  HealthyMeansVouched
PROPERTIES
  CleanExitAnswersAll
  ShutdownEnds
  ShellSettles
