SPECIFICATION Spec
CONSTANTS
  Values = {1, 2, 3}
  Inf = 9
  None = None
  Bad = {3}
  Unparsable = {2}
  DirectiveMode = "reload"
  Mode <- MCMode
  InitialHosts <- MCHosts
  AllowReload = TRUE
  AllowRestart = TRUE
  MaxChanges = 3
  MaxGroup = 2
  MaxFaults = 1
INVARIANTS
  TypeOK
  NothingBehindTheLedger
  MeasuredAsClaimed
CHECK_DEADLOCK FALSE
