SPECIFICATION Spec
CONSTANTS
  Values = {1, 2}
  Inf = 9
  None = None
  Bad = {2}
  Unparsable = {}
  DirectiveMode = "reload"
  Mode <- MCMode
  InitialHosts <- AbsentDirective
  AllowReload = TRUE
  AllowRestart = TRUE
  MaxChanges = 1
  MaxGroup = 1
  MaxFaults = 0
INVARIANT RejectedNeverStays
CHECK_DEADLOCK FALSE
