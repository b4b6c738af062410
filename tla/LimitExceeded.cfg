CONSTANTS
  Absent = Absent
  Similarity <- MCSimilarity
  Unset = Unset
  Deferred = Deferred
  BlockedRuns = 1
  ConfidentRuns = 2
  Graph <- MCGraph
  Rules <- MCRules
  ParameterGroups <- MCGroups
  Connections = "conns"
  Rlimit = "rlimit"
  RlimitMin = 2
  RlimitMax = 4
  Hosts <- MCHosts
  Values = {1, 2, 3, 4}
  Shape <- MCShape
  Proposals <- MCProposals
  Refused = {}
  Gains <- MCGains
  InitialKBs <- MCInitialKBs
  Seeded = TRUE
  FirstRun = 2
  LastRun = 3
  MaxIterations = 2
  MaxFaults = 1
SPECIFICATION Spec
INVARIANTS
  LimitsHold
CHECK_DEADLOCK FALSE
