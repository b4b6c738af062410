CONSTANTS
  Absent = Absent
  Similarity <- MCSimilarity
  Unset = Unset
  Deferred = Deferred
  BlockedRuns = 1
  ConfidentRuns = 2
  Graph <- MCSmallGraph
  Rules <- MCRules
  ParameterGroups <- MCGroups
  Connections = "conns"
  Rlimit = "rlimit"
  RlimitMin = 2
  RlimitMax = 4
  Hosts <- MCOneHost
  Values = {1, 2, 3, 4}
  Shape <- MCShape
  Proposals <- MCProposals
  Refused = {}
  Gains <- MCOneGain
  InitialKBs <- MCInitialKBs
  Seeded = TRUE
  FirstRun = 2
  LastRun = 3
  MaxIterations = 2
  MaxFaults = 1
SPECIFICATION Spec
INVARIANTS
  TypeOK
  IInv
  TrailAccountsForHost
  FinalConfigIsTrue
  BestConfigWasMeasured
  RecipesAreProven
  FailedPairsStayBlocked
PROPERTIES
  KeepsKnowledge
  AnswersStand
CHECK_DEADLOCK FALSE
