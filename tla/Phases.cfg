CONSTANTS
  high = high
  medium = medium
  low = low
  late = late
  Keys = {high, late}
  Deferred = {late}
  Tier <- MCTier
  Related <- MCRelated
  Companions <- MCCompanions
  Gated = TRUE
  Limits = {3, 6}
  Kinds = {TRUE, FALSE}
  Reboots = {FALSE}
  Policies <- MCPolicies
SPECIFICATION Spec
INVARIANTS
  TypeOK
  LoopWithinBudget
  NeverStuck
PROPERTY
  LoopEnds
  LoopDescends
CHECK_DEADLOCK FALSE
