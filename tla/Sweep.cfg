CONSTANTS
  high = high
  medium = medium
  low = low
  late = late
  Keys = {high, low}
  Deferred = {}
  Tier <- MCTier
  Related <- MCRelated
  Companions <- MCCompanions
  Gated = FALSE
  Limits = {10}
  Kinds = {TRUE, FALSE}
  Reboots = {FALSE}
  Policies <- MCPolicies
SPECIFICATION Spec
INVARIANTS
  SweepOrder
CHECK_DEADLOCK FALSE
