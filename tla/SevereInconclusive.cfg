CONSTANTS
  Workloads = {homepage, small}
  Variance = 10
  Baselines <- MCBaselines
  Rates <- MCWideRates
  RunCounts <- MCRunCounts
  None = None
  MaxCaptures <- MCMaxCaptures
  MaxCount = 1
  MaxProbeFailures = 1
SPECIFICATION Spec
INVARIANTS
  SevereRegressionIsRejected
CHECK_DEADLOCK FALSE
