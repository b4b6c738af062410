CONSTANTS
  Workloads = {homepage, small}
  Variance = 10
  Baselines <- MCBaselines
  Rates <- MCRates
  RunCounts <- MCRunCounts
  None = None
  MaxCaptures <- MCMaxCaptures
  MaxCount = 1
  MaxProbeFailures = 1
SPECIFICATION FairSpec
INVARIANTS
  TypeOK
  AtMostOneLateSample
  CollectedInOrder
  DecidedOnAllRuns
  AcceptedIsFaster
  DropsAreOfTheBenchmark
PROPERTIES
  BenchmarkEnds
  ThreadsEnd
CHECK_DEADLOCK FALSE
