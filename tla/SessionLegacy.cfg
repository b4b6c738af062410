CONSTANTS
  Keys = {k1, k2}
  Values = {v0, v1}
  v0 = v0
  None = None
  Baseline <- MCBaseline
  Unified = FALSE
  RollbackRequired = TRUE
  SkipAttribution = FALSE
  MaxIterations = 2
  MaxScore = 1
SPECIFICATION Spec
SYMMETRY Symmetry
INVARIANTS
  TypeOK
  HostAccounted
  UndoIsExact
  AcceptedAsMeasured
  CatalogCurrent
PROPERTY
  KeepsContract
CHECK_DEADLOCK FALSE
