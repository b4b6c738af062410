CONSTANTS
  Keys = {k1, k2}
  Values = {v0, v1, v2}
  v0 = v0
  None = None
  Baseline <- MCBaseline
  Unified = TRUE
  RollbackRequired = FALSE
  SkipAttribution = FALSE
  MaxIterations = 2
  MaxScore = 2
SPECIFICATION Spec
SYMMETRY Symmetry
INVARIANTS
  IInv
  ExitGuarantee
CHECK_DEADLOCK FALSE
