SPECIFICATION Spec
CONSTANTS
  None = None
  Jobs = {j1, j2, j3}
  MaxVpses = 2
  MaxJobs = 5
SYMMETRY JobSymmetry
INVARIANTS
  TypeOK
  RunningIsOn
  SpriteAccounted
PROPERTIES
  CleansUpOwn
  AnsweredConfigIsLoaded
CHECK_DEADLOCK FALSE
