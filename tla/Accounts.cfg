SPECIFICATION Spec
CONSTANTS
  None = None
  Jobs = {j1, j2}
  MaxAgents = 1
  ValidKinds = {"telegram"}
  Kinds = {"telegram", "irc"}
  Providers = {"fly", "hetzner"}
  Sizes = {1, 2}
  MaxCreated <- MCMaxCreated
  MaxJobs = 5
SYMMETRY JobSymmetry
INVARIANTS
  TypeOK
  LetInHasPlan
  AgentOverrun
  VmAtItsProvider
CHECK_DEADLOCK FALSE
