SPECIFICATION CleanedSpec
CONSTANTS
  Agents = {a1, a2}
  Vpses = {r1, r2}
  VMs = {v1, v2}
  Users = {u1}
  Procs = {p1}
  a1 = a1
  a2 = a2
  r1 = r1
  r2 = r2
  v1 = v1
  v2 = v2
  p1 = p1
  u1 = u1
  None = None
  Owner <- MCOwner
  MaxVpses = 1
  MaxAborts = 2
  DestroyFails = FALSE
  RestartFails = TRUE
INVARIANTS
  AtRestConsistent
  VmReachable
  WithinPlan
PROPERTIES
  StuckIsCleaned
