SPECIFICATION FairSpec
CONSTANTS
  Users = {u1}
  Vpses = {h1, s1}
  Conns = {c1, c2}
  u1 = u1
  h1 = h1
  s1 = s1
  c1 = c1
  c2 = c2
  None = None
  Owner <- MCOwner
  Hetzner <- MCHetzner
  MaxBandwidth = 0
  Rate = 3
  Unit = 2
  Budgets = {2}
  Handled = {h1}
  LastMonth = 1
  MaxCarried = 2
  MaxFaults = 1
INVARIANTS
  TypeOK
  BytesChargedOnce
PROPERTIES
  DecidesOnEvidence
  ShutOutStays
  
