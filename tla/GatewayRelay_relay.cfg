SPECIFICATION FairSpec
CONSTANTS
  None = None
  Capacity = 1
  MaxClient = 2
  MaxUpstream = 2
  ClientSays = {"connect", "bare_connect", "blocked", "ping", "close", "bad"}
  UpstreamSays = {"data", "close", "bad"}
INVARIANTS
  TypeOK
  NoGap
  TokenInFirstConnect
  BooksDelivered
PROPERTIES
  ImplementsSession
  RelayEnds
CHECK_DEADLOCK FALSE
