SPECIFICATION Spec
CONSTANTS
  None = None
  Capacity = 1
  MaxClient = 2
  MaxUpstream = 2
  ClientSays = {"connect", "bare_connect", "blocked", "rpc", "ping", "close"}
  UpstreamSays = {"data", "ping", "close"}
PROPERTIES
  QuietAfterAbort
CHECK_DEADLOCK FALSE
