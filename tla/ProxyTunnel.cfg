SPECIFICATION FairSpec
CONSTANTS
  None = None
  MaxChunks = 2
INVARIANTS
  TypeOK
  DeliveredIsBooked
  EndedSideBookedInFull
PROPERTIES
  ImplementsSession
  TunnelEnds
