SPECIFICATION Spec
CONSTANTS
  ClientCount = 3
  MaxClients = 1
  WorkerCount = 1
  MaxLines <- OneLineEach
  Manners = "hasty"
CHECK_DEADLOCK FALSE
INVARIANTS
  SlotsAreTheConnections
  RecvBlocksOnNewcomerOnly
PROPERTIES
  RefusedOnlyWhenFull
