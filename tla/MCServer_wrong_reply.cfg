SPECIFICATION Spec
CONSTANTS
  ClientCount = 3
  MaxClients = 1
  WorkerCount = 1
  MaxLines <- OneLineEach
  Manners = "polite"
CHECK_DEADLOCK FALSE
INVARIANTS
  RepliesReachTheirClient
