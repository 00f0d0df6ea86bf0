SPECIFICATION Spec
CONSTANTS
  MaxSeconds = 99
  ClientCount = 2
  MaxClients = 1
  BufferSize = 18
  Sessions <- SomeSessions
  SubmitMayFail = TRUE
CHECK_DEADLOCK FALSE
INVARIANTS
  TypeOK
  CommandsArrive
  NeverGlued
  LockFitsCommand
