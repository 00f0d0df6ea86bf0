SPECIFICATION FairSpec
CONSTANTS
  ClientCount = 3
  MaxClients = 2
  WorkerCount = 2
  MaxLines <- FewerAndFewer
  Manners = "patient"
CHECK_DEADLOCK FALSE
INVARIANTS
  TypeOK
  RepliesReachTheirClient
  OnlyExitCloses
PROPERTIES
  EveryCommandAnswered
  ExitIsClosed
