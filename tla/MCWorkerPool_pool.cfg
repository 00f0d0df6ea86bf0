SPECIFICATION FairSpec
CONSTANTS
  w1 = w1
  w2 = w2
  r1 = r1
  r2 = r2
  wr = wr
  ex1 = ex1
  ex2 = ex2
  bl = bl
  Workers = {w1, w2}
  Tasks = {r1, wr, ex1, bl}
  Kind <- SomeKinds
  Null = Null
  PipeSize = 1
  CreateMayFail = TRUE
  AllocMayFail = TRUE
  MayStop = TRUE
INVARIANTS
  TypeOK
  NoDataRace
  ListIsTheQueue
  EveryTaskOnce
  QuietWhenClosed
  NothingDropped
  NoLostWakeup
PROPERTIES
  EveryTaskFinishes
  ShutdownCompletes
