SPECIFICATION DbSpec
CONSTANTS
  k = k
  x = x
  y = y
  set1 = set1
  set2 = set2
  get = get
  del = del
  exit = exit
  Workers = {w1, w2}
  Tasks = {set1, set2, get, del, exit}
  Kind <- SomeKinds
  Command <- SomeCommands
  Null = Null
  PipeSize = 1
  CreateMayFail = FALSE
  AllocMayFail = FALSE
  MayStop = FALSE
  Keys = {k}
  Values = {x, y}
  NoEntry = NoEntry
  AppendMayFail = TRUE
SYMMETRY Symmetry
INVARIANTS
  DataOK
  LogIsTheTable
  EntryIsStable
PROPERTIES
  RefinesAtomicDB
