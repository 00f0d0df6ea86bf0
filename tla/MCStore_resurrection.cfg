SPECIFICATION Spec
CONSTANTS
  Keys = {k1}
  Values = {v1, v2}
  NoEntry = NoEntry
  Seconds = {1}
  TimeMax = 7
  MaxTime = 3
  MaxLog = 3
  AppendFaults = {}
  AllocMayFail = FALSE
  OpenMayFail = FALSE
  SpelledExpiries = {}
  MayCrash = TRUE
INVARIANTS
  ExpiredStaysGone
