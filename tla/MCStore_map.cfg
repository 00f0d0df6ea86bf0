SPECIFICATION MapSpec
CONSTANTS
  Keys = {k1, k2}
  Values = {v1, v2}
  NoEntry = NoEntry
  Seconds = {1}
  TimeMax = 7
  MaxTime = 3
  MaxLog = 3
  AppendFaults = {"none"}
  AllocMayFail = FALSE
  OpenMayFail = FALSE
  SpelledExpiries = {}
  MayCrash = TRUE
SYMMETRY Symmetry
PROPERTIES
  RefinesTtlMap
