SPECIFICATION Spec
CONSTANTS
  Keys = {k1, k2}
  Values = {v1, v2}
  NoEntry = NoEntry
  Seconds = {1}
  TimeMax = 2
  MaxTime = 2
  MaxLog = 3
  AppendFaults = {"none", "torn", "whole"}
  AllocMayFail = TRUE
  OpenMayFail = TRUE
  SpelledExpiries = {2}
  MayCrash = TRUE
SYMMETRY Symmetry
INVARIANTS
  TypeOK
  MemoryMatchesLog
  AnswersMatchLog
PROPERTIES
  CompactionKeepsBindings
