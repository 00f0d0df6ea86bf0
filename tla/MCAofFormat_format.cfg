SPECIFICATION Spec
CONSTANTS
  Keys <- SomeKeys
  Values <- SomeValues
  NoEntry = NoEntry
  MaxNumber = 999
  Logs <- SomeLogs
  Now = {5, 20}
  SpelledExpiries = {9}
CHECK_DEADLOCK FALSE
INVARIANTS
  TypeOK
  TornTailRefused
PROPERTIES
  RefinesLoader
  RecordsAreReadBack
