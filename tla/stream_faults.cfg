SPECIFICATION Spec
CONSTANTS
  Trade = {1, 2, 3, 4}
  MaxTs = 4
  Symbol = {"A", "B"}
  SymbolOf <- TwoSymbols
  TsOf <- Ts
  DayOf <- MidnightEarly
  MaxRows = 2
  MaxSessions = 2
  MaxReceived = 1
  InOrder = TRUE
  Faults = {"loadFails", "insertFails", "ambiguousCommit", "saveFails", "saveTimesOut", "redisRestart", "crash", "finishFails"}
INVARIANTS
  TypeOK
  CacheNeverAhead
  NoDoubleCount
  RowsWrittenMatch
PROPERTIES
  LossIsAccounted
  VerdictIsFinal
  ReseedRebuildsBatch
  ImplementsLedger
