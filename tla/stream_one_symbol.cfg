SPECIFICATION BoardSpec
CONSTANTS
  Trade = {1, 2, 3, 4}
  MaxTs = 4
  Symbol = {"A"}
  SymbolOf <- OneSymbol
  TsOf <- Ts
  DayOf <- MidnightLate
  MaxRows = 2
  MaxSessions = 2
  MaxReceived = 2
  InOrder = TRUE
  Faults = {"loadFails", "saveFails", "saveTimesOut", "redisRestart", "crash", "finishFails"}
INVARIANTS
  TrustedHashIsComplete
  StatsFollowSeen
  BacklogIsWaiting
  BoardTypeOK
PROPERTIES
  SameBoard
  PriceGoesBackOnlyBehind
