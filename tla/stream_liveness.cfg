SPECIFICATION FairBoardSpec
CONSTANTS
  Trade = {1, 2, 3}
  MaxTs = 3
  Symbol = {"A"}
  SymbolOf <- OneSymbol
  TsOf <- Ts
  DayOf <- OneDay
  MaxRows = 1
  MaxSessions = 2
  MaxReceived = 2
  InOrder = TRUE
  Faults = {"loadFails", "insertFails", "saveFails"}
PROPERTIES
  QueuedTradeSettles
  ClosedSessionIsReplaced
  StoredPriceIsShown
