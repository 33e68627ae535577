SPECIFICATION Spec
CONSTANTS
  Trade = {1, 2, 3}
  MaxTs = 3
  Symbol = {"A"}
  SymbolOf <- OneSymbol
  TsOf <- Ts
  DayOf <- OneDay
  MaxRows = 2
  MaxSessions = 2
  MaxReceived = 2
  InOrder = TRUE
  Faults = {}
INVARIANT
  NoTradeLost
