SPECIFICATION Spec
CONSTANTS
  Trade = {1, 2, 3}
  MaxTs = 3
  Symbol = {"A", "B"}
  SymbolOf <- NewestOther
  TsOf <- Ts
  DayOf <- OneDay
  MaxRows = 2
  MaxSessions = 1
  MaxReceived = 2
  InOrder = TRUE
  Faults = {"saveFails"}
INVARIANT
  TrustedHashIsComplete
