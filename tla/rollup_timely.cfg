SPECIFICATION TimelyPageSpec
CONSTANTS
  Trade = {1, 2, 3}
  Symbol = {1}
  SymbolOf <- OneSymbol
  TsOf <- Ts
  MinuteLen = 2
  WindowMinutes = 4
  Interval = 1
  MaxRows = 4
  MaxTime = 15
  MaxLate = 2
  MaxDelay = 1
  MaxMissed = 1
  Grace = 11
  Faults = {"startFails", "rollupFails", "finishFails", "crash"}
INVARIANTS
  FailedWroteNothing
  NoTradeSkipped
  PageTypeOK
  BehindIsReal
