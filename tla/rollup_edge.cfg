SPECIFICATION Spec
CONSTANTS
  Trade = {1, 2, 3}
  Symbol = {1}
  SymbolOf <- OneSymbol
  TsOf <- Ts
  MinuteLen = 2
  WindowMinutes = 1
  Interval = 1
  MaxRows = 4
  MaxTime = 6
  MaxLate = 1
  MaxDelay = 0
  MaxMissed = 0
  Faults = {}
PROPERTY
  OldCandlesKeepTheirTrades
