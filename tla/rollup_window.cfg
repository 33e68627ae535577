SPECIFICATION PageSpec
CONSTANTS
  Trade = {1, 2, 3, 4}
  Symbol = {1, 2}
  SymbolOf <- TwoSymbols
  TsOf <- TsTie
  MinuteLen = 2
  WindowMinutes = 2
  Interval = 1
  MaxRows = 3
  MaxTime = 8
  MaxLate = 2
  MaxDelay = 0
  MaxMissed = 0
  Grace = 3
  Faults = {"startFails", "rollupFails", "ambiguousCommit", "finishFails", "crash"}
INVARIANTS
  TypeOK
  RunRowAddsUp
  DeadRollupIsNoticed
PROPERTIES
  FullMinutesExact
  ShrinksOnlyAtEdge
