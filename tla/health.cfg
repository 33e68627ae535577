SPECIFICATION Spec
CONSTANTS
  StaleAfter = 1
  StatusEvery = 1
  MinDelay = 1
  MaxDelay = 1
  MaxTime = 3
  MaxSilent = 0
  Faults = {"fetchFails", "writeFails", "finishFails", "crash"}
INVARIANTS
  TypeOK
  HealthyIsRecent
  StaleIsSilent
  TradeAgeIsReal
