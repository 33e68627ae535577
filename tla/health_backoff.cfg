SPECIFICATION Spec
CONSTANTS
  StaleAfter = 1
  StatusEvery = 2
  MinDelay = 1
  MaxDelay = 4
  MaxTime = 4
  MaxSilent = 3
  Faults = {}

PROPERTY WaitsDouble
