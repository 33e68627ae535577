SPECIFICATION Spec
CONSTANTS
  Spelling = {"ada", "root"}
  Canonical <- Lower
  AdminEmail = "root"
  Password = {"p"}
  AdminPassword = "p"
  Browser = {b1}
  Expiry = 1
  ApiTimeout = 1
  MaxTime = 1
  Operator = {"delete"}
  Trade = {1, 2, 3}
  NoTrade = NoTrade
  Symbol = {"A"}
  SymbolOf <- OneSymbol
  PriceOf <- RiseAndFall
  TsOf <- Ts
  Wish <- Wishes
  MaxAlerts = 2
  MaxRows = 2
  Faults = {"checkFails", "crash", "lateCommit"}
INVARIANTS
  TypeOK
  DeletedStaysDeleted
  FirstCrossingFires
PROPERTIES
  FiresOnce
  RemovedByAdmins
