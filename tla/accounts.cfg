SPECIFICATION AccountsSpec
CONSTANTS
  b1 = b1
  b2 = b2
  Spelling = {"ada", "Ada", "root", "Root"}
  Canonical <- Lower
  AdminEmail = "Root"
  Password = {"p", "q"}
  AdminPassword = "p"
  Browser = {b1, b2}
  Expiry = 1
  ApiTimeout = 1
  MaxTime = 3
  Operator = {"promote", "demote", "delete"}
SYMMETRY Symmetry
INVARIANTS
  AccountsTypeOK
  OneAccountPerAddress
  DemotedLosesPower
  SeedIsNotTaken
PROPERTIES
  AccountsKeepWhatTheyAre
