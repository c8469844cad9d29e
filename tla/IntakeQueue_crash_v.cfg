CONSTANTS
  u1 = u1
  n1 = n1
  b1 = b1
  f1 = f1
  NoFile = NoFile
  Names = {1, 2}
  Reports = {u1, n1, b1, f1}
  KindOf <- Mixed
  NonFinite = {f1}
  MinHistory = 1
  MaxCrashes = 2
SPECIFICATION IntakeSpec
INVARIANT
  NoBookkeepingLost
