CONSTANTS
  u1 = u1
  n1 = n1
  b1 = b1
  f1 = f1
  NoFile = NoFile
  Names = {1, 2}
  Reports = {u1, n1, b1, f1}
  KindOf <- Mixed
  NonFinite = {f1}
  MinHistory = 1
  MaxCrashes = 1
SPECIFICATION IntakeSpec
INVARIANTS
  ReportsAreSafe
  LedgerAgrees
PROPERTIES
  LedgerOnlyGrows
  ListedAreRecorded
