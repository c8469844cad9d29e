\* Three fabs, one a schema version behind and one ahead; readers of either policy.
CONSTANTS
  f1 = f1
  f2 = f2
  f3 = f3
  None = None
  Fabs = {f1, f2, f3}
  VersionOf <- Mixed
  Keys = {f1, f2}
  Policies = {"AcceptUnsigned", "RequireSignature"}
  Yields = {1, 3}
  Started = 2
  MinCohort = 2
  MaxFiles = 1
  MaxIngests = 3
SPECIFICATION ExchangeSpec
INVARIANTS
  CohortsAreOfConsenting
  SignedMeansUnaltered
\* The files and ingestions allowed run out.
CHECK_DEADLOCK FALSE
