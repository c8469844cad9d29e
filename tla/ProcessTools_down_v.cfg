SPECIFICATION MCSpec
CONSTANTS
  Configs <- FewConfigs
  Requests <- MCRequests
  Forces = {40, 50, 250, 260}
  Densities = {0, 10, 11}
  MaxInFlight = 2
  MaxCycles = 11
  Films <- MCFilms
  Heats = {0, 40, 100, 210}
  ThermalBudget = 200
  MaxHeats = 3
  MaxLineBias = 6
  ParameterSets <- MCParameterSets
  ToleranceSets <- MCToleranceSets
  Readings = {}
  CallerNumbers = {1}
  MaxVersions = 1
CHECK_DEADLOCK FALSE
INVARIANT DownIsNotPlanned
