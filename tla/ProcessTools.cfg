SPECIFICATION MCSpec
CONSTANTS
  Configs <- MCConfigs
  Requests <- MCRequests
  Forces = {40, 50, 250, 260}
  Densities = {10, 11}
  MaxInFlight = 2
  MaxCycles = 11
  Films <- MCFilms
  Heats = {0, 40, 100, 210}
  ThermalBudget = 200
  MaxHeats = 3
  MaxLineBias = 6
  ParameterSets <- MCParameterSets
  ToleranceSets <- MCToleranceSets
  Readings <- MCReadings
  CallerNumbers = {1, 5}
  MaxVersions = 2
CHECK_DEADLOCK FALSE
INVARIANTS
  PlansAreWithinBudgets
  TemplateLifeIsKept
  WorstDecides
  DriftOnlyWorsens
  BiasStaysBounded
  NumbersIdentifyVersions
  OnlyExpectedParametersCount
