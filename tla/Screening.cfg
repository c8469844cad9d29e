CONSTANTS
  Absent = Absent
  NaN = NaN
  Reports <- Arrivals
  Threshold = 4
  MinHistory = 3
  Honest <- Usual
  MaxReports = 5
SPECIFICATION ScreeningSpec
INVARIANTS
  HistoryHasAMiddle
  OutliersStayFlagged
