SPECIFICATION PassiveSpec
CONSTANTS
  Ecids = {"T"}
  Svids = {"ControlState"}
  Requests <- MCRequests
  OtherRequests <- MCOtherRequests
  Adapters <- MCAdapters
  T7 = 1
  IdleLimit = 2
  Room = 2
  MaxFrames = 3
  MaxAhead = 2
  MaxOthers = 1
CHECK_DEADLOCK FALSE
INVARIANT AdaptersSeeEverything
