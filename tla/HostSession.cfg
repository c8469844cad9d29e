CONSTANTS
  T3 = 2
  T6 = 1
  T8 = 1
  EventWait = 1
  JobEvents = 2
  FirstSys = 1
  MaxRequests = 2
  MaxSessions = 2
SPECIFICATION HostSpec
INVARIANTS
  RequestsAreAnswered
  EventsInOrder
PROPERTIES
  CallsReturn
CHECK_DEADLOCK FALSE
