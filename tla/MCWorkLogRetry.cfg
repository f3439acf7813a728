CONSTANTS
  a = a
  b = b
  Tickets = {a, b}
  PageLists <- SomeLists
  Times <- Clock
  LogTime = 900
  PageKinds = {}
  MaxAsks = 2
  MaxFaults = 0
SPECIFICATION Spec
INVARIANT SuccessMeansHours
CHECK_DEADLOCK FALSE
