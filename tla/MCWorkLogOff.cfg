CONSTANTS
  a = a
  b = b
  Tickets = {a, b}
  PageLists <- SomeLists
  Times <- Clock
  LogTime = 900
  PageKinds = {"off"}
  MaxAsks = 2
  MaxFaults = 0
SPECIFICATION Spec
INVARIANT OffStays
CHECK_DEADLOCK FALSE
