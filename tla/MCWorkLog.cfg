CONSTANTS
  a = a
  b = b
  Tickets = {a, b}
  PageLists <- SomeLists
  Times <- Evening
  LogTime = 1080
  PageKinds = {"both", "tsc", "hrm", "off"}
  MaxAsks = 2
  MaxFaults = 1
SPECIFICATION Spec
INVARIANT TypeOK
INVARIANT SafeToRetrySameList
INVARIANT RecordedFirst
INVARIANT MirrorsAgree
INVARIANT StartKeepsTheCell
PROPERTY QueueEmpties
PROPERTY KeepsPromise
CHECK_DEADLOCK FALSE
