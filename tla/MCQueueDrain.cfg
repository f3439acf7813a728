CONSTANTS
  Dates = {d1, d2}
  Tickets = {a, b}
SPECIFICATION Spec
INVARIANT NothingLost
PROPERTY DrainKeepsTheRest
PROPERTY GateComesFree
PROPERTY KeepsPromise
