CONSTANTS
  Tickets = {a, b, c}
  HoursChoices <- HoursOnAndOffTheGrid
  MaxTyped = 2
SYMMETRY Symmetric
SPECIFICATION Spec
INVARIANT ReadsBack
INVARIANT SlotsInOrder
INVARIANT BookedAsTyped
PROPERTY HoursStick
