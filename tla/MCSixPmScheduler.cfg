CONSTANTS
  TimesOfDay <- Times
  FireTimes <- Times
  LastDay = 1
SPECIFICATION Spec
INVARIANT NextFireIsCurrent
INVARIANT WithinADay
PROPERTY TwiceOnlyIfReadDuringFire
PROPERTY DueFiresUnlessSkipped
