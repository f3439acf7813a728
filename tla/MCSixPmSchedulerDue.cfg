CONSTANTS
  TimesOfDay <- Times
  FireTimes <- Times
  LastDay = 1
SPECIFICATION Spec
PROPERTY DueFires
