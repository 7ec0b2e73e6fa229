\* A day of 8 seconds; 1834 to 2106 and 9834 to 10106.
SPECIFICATION Spec
CONSTANTS
  SECS_PER_MIN = 2
  SECS_PER_HOUR = 4
  SECS_PER_DAY = 8
  Eras = {0, 20}
  Horizon = 50000
INVARIANTS
  PartsAreTheDate
  TextDeterminesTime
  ClientSignsTheSameText
CHECK_DEADLOCK FALSE
