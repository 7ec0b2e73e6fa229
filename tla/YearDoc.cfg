\* datetime.rs:1 against years of five digits.
SPECIFICATION Spec
CONSTANTS
  SECS_PER_MIN = 2
  SECS_PER_HOUR = 4
  SECS_PER_DAY = 8
  Eras = {20}
  Horizon = 12000
INVARIANTS
  TextIsADate
CHECK_DEADLOCK FALSE
