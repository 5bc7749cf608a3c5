\* The property is violated: midnight between the two writes.
SPECIFICATION Spec
CONSTANTS
  Years = {121, 124}
  Days = {1, 27, 28, 29, 30, 31}
  DayLength = 2
  MaxTicks = 8
INVARIANT RightAtMidnight
CHECK_DEADLOCK FALSE
