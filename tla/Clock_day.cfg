\* The property is violated: months that count from 0 and from 1.
SPECIFICATION Spec
CONSTANTS
  Years = {121, 124}
  Days = {1, 27, 28, 29, 30, 31}
  DayLength = 2
  MaxTicks = 8
INVARIANT RightEveryDay
CHECK_DEADLOCK FALSE
