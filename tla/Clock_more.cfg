SPECIFICATION Spec
CONSTANTS
  Years = {121, 124}
  Days = {1, 27, 28, 29, 30, 31}
  DayLength = 2
  MaxTicks = 8
INVARIANTS TypeOK RightThisMonth
\* The ticks of the run are over.
CHECK_DEADLOCK FALSE
