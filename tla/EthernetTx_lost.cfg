\* The property is violated: one call inside of another one.
CONSTANTS
  DescCnt = 3
  MaxFrames = 3
SPECIFICATION Spec
INVARIANT OutputsFrames
CHECK_DEADLOCK FALSE
