\* Five frames of one or two descriptors go round the ring twice.
CONSTANTS
  DescCnt = 3
  MaxFrames = 5
SPECIFICATION Spec
INVARIANTS FramesIntact BuffersHeld
PROPERTIES FramesInOrder CallsReturn
\* The frames of the run are sent.
CHECK_DEADLOCK FALSE
