CONSTANTS
  DescCnt = 3
  MaxFrames = 5
SPECIFICATION Spec
INVARIANTS TypeOK TransmitterKept OkMeansSent
\* The frames of the run are sent.
CHECK_DEADLOCK FALSE
