\* The property is violated: the ring laps a frame that waits.
CONSTANTS
  DescCnt = 2
  PoolSize = 3
  MboxSize = 1
  MsgPool = 3
  MaxFrames = 3
SPECIFICATION Spec
INVARIANT BuffersIntact
CHECK_DEADLOCK FALSE
