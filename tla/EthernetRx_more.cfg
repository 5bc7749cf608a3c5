CONSTANTS
  DescCnt = 2
  PoolSize = 2
  MboxSize = 1
  MsgPool = 3
  MaxFrames = 4
SPECIFICATION Spec
PROPERTY FramesTaken
\* The frames of the run are taken.
CHECK_DEADLOCK FALSE
