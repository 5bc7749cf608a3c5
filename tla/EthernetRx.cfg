CONSTANTS
  DescCnt = 3
  PoolSize = 4
  MboxSize = 2
  MsgPool = 4
  MaxFrames = 8
SPECIFICATION Spec
INVARIANTS TypeOK PoolAccounted NothingStranded MessagesSuffice
PROPERTY FramesInOrder
\* The frames of the run are taken.
CHECK_DEADLOCK FALSE
