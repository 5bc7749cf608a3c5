\* The property is violated: a read of no bytes over an old message.
SPECIFICATION CodecSpec
CONSTANTS
  Lengths = {5}
  TopicLengths = {12}
  Messages = {1, 5}
  PropLengths = {0}
  Characters = {48, 76}
  BufLen = 300
INVARIANT ReadIsWholePacket
CHECK_DEADLOCK FALSE
