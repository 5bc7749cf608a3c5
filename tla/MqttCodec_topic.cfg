\* The property is violated: a topic of 256 characters.
SPECIFICATION CodecSpec
CONSTANTS
  Lengths = {5}
  TopicLengths = {12, 256}
  Messages = {1, 5}
  PropLengths = {0}
  Characters = {76}
  BufLen = 300
INVARIANT MessageRecovered
CHECK_DEADLOCK FALSE
