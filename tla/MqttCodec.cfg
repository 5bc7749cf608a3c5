\* Lengths on both sides of the steps of the remaining length.
SPECIFICATION CodecSpec
CONSTANTS
  Lengths = {1, 114, 115, 123, 124, 256, 16379, 16380}
  TopicLengths = {12, 121, 127}
  Messages = {1, 5, 128}
  PropLengths = {0, 127}
  Characters = {76}
  BufLen = 390
INVARIANTS BrokerUnderstands MessageRecovered
\* The session of the run is over.
CHECK_DEADLOCK FALSE
