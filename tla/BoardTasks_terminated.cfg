\* The property is violated: Main is terminated inside a lwIP section.
SPECIFICATION FairSpec
CONSTANTS
  MboxSize = 1
  RecvSize = 1
PROPERTIES
  ButtonEnds
CHECK_DEADLOCK FALSE
