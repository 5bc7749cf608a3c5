\* Mailboxes of two: both can be empty, partly filled and full.
SPECIFICATION Spec
CONSTANTS
  MboxSize = 2
  RecvSize = 2
INVARIANTS
  TypeOK
  HeldWhereUsed
  HoldersAwake
  NoPriorityInversion
  BoostEnds
  EndReported
\* Error_Handler ends in an endless loop: the program stops.
CHECK_DEADLOCK FALSE
