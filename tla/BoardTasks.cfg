\* Mailboxes of one: every post finds its mailbox empty or full.
SPECIFICATION EndSpec
CONSTANTS
  MboxSize = 1
  RecvSize = 1
INVARIANTS
  TypeOK
  HeldWhereUsed
  HoldersAwake
  NoPriorityInversion
  BoostEnds
  EndReported
PROPERTIES
  LinkLossEnds
  ButtonCloses
\* Error_Handler ends in an endless loop: the program stops.
CHECK_DEADLOCK FALSE
