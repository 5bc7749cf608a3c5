SPECIFICATION Spec
CONSTANT MaxMessages = 3
INVARIANTS
  TypeOK
  ObeysOnlyCommands
  ConnectionAccepted
  AliveNotLost
  ClosedDrained
PROPERTIES
  LossEndsOrOverruns
  PressEndsOrOverruns
\* The program ends.
CHECK_DEADLOCK FALSE
