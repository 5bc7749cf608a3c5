\* Two readers, one of which may be terminated; a poll, a timed and an endless read.
SPECIFICATION Spec
CONSTANTS
  Capacity = 2
  Readers = {1, 2}
  Mortal = {1}
  Timeouts = {0, 2, 5}
  MaxDelay = 5
  MaxPended = 2
INVARIANTS TypeOK NoLostWakeup WaitersBlocked NeverEarly
