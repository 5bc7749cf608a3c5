\* One message at a time, two readers that nobody terminates.
SPECIFICATION FairSpec
CONSTANTS
  Capacity = 1
  Readers = {1, 2}
  Mortal = {}
  Timeouts = {1, 3}
  MaxDelay = 3
  MaxPended = 1
PROPERTIES ForemostServed TimedReadEnds
