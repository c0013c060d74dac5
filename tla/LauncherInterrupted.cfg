SPECIFICATION FairSpec
CONSTANTS
  NoRecord = NoRecord
  Starts = {s1}
  Stops = {}
  Kinds = {"interrupt"}
  MaxFaults = 1
PROPERTIES
  InterruptedStartEnds
CHECK_DEADLOCK FALSE
