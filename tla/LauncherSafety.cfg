SPECIFICATION Spec
CONSTANTS
  NoRecord = NoRecord
  Starts = {s1, s2}
  Stops = {k1}
  Kinds = {"kill", "interrupt", "spawn", "write", "slow", "dashboard"}
  MaxFaults = 2
INVARIANTS
  TypeOK
  HoldersAreRecorded
  NeverAlone
  StopIsComplete
CHECK_DEADLOCK FALSE
