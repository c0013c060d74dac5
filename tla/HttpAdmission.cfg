SPECIFICATION FairSpec
CONSTANTS
  Connections = {c1, c2, c3, c4}
  Workers = 1
  Queue = 1
  MaxFaults = 1
INVARIANTS
  TypeOK
  PermitsMatch
  StoppedIsQuiet
PROPERTIES
  EveryoneIsLetGo
  CloseReturns
CHECK_DEADLOCK FALSE
