SPECIFICATION FairSpec
CONSTANTS
  Callers = {c1, c2}
  Nobody = Nobody
  Disciplined = TRUE
  Faults = {"prepare", "launch", "thread", "slow", "terminate", "native", "unready"}
  MaxFaults = 3
  MaxStarts = 2
  MaxCloses = 3
INVARIANTS
  TypeOK
  DownIsDown
  OrderedShutdown
  SupervisionFollows
PROPERTIES
  CloseReturns
  ServicesComeBack
CHECK_DEADLOCK FALSE
