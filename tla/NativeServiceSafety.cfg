SPECIFICATION Spec
CONSTANTS
  Owner = Owner
  Nobody = Nobody
  Supervisors = {s1}
  MaxLaunches = 3
  Threshold = 2
  MaxDelay = 2
  MaxFaults = 3
  Faults = {"launch", "thread", "terminate", "pump", "record", "probe", "guardian", "native", "external"}
INVARIANTS
  TypeOK
  SingleInstance
  LiveIsAccounted
  RunningIsRecorded
  AttachedIsOnlyObserved
PROPERTIES
  RestartJustified
  ImplementsContract
CHECK_DEADLOCK FALSE
