SPECIFICATION FairSpec
CONSTANTS
  Owner = Owner
  Nobody = Nobody
  Supervisors = {s1}
  MaxLaunches = 5
  Threshold = 2
  MaxDelay = 2
  MaxFaults = 3
  Faults = {"launch", "pump", "record", "probe", "guardian", "native", "external"}
PROPERTIES
  FailureIsRepaired
  ShutdownCompletes
CHECK_DEADLOCK FALSE
