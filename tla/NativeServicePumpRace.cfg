SPECIFICATION Spec
CONSTANTS
  Owner = Owner
  Nobody = Nobody
  Supervisors = {s1}
  MaxLaunches = 3
  Threshold = 2
  MaxDelay = 2
  MaxFaults = 2
  Faults = {"pump", "native"}
INVARIANTS
  OnePumpPerLog
CHECK_DEADLOCK FALSE
