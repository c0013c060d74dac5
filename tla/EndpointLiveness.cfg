SPECIFICATION FairSpec
CONSTANTS
  Ids = {i1, i2}
  Forms = {f1}
  Clients = {c1, c2}
  Boot = Boot
  Nobody = Nobody
  MaxTargets = 2
  MaxFaults = 2
  MaxRequests = 3
  Faults = {"write", "sync", "crash"}
PROPERTIES
  RequestsAreAnswered
CHECK_DEADLOCK FALSE
