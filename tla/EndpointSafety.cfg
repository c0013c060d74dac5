SPECIFICATION Spec
CONSTANTS
  Ids = {i1, i2, i3}
  Forms = {f1, f2}
  Clients = {c1, c2}
  Boot = Boot
  Nobody = Nobody
  MaxTargets = 2
  MaxFaults = 3
  MaxRequests = 3
  Faults = {"write", "sync", "crash"}
INVARIANTS
  TypeOK
  Agreement
  RegistryIsDurable
  StatusIsCurrent
PROPERTIES
  ImplementsContract
SYMMETRY Symmetry
CHECK_DEADLOCK FALSE
