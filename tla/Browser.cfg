\* One page with overlapping requests, other clients, and requests that fail.
SPECIFICATION FairSpec
CONSTANTS
  Targets = {t1, t2}
  MinSelected = 1
  MaxSelected = 1
  FirstLists <- AllUp
  Requests = {q1, q2}
  MaxChanges = 2
  MaxFaults = 1
INVARIANTS
  TypeOK
  PageIsConsistent
  NothingIsLeftHanging
PROPERTIES
  PageRecovers
CHECK_DEADLOCK FALSE
