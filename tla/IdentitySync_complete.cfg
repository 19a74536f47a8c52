SPECIFICATION FairSpec
CONSTANTS
  Uuids = {r1, r2}
  Limit = 1
  MaxTime = 3
  MaxFaults = 1
INVARIANTS NothingMissed OneIdentityUnlessRaced
PROPERTIES ChangesArrive
CHECK_DEADLOCK FALSE
