SPECIFICATION FairSpec
CONSTANTS
  Uuids = {u1}
  Web = {w1}
  Kinds = {"checkin"}
  Jobs = {j1, j2}
  Beat = Beat
  None = None
  MaxFaults = 1
  QuickWorkers = FALSE
INVARIANTS CompletedIsNotFound
PROPERTIES DeletedStaysDeleted LookupsEnd FoundAtLast
