SPECIFICATION FairRegistry
CONSTANTS
  Callers = {c1, c2}
  Threads = {t1, t2, t3}
  None = None
INVARIANTS RegistryInv OneSyncUnlessForgotten
PROPERTIES EntriesGo LockComesFree
