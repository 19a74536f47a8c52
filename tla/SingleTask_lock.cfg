SPECIFICATION FairSpec
CONSTANTS
  Pids = {p1, p2, p3}
  PoolSize = 2
  TimeLimit = 2
  SecondsExpire = 3
  MaxFaults = 2
  RecycleRacingPids = FALSE
INVARIANTS LockInv MutualExclusion
PROPERTIES EvictionJustified ImplementsMutex RunsAgain
