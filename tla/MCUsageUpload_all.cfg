SPECIFICATION FairSpec
CONSTANTS
  a1 = a1
  a2 = a2
  Records = {1, 2, 3}
  NumServers = 2
  Addrs <- MCAddrs
  Addr <- TwoHosts
  Limit = 2
  MaxFaults = 1
INVARIANTS MarkedIsStored
PROPERTIES EventuallyDelivered
