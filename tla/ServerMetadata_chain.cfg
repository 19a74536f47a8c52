SPECIFICATION FairChain
CONSTANTS
  NumServers = 3
  MaxTime = 3
  MaxFailures = 2
INVARIANTS LastIsDelivered
PROPERTIES DeliveredOrOvertaken
CHECK_DEADLOCK FALSE
