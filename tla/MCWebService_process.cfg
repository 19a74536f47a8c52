\* Requests are bounded: after the last one the process waits for ever.
CHECK_DEADLOCK FALSE
CONSTANTS
  Threads = {t1, t2}
  CAs = {"ca1", "ca2"}
  Places = {"default", "own"}
  DefaultPlace = "default"
  Disks <- MCDisks
  MaxEdits = 1
  MaxRestarts = 1
  MaxRequests = 2
  None = None
SPECIFICATION FairSpec
INVARIANTS ServiceInv OnlyIfSound OnlyTrusted ProfilesAreClean
PROPERTIES EveryRequestIsAnswered HealsAtNextRequest
