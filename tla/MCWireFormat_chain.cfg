SPECIFICATION Spec
CONSTANTS
  Last = 3
  Ticks = 3
  MsTicks = 2
  FactKeys <- MCFactKeys
  MaxSends = 2
  MaxFaults = 1
  None = None
INVARIANTS Faithful
PROPERTIES ForwardedIsAccepted ForwardedIsSame DeliveredIsThere
CHECK_DEADLOCK FALSE
