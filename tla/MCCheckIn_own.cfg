SPECIFICATION Spec
CONSTANTS
  c1 = c1
  c2 = c2
  q1 = q1
  q2 = q2
  q3 = q3
  Consumers <- MCConsumers
  Requests <- MCRequests
  ConsumerOf <- MCConsumerOf
  Threads = {t1, t2}
  MaxVersion = 2
  MaxFaults = 0
  None = None
INVARIANTS CertificateIsOwn
CHECK_DEADLOCK FALSE
