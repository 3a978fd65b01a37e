\* cancelEvent between epoll_wait and the processing of its result.
CONSTANTS
  fd1 = fd1  t1 = t1  t2 = t2  o1 = o1  o2 = o2
  None = None
  Fds <- OneFd
  Threads <- OneThread
  Owners <- TwoOwners
  UsedEvents <- BothEvents
  Ops <- CancelOnly
  MaxRegs = 2
  MaxCalls = 1
  SizeMax <- SizeMaxValue
SPECIFICATION Spec
INVARIANT StaleReadyNeverAsserts
