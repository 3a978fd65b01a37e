\* delEvent and cancelEvent of an event that is not registered.
CONSTANTS
  fd1 = fd1  t1 = t1  t2 = t2  o1 = o1  o2 = o2
  None = None
  Fds <- OneFd
  Threads <- OneThread
  Owners <- TwoOwners
  UsedEvents <- BothEvents
  Ops <- DelCancel
  MaxRegs = 2
  MaxCalls = 1
  SizeMax <- SizeMaxValue
SPECIFICATION Spec
PROPERTY UnregisteredCallRejected
