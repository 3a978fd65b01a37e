\* READ and WRITE waiters, every kind of call, two idle threads; the
\* process may abort.
CONSTANTS
  fd1 = fd1  t1 = t1  t2 = t2  o1 = o1  o2 = o2
  None = None
  Fds <- OneFd
  Threads <- TwoThreads
  Owners <- TwoOwners
  UsedEvents <- BothEvents
  Ops <- AllOps
  MaxRegs = 2
  MaxCalls = 2
  SizeMax <- SizeMaxValue
SPECIFICATION Spec
INVARIANT RegistrationConsistent
INVARIANT KernelMirrorsMask
