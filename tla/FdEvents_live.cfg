\* READ waiters of two owners, two idle threads, up to three delEvent,
\* cancelEvent or cancelAll calls (no close, which strands a waiter).
CONSTANTS
  fd1 = fd1  t1 = t1  t2 = t2  o1 = o1  o2 = o2
  None = None
  Fds <- OneFd
  Threads <- TwoThreads
  Owners <- TwoOwners
  UsedEvents <- ReadOnly
  Ops <- CallOps
  MaxRegs = 2
  MaxCalls = 3
  SizeMax <- SizeMaxValue
SPECIFICATION Spec
 
PROPERTY ReadyWaiterWoken
