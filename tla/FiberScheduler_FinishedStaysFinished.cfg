\* Two workers and tasks that suspend on I/O: checks FinishedStaysFinished alone.
CONSTANTS
  t1 = t1  t2 = t2  f1 = f1  c1 = c1  c2 = c2
  x1 = x1  x2 = x2  x3 = x3  x4 = x4
  None = None
  Root <- NoRoot
  Threads <- TwoThreads
  Fibers <- OneFiber
  Callbacks <- OneCallback
  CbFibers <- ThreeCbFibers
  Waiters <- AllWaiters
  MaxYields = 2
  Timers <- NoTimers
  Delay <- NoDelay
  Times <- StillClock
  MaxTimeout = 3
  IntWidth = 8
SPECIFICATION Spec
PROPERTY FinishedStaysFinished
