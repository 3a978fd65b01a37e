\* The default Scheduler(2), use_caller = true: one worker and the caller's
\* root fiber; a fiber that yields READY and two callbacks, no I/O waits.
CONSTANTS
  t1 = t1  t2 = t2  f1 = f1  c1 = c1  c2 = c2
  x1 = x1  x2 = x2  x3 = x3  x4 = x4
  None = None
  Root <- CallerRoot
  Threads <- TwoThreads
  Fibers <- OneFiber
  Callbacks <- TwoCallbacks
  CbFibers <- FourCbFibers
  Waiters <- NoWaiters
  MaxYields = 2
  Timers <- NoTimers
  Delay <- NoDelay
  Times <- StillClock
  MaxTimeout = 3
  IntWidth = 8
SPECIFICATION Spec
INVARIANT TypeOK
INVARIANT NoTaskStranded
INVARIANT ThreadIdsKnown
PROPERTY AllTasksComplete
PROPERTY StopTerminates
PROPERTY StartReturns
