\* One worker, every task but the timer's may suspend on I/O and is resumed
\* by idle(); the application adds a timer whose delay exceeds MAX_TIMEOUT.
CONSTANTS
  t1 = t1  t2 = t2  f1 = f1  c1 = c1  c2 = c2
  x1 = x1  x2 = x2  x3 = x3  x4 = x4
  None = None
  Root <- NoRoot
  Threads <- OneThread
  Fibers <- OneFiber
  Callbacks <- CbAndTimer
  CbFibers <- ThreeCbFibers
  Waiters <- AllWaiters
  MaxYields = 2
  Timers <- TimerCb
  Delay <- ShortDelay
  Times <- ShortClock
  MaxTimeout = 3
  IntWidth = 8
SPECIFICATION Spec
INVARIANT NoTaskStranded
PROPERTY AllTasksComplete
PROPERTY StopTerminates
PROPERTY TimerFires
