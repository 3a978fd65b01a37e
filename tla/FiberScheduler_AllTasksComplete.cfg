\* One worker, a fiber task, and a timer of 130 units, whose low int bits
\* are negative: checks AllTasksComplete alone.  When the worker blocks in
\* epoll_wait for good, nothing else can happen: deadlock is not checked.
CONSTANTS
  t1 = t1  t2 = t2  f1 = f1  c1 = c1  c2 = c2
  x1 = x1  x2 = x2  x3 = x3  x4 = x4
  None = None
  Root <- NoRoot
  Threads <- OneThread
  Fibers <- OneFiber
  Callbacks <- TimerCb
  CbFibers <- TwoCbFibers
  Waiters <- NoWaiters
  MaxYields = 1
  Timers <- TimerCb
  Delay <- LongDelay
  Times <- LongClock
  MaxTimeout = 3
  IntWidth = 8
SPECIFICATION Spec
PROPERTY AllTasksComplete
CHECK_DEADLOCK FALSE
