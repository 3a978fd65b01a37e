CONSTANTS
  tm1 = tm1  tm2 = tm2  th1 = th1  th2 = th2
  None = None
  Timers <- TwoTimers
  Addr <- AddrOf
  Threads <- OneThread
  Periods <- SmallPeriods
  Hour = 2
  MaxTime = 4
  MaxJumps = 0
  MaxCalls = 1
SPECIFICATION Spec
INVARIANT NoEmptyDeref
