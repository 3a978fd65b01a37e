-------------------------- MODULE MCFiberScheduler --------------------------
(* Instantiation of FiberScheduler for TLC: two threads (one of them the  *)
(* caller in the default use_caller mode) or one worker thread, one       *)
(* Fiber::ptr task, one callback task, and enough callback-fiber ids.      *)
EXTENDS FiberScheduler, TLC

CONSTANTS t1, t2, f1, c1, c2, x1, x2, x3, x4

\* Two workers, no task waits on I/O: the READY re-queue path and shutdown
\* between two workers.
TwoThreads    == {t1, t2}
ThreeCbFibers == {x1, x2, x3}
NoWaiters     == {}

\* One worker, every task may wait on I/O: the reactor path of idle().
OneThread     == {t1}
TwoCbFibers   == {x1, x2}
AllWaiters    == {f1, c1}

\* use_caller = false: every thread is created by start().
NoRoot == None

\* IOManager(2) with the default use_caller = true: start() creates one
\* worker, and the constructing thread runs the root fiber inside stop().
CallerRoot == t2

OneFiber    == {f1}
OneCallback == {c1}

\* Two workers and two callbacks that may both wait on I/O: the races
\* between run() on one worker and the same fiber resumed on the other.
NoFibers       == {}
TwoCallbacks   == {c1, c2}
FourCbFibers   == {x1, x2, x3, x4}
CallbackWaiters == {c1, c2}

\* Timers.  The clock counts seconds-scale units, MAX_TIMEOUT is 3 of
\* them, and int is 8 bits wide, so that a delay with bit 7 set stands for
\* a remaining time in ms with bit 31 set.  No timer: the clock stands still.
NoTimers   == {}
NoDelay    == [tm \in {} |-> 0]
StillClock == {0}

\* One timer whose delay exceeds MAX_TIMEOUT: the clamp, then the
\* due (0, unclamped).
TimerCb    == {c2}
ShortDelay == [tm \in {c2} |-> 4]
ShortClock == {0, 4}
CbAndTimer == {c1, c2}

\* The same timer with a delay whose low int bits are negative.
LongDelay  == [tm \in {c2} |-> 130]
LongClock  == {0, 130}
=============================================================================
