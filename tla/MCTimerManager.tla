---------------------------- MODULE MCTimerManager ----------------------------
(* Model values and bounds for TimerManager. *)
EXTENDS TimerManager

CONSTANTS tm1, tm2, th1, th2

TwoTimers == {tm1, tm2}
OneThread == {th1}
TwoThreads == {th1, th2}

\* The two timers at addresses 2 and 4; the temporary now_timer of
\* listExpiredCb may be allocated below, between or above them.
AddrOf == [t \in TwoTimers |-> IF t = tm1 THEN 2 ELSE 4]

\* Periods 1 and 2: equal deadlines of two timers and a reset that changes
\* the period are both reachable.
SmallPeriods == {1, 2}
OnePeriod == {1}
==============================================================================
