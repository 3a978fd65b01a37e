----------------------------- MODULE TimerManager -----------------------------
(***************************************************************************)
(* TimerManager and Timer of timer.cpp.  m_timers is a std::set ordered by *)
(* Timer::Comparator, i.e. by (m_next, address); every section under       *)
(* m_mutex is one atomic step.  listExpiredCb takes the lock twice: a read *)
(* lock for the emptiness test, then the write lock for the extraction, so *)
(* it is two steps per expiring thread.  The clock is GetCurrentMS (wall   *)
(* clock, gettimeofday), which can jump back.                              *)
(***************************************************************************)
EXTENDS Naturals, FiniteSets, Sequences, SequencesExt

CONSTANTS Timers,    \* timer objects handed out by addTimer
          Addr,      \* Addr[t]: the address of timer t, an even number
          Threads,   \* idle threads that run listExpiredCb
          Periods,   \* values of ms passed to addTimer and reset
          Hour,      \* 60 * 60 * 1000 in detectClockRollover, scaled
          MaxTime,   \* the clock stays below this bound
          MaxJumps,  \* bound on backward clock jumps
          MaxCalls,  \* bound on cancel/refresh/reset calls
          None

ASSUME Hour \in Nat /\ MaxTime \in Nat /\ Periods \subseteq Nat

VARIABLES created,  \* timers returned by addTimer
          next,     \* Timer::m_next
          ms,       \* Timer::m_ms
          rec,      \* Timer::m_recurring
          cb,       \* Timer::m_cb is non-null
          timers,   \* the members of TimerManager::m_timers
          tickled,  \* TimerManager::m_tickled
          prev,     \* TimerManager::m_previousTime
          now,      \* GetCurrentMS()
          lpc,      \* per thread: "idle", or "checked" between the two locks
          seen,     \* per thread: now_ms of listExpiredCb
          fires,    \* parity of the number of times listExpiredCb pushed each m_cb
          queued,   \* timers with a copy of m_cb scheduled by idle and not yet run
          cancelled,\* timers whose cancel() returned true
          calls, jumps, fault

vars == <<created, next, ms, rec, cb, timers, tickled, prev, now, lpc,
          seen, fires, queued, cancelled, calls, jumps, fault>>

-----------------------------------------------------------------------------
(* The ordered set.                                                        *)

\* Timer::Comparator on (m_next, address); its null-pointer branches are
\* unreachable, since only non-null pointers are inserted.
Less(a, b) == a[1] < b[1] \/ (a[1] = b[1] /\ a[2] < b[2])

Key(t) == <<next[t], Addr[t]>>

\* The iteration order of m_timers.
Ordered == SetToSortSeq(timers, LAMBDA a, b : Less(Key(a), Key(b)))

\* std::set::lower_bound(k): the index of the first element not less than k.
LowerBound(s, k) ==
    LET i == SelectInSeq(s, LAMBDA t : ~Less(Key(t), k))
    IN IF i = 0 THEN Len(s) + 1 ELSE i

\* while (it != end && (*it)->m_next == now_ms) ++it;
RECURSIVE SkipEqual(_, _, _)
SkipEqual(s, i, n) ==
    IF i <= Len(s) /\ next[s[i]] = n THEN SkipEqual(s, i + 1, n) ELSE i

\* bool at_front = (it == m_timers.begin()) && !m_tickled, for t just inserted.
AtFront(t, nxt) ==
    /\ \A u \in timers \ {t} : Less(<<nxt, Addr[t]>>, Key(u))
    /\ ~tickled

\* TimerManager::detectClockRollover.  GetCurrentMS counts from the epoch,
\* so m_previousTime - 60*60*1000 cannot wrap and is a plain difference.
Rollover(n) == n < prev /\ n + Hour < prev

-----------------------------------------------------------------------------
Init ==
    /\ created = {}
    /\ next = [t \in Timers |-> 0]
    /\ ms = [t \in Timers |-> 0]
    /\ rec = [t \in Timers |-> FALSE]
    /\ cb = [t \in Timers |-> FALSE]
    /\ timers = {}
    /\ tickled = FALSE
    /\ now = Hour + 1
    /\ prev = now                         \* the constructor reads the clock
    /\ lpc = [th \in Threads |-> "idle"]
    /\ seen = [th \in Threads |-> 0]
    /\ fires = [t \in Timers |-> 0]
    /\ queued = {}
    /\ cancelled = {}
    /\ calls = 0
    /\ jumps = 0
    /\ fault = None

\* A cancel, refresh or reset call, of which there are at most MaxCalls.
Call ==
    /\ calls < MaxCalls
    /\ calls' = calls + 1

\* TimerManager::addTimer(ms, cb, recurring): the Timer constructor sets
\* m_next = now + ms; addTimer(val, lock) inserts and computes at_front.  The
\* hook onTimerInsertedAtFront runs after the unlock and only wakes an idle
\* thread, which the IOManager models take up.
AddTimer(t, p, r) ==
    /\ t \notin created
    /\ created' = created \cup {t}
    /\ next' = [next EXCEPT ![t] = now + p]
    /\ ms' = [ms EXCEPT ![t] = p]
    /\ rec' = [rec EXCEPT ![t] = r]
    /\ cb' = [cb EXCEPT ![t] = TRUE]
    /\ timers' = timers \cup {t}
    /\ tickled' = (tickled \/ AtFront(t, now + p))
    /\ UNCHANGED <<prev, now, lpc, seen, fires, queued, cancelled, calls, jumps, fault>>

\* Mutant: cancel clears m_cb but leaves the timer in m_timers.
CancelKeepsEntry(t) ==
    /\ t \in created
    /\ \/ /\ cb[t]
          /\ cb' = [cb EXCEPT ![t] = FALSE]
          /\ cancelled' = cancelled \cup {t}
          /\ Call
          /\ UNCHANGED <<timers, fault>>
       \/ /\ ~cb[t]
          /\ Call
          /\ UNCHANGED <<cb, timers, cancelled, fault>>
    /\ UNCHANGED <<created, next, ms, rec, tickled, prev, now, lpc, seen,
                   fires, queued, jumps>>

\* Timer::cancel.  m_cb is cleared, then m_timers.erase(find(this)); erasing
\* the end iterator of a failed find is undefined behaviour.
Cancel(t) ==
    /\ t \in created
    /\ \/ /\ cb[t]
          /\ cb' = [cb EXCEPT ![t] = FALSE]
          /\ timers' = timers \ {t}
          /\ cancelled' = cancelled \cup {t}
          /\ fault' = IF t \in timers THEN fault ELSE "cancel: erase(end())"
          /\ Call
       \/ /\ ~cb[t]
          /\ Call
          /\ UNCHANGED <<cb, timers, cancelled, fault>>
    /\ UNCHANGED <<created, next, ms, rec, tickled, prev, now, lpc, seen,
                   fires, queued, jumps>>

\* Timer::refresh: erase, m_next = now + m_ms, insert; no at_front check.
Refresh(t) ==
    /\ t \in created
    /\ IF cb[t] /\ t \in timers
         THEN /\ next' = [next EXCEPT ![t] = now + ms[t]]
              /\ Call
         ELSE /\ Call
              /\ UNCHANGED next
    /\ UNCHANGED <<created, ms, rec, cb, timers, tickled, prev, now, lpc, seen,
                   fires, queued, cancelled, jumps, fault>>

\* Mutant: start = m_next, without subtracting the old period.
ResetNextNoRebase(t, p, fromNow) == (IF fromNow THEN now ELSE next[t]) + p

\* reset, lines 90-100: the new m_next, rebased on the current time or on the
\* time the timer was last scheduled from (m_next - m_ms, before m_ms changes).
ResetNext(t, p, fromNow) == (IF fromNow THEN now ELSE next[t] - ms[t]) + p

\* Timer::reset(ms, from_now), lines 76-78: ms == m_ms && !from_now returns
\* true at once, before the lock is taken and before m_cb is looked at.
ResetEarly(t, p) ==
    /\ t \in created
    /\ p = ms[t]
    /\ Call
    /\ UNCHANGED <<created, next, ms, rec, cb, timers, tickled, prev, now, lpc,
                   seen, fires, queued, cancelled, jumps, fault>>

\* Timer::reset(ms, from_now) past the early return, under the lock: false
\* unless m_cb is set and find succeeds; else erase, compute the new m_next,
\* m_ms = ms, and addTimer(this, lock), which re-inserts and computes at_front.
Reset(t, p, fromNow) ==
    /\ t \in created
    /\ ~(p = ms[t] /\ ~fromNow)
    /\ Call
    /\ IF cb[t] /\ t \in timers
         THEN /\ ms' = [ms EXCEPT ![t] = p]
              /\ next' = [next EXCEPT ![t] = ResetNext(t, p, fromNow)]
              /\ tickled' = (tickled \/ AtFront(t, ResetNext(t, p, fromNow)))
         ELSE UNCHANGED <<next, ms, tickled>>
    /\ UNCHANGED <<created, rec, cb, timers, prev, now, lpc, seen, fires, queued,
                   cancelled, jumps, fault>>

\* TimerManager::getNextTimer: m_tickled = false under the read lock; the
\* returned timeout matters only to the IOManager's idle loop.
GetNextTimer ==
    /\ tickled' = FALSE
    /\ UNCHANGED <<created, next, ms, rec, cb, timers, prev, now, lpc,
                   seen, fires, queued, cancelled, calls, jumps, fault>>

\* listExpiredCb, lines 159-169: now_ms = GetCurrentMS(), then under the
\* read lock return if m_timers is empty (a call that changes nothing, so
\* only the non-empty case is a step).
ExpireCheck(th) ==
    /\ lpc[th] = "idle"
    /\ timers # {}
    /\ seen' = [seen EXCEPT ![th] = now]
    /\ lpc' = [lpc EXCEPT ![th] = "checked"]
    /\ UNCHANGED <<created, next, ms, rec, cb, timers, tickled, prev, now,
                   fires, queued, cancelled, calls, jumps, fault>>

\* Mutant: no while loop over the timers due exactly at now_ms.
ExpiredPrefixNoSkip(n, tmp, roll) ==
    LET s == Ordered
        i == IF roll THEN Len(s) + 1 ELSE LowerBound(s, <<n, tmp>>)
    IN {s[j] : j \in 1..(i - 1)}

\* The expired prefix [begin, it) of m_timers at time n, with the address of
\* the temporary now_timer, and with or without rollover.
ExpiredPrefix(n, tmp, roll) ==
    LET s == Ordered
        i == IF roll THEN Len(s) + 1 ELSE SkipEqual(s, LowerBound(s, <<n, tmp>>), n)
    IN {s[j] : j \in 1..(i - 1)}

\* Mutant: every expired timer is re-inserted, as if all were recurring.
ReinsertedAll(X) == X

\* The expired timers that listExpiredCb re-inserts: the recurring ones.
\* The others have m_cb cleared.
Reinserted(X) == {t \in X : rec[t]}

\* listExpiredCb, lines 170-202, under the write lock.  detectClockRollover
\* sets m_previousTime; without rollover it reads (*m_timers.begin())->m_next,
\* undefined behaviour when the set was emptied after the read-locked test.
\* Then each expired timer's m_cb is pushed; a recurring timer is re-inserted
\* at now_ms + m_ms, any other has m_cb cleared.  IOManager::idle hands the
\* pushed copies to schedule() right after the call.
ExpireLocked(th) ==
    LET n == seen[th]
        roll == Rollover(n)
    IN /\ lpc[th] = "checked"
       /\ lpc' = [lpc EXCEPT ![th] = "idle"]
       /\ seen' = [seen EXCEPT ![th] = 0]
       /\ prev' = n
       /\ CASE ~roll /\ timers = {} ->
                 /\ fault' = "listExpiredCb: *begin() of an empty set"
                 /\ UNCHANGED <<next, cb, timers, fires, queued>>
            [] ~roll /\ timers # {} /\ next[Head(Ordered)] > n ->
                 UNCHANGED <<next, cb, timers, fires, queued, fault>>
            [] OTHER ->
                 \E tmp \in {2 * k + 1 : k \in 0..Cardinality(Timers)} :
                   LET X == ExpiredPrefix(n, tmp, roll)
                       R == Reinserted(X)
                   IN /\ fires' = [t \in Timers |-> IF t \in X THEN 1 - fires[t] ELSE fires[t]]
                      /\ queued' = queued \cup X
                      /\ next' = [t \in Timers |-> IF t \in R THEN n + ms[t] ELSE next[t]]
                      /\ cb' = [t \in Timers |-> IF t \in X \ R THEN FALSE ELSE cb[t]]
                      /\ timers' = timers \ (X \ R)
                      /\ UNCHANGED fault
       /\ UNCHANGED <<created, ms, rec, tickled, now, cancelled,
                      calls, jumps>>

\* Workers run the scheduled copies of a timer's callback (Scheduler::run's
\* callback branch), after listExpiredCb released the lock.  Only a
\* recurring timer can have several copies; they are run in one step.
RunCallback(t) ==
    /\ t \in queued
    /\ queued' = queued \ {t}
    /\ UNCHANGED <<created, next, ms, rec, cb, timers, tickled, prev, now, lpc,
                   seen, fires, cancelled, calls, jumps, fault>>

\* The wall clock advances.  No thread stalls for an hour between reading
\* now_ms and taking the write lock in listExpiredCb.
Tick ==
    /\ now + 1 <= MaxTime
    /\ \A th \in Threads : lpc[th] = "checked" => now + 1 <= seen[th] + Hour
    /\ now' = now + 1
    /\ UNCHANGED <<created, next, ms, rec, cb, timers, tickled, prev, lpc,
                   seen, fires, queued, cancelled, calls, jumps, fault>>

\* The wall clock is set back by more than an hour.  detectClockRollover
\* only asks whether the step exceeds an hour, so the smallest such step
\* stands for all of them.
JumpBack ==
    /\ jumps < MaxJumps
    /\ now > Hour
    /\ now' = now - Hour - 1
    /\ jumps' = jumps + 1
    /\ UNCHANGED <<created, next, ms, rec, cb, timers, tickled, prev, lpc,
                   seen, fires, queued, cancelled, calls, fault>>

\* After undefined behaviour the process is gone.
Halted == fault # None /\ UNCHANGED vars

Next ==
    \/ Halted
    \/ /\ fault = None
       /\ \/ \E t \in Timers, p \in Periods, r \in BOOLEAN : AddTimer(t, p, r)
          \/ \E t \in Timers : Cancel(t) \/ Refresh(t)
          \/ \E t \in Timers, p \in Periods : ResetEarly(t, p)
          \/ \E t \in Timers, p \in Periods, f \in BOOLEAN : Reset(t, p, f)
          \/ GetNextTimer
          \/ \E th \in Threads : ExpireCheck(th) \/ ExpireLocked(th)
          \/ \E t \in Timers : RunCallback(t)
          \/ Tick
          \/ JumpBack

Spec == Init /\ [][Next]_vars

-----------------------------------------------------------------------------
(* Properties.                                                             *)

\* Every m_next is a clock reading plus one period: addTimer, refresh and
\* reset from now add m_ms to the current time, listExpiredCb to now_ms, and
\* reset(ms, false) to m_next - m_ms, the time the timer was scheduled from.
MaxNext == MaxTime + (IF Periods = {} THEN 0 ELSE Max(Periods))

\* The type invariant; its bound on m_next fails when a deadline is computed
\* from a deadline instead of from a clock reading.
TypeOK ==
    /\ created \subseteq Timers /\ timers \subseteq created
    /\ next \in [Timers -> 0..MaxNext] /\ ms \in [Timers -> Periods \cup {0}]
    /\ cb \in [Timers -> BOOLEAN] /\ rec \in [Timers -> BOOLEAN]
    /\ tickled \in BOOLEAN /\ prev \in 0..MaxTime /\ now \in 0..MaxTime
    /\ lpc \in [Threads -> {"idle", "checked"}] /\ seen \in [Threads -> 0..MaxTime]
    /\ fires \in [Timers -> 0..1] /\ queued \subseteq created
    /\ cancelled \subseteq created

\* A timer holds a live callback exactly when it is a member of m_timers.
\* cancel() relies on it: it erases find(this) whenever m_cb is set, and
\* erasing the end iterator is undefined behaviour.  listExpiredCb keeps it by
\* clearing m_cb of every one-shot timer it removes and re-inserting every
\* recurring one; refresh and reset by removing and re-inserting.
ArmedIffQueued == \A t \in created : cb[t] <=> t \in timers

\* Once cancel() has returned true for a one-shot timer, no copy of its
\* callback is left to run: listExpiredCb clears a one-shot timer's m_cb in
\* the write-locked section that pushes it, so cancel() of a timer already
\* collected returns false.  (A recurring timer keeps m_cb when collected,
\* and its copies scheduled before the cancel still run after it.)
CancelledOneShotNeverRuns ==
    \A t \in cancelled : ~rec[t] => t \notin queued

\* listExpiredCb never dereferences begin() of an empty m_timers.
NoEmptyDeref == fault # "listExpiredCb: *begin() of an empty set"

\* The timer manager implements the abstract timer set of TimerSpec: every
\* expiry pass reports exactly the due timers (all of them after a rollover),
\* re-arms the recurring ones at now_ms + m_ms, and cancel, refresh and reset
\* disarm or re-arm a timer without reporting it.
Abstract == INSTANCE TimerSpec WITH
    armed <- {t \in created : cb[t]},
    deadline <- next, period <- ms, recurring <- rec, fired <- fires,
    lastPass <- prev, clock <- now,
    Time <- 0..MaxNext

ImplementsTimerSpec == Abstract!Spec

=============================================================================
