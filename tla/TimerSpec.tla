------------------------------ MODULE TimerSpec ------------------------------
(***************************************************************************)
(* What the timer manager of timer.h promises (spec.md 4.3 and 7), with    *)
(* no ordered set, no locks and no handles: a set of armed timers, each    *)
(* with a deadline, a period and a recurring flag.  An expiry pass at time *)
(* n reports exactly the armed timers whose deadline is at most n, or all  *)
(* of them when n lies more than an hour before the previous pass; it      *)
(* disarms the one-shot ones and re-arms the recurring ones at n + period. *)
(* TimerManager refines this specification.                                *)
(***************************************************************************)
EXTENDS Naturals

CONSTANTS Timers,   \* timer identities
          Hour,     \* 60 * 60 * 1000 ms, scaled with the clock
          Time      \* the clock values and deadlines considered

VARIABLES armed,     \* timers whose callback is live
          deadline,  \* next fire time of every timer
          period,    \* period of every timer
          recurring, \* recurring flag of every timer
          fired,     \* parity of the number of expiry passes that reported each timer
          lastPass,  \* time read by the previous expiry pass
          clock      \* the wall clock

vars == <<armed, deadline, period, recurring, fired, lastPass, clock>>

\* A backward jump of more than an hour since the previous pass.
Rollover(n) == n < lastPass /\ n + Hour < lastPass

\* The timers an expiry pass at time n reports.
Due(n) == IF Rollover(n) THEN armed ELSE {t \in armed : deadline[t] <= n}

Init ==
    /\ armed = {}
    /\ deadline \in [Timers -> Time]
    /\ period \in [Timers -> Nat]
    /\ recurring \in [Timers -> BOOLEAN]
    /\ fired = [t \in Timers |-> 0]
    /\ lastPass \in Time
    /\ clock = lastPass

\* A timer is armed to fire `p` after the current time.
Arm(t, p, r) ==
    /\ t \notin armed
    /\ armed' = armed \cup {t}
    /\ deadline' = [deadline EXCEPT ![t] = clock + p]
    /\ period' = [period EXCEPT ![t] = p]
    /\ recurring' = [recurring EXCEPT ![t] = r]
    /\ UNCHANGED <<fired, lastPass, clock>>

\* An armed timer is disarmed: it is never reported again.
Disarm(t) ==
    /\ t \in armed
    /\ armed' = armed \ {t}
    /\ UNCHANGED <<deadline, period, recurring, fired, lastPass, clock>>

\* An armed timer gets a new deadline and period.
Rearm(t, d, p) ==
    /\ t \in armed
    /\ deadline' = [deadline EXCEPT ![t] = d]
    /\ period' = [period EXCEPT ![t] = p]
    /\ UNCHANGED <<armed, recurring, fired, lastPass, clock>>

\* An expiry pass that read the time n.
Expire(n) ==
    LET S == Due(n)
    IN /\ fired' = [t \in Timers |-> IF t \in S THEN 1 - fired[t] ELSE fired[t]]
       /\ armed' = armed \ {t \in S : ~recurring[t]}
       /\ deadline' = [t \in Timers |->
                         IF t \in S /\ recurring[t] THEN n + period[t]
                                                    ELSE deadline[t]]
       /\ lastPass' = n
       /\ UNCHANGED <<period, recurring, clock>>

\* The wall clock moves, forward or back.
Clock == clock' \in Time /\ UNCHANGED <<armed, deadline, period, recurring, fired, lastPass>>

Next ==
    \/ \E t \in Timers, p \in Time, r \in BOOLEAN : Arm(t, p, r)
    \/ \E t \in Timers : Disarm(t)
    \/ \E t \in Timers, d, p \in Time : Rearm(t, d, p)
    \/ \E n \in Time : Expire(n)
    \/ Clock

Spec == Init /\ [][Next]_vars

=============================================================================
