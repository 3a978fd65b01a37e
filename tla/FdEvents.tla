------------------------------ MODULE FdEvents ------------------------------
(***************************************************************************)
(* The per-descriptor event state of sylar's IOManager: FdContext (its     *)
(* events mask and its read / write EventContext), the kernel's epoll      *)
(* interest list, and m_pendingEventCount, under the operations that       *)
(* change them: addEvent, delEvent, cancelEvent, cancelAll, and the part   *)
(* of IOManager::idle that turns an epoll_wait result into triggerEvent    *)
(* calls.                                                                  *)
(*                                                                         *)
(* Every operation runs under fd_ctx->mutex from its test of the events    *)
(* mask to its last update, so each is one atomic step.  IOManager::idle   *)
(* is not: epoll_wait returns a snapshot of ready descriptors without the  *)
(* lock, and each entry is processed later under the lock.  Other threads  *)
(* can change the descriptor in between.                                   *)
(*                                                                         *)
(* A mask is the set of its bits.  The code uses the same bits for an     *)
(* event and its epoll flag (READ = EPOLLIN = 0x1, WRITE = EPOLLOUT =      *)
(* 0x4), so one set stands for both; EPOLLERR and EPOLLHUP take the same   *)
(* path in idle and are one flag, HUP.                                     *)
(*                                                                         *)
(* An owner is what an EventContext records: the fiber that called         *)
(* addEvent with cb = nullptr, or the callback passed in.  Its lifecycle   *)
(* (register, be woken, resume) is the caller's side.                      *)
(***************************************************************************)
EXTENDS Naturals, FiniteSets

CONSTANTS
  Fds,        \* descriptors with an FdContext (all below the table size)
  Threads,    \* worker threads running IOManager::idle
  Owners,     \* fibers / callbacks recorded in an EventContext
  UsedEvents, \* the event kinds the application waits for
  Ops,        \* the other calls the application makes: "del", "cancel",
              \*   "cancelAll", "close"
  MaxRegs,    \* bound on the registrations one owner makes
  MaxCalls,   \* bound on the application's del/cancel/cancelAll/close calls
  SizeMax,    \* the value a size_t takes when decremented below 0
  None

\* IOManager::Event (READ = EPOLLIN, WRITE = EPOLLOUT) and EPOLLERR|EPOLLHUP.
NONE  == {}
READ  == "READ"
WRITE == "WRITE"
HUP   == "HUP"
EvKinds == {READ, WRITE}
Flags   == {READ, WRITE, HUP}

ASSUME /\ UsedEvents \subseteq EvKinds
       /\ Ops \subseteq {"del", "cancel", "cancelAll", "close"}
       /\ MaxRegs \in Nat /\ MaxCalls \in Nat
       /\ SizeMax \in Nat /\ SizeMax > Cardinality(Owners) * MaxRegs

OwnerStates == {"free", "waiting", "woken", "dropped", "gaveup"}

VARIABLES
  events,   \* FdContext::events
  ctx,      \* ctx[fd][e]: the owner recorded in the EventContext, or None
  kmask,    \* the interest mask epoll holds for fd (0: not in the set)
  closed,   \* descriptors the application has closed
  edge,     \* readiness edges the kernel has not yet reported
  batch,    \* batch[t][fd]: what t's last epoll_wait reported for fd
  phase,    \* per idle thread: "wait" (in epoll_wait) or "dispatch"
  pending,  \* IOManager::m_pendingEventCount (a size_t)
  ostate,   \* where each owner is
  target,   \* the <<fd, event>> an owner last registered
  regs,     \* successful registrations per owner
  wakes,    \* times an owner was handed to schedule()
  calls,    \* application calls made so far (bounded)
  fault     \* the SYLAR_ASSERT that aborted the process, or None

vars == <<events, ctx, kmask, closed, edge, batch, phase, pending, ostate,
          target, regs, wakes, calls, fault>>

-----------------------------------------------------------------------------
(* Helpers *)

\* C's  !fd_ctx->events & event : ! binds tighter than &, so this is
\* (events == 0 ? 1 : 0) & event, nonzero only when nothing is registered
\* and event is READ (0x1); for WRITE (0x4) it is always 0.
NotRegisteredAsWritten(fd, e) == events[fd] = NONE /\ e = READ

\* --m_pendingEventCount on a size_t.
Dec(p) == IF p = 0 THEN SizeMax ELSE p - 1

\* ++m_pendingEventCount on a size_t.
Inc(p) == IF p = SizeMax THEN 0 ELSE p + 1

\* Whether epoll_ctl(op, fd) succeeds: EBADF on a closed descriptor, EEXIST
\* when adding one already in the set, ENOENT when changing one that is not.
EpollOk(op, fd) ==
  /\ fd \notin closed
  /\ op = "ADD" => kmask[fd] = NONE
  /\ op # "ADD" => kmask[fd] # NONE

\* The kernel forgets pending edges for events no longer of interest.
EdgesFor(fd, m) ==
  [edge EXCEPT ![fd] = @ \cap (m \cup {HUP})]

\* --m_pendingEventCount once per triggered kind.
DecBy(p, n) == IF n = 0 THEN p ELSE IF n = 1 THEN Dec(p) ELSE Dec(Dec(p))

\* Mutation: schedule() copies the callback / fiber instead of swapping it
\* out, so the EventContext keeps its owner.
TriggerEventsKeepsContext(fd, T, site) ==
  LET W == {ctx[fd][e] : e \in T} \ {None} IN
  \/ /\ ~(T \subseteq events[fd])
     /\ fault' = site
     /\ UNCHANGED <<events, ctx, pending, ostate, wakes>>
  \/ /\ T \subseteq events[fd]
     /\ events' = [events EXCEPT ![fd] = @ \ T]
     /\ pending' = DecBy(pending, Cardinality(T))
     /\ ostate' = [o \in Owners |-> IF o \in W THEN "woken" ELSE ostate[o]]
     /\ wakes' = [o \in Owners |-> IF o \in W THEN wakes[o] + 1 ELSE wakes[o]]
     /\ UNCHANGED <<ctx, fault>>

\* FdContext::triggerEvent for each kind in T, each followed by
\* --m_pendingEventCount: SYLAR_ASSERT(events & event) aborts the process;
\* otherwise the bit is cleared and the recorded owner is handed to
\* schedule().  schedule(&ctx.cb) / schedule(&ctx.fiber) swap the owner out
\* of the context, so the context is left empty.  The caller states what
\* else its step changes.
TriggerEvents(fd, T, site) ==
  LET W == {ctx[fd][e] : e \in T} \ {None} IN
  \/ /\ ~(T \subseteq events[fd])
     /\ fault' = site
     /\ UNCHANGED <<events, ctx, pending, ostate, wakes>>
  \/ /\ T \subseteq events[fd]
     /\ events' = [events EXCEPT ![fd] = @ \ T]
     /\ ctx' = [ctx EXCEPT ![fd] = [e \in EvKinds |->
                                      IF e \in T THEN None ELSE @[e]]]
     /\ pending' = DecBy(pending, Cardinality(T))
     /\ ostate' = [o \in Owners |-> IF o \in W THEN "woken" ELSE ostate[o]]
     /\ wakes' = [o \in Owners |-> IF o \in W THEN wakes[o] + 1 ELSE wakes[o]]
     /\ UNCHANGED fault

-----------------------------------------------------------------------------
Init ==
  /\ events  = [fd \in Fds |-> NONE]
  /\ ctx     = [fd \in Fds |-> [e \in EvKinds |-> None]]
  /\ kmask   = [fd \in Fds |-> NONE]
  /\ closed  = {}
  /\ edge    = [fd \in Fds |-> {}]
  /\ batch   = [t \in Threads |-> [fd \in Fds |-> {}]]
  /\ phase   = [t \in Threads |-> "wait"]
  /\ pending = 0
  /\ ostate  = [o \in Owners |-> "free"]
  /\ target  = [o \in Owners |-> None]
  /\ regs    = [o \in Owners |-> 0]
  /\ wakes   = [o \in Owners |-> 0]
  /\ calls   = 0
  /\ fault   = None

-----------------------------------------------------------------------------
(* The calls *)

\* IOManager::addEvent(fd, e) by a free owner that respects the contract
\* (e is not registered on fd).  op is MOD when fd already has events;
\* a failed epoll_ctl returns -1 and the caller gives up (hook's do_io
\* returns -1).  Otherwise ++m_pendingEventCount, events |= e, and the
\* EventContext records the owner.
AddEvent(o, fd, e) ==
  LET op == IF events[fd] # NONE THEN "MOD" ELSE "ADD"
      m  == events[fd] \cup {e}
  IN
  /\ fault = None
  /\ ostate[o] = "free" /\ regs[o] < MaxRegs
  /\ e \in UsedEvents /\ e \notin events[fd]
  /\ \/ /\ ~EpollOk(op, fd)
        /\ ostate' = [ostate EXCEPT ![o] = "gaveup"]
        /\ UNCHANGED <<events, ctx, kmask, edge, pending, target, regs>>
     \/ /\ EpollOk(op, fd)
        /\ kmask' = [kmask EXCEPT ![fd] = m]
        /\ pending' = Inc(pending)
        /\ events' = [events EXCEPT ![fd] = m]
        /\ ctx' = [ctx EXCEPT ![fd][e] = o]
        /\ ostate' = [ostate EXCEPT ![o] = "waiting"]
        /\ target' = [target EXCEPT ![o] = <<fd, e>>]
        /\ regs' = [regs EXCEPT ![o] = @ + 1]
        /\ UNCHANGED edge
  /\ UNCHANGED <<closed, batch, phase, wakes, calls, fault>>

\* The owner resumes after being handed to schedule() (its fiber runs
\* again, or its callback has run) and may register again.
Resume(o) ==
  /\ fault = None
  /\ ostate[o] = "woken"
  /\ ostate' = [ostate EXCEPT ![o] = "free"]
  /\ UNCHANGED <<events, ctx, kmask, closed, edge, batch, phase, pending,
                 target, regs, wakes, calls, fault>>

\* The part every application call shares: the guard and the budget.
AppCall(name) ==
  /\ fault = None
  /\ name \in Ops
  /\ calls < MaxCalls
  /\ calls' = calls + 1

DelEvent(fd, e) ==
  LET new == events[fd] \ {e}
      op  == IF new # NONE THEN "MOD" ELSE "DEL"
      o   == ctx[fd][e]
  IN
  /\ AppCall("del")
  /\ e \in UsedEvents
  /\ \/ /\ NotRegisteredAsWritten(fd, e) \/ ~EpollOk(op, fd)
        /\ UNCHANGED <<events, ctx, kmask, edge, pending, ostate>>
     \/ /\ ~NotRegisteredAsWritten(fd, e) /\ EpollOk(op, fd)
        /\ kmask' = [kmask EXCEPT ![fd] = new]
        /\ edge' = EdgesFor(fd, new)
        /\ pending' = Dec(pending)
        /\ events' = [events EXCEPT ![fd] = new]
        /\ ctx' = [ctx EXCEPT ![fd][e] = None]
        /\ ostate' = IF o # None THEN [ostate EXCEPT ![o] = "dropped"]
                     ELSE ostate
  /\ UNCHANGED <<closed, batch, phase, target, regs, wakes, fault>>

\* IOManager::cancelEvent(fd, e): as delEvent, but the event is triggered
\* (triggerEvent asserts it is registered) before --m_pendingEventCount.
CancelEvent(fd, e) ==
  LET new == events[fd] \ {e}
      op  == IF new # NONE THEN "MOD" ELSE "DEL"
  IN
  /\ AppCall("cancel")
  /\ e \in UsedEvents
  /\ \/ /\ NotRegisteredAsWritten(fd, e) \/ ~EpollOk(op, fd)
        /\ UNCHANGED <<events, ctx, kmask, edge, pending, ostate, wakes,
                       fault>>
     \/ /\ ~NotRegisteredAsWritten(fd, e) /\ EpollOk(op, fd)
        /\ kmask' = [kmask EXCEPT ![fd] = new]
        /\ edge' = EdgesFor(fd, new)
        /\ TriggerEvents(fd, {e}, "cancelEvent: events & event")
  /\ UNCHANGED <<closed, batch, phase, target, regs>>

\* IOManager::cancelAll(fd): nothing registered -> false; EPOLL_CTL_DEL;
\* trigger READ then WRITE if registered, each with --m_pendingEventCount.
\* SYLAR_ASSERT(events == 0) at the end holds by then.
CancelAll(fd) ==
  /\ AppCall("cancelAll")
  /\ \/ /\ events[fd] = NONE \/ ~EpollOk("DEL", fd)
        /\ UNCHANGED <<events, ctx, kmask, edge, pending, ostate, wakes,
                       fault>>
     \/ /\ events[fd] # NONE /\ EpollOk("DEL", fd)
        /\ kmask' = [kmask EXCEPT ![fd] = NONE]
        /\ edge' = [edge EXCEPT ![fd] = {}]
        /\ TriggerEvents(fd, events[fd], "cancelAll: events & event")
  /\ UNCHANGED <<closed, batch, phase, target, regs>>

\* close(fd) by the application: the kernel drops fd from the interest set;
\* the FdContext is left as it is.
Close(fd) ==
  /\ AppCall("close")
  /\ fd \notin closed
  /\ closed' = closed \cup {fd}
  /\ kmask' = [kmask EXCEPT ![fd] = NONE]
  /\ edge' = [edge EXCEPT ![fd] = {}]
  /\ UNCHANGED <<events, ctx, batch, phase, pending, ostate, target, regs,
                 wakes, fault>>

-----------------------------------------------------------------------------
(* The kernel and IOManager::idle *)

\* The device becomes readable (EPOLLIN), writable (EPOLLOUT) or hung up
\* (EPOLLHUP / EPOLLERR, reported whatever the interest): an edge is queued
\* for an fd in the interest set.
KernelEdge(fd, f) ==
  /\ fault = None
  /\ fd \notin closed /\ kmask[fd] # NONE
  /\ f \in kmask[fd] \cup {HUP}
  /\ f \notin edge[fd]
  /\ edge' = [edge EXCEPT ![fd] = @ \cup {f}]
  /\ UNCHANGED <<events, ctx, kmask, closed, batch, phase, pending, ostate,
                 target, regs, wakes, calls, fault>>

\* epoll_wait returns (edge-triggered: each queued edge is reported once)
\* or times out with nothing; the timers part of the pass is the
\* TimerManager module's.
EpollWait(t) ==
  /\ fault = None
  /\ phase[t] = "wait"
  /\ batch' = [batch EXCEPT ![t] = edge]
  /\ edge' = [fd \in Fds |-> {}]
  /\ phase' = [phase EXCEPT ![t] = "dispatch"]
  /\ UNCHANGED <<events, ctx, kmask, closed, pending, ostate, target, regs,
                 wakes, calls, fault>>

\* Mutation: the epoll_ctl that re-arms the descriptor is left out.
ProcessEventNoCtl(t, fd) ==
  LET ev0  == batch[t][fd]
      ev   == IF HUP \in ev0 THEN ev0 \cup events[fd] ELSE ev0
      real == ev \cap EvKinds
  IN
  /\ fault = None
  /\ phase[t] = "dispatch" /\ ev0 # {}
  /\ batch' = [batch EXCEPT ![t][fd] = {}]
  /\ \/ /\ events[fd] \cap real = NONE
        /\ UNCHANGED <<events, ctx, pending, ostate, wakes, fault>>
     \/ /\ events[fd] \cap real # NONE
        /\ TriggerEvents(fd, real, "idle: events & event")
  /\ UNCHANGED <<kmask, edge, closed, phase, target, regs, calls>>

\* Mutation: EPOLLERR / EPOLLHUP are not mapped onto the registered events.
ProcessEventIgnoresHup(t, fd) ==
  LET ev0  == batch[t][fd]
      real == ev0 \cap EvKinds
      left == events[fd] \ real
      op   == IF left # NONE THEN "MOD" ELSE "DEL"
  IN
  /\ fault = None
  /\ phase[t] = "dispatch" /\ ev0 # {}
  /\ batch' = [batch EXCEPT ![t][fd] = {}]
  /\ \/ /\ events[fd] \cap real = NONE \/ ~EpollOk(op, fd)
        /\ UNCHANGED <<events, ctx, kmask, edge, pending, ostate, wakes,
                       fault>>
     \/ /\ events[fd] \cap real # NONE /\ EpollOk(op, fd)
        /\ kmask' = [kmask EXCEPT ![fd] = left]
        /\ edge' = EdgesFor(fd, left)
        /\ TriggerEvents(fd, real, "idle: events & event")
  /\ UNCHANGED <<closed, phase, target, regs, calls>>

\* One entry of the epoll_wait result, under fd_ctx->mutex: ERR/HUP adds
\* the registered events; real_events from EPOLLIN / EPOLLOUT; nothing
\* registered among them -> continue; MOD to the left events or DEL; a
\* failed epoll_ctl -> continue; trigger READ then WRITE if in real_events.
ProcessEvent(t, fd) ==
  LET ev0  == batch[t][fd]
      ev   == IF HUP \in ev0 THEN ev0 \cup events[fd] ELSE ev0
      real == ev \cap EvKinds
      left == events[fd] \ real
      op   == IF left # NONE THEN "MOD" ELSE "DEL"
  IN
  /\ fault = None
  /\ phase[t] = "dispatch" /\ ev0 # {}
  /\ batch' = [batch EXCEPT ![t][fd] = {}]
  /\ \/ /\ events[fd] \cap real = NONE \/ ~EpollOk(op, fd)
        /\ UNCHANGED <<events, ctx, kmask, edge, pending, ostate, wakes,
                       fault>>
     \/ /\ events[fd] \cap real # NONE /\ EpollOk(op, fd)
        /\ kmask' = [kmask EXCEPT ![fd] = left]
        /\ edge' = EdgesFor(fd, left)
        /\ TriggerEvents(fd, real, "idle: events & event")
  /\ UNCHANGED <<closed, phase, target, regs, calls>>

\* The pass is over: the idle fiber swaps out to run() and comes back to
\* epoll_wait.
IdleSwapOut(t) ==
  /\ fault = None
  /\ phase[t] = "dispatch"
  /\ \A fd \in Fds : batch[t][fd] = {}
  /\ phase' = [phase EXCEPT ![t] = "wait"]
  /\ UNCHANGED <<events, ctx, kmask, closed, edge, batch, pending, ostate,
                 target, regs, wakes, calls, fault>>

\* After a failed assertion the process is gone.
Halted == fault # None /\ UNCHANGED vars

IdleStep(t) ==
  \/ EpollWait(t)
  \/ \E fd \in Fds : ProcessEvent(t, fd)
  \/ IdleSwapOut(t)

Next ==
  \/ \E o \in Owners, fd \in Fds, e \in EvKinds : AddEvent(o, fd, e)
  \/ \E o \in Owners : Resume(o)
  \/ \E fd \in Fds, e \in EvKinds : DelEvent(fd, e) \/ CancelEvent(fd, e)
  \/ \E fd \in Fds : CancelAll(fd) \/ Close(fd)
  \/ \E fd \in Fds, f \in Flags : KernelEdge(fd, f)
  \/ \E t \in Threads : IdleStep(t)
  \/ Halted

\* The idle fiber of a worker keeps looping (epoll_wait returns at the
\* latest after MAX_TIMEOUT), and a woken owner's fiber is run.
Fairness ==
  /\ \A t \in Threads : /\ WF_vars(EpollWait(t))
                         /\ \A fd \in Fds : WF_vars(ProcessEvent(t, fd))
                         /\ WF_vars(IdleSwapOut(t))
  /\ \A o \in Owners : WF_vars(Resume(o))

Spec == Init /\ [][Next]_vars /\ Fairness

-----------------------------------------------------------------------------
(* Properties *)

TypeOK ==
  /\ events \in [Fds -> SUBSET EvKinds]
  /\ ctx \in [Fds -> [EvKinds -> Owners \cup {None}]]
  /\ kmask \in [Fds -> SUBSET EvKinds]
  /\ closed \subseteq Fds
  /\ edge \in [Fds -> SUBSET Flags]
  /\ batch \in [Threads -> [Fds -> SUBSET Flags]]
  /\ phase \in [Threads -> {"wait", "dispatch"}]
  /\ pending \in 0..SizeMax
  /\ ostate \in [Owners -> OwnerStates]
  /\ target \in [Owners -> (Fds \X EvKinds) \cup {None}]
  /\ regs \in [Owners -> 0..MaxRegs] /\ wakes \in [Owners -> Nat]
  /\ calls \in 0..MaxCalls
  /\ fault \in {None, "cancelEvent: events & event",
                "cancelAll: events & event", "idle: events & event"}

\* The number of registered (fd, event) pairs.
Registered == Cardinality({<<fd, e>> \in Fds \X EvKinds : e \in events[fd]})

UnregisteredCallRejected ==
  [][\A fd \in Fds, e \in EvKinds :
       e \notin events[fd] /\ (DelEvent(fd, e) \/ CancelEvent(fd, e))
         => UNCHANGED <<events, ctx, kmask, pending, fault>>]_vars

\* A registered event's EventContext holds the owner waiting for it, and a
\* waiting owner is recorded in the context of the event it registered:
\* no path clears a bit and keeps the owner, or drops the owner and keeps
\* the bit (addEvent asserts the context is empty before it records).
RegistrationConsistent ==
  \A fd \in Fds, e \in EvKinds :
    /\ (e \in events[fd]) = (ctx[fd][e] # None)
    /\ \A o \in Owners :
         (ctx[fd][e] = o) = (ostate[o] = "waiting" /\ target[o] = <<fd, e>>)

\* The interest mask epoll holds for an open descriptor is FdContext's
\* events mask: every epoll_ctl of addEvent, delEvent, cancelEvent,
\* cancelAll and idle is applied to both or to neither (while the process
\* runs: an assertion fires after its epoll_ctl).
KernelMirrorsMask ==
  fault = None => \A fd \in Fds \ closed : kmask[fd] = events[fd]

\* Processing an entry of an epoll_wait result never triggers an event
\* that is not registered, even when another thread changed the
\* descriptor after epoll_wait returned.
StaleReadyNeverAsserts == fault # "idle: events & event"

\* An owner waiting on a descriptor that has become ready for its event is
\* eventually woken (or its registration removed by another call).
ReadyWaiterWoken ==
  \A o \in Owners :
    (/\ ostate[o] = "waiting"
     /\ edge[target[o][1]] \cap {target[o][2], HUP} # {})
      ~> ostate[o] # "waiting"

=============================================================================
