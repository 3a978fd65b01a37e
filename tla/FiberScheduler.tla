--------------------------- MODULE FiberScheduler ---------------------------
(***************************************************************************)
(* The M:N dispatcher of sylar: Scheduler::run executed by every worker    *)
(* thread of an IOManager, the Fiber context switches it performs          *)
(* (swapIn / swapOut / reset / MainFunc), the fiber-side suspension points *)
(* (YieldToReady, YieldToHold after IOManager::addEvent), and the          *)
(* IOManager idle fiber that blocks in epoll_wait and re-schedules the     *)
(* fibers whose descriptors became ready (FdContext::triggerEvent).  It    *)
(* starts with Scheduler::start creating the worker threads: each Thread   *)
(* constructor calls pthread_create and waits on a semaphore that         *)
(* Thread::run posts once the new thread has recorded its id, all while    *)
(* start() holds m_mutex, which run()'s scan needs.                        *)
(*                                                                         *)
(* A step of a worker thread is either a step of run() or a step of the    *)
(* fiber whose stack that thread is currently executing.  The fiber-side   *)
(* step that publishes the new state (m_state = HOLD / READY / TERM) and   *)
(* the swapcontext that saves the fiber's context are separate steps,      *)
(* exactly as in Fiber::YieldToHold and Fiber::MainFunc.                   *)
(*                                                                         *)
(* The idle fiber's use of the timers is composed in: the application    *)
(* adds one-shot timers (IOManager is a TimerManager), getNextTimer()      *)
(* feeds IOManager::stopping() and the epoll_wait timeout, including its   *)
(* clamp to MAX_TIMEOUT and its (int) casts, and listExpiredCb hands the   *)
(* due callbacks to schedule().  addTimer's onTimerInsertedAtFront() is    *)
(* IOManager::tickle(), which writes the wake-up pipe only when a thread   *)
(* is idle.  The ordered set, cancel/refresh/reset and the clock rollover  *)
(* are the TimerManager module's business: here the clock only advances.   *)
(* With use_caller = true the constructing thread (Root) is one of the    *)
(* threads: start() creates the others, and stop() runs Scheduler::run on  *)
(* it in the root fiber (Fiber::call, back through CallerMainFunc).        *)
(* Descriptor readiness is abstracted to one                               *)
(* pending event per waiting fiber.  No caller passes a thread affinity,   *)
(* so every task is eligible on every thread (thread = -1).                *)
(***************************************************************************)
EXTENDS Integers, Sequences, FiniteSets, SequencesExt

CONSTANTS
  Threads,     \* the threads that run Scheduler::run, the caller's included
  Root,        \* use_caller = true: the constructing thread, else None
  Fibers,      \* Fiber::ptr tasks the application passes to schedule()
  Callbacks,   \* std::function tasks the application passes to schedule()
  CbFibers,    \* identities for the fibers run() creates with new Fiber(ft.cb)
  Waiters,     \* tasks whose body may suspend on I/O through addEvent
  MaxYields,   \* bound on the suspension points one fiber body passes
  Timers,      \* callback tasks the application passes to addTimer (one-shot)
  Delay,       \* the ms argument of addTimer, per timer
  Times,       \* the values GetCurrentMS() takes, increasing
  MaxTimeout,  \* MAX_TIMEOUT of IOManager::idle (3000)
  IntWidth,    \* the width of int, to which idle casts next_timeout (32)
  None

FiberIds == Fibers \cup CbFibers
Tasks    == Fibers \cup Callbacks

ASSUME /\ Threads # {} /\ None \notin Threads \cup FiberIds \cup Callbacks
       /\ Root \in Threads \cup {None}
       /\ Fibers \cap CbFibers = {} /\ Callbacks \cap FiberIds = {}
       /\ Waiters \subseteq Tasks
       /\ MaxYields \in Nat
       /\ Timers \subseteq Callbacks /\ Delay \in [Timers -> Nat]
       /\ Times \subseteq Nat /\ Times # {}
       /\ MaxTimeout \in 1..(2^(IntWidth - 1) - 1)
       \* run() allocates a callback fiber only when its own slot is empty, and
       \* drops it only when the callback suspends; this many ids suffice.
       /\ Cardinality(CbFibers) >= Cardinality(Threads) + Cardinality(Callbacks)

\* Fiber::State
INIT == "INIT"
HOLD == "HOLD"
EXEC == "EXEC"
TERM == "TERM"
READY == "READY"
EXCEPTED == "EXCEPT"
States   == {INIT, HOLD, EXEC, TERM, READY, EXCEPTED}

\* The threads Scheduler::start creates: m_threadCount is one less than
\* the constructor's argument when the caller takes part.
Workers == Threads \ {Root}
Finished == {TERM, EXCEPTED}

\* Where a worker thread is: a point of Scheduler::run, a point of the fiber
\* body it has swapped into, or a point of IOManager::idle.
ThreadPcs == {"unborn", "spawned", "notify", "loop", "swapin", "running", "registered", "saving", "post",
              "idle_check", "idle_wait", "done", "aborted"}

VARIABLES
  state,      \* Fiber::m_state of every task fiber and callback fiber
  body,       \* the callback (task) whose code a fiber runs: Fiber::m_cb
  yields,     \* suspension points the current body has passed (bounded)
  cbAlloc,    \* callback fibers created so far by new Fiber(ft.cb)
  queue,      \* Scheduler::m_fibers, in insertion order
  active,     \* Scheduler::m_activeThreadCount
  tpc,        \* per worker: where it is
  task,       \* per worker: run()'s local ft (the dequeued task)
  runner,     \* per worker: the fiber whose stack it is executing
  cbFiber,    \* per worker: run()'s local cb_fiber
  idleState,  \* per worker: state of run()'s local idle_fiber
  autoStop,   \* Scheduler::m_autoStop
  stopFlag,   \* Scheduler::m_stopping
  waiting,    \* fibers recorded in an EventContext by addEvent(fd, ev, nullptr)
  pending,    \* IOManager::m_pendingEventCount
  ready,      \* waited-on descriptors the kernel reports ready (epoll ready list)
  mainPc,     \* the application thread: "starting", "running", "joining", "done"
  creating,   \* the thread whose Thread constructor start() is in, or None
  tid,        \* Thread::m_id of every worker (None: still -1)
  sem,        \* Thread::m_semaphore of every worker
  threadIds,  \* Scheduler::m_threadIds, in push order
  rootState,  \* Scheduler::m_rootFiber's m_state (use_caller = true)
  now,        \* GetCurrentMS()
  armed,      \* TimerManager::m_timers
  deadline,   \* Timer::m_next of every timer
  tickled,    \* TimerManager::m_tickled
  pipe,       \* the read end of m_tickleFds holds a byte epoll has not reported
  idleCount,  \* Scheduler::m_idleThreadCount
  waitMs,     \* per worker: the int timeout idle passed to epoll_wait
  scheduled,  \* tasks handed to schedule() (by the application or by idle)
  finished,   \* tasks whose body has returned or thrown (history)
  fault       \* the SYLAR_ASSERT that aborted the process, or None

fiberVars  == <<state, body, yields, cbAlloc>>
workerVars == <<tpc, task, runner, cbFiber, idleState>>
eventVars  == <<waiting, pending, ready>>
histVars   == <<scheduled, finished>>
startVars  == <<creating, tid, sem, threadIds, rootState>>
timerVars  == <<now, armed, deadline, tickled, pipe>>
idleVars   == <<idleCount, waitMs>>
vars == <<fiberVars, queue, active, workerVars, autoStop, stopFlag,
          eventVars, mainPc, startVars, timerVars, idleVars, histVars, fault>>

-----------------------------------------------------------------------------
(* Helpers *)

\* The task body a fiber runs (a task fiber runs itself).
BodyOf(x) == body[x]

\* A fiber may suspend on I/O when its task may.
MayWait(x) == BodyOf(x) \in Waiters

\* run()'s lookup: a fiber task that is EXEC is skipped, callbacks never are.
Runnable(x) == x \in Callbacks \/ state[x] # EXEC

\* Mutation: IOManager::stopping() without the m_pendingEventCount test.
StoppingIgnoresPending ==
  armed = {} /\ autoStop /\ stopFlag /\ queue = <<>> /\ active = 0

\* ~0ull, getNextTimer()'s answer when m_timers is empty.
NoTimer == -1

\* The clock bound: every deadline the model lets addTimer set is reached.
MaxTime == Max(Times)

\* TimerManager::getNextTimer(): ms until the first deadline, 0 when due.
NextTimer ==
  IF armed = {} THEN NoTimer
  ELSE LET d == Min({deadline[tm] : tm \in armed})
       IN IF now >= d THEN 0 ELSE d - now

\* (int)x for a uint64_t x: the low IntWidth bits, two's complement.
IntCast(x) ==
  LET y == x % 2^IntWidth IN IF y >= 2^(IntWidth - 1) THEN y - 2^IntWidth ELSE y

\* The int idle passes to epoll_wait for next_timeout (a negative one
\* makes epoll_wait block until a descriptor or the pipe is ready).
EpollTimeout(nt) ==
  IF nt = NoTimer THEN MaxTimeout
  ELSE IF IntCast(nt) > MaxTimeout THEN MaxTimeout ELSE IntCast(nt)

\* listExpiredCb: the timers with m_next <= now (lower_bound plus the
\* loop over equal deadlines); one-shot timers drop out of m_timers.
Expired == {tm \in armed : deadline[tm] <= now}

\* The callbacks listExpiredCb returns, in m_timers order (ties by the
\* address, which the model leaves open).
ExpiredOrders ==
  {s \in SetToSeqs(Expired) :
     \A i \in 1..Len(s) - 1 : deadline[s[i]] <= deadline[s[i + 1]]}

\* IOManager::stopping(): no timer (getNextTimer() = ~0ull), no pending
\* event, and Scheduler::stopping().
Stopping ==
  /\ armed = {}
  /\ pending = 0
  /\ autoStop /\ stopFlag /\ queue = <<>> /\ active = 0

\* run()'s scan locks m_mutex, which Scheduler::start holds until every
\* Thread constructor has returned.
MutexFree == mainPc # "starting"

\* The fiber run() swapped into for the task it holds.
CurrentFiber(t) == IF task[t] \in Callbacks THEN cbFiber[t] ELSE task[t]

\* A failed SYLAR_ASSERT aborts the whole process: every thread stops.
Abort(name) ==
  /\ fault' = name
  /\ tpc' = [t \in Threads |-> "aborted"]
  /\ mainPc' = "aborted"
  /\ UNCHANGED <<startVars, timerVars, idleVars, fiberVars, queue, active, task, runner, cbFiber, idleState,
                 autoStop, stopFlag, eventVars, histVars>>

-----------------------------------------------------------------------------
Init ==
  /\ state     = [x \in FiberIds |-> INIT]
  /\ body      = [x \in FiberIds |-> IF x \in Fibers THEN x ELSE None]
  /\ yields    = [x \in FiberIds |-> 0]
  /\ cbAlloc   = {}
  /\ queue     = <<>>
  /\ active    = 0
  /\ tpc       = [t \in Threads |-> "unborn"]
  /\ task      = [t \in Threads |-> None]
  /\ runner    = [t \in Threads |-> None]
  /\ cbFiber   = [t \in Threads |-> None]
  /\ idleState = [t \in Threads |-> INIT]
  /\ autoStop  = FALSE
  /\ stopFlag  = FALSE        \* Scheduler::start has cleared m_stopping
  /\ waiting   = {}
  /\ pending   = 0
  /\ ready     = {}
  \* start() holds m_mutex while it creates the workers; with none to
  \* create it has already returned.
  /\ mainPc    = IF Workers = {} THEN "running" ELSE "starting"
  /\ creating  = None
  \* The constructor records the caller's id as m_rootThread and pushes it.
  /\ tid       = [t \in Threads |-> IF t = Root THEN t ELSE None]
  /\ sem       = [t \in Threads |-> 0]
  /\ threadIds = IF Root = None THEN <<>> ELSE <<Root>>
  /\ rootState = INIT
  /\ now       = Min(Times)
  /\ armed     = {}
  /\ deadline  = [tm \in Timers |-> 0]
  /\ tickled   = FALSE
  /\ pipe      = FALSE
  /\ idleCount = 0
  /\ waitMs    = [t \in Threads |-> MaxTimeout]
  /\ scheduled = {}
  /\ finished  = {}
  /\ fault     = None

-----------------------------------------------------------------------------
(* Scheduler::start, in the application thread, and Thread::run. *)

\* The loop of start() takes the threads in index order; any unborn one
\* stands for the next index (the threads are interchangeable).
\* new Thread(...): the constructor calls pthread_create, which succeeds.
ThreadCreate ==
  /\ mainPc = "starting" /\ creating = None
  /\ \E t \in Workers :
       /\ tpc[t] = "unborn"
       /\ tpc' = [tpc EXCEPT ![t] = "spawned"]
       /\ creating' = t
  /\ UNCHANGED <<timerVars, idleVars, fiberVars, queue, active, task, runner, cbFiber, idleState,
                 autoStop, stopFlag, eventVars, mainPc, tid, sem, threadIds, rootState,
                 histVars, fault>>

\* Semaphore::wait in the constructor: it returns once the count is
\* positive, and takes one.
SemaphoreWait(t) == sem[t] > 0 /\ sem' = [sem EXCEPT ![t] = @ - 1]

\* Mutation: start() reads getId() without the constructor's wait.
ThreadCtorNoWait ==
  /\ mainPc = "starting" /\ creating # None
  /\ threadIds' = Append(threadIds, tid[creating])
  /\ creating' = None
  /\ mainPc' = IF \E t \in Workers : tpc[t] = "unborn" THEN "starting"
               ELSE "running"
  /\ UNCHANGED <<timerVars, idleVars, fiberVars, queue, active, workerVars, autoStop, stopFlag,
                 eventVars, tid, sem, rootState, histVars, fault>>

\* The constructor returns after its wait; start() pushes getId() into
\* m_threadIds, and after the last thread unlocks m_mutex and returns.
ThreadCtorWait ==
  /\ mainPc = "starting" /\ creating # None
  /\ SemaphoreWait(creating)
  /\ threadIds' = Append(threadIds, tid[creating])
  /\ creating' = None
  /\ mainPc' = IF \E t \in Workers : tpc[t] = "unborn" THEN "starting"
               ELSE "running"
  /\ UNCHANGED <<timerVars, idleVars, fiberVars, queue, active, workerVars, autoStop, stopFlag,
                 eventVars, tid, rootState, histVars, fault>>

\* Thread::run on the new thread: t_thread, the name, m_id =
\* GetThreadId(), pthread_setname_np, and m_cb swapped into a local.
ThreadRun(t) ==
  /\ tpc[t] = "spawned"
  /\ tid' = [tid EXCEPT ![t] = t]
  /\ tpc' = [tpc EXCEPT ![t] = "notify"]
  /\ UNCHANGED <<timerVars, idleVars, fiberVars, queue, active, task, runner, cbFiber, idleState,
                 autoStop, stopFlag, eventVars, mainPc, creating, sem,
                 threadIds, rootState, histVars, fault>>

\* Mutation: the semaphore is posted after cb() (Scheduler::run) instead of
\* before it.
ThreadNotifyAfterCb(t) ==
  /\ tpc[t] = "notify"
  /\ tpc' = [tpc EXCEPT ![t] = "loop"]
  /\ UNCHANGED <<timerVars, idleVars, fiberVars, queue, active, task, runner, cbFiber, idleState,
                 autoStop, stopFlag, eventVars, mainPc, startVars, histVars,
                 fault>>

\* m_semaphore.notify(), then cb(): the thread enters Scheduler::run.
ThreadNotify(t) ==
  /\ tpc[t] = "notify"
  /\ sem' = [sem EXCEPT ![t] = @ + 1]
  /\ tpc' = [tpc EXCEPT ![t] = "loop"]
  /\ UNCHANGED <<timerVars, idleVars, fiberVars, queue, active, task, runner, cbFiber, idleState,
                 autoStop, stopFlag, eventVars, mainPc, creating, tid,
                 threadIds, rootState, histVars, fault>>

-----------------------------------------------------------------------------
(* The application thread *)

\* Scheduler::schedule(fc): scheduleNoLock appends the task under m_mutex;
\* nobody is tickled.
Schedule(x) ==
  /\ mainPc = "running"
  /\ x \in Tasks \ (scheduled \cup Timers)
  /\ queue' = Append(queue, x)
  /\ scheduled' = scheduled \cup {x}
  /\ UNCHANGED <<startVars, timerVars, idleVars, fiberVars, active, workerVars, autoStop, stopFlag,
                 eventVars, mainPc, finished, fault>>

\* Whether the timer inserted with m_next = d is begin() of m_timers
\* (Comparator: m_next, then the address, which the model leaves open).
AtBegin(d) ==
  IF \A o \in armed : d < deadline[o] THEN {TRUE}
  ELSE IF \A o \in armed : d <= deadline[o] THEN BOOLEAN ELSE {FALSE}

\* TimerManager::addTimer(ms, cb): new Timer (m_next = now + ms), then under
\* the write lock insert, and at_front = begin() && !m_tickled sets
\* m_tickled.  onTimerInsertedAtFront() follows after the unlock.
AddTimer(tm) ==
  /\ mainPc = "running"
  /\ tm \in Timers \ (armed \cup scheduled)
  /\ now + Delay[tm] <= MaxTime
  /\ \E b \in AtBegin(now + Delay[tm]) :
       LET atFront == b /\ ~tickled IN
       /\ armed' = armed \cup {tm}
       /\ deadline' = [deadline EXCEPT ![tm] = now + Delay[tm]]
       /\ tickled' = (tickled \/ atFront)
       /\ mainPc' = IF atFront THEN "tickling" ELSE "running"
  /\ UNCHANGED <<startVars, now, pipe, idleVars, fiberVars, queue, active,
                 workerVars, autoStop, stopFlag, eventVars, histVars, fault>>

\* IOManager::tickle(): write one byte to the pipe if hasIdleThreads().
Tickle ==
  /\ mainPc = "tickling"
  /\ pipe' = (pipe \/ idleCount > 0)
  /\ mainPc' = "running"
  /\ UNCHANGED <<startVars, now, armed, deadline, tickled, idleVars, fiberVars,
                 queue, active, workerVars, autoStop, stopFlag, eventVars,
                 histVars, fault>>

\* Time passes: GetCurrentMS() moves forward, by any amount.
Tick ==
  /\ fault = None
  /\ \E n \in Times : n > now /\ now' = n
  /\ UNCHANGED <<startVars, armed, deadline, tickled, pipe, idleVars, fiberVars,
                 queue, active, workerVars, autoStop, stopFlag, eventVars,
                 mainPc, histVars, fault>>

\* Scheduler::stop(): m_autoStop and m_stopping are set (the early return
\* of the m_threadCount == 0 case ends where the general path does).  The
\* caller is the constructing thread, so SYLAR_ASSERT(GetThis() == this)
\* holds.
Stop ==
  /\ mainPc = "running"
  /\ autoStop' = TRUE
  /\ stopFlag' = TRUE
  /\ mainPc' = "stopping"
  /\ UNCHANGED <<startVars, timerVars, idleVars, fiberVars, queue, active,
                 workerVars, eventVars, histVars, fault>>

\* Fiber::call() on the root fiber: m_state = EXEC and swapcontext from the
\* thread's main fiber into it, where Scheduler::run begins.
CallRoot ==
  /\ rootState' = EXEC
  /\ tpc' = [tpc EXCEPT ![Root] = "loop"]

\* Then, with a root fiber and unless stopping() (read now, after the
\* workers may have moved on), m_rootFiber->call() runs Scheduler::run on
\* the caller's thread; otherwise stop() goes on to the join.
StopCallRoot ==
  /\ mainPc = "stopping"
  /\ IF Root # None /\ ~Stopping
       THEN /\ CallRoot
            /\ mainPc' = "calling"
            /\ UNCHANGED <<task, runner, cbFiber, idleState>>
       ELSE /\ mainPc' = "joining"
            /\ UNCHANGED <<rootState, workerVars>>
  /\ UNCHANGED <<creating, tid, sem, threadIds, timerVars, idleVars, fiberVars,
                 queue, active, autoStop, stopFlag, eventVars, histVars, fault>>

\* run() has returned on the root fiber: Fiber::CallerMainFunc sets TERM
\* and back() resumes the caller inside stop(), which goes on to the join.
CallerBack ==
  /\ mainPc = "calling"
  /\ tpc[Root] = "done" /\ idleState[Root] = TERM
  /\ rootState' = TERM
  /\ mainPc' = "joining"
  /\ UNCHANGED <<creating, tid, sem, threadIds, timerVars, idleVars, fiberVars,
                 queue, active, workerVars, autoStop, stopFlag, eventVars,
                 histVars, fault>>

\* The join loop at the end of Scheduler::stop(), over m_threads.
Join ==
  /\ mainPc = "joining"
  /\ \A t \in Workers : tpc[t] = "done"
  /\ mainPc' = "done"
  /\ UNCHANGED <<startVars, timerVars, idleVars, fiberVars, queue, active, workerVars, autoStop, stopFlag,
                 eventVars, histVars, fault>>

-----------------------------------------------------------------------------
(* Scheduler::run, the part under m_mutex: take the first runnable task. *)

ScanFound(t) ==
  LET i == SelectInSeq(queue, Runnable) IN
  /\ tpc[t] = "loop" /\ MutexFree
  /\ i # 0
  /\ task' = [task EXCEPT ![t] = queue[i]]
  /\ queue' = RemoveAt(queue, i)
  /\ active' = active + 1
  /\ tpc' = [tpc EXCEPT ![t] = "swapin"]
  /\ UNCHANGED <<startVars, timerVars, idleVars, fiberVars, runner, cbFiber, idleState, autoStop, stopFlag,
                 eventVars, mainPc, histVars, fault>>

\* Nothing runnable and the idle fiber has returned: the thread leaves run().
ScanExit(t) ==
  /\ tpc[t] = "loop" /\ MutexFree
  /\ SelectInSeq(queue, Runnable) = 0
  /\ idleState[t] = TERM
  /\ tpc' = [tpc EXCEPT ![t] = "done"]
  /\ UNCHANGED <<startVars, timerVars, idleVars, fiberVars, queue, active, task, runner, cbFiber, idleState,
                 autoStop, stopFlag, eventVars, mainPc, histVars, fault>>

\* Mutation: the idle path decrements m_activeThreadCount as the is_active
\* branch does.
ScanIdleDecrements(t) ==
  /\ tpc[t] = "loop" /\ MutexFree
  /\ SelectInSeq(queue, Runnable) = 0
  /\ idleState[t] # TERM
  /\ active' = active - 1
  /\ idleState' = [idleState EXCEPT ![t] = EXEC]
  /\ idleCount' = idleCount + 1
  /\ tpc' = [tpc EXCEPT ![t] = "idle_check"]
  /\ UNCHANGED <<startVars, timerVars, waitMs, fiberVars, queue, task, runner, cbFiber,
                 autoStop, stopFlag, eventVars, mainPc, histVars, fault>>

\* Nothing runnable: ++m_idleThreadCount and idle_fiber->swapIn().
ScanIdle(t) ==
  /\ tpc[t] = "loop" /\ MutexFree
  /\ SelectInSeq(queue, Runnable) = 0
  /\ idleState[t] # TERM
  /\ idleState' = [idleState EXCEPT ![t] = EXEC]
  /\ idleCount' = idleCount + 1
  /\ tpc' = [tpc EXCEPT ![t] = "idle_check"]
  /\ UNCHANGED <<startVars, timerVars, waitMs, fiberVars, queue, active, task, runner, cbFiber,
                 autoStop, stopFlag, eventVars, mainPc, histVars, fault>>

-----------------------------------------------------------------------------
(* Scheduler::run, the swapIn of a dequeued task. *)

\* Fiber::swapIn asserts that the fiber is not already running.
SwapInAllowed(f) == state[f] # EXEC

\* Fiber::reset asserts a finished or fresh fiber before it rebinds m_cb
\* and sets INIT on the same stack.
ResetAllowed(x) == state[x] \in Finished \cup {INIT}

\* new Fiber(cb): a fiber with a stack of its own, one not yet allocated.
NewCbFiber == CHOOSE y \in CbFibers \ cbAlloc : TRUE

\* Fiber task: the guard "state != TERM || state != EXCEPT" is always true,
\* so swapIn happens whatever the state; swapIn asserts m_state != EXEC.
\* Resuming a finished fiber returns from the last swapOut of MainFunc, and
\* MainFunc then returns with uc_link = nullptr: the worker thread exits
\* with m_activeThreadCount still counting it.
SwapInFiber(t) ==
  LET f == task[t] IN
  /\ tpc[t] = "swapin"
  /\ f \in Fibers \cup CbFibers
  /\ \/ /\ ~SwapInAllowed(f)
        /\ Abort("swapIn: m_state != EXEC")
     \/ /\ state[f] \in Finished
        /\ state' = [state EXCEPT ![f] = EXEC]
        /\ tpc' = [tpc EXCEPT ![t] = "done"]
        /\ UNCHANGED <<startVars, timerVars, idleVars, body, yields, cbAlloc, queue, active, task, runner,
                       cbFiber, idleState, autoStop, stopFlag, eventVars,
                       mainPc, histVars, fault>>
     \/ /\ SwapInAllowed(f) /\ state[f] \notin Finished
        /\ state' = [state EXCEPT ![f] = EXEC]
        /\ runner' = [runner EXCEPT ![t] = f]
        /\ tpc' = [tpc EXCEPT ![t] = "running"]
        /\ UNCHANGED <<startVars, timerVars, idleVars, body, yields, cbAlloc, queue, active, task, cbFiber,
                       idleState, autoStop, stopFlag, eventVars, mainPc,
                       histVars, fault>>

\* Callback task: cb_fiber->reset(ft.cb) when the thread keeps one (reset
\* asserts TERM, INIT or EXCEPT), new Fiber(ft.cb) otherwise; then swapIn.
SwapInCallback(t) ==
  LET c == task[t]
      x == IF cbFiber[t] # None THEN cbFiber[t]
           ELSE NewCbFiber
  IN
  /\ tpc[t] = "swapin"
  /\ c \in Callbacks
  /\ \/ /\ cbFiber[t] # None
        /\ ~ResetAllowed(x)
        /\ Abort("reset: m_state in TERM, INIT, EXCEPT")
     \/ /\ cbFiber[t] = None => CbFibers \ cbAlloc # {}
        /\ ResetAllowed(x)
        /\ cbAlloc' = cbAlloc \cup {x}
        /\ cbFiber' = [cbFiber EXCEPT ![t] = x]
        /\ body' = [body EXCEPT ![x] = c]
        /\ yields' = [yields EXCEPT ![x] = 0]
        /\ state' = [state EXCEPT ![x] = EXEC]
        /\ runner' = [runner EXCEPT ![t] = x]
        /\ tpc' = [tpc EXCEPT ![t] = "running"]
        /\ UNCHANGED <<startVars, timerVars, idleVars, queue, active, task, idleState, autoStop, stopFlag,
                       eventVars, mainPc, scheduled, finished, fault>>

-----------------------------------------------------------------------------
(* Steps of the fiber a worker thread is executing. *)

\* Fiber::YieldToReady: m_state = READY, then swapOut.
YieldToReady(t) ==
  LET x == runner[t] IN
  /\ tpc[t] = "running"
  /\ yields[x] < MaxYields
  /\ state' = [state EXCEPT ![x] = READY]
  /\ yields' = [yields EXCEPT ![x] = @ + 1]
  /\ tpc' = [tpc EXCEPT ![t] = "saving"]
  /\ UNCHANGED <<startVars, timerVars, idleVars, body, cbAlloc, queue, active, task, runner, cbFiber,
                 idleState, autoStop, stopFlag, eventVars, mainPc, histVars,
                 fault>>

\* IOManager::addEvent(fd, ev) with cb = nullptr from inside the fiber:
\* ++m_pendingEventCount, the EventContext records Fiber::GetThis(), and
\* SYLAR_ASSERT(event_ctx.fiber->getState() == Fiber::EXEC).
AddEvent(t) ==
  LET x == runner[t] IN
  /\ tpc[t] = "running"
  /\ MayWait(x)
  /\ yields[x] < MaxYields
  /\ \/ /\ state[x] # EXEC
        /\ Abort("addEvent: fiber state == EXEC")
     \/ /\ state[x] = EXEC
        /\ waiting' = waiting \cup {x}
        /\ pending' = pending + 1
        /\ yields' = [yields EXCEPT ![x] = @ + 1]
        /\ tpc' = [tpc EXCEPT ![t] = "registered"]
        /\ UNCHANGED <<startVars, timerVars, idleVars, state, body, cbAlloc, queue, active, task, runner,
                       cbFiber, idleState, autoStop, stopFlag, ready, mainPc,
                       histVars, fault>>

\* Fiber::YieldToHold after the registration: m_state = HOLD, then swapOut.
YieldToHold(t) ==
  LET x == runner[t] IN
  /\ tpc[t] = "registered"
  /\ state' = [state EXCEPT ![x] = HOLD]
  /\ tpc' = [tpc EXCEPT ![t] = "saving"]
  /\ UNCHANGED <<startVars, timerVars, idleVars, body, yields, cbAlloc, queue, active, task, runner, cbFiber,
                 idleState, autoStop, stopFlag, eventVars, mainPc, histVars,
                 fault>>

\* Fiber::MainFunc after m_cb() returned (TERM) or threw (EXCEPT).
MainFuncReturn(t) ==
  LET x == runner[t] IN
  /\ tpc[t] = "running"
  /\ \E s \in Finished : state' = [state EXCEPT ![x] = s]
  /\ finished' = finished \cup {BodyOf(x)}
  /\ tpc' = [tpc EXCEPT ![t] = "saving"]
  /\ UNCHANGED <<startVars, timerVars, idleVars, body, yields, cbAlloc, queue, active, task, runner, cbFiber,
                 idleState, autoStop, stopFlag, eventVars, mainPc, scheduled,
                 fault>>

\* Fiber::swapOut: swapcontext saves the fiber's context and the thread
\* continues in run() after its swapIn.
SwapOut(t) ==
  /\ tpc[t] = "saving"
  /\ runner' = [runner EXCEPT ![t] = None]
  /\ tpc' = [tpc EXCEPT ![t] = "post"]
  /\ UNCHANGED <<startVars, timerVars, idleVars, fiberVars, queue, active, task, cbFiber, idleState,
                 autoStop, stopFlag, eventVars, mainPc, histVars, fault>>

-----------------------------------------------------------------------------
(* Scheduler::run after swapIn returned. *)

\* Mutation: a READY fiber is not handed back to schedule().
PostFiberNoRequeue(t) ==
  LET f == task[t] IN
  /\ tpc[t] = "post"
  /\ task[t] \in FiberIds
  /\ active' = active - 1
  /\ state' = IF state[f] \notin Finished \cup {READY}
                THEN [state EXCEPT ![f] = HOLD] ELSE state
  /\ task' = [task EXCEPT ![t] = None]
  /\ tpc' = [tpc EXCEPT ![t] = "loop"]
  /\ UNCHANGED <<startVars, timerVars, idleVars, queue, body, yields, cbAlloc, runner, cbFiber, idleState,
                 autoStop, stopFlag, eventVars, mainPc, histVars, fault>>

\* Fiber task: --m_activeThreadCount; READY -> schedule(ft.fiber); any state
\* but TERM and EXCEPT -> m_state = HOLD.  The state is read now, not when
\* the fiber swapped out.
PostFiber(t) ==
  LET f == task[t] IN
  /\ tpc[t] = "post"
  /\ task[t] \in FiberIds
  /\ active' = active - 1
  /\ queue' = IF state[f] = READY THEN Append(queue, f) ELSE queue
  /\ state' = IF state[f] \notin Finished \cup {READY}
                THEN [state EXCEPT ![f] = HOLD] ELSE state
  /\ task' = [task EXCEPT ![t] = None]
  /\ tpc' = [tpc EXCEPT ![t] = "loop"]
  /\ UNCHANGED <<startVars, timerVars, idleVars, body, yields, cbAlloc, runner, cbFiber, idleState, autoStop,
                 stopFlag, eventVars, mainPc, histVars, fault>>

\* Mutation: the callback branch forgets --m_activeThreadCount.
PostCallbackKeepsCount(t) ==
  LET x == cbFiber[t] IN
  /\ tpc[t] = "post"
  /\ task[t] \in Callbacks
  /\ queue' = IF state[x] = READY THEN Append(queue, x) ELSE queue
  /\ state' = [state EXCEPT ![x] = CASE state[x] = READY    -> READY
                                     [] state[x] \in Finished -> INIT
                                     [] OTHER                 -> HOLD]
  /\ body' = IF state[x] \in Finished THEN [body EXCEPT ![x] = None] ELSE body
  /\ cbFiber' = IF state[x] \in Finished THEN cbFiber
                ELSE [cbFiber EXCEPT ![t] = None]
  /\ task' = [task EXCEPT ![t] = None]
  /\ tpc' = [tpc EXCEPT ![t] = "loop"]
  /\ UNCHANGED <<startVars, timerVars, idleVars, active, yields, cbAlloc, runner, idleState, autoStop,
                 stopFlag, eventVars, mainPc, histVars, fault>>

\* Callback fiber: READY -> schedule(cb_fiber) and drop it; TERM or EXCEPT
\* -> cb_fiber->reset(nullptr) keeps it for the next callback; otherwise
\* m_state = HOLD and drop it (the EventContext still refers to it).
PostCallback(t) ==
  LET x == cbFiber[t] IN
  /\ tpc[t] = "post"
  /\ task[t] \in Callbacks
  /\ active' = active - 1
  /\ queue' = IF state[x] = READY THEN Append(queue, x) ELSE queue
  /\ state' = [state EXCEPT ![x] = CASE state[x] = READY    -> READY
                                     [] state[x] \in Finished -> INIT
                                     [] OTHER                 -> HOLD]
  /\ body' = IF state[x] \in Finished THEN [body EXCEPT ![x] = None] ELSE body
  /\ cbFiber' = IF state[x] \in Finished THEN cbFiber
                ELSE [cbFiber EXCEPT ![t] = None]
  /\ task' = [task EXCEPT ![t] = None]
  /\ tpc' = [tpc EXCEPT ![t] = "loop"]
  /\ UNCHANGED <<startVars, timerVars, idleVars, yields, cbAlloc, runner, idleState, autoStop, stopFlag,
                 eventVars, mainPc, histVars, fault>>

-----------------------------------------------------------------------------
(* IOManager::idle, one pass per swapIn of the idle fiber. *)

\* stopping(next_timeout) (getNextTimer() clears m_tickled): the idle
\* function returns, MainFunc sets TERM and swaps out; run() decrements
\* m_idleThreadCount and loops.
IdleStop(t) ==
  /\ tpc[t] = "idle_check"
  /\ Stopping
  /\ tickled' = FALSE
  /\ idleCount' = idleCount - 1
  /\ idleState' = [idleState EXCEPT ![t] = TERM]
  /\ tpc' = [tpc EXCEPT ![t] = "loop"]
  /\ UNCHANGED <<startVars, now, armed, deadline, pipe, waitMs, fiberVars,
                 queue, active, task, runner, cbFiber, autoStop, stopFlag,
                 eventVars, mainPc, histVars, fault>>

\* Not stopping: next_timeout from the same getNextTimer(), clamped and
\* cast, and the thread blocks in epoll_wait.
IdleWait(t) ==
  /\ tpc[t] = "idle_check"
  /\ ~Stopping
  /\ tickled' = FALSE
  /\ waitMs' = [waitMs EXCEPT ![t] = EpollTimeout(NextTimer)]
  /\ tpc' = [tpc EXCEPT ![t] = "idle_wait"]
  /\ UNCHANGED <<startVars, now, armed, deadline, pipe, idleCount, fiberVars,
                 queue, active, task, runner, cbFiber, idleState, autoStop,
                 stopFlag, eventVars, mainPc, histVars, fault>>

\* After epoll_wait: listExpiredCb, schedule() of its callbacks, the pipe
\* drained if it was reported; the idle fiber swaps out, run() decrements
\* m_idleThreadCount and sets it HOLD.  triggered: what the descriptor
\* loop hands to schedule() after the timer callbacks.
IdleReturn(t, triggered) ==
  /\ \E s \in ExpiredOrders :
       /\ armed' = armed \ Expired
       /\ scheduled' = scheduled \cup Expired
       /\ queue' = (queue \o s) \o triggered
  /\ pipe' = FALSE
  /\ idleCount' = idleCount - 1
  /\ idleState' = [idleState EXCEPT ![t] = HOLD]
  /\ tpc' = [tpc EXCEPT ![t] = "loop"]

\* Mutation: epoll_wait returns only when the pipe is written, as if it
\* were always called with timeout -1.
IdleTimeoutOnPipe(t) ==
  /\ tpc[t] = "idle_wait"
  /\ ready = {}
  /\ pipe
  /\ IdleReturn(t, <<>>)
  /\ UNCHANGED <<startVars, now, deadline, tickled, waitMs, fiberVars, active,
                 task, runner, cbFiber, autoStop, stopFlag, eventVars, mainPc,
                 finished, fault>>

\* epoll_wait returned no descriptor: its timeout elapsed (a negative one
\* never does) or the pipe was written.
IdleTimeout(t) ==
  /\ tpc[t] = "idle_wait"
  /\ ready = {}
  /\ waitMs[t] >= 0 \/ pipe
  /\ IdleReturn(t, <<>>)
  /\ UNCHANGED <<startVars, now, deadline, tickled, waitMs, fiberVars, active,
                 task, runner, cbFiber, autoStop, stopFlag, eventVars, mainPc,
                 finished, fault>>

\* Mutation: triggerEvent schedules only a recorded callback, never a
\* recorded fiber.
IdleTriggerDropsFiber(t, x) ==
  /\ tpc[t] = "idle_wait"
  /\ x \in ready
  /\ waiting' = waiting \ {x}
  /\ ready' = ready \ {x}
  /\ pending' = pending - 1
  /\ IdleReturn(t, <<>>)
  /\ UNCHANGED <<startVars, now, deadline, tickled, waitMs, fiberVars, active,
                 task, runner, cbFiber, autoStop, stopFlag, mainPc, finished,
                 fault>>

\* epoll_wait returned a ready descriptor: after the expired timers,
\* FdContext::triggerEvent hands the recorded fiber to schedule() and then
\* --m_pendingEventCount.
IdleTrigger(t, x) ==
  /\ tpc[t] = "idle_wait"
  /\ x \in ready
  /\ waiting' = waiting \ {x}
  /\ ready' = ready \ {x}
  /\ pending' = pending - 1
  /\ IdleReturn(t, <<x>>)
  /\ UNCHANGED <<startVars, now, deadline, tickled, waitMs, fiberVars, active,
                 task, runner, cbFiber, autoStop, stopFlag, mainPc, finished,
                 fault>>

\* The peer side: a descriptor a fiber waits on becomes ready.
EventReady(x) ==
  /\ fault = None
  /\ x \in waiting \ ready
  /\ ready' = ready \cup {x}
  /\ UNCHANGED <<startVars, timerVars, idleVars, fiberVars, queue, active, workerVars, autoStop, stopFlag,
                 waiting, pending, mainPc, histVars, fault>>

-----------------------------------------------------------------------------
ThreadStep(t) ==
  \/ ThreadRun(t) \/ ThreadNotify(t)
  \/ ScanFound(t) \/ ScanExit(t) \/ ScanIdle(t)
  \/ SwapInFiber(t) \/ SwapInCallback(t)
  \/ YieldToReady(t) \/ AddEvent(t) \/ YieldToHold(t) \/ MainFuncReturn(t)
  \/ SwapOut(t) \/ PostFiber(t) \/ PostCallback(t)
  \/ IdleStop(t) \/ IdleWait(t) \/ IdleTimeout(t)
  \/ \E x \in FiberIds : IdleTrigger(t, x)

\* After an assertion the process has aborted; after the join it has ended.
Halted == mainPc \in {"done", "aborted"} /\ UNCHANGED vars

Next ==
  \/ ThreadCreate \/ ThreadCtorWait
  \/ \E x \in Tasks : Schedule(x)
  \/ \E tm \in Timers : AddTimer(tm)
  \/ Tickle
  \/ Tick
  \/ Stop
  \/ StopCallRoot
  \/ CallerBack
  \/ Join
  \/ \E t \in Threads : ThreadStep(t)
  \/ \E x \in FiberIds : EventReady(x)
  \/ Halted

\* The application thread and the workers are OS threads: each keeps
\* running (weak fairness), start() included.  The
\* kernel eventually reports an awaited descriptor ready, and a joining
\* application thread returns once the workers are gone; back() is the
\* caller's thread continuing once its run() has returned.  An addTimer
\* call finishes its tickle, and the clock keeps moving.
Fairness ==
  /\ WF_vars(ThreadCreate) /\ WF_vars(ThreadCtorWait)
  /\ WF_vars(Tickle) /\ WF_vars(Tick)
  /\ \A t \in Threads : WF_vars(ThreadStep(t))
  /\ \A x \in FiberIds : WF_vars(EventReady(x))
  /\ WF_vars(StopCallRoot) /\ WF_vars(CallerBack) /\ WF_vars(Join)

Spec == Init /\ [][Next]_vars /\ Fairness

-----------------------------------------------------------------------------
(* Properties *)

TypeOK ==
  /\ state \in [FiberIds -> States]
  /\ body \in [FiberIds -> Tasks \cup {None}]
  /\ yields \in [FiberIds -> 0..MaxYields]
  /\ cbAlloc \subseteq CbFibers
  /\ queue \in Seq(FiberIds \cup Callbacks)
  /\ active \in Nat
  /\ tpc \in [Threads -> ThreadPcs]
  /\ task \in [Threads -> FiberIds \cup Callbacks \cup {None}]
  /\ runner \in [Threads -> FiberIds \cup {None}]
  /\ cbFiber \in [Threads -> CbFibers \cup {None}]
  /\ idleState \in [Threads -> States]
  /\ autoStop \in BOOLEAN /\ stopFlag \in BOOLEAN
  /\ waiting \subseteq FiberIds /\ ready \subseteq waiting
  /\ pending \in Nat
  /\ mainPc \in {"starting", "running", "tickling", "stopping", "calling", "joining", "done",
                "aborted"}
  /\ now \in Times /\ armed \subseteq Timers
  /\ deadline \in [Timers -> 0..MaxTime]
  /\ tickled \in BOOLEAN /\ pipe \in BOOLEAN
  /\ idleCount \in 0..Cardinality(Threads)
  /\ waitMs \in [Threads -> Int]
  /\ creating \in Threads \cup {None}
  /\ tid \in [Threads -> Threads \cup {None}]
  /\ sem \in [Threads -> 0..1]
  /\ threadIds \in Seq(Threads \cup {None})
  /\ rootState \in {INIT, EXEC, TERM}
  /\ scheduled \subseteq Tasks /\ finished \subseteq Tasks
  /\ fault \in {None, "swapIn: m_state != EXEC",
                "reset: m_state in TERM, INIT, EXCEPT",
                "addEvent: fiber state == EXEC"}

\* Every id Scheduler::start pushes into m_threadIds is the id of a started
\* thread, never Thread::m_id's initial -1: the constructor returns only
\* after Thread::run has recorded m_id and posted the semaphore.
ThreadIdsKnown ==
  \A i \in 1..Len(threadIds) : threadIds[i] # None

\* Scheduler::start returns: each Thread constructor's wait ends although
\* start() holds m_mutex, which the new threads' run() needs.
StartReturns ==
  mainPc = "starting" ~> mainPc # "starting"

\* A fiber's stack is executed by at most one worker thread at a time: run()
\* must not swap into a fiber another thread is still running, including
\* one that has published HOLD or READY but not yet saved its context.
NoSharedStack ==
  \A t1, t2 \in Threads :
    t1 # t2 /\ runner[t1] # None => runner[t1] # runner[t2]

\* While a worker executes a fiber's code, that fiber's state is EXEC: the
\* post-processing of run() on another thread must not overwrite it (the
\* precondition of the assertion in IOManager::addEvent).
RunningFiberIsExec ==
  \A t \in Threads :
    tpc[t] \in {"running", "registered"} => state[runner[t]] = EXEC

\* A fiber that returned from its body is never resumed again: it only
\* leaves TERM or EXCEPT through Fiber::reset (to INIT).
FinishedStaysFinished ==
  [][\A x \in FiberIds :
       state[x] \in Finished => state'[x] \in Finished \cup {INIT}]_state

\* The join in Scheduler::stop returns only after every task the
\* application scheduled has run to completion: no worker leaves run()
\* while a task is queued, running, or waiting for an event.
NoTaskStranded ==
  mainPc = "done" => scheduled \subseteq finished

\* Every scheduled task eventually completes (spec: N callbacks on T >= 1
\* workers each execute exactly once, eventually).
AllTasksComplete ==
  \A x \in Tasks : x \in scheduled ~> x \in finished

\* Every timer the application adds eventually has its callback run,
\* although nothing wakes an idle thread when a deadline passes: any
\* non-negative epoll_wait timeout elapses and brings it back to
\* listExpiredCb.
TimerFires ==
  \A tm \in Timers : tm \in armed ~> tm \in finished

\* Once stop() is called, every worker eventually leaves run() and stop()
\* returns, including a root fiber's run() entered through call().
StopTerminates ==
  mainPc \in {"stopping", "calling", "joining"} ~> mainPc = "done"

=============================================================================
