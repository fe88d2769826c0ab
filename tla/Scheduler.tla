----------------------------- MODULE Scheduler -----------------------------
(***************************************************************************)
(* The coroutine scheduler (scheduler.hpp/.cpp) with its fibers            *)
(* (fiber.hpp/.cpp) and pool threads (thread.cpp).                         *)
(*                                                                         *)
(* A task is a callback handed to schedule(): it waits in m_fibers, a      *)
(* scheduling thread takes it out in run(), makes a Fiber for it and swaps *)
(* it in.  The running body may schedule other tasks, move itself to       *)
(* another thread (switchTo) or return.  The scheduling threads are the    *)
(* pool threads and, when use_caller is set, the thread that built the     *)
(* scheduler, which runs the loop only inside stop() (m_rootFiber->call). *)
(*                                                                         *)
(* A step is the longest stretch of one thread that other threads see as   *)
(* one: a critical section of m_mutex, or one access to an atomic or to a  *)
(* fiber's m_state.  The virtual functions tickle, stopping and idle have  *)
(* here the behaviour of the base class; IOManager overrides them.         *)
(***************************************************************************)
EXTENDS Naturals, Sequences, FiniteSets

CONSTANTS
  Workers,      \* the pool threads m_threads
  Caller,       \* the thread that constructs, starts and stops the scheduler
  UseCaller,    \* constructor argument use_caller
  Tasks,        \* the callbacks the program ever schedules
  PinTargets,   \* threads that schedule() is ever given as its second argument
  MaxHops,      \* bound on the switchTo calls of one task
  NoTask,       \* an empty FiberAndThread
  AnyThread     \* threadID -1

(***************************************************************************)
(* The threads that execute run().                                         *)
(***************************************************************************)
Threads == Workers \cup (IF UseCaller THEN {Caller} ELSE {})

ASSUME SchedulerAssumption ==
  /\ IsFiniteSet(Workers)
  /\ UseCaller \in BOOLEAN
  /\ Caller \notin Workers
  /\ Threads # {}                   \* YXTWebCpp_ASSERT(threads > 0)
  /\ PinTargets \subseteq Threads
  /\ AnyThread \notin Threads
  /\ NoTask \notin Tasks
  /\ MaxHops \in Nat

VARIABLES
  m_fibers,            \* the queue of [task, threadID]
  m_stopping,
  m_activeThreadCount,
  m_idleThreadCount,
  m_state,             \* per task, m_state of its Fiber; "NONE" before it has one
  idle_state,          \* per thread, m_state of its idle_fiber
  ft,                  \* per thread, the FiberAndThread in hand in run()
  pc,                  \* per thread, its place in run()
  main,                \* place of the owner in constructor, start(), stop()
  hops                 \* per task, switchTo calls made so far (bounded by MaxHops)

vars == <<m_fibers, m_stopping, m_activeThreadCount, m_idleThreadCount,
          m_state, idle_state, ft, pc, main, hops>>

queueVars == <<m_fibers, m_stopping, m_activeThreadCount, m_idleThreadCount>>
fiberVars == <<m_state, idle_state, hops>>

FiberState == {"NONE", "INIT", "EXEC", "HOLD", "TERM"}

(***************************************************************************)
(* Where a scheduling thread is.  "off": not in run().  "fetch": about to  *)
(* lock the queue.  "tickle": about to call tickle().  "dispatch": about   *)
(* to look at ft.  "exec": inside the task.  "yield": inside YieldToHold,  *)
(* before m_state = HOLD.  "swapout": before swapcontext.  "back": returned*)
(* from swapIn of a task.  "loop": about to look at the idle fiber.        *)
(* "idle": inside idle().  "unidle": returned from it.  "done": run() left.*)
(* "aborted": the assertion of swapIn failed.  "wrecked": the thread       *)
(* resumed a context that was not saved yet, on a stack still in use.      *)
(***************************************************************************)
ThreadPC == {"off", "fetch", "tickle", "dispatch", "exec", "yield", "swapout",
             "back", "loop", "idle", "unidle", "done", "aborted", "wrecked"}

\* The process has not died of either.
Alive == \A t \in Threads : pc[t] \notin {"aborted", "wrecked"}

MainPC == {"setup", "started", "stopping", "draining", "calling", "joining",
           "returned"}

Entry == [task : Tasks, threadID : Threads \cup {AnyThread}]

TypeOK ==
  /\ m_fibers \in Seq(Entry)
  /\ m_stopping \in BOOLEAN
  /\ m_activeThreadCount \in Nat
  /\ m_idleThreadCount \in Nat
  /\ m_state \in [Tasks -> FiberState]
  /\ idle_state \in [Threads -> FiberState]
  /\ ft \in [Threads -> Tasks \cup {NoTask}]
  /\ pc \in [Threads -> ThreadPC]
  /\ main \in MainPC
  /\ hops \in [Tasks -> 0..MaxHops]

Goto(t, to) == pc' = [pc EXCEPT ![t] = to]

-----------------------------------------------------------------------------
(***************************************************************************)
(* The queue.                                                              *)
(***************************************************************************)

\* A task that was handed to schedule() and not yet run to its end is in the
\* queue, in a thread's hand, or has a Fiber.
Fresh(k) ==
  /\ m_state[k] = "NONE"
  /\ \A i \in DOMAIN m_fibers : m_fibers[i].task # k
  /\ \A t \in Threads : ft[t] # k

\* scheduleNoLock with a callback or a fiber: never empty, so always pushed.
Enqueue(k, thread) ==
  m_fibers' = Append(m_fibers, [task |-> k, threadID |-> thread])

\* Faulty variant: the test for threadID -1 is missing.
Eligible_PinnedOnly(e, t) == e.threadID = t

Eligible(e, t) == e.threadID \in {AnyThread, t}

\* The entry run() stops its scan at.
IsFirstEligible(i, t) ==
  /\ Eligible(m_fibers[i], t)
  /\ \A j \in 1..(i - 1) : ~Eligible(m_fibers[j], t)

\* m_fibers.erase(it)
Erase(s, i) ==
  [j \in 1..(Len(s) - 1) |-> IF j < i THEN s[j] ELSE s[j + 1]]

\* Faulty variants: running tasks, or queued ones, are overlooked.
Stopping_NoActive == m_stopping /\ m_fibers = <<>>
Stopping_NoQueue == m_stopping /\ m_activeThreadCount = 0

\* Scheduler::stopping(), evaluated under m_mutex.
Stopping ==
  /\ m_stopping
  /\ m_fibers = <<>>
  /\ m_activeThreadCount = 0

-----------------------------------------------------------------------------
(***************************************************************************)
(* The owner: schedules tasks, start()s, stop()s.                          *)
(***************************************************************************)

Init ==
  /\ m_fibers = <<>>
  /\ m_stopping = TRUE
  /\ m_activeThreadCount = 0
  /\ m_idleThreadCount = 0
  /\ m_state = [k \in Tasks |-> "NONE"]
  /\ idle_state = [t \in Threads |-> "NONE"]
  /\ ft = [t \in Threads |-> NoTask]
  /\ pc = [t \in Threads |-> "off"]
  /\ main = "setup"
  /\ hops = [k \in Tasks |-> 0]

MainSchedule(k, thread) ==
  /\ main \in {"setup", "started"}
  /\ Fresh(k)
  /\ Enqueue(k, thread)
  /\ UNCHANGED <<m_stopping, m_activeThreadCount, m_idleThreadCount, fiberVars,
                 ft, pc, main>>

\* start() holds m_mutex throughout, so no new thread fetches before it ends.
\* Every thread's run() begins by making its idle fiber.
Start ==
  /\ main = "setup"
  /\ m_stopping' = FALSE
  /\ pc' = [t \in Threads |-> IF t \in Workers THEN "fetch" ELSE pc[t]]
  /\ idle_state' = [t \in Threads |-> IF t \in Workers THEN "INIT" ELSE idle_state[t]]
  /\ main' = "started"
  /\ UNCHANGED <<m_fibers, m_activeThreadCount, m_idleThreadCount, m_state, hops, ft>>

\* stop(): m_stopping is set without the mutex.
StopRequest ==
  /\ main = "started"
  /\ m_stopping' = TRUE
  /\ main' = "stopping"
  /\ UNCHANGED <<m_fibers, m_activeThreadCount, m_idleThreadCount, fiberVars, ft, pc>>

\* The first stopping(): when it holds stop() returns at once, else it tickles.
StopCheck ==
  /\ main = "stopping"
  /\ main' = IF Stopping THEN "returned" ELSE "draining"
  /\ UNCHANGED <<queueVars, fiberVars, ft, pc>>

\* Faulty variant: the root fiber is not run.
StopCall_NoRoot ==
  /\ main = "draining"
  /\ main' = "joining"
  /\ UNCHANGED <<queueVars, fiberVars, ft, pc>>

\* if (m_rootFiber && !stopping()) m_rootFiber->call();
StopCall ==
  /\ main = "draining"
  /\ IF UseCaller /\ ~Stopping
       THEN /\ main' = "calling"
            /\ Goto(Caller, "fetch")
            /\ idle_state' = [idle_state EXCEPT ![Caller] = "INIT"]
       ELSE /\ main' = "joining"
            /\ UNCHANGED <<pc, idle_state>>
  /\ UNCHANGED <<queueVars, m_state, hops, ft>>

\* The root fiber's run() ended and switched back to the owner's own context.
StopCallReturn ==
  /\ main = "calling"
  /\ pc[Caller] = "done"
  /\ main' = "joining"
  /\ UNCHANGED <<queueVars, fiberVars, ft, pc>>

StopJoin ==
  /\ main = "joining"
  /\ \A w \in Workers : pc[w] = "done"
  /\ main' = "returned"
  /\ UNCHANGED <<queueVars, fiberVars, ft, pc>>

Owner ==
  \/ \E k \in Tasks, thread \in PinTargets \cup {AnyThread} : MainSchedule(k, thread)
  \/ Start
  \/ StopRequest
  \/ StopCheck
  \/ StopCall
  \/ StopCallReturn
  \/ StopJoin

-----------------------------------------------------------------------------
(***************************************************************************)
(* run() on thread t.                                                      *)
(***************************************************************************)

\* Faulty variant: the entry stays in the queue.
FetchTask_NoErase(t) ==
  /\ pc[t] = "fetch"
  /\ \E i \in DOMAIN m_fibers :
       /\ IsFirstEligible(i, t)
       /\ ft' = [ft EXCEPT ![t] = m_fibers[i].task]
       /\ Goto(t, IF Len(m_fibers) > 1 THEN "tickle" ELSE "dispatch")
  /\ m_activeThreadCount' = m_activeThreadCount + 1
  /\ UNCHANGED <<m_fibers, m_stopping, m_idleThreadCount, fiberVars, main>>

\* Faulty variant: the thread is not counted active.
FetchTask_NoCount(t) ==
  /\ pc[t] = "fetch"
  /\ \E i \in DOMAIN m_fibers :
       /\ IsFirstEligible(i, t)
       /\ ft' = [ft EXCEPT ![t] = m_fibers[i].task]
       /\ m_fibers' = Erase(m_fibers, i)
       /\ Goto(t, IF Len(m_fibers) > 1 THEN "tickle" ELSE "dispatch")
  /\ UNCHANGED <<m_stopping, m_activeThreadCount, m_idleThreadCount, fiberVars, main>>

\* The critical section of the loop: scan, take the first task this thread may
\* run and count the thread active.  tickle_me: something else is queued.
FetchTask(t) ==
  /\ pc[t] = "fetch"
  /\ \E i \in DOMAIN m_fibers :
       /\ IsFirstEligible(i, t)
       /\ ft' = [ft EXCEPT ![t] = m_fibers[i].task]
       /\ m_fibers' = Erase(m_fibers, i)
       /\ Goto(t, IF Len(m_fibers) > 1 THEN "tickle" ELSE "dispatch")
  /\ m_activeThreadCount' = m_activeThreadCount + 1
  /\ UNCHANGED <<m_stopping, m_idleThreadCount, fiberVars, main>>

\* Faulty variant: ++m_activeThreadCount after the scan, whatever it found.
FetchNone_Counted(t) ==
  /\ pc[t] = "fetch"
  /\ \A i \in DOMAIN m_fibers : ~Eligible(m_fibers[i], t)
  /\ m_activeThreadCount' = m_activeThreadCount + 1
  /\ Goto(t, IF m_fibers # <<>> THEN "tickle" ELSE "dispatch")
  /\ UNCHANGED <<m_fibers, m_stopping, m_idleThreadCount, fiberVars, ft, main>>

FetchNone(t) ==
  /\ pc[t] = "fetch"
  /\ \A i \in DOMAIN m_fibers : ~Eligible(m_fibers[i], t)
  /\ Goto(t, IF m_fibers # <<>> THEN "tickle" ELSE "dispatch")
  /\ UNCHANGED <<queueVars, fiberVars, ft, main>>

\* Scheduler::tickle() only writes a log line.
Tickle(t) ==
  /\ pc[t] = "tickle"
  /\ Goto(t, "dispatch")
  /\ UNCHANGED <<queueVars, fiberVars, ft, main>>

\* Another thread still executes on the stack of fiber k.
StackInUse(k) ==
  \E u \in Threads : ft[u] = k /\ pc[u] \in {"exec", "yield", "swapout"}

\* swapIn of the fiber in hand, or of the Fiber made for the callback in hand:
\* YXTWebCpp_ASSERT(m_state != EXEC), m_state = EXEC, swapcontext.  Of the
\* undefined outcomes of resuming a context that its thread has not saved yet
\* the model keeps one, the end of the process.
SwapIn(t) ==
  /\ pc[t] = "dispatch"
  /\ ft[t] # NoTask
  /\ IF m_state[ft[t]] = "EXEC"
       THEN Goto(t, "aborted") /\ UNCHANGED m_state
       ELSE /\ Goto(t, IF StackInUse(ft[t]) THEN "wrecked" ELSE "exec")
            /\ m_state' = [m_state EXCEPT ![ft[t]] = "EXEC"]
  /\ UNCHANGED <<queueVars, idle_state, hops, ft, main>>

DispatchNone(t) ==
  /\ pc[t] = "dispatch"
  /\ ft[t] = NoTask
  /\ Goto(t, "loop")
  /\ UNCHANGED <<queueVars, fiberVars, ft, main>>

\* --m_activeThreadCount after swapIn returns; ft.reset() at the next turn.
TaskReturned(t) ==
  /\ pc[t] = "back"
  /\ m_activeThreadCount' = m_activeThreadCount - 1
  /\ ft' = [ft EXCEPT ![t] = NoTask]
  /\ Goto(t, "loop")
  /\ UNCHANGED <<m_fibers, m_stopping, m_idleThreadCount, fiberVars, main>>

EnterIdle(t) ==
  /\ pc[t] = "loop"
  /\ idle_state[t] # "TERM"
  /\ m_idleThreadCount' = m_idleThreadCount + 1
  /\ idle_state' = [idle_state EXCEPT ![t] = "EXEC"]
  /\ Goto(t, "idle")
  /\ UNCHANGED <<m_fibers, m_stopping, m_activeThreadCount, m_state, hops, ft, main>>

LeaveRun(t) ==
  /\ pc[t] = "loop"
  /\ idle_state[t] = "TERM"
  /\ Goto(t, "done")
  /\ UNCHANGED <<queueVars, fiberVars, ft, main>>

\* Faulty variant: idle() never returns.
Idle_Forever(t) ==
  /\ pc[t] = "idle"
  /\ idle_state' = [idle_state EXCEPT ![t] = "HOLD"]
  /\ Goto(t, "unidle")
  /\ UNCHANGED <<queueVars, m_state, hops, ft, main>>

\* Scheduler::idle(): yields as long as stopping() is false, then returns.
Idle(t) ==
  /\ pc[t] = "idle"
  /\ idle_state' = [idle_state EXCEPT ![t] = IF Stopping THEN "TERM" ELSE "HOLD"]
  /\ Goto(t, "unidle")
  /\ UNCHANGED <<queueVars, m_state, hops, ft, main>>

IdleReturned(t) ==
  /\ pc[t] = "unidle"
  /\ m_idleThreadCount' = m_idleThreadCount - 1
  /\ Goto(t, "fetch")
  /\ UNCHANGED <<m_fibers, m_stopping, m_activeThreadCount, fiberVars, ft, main>>

-----------------------------------------------------------------------------
(***************************************************************************)
(* The body of the task that thread t runs.                                *)
(***************************************************************************)

BodySchedule(t, k, thread) ==
  /\ pc[t] = "exec"
  /\ Fresh(k)
  /\ Enqueue(k, thread)
  /\ UNCHANGED <<m_stopping, m_activeThreadCount, m_idleThreadCount, fiberVars,
                 ft, pc, main>>

\* switchTo(thread) for another thread of this scheduler: the running fiber is
\* queued first and suspended afterwards.  (For t itself switchTo returns.)
BodySwitchTo(t, thread) ==
  /\ pc[t] = "exec"
  /\ thread # t
  /\ hops[ft[t]] < MaxHops
  /\ hops' = [hops EXCEPT ![ft[t]] = @ + 1]
  /\ Enqueue(ft[t], thread)
  /\ Goto(t, "yield")
  /\ UNCHANGED <<m_stopping, m_activeThreadCount, m_idleThreadCount, m_state,
                 idle_state, ft, main>>

\* YieldToHold: cur->m_state = HOLD ...
YieldToHold(t) ==
  /\ pc[t] = "yield"
  /\ m_state' = [m_state EXCEPT ![ft[t]] = "HOLD"]
  /\ Goto(t, "swapout")
  /\ UNCHANGED <<queueVars, idle_state, hops, ft, main>>

\* ... and then swapOut saves the context and leaves the fiber.
SwapOut(t) ==
  /\ pc[t] = "swapout"
  /\ Goto(t, "back")
  /\ UNCHANGED <<queueVars, fiberVars, ft, main>>

\* The callback returns: FunHelper sets TERM and MainFunc swaps out.
BodyReturn(t) ==
  /\ pc[t] = "exec"
  /\ m_state' = [m_state EXCEPT ![ft[t]] = "TERM"]
  /\ Goto(t, "back")
  /\ UNCHANGED <<queueVars, idle_state, hops, ft, main>>

\* The steps of run() a thread always takes when it can.
RunLoop(t) ==
  \/ FetchTask(t)
  \/ FetchNone(t)
  \/ Tickle(t)
  \/ SwapIn(t)
  \/ DispatchNone(t)
  \/ TaskReturned(t)
  \/ EnterIdle(t)
  \/ LeaveRun(t)
  \/ Idle(t)
  \/ IdleReturned(t)
  \/ YieldToHold(t)
  \/ SwapOut(t)

Body(t) ==
  \/ \E k \in Tasks, thread \in PinTargets \cup {AnyThread} : BodySchedule(t, k, thread)
  \/ \E thread \in Threads : BodySwitchTo(t, thread)
  \/ BodyReturn(t)

\* The process after stop() returned and every thread ended, or after a crash.
Terminated ==
  /\ \/ main = "returned" /\ \A w \in Workers : pc[w] = "done"
     \/ ~Alive
  /\ UNCHANGED vars

Next ==
  \/ Alive /\ Owner
  \/ Alive /\ \E t \in Threads : RunLoop(t) \/ Body(t)
  \/ Terminated

Spec == Init /\ [][Next]_vars

(***************************************************************************)
(* Threads are scheduled by the kernel and bodies return; the owner goes   *)
(* through stop() once it called it, but need not call start() or stop().  *)
(* A process that died takes no step and owes none, so the fairness, like  *)
(* Next, is about the living one; what it leaves undone when it dies is    *)
(* excused in each property, not assumed away.                             *)
(***************************************************************************)
Fairness ==
  /\ WF_vars(Alive /\ StopCheck) /\ WF_vars(Alive /\ StopCall)
  /\ WF_vars(Alive /\ StopCallReturn) /\ WF_vars(Alive /\ StopJoin)
  /\ \A t \in Threads : WF_vars(Alive /\ RunLoop(t)) /\ WF_vars(Alive /\ Body(t))

FairSpec == Spec /\ Fairness

-----------------------------------------------------------------------------
(***************************************************************************)
(* Properties.                                                             *)
(***************************************************************************)

\* No thread ever swaps in a fiber that another thread has not left: neither
\* does the assertion of Fiber::swapIn fail nor is an unsaved context resumed.
SwapInSafe == Alive

\* The assertion of Fiber::swapIn never fails: a fiber in the queue is not in
\* state EXEC when a thread resumes it.
SwapInAssertion == \A t \in Threads : pc[t] # "aborted"

\* m_activeThreadCount, which is decremented outside the mutex, always counts
\* exactly the threads with a task in hand, so stopping() cannot overlook one.
ActiveCountExact ==
  m_activeThreadCount = Cardinality({t \in Threads : ft[t] # NoTask})

\* m_idleThreadCount counts exactly the threads inside their idle fiber; the
\* tickle of IOManager relies on it (hasIdleThreads).
IdleCountExact ==
  m_idleThreadCount = Cardinality({t \in Threads : pc[t] \in {"idle", "unidle"}})

\* When stop() has returned nothing scheduled is left: every task that was
\* handed to schedule(), before or during stop(), ran to its end, and no thread
\* still has one in hand.
StopDrains ==
  main = "returned" =>
    /\ m_fibers = <<>>
    /\ \A t \in Threads : ft[t] = NoTask
    /\ \A k \in Tasks : m_state[k] \in {"NONE", "TERM"}

\* Once stop() was called and stopping() holds it holds for ever: the threads
\* that see it and leave run() leave no work behind that another one makes.
QuiescenceStable ==
  [][main \notin {"setup", "started"} /\ Stopping => Stopping']_vars

\* A thread leaves run() only when there is nothing left to do for any thread.
LeaveOnlyWhenQuiescent ==
  \A t \in Threads : pc[t] = "done" => Stopping

\* Every task handed to schedule(), pinned or not, runs to its end once stop()
\* is called, unless the process dies in swapIn: run() polls, so neither a
\* missed tickle nor a pin to the caller, which joins the loop only inside
\* stop(), strands it.
TaskEventuallyRuns ==
  \A k \in Tasks :
    (~Fresh(k) /\ main \notin {"setup", "started"}) ~> (m_state[k] = "TERM" \/ ~Alive)

\* stop() returns, unless the process dies in swapIn.
StopReturns == main = "stopping" ~> (main = "returned" \/ ~Alive)

\* stop() waits for the pool: when it has returned every pool thread ended
\* (the join loop of Scheduler::stop and its comment).
StopJoinsPool ==
  main = "returned" => \A w \in Workers : pc[w] = "done"

\* A thread that finished a task switches to its idle fiber only if the queue
\* has nothing for it.
IdleOnlyWhenEmpty ==
  [][\A t \in Threads :
       pc[t] = "back" /\ pc'[t] = "loop"
         => \A i \in DOMAIN m_fibers : ~Eligible(m_fibers[i], t)]_vars

-----------------------------------------------------------------------------
(***************************************************************************)
(* The scheduler implements TaskPool.                                      *)
(***************************************************************************)

statusOf ==
  [k \in Tasks |-> IF m_state[k] = "TERM" THEN "done"
                   ELSE IF Fresh(k) THEN "new" ELSE "pending"]

phaseOf ==
  IF main \in {"setup", "started"} THEN "open"
  ELSE IF main = "returned" THEN "closed" ELSE "closing"

TP == INSTANCE TaskPool WITH status <- statusOf, phase <- phaseOf

\* Queue, counters, polling threads and stop() together behave like TaskPool:
\* in particular stop() returns only when nothing is pending, and nothing
\* becomes pending once stopping() held.
ImplementsTaskPool == TP!Spec

\* With fair threads the scheduler also has the fairness of TaskPool: every
\* pending task is finished and the pool is closed, in every run in which the
\* process does not die in swapIn.
ImplementsFairTaskPool == []Alive => TP!Fairness
=============================================================================
