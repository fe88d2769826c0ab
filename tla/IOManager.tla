----------------------------- MODULE IOManager -----------------------------
(***************************************************************************)
(* IOManager (iomanager.hpp/.cpp) as a scheduler: what it puts in the      *)
(* place of tickle(), stopping() and idle() of Scheduler, and how timers   *)
(* and file descriptor events become tasks.  run(), the queue and the      *)
(* counters are those of module Scheduler.                                 *)
(*                                                                         *)
(* A callback given to addTimer or addEvent is a member of Tasks.  Time is *)
(* not modelled: an armed timer may expire at any moment, an event may     *)
(* become ready at any moment, and epoll_wait may run into its timeout,    *)
(* which is at most MAX_TIMEOUT.  TimerManager models the timers with      *)
(* their clock, FdEvents the registration of events.                       *)
(***************************************************************************)
EXTENDS Scheduler

CONSTANTS
  Arming,   \* the callbacks that themselves call addTimer or addEvent
  FdOf      \* per callback, the fd it is registered for; one event per fd is used

ASSUME ArmingAssumption == Arming \subseteq Tasks

Fds == {FdOf[k] : k \in Tasks}

VARIABLES
  m_timers,             \* callbacks of the armed timers
  registered,           \* callbacks of the registered events
  m_pendingEventCount,
  pipe,                 \* the tickle pipe has an edge no epoll_wait has reported
  tickling,             \* threads about to call tickle()
  iopc,                 \* per thread, its place in IOManager::idle()
  cbs,                  \* per thread, the expired callbacks in hand
  events,               \* per thread, the fds epoll_wait reported to it and it
                        \* has not looked at yet
  ticked,               \* the threads to which epoll_wait reported the pipe
  check                 \* place of the owner in the stopping() that stop() calls

ioVars == <<m_timers, registered, m_pendingEventCount, pipe, tickling, iopc,
            cbs, events, ticked, check>>
allVars == <<vars, ioVars>>

\* "none": not in idle(), or before its first read, getNextTimer().  "pending",
\* "sched": before the other two reads of stopping(timeout).  "epoll": in
\* epoll_wait.  "list": before listExpiredCb.  "cbs": before schedule(cbs).
\* "events": in the loop over the reported events.  "count": before
\* --m_pendingEventCount.
IdlePC == {"none", "pending", "sched", "epoll", "list", "cbs", "events", "count"}

IOTypeOK ==
  /\ TypeOK
  /\ m_timers \subseteq Tasks
  /\ registered \subseteq Tasks
  /\ m_pendingEventCount \in Nat
  /\ pipe \in BOOLEAN
  /\ tickling \subseteq Threads \cup {Caller}
  /\ iopc \in [Threads -> IdlePC]
  /\ cbs \in [Threads -> SUBSET Tasks]
  /\ events \in [Threads -> SUBSET Fds]
  /\ ticked \subseteq Threads
  /\ check \in {"timer", "pending", "sched"}

IOInit ==
  /\ Init
  /\ m_timers = {}
  /\ registered = {}
  /\ m_pendingEventCount = 0
  /\ pipe = FALSE
  /\ tickling = {}
  /\ iopc = [t \in Threads |-> "none"]
  /\ cbs = [t \in Threads |-> {}]
  /\ events = [t \in Threads |-> {}]
  /\ ticked = {}
  /\ check = "timer"

\* A callback the program has not used yet.
Unused(k) ==
  /\ Fresh(k)
  /\ k \notin m_timers \cup registered
  /\ \A t \in Threads : k \notin cbs[t]

\* fdContext->events and the callback in it.
RegisteredAt(fd) == {k \in registered : FdOf[k] = fd}

At(t, to) == iopc' = [iopc EXCEPT ![t] = to]

-----------------------------------------------------------------------------
(***************************************************************************)
(* tickle() and the calls that end in it.                                  *)
(***************************************************************************)

\* if (!hasIdleThreads()) return; write(m_tickleFds[1], "T", 1);
WritePipe == pipe' = (pipe \/ m_idleThreadCount > 0)

\* need_tickle of scheduleNoLock: the queue was empty.
NeedTickle(x) ==
  tickling' = IF m_fibers = <<>> THEN tickling \cup {x} ELSE tickling

\* tickle() at the end of schedule() and of addTimer.
IOTickle(x) ==
  /\ x \in tickling
  /\ WritePipe
  /\ tickling' = tickling \ {x}
  /\ UNCHANGED <<vars, m_timers, registered, m_pendingEventCount, iopc, cbs,
                 events, ticked, check>>

\* tickle() inside run().
RunTickle(t) ==
  /\ Tickle(t)
  /\ WritePipe
  /\ UNCHANGED <<m_timers, registered, m_pendingEventCount, tickling, iopc, cbs,
                 events, ticked, check>>

-----------------------------------------------------------------------------
(***************************************************************************)
(* The owner and the bodies of tasks.                                      *)
(***************************************************************************)

\* The constructor of IOManager ends with start().
IOStart == Start /\ UNCHANGED ioVars

OwnerSchedule(k, thread) ==
  /\ main = "started"
  /\ Caller \notin tickling
  /\ Unused(k)
  /\ MainSchedule(k, thread)
  /\ NeedTickle(Caller)
  /\ UNCHANGED <<m_timers, registered, m_pendingEventCount, pipe, iopc, cbs,
                 events, ticked, check>>

TaskSchedule(t, k, thread) ==
  /\ t \notin tickling
  /\ Unused(k)
  /\ BodySchedule(t, k, thread)
  /\ NeedTickle(t)
  /\ UNCHANGED <<m_timers, registered, m_pendingEventCount, pipe, iopc, cbs,
                 events, ticked, check>>

\* addTimer; it tickles when the new timer is the first one.
ArmTimer(x, k) ==
  /\ x \notin tickling
  /\ Unused(k)
  /\ m_timers' = m_timers \cup {k}
  /\ \/ tickling' = tickling \cup {x}
     \/ m_timers # {} /\ UNCHANGED tickling
  /\ UNCHANGED <<vars, registered, m_pendingEventCount, pipe, iopc, cbs, events,
                 ticked, check>>

OwnerAddTimer(k) == main = "started" /\ ArmTimer(Caller, k)

TaskAddTimer(t, k) ==
  /\ pc[t] = "exec"
  /\ ft[t] \in Arming
  /\ ArmTimer(t, k)

\* addEvent(fd, event, cb), for an fd and event not in use now; it may have been
\* before, and a report of that time may still be in a thread's hands.  The event
\* belongs to the scheduler of the calling thread, so the owner needs use_caller.
RegisterEvent(x, k) ==
  /\ x \notin tickling
  /\ Unused(k)
  /\ RegisteredAt(FdOf[k]) = {}
  /\ registered' = registered \cup {k}
  /\ m_pendingEventCount' = m_pendingEventCount + 1
  /\ UNCHANGED <<vars, m_timers, pipe, tickling, iopc, cbs, events, ticked, check>>

OwnerAddEvent(k) == main = "started" /\ UseCaller /\ RegisterEvent(Caller, k)

TaskAddEvent(t, k) ==
  /\ pc[t] = "exec"
  /\ ft[t] \in Arming
  /\ RegisterEvent(t, k)

TaskReturn(t) ==
  /\ t \notin tickling
  /\ BodyReturn(t)
  /\ UNCHANGED ioVars

-----------------------------------------------------------------------------
(***************************************************************************)
(* stop().  stopping() is three reads, each of which may end it.           *)
(***************************************************************************)

IOStopRequest ==
  /\ Caller \notin tickling
  /\ StopRequest
  /\ UNCHANGED ioVars

\* timeout = getNextTimer(); timeout == ~0uLL && m_pendingEventCount == 0
StopCheckPassed ==
  /\ \/ main = "stopping"
     \/ main = "draining" /\ UseCaller /\ Caller \notin tickling
  /\ \/ check = "timer" /\ m_timers = {} /\ check' = "pending"
     \/ check = "pending" /\ m_pendingEventCount = 0 /\ check' = "sched"
  /\ UNCHANGED <<vars, m_timers, registered, m_pendingEventCount, pipe, tickling,
                 iopc, cbs, events, ticked>>

\* The answer of stopping(): the last read was true, or one was false.
StoppingTrue == check = "sched" /\ Stopping

StoppingFalse ==
  \/ check = "timer" /\ m_timers # {}
  \/ check = "pending" /\ m_pendingEventCount # 0
  \/ check = "sched" /\ ~Stopping

\* if (stopping()) return; else tickle() once per pool thread.
StopFirst ==
  /\ main = "stopping"
  /\ \/ StoppingTrue /\ main' = "returned" /\ UNCHANGED tickling
     \/ /\ StoppingFalse /\ main' = "draining"
        /\ tickling' = IF Workers = {} THEN tickling ELSE tickling \cup {Caller}
  /\ check' = "timer"
  /\ UNCHANGED <<queueVars, fiberVars, ft, pc, m_timers, registered,
                 m_pendingEventCount, pipe, iopc, cbs, events, ticked>>

\* if (m_rootFiber && !stopping()) m_rootFiber->call();
StopSecond ==
  /\ main = "draining"
  /\ Caller \notin tickling
  /\ \/ /\ UseCaller /\ StoppingFalse
        /\ main' = "calling"
        /\ Goto(Caller, "fetch")
        /\ idle_state' = [idle_state EXCEPT ![Caller] = "INIT"]
     \/ /\ UseCaller => StoppingTrue
        /\ main' = "joining"
        /\ UNCHANGED <<pc, idle_state>>
  /\ check' = "timer"
  /\ UNCHANGED <<queueVars, m_state, hops, ft, m_timers, registered,
                 m_pendingEventCount, pipe, tickling, iopc, cbs, events, ticked>>

IOStopCallReturn == StopCallReturn /\ UNCHANGED ioVars

IOStopJoin == StopJoin /\ UNCHANGED ioVars

-----------------------------------------------------------------------------
(***************************************************************************)
(* idle().                                                                 *)
(***************************************************************************)

InIdle(t, where) == pc[t] = "idle" /\ iopc[t] = where /\ t \notin tickling

\* Steps of idle() that leave the Scheduler's own state alone.
IdleOnly == UNCHANGED vars

\* Faulty variant: stopping() does not look at the timers.
CheckTimer_Skip(t) ==
  /\ InIdle(t, "none")
  /\ At(t, "pending")
  /\ IdleOnly
  /\ UNCHANGED <<m_timers, registered, m_pendingEventCount, pipe, tickling, cbs,
                 events, ticked, check>>

\* stopping(next_timeout): no timer ...
CheckTimer(t) ==
  /\ InIdle(t, "none")
  /\ At(t, IF m_timers = {} THEN "pending" ELSE "epoll")
  /\ IdleOnly
  /\ UNCHANGED <<m_timers, registered, m_pendingEventCount, pipe, tickling, cbs,
                 events, ticked, check>>

\* ... no event ...
CheckPending(t) ==
  /\ InIdle(t, "pending")
  /\ At(t, IF m_pendingEventCount = 0 THEN "sched" ELSE "epoll")
  /\ IdleOnly
  /\ UNCHANGED <<m_timers, registered, m_pendingEventCount, pipe, tickling, cbs,
                 events, ticked, check>>

\* Faulty variant: waits until no thread is idle, the thread itself included.
CheckSched_NoIdle(t) ==
  /\ InIdle(t, "sched")
  /\ IF Stopping /\ m_idleThreadCount = 0
       THEN /\ idle_state' = [idle_state EXCEPT ![t] = "TERM"]
            /\ Goto(t, "unidle")
            /\ At(t, "none")
            /\ UNCHANGED <<queueVars, m_state, hops, ft, main>>
       ELSE At(t, "epoll") /\ IdleOnly
  /\ UNCHANGED <<m_timers, registered, m_pendingEventCount, pipe, tickling, cbs,
                 events, ticked, check>>

\* ... and Scheduler::stopping(): then idle() returns.
CheckSched(t) ==
  /\ InIdle(t, "sched")
  /\ IF Stopping
       THEN /\ idle_state' = [idle_state EXCEPT ![t] = "TERM"]
            /\ Goto(t, "unidle")
            /\ At(t, "none")
            /\ UNCHANGED <<queueVars, m_state, hops, ft, main>>
       ELSE At(t, "epoll") /\ IdleOnly
  /\ UNCHANGED <<m_timers, registered, m_pendingEventCount, pipe, tickling, cbs,
                 events, ticked, check>>

\* epoll_wait returns: at its timeout, or with the pipe and some ready fds.  A
\* registration has EPOLLET but not EPOLLONESHOT: until its event is deleted a
\* second edge of the same fd is reported to a second thread.
EpollWait(t) ==
  /\ InIdle(t, "epoll")
  /\ \E ready \in SUBSET {FdOf[k] : k \in registered} :
       events' = [events EXCEPT ![t] = ready]
  /\ ticked' = IF pipe THEN ticked \cup {t} ELSE ticked
  /\ pipe' = FALSE
  /\ At(t, "list")
  /\ IdleOnly
  /\ UNCHANGED <<m_timers, registered, m_pendingEventCount, tickling, cbs, check>>

\* listExpiredCb(cbs): takes the expired timers out of the set.
ListExpired(t) ==
  /\ InIdle(t, "list")
  /\ \E expired \in SUBSET m_timers :
       /\ m_timers' = m_timers \ expired
       /\ cbs' = [cbs EXCEPT ![t] = expired]
       /\ At(t, IF expired = {} THEN "events" ELSE "cbs")
  /\ IdleOnly
  /\ UNCHANGED <<registered, m_pendingEventCount, pipe, tickling, events, ticked, check>>

\* Faulty variant: cbs.clear() without schedule().
ScheduleCbs_Forget(t) ==
  /\ InIdle(t, "cbs")
  /\ cbs' = [cbs EXCEPT ![t] = {}]
  /\ At(t, "events")
  /\ IdleOnly
  /\ UNCHANGED <<m_timers, registered, m_pendingEventCount, pipe, tickling, events,
                 ticked, check>>

\* schedule(cbs.begin(), cbs.end()): all of them under one lock.
ScheduleCbs(t) ==
  /\ InIdle(t, "cbs")
  /\ \E order \in [1..Cardinality(cbs[t]) -> cbs[t]] :
       /\ \A k \in cbs[t] : \E i \in DOMAIN order : order[i] = k
       /\ m_fibers' = m_fibers \o
            [i \in DOMAIN order |-> [task |-> order[i], threadID |-> AnyThread]]
  /\ NeedTickle(t)
  /\ cbs' = [cbs EXCEPT ![t] = {}]
  /\ At(t, "events")
  /\ UNCHANGED <<m_stopping, m_activeThreadCount, m_idleThreadCount, fiberVars, ft,
                 pc, main, m_timers, registered, m_pendingEventCount, pipe, events,
                 ticked, check>>

\* Faulty variant: without the re-check below a stale report is handled like a fresh one;
\* schedule() ignores the empty callback.
SkipEvent_Count(t, fd) ==
  /\ InIdle(t, "events")
  /\ fd \in events[t]
  /\ RegisteredAt(fd) = {}
  /\ events' = [events EXCEPT ![t] = @ \ {fd}]
  /\ At(t, "count")
  /\ IdleOnly
  /\ UNCHANGED <<m_timers, registered, m_pendingEventCount, pipe, tickling, cbs,
                 ticked, check>>

\* Under fdContext->mutex: if (!(fdContext->events & real_events)) continue;
\* Another thread had the same report and was first.
SkipEvent(t, fd) ==
  /\ InIdle(t, "events")
  /\ fd \in events[t]
  /\ RegisteredAt(fd) = {}
  /\ events' = [events EXCEPT ![t] = @ \ {fd}]
  /\ IdleOnly
  /\ UNCHANGED <<m_timers, registered, m_pendingEventCount, pipe, tickling, iopc, cbs,
                 ticked, check>>

\* Otherwise the event is removed from fdContext->events and epoll, and
\* triggerEvent schedules its callback: the one registered now, which need not
\* be the one that was registered when epoll_wait returned ...
TriggerEvent(t, fd) ==
  /\ InIdle(t, "events")
  /\ fd \in events[t]
  /\ events' = [events EXCEPT ![t] = @ \ {fd}]
  /\ \E k \in RegisteredAt(fd) :
       /\ registered' = registered \ {k}
       /\ Enqueue(k, AnyThread)
  /\ NeedTickle(t)
  /\ At(t, "count")
  /\ UNCHANGED <<m_stopping, m_activeThreadCount, m_idleThreadCount, fiberVars, ft,
                 pc, main, m_timers, m_pendingEventCount, pipe, cbs, ticked, check>>

\* ... and --m_pendingEventCount.
CountEvent(t) ==
  /\ InIdle(t, "count")
  /\ m_pendingEventCount' = m_pendingEventCount - 1
  /\ At(t, "events")
  /\ IdleOnly
  /\ UNCHANGED <<m_timers, registered, pipe, tickling, cbs, events, ticked, check>>

\* The pipe is read empty and idle() yields to run().
YieldIdle(t) ==
  /\ InIdle(t, "events")
  /\ events[t] = {}
  /\ pipe' = (pipe /\ t \notin ticked)
  /\ ticked' = ticked \ {t}
  /\ idle_state' = [idle_state EXCEPT ![t] = "HOLD"]
  /\ Goto(t, "unidle")
  /\ At(t, "none")
  /\ UNCHANGED <<queueVars, m_state, hops, ft, main, m_timers, registered,
                 m_pendingEventCount, tickling, cbs, events, check>>

IdleStep(t) ==
  \/ CheckTimer(t)
  \/ CheckPending(t)
  \/ CheckSched(t)
  \/ EpollWait(t)
  \/ ListExpired(t)
  \/ ScheduleCbs(t)
  \/ \E fd \in Fds : SkipEvent(t, fd)
  \/ \E fd \in Fds : TriggerEvent(t, fd)
  \/ CountEvent(t)
  \/ YieldIdle(t)

\* The steps of run() that IOManager does not change.
InheritedStep(t) ==
  /\ \/ FetchTask(t)
     \/ FetchNone(t)
     \/ SwapIn(t)
     \/ DispatchNone(t)
     \/ TaskReturned(t)
     \/ EnterIdle(t)
     \/ LeaveRun(t)
     \/ IdleReturned(t)
  /\ UNCHANGED ioVars

ThreadStep(t) == InheritedStep(t) \/ RunTickle(t) \/ IdleStep(t) \/ IOTickle(t)

TaskStep(t) ==
  \/ \E k \in Tasks, thread \in PinTargets \cup {AnyThread} : TaskSchedule(t, k, thread)
  \/ \E k \in Tasks : TaskAddTimer(t, k)
  \/ \E k \in Tasks : TaskAddEvent(t, k)
  \/ TaskReturn(t)

StopStep ==
  \/ StopCheckPassed
  \/ StopFirst
  \/ StopSecond
  \/ IOStopCallReturn
  \/ IOStopJoin

OwnerStep ==
  \/ IOStart
  \/ \E k \in Tasks, thread \in PinTargets \cup {AnyThread} : OwnerSchedule(k, thread)
  \/ \E k \in Tasks : OwnerAddTimer(k)
  \/ \E k \in Tasks : OwnerAddEvent(k)
  \/ IOTickle(Caller)
  \/ IOStopRequest

IOTerminated ==
  /\ main = "returned" /\ \A w \in Workers : pc[w] = "done"
  /\ UNCHANGED allVars

IONext ==
  \/ OwnerStep
  \/ StopStep
  \/ \E t \in Threads : ThreadStep(t)
  \/ \E t \in Threads : TaskStep(t)
  \/ IOTerminated

IOSpec == IOInit /\ [][IONext]_allVars

(***************************************************************************)
(* The kernel schedules the threads, epoll_wait ends after at most         *)
(* MAX_TIMEOUT, tasks return, stop() goes on once called, and a timer that *)
(* is listed again and again is sooner or later found expired.  Nothing    *)
(* makes an event ready: the peer may stay silent.                         *)
(***************************************************************************)
Expire(k) == \E t \in Threads : ListExpired(t) /\ k \in cbs'[t]

IOFairness ==
  /\ WF_allVars(StopStep) /\ WF_allVars(IOTickle(Caller))
  /\ \A t \in Threads : WF_allVars(ThreadStep(t)) /\ WF_allVars(TaskStep(t))
  /\ \A k \in Tasks : SF_allVars(Expire(k))

IOFairSpec == IOSpec /\ IOFairness

-----------------------------------------------------------------------------
(***************************************************************************)
(* Properties.                                                             *)
(***************************************************************************)

\* stop() has returned and no pool thread is left: the point at which the
\* IOManager may be destroyed.
AllLeft == main = "returned" /\ \A w \in Workers : pc[w] = "done"

ioStatusOf ==
  [k \in Tasks |-> IF m_state[k] = "TERM" THEN "done"
                   ELSE IF Unused(k) THEN "new" ELSE "pending"]

ioPhaseOf ==
  IF main \in {"setup", "started"} THEN "open"
  ELSE IF AllLeft THEN "closed" ELSE "closing"

IOTP == INSTANCE TaskPool WITH status <- ioStatusOf, phase <- ioPhaseOf

\* Callbacks of timers and events are tasks of a TaskPool from the moment they
\* are armed: none is lost, none runs twice, and although the three reads of
\* stopping() are not atomic and expired callbacks in hand are not counted, the
\* last thread leaves run() only when all ran.  It holds with use_caller, where
\* the owner itself runs the loop in stop(), and for callbacks that do not arm
\* others; NothingArmedAfterStop shows what happens otherwise.
IOImplementsTaskPool == IOTP!Spec

\* m_pendingEventCount covers every registered event, and every event whose
\* callback a thread has scheduled but not yet discounted: stopping() cannot
\* find it zero between the two, and a report that reaches two threads is
\* discounted once.
PendingCountCovers ==
  m_pendingEventCount =
    Cardinality(registered) + Cardinality({t \in Threads : iopc[t] = "count"})

\* A callback in the queue is run, although tickle() is skipped when no thread
\* is counted idle and one edge of the pipe wakes one thread only.
QueuedRuns ==
  \A k \in Tasks :
    (\E i \in DOMAIN m_fibers : m_fibers[i].task = k) ~> m_state[k] = "TERM"

\* The callback of an armed timer is run unless stop() is called first: the
\* threads that share the timers, the pipe and the queue forget none.
TimersRun ==
  \A k \in Tasks : k \in m_timers ~> (m_state[k] = "TERM" \/ main # "started")

\* stop() returns unless it waits for an event that never comes.
IOStopReturns == main = "stopping" ~> (main = "returned" \/ registered # {})

\* A thread is suspended in the idle coroutine only until there is a task:
\* none sits in epoll_wait with a task it may run in the queue unless the pipe
\* will wake a thread, a tickle is on its way or another thread is looking.
NoSleepWithWork ==
  \A t \in Threads :
    InIdle(t, "epoll") /\ (\E i \in DOMAIN m_fibers : Eligible(m_fibers[i], t))
      => \/ pipe
         \/ tickling # {}
         \/ \E u \in Threads : pc[u] # "off" /\ ~InIdle(u, "epoll")

\* Stopped means, as stopping() has it: no timer and no event is left when all
\* threads have gone.
NothingArmedAfterStop == AllLeft => m_timers = {} /\ registered = {}

\* The assertion of ~Scheduler: after stop() the scheduler is stopped.
StoppedAssertion == main = "returned" => Stopping
=============================================================================
