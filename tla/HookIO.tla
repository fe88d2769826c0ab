------------------------------- MODULE HookIO -------------------------------
(***************************************************************************)
(* Hooked system calls (hook.cpp): a fiber that sleeps and then reads (or  *)
(* writes) a socket through do_io, the timeout of that call, the idle      *)
(* thread that resumes it, and another fiber that closes the socket.       *)
(*                                                                         *)
(* The tasks of the scheduler's queue are the calling fiber, the closing   *)
(* one and the callbacks of the timers.  Turn 0 of the fiber is the call   *)
(* of sleep (usleep, nanosleep); turns 1, 2, ... are the iterations of the *)
(* loop of do_io, each with a timer and a TimerInfo of its own.            *)
(* connect_with_timeout is one such turn.  A failed assertion, the erase   *)
(* of an expired timer and the resumption of a running fiber end the       *)
(* process.                                                                *)
(***************************************************************************)
EXTENDS Naturals, Sequences, FiniteSets

CONSTANTS
  Workers,     \* the threads of the IOManager
  MaxTurns,    \* bound on the iterations of do_io
  HasTimeout,  \* the socket has SO_RCVTIMEO (SO_SNDTIMEO)
  Closes,      \* another fiber closes the socket
  IO, Close,   \* the two fibers
  NoTask

Turns == 0..MaxTurns

Tasks == Turns \cup {IO, Close}   \* turn n: the callback of its timer

ASSUME HookAssumption ==
  /\ MaxTurns \in Nat \ {0}
  /\ HasTimeout \in BOOLEAN
  /\ Closes \in BOOLEAN
  /\ IO # Close /\ NoTask \notin Tasks
  /\ IO \notin Turns /\ Close \notin Turns

VARIABLES
  queue,       \* m_fibers
  run,         \* per worker, the task it executes; NoTask: in run() or idle()
  m_state,     \* of the fiber IO
  fpc,         \* where the fiber is
  turn,
  timer,       \* per turn: "none", "armed" (in m_timers), "expired", "cancelled"
  cpc,         \* per turn, where the callback of its timer is
  cancelled,   \* the turns whose TimerInfo says ETIMEDOUT
  registered,  \* the event is in fdContext->events, with its EventContext
  interest,    \* epoll watches the fd
  data,        \* the socket is readable
  closer,      \* where close() is
  result,      \* of do_io
  died         \* "no", or what ended the process

vars == <<queue, run, m_state, fpc, turn, timer, cpc, cancelled, registered,
          interest, data, closer, result, died>>

eventVars == <<registered, interest>>
timerVars == <<timer, cpc, cancelled>>
fiberVars == <<m_state, fpc, turn, result>>

\* The types, and that one worker at most executes the fiber.
TypeOK ==
  /\ queue \in Seq(Tasks)
  /\ run \in [Workers -> Tasks \cup {NoTask}]
  /\ m_state \in {"INIT", "EXEC", "HOLD", "TERM"}
  /\ fpc \in {"sleep", "try", "timer", "event", "yield", "swapout", "held",
              "resumed", "returned"}
  /\ turn \in Turns
  /\ timer \in [Turns -> {"none", "armed", "expired", "cancelled"}]
  /\ cpc \in [Turns -> {"start", "locked", "assert", "ctl", "trigger", "end"}]
  /\ cancelled \subseteq Turns
  /\ registered \in BOOLEAN
  /\ interest \in BOOLEAN
  /\ data \in BOOLEAN
  /\ closer \in {"none", "start", "close", "closed"}
  /\ result \in {"none", "ok", "EBADF", "ETIMEDOUT"}
  /\ died \in {"no", "swapin", "wrecked", "epoll_ctl", "duplicate", "missing", "erase"}
  /\ \A v, w \in Workers : run[v] = IO /\ run[w] = IO => v = w

Init ==
  /\ queue = <<IO>>
  /\ run = [w \in Workers |-> NoTask]
  /\ m_state = "INIT"
  /\ fpc = "sleep"
  /\ turn = 0
  /\ timer = [n \in Turns |-> "none"]
  /\ cpc = [n \in Turns |-> "start"]
  /\ cancelled = {}
  /\ registered = FALSE
  /\ interest = FALSE
  /\ data = FALSE
  /\ closer = "none"
  /\ result = "none"
  /\ died = "no"

Schedule(k) == queue' = Append(queue, k)

Leave(w) == run' = [run EXCEPT ![w] = NoTask]

Die(why) ==
  /\ died' = why
  /\ UNCHANGED <<queue, run, fiberVars, timerVars, eventVars, data, closer>>

-----------------------------------------------------------------------------
(***************************************************************************)
(* A free worker takes a task, or does what idle() does.                   *)
(***************************************************************************)

\* For the fiber IO this is swapIn, with its assertion.
Take(w) ==
  /\ run[w] = NoTask
  /\ queue # <<>>
  /\ IF Head(queue) # IO
     THEN /\ run' = [run EXCEPT ![w] = Head(queue)]
          /\ queue' = Tail(queue)
          /\ UNCHANGED <<fiberVars, died>>
     ELSE IF m_state = "EXEC" \/ fpc = "swapout"
     THEN /\ died' = (IF m_state = "EXEC" THEN "swapin" ELSE "wrecked")
          /\ UNCHANGED <<queue, run, fiberVars>>
     ELSE /\ run' = [run EXCEPT ![w] = IO]
          /\ queue' = Tail(queue)
          /\ m_state' = "EXEC"
          /\ fpc' = (IF fpc = "held" THEN "resumed" ELSE fpc)
          /\ UNCHANGED <<turn, result, died>>
  /\ UNCHANGED <<timerVars, eventVars, data, closer>>

\* listExpiredCb and schedule(cbs).
Expire(w, n) ==
  /\ run[w] = NoTask
  /\ timer[n] = "armed"
  /\ timer' = [timer EXCEPT ![n] = "expired"]
  /\ Schedule(n)
  /\ UNCHANGED <<run, fiberVars, cpc, cancelled, eventVars, data, closer, died>>

\* Faulty variant: triggerEvent without events & ~event.
HandleEvent_Keep(w) ==
  /\ run[w] = NoTask
  /\ registered /\ interest
  /\ Schedule(IO)
  /\ UNCHANGED <<run, fiberVars, timerVars, eventVars, data, closer, died>>

\* A reported event is handled; the report may be one of an error, or stale,
\* so the socket need not be readable.  If another thread took the fd out of
\* the epoll set after the report, the assertion on epoll_ctl fails.
HandleEvent(w) ==
  /\ run[w] = NoTask
  /\ registered
  /\ IF ~interest
     THEN /\ Workers # {w}
          /\ Die("epoll_ctl")
     ELSE /\ registered' = FALSE
          /\ interest' = FALSE
          /\ Schedule(IO)
          /\ UNCHANGED <<run, fiberVars, timerVars, data, closer, died>>

-----------------------------------------------------------------------------
(***************************************************************************)
(* The fiber, on worker w.                                                 *)
(***************************************************************************)
FiberAt(w, where) == run[w] = IO /\ fpc = where

\* sleep: addTimer(ms, schedule(fiber)), then YieldToHold.
Sleep(w) ==
  /\ FiberAt(w, "sleep")
  /\ timer' = [timer EXCEPT ![0] = "armed"]
  /\ fpc' = "yield"
  /\ UNCHANGED <<queue, run, m_state, turn, result, cpc, cancelled, eventVars, data,
                 closer, died>>

Return(w, how) ==
  /\ result' = how
  /\ fpc' = "returned"
  /\ m_state' = "TERM"
  /\ Leave(w)

\* n = fun(fd, ...): on a closed fd EBADF, else data or EAGAIN.
Try(w) ==
  /\ FiberAt(w, "try")
  /\ \/ closer = "closed" /\ Return(w, "EBADF") /\ UNCHANGED data
     \/ closer # "closed" /\ data /\ Return(w, "ok") /\ data' = FALSE
     \/ /\ closer # "closed" /\ ~data /\ fpc' = "timer"
        /\ UNCHANGED <<data, m_state, result, run>>
  /\ UNCHANGED <<queue, turn, timerVars, eventVars, closer, died>>

\* addConditionTimer, if the socket has a timeout.
AddTimer(w) ==
  /\ FiberAt(w, "timer")
  /\ timer' = IF HasTimeout THEN [timer EXCEPT ![turn] = "armed"] ELSE timer
  /\ fpc' = "event"
  /\ UNCHANGED <<queue, run, m_state, turn, result, cpc, cancelled, eventVars, data,
                 closer, died>>

\* addEvent(fd, event) for the running fiber.
AddEvent(w) ==
  /\ FiberAt(w, "event")
  /\ IF registered THEN Die("duplicate")
     ELSE IF closer = "closed" \/ interest THEN Die("epoll_ctl")
     ELSE /\ registered' = TRUE
          /\ interest' = TRUE
          /\ fpc' = "yield"
          /\ UNCHANGED <<queue, run, m_state, turn, result, timerVars, data, closer, died>>

YieldToHold(w) ==
  /\ FiberAt(w, "yield")
  /\ m_state' = "HOLD"
  /\ fpc' = "swapout"
  /\ UNCHANGED <<queue, run, turn, result, timerVars, eventVars, data, closer, died>>

SwapOut(w) ==
  /\ FiberAt(w, "swapout")
  /\ fpc' = "held"
  /\ Leave(w)
  /\ UNCHANGED <<queue, m_state, turn, result, timerVars, eventVars, data, closer, died>>

\* After sleep the fiber goes on.  In do_io: if the timeout was the reason it
\* returns, else timer->cancel() and once more around the loop.  cancel() of a
\* timer that expired meanwhile erases the end iterator of m_timers.
Resumed(w) ==
  /\ FiberAt(w, "resumed")
  /\ IF turn \in cancelled
     THEN Return(w, "ETIMEDOUT") /\ UNCHANGED <<turn, timer, died>>
     ELSE /\ turn < MaxTurns
          /\ IF turn > 0 /\ timer[turn] = "expired"
             THEN died' = "erase" /\ UNCHANGED <<timer, fpc, turn>>
             ELSE /\ timer' = [timer EXCEPT ![turn] =
                                 IF @ = "armed" THEN "cancelled" ELSE @]
                  /\ fpc' = "try"
                  /\ turn' = turn + 1
                  /\ UNCHANGED died
          /\ UNCHANGED <<m_state, result, run>>
  /\ UNCHANGED <<queue, cpc, cancelled, eventVars, data, closer>>

FiberStep(w) ==
  \/ Sleep(w)
  \/ Try(w)
  \/ AddTimer(w)
  \/ AddEvent(w)
  \/ YieldToHold(w)
  \/ SwapOut(w)
  \/ Resumed(w)

-----------------------------------------------------------------------------
(***************************************************************************)
(* The callback of the timer of turn n, on worker w.                       *)
(***************************************************************************)
CallbackAt(w, n, where) == run[w] = n /\ cpc[n] = where

CallbackGoto(n, to) == cpc' = [cpc EXCEPT ![n] = to]

\* sleep: iom->schedule(fiber).
WakeSleeper(w) ==
  /\ CallbackAt(w, 0, "start")
  /\ Schedule(IO)
  /\ CallbackGoto(0, "end")
  /\ Leave(w)
  /\ UNCHANGED <<fiberVars, timer, cancelled, eventVars, data, closer, died>>

\* weakTimerInfo.lock(): the TimerInfo lives as long as its turn.
LockInfo(w, n) ==
  /\ n > 0
  /\ CallbackAt(w, n, "start")
  /\ IF turn = n /\ fpc # "returned"
     THEN CallbackGoto(n, "locked") /\ UNCHANGED run
     ELSE CallbackGoto(n, "end") /\ Leave(w)
  /\ UNCHANGED <<queue, fiberVars, timer, cancelled, eventVars, data, closer, died>>

\* cancelled = ETIMEDOUT
SetCancelled(w, n) ==
  /\ CallbackAt(w, n, "locked")
  /\ cancelled' = cancelled \cup {n}
  /\ CallbackGoto(n, "assert")
  /\ UNCHANGED <<queue, run, fiberVars, timer, eventVars, data, closer, died>>

\* cancelEvent: the event must be registered ...
CancelAssert(w, n) ==
  /\ CallbackAt(w, n, "assert")
  /\ IF registered
     THEN /\ CallbackGoto(n, "ctl")
          /\ UNCHANGED <<queue, run, fiberVars, timer, cancelled, eventVars, data,
                         closer, died>>
     ELSE Die("missing")

\* ... epoll_ctl must succeed ...
CancelCtl(w, n) ==
  /\ CallbackAt(w, n, "ctl")
  /\ IF interest
     THEN /\ interest' = FALSE
          /\ CallbackGoto(n, "trigger")
          /\ UNCHANGED <<queue, run, fiberVars, timer, cancelled, registered, data,
                         closer, died>>
     ELSE Die("epoll_ctl")

\* Faulty variant: delEvent instead of cancelEvent.
CancelTrigger_Delete(w, n) ==
  /\ CallbackAt(w, n, "trigger")
  /\ registered' = FALSE
  /\ CallbackGoto(n, "end")
  /\ Leave(w)
  /\ UNCHANGED <<queue, fiberVars, timer, cancelled, interest, data, closer, died>>

\* ... and triggerEvent resumes the fiber.
CancelTrigger(w, n) ==
  /\ CallbackAt(w, n, "trigger")
  /\ IF registered
     THEN /\ registered' = FALSE
          /\ Schedule(IO)
          /\ CallbackGoto(n, "end")
          /\ Leave(w)
          /\ UNCHANGED <<fiberVars, timer, cancelled, interest, data, closer, died>>
     ELSE Die("missing")

CallbackStep(w, n) ==
  \/ LockInfo(w, n)
  \/ SetCancelled(w, n)
  \/ CancelAssert(w, n)
  \/ CancelCtl(w, n)
  \/ CancelTrigger(w, n)

-----------------------------------------------------------------------------
(***************************************************************************)
(* The environment: data arrives, the program closes the socket.           *)
(***************************************************************************)
Arrive ==
  /\ ~data
  /\ data' = TRUE
  /\ UNCHANGED <<queue, run, fiberVars, timerVars, eventVars, closer, died>>

CallClose ==
  /\ Closes /\ closer = "none"
  /\ closer' = "start"
  /\ Schedule(Close)
  /\ UNCHANGED <<run, fiberVars, timerVars, eventVars, data, died>>

\* cancelAll(fd) triggers the event if there is one; FdMgr::del(fd) ...
CloseCancelAll(w) ==
  /\ run[w] = Close /\ closer = "start"
  /\ IF registered /\ ~interest THEN Die("epoll_ctl")
     ELSE /\ IF registered THEN Schedule(IO) ELSE UNCHANGED queue
          /\ registered' = FALSE
          /\ interest' = FALSE
          /\ closer' = "close"
          /\ UNCHANGED <<run, fiberVars, timerVars, data, died>>

\* ... and close_f(fd), with which the fd leaves the epoll set.
CloseFd(w) ==
  /\ run[w] = Close /\ closer = "close"
  /\ closer' = "closed"
  /\ interest' = FALSE
  /\ Leave(w)
  /\ UNCHANGED <<queue, fiberVars, timerVars, registered, data, died>>

WorkerStep(w) ==
  \/ Take(w)
  \/ \E n \in Turns : Expire(w, n)
  \/ HandleEvent(w)
  \/ FiberStep(w)
  \/ WakeSleeper(w)
  \/ \E n \in Turns : CallbackStep(w, n)
  \/ CloseCancelAll(w)
  \/ CloseFd(w)

Next ==
  \/ died = "no" /\ \E w \in Workers : WorkerStep(w)
  \/ died = "no" /\ Arrive
  \/ died = "no" /\ CallClose

Spec == Init /\ [][Next]_vars

\* The kernel schedules the workers and the clock advances; no data need come.
Fairness ==
  /\ \A w \in Workers :
       /\ WF_vars(died = "no" /\ run[w] # NoTask /\ WorkerStep(w))
       /\ WF_vars(died = "no" /\ Take(w))
  /\ \A n \in Turns : SF_vars(died = "no" /\ \E w \in Workers : Expire(w, n))

FairSpec == Spec /\ Fairness

-----------------------------------------------------------------------------
(***************************************************************************)
(* Properties.                                                             *)
(***************************************************************************)
Queued(k) == {i \in DOMAIN queue : queue[i] = k}

\* An event, its timeout and close() race to resume one suspended fiber; it is
\* put into the queue by only one of them.
ResumedOnce == Cardinality(Queued(IO)) <= 1

\* No lost wakeup: whoever suspended the fiber, something will resume it: its
\* event is watched, a cancellation has it in hand, it is queued, or the timer
\* of its sleep runs.  (Not so once the fd is closed: ClosedNotAwaited.)
HeldIsAwaited ==
  fpc = "held" /\ closer # "closed" =>
    \/ registered /\ interest
    \/ \E w \in Workers, n \in Turns \ {0} : CallbackAt(w, n, "trigger")
    \/ Queued(IO) # {}
    \/ turn = 0 /\ (timer[0] = "armed" \/ Queued(0) # {} \/ \E w \in Workers : run[w] = 0)

\* A call on a socket with a timeout comes back, with or without data.
CallReturns ==
  fpc = "held" ~> (fpc = "returned" \/ died # "no" \/ turn = MaxTurns)

\* The assertion of cancelEvent: the event the timeout cancels is registered.
CancelAssertion == died # "missing"

\* cancel() is called for a timer that has not expired yet.
CancelledInTime == died # "erase"

\* close() cancels all events of the fd: none is left when it has closed it.
ClosedNotAwaited == closer = "closed" => ~registered
=============================================================================
