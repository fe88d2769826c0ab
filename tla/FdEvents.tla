------------------------------ MODULE FdEvents ------------------------------
(***************************************************************************)
(* The FdContexts of IOManager (iomanager.hpp/.cpp): the vector that holds *)
(* them, the events registered for a file descriptor, the interest epoll   *)
(* has in it, the pending count and the callback (or fiber) each           *)
(* registration owes its program.                                          *)
(*                                                                         *)
(* A thread runs tasks, which register and cancel events, and idle(),      *)
(* which handles what epoll_wait reported; it does one thing at a time.    *)
(* An operation first takes the FdContext out of m_fdContexts under        *)
(* m_mutex (addEvent makes the vector larger if need be); cancelAll, the   *)
(* rest of addEvent and the handling in idle() then hold                   *)
(* fdContext->mutex and are one step; delEvent and cancelEvent do not hold *)
(* it.  The kernel may report any interest at any time.  A failed          *)
(* assertion, also one on the result of epoll_ctl, and the use of an empty *)
(* EventContext end the process.                                           *)
(***************************************************************************)
EXTENDS Naturals, FiniteSets

CONSTANTS
  Fds,          \* file descriptors: numbers
  Events,       \* READ and WRITE
  Threads,
  Usages,       \* what programs do: the threads they use, and with which fds,
                \* events and operations
  InitialSize,  \* contextResize(32) of the constructor
  MaxContexts,  \* bound on the FdContexts made for one fd
  ERR,          \* EPOLLERR or EPOLLHUP
  NoContext, NoEvent

\* The n-th FdContext made for fd f.
Contexts == Fds \X (1..MaxContexts)

ASSUME FdAssumption ==
  /\ Fds \subseteq Nat
  /\ IsFiniteSet(Events)
  /\ InitialSize \in Nat /\ InitialSize >= 2
  /\ MaxContexts \in Nat \ {0}
  /\ Usages \subseteq [threads : SUBSET Threads, fds : SUBSET Fds, events : SUBSET Events,
                       operations : SUBSET {"addEvent", "delEvent", "cancelEvent",
                                            "cancelAll"}]
  /\ ERR \notin Events /\ NoEvent \notin Events /\ NoContext \notin Contexts

VARIABLES
  usage,                \* of this program
  size,                 \* m_fdContexts.size()
  made,                 \* per fd, the FdContexts made so far
  events,               \* fdContext->events
  context,              \* per FdContext, the events whose EventContext is set
  interest,             \* per fd, what epoll watches; {}: not in the epoll set
  ptr,                  \* per fd, the data.ptr epoll has for it
  m_pendingEventCount,
  pc,                   \* per thread, where it is
  at,                   \* per thread, the [context, event] it works on
  newEvents,            \* per thread, the local of delEvent and cancelEvent
  report,               \* per thread, what epoll_wait reported
  died                  \* "no", or what ended the process

vars == <<usage, size, made, events, context, interest, ptr, m_pendingEventCount, pc,
          at, newEvents, report, died>>

tableVars == <<usage, size, made>>
fdVars == <<events, context, interest, ptr, m_pendingEventCount>>

Nowhere == [context |-> NoContext, event |-> NoEvent]

TypeOK ==
  /\ usage \in Usages
  /\ size \in Nat
  /\ made \in [Fds -> 0..MaxContexts]
  /\ events \in [Contexts -> SUBSET Events]
  /\ context \in [Contexts -> SUBSET Events]
  /\ interest \in [Fds -> SUBSET Events]
  /\ ptr \in [Fds -> Contexts \cup {NoContext}]
  /\ m_pendingEventCount \in Nat
  /\ pc \in [Threads -> {"free", "grow", "register", "handle", "del", "delend",
                         "cancel", "cancelend"}]
  /\ at \in [Threads -> [context : Contexts \cup {NoContext}, event : Events \cup {NoEvent}]]
  /\ newEvents \in [Threads -> SUBSET Events]
  /\ report \in [Threads -> SUBSET (Events \cup {ERR})]
  /\ died \in {"no", "duplicate", "epoll_ctl", "missing", "trigger", "empty"}

Init ==
  /\ usage \in Usages
  /\ size = InitialSize
  /\ made = [f \in Fds |-> IF f < InitialSize THEN 1 ELSE 0]
  /\ events = [c \in Contexts |-> {}]
  /\ context = [c \in Contexts |-> {}]
  /\ interest = [f \in Fds |-> {}]
  /\ ptr = [f \in Fds |-> NoContext]
  /\ m_pendingEventCount = 0
  /\ pc = [t \in Threads |-> "free"]
  /\ at = [t \in Threads |-> Nowhere]
  /\ newEvents = [t \in Threads |-> {}]
  /\ report = [t \in Threads |-> {}]
  /\ died = "no"

Move(t, to, place) ==
  /\ pc' = [pc EXCEPT ![t] = to]
  /\ at' = [at EXCEPT ![t] = place]

Die(why) == died' = why /\ UNCHANGED <<tableVars, fdVars, pc, at, newEvents, report>>

\* m_fdContexts[fd]: the context made last.
FdContext(f) == <<f, made[f]>>

\* A callback of the program waits for event e of fd f.
Awaited(f, e) == \E c \in Contexts : c[1] = f /\ e \in context[c]

\* epoll_ctl: ADD wants the fd outside the set, MOD and DEL want it inside.
CtlFails(f, add) == add # (interest[f] = {})

\* epoll_ctl works: epoll watches the set s of fd c[1] for the context c.
Watch(c, s) ==
  /\ interest' = [interest EXCEPT ![c[1]] = s]
  /\ ptr' = [ptr EXCEPT ![c[1]] = IF s = {} THEN NoContext ELSE c]

\* triggerEvent for every event of the set: each must be in fdContext->events
\* and have a scheduler to schedule its callback on.
TriggerFails(c, set) == IF set \subseteq events[c] THEN "empty" ELSE "trigger"

TriggerWorks(c, set) == set \subseteq events[c] /\ set \subseteq context[c]

Trigger(c, set) ==
  /\ events' = [events EXCEPT ![c] = @ \ set]
  /\ context' = [context EXCEPT ![c] = @ \ set]

-----------------------------------------------------------------------------
(***************************************************************************)
(* addEvent, by a program that has no callback waiting for this event: the *)
(* look into the vector under the read lock ...                            *)
(***************************************************************************)
AddEvent(t, f, e) ==
  /\ pc[t] = "free" /\ "addEvent" \in usage.operations
  /\ ~Awaited(f, e)
  /\ \A u \in Threads :
       ~(pc[u] \in {"grow", "register"} /\ at[u].context[1] = f /\ at[u].event = e)
  /\ IF size > f
     THEN Move(t, "register", [context |-> FdContext(f), event |-> e])
     ELSE Move(t, "grow", [context |-> <<f, 1>>, event |-> e])
  /\ UNCHANGED <<tableVars, fdVars, newEvents, report, died>>

\* Faulty variant: contextResize makes a new FdContext at every index.
ContextResize_Renew(s) ==
  /\ \A f \in Fds : f < s => made[f] < MaxContexts
  /\ size' = s
  /\ made' = [f \in Fds |-> IF f < s THEN made[f] + 1 ELSE made[f]]

\* contextResize: the vector keeps the first s pointers; new ones get contexts.
ContextResize(s) ==
  /\ \A f \in Fds : f \in size..(s - 1) => made[f] < MaxContexts
  /\ size' = s
  /\ made' = [f \in Fds |-> IF f \in size..(s - 1) THEN made[f] + 1 ELSE made[f]]

\* ... if it is too short contextResize(fd * 1.5) under the write lock, with no
\* second look at the size: it may be larger by now, and is cut ...
Grow(t) ==
  /\ pc[t] = "grow"
  /\ LET f == at[t].context[1] IN
       /\ ContextResize((f * 3) \div 2)
       /\ Move(t, "register", [at[t] EXCEPT !.context = <<f, made'[f]>>])
  /\ UNCHANGED <<usage, fdVars, newEvents, report, died>>

\* Faulty variant: EPOLL_CTL_ADD even if the fd has another event.
Register_AlwaysAdd(t) ==
  /\ pc[t] = "register"
  /\ LET c == at[t].context
         e == at[t].event
     IN  IF e \in events[c] THEN Die("duplicate")
         ELSE IF CtlFails(c[1], TRUE) THEN Die("epoll_ctl")
         ELSE /\ Watch(c, events[c] \cup {e})
              /\ m_pendingEventCount' = m_pendingEventCount + 1
              /\ events' = [events EXCEPT ![c] = @ \cup {e}]
              /\ context' = [context EXCEPT ![c] = @ \cup {e}]
              /\ Move(t, "free", Nowhere)
              /\ UNCHANGED <<tableVars, newEvents, report, died>>

\* ... and the registration, under fdContext->mutex.
Register(t) ==
  /\ pc[t] = "register"
  /\ LET c == at[t].context
         e == at[t].event
     IN  IF e \in events[c] THEN Die("duplicate")
         ELSE IF CtlFails(c[1], events[c] = {}) THEN Die("epoll_ctl")
         ELSE /\ Watch(c, events[c] \cup {e})
              /\ m_pendingEventCount' = m_pendingEventCount + 1
              /\ events' = [events EXCEPT ![c] = @ \cup {e}]
              /\ context' = [context EXCEPT ![c] = @ \cup {e}]
              /\ Move(t, "free", Nowhere)
              /\ UNCHANGED <<tableVars, newEvents, report, died>>

CancelAll(t, f) ==
  /\ pc[t] = "free" /\ "cancelAll" \in usage.operations
  /\ size > f /\ events[FdContext(f)] # {}
  /\ LET c == FdContext(f) IN
       IF CtlFails(f, FALSE) THEN Die("epoll_ctl")
       ELSE IF ~TriggerWorks(c, events[c]) THEN Die(TriggerFails(c, events[c]))
       ELSE /\ Watch(c, {})
            /\ m_pendingEventCount' = m_pendingEventCount - Cardinality(events[c])
            /\ Trigger(c, events[c])
            /\ UNCHANGED <<tableVars, pc, at, newEvents, report, died>>

-----------------------------------------------------------------------------
(***************************************************************************)
(* delEvent and cancelEvent, by a program whose callback waits for the     *)
(* event: the assertion, the local newEvents ...                           *)
(***************************************************************************)
Unlocked(t, f, e, op, next) ==
  /\ pc[t] = "free" /\ op \in usage.operations
  /\ Awaited(f, e)
  /\ size > f
  /\ LET c == FdContext(f) IN
       IF e \notin events[c] THEN Die("missing")
       ELSE /\ newEvents' = [newEvents EXCEPT ![t] = events[c] \ {e}]
            /\ Move(t, next, [context |-> c, event |-> e])
            /\ UNCHANGED <<tableVars, fdVars, report, died>>

DelEvent(t, f, e) == Unlocked(t, f, e, "delEvent", "del")

CancelEvent(t, f, e) == Unlocked(t, f, e, "cancelEvent", "cancel")

\* ... epoll_ctl with it, --m_pendingEventCount ...
UnlockedCtl(t) ==
  /\ pc[t] \in {"del", "cancel"}
  /\ IF CtlFails(at[t].context[1], FALSE) THEN Die("epoll_ctl")
     ELSE /\ Watch(at[t].context, newEvents[t])
          /\ m_pendingEventCount' = m_pendingEventCount - 1
          /\ Move(t, IF pc[t] = "del" THEN "delend" ELSE "cancelend", at[t])
          /\ UNCHANGED <<tableVars, events, context, newEvents, report, died>>

\* ... and delEvent resets the context and stores newEvents,
DelEventEnd(t) ==
  /\ pc[t] = "delend"
  /\ LET c == at[t].context IN
       /\ context' = [context EXCEPT ![c] = @ \ {at[t].event}]
       /\ events' = [events EXCEPT ![c] = newEvents[t]]
  /\ newEvents' = [newEvents EXCEPT ![t] = {}]
  /\ Move(t, "free", Nowhere)
  /\ UNCHANGED <<tableVars, interest, ptr, m_pendingEventCount, report, died>>

\* while cancelEvent triggers the event.
CancelEventEnd(t) ==
  /\ pc[t] = "cancelend"
  /\ LET c == at[t].context
         e == at[t].event
     IN  IF ~TriggerWorks(c, {e}) THEN Die(TriggerFails(c, {e}))
         ELSE /\ Trigger(c, {e})
              /\ newEvents' = [newEvents EXCEPT ![t] = {}]
              /\ Move(t, "free", Nowhere)
              /\ UNCHANGED <<tableVars, interest, ptr, m_pendingEventCount, report, died>>

-----------------------------------------------------------------------------
(***************************************************************************)
(* idle(): epoll_wait reports an fd; later the report is handled, with the *)
(* FdContext of data.ptr.                                                  *)
(***************************************************************************)
EpollWait(t, f) ==
  /\ pc[t] = "free"
  /\ interest[f] # {}
  /\ \E r \in SUBSET (interest[f] \cup {ERR}) :
       /\ r # {}
       /\ report' = [report EXCEPT ![t] = r]
  /\ Move(t, "handle", [context |-> ptr[f], event |-> NoEvent])
  /\ UNCHANGED <<tableVars, fdVars, newEvents, died>>

\* After an error every registered event counts as reported.
RealEvents(t) ==
  (report[t] \ {ERR}) \cup (IF ERR \in report[t] THEN events[at[t].context] ELSE {})

HandleReport(t) ==
  /\ pc[t] = "handle"
  /\ LET c == at[t].context
         real == RealEvents(t)
     IN  IF events[c] \cap real = {}
         THEN /\ report' = [report EXCEPT ![t] = {}]
              /\ Move(t, "free", Nowhere)
              /\ UNCHANGED <<tableVars, fdVars, newEvents, died>>
         ELSE IF CtlFails(c[1], FALSE) THEN Die("epoll_ctl")
         ELSE IF ~TriggerWorks(c, real) THEN Die(TriggerFails(c, real))
         ELSE /\ Watch(c, events[c] \ real)
              /\ Trigger(c, real)
              /\ m_pendingEventCount' = m_pendingEventCount - Cardinality(real)
              /\ report' = [report EXCEPT ![t] = {}]
              /\ Move(t, "free", Nowhere)
              /\ UNCHANGED <<tableVars, newEvents, died>>

ThreadStep(t) ==
  \/ \E f \in usage.fds, e \in usage.events : AddEvent(t, f, e)
  \/ Grow(t)
  \/ Register(t)
  \/ \E f \in usage.fds, e \in usage.events : DelEvent(t, f, e)
  \/ \E f \in usage.fds, e \in usage.events : CancelEvent(t, f, e)
  \/ \E f \in usage.fds : CancelAll(t, f)
  \/ UnlockedCtl(t)
  \/ DelEventEnd(t)
  \/ CancelEventEnd(t)
  \/ \E f \in usage.fds : EpollWait(t, f)
  \/ HandleReport(t)

Next == died = "no" /\ \E t \in usage.threads : ThreadStep(t)

Spec == Init /\ [][Next]_vars

-----------------------------------------------------------------------------
(***************************************************************************)
(* Properties.                                                             *)
(***************************************************************************)

\* Usages for which the FdContexts are safe: a single thread, with every
\* operation; or several threads that use the operations that hold
\* fdContext->mutex, one event, and one fd beyond the initial vector.
OneThread(u) == \A s, t \in u.threads : s = t

Locked(u) ==
  /\ u.operations \subseteq {"addEvent", "cancelAll"}
  /\ \A d, e \in u.events : d = e
  /\ \A f, g \in u.fds : f >= InitialSize /\ g >= InitialSize => f = g

SafeUse == \A u \in Usages : OneThread(u) \/ Locked(u)

\* No assertion fails and no empty EventContext is used, with a SafeUse: true
\* for a single thread and every operation, whatever fds make the vector grow,
\* and for several threads that use one event per fd and the locked operations
\* only, however stale their reports, as long as one fd makes the vector grow.
NoFailure == died = "no"

\* Between the operations the five views of a registration agree: the bit in
\* fdContext->events, the EventContext, the place of the FdContext in the
\* vector, the interest of epoll, and the count that keeps stopping() false.
Consistent ==
  (\A t \in Threads : pc[t] \in {"free", "grow", "register", "handle"}) =>
    /\ \A c \in Contexts : events[c] = context[c]
    /\ \A f \in Fds :
         /\ interest[f] = (IF size > f THEN events[FdContext(f)] ELSE {})
         /\ interest[f] # {} => ptr[f] = FdContext(f)
    /\ m_pendingEventCount =
         Cardinality({x \in Contexts \X Events : x[2] \in events[x[1]]})

\* The assertion of triggerEvent: a triggered event is in fdContext->events.
TriggerAssertion == died # "trigger"

\* An fd with a registered event is found in the vector; else delEvent,
\* cancelEvent and cancelAll return false and the event cannot be cancelled.
RegisteredIsFound == \A f \in Fds : interest[f] # {} => size > f
=============================================================================
