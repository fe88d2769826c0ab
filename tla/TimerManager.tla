---------------------------- MODULE TimerManager ----------------------------
(***************************************************************************)
(* Timers (timer.hpp/.cpp): threads that add, cancel, refresh and reset    *)
(* timers, and the idle threads of IOManager that sleep until the earliest *)
(* one, collect the expired ones and run their callbacks.                  *)
(*                                                                         *)
(* A critical section of m_mutex is one step, except the insertion of      *)
(* addTimer: it is done under the READ lock, so two of them may overlap,   *)
(* which is a data race on the std::set.  The erase(end()) that cancel     *)
(* executes for a timer that is not in the set is undefined as well.  The  *)
(* model lets the race lose an insertion or end the process and            *)
(* erase(end()) end the process ("ruined").  A reader that overlaps one    *)
(* insertion sees the set before or after it.                              *)
(***************************************************************************)
EXTENDS Naturals, FiniteSets

CONSTANTS
  Timers,      \* the timers the program ever creates
  Recurring,   \* those created with recurring = true
  Clients,     \* threads that use timers
  Sleepers,    \* threads inside IOManager::idle()
  Delays,      \* values of ms
  MaxTime,     \* bound on the clock
  Never,       \* ~0uLL, the answer of getNextTimer when there is no timer
  NoTimer

ASSUME TimerAssumption ==
  /\ Recurring \subseteq Timers
  /\ NoTimer \notin Timers
  /\ Sleepers # {}
  /\ Delays \subseteq Nat
  /\ MaxTime \in Nat
  /\ Never \in Nat
  /\ \A d \in Delays : MaxTime + d < Never

VARIABLES
  now,         \* GetCurrentMS()
  known,       \* the timers that addTimer has returned to the program
  m_timers,    \* the timers in the ordered set
  m_next,
  m_ms,
  m_cb,        \* the timers that have a callback
  cpc,         \* per client: where it is
  arg,         \* per client: the timer it works on
  tickled,     \* onTimerInsertedAtFront() left something in the tickle pipe
  spc,         \* per sleeper: where it is in idle()
  basis,       \* per sleeper: m_next of the timer its timeout was computed for
               \* (while asleep, else Never)
  now_ms,      \* per sleeper: the clock as read at the start of listExpiredCb
               \* (while in it, else 0)
  got,         \* the sleepers whose epoll_wait reported the tickle pipe
  fired,       \* per timer: how often its callback was collected (2: more than once)
  ruined       \* undefined behaviour was executed

timerVars == <<known, m_timers, m_next, m_ms, m_cb>>
clientVars == <<cpc, arg>>
sleeperVars == <<spc, basis, now_ms, got>>
vars == <<now, timerVars, clientVars, tickled, sleeperVars, fired, ruined>>

TypeOK ==
  /\ now \in 0..MaxTime
  /\ known \subseteq Timers
  /\ m_timers \subseteq Timers
  /\ m_next \in [Timers -> Nat]
  /\ m_ms \in [Timers -> Nat]
  /\ m_cb \subseteq Timers
  /\ cpc \in [Clients -> {"idle", "insert", "inserting", "racing", "notify", "update"}]
  /\ arg \in [Clients -> Timers \cup {NoTimer}]
  /\ tickled \in BOOLEAN
  /\ spc \in [Sleepers -> {"busy", "next", "asleep", "list", "take", "drain"}]
  /\ basis \in [Sleepers -> Nat]
  /\ now_ms \in [Sleepers -> 0..MaxTime]
  /\ got \subseteq Sleepers
  /\ fired \in [Timers -> 0..2]
  /\ ruined \in BOOLEAN

Init ==
  /\ now = 0
  /\ known = {}
  /\ m_timers = {}
  /\ m_next = [t \in Timers |-> 0]
  /\ m_ms = [t \in Timers |-> 0]
  /\ m_cb = {}
  /\ cpc = [c \in Clients |-> "idle"]
  /\ arg = [c \in Clients |-> NoTimer]
  /\ tickled = FALSE
  /\ spc = [s \in Sleepers |-> "busy"]
  /\ basis = [s \in Sleepers |-> Never]
  /\ now_ms = [s \in Sleepers |-> 0]
  /\ got = {}
  /\ fired = [t \in Timers |-> 0]
  /\ ruined = FALSE

Advance(c, to, t) ==
  /\ cpc' = [cpc EXCEPT ![c] = to]
  /\ arg' = [arg EXCEPT ![c] = t]

\* addTimer returns the timer.
Return(c) ==
  /\ known' = known \cup {arg[c]}
  /\ Advance(c, "idle", NoTimer)

\* The threads inside the insertion of addTimer hold the read lock.
Inserters == {c \in Clients : cpc[c] \in {"inserting", "racing"}}

\* The write lock can be taken.
NoReader == Inserters = {}

\* it == m_timers.begin(), up to the order of timers with the same m_next.
IsFirst(t, set) == t \in set /\ \A u \in set : m_next[t] <= m_next[u]

-----------------------------------------------------------------------------
(***************************************************************************)
(* The clients' operations.                                                *)
(***************************************************************************)

\* addTimer(ms, cb, recurring): the constructor reads the clock.
AddTimer(c, t, ms) ==
  /\ cpc[c] = "idle"
  /\ t \notin known /\ \A d \in Clients : arg[d] # t
  /\ m_ms' = [m_ms EXCEPT ![t] = ms]
  /\ m_next' = [m_next EXCEPT ![t] = now + ms]
  /\ m_cb' = m_cb \cup {t}
  /\ Advance(c, "insert", t)
  /\ UNCHANGED <<now, known, m_timers, tickled, sleeperVars, fired, ruined>>

\* addTimer(val): m_mutex.rdlock() ...
InsertBegin(c) ==
  /\ cpc[c] = "insert"
  /\ cpc' = [d \in Clients |->
               IF d = c /\ NoReader THEN "inserting"
               ELSE IF d \in Inserters \cup {c} THEN "racing" ELSE cpc[d]]
  /\ UNCHANGED <<now, timerVars, arg, tickled, sleeperVars, fired, ruined>>

\* Faulty variant: a new first timer is not announced.
InsertEnd_Silent(c) ==
  /\ cpc[c] \in {"inserting", "racing"}
  /\ m_timers' = m_timers \cup {arg[c]}
  /\ Return(c)
  /\ UNCHANGED <<now, m_next, m_ms, m_cb, tickled, sleeperVars, fired, ruined>>

\* ... m_timers.insert(val), at_front, unlock().
InsertEnd(c) ==
  /\ cpc[c] \in {"inserting", "racing"}
  /\ \/ /\ m_timers' = m_timers \cup {arg[c]}
        /\ IF IsFirst(arg[c], m_timers')
             THEN Advance(c, "notify", arg[c]) /\ UNCHANGED known ELSE Return(c)
        /\ UNCHANGED ruined
     \/ /\ cpc[c] = "racing"
        /\ ruined' \in BOOLEAN
        /\ Return(c)
        /\ UNCHANGED m_timers
  /\ UNCHANGED <<now, m_next, m_ms, m_cb, tickled, sleeperVars, fired>>

\* onTimerInsertedAtFront(): IOManager::tickle(), which writes to the pipe if
\* some thread is idle.
Notify(c) ==
  /\ cpc[c] = "notify"
  /\ tickled' = (tickled \/ \E s \in Sleepers : spc[s] # "busy")
  /\ Return(c)
  /\ UNCHANGED <<now, m_timers, m_next, m_ms, m_cb, sleeperVars, fired, ruined>>

\* cancel(): m_timers.erase(find(this)) without a test for end().
Cancel(c, t) ==
  /\ cpc[c] = "idle"
  /\ NoReader
  /\ t \in known \cap m_cb
  /\ m_cb' = m_cb \ {t}
  /\ m_timers' = m_timers \ {t}
  /\ ruined' = (t \notin m_timers)
  /\ UNCHANGED <<now, known, m_next, m_ms, clientVars, tickled, sleeperVars, fired>>

\* Faulty variant: a timer that left the set is inserted again.
Refresh_NoFind(c, t) ==
  /\ cpc[c] = "idle"
  /\ NoReader
  /\ t \in known \cap m_cb
  /\ m_timers' = m_timers \cup {t}
  /\ m_next' = [m_next EXCEPT ![t] = now + m_ms[t]]
  /\ UNCHANGED <<now, known, m_ms, m_cb, clientVars, tickled, sleeperVars, fired, ruined>>

\* refresh(): does nothing for a timer without callback or not in the set.
Refresh(c, t) ==
  /\ cpc[c] = "idle"
  /\ NoReader
  /\ t \in known \cap m_cb \cap m_timers
  /\ m_next' = [m_next EXCEPT ![t] = now + m_ms[t]]
  /\ UNCHANGED <<now, known, m_timers, m_ms, m_cb, clientVars, tickled, sleeperVars,
                 fired, ruined>>

\* reset(ms, from_now), the part under the write lock.
ResetErase(c, t) ==
  /\ cpc[c] = "idle"
  /\ NoReader
  /\ t \in known \cap m_cb \cap m_timers
  /\ m_timers' = m_timers \ {t}
  /\ Advance(c, "update", t)
  /\ UNCHANGED <<now, known, m_next, m_ms, m_cb, tickled, sleeperVars, fired, ruined>>

\* The part without a lock; then addTimer(val).  The early return for an unchanged
\* ms is decided before the lock is taken, so ms may equal m_ms again here.
ResetUpdate(c, ms, from_now) ==
  /\ cpc[c] = "update"
  /\ m_next' = [m_next EXCEPT ![arg[c]] =
                  (IF from_now THEN now ELSE @ - m_ms[arg[c]]) + ms]
  /\ m_ms' = [m_ms EXCEPT ![arg[c]] = ms]
  /\ Advance(c, "insert", arg[c])
  /\ UNCHANGED <<now, known, m_timers, m_cb, tickled, sleeperVars, fired, ruined>>

-----------------------------------------------------------------------------
(***************************************************************************)
(* A sleeper: IOManager::idle() as far as it deals with timers.  "busy":   *)
(* in run() or in a task, not counted in m_idleThreadCount.                *)
(***************************************************************************)

\* ++m_idleThreadCount, idle_fiber->swapIn().
EnterIdle(s) ==
  /\ spc[s] = "busy"
  /\ spc' = [spc EXCEPT ![s] = "next"]
  /\ UNCHANGED <<now, timerVars, clientVars, tickled, basis, now_ms, got, fired, ruined>>

\* getNextTimer(): the timeout reaches to the first timer.
GetNextTimer(s) ==
  /\ spc[s] = "next"
  /\ \/ m_timers = {} /\ basis' = [basis EXCEPT ![s] = Never]
     \/ \E t \in m_timers : IsFirst(t, m_timers) /\ basis' = [basis EXCEPT ![s] = m_next[t]]
  /\ spc' = [spc EXCEPT ![s] = "asleep"]
  /\ UNCHANGED <<now, timerVars, clientVars, tickled, now_ms, got, fired, ruined>>

\* epoll_wait returns: with the pipe, or at its timeout, which is capped at
\* MAX_TIMEOUT and so can run out before the first timer is due.
Wake(s) ==
  /\ spc[s] = "asleep"
  /\ spc' = [spc EXCEPT ![s] = "list"]
  /\ basis' = [basis EXCEPT ![s] = Never]
  /\ got' = IF tickled THEN got \cup {s} ELSE got
  /\ UNCHANGED <<now, timerVars, clientVars, tickled, now_ms, fired, ruined>>

\* Faulty variant: rounds the clock up.
ReadClock_Ahead(s) ==
  /\ spc[s] = "list"
  /\ now_ms' = [now_ms EXCEPT ![s] = IF m_timers = {} THEN 0 ELSE now + 1]
  /\ spc' = [spc EXCEPT ![s] = IF m_timers = {} THEN "drain" ELSE "take"]
  /\ UNCHANGED <<now, timerVars, clientVars, tickled, basis, got, fired, ruined>>

\* listExpiredCb(): the clock is read first; with an empty set it returns.
ReadClock(s) ==
  /\ spc[s] = "list"
  /\ now_ms' = [now_ms EXCEPT ![s] = IF m_timers = {} THEN 0 ELSE now]
  /\ spc' = [spc EXCEPT ![s] = IF m_timers = {} THEN "drain" ELSE "take"]
  /\ UNCHANGED <<now, timerVars, clientVars, tickled, basis, got, fired, ruined>>

\* Faulty variant: m_next of a recurring timer is not advanced.
ListExpiredCb_NoAdvance(s) ==
  /\ spc[s] = "take"
  /\ NoReader
  /\ LET expired == {t \in m_timers : m_next[t] <= now_ms[s]}
     IN  /\ m_timers' = m_timers \ (expired \ Recurring)
         /\ fired' = [t \in Timers |->
                        IF t \in expired /\ fired[t] < 2 THEN fired[t] + 1 ELSE fired[t]]
  /\ now_ms' = [now_ms EXCEPT ![s] = 0]
  /\ spc' = [spc EXCEPT ![s] = "drain"]
  /\ UNCHANGED <<now, known, m_next, m_ms, m_cb, clientVars, tickled, basis, got, ruined>>

\* The part under the write lock.  detectClockRollover never answers true.
ListExpiredCb(s) ==
  /\ spc[s] = "take"
  /\ NoReader
  /\ LET expired == {t \in m_timers : m_next[t] <= now_ms[s]}
     IN  /\ m_timers' = m_timers \ (expired \ Recurring)
         /\ m_next' = [t \in Timers |->
                         m_next[t] + (IF t \in expired \cap Recurring THEN m_ms[t] ELSE 0)]
         /\ fired' = [t \in Timers |->
                        IF t \in expired /\ fired[t] < 2 THEN fired[t] + 1 ELSE fired[t]]
  /\ now_ms' = [now_ms EXCEPT ![s] = 0]
  /\ spc' = [spc EXCEPT ![s] = "drain"]
  /\ UNCHANGED <<now, known, m_ms, m_cb, clientVars, tickled, basis, got, ruined>>

\* while (read(m_tickleFds[0], &dummy, 1) == 1); then back to run().
Drain(s) ==
  /\ spc[s] = "drain"
  /\ tickled' = (tickled /\ s \notin got)
  /\ got' = got \ {s}
  /\ spc' = [spc EXCEPT ![s] = "busy"]
  /\ UNCHANGED <<now, timerVars, clientVars, basis, now_ms, fired, ruined>>

Tick ==
  /\ now < MaxTime
  /\ now' = now + 1
  /\ UNCHANGED <<timerVars, clientVars, tickled, sleeperVars, fired, ruined>>

Client(c) ==
  \/ \E t \in Timers, ms \in Delays : AddTimer(c, t, ms)
  \/ InsertBegin(c)
  \/ InsertEnd(c)
  \/ Notify(c)
  \/ \E t \in Timers : Cancel(c, t)
  \/ \E t \in Timers : Refresh(c, t)
  \/ \E t \in Timers : ResetErase(c, t)
  \/ \E ms \in Delays, from_now \in BOOLEAN : ResetUpdate(c, ms, from_now)

Sleeper(s) ==
  \/ EnterIdle(s)
  \/ GetNextTimer(s)
  \/ Wake(s)
  \/ ReadClock(s)
  \/ ListExpiredCb(s)
  \/ Drain(s)

Next ==
  \/ ~ruined /\ \E c \in Clients : Client(c)
  \/ ~ruined /\ \E s \in Sleepers : Sleeper(s)
  \/ ~ruined /\ Tick

Spec == Init /\ [][Next]_vars

(***************************************************************************)
(* The kernel schedules the idle threads and the clock advances; a client  *)
(* that is inside addTimer or reset goes on.  The write lock of            *)
(* listExpiredCb is granted sooner or later although readers come and go.  *)
(***************************************************************************)
Fairness ==
  /\ WF_vars(~ruined /\ Tick)
  /\ \A c \in Clients :
       WF_vars(~ruined /\ (InsertBegin(c) \/ InsertEnd(c) \/ Notify(c)))
  /\ \A s \in Sleepers :
       /\ WF_vars(~ruined /\ Sleeper(s))
       /\ SF_vars(~ruined /\ ListExpiredCb(s))

FairSpec == Spec /\ Fairness

-----------------------------------------------------------------------------
(***************************************************************************)
(* Properties.                                                             *)
(***************************************************************************)

\* No lost wakeup: while timers are set, somebody will look at the first one in
\* time: an idle thread's timeout reaches no further than it, or a tickle is
\* in the pipe or about to be written, or a thread is not asleep and will
\* compute its timeout anew (addTimer/at_front, tickle and idle() together).
CoveredSleep ==
  m_timers # {} =>
    \/ \E s \in Sleepers : spc[s] # "asleep"
    \/ tickled
    \/ \E c \in Clients : cpc[c] = "notify"
    \/ \E s \in Sleepers : \A t \in m_timers : basis[s] <= m_next[t]

\* A timer's callback is collected only when its time has come, although
\* listExpiredCb reads the clock before it takes the lock, and only while the
\* timer has not been cancelled.
FiresWhenDue ==
  [][\A t \in Timers : fired'[t] # fired[t] => m_next[t] <= now /\ t \in m_cb]_vars

\* The callback of a one-shot timer is collected at most once, whatever
\* refresh and reset do around its expiry and however many threads list.
OneShotOnce == \A t \in Timers \ Recurring : fired[t] < 2

\* A timer that is due does not stay in the list for ever.
DueTimersFire ==
  \A t \in Timers :
    (t \in m_timers /\ m_next[t] <= now)
      ~> (t \notin m_timers \/ m_next[t] > now \/ ruined)

\* cancel() takes the timer out of the timer list: it is only ever asked to
\* erase a timer that is there.
CancelErasesListed ==
  [][m_cb \ m_cb' \subseteq m_timers]_vars
=============================================================================
