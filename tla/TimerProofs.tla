---------------------------- MODULE TimerProofs ----------------------------
(***************************************************************************)
(* Proofs about TimerManager for every number of timers, of threads that   *)
(* use them and of idle threads that share the tickle pipe.                *)
(*                                                                         *)
(* The inductive invariant says how far ahead of the clock a timer can be, *)
(* which makes refresh() harmless for sleepers, and that a timer is in one *)
(* place only: in the set, or in the hands of one thread that will insert  *)
(* it.                                                                     *)
(***************************************************************************)
EXTENDS TimerManager, TLAPS

\* Client c has its timer outside the set and will insert it.
Holds(c) == cpc[c] \in {"insert", "inserting", "racing", "update"}

\* m_next is a start time that has been reached plus m_ms, and listExpiredCb
\* uses a time that has passed.
TimeInv ==
  /\ \A t \in Timers : m_ms[t] <= m_next[t] /\ m_next[t] <= now + m_ms[t]
  /\ \A s \in Sleepers : now_ms[s] <= now

\* A timer is in one place only.
PlaceInv ==
  /\ \A c \in Clients : cpc[c] # "idle" => arg[c] \in Timers
  /\ \A c \in Clients : cpc[c] = "idle" => arg[c] = NoTimer
  /\ \A c \in Clients : Holds(c) => arg[c] \notin m_timers
  /\ \A c, d \in Clients : Holds(c) /\ Holds(d) /\ arg[c] = arg[d] => c = d

\* The program knows every timer in the set, or addTimer is about to return it.
Seen(t) == t \in known \/ \E c \in Clients : arg[c] = t

SeenInv == \A t \in m_timers : Seen(t)

\* Up to undefined behaviour a timer that may fire has its callback.
CbInv ==
  ~ruined => /\ m_timers \subseteq m_cb
             /\ \A c \in Clients : Holds(c) => arg[c] \in m_cb

\* A one-shot timer that fired is out of the set for ever.
OnceInv ==
  \A t \in Timers \ Recurring :
    fired[t] # 0 => /\ fired[t] = 1
                    /\ t \notin m_timers
                    /\ \A c \in Clients : Holds(c) => arg[c] # t
                    /\ Seen(t)

IInv == TypeOK /\ TimeInv /\ PlaceInv /\ SeenInv /\ CbInv /\ OnceInv /\ CoveredSleep

LEMMA InitIInv == Init => IInv
<1> SUFFICES ASSUME Init PROVE IInv
  OBVIOUS
<1> USE TimerAssumption DEF Init
<1>1. TypeOK
  <2>1. now \in 0..MaxTime /\ now_ms \in [Sleepers -> 0..MaxTime] /\ basis \in [Sleepers -> Nat]
    OBVIOUS
  <2>2. m_next \in [Timers -> Nat] /\ m_ms \in [Timers -> Nat] /\ fired \in [Timers -> 0..2]
    OBVIOUS
  <2> QED BY <2>1, <2>2 DEF TypeOK
<1>2. TimeInv
  BY DEF TimeInv
<1>3. PlaceInv
  BY DEF PlaceInv, Holds
<1>4. SeenInv /\ CbInv /\ CoveredSleep
  BY DEF SeenInv, CbInv, Holds, CoveredSleep
<1>5. OnceInv
  BY DEF OnceInv
<1> QED BY <1>1, <1>2, <1>3, <1>4, <1>5 DEF IInv

LEMMA AddTimerStep ==
  ASSUME IInv, NEW c \in Clients, NEW t \in Timers, NEW ms \in Delays, AddTimer(c, t, ms)
  PROVE  IInv'
<1> USE TimerAssumption DEF IInv, AddTimer, Advance, sleeperVars
<1>1. TypeOK'
  BY DEF TypeOK
<1>2. TimeInv'
  BY DEF TypeOK, TimeInv
<1>3. t \notin m_timers /\ fired[t] \in 0..2 /\ (t \notin Recurring => fired[t] = 0)
  BY DEF TypeOK, SeenInv, Seen, OnceInv
<1>4. PlaceInv'
  BY <1>3 DEF TypeOK, PlaceInv, Holds
<1>5. \A u \in Timers : Seen(u) => Seen(u)'
  BY DEF TypeOK, PlaceInv, Seen
<1>6. SeenInv' /\ CbInv'
  BY <1>3, <1>5 DEF TypeOK, SeenInv, CbInv, Holds
<1>7. OnceInv'
  BY <1>3, <1>5 DEF TypeOK, OnceInv, Holds
<1>8. CoveredSleep'
  BY <1>3 DEF TypeOK, CoveredSleep
<1> QED BY <1>1, <1>2, <1>4, <1>6, <1>7, <1>8

LEMMA InsertBeginStep ==
  ASSUME IInv, NEW c \in Clients, InsertBegin(c)
  PROVE  IInv'
<1> USE TimerAssumption DEF IInv, InsertBegin, timerVars, sleeperVars
<1>1. /\ \A d \in Clients : Holds(d)' <=> Holds(d)
      /\ \A d \in Clients : cpc'[d] = "idle" <=> cpc[d] = "idle"
      /\ \A d \in Clients : cpc'[d] = "notify" <=> cpc[d] = "notify"
  BY DEF TypeOK, Holds, Inserters
<1>2. TypeOK'
  BY DEF TypeOK
<1>3. TimeInv' /\ PlaceInv' /\ SeenInv' /\ CbInv'
  BY <1>1 DEF TimeInv, PlaceInv, SeenInv, Seen, CbInv
<1>4. OnceInv'
  BY <1>1 DEF OnceInv, Seen
<1>5. CoveredSleep'
  BY <1>1 DEF CoveredSleep
<1> QED BY <1>2, <1>3, <1>4, <1>5

LEMMA InsertEndStep ==
  ASSUME IInv, ~ruined, NEW c \in Clients, InsertEnd(c)
  PROVE  IInv'
<1> USE TimerAssumption DEF IInv, InsertEnd, Advance, Return, sleeperVars
<1>1. arg[c] \in Timers /\ arg[c] \notin m_timers /\ Holds(c)
  BY DEF TypeOK, PlaceInv, Holds
<1>2. TypeOK'
  BY <1>1 DEF TypeOK
<1>3. TimeInv'
  BY DEF TimeInv
<1>4. /\ \A d \in Clients : Holds(d)' <=> Holds(d) /\ d # c
      /\ \A d \in Clients : d # c => cpc'[d] = cpc[d] /\ arg'[d] = arg[d]
      /\ m_timers' \subseteq m_timers \cup {arg[c]}
  BY DEF TypeOK, Holds
<1>5. PlaceInv'
  BY <1>1, <1>4 DEF TypeOK, PlaceInv
<1>6. \A u \in Timers : Seen(u) => Seen(u)'
  BY <1>1, <1>4 DEF TypeOK, Seen
<1>7. SeenInv'
  BY <1>1, <1>4, <1>6 DEF TypeOK, SeenInv, Seen
<1>8. CbInv'
  BY <1>1, <1>4 DEF TypeOK, CbInv
<1>9. OnceInv'
  BY <1>1, <1>4, <1>6 DEF TypeOK, OnceInv
<1>10. CoveredSleep'
  <2>1. CASE m_timers' = m_timers
    BY <1>4, <2>1 DEF TypeOK, CoveredSleep, Holds
  <2>2. CASE m_timers' = m_timers \cup {arg[c]} /\ IsFirst(arg[c], m_timers')
    BY <1>1, <2>2 DEF TypeOK, CoveredSleep
  <2>3. CASE m_timers' = m_timers \cup {arg[c]} /\ ~IsFirst(arg[c], m_timers')
    <3>1. PICK u \in m_timers : m_next[u] < m_next[arg[c]]
      BY <1>1, <2>3 DEF TypeOK, IsFirst
    <3>2. \A s \in Sleepers : basis[s] <= m_next[u] => basis[s] <= m_next[arg[c]]
      BY <1>1, <3>1 DEF TypeOK
    <3>3. \A d \in Clients : cpc[d] = "notify" => cpc'[d] = "notify"
      BY <1>1, <1>4 DEF Holds
    <3> QED BY <2>3, <3>1, <3>2, <3>3 DEF TypeOK, CoveredSleep
  <2> QED BY <2>1, <2>2, <2>3
<1> QED BY <1>2, <1>3, <1>5, <1>7, <1>8, <1>9, <1>10

LEMMA NotifyStep ==
  ASSUME IInv, NEW c \in Clients, Notify(c)
  PROVE  IInv'
<1> USE TimerAssumption DEF IInv, Notify, Advance, Return, sleeperVars
<1>1. arg[c] \in Timers /\ ~Holds(c)
  BY DEF TypeOK, PlaceInv, Holds
<1>2. TypeOK'
  BY <1>1 DEF TypeOK
<1>3. TimeInv'
  BY DEF TimeInv
<1>4. /\ \A d \in Clients : Holds(d)' <=> Holds(d)
      /\ \A d \in Clients : d # c => cpc'[d] = cpc[d] /\ arg'[d] = arg[d]
      /\ cpc'[c] = "idle" /\ arg'[c] = NoTimer
  BY <1>1 DEF TypeOK, Holds
<1>5. PlaceInv'
  BY <1>1, <1>4 DEF PlaceInv
<1>6. \A u \in Timers : Seen(u) => Seen(u)'
  BY <1>1, <1>4 DEF TypeOK, Seen
<1>7. SeenInv' /\ CbInv'
  BY <1>1, <1>4, <1>6 DEF TypeOK, SeenInv, CbInv
<1>8. OnceInv'
  BY <1>1, <1>4, <1>6 DEF TypeOK, OnceInv
<1>9. CoveredSleep'
  BY DEF TypeOK, CoveredSleep
<1> QED BY <1>2, <1>3, <1>5, <1>7, <1>8, <1>9

LEMMA CancelStep ==
  ASSUME IInv, ~ruined, NEW c \in Clients, NEW t \in Timers, Cancel(c, t)
  PROVE  IInv'
<1> USE TimerAssumption DEF IInv, Cancel, clientVars, sleeperVars
<1>1. TypeOK'
  BY DEF TypeOK
<1>2. TimeInv' /\ PlaceInv'
  BY DEF TimeInv, PlaceInv, Holds
<1>3. SeenInv' /\ CoveredSleep'
  BY DEF SeenInv, Seen, CoveredSleep
<1>4. CbInv'
  BY DEF CbInv, PlaceInv, Holds
<1>5. OnceInv'
  BY DEF OnceInv, Seen, Holds
<1> QED BY <1>1, <1>2, <1>3, <1>4, <1>5

LEMMA RefreshStep ==
  ASSUME IInv, NEW c \in Clients, NEW t \in Timers, Refresh(c, t)
  PROVE  IInv'
<1> USE TimerAssumption DEF IInv, Refresh, clientVars, sleeperVars
<1>1. TypeOK'
  BY DEF TypeOK
<1>2. TimeInv'
  BY DEF TypeOK, TimeInv
<1>3. PlaceInv' /\ SeenInv' /\ CbInv'
  BY DEF PlaceInv, Holds, SeenInv, Seen, CbInv
<1>4. OnceInv'
  BY DEF OnceInv, Seen, Holds
<1>5. \A u \in Timers : m_next[u] <= m_next'[u]
  BY DEF TypeOK, TimeInv
<1>6. \A s \in Sleepers, u \in Timers : basis[s] <= m_next[u] => basis[s] <= m_next'[u]
  BY <1>1, <1>5 DEF TypeOK
<1>7. CoveredSleep'
  BY <1>6 DEF TypeOK, CoveredSleep
<1> QED BY <1>1, <1>2, <1>3, <1>4, <1>7

LEMMA ResetEraseStep ==
  ASSUME IInv, NEW c \in Clients, NEW t \in Timers, ResetErase(c, t)
  PROVE  IInv'
<1> USE TimerAssumption DEF IInv, ResetErase, Advance, sleeperVars
<1>1. TypeOK'
  BY DEF TypeOK
<1>2. TimeInv'
  BY DEF TimeInv
<1>3. /\ \A d \in Clients : Holds(d)' <=> Holds(d) \/ d = c
      /\ \A d \in Clients : d # c => cpc'[d] = cpc[d] /\ arg'[d] = arg[d]
      /\ cpc'[c] = "update" /\ arg'[c] = t
  BY DEF TypeOK, Holds
<1>4. PlaceInv'
  BY <1>3 DEF PlaceInv
<1>5. \A u \in Timers : Seen(u) => Seen(u)'
  BY <1>3 DEF TypeOK, PlaceInv, Seen
<1>6. SeenInv' /\ CbInv'
  BY <1>3, <1>5 DEF TypeOK, SeenInv, CbInv
<1>7. OnceInv'
  BY <1>3, <1>5 DEF TypeOK, OnceInv
<1>8. CoveredSleep'
  BY <1>3 DEF TypeOK, CoveredSleep
<1> QED BY <1>1, <1>2, <1>4, <1>6, <1>7, <1>8

LEMMA ResetUpdateStep ==
  ASSUME IInv, NEW c \in Clients, NEW ms \in Delays, NEW from_now \in BOOLEAN, ResetUpdate(c, ms, from_now)
  PROVE  IInv'
<1> USE TimerAssumption DEF IInv, ResetUpdate, Advance, sleeperVars
<1>1. arg[c] \in Timers /\ arg[c] \notin m_timers /\ Holds(c)
  BY DEF TypeOK, PlaceInv, Holds
<1>2. m_next' \in [Timers -> Nat] /\ TimeInv'
  <2>1. m_ms[arg[c]] \in Nat /\ m_next[arg[c]] \in Nat /\ now \in Nat /\ ms \in Nat
    BY <1>1 DEF TypeOK
  <2>2. m_next[arg[c]] - m_ms[arg[c]] \in Nat /\ m_next[arg[c]] - m_ms[arg[c]] <= now
    BY <1>1, <2>1 DEF TimeInv
  <2> QED BY <1>1, <2>1, <2>2 DEF TypeOK, TimeInv
<1>3. TypeOK'
  BY <1>1, <1>2 DEF TypeOK
<1>4. arg' = arg /\ \A d \in Clients : Holds(d)' <=> Holds(d)
  BY <1>1 DEF TypeOK, Holds
<1>5. \A d \in Clients : d # c => cpc'[d] = cpc[d]
  BY DEF TypeOK
<1>6. PlaceInv' /\ SeenInv' /\ CbInv'
  BY <1>1, <1>4, <1>5 DEF TypeOK, PlaceInv, SeenInv, Seen, CbInv
<1>7. OnceInv'
  BY <1>4 DEF OnceInv, Seen
<1>8. CoveredSleep'
  BY <1>1, <1>5 DEF TypeOK, CoveredSleep
<1> QED BY <1>2, <1>3, <1>6, <1>7, <1>8

\* Steps that leave the timers and the clients alone.
LEMMA SleeperFrame ==
  ASSUME IInv, TypeOK', UNCHANGED <<now, timerVars, clientVars, fired, ruined>>,
         \A s \in Sleepers : now_ms'[s] <= now
  PROVE  TimeInv' /\ PlaceInv' /\ SeenInv' /\ CbInv' /\ OnceInv'
<1> USE DEF IInv, timerVars, clientVars
<1>1. TimeInv'
  BY DEF TimeInv
<1>2. PlaceInv' /\ SeenInv' /\ CbInv'
  BY DEF PlaceInv, Holds, SeenInv, Seen, CbInv
<1>3. OnceInv'
  BY DEF OnceInv, Seen, Holds
<1> QED BY <1>1, <1>2, <1>3

LEMMA EnterIdleStep ==
  ASSUME IInv, NEW s \in Sleepers, EnterIdle(s)
  PROVE  IInv'
<1> USE TimerAssumption DEF IInv, EnterIdle
<1>1. TypeOK'
  BY DEF TypeOK, timerVars, clientVars
<1>2. \A r \in Sleepers : now_ms'[r] <= now
  BY DEF TypeOK, TimeInv
<1>3. CoveredSleep'
  BY DEF TypeOK, CoveredSleep
<1> QED BY <1>1, <1>2, <1>3, SleeperFrame

LEMMA WakeStep ==
  ASSUME IInv, NEW s \in Sleepers, Wake(s)
  PROVE  IInv'
<1> USE TimerAssumption DEF IInv, Wake
<1>1. TypeOK'
  BY DEF TypeOK, timerVars, clientVars
<1>2. \A r \in Sleepers : now_ms'[r] <= now
  BY DEF TypeOK, TimeInv
<1>3. CoveredSleep'
  BY DEF TypeOK, CoveredSleep
<1> QED BY <1>1, <1>2, <1>3, SleeperFrame

LEMMA ReadClockStep ==
  ASSUME IInv, NEW s \in Sleepers, ReadClock(s)
  PROVE  IInv'
<1> USE TimerAssumption DEF IInv, ReadClock
<1>1. TypeOK'
  BY DEF TypeOK, timerVars, clientVars
<1>2. \A r \in Sleepers : now_ms'[r] <= now
  BY DEF TypeOK, TimeInv
<1>3. CoveredSleep'
  BY DEF TypeOK, CoveredSleep
<1> QED BY <1>1, <1>2, <1>3, SleeperFrame

LEMMA DrainStep ==
  ASSUME IInv, NEW s \in Sleepers, Drain(s)
  PROVE  IInv'
<1> USE TimerAssumption DEF IInv, Drain
<1>1. TypeOK'
  BY DEF TypeOK, timerVars, clientVars
<1>2. \A r \in Sleepers : now_ms'[r] <= now
  BY DEF TypeOK, TimeInv
<1>3. CoveredSleep'
  BY DEF TypeOK, CoveredSleep
<1> QED BY <1>1, <1>2, <1>3, SleeperFrame

LEMMA GetNextTimerStep ==
  ASSUME IInv, NEW s \in Sleepers, GetNextTimer(s)
  PROVE  IInv'
<1> USE TimerAssumption DEF IInv, GetNextTimer
<1>1. TypeOK'
  BY DEF TypeOK, timerVars, clientVars
<1>2. \A r \in Sleepers : now_ms'[r] <= now
  BY DEF TypeOK, TimeInv
<1>3. CoveredSleep'
  <2>1. CASE m_timers = {}
    BY <2>1 DEF CoveredSleep, timerVars
  <2>2. CASE m_timers # {}
    <3>1. \A t \in m_timers : basis'[s] <= m_next[t]
      BY <2>2 DEF TypeOK, IsFirst
    <3> QED BY <3>1 DEF CoveredSleep, timerVars
  <2> QED BY <2>1, <2>2
<1> QED BY <1>1, <1>2, <1>3, SleeperFrame

LEMMA ListExpiredCbStep ==
  ASSUME IInv, NEW s \in Sleepers, ListExpiredCb(s)
  PROVE  IInv'
<1> DEFINE expired == {t \in m_timers : m_next[t] <= now_ms[s]}
<1> USE TimerAssumption DEF IInv, ListExpiredCb, clientVars
<1>1. /\ m_timers' = m_timers \ (expired \ Recurring)
      /\ m_next' = [t \in Timers |->
                      m_next[t] + (IF t \in expired \cap Recurring THEN m_ms[t] ELSE 0)]
      /\ fired' = [t \in Timers |->
                     IF t \in expired /\ fired[t] < 2 THEN fired[t] + 1 ELSE fired[t]]
  OBVIOUS
<1> HIDE DEF expired
<1>2. expired \subseteq m_timers /\ \A t \in expired : m_next[t] <= now_ms[s]
  BY DEF expired
<1>3. TypeOK'
  <2>1. m_next' \in [Timers -> Nat]
    BY <1>1 DEF TypeOK
  <2>2. fired' \in [Timers -> 0..2]
    BY <1>1 DEF TypeOK
  <2> QED BY <1>1, <2>1, <2>2 DEF TypeOK
<1>4. TimeInv'
  <2>1. \A t \in Timers : m_ms[t] <= m_next'[t] /\ m_next'[t] <= now + m_ms[t]
    <3> TAKE t \in Timers
    <3>1. m_ms[t] \in Nat /\ m_next[t] \in Nat /\ now \in Nat /\ now_ms[s] \in Nat
      BY DEF TypeOK
    <3>2. CASE t \in expired \cap Recurring
      <4>1. m_next[t] <= now_ms[s] /\ now_ms[s] <= now
        BY <1>2, <3>2 DEF TimeInv
      <4>2. m_next'[t] = m_next[t] + m_ms[t]
        BY <1>1, <3>2
      <4> QED BY <3>1, <4>1, <4>2
    <3>3. CASE t \notin expired \cap Recurring
      <4>1. m_next'[t] = m_next[t]
        BY <1>1, <3>1, <3>3
      <4> QED BY <4>1 DEF TimeInv
    <3> QED BY <3>2, <3>3
  <2>2. \A r \in Sleepers : now_ms'[r] <= now
    BY DEF TypeOK, TimeInv
  <2> QED BY <2>1, <2>2 DEF TimeInv
<1>5. PlaceInv' /\ SeenInv' /\ CbInv'
  BY <1>1 DEF PlaceInv, Holds, SeenInv, Seen, CbInv
<1>6. OnceInv'
  <2> SUFFICES ASSUME NEW t \in Timers \ Recurring, fired'[t] # 0
               PROVE  /\ fired'[t] = 1
                      /\ t \notin m_timers'
                      /\ \A c \in Clients : Holds(c) => arg[c] # t
                      /\ Seen(t)
    BY DEF OnceInv, Holds, Seen
  <2>1. CASE t \in expired
    BY <1>1, <1>2, <2>1 DEF TypeOK, OnceInv, PlaceInv, SeenInv
  <2>2. CASE t \notin expired
    BY <1>1, <2>2 DEF OnceInv
  <2> QED BY <2>1, <2>2
<1>7. CoveredSleep'
  BY DEF TypeOK, CoveredSleep
<1> QED BY <1>3, <1>4, <1>5, <1>6, <1>7

LEMMA TickStep == ASSUME IInv, Tick PROVE IInv'
<1> USE TimerAssumption DEF IInv, Tick, timerVars, clientVars, sleeperVars
<1>1. TypeOK'
  BY DEF TypeOK
<1>2. TimeInv'
  BY DEF TypeOK, TimeInv
<1>3. PlaceInv' /\ SeenInv' /\ CbInv' /\ CoveredSleep'
  BY DEF PlaceInv, Holds, SeenInv, Seen, CbInv, CoveredSleep
<1>4. OnceInv'
  BY DEF OnceInv, Seen, Holds
<1> QED BY <1>1, <1>2, <1>3, <1>4

LEMMA NextIInv == IInv /\ [Next]_vars => IInv'
<1> SUFFICES ASSUME IInv, [Next]_vars PROVE IInv'
  OBVIOUS
<1>1. CASE UNCHANGED vars
  <2> USE <1>1 DEF IInv, vars, timerVars, clientVars, sleeperVars
  <2>1. TypeOK' /\ TimeInv'
    BY DEF TypeOK, TimeInv
  <2>2. PlaceInv' /\ SeenInv' /\ CbInv' /\ CoveredSleep'
    BY DEF PlaceInv, Holds, SeenInv, Seen, CbInv, CoveredSleep
  <2>3. OnceInv'
    BY DEF OnceInv, Seen, Holds
  <2> QED BY <2>1, <2>2, <2>3
<1>2. CASE ~ruined /\ \E c \in Clients : Client(c)
  <2>1. PICK c \in Clients : Client(c)
    BY <1>2
  <2> QED BY <1>2, <2>1, AddTimerStep, InsertBeginStep, InsertEndStep, NotifyStep,
             CancelStep, RefreshStep, ResetEraseStep, ResetUpdateStep DEF Client
<1>3. CASE ~ruined /\ \E s \in Sleepers : Sleeper(s)
  BY <1>3, EnterIdleStep, GetNextTimerStep, WakeStep, ReadClockStep,
     ListExpiredCbStep, DrainStep DEF Sleeper
<1>4. CASE ~ruined /\ Tick
  BY <1>4, TickStep
<1> QED BY <1>1, <1>2, <1>3, <1>4 DEF Next

\* The invariant of TimerManager holds in every reachable state.
THEOREM Invariance == Spec => []IInv
BY InitIInv, NextIInv, PTL DEF Spec

-----------------------------------------------------------------------------
\* Type correctness: in particular m_next stays a natural number although
\* reset() subtracts the old m_ms from it.
THEOREM TypeCorrect == Spec => []TypeOK
<1>1. IInv => TypeOK
  BY DEF IInv
<1> QED BY Invariance, <1>1, PTL

\* No wakeup is lost, for any number of idle threads that share the one pipe:
\* the earliest timer is covered by a timeout, a tickle or a thread that is
\* awake.  The set is inserted into under a read lock and sleepers compute
\* their timeout without one; refresh() does not tickle at all.
THEOREM NoLostWakeup == Spec => []CoveredSleep
<1>1. IInv => CoveredSleep
  BY DEF IInv
<1> QED BY Invariance, <1>1, PTL

\* listExpiredCb on any number of threads, refresh() and reset() collect the
\* callback of a one-shot timer at most once.
THEOREM OneShot == Spec => []OneShotOnce
<1>1. IInv => OneShotOnce
  BY DEF IInv, OnceInv, OneShotOnce
<1> QED BY Invariance, <1>1, PTL

\* Callbacks are collected only when due and not after cancel().
THEOREM NeverEarly == Spec => FiresWhenDue
<1> DEFINE A == \A t \in Timers : fired'[t] # fired[t] => m_next[t] <= now /\ t \in m_cb
<1>1. IInv /\ [Next]_vars => [A]_vars
  <2> SUFFICES ASSUME IInv, Next, NEW t \in Timers, fired'[t] # fired[t]
               PROVE  m_next[t] <= now /\ t \in m_cb
    OBVIOUS
  <2>1. ~ruined /\ \E s \in Sleepers : ListExpiredCb(s)
    BY DEF Next, Client, Sleeper, Tick, AddTimer, InsertBegin, InsertEnd, Notify, Cancel,
           Refresh, ResetErase, ResetUpdate, EnterIdle, GetNextTimer, Wake, ReadClock, Drain
  <2>2. PICK s \in Sleepers : ListExpiredCb(s)
    BY <2>1
  <2>3. t \in m_timers /\ m_next[t] <= now_ms[s]
    BY <2>2 DEF ListExpiredCb, IInv, TypeOK
  <2>4. t \in m_cb
    BY <2>1, <2>3 DEF IInv, CbInv
  <2>5. m_next[t] \in Nat /\ now_ms[s] \in Nat /\ now \in Nat /\ now_ms[s] <= now
    BY TimerAssumption DEF IInv, TypeOK, TimeInv
  <2> QED BY <2>3, <2>4, <2>5
<1> QED BY Invariance, <1>1, PTL DEF Spec, FiresWhenDue
=============================================================================
