-------------------------- MODULE SchedulerProofs --------------------------
(***************************************************************************)
(* Proofs about Scheduler for every pool size, every set of tasks, with    *)
(* and without use_caller, and about IOManager, which inherits its steps.  *)
(*                                                                         *)
(* Scheduler: the inductive invariant says that the counters count what    *)
(* they are meant to count, that a task in progress is always in exactly   *)
(* one place from which it will advance (an entry of m_fibers, or a thread *)
(* that is about to run it or runs it), and that whoever concluded from    *)
(* stopping() that the work is over was right.  From it follow also that   *)
(* swapIn is safe as long as no task changes threads, and that the         *)
(* scheduler implements TaskPool.                                          *)
(*                                                                         *)
(* IOManager: types; the count of pending events that stopping() reads;    *)
(* and, with use_caller and callbacks that arm no others, that stop()      *)
(* leaves nothing armed and that IOManager implements TaskPool.            *)
(***************************************************************************)
EXTENDS IOManager, FiniteSetTheorems, SequenceTheorems, TLAPS

Queued(k) == \E i \in DOMAIN m_fibers : m_fibers[i].task = k

\* Thread t has the fiber in hand and its next step on it is still to come.
Advances(t) == pc[t] \in {"tickle", "dispatch", "exec", "aborted", "wrecked"}

OnStack(t) == pc[t] \in {"exec", "yield", "swapout"}

Advancing(k) == Queued(k) \/ \E t \in Threads : ft[t] = k /\ Advances(t)

\* A thread has a task in hand exactly where run() has one.
HandInv ==
  \A t \in Threads :
    /\ pc[t] \in {"exec", "yield", "swapout", "back", "aborted", "wrecked"}
         => ft[t] # NoTask
    /\ pc[t] \in {"off", "fetch", "loop", "idle", "unidle", "done"}
         => ft[t] = NoTask

\* No thread is in run() before start(), nor the caller's before stop().
PhaseInv ==
  /\ main = "setup" => \A t \in Threads : pc[t] = "off"
  /\ UseCaller /\ main \in {"setup", "started", "stopping", "draining"}
       => pc[Caller] = "off"

\* A task in progress is in one place only from which it advances: it is queued
\* once, no queued task is held by a thread that is about to run it, no two
\* threads are about to run the same task or execute on the same stack, and a
\* task that ended is in no such place.
QueueDistinct ==
  \A i, j \in DOMAIN m_fibers : m_fibers[i].task = m_fibers[j].task => i = j

QueuedNotHeld ==
  \A k \in Tasks, t \in Threads : Queued(k) /\ ft[t] = k => ~Advances(t)

OneThread ==
  \A t, u \in Threads :
    /\ ft[t] # NoTask
    /\ ft[t] = ft[u]
    /\ \/ Advances(t) /\ Advances(u)
       \/ OnStack(t) /\ OnStack(u)
    => t = u

TermIsFinal == \A k \in Tasks : Advancing(k) => m_state[k] # "TERM"

TokenInv == QueueDistinct /\ QueuedNotHeld /\ OneThread /\ TermIsFinal

\* Nothing is lost on the way: a fiber that started and has not ended, and in
\* particular one that is being suspended by switchTo, is in such a place.
ProgressInv ==
  /\ \A k \in Tasks : m_state[k] \notin {"NONE", "TERM"} => Advancing(k)
  /\ \A t \in Threads : pc[t] = "yield" => Advancing(ft[t])

\* Who acts on stopping() is right for ever.
QuietInv ==
  /\ main \notin {"setup", "started"} => m_stopping
  /\ main = "setup" => \A t \in Threads : idle_state[t] = "NONE"
  /\ main = "started" => ~m_stopping
  /\ \A t \in Threads : pc[t] = "done" => idle_state[t] = "TERM"
  /\ \A t \in Threads : idle_state[t] = "TERM" => Stopping
  /\ main = "joining" /\ UseCaller => Stopping
  /\ main = "returned" => Stopping

IInv ==
  /\ TypeOK
  /\ ActiveCountExact
  /\ IdleCountExact
  /\ HandInv
  /\ PhaseInv
  /\ TokenInv
  /\ ProgressInv
  /\ QuietInv

-----------------------------------------------------------------------------
(***************************************************************************)
(* The queue.                                                              *)
(***************************************************************************)

\* Erasing one entry leaves a shorter queue of the other entries.
LEMMA EraseFacts ==
  ASSUME NEW S, NEW s \in Seq(S), NEW i \in DOMAIN s
  PROVE  /\ Erase(s, i) \in Seq(S)
         /\ Len(Erase(s, i)) = Len(s) - 1
         /\ \A j \in DOMAIN Erase(s, i) :
              \E m \in DOMAIN s : m # i /\ Erase(s, i)[j] = s[m]
                                  /\ m = IF j < i THEN j ELSE j + 1
         /\ \A m \in DOMAIN s :
              m # i => \E j \in DOMAIN Erase(s, i) : Erase(s, i)[j] = s[m]
<1> DEFINE n == Len(s) - 1
           e == Erase(s, i)
<1>1. n \in Nat /\ i \in 1..(n + 1) /\ DOMAIN s = 1..(n + 1)
  OBVIOUS
<1>2. e = [j \in 1..n |-> IF j < i THEN s[j] ELSE s[j + 1]]
  BY DEF Erase
<1>3. \A j \in 1..n : e[j] = IF j < i THEN s[j] ELSE s[j + 1]
  BY <1>2
<1>4. e \in Seq(S) /\ Len(e) = n
  <2>1. \A j \in 1..n : (IF j < i THEN s[j] ELSE s[j + 1]) \in S
    BY <1>1
  <2>2. e \in [1..n -> S]
    BY <1>2, <2>1
  <2>3. e \in Seq(S)
    BY <2>2, <1>1, SeqDef
  <2>4. Len(e) \in Nat /\ 1..n = 1..Len(e)
    <3> HIDE DEF e, n
    <3> QED
      BY <2>2, <2>3, LenProperties
  <2>5. \A a, b \in Nat : 1..a = 1..b => a = b
    <3> SUFFICES ASSUME NEW a \in Nat, NEW b \in Nat, 1..a = 1..b, a # b
                 PROVE  FALSE
      OBVIOUS
    <3>1. CASE a < b
      <4>1. b \in 1..b /\ b \notin 1..a
        BY <3>1
      <4> QED
        BY <4>1
    <3>2. CASE b < a
      <4>1. a \in 1..a /\ a \notin 1..b
        BY <3>2
      <4> QED
        BY <4>1
    <3> QED
      BY <3>1, <3>2
  <2> QED
    BY <2>3, <2>4, <2>5, <1>1
<1>5. DOMAIN e = 1..n
  BY <1>2
<1>6. \A j \in DOMAIN e :
        \E m \in DOMAIN s : m # i /\ e[j] = s[m] /\ m = IF j < i THEN j ELSE j + 1
  BY <1>1, <1>3, <1>5
<1>7. ASSUME NEW m \in DOMAIN s, m # i
      PROVE  \E j \in DOMAIN e : e[j] = s[m]
  <2>1. CASE m < i
    <3>1. m \in 1..n /\ e[m] = s[m]
      BY <1>1, <1>3, <2>1
    <3> QED
      BY <3>1, <1>5
  <2>2. CASE m > i
    <3>1. m - 1 \in 1..n /\ e[m - 1] = s[m]
      BY <1>1, <1>3, <2>2
    <3> QED
      BY <3>1, <1>5
  <2> QED
    BY <2>1, <2>2, <1>1, <1>7
<1> QED
  BY <1>4, <1>6, <1>7

\* schedule() and the scheduling half of switchTo add one task to the queue.
LEMMA EnqueueFacts ==
  ASSUME TypeOK, NEW k \in Tasks, NEW thread \in Threads \cup {AnyThread},
         Enqueue(k, thread)
  PROVE  /\ m_fibers' \in Seq(Entry)
         /\ m_fibers' # <<>>
         /\ \A j \in Tasks : Queued(j)' <=> Queued(j) \/ j = k
         /\ ~Queued(k) /\ QueueDistinct => \A i, j \in DOMAIN m_fibers' :
              m_fibers'[i].task = m_fibers'[j].task => i = j
<1> DEFINE e == [task |-> k, threadID |-> thread]
           n == Len(m_fibers)
<1>1. m_fibers \in Seq(Entry) /\ e \in Entry /\ m_fibers' = Append(m_fibers, e)
  BY DEF TypeOK, Entry, Enqueue
<1>2. /\ m_fibers' \in Seq(Entry)
      /\ DOMAIN m_fibers = 1..n /\ DOMAIN m_fibers' = 1..(n + 1) /\ n \in Nat
      /\ m_fibers'[n + 1] = e
      /\ \A i \in 1..n : m_fibers'[i] = m_fibers[i]
  BY <1>1
<1>3. \A j \in Tasks : Queued(j)' <=> Queued(j) \/ j = k
  <2>1. \A i \in 1..(n + 1) : i \in 1..n \/ i = n + 1
    BY <1>2
  <2>2. \A i \in 1..n : i \in 1..(n + 1)
    BY <1>2
  <2>3. n + 1 \in 1..(n + 1) /\ e.task = k
    BY <1>2
  <2> QED
    BY <1>2, <2>1, <2>2, <2>3 DEF Queued
<1>4. m_fibers' # <<>>
  BY <1>1, <1>2
<1>5. ASSUME ~Queued(k), QueueDistinct,
             NEW i \in DOMAIN m_fibers', NEW j \in DOMAIN m_fibers',
             m_fibers'[i].task = m_fibers'[j].task
      PROVE  i = j
  <2>1. \A m \in 1..n : m_fibers[m].task # k
    BY <1>2, <1>5 DEF Queued
  <2>2. \A m, l \in 1..n : m_fibers[m].task = m_fibers[l].task => m = l
    BY <1>2, <1>5 DEF QueueDistinct
  <2>3. e.task = k
    OBVIOUS
  <2> HIDE DEF e
  <2>4. (i \in 1..n \/ i = n + 1) /\ (j \in 1..n \/ j = n + 1)
    BY <1>2
  <2> QED
    BY <1>2, <1>5, <2>1, <2>2, <2>3, <2>4
<1> QED
  BY <1>2, <1>3, <1>4, <1>5

\* The scan of run() moves one queued task into the thread's hand.
LEMMA FetchFacts ==
  ASSUME TypeOK, NEW t \in Threads, FetchTask(t)
  PROVE  /\ m_fibers' \in Seq(Entry)
         /\ \E k \in Tasks :
              /\ ft' = [ft EXCEPT ![t] = k]
              /\ Queued(k)
              /\ \A j \in Tasks : j # k => (Queued(j)' <=> Queued(j))
              /\ QueueDistinct => ~Queued(k)'
         /\ QueueDistinct => \A i, j \in DOMAIN m_fibers' :
                          m_fibers'[i].task = m_fibers'[j].task => i = j
<1>1. PICK i \in DOMAIN m_fibers :
        /\ ft' = [ft EXCEPT ![t] = m_fibers[i].task]
        /\ m_fibers' = Erase(m_fibers, i)
  BY DEF FetchTask
<1>2. m_fibers \in Seq(Entry) /\ m_fibers[i].task \in Tasks
  <2>1. m_fibers \in Seq(Entry)
    BY DEF TypeOK
  <2>2. m_fibers[i] \in Entry
    BY <2>1, LenProperties, ElementOfSeq
  <2> QED
    BY <2>1, <2>2 DEF Entry
<1>3. PICK k \in Tasks : k = m_fibers[i].task
  BY <1>2
<1>4. /\ m_fibers' \in Seq(Entry)
      /\ \A j \in DOMAIN m_fibers' :
           \E m \in DOMAIN m_fibers : m # i /\ m_fibers'[j] = m_fibers[m]
                                      /\ m = IF j < i THEN j ELSE j + 1
      /\ \A m \in DOMAIN m_fibers :
           m # i => \E j \in DOMAIN m_fibers' : m_fibers'[j] = m_fibers[m]
  BY <1>1, <1>2, EraseFacts
<1>5. Queued(k)
  BY <1>3 DEF Queued
<1>6. \A j \in Tasks : j # k => (Queued(j)' <=> Queued(j))
  BY <1>3, <1>4 DEF Queued
<1>7. ASSUME QueueDistinct
      PROVE  ~Queued(k)'
  BY <1>3, <1>4, <1>7 DEF Queued, QueueDistinct
<1>8. ASSUME QueueDistinct, NEW a \in DOMAIN m_fibers', NEW b \in DOMAIN m_fibers',
             m_fibers'[a].task = m_fibers'[b].task
      PROVE  a = b
  <2>1. a \in Nat /\ b \in Nat /\ i \in Nat
    <3>1. /\ DOMAIN m_fibers = 1..Len(m_fibers)
          /\ DOMAIN m_fibers' = 1..Len(m_fibers')
      BY <1>2, <1>4
    <3> QED
      BY <3>1
  <2>2. PICK m \in DOMAIN m_fibers : m_fibers'[a] = m_fibers[m]
                                     /\ m = IF a < i THEN a ELSE a + 1
    BY <1>4
  <2>3. PICK l \in DOMAIN m_fibers : m_fibers'[b] = m_fibers[l]
                                     /\ l = IF b < i THEN b ELSE b + 1
    BY <1>4
  <2>4. m = l
    BY <1>8, <2>2, <2>3 DEF QueueDistinct
  <2>5. (IF a < i THEN a ELSE a + 1) = (IF b < i THEN b ELSE b + 1)
    BY <2>2, <2>3, <2>4
  <2> QED
    BY <2>1, <2>5
<1> QED
  BY <1>1, <1>3, <1>4, <1>5, <1>6, <1>7, <1>8

-----------------------------------------------------------------------------
(***************************************************************************)
(* Types and counters.                                                     *)
(***************************************************************************)

\* Adding or removing one thread changes a count of threads by one.
LEMMA Counting ==
  ASSUME NEW S \in SUBSET Threads, NEW T \in SUBSET Threads, NEW t \in Threads
  PROVE  /\ Cardinality(S) \in Nat
         /\ t \notin S /\ T = S \cup {t} => Cardinality(T) = Cardinality(S) + 1
         /\ t \in S /\ T = S \ {t} =>
              Cardinality(T) = Cardinality(S) - 1 /\ Cardinality(S) # 0
         /\ Cardinality(S) = 0 <=> S = {}
<1>1. IsFiniteSet(Workers)
  BY SchedulerAssumption
<1>2. IsFiniteSet(Workers \cup {Caller})
  BY <1>1, FS_AddElement
<1>3. Threads \in SUBSET (Workers \cup {Caller})
  BY DEF Threads
<1>4. S \in SUBSET (Workers \cup {Caller})
  BY <1>3
<1>5. IsFiniteSet(S)
  BY <1>2, <1>4, FS_Subset
<1>6. Cardinality(S) \in Nat /\ (Cardinality(S) = 0 <=> S = {})
  BY <1>5, FS_CardinalityType, FS_EmptySet
<1>7. ASSUME t \notin S, T = S \cup {t}
      PROVE  Cardinality(T) = Cardinality(S) + 1
  BY <1>5, <1>7, FS_AddElement
<1>8. ASSUME t \in S, T = S \ {t}
      PROVE  Cardinality(T) = Cardinality(S) - 1 /\ Cardinality(S) # 0
  BY <1>5, <1>6, <1>8, FS_RemoveElement
<1> QED
  BY <1>6, <1>7, <1>8

\* The part of the invariant about types, counters and places in run().
CoreInv == TypeOK /\ ActiveCountExact /\ IdleCountExact /\ HandInv /\ PhaseInv

LEMMA CoreInit == Init => CoreInv
<1> SUFFICES ASSUME Init PROVE CoreInv
  OBVIOUS
<1>1. TypeOK
  BY SchedulerAssumption DEF Init, TypeOK, FiberState, ThreadPC, MainPC
<1>2. HandInv /\ PhaseInv
  BY DEF Init, HandInv, PhaseInv, Threads
<1>3. {t \in Threads : ft[t] # NoTask} = {}
      /\ {t \in Threads : pc[t] \in {"idle", "unidle"}} = {}
  BY DEF Init
<1>4. Cardinality({}) = 0
  BY FS_EmptySet
<1>5. ActiveCountExact /\ IdleCountExact
  BY <1>3, <1>4 DEF ActiveCountExact, IdleCountExact, Init
<1> QED
  BY <1>1, <1>2, <1>5 DEF CoreInv

\* A thread in run() that moves without entering or leaving idle() and keeps
\* what it has in hand disturbs neither count.
LEMMA CoreMove ==
  ASSUME CoreInv, NEW t \in Threads, NEW to \in ThreadPC, Goto(t, to),
         pc[t] \in {"idle", "unidle"} <=> to \in {"idle", "unidle"},
         pc[t] # "off",
         UNCHANGED <<m_activeThreadCount, m_idleThreadCount, ft, main>>,
         ft[t] # NoTask => to \notin {"off", "fetch", "loop", "idle", "unidle", "done"},
         ft[t] = NoTask =>
           to \notin {"exec", "yield", "swapout", "back", "aborted", "wrecked"}
  PROVE  /\ ActiveCountExact' /\ IdleCountExact' /\ HandInv' /\ PhaseInv'
         /\ pc' \in [Threads -> ThreadPC]
<1>1. pc \in [Threads -> ThreadPC] /\ pc' = [pc EXCEPT ![t] = to]
  BY DEF CoreInv, TypeOK, Goto
<1>2. pc' \in [Threads -> ThreadPC]
  BY <1>1
<1>3. HandInv' /\ PhaseInv'
  BY <1>1 DEF CoreInv, HandInv, PhaseInv, Threads
<1>4. {u \in Threads : pc'[u] \in {"idle", "unidle"}}
        = {u \in Threads : pc[u] \in {"idle", "unidle"}}
  BY <1>1
<1>5. ActiveCountExact' /\ IdleCountExact'
  BY <1>4 DEF CoreInv, ActiveCountExact, IdleCountExact
<1> QED
  BY <1>2, <1>3, <1>5

\* The owner's operations preserve the core invariant.
LEMMA CoreOwner ==
  ASSUME CoreInv, Owner
  PROVE  CoreInv'
<1> USE DEF CoreInv
<1>1. ASSUME NEW k \in Tasks, NEW thread \in PinTargets \cup {AnyThread},
             MainSchedule(k, thread)
      PROVE  CoreInv'
  <2>1. m_fibers' \in Seq(Entry)
    BY <1>1, EnqueueFacts, SchedulerAssumption DEF MainSchedule
  <2> QED
    BY <1>1, <2>1 DEF MainSchedule, TypeOK, ActiveCountExact, IdleCountExact,
                      HandInv, PhaseInv, fiberVars
<1>2. CASE Start
  <2>1. /\ ft' = ft
        /\ \A t \in Threads : pc[t] = "off"
        /\ \A t \in Threads : pc'[t] = IF t \in Workers THEN "fetch" ELSE "off"
    BY <1>2 DEF Start, PhaseInv
  <2>2. TypeOK'
    BY <1>2, <2>1 DEF Start, TypeOK, FiberState, MainPC, ThreadPC
  <2>3. HandInv'
    BY <2>1 DEF HandInv
  <2>4. PhaseInv'
    BY <1>2, <2>1, SchedulerAssumption DEF PhaseInv, Start, Threads
  <2>5. {t \in Threads : pc'[t] \in {"idle", "unidle"}}
          = {t \in Threads : pc[t] \in {"idle", "unidle"}}
    BY <2>1
  <2>6. ActiveCountExact' /\ IdleCountExact'
    BY <1>2, <2>1, <2>5 DEF Start, ActiveCountExact, IdleCountExact
  <2> QED
    BY <2>2, <2>3, <2>4, <2>6
<1>3. CASE StopRequest
  BY <1>3 DEF StopRequest, TypeOK, ActiveCountExact, IdleCountExact, HandInv,
              PhaseInv, fiberVars, MainPC
<1>4. CASE StopCheck
  BY <1>4 DEF StopCheck, TypeOK, ActiveCountExact, IdleCountExact, HandInv,
              PhaseInv, fiberVars, queueVars, MainPC
<1>5. CASE StopCall
  <2>1. CASE UseCaller /\ ~Stopping
    <3>1. /\ Caller \in Threads /\ pc[Caller] = "off" /\ ft[Caller] = NoTask
          /\ pc \in [Threads -> ThreadPC]
          /\ pc' = [pc EXCEPT ![Caller] = "fetch"]
          /\ idle_state' = [idle_state EXCEPT ![Caller] = "INIT"]
          /\ ft' = ft /\ main = "draining" /\ main' = "calling"
      BY <1>5, <2>1 DEF StopCall, PhaseInv, HandInv, TypeOK, Threads, Goto
    <3>2. TypeOK'
      BY <1>5, <2>1, <3>1 DEF StopCall, TypeOK, queueVars, MainPC, ThreadPC, FiberState
    <3>3. HandInv' /\ PhaseInv'
      BY <3>1 DEF HandInv, PhaseInv
    <3>4. {t \in Threads : pc'[t] \in {"idle", "unidle"}}
            = {t \in Threads : pc[t] \in {"idle", "unidle"}}
      BY <3>1
    <3>5. ActiveCountExact' /\ IdleCountExact'
      BY <1>5, <3>1, <3>4 DEF StopCall, ActiveCountExact, IdleCountExact, queueVars
    <3> QED
      BY <3>2, <3>3, <3>5
  <2>2. CASE ~(UseCaller /\ ~Stopping)
    BY <1>5, <2>2 DEF StopCall, TypeOK, ActiveCountExact, IdleCountExact, HandInv,
                      PhaseInv, queueVars, MainPC
  <2> QED
    BY <2>1, <2>2
<1>6. CASE StopCallReturn
  BY <1>6 DEF StopCallReturn, TypeOK, ActiveCountExact, IdleCountExact, HandInv,
              PhaseInv, fiberVars, queueVars, MainPC
<1>7. CASE StopJoin
  BY <1>7 DEF StopJoin, TypeOK, ActiveCountExact, IdleCountExact, HandInv,
              PhaseInv, fiberVars, queueVars, MainPC
<1> QED
  BY <1>1, <1>2, <1>3, <1>4, <1>5, <1>6, <1>7 DEF Owner

\* The steps of run() preserve it.
LEMMA CoreRunLoop ==
  ASSUME CoreInv, NEW t \in Threads, RunLoop(t)
  PROVE  CoreInv'
<1> DEFINE Active == {u \in Threads : ft[u] # NoTask}
           IdleSet == {u \in Threads : pc[u] \in {"idle", "unidle"}}
<1>0. /\ TypeOK /\ HandInv /\ PhaseInv /\ ActiveCountExact /\ IdleCountExact
      /\ pc \in [Threads -> ThreadPC] /\ ft \in [Threads -> Tasks \cup {NoTask}]
      /\ NoTask \notin Tasks
  BY SchedulerAssumption DEF CoreInv, TypeOK
<1>1. CASE FetchTask(t)
  <2>1. PICK k \in Tasks : ft' = [ft EXCEPT ![t] = k]
    BY <1>0, <1>1, FetchFacts
  <2>2. m_fibers' \in Seq(Entry)
    BY <1>0, <1>1, FetchFacts
  <2>3. PICK to \in {"tickle", "dispatch"} : pc' = [pc EXCEPT ![t] = to]
    BY <1>1 DEF FetchTask, Goto
  <2>4. ft[t] = NoTask /\ pc[t] = "fetch"
    BY <1>0, <1>1 DEF FetchTask, HandInv
  <2>5. TypeOK'
    BY <1>0, <1>1, <2>1, <2>2, <2>3
       DEF FetchTask, TypeOK, fiberVars, ThreadPC
  <2>6. HandInv' /\ PhaseInv'
    BY <1>0, <1>1, <2>1, <2>3, <2>4 DEF HandInv, PhaseInv, FetchTask, Threads
  <2>7. ActiveCountExact'
    <3>1. t \notin Active /\ {u \in Threads : ft'[u] # NoTask} = Active \cup {t}
      BY <1>0, <2>1, <2>4
    <3>2. Cardinality({u \in Threads : ft'[u] # NoTask}) = Cardinality(Active) + 1
      BY <3>1, Counting
    <3> QED
      BY <1>0, <1>1, <3>2 DEF ActiveCountExact, FetchTask
  <2>8. IdleCountExact'
    <3>1. {u \in Threads : pc'[u] \in {"idle", "unidle"}} = IdleSet
      BY <1>0, <2>3, <2>4
    <3> QED
      BY <1>0, <1>1, <3>1 DEF IdleCountExact, FetchTask
  <2> QED
    BY <2>5, <2>6, <2>7, <2>8 DEF CoreInv
<1>2. CASE FetchNone(t) \/ Tickle(t) \/ DispatchNone(t) \/ LeaveRun(t)
             \/ YieldToHold(t) \/ SwapOut(t) \/ SwapIn(t)
  <2>1. /\ UNCHANGED <<m_fibers, m_stopping, m_activeThreadCount,
                       m_idleThreadCount, ft, main, idle_state, hops>>
        /\ m_state' \in [Tasks -> FiberState]
    BY <1>0, <1>2 DEF FetchNone, Tickle, DispatchNone, LeaveRun, YieldToHold,
       SwapOut, SwapIn, queueVars, fiberVars, TypeOK, FiberState
  <2>2. PICK to \in ThreadPC :
          /\ Goto(t, to)
          /\ to \notin {"idle", "unidle"}
          /\ ft[t] # NoTask
               => to \notin {"off", "fetch", "loop", "idle", "unidle", "done"}
          /\ ft[t] = NoTask
               => to \notin {"exec", "yield", "swapout", "back", "aborted", "wrecked"}
    <3>1. CASE FetchNone(t)
      BY <1>0, <3>1 DEF FetchNone, ThreadPC, HandInv
    <3>2. CASE SwapIn(t)
      BY <1>0, <3>2 DEF SwapIn, ThreadPC
    <3>3. CASE Tickle(t) \/ DispatchNone(t) \/ LeaveRun(t) \/ YieldToHold(t) \/ SwapOut(t)
      BY <1>0, <3>3 DEF Tickle, DispatchNone, LeaveRun, YieldToHold, SwapOut,
         ThreadPC, HandInv
    <3> QED
      BY <1>2, <3>1, <3>2, <3>3
  <2>3. pc[t] \notin {"off", "idle", "unidle"}
    BY <1>2 DEF FetchNone, Tickle, DispatchNone, LeaveRun, YieldToHold, SwapOut,
       SwapIn
  <2>4. /\ ActiveCountExact' /\ IdleCountExact' /\ HandInv' /\ PhaseInv'
        /\ pc' \in [Threads -> ThreadPC]
    BY <2>1, <2>2, <2>3, CoreMove
  <2> QED
    BY <1>0, <2>1, <2>4 DEF CoreInv, TypeOK
<1>3. CASE TaskReturned(t)
  <2>1. /\ ft' = [ft EXCEPT ![t] = NoTask] /\ pc' = [pc EXCEPT ![t] = "loop"]
        /\ ft[t] # NoTask /\ pc[t] = "back"
        /\ m_activeThreadCount' = m_activeThreadCount - 1
        /\ UNCHANGED <<m_fibers, m_stopping, m_idleThreadCount, m_state, idle_state,
                       hops, main>>
    BY <1>0, <1>3 DEF TaskReturned, Goto, HandInv, fiberVars
  <2>2. t \in Active /\ {u \in Threads : ft'[u] # NoTask} = Active \ {t}
    BY <1>0, <2>1
  <2>3. /\ Cardinality({u \in Threads : ft'[u] # NoTask}) = Cardinality(Active) - 1
        /\ Cardinality(Active) \in Nat /\ Cardinality(Active) # 0
    BY <2>2, Counting
  <2>4. ActiveCountExact' /\ m_activeThreadCount' \in Nat
    BY <1>0, <2>1, <2>3 DEF ActiveCountExact
  <2>5. {u \in Threads : pc'[u] \in {"idle", "unidle"}} = IdleSet
    BY <1>0, <2>1
  <2>6. IdleCountExact'
    BY <1>0, <2>1, <2>5 DEF IdleCountExact
  <2>7. HandInv' /\ PhaseInv'
    BY <1>0, <2>1 DEF HandInv, PhaseInv, Threads
  <2>8. TypeOK'
    BY <1>0, <2>1, <2>4 DEF TypeOK, ThreadPC
  <2> QED
    BY <2>4, <2>6, <2>7, <2>8 DEF CoreInv
<1>4. CASE EnterIdle(t) \/ Idle(t) \/ IdleReturned(t)
  <2>1. /\ ft[t] = NoTask
        /\ UNCHANGED <<m_fibers, m_stopping, m_activeThreadCount, m_state, hops,
                       ft, main>>
        /\ idle_state' \in [Threads -> FiberState]
    BY <1>0, <1>4 DEF EnterIdle, Idle, IdleReturned, HandInv, TypeOK, FiberState,
       fiberVars, queueVars
  <2>2. PICK to \in {"idle", "unidle", "fetch"} :
          pc' = [pc EXCEPT ![t] = to] /\ pc[t] \in {"loop", "idle", "unidle"}
    BY <1>4 DEF EnterIdle, Idle, IdleReturned, Goto
  <2>3. HandInv' /\ PhaseInv' /\ pc' \in [Threads -> ThreadPC]
    BY <1>0, <2>1, <2>2 DEF HandInv, PhaseInv, Threads, ThreadPC
  <2>4. ActiveCountExact'
    BY <1>0, <2>1 DEF ActiveCountExact
  <2>5. IdleCountExact' /\ m_idleThreadCount' \in Nat
    <3>1. CASE EnterIdle(t)
      <4>1. /\ t \notin IdleSet /\ m_idleThreadCount' = m_idleThreadCount + 1
            /\ {u \in Threads : pc'[u] \in {"idle", "unidle"}} = IdleSet \cup {t}
        BY <1>0, <3>1 DEF EnterIdle, Goto
      <4>2. /\ Cardinality(IdleSet) \in Nat
            /\ Cardinality({u \in Threads : pc'[u] \in {"idle", "unidle"}})
                 = Cardinality(IdleSet) + 1
        BY <4>1, Counting
      <4> QED
        BY <1>0, <4>1, <4>2 DEF IdleCountExact
    <3>2. CASE Idle(t)
      <4>1. {u \in Threads : pc'[u] \in {"idle", "unidle"}} = IdleSet
        BY <1>0, <3>2 DEF Idle, Goto
      <4> QED
        BY <1>0, <3>2, <4>1 DEF IdleCountExact, Idle, queueVars, TypeOK
    <3>3. CASE IdleReturned(t)
      <4>1. /\ t \in IdleSet /\ m_idleThreadCount' = m_idleThreadCount - 1
            /\ {u \in Threads : pc'[u] \in {"idle", "unidle"}} = IdleSet \ {t}
        BY <1>0, <3>3 DEF IdleReturned, Goto
      <4>2. /\ Cardinality(IdleSet) \in Nat /\ Cardinality(IdleSet) # 0
            /\ Cardinality({u \in Threads : pc'[u] \in {"idle", "unidle"}})
                 = Cardinality(IdleSet) - 1
        BY <4>1, Counting
      <4> QED
        BY <1>0, <4>1, <4>2 DEF IdleCountExact
    <3> QED
      BY <1>4, <3>1, <3>2, <3>3
  <2>6. TypeOK'
    BY <1>0, <2>1, <2>3, <2>5 DEF TypeOK
  <2> QED
    BY <2>3, <2>4, <2>5, <2>6 DEF CoreInv
<1> QED
  BY <1>1, <1>2, <1>3, <1>4 DEF RunLoop

\* So do the steps of a task's body.
LEMMA CoreBody ==
  ASSUME CoreInv, NEW t \in Threads, Body(t)
  PROVE  CoreInv'
<1>0. TypeOK /\ HandInv /\ NoTask \notin Tasks
      /\ pc \in [Threads -> ThreadPC] /\ ft \in [Threads -> Tasks \cup {NoTask}]
  BY SchedulerAssumption DEF CoreInv, TypeOK
<1>1. ASSUME NEW k \in Tasks, NEW thread \in PinTargets \cup {AnyThread},
             BodySchedule(t, k, thread)
      PROVE  CoreInv'
  <2>1. m_fibers' \in Seq(Entry)
    BY <1>0, <1>1, EnqueueFacts, SchedulerAssumption DEF BodySchedule
  <2> QED
    BY <1>1, <2>1 DEF CoreInv, BodySchedule, TypeOK, ActiveCountExact,
       IdleCountExact, HandInv, PhaseInv, fiberVars
<1>2. ASSUME NEW thread \in Threads, BodySwitchTo(t, thread)
      PROVE  CoreInv'
  <2>1. pc[t] = "exec" /\ ft[t] \in Tasks /\ ft[t] # NoTask
    BY <1>0, <1>2 DEF BodySwitchTo, HandInv
  <2>2. m_fibers' \in Seq(Entry)
    BY <1>0, <1>2, <2>1, EnqueueFacts DEF BodySwitchTo
  <2>3. hops' \in [Tasks -> 0..MaxHops]
    BY <1>0, <1>2, <2>1, SchedulerAssumption DEF BodySwitchTo, TypeOK
  <2>4. /\ ActiveCountExact' /\ IdleCountExact' /\ HandInv' /\ PhaseInv'
        /\ pc' \in [Threads -> ThreadPC]
    <3>1. "yield" \in ThreadPC /\ Goto(t, "yield")
      BY <1>2 DEF BodySwitchTo, ThreadPC
    <3> QED
      BY <1>2, <2>1, <3>1, CoreMove DEF BodySwitchTo
  <2> QED
    BY <1>0, <1>2, <2>2, <2>3, <2>4 DEF CoreInv, BodySwitchTo, TypeOK
<1>3. CASE BodyReturn(t)
  <2>1. pc[t] = "exec" /\ ft[t] # NoTask
    BY <1>0, <1>3 DEF BodyReturn, HandInv
  <2>2. "back" \in ThreadPC /\ Goto(t, "back")
    BY <1>3 DEF BodyReturn, ThreadPC
  <2>3. /\ ActiveCountExact' /\ IdleCountExact' /\ HandInv' /\ PhaseInv'
        /\ pc' \in [Threads -> ThreadPC]
    BY <1>3, <2>1, <2>2, CoreMove DEF BodyReturn, queueVars
  <2> QED
    BY <1>0, <1>3, <2>3 DEF CoreInv, BodyReturn, TypeOK, queueVars, FiberState
<1> QED
  BY <1>1, <1>2, <1>3 DEF Body

LEMMA CoreStep == CoreInv /\ [Next]_vars => CoreInv'
<1> SUFFICES ASSUME CoreInv, [Next]_vars PROVE CoreInv'
  OBVIOUS
<1>1. CASE UNCHANGED vars
  BY <1>1 DEF vars, CoreInv, TypeOK, ActiveCountExact, IdleCountExact, HandInv,
     PhaseInv
<1>2. CASE Next
  BY <1>1, <1>2, CoreOwner, CoreRunLoop, CoreBody DEF Next, Terminated
<1> QED
  BY <1>1, <1>2

LEMMA CoreInvariant == Spec => []CoreInv
  BY CoreInit, CoreStep, PTL DEF Spec

\* Every variable keeps its type; in particular neither counter of Scheduler is
\* ever decremented below zero.
THEOREM TypeCorrect == Spec => []TypeOK
<1>1. CoreInv => TypeOK
  BY DEF CoreInv
<1> QED
  BY <1>1, CoreInvariant, PTL

\* m_activeThreadCount counts the threads with a task in hand and
\* m_idleThreadCount the threads inside idle(), for any number of threads.
THEOREM CountersExact == Spec => [](ActiveCountExact /\ IdleCountExact)
<1>1. CoreInv => ActiveCountExact /\ IdleCountExact
  BY DEF CoreInv
<1> QED
  BY <1>1, CoreInvariant, PTL

-----------------------------------------------------------------------------
(***************************************************************************)
(* stopping() is stable.                                                   *)
(***************************************************************************)

\* When stopping() holds no thread has a task in hand.
LEMMA QuietHands ==
  ASSUME CoreInv, Stopping
  PROVE  \A t \in Threads : ft[t] = NoTask
<1> DEFINE Active == {u \in Threads : ft[u] # NoTask}
<1>1. Active \in SUBSET Threads /\ Cardinality(Active) = 0
  BY DEF CoreInv, ActiveCountExact, Stopping
<1>2. Active = {}
  BY <1>1, Counting, SchedulerAssumption
<1> QED
  BY <1>2

\* From then on, stop() having been called, nobody can add work.
LEMMA StoppingStable ==
  ASSUME CoreInv, Stopping, main \notin {"setup", "started"}, [Next]_vars
  PROVE  Stopping'
<1>1. \A t \in Threads : ft[t] = NoTask
  BY QuietHands
<1>2. m_fibers = <<>> /\ m_stopping /\ m_activeThreadCount = 0
  BY DEF Stopping
<1>3. SUFFICES UNCHANGED <<m_fibers, m_stopping, m_activeThreadCount>>
  BY <1>2 DEF Stopping
<1>4. CASE Owner
  BY <1>4 DEF Owner, MainSchedule, Start, StopRequest, StopCheck, StopCall,
     StopCallReturn, StopJoin, queueVars
<1>5. ASSUME NEW t \in Threads, RunLoop(t)
      PROVE  UNCHANGED <<m_fibers, m_stopping, m_activeThreadCount>>
  <2>1. ~FetchTask(t)
    BY <1>2 DEF FetchTask
  <2>2. ~TaskReturned(t)
    BY <1>1 DEF TaskReturned, CoreInv, HandInv
  <2> QED
    BY <1>5, <2>1, <2>2 DEF RunLoop, FetchNone, Tickle, SwapIn, DispatchNone,
       EnterIdle, LeaveRun, Idle, IdleReturned, YieldToHold, SwapOut, queueVars
<1>6. ASSUME NEW t \in Threads, Body(t)
      PROVE  FALSE
  <2>1. pc[t] # "exec"
    BY <1>1 DEF CoreInv, HandInv
  <2> QED
    BY <1>6, <2>1 DEF Body, BodySchedule, BodySwitchTo, BodyReturn
<1>7. CASE UNCHANGED vars
  BY <1>7 DEF vars
<1> QED
  BY <1>4, <1>5, <1>6, <1>7 DEF Next, Terminated

\* Once stop() was called and stopping() held, it holds for ever, whatever the
\* threads were doing: no thread of the pool can be left with work that appears
\* after another one left run().
THEOREM QuiescenceIsStable == Spec => QuiescenceStable
<1>1. CoreInv /\ [Next]_vars
        => [main \notin {"setup", "started"} /\ Stopping => Stopping']_vars
  BY StoppingStable
<1> QED
  BY <1>1, CoreInvariant, PTL DEF Spec, QuiescenceStable

\* Whoever acted on stopping() stays right: every step preserves QuietInv.
LEMMA QuietStep ==
  ASSUME CoreInv, QuietInv, [Next]_vars
  PROVE  QuietInv'
<1>0. /\ idle_state \in [Threads -> FiberState] /\ pc \in [Threads -> ThreadPC]
      /\ UseCaller => Caller \in Threads
      /\ Workers \subseteq Threads
      /\ Threads # {}
      /\ ~UseCaller => Threads = Workers
  BY SchedulerAssumption DEF CoreInv, TypeOK, Threads
<1>1. main \notin {"setup", "started"} /\ Stopping => Stopping'
  BY StoppingStable
<1>2. Stopping => m_stopping
  BY DEF Stopping
<1>3. main \in {"setup", "started"} => \A t \in Threads : idle_state[t] # "TERM"
  BY <1>2 DEF QuietInv
<1>4. CASE Owner
  <2>1. ASSUME NEW k \in Tasks, NEW thread \in PinTargets \cup {AnyThread},
               MainSchedule(k, thread)
        PROVE  QuietInv'
    <3>1. /\ main \in {"setup", "started"}
          /\ UNCHANGED <<m_stopping, idle_state, pc, main>>
      BY <2>1 DEF MainSchedule, fiberVars
    <3> QED
      BY <1>3, <3>1 DEF QuietInv
  <2>2. CASE Start
    BY <1>0, <1>3, <2>2 DEF Start, QuietInv, CoreInv, PhaseInv
  <2>3. CASE StopRequest
    BY <1>3, <2>3 DEF StopRequest, QuietInv, fiberVars
  <2>4. CASE StopCheck
    BY <1>1, <2>4 DEF StopCheck, QuietInv, fiberVars, queueVars, Stopping
  <2>5. CASE StopCall
    <3>1. /\ main = "draining" /\ m_stopping /\ m_stopping' = m_stopping
          /\ Stopping' <=> Stopping
      BY <2>5 DEF StopCall, QuietInv, queueVars, Stopping
    <3>2. CASE UseCaller /\ ~Stopping
      <4>1. /\ main' = "calling"
            /\ pc' = [pc EXCEPT ![Caller] = "fetch"]
            /\ idle_state' = [idle_state EXCEPT ![Caller] = "INIT"]
        BY <2>5, <3>2 DEF StopCall, Goto
      <4> QED
        BY <1>0, <3>1, <4>1 DEF QuietInv
    <3>3. CASE ~(UseCaller /\ ~Stopping)
      <4>1. main' = "joining" /\ UNCHANGED <<pc, idle_state>>
        BY <2>5, <3>3 DEF StopCall
      <4> QED
        BY <3>1, <3>3, <4>1 DEF QuietInv
    <3> QED
      BY <3>2, <3>3
  <2>6. CASE StopCallReturn
    <3>1. /\ main = "calling" /\ main' = "joining" /\ pc[Caller] = "done"
          /\ UNCHANGED <<pc, idle_state, m_stopping>>
      BY <2>6 DEF StopCallReturn, queueVars, fiberVars
    <3> QED
      BY <1>0, <1>1, <3>1 DEF QuietInv
  <2>7. CASE StopJoin
    <3>1. /\ main = "joining" /\ main' = "returned"
          /\ \A w \in Workers : pc[w] = "done"
          /\ UNCHANGED <<pc, idle_state, m_stopping>>
      BY <2>7 DEF StopJoin, queueVars, fiberVars
    <3>2. Stopping
      BY <1>0, <3>1 DEF QuietInv
    <3> QED
      BY <1>1, <3>1, <3>2 DEF QuietInv
  <2> QED
    BY <1>4, <2>1, <2>2, <2>3, <2>4, <2>5, <2>6, <2>7 DEF Owner
<1>5. ASSUME NEW t \in Threads, RunLoop(t)
      PROVE  QuietInv'
  <2>1. main' = main /\ m_stopping' = m_stopping
    BY <1>5 DEF RunLoop, FetchTask, FetchNone, Tickle, SwapIn, DispatchNone,
       TaskReturned, EnterIdle, LeaveRun, Idle, IdleReturned, YieldToHold, SwapOut,
       queueVars
  <2>2. main # "setup"
    BY <1>5 DEF CoreInv, PhaseInv, RunLoop, FetchTask, FetchNone, Tickle, SwapIn,
       DispatchNone, TaskReturned, EnterIdle, LeaveRun, Idle, IdleReturned,
       YieldToHold, SwapOut
  <2>3. CASE Idle(t)
    <3>1. /\ pc' = [pc EXCEPT ![t] = "unidle"]
          /\ idle_state' =
               [idle_state EXCEPT ![t] = IF Stopping THEN "TERM" ELSE "HOLD"]
      BY <2>3 DEF Idle, Goto
    <3>2. Stopping' <=> Stopping
      BY <2>3 DEF Idle, queueVars, Stopping
    <3> QED
      BY <1>0, <2>1, <2>2, <3>1, <3>2 DEF QuietInv
  <2>4. CASE EnterIdle(t)
    <3>1. /\ pc' = [pc EXCEPT ![t] = "idle"]
          /\ idle_state' = [idle_state EXCEPT ![t] = "EXEC"]
      BY <2>4 DEF EnterIdle, Goto
    <3> QED
      BY <1>0, <1>1, <1>3, <2>1, <2>2, <3>1 DEF QuietInv
  <2>5. CASE LeaveRun(t)
    <3>1. /\ pc' = [pc EXCEPT ![t] = "done"] /\ idle_state[t] = "TERM"
          /\ idle_state' = idle_state
      BY <2>5 DEF LeaveRun, Goto, fiberVars
    <3> QED
      BY <1>0, <1>1, <1>3, <2>1, <2>2, <3>1 DEF QuietInv
  <2>6. CASE ~(Idle(t) \/ EnterIdle(t) \/ LeaveRun(t))
    <3>1. PICK to \in ThreadPC \ {"done"} : pc' = [pc EXCEPT ![t] = to]
      BY <1>5, <2>6 DEF RunLoop, FetchTask, FetchNone, Tickle, SwapIn, DispatchNone,
         TaskReturned, IdleReturned, YieldToHold, SwapOut, Goto, ThreadPC
    <3>2. idle_state' = idle_state
      BY <1>5, <2>6 DEF RunLoop, FetchTask, FetchNone, Tickle, SwapIn, DispatchNone,
         TaskReturned, IdleReturned, YieldToHold, SwapOut, fiberVars
    <3> QED
      BY <1>0, <1>1, <1>3, <2>1, <2>2, <3>1, <3>2 DEF QuietInv
  <2> QED
    BY <2>3, <2>4, <2>5, <2>6
<1>6. ASSUME NEW t \in Threads, Body(t)
      PROVE  QuietInv'
  <2>1. /\ main' = main /\ m_stopping' = m_stopping /\ idle_state' = idle_state
        /\ \E to \in {"exec", "yield", "back"} : pc' = [pc EXCEPT ![t] = to]
        /\ pc[t] = "exec"
    BY <1>0, <1>6 DEF Body, BodySchedule, BodySwitchTo, BodyReturn, Goto, queueVars,
       fiberVars
  <2>2. main # "setup"
    BY <2>1 DEF CoreInv, PhaseInv
  <2> QED
    BY <1>0, <1>1, <1>3, <2>1, <2>2 DEF QuietInv
<1>7. CASE UNCHANGED vars
  BY <1>7 DEF vars, QuietInv, Stopping
<1> QED
  BY <1>4, <1>5, <1>6, <1>7 DEF Next, Terminated

LEMMA QuietInit == Init => QuietInv
  BY DEF Init, QuietInv

LEMMA QuietInvariant == Spec => [](CoreInv /\ QuietInv)
<1>1. Init => CoreInv /\ QuietInv
  BY CoreInit, QuietInit
<1>2. (CoreInv /\ QuietInv) /\ [Next]_vars => (CoreInv /\ QuietInv)'
  BY CoreStep, QuietStep
<1> QED
  BY <1>1, <1>2, PTL DEF Spec

\* A thread leaves run() only when there is nothing left to do for any thread.
THEOREM LeaveIsQuiescent == Spec => []LeaveOnlyWhenQuiescent
<1>1. CoreInv /\ QuietInv => LeaveOnlyWhenQuiescent
  BY DEF QuietInv, LeaveOnlyWhenQuiescent
<1> QED
  BY <1>1, QuietInvariant, PTL

-----------------------------------------------------------------------------
(***************************************************************************)
(* A task in progress is in exactly one place.                             *)
(***************************************************************************)

FlowInv == TokenInv /\ ProgressInv

LEMMA FlowInit == Init => FlowInv
  BY DEF Init, FlowInv, TokenInv, ProgressInv, QueueDistinct, QueuedNotHeld,
     OneThread, TermIsFinal, Advancing, Queued, Advances, OnStack

\* A step that leaves the queue alone, moves thread t between places where it
\* does not advance a task, and at most empties its hand, when it is not needed.
LEMMA FlowIdle ==
  ASSUME CoreInv, FlowInv, UNCHANGED <<m_fibers, m_state>>,
         NEW S \in SUBSET Threads,
         \A u \in Threads \ S : pc'[u] = pc[u] /\ ft'[u] = ft[u],
         \A u \in S : /\ ft'[u] \in {ft[u], NoTask}
                      /\ ft'[u] # NoTask => (Advances(u)' <=> Advances(u))
                      /\ OnStack(u)' => OnStack(u)
                      /\ pc'[u] = "yield" => pc[u] = "yield" /\ ft'[u] = ft[u]
                      /\ ft'[u] # ft[u] => ~Advances(u)
  PROVE  FlowInv'
<1> USE DEF FlowInv
<1>0. NoTask \notin Tasks /\ ft \in [Threads -> Tasks \cup {NoTask}]
  BY SchedulerAssumption DEF CoreInv, TypeOK
<1>1. \A k \in Tasks : Queued(k)' <=> Queued(k)
  BY DEF Queued
<1>2. \A u \in Threads : ft'[u] # NoTask =>
        ft'[u] = ft[u] /\ (Advances(u)' <=> Advances(u)) /\ (OnStack(u)' => OnStack(u))
  BY DEF Advances, OnStack
<1>3. \A k \in Tasks, u \in Threads :
        ft'[u] = k /\ Advances(u)' <=> ft[u] = k /\ Advances(u)
  BY <1>0, <1>2 DEF Advances
<1>4. \A k \in Tasks : Advancing(k)' <=> Advancing(k)
  BY <1>1, <1>3 DEF Advancing
<1>5. QueueDistinct'
  BY DEF TokenInv, QueueDistinct
<1>6. QueuedNotHeld'
  BY <1>1, <1>3 DEF TokenInv, QueuedNotHeld
<1>7. OneThread'
  BY <1>2 DEF TokenInv, OneThread
<1>8. TermIsFinal'
  BY <1>4 DEF TokenInv, TermIsFinal
<1>9. ProgressInv'
  <2>1. \A k \in Tasks : m_state'[k] \notin {"NONE", "TERM"} => Advancing(k)'
    BY <1>4 DEF ProgressInv
  <2>2. \A u \in Threads : pc'[u] = "yield" => pc[u] = "yield" /\ ft'[u] = ft[u]
    OBVIOUS
  <2>3. \A u \in Threads : pc[u] = "yield" => ft[u] \in Tasks
    BY <1>0 DEF CoreInv, HandInv
  <2>4. \A u \in Threads : pc'[u] = "yield" => Advancing(ft[u])'
    BY <1>4, <2>2, <2>3 DEF ProgressInv
  <2> QED
    BY <2>1, <2>2, <2>4 DEF ProgressInv
<1> QED
  BY <1>5, <1>6, <1>7, <1>8, <1>9 DEF TokenInv

\* schedule() of a fresh task, by the owner or by a running task.
LEMMA FlowSchedule ==
  ASSUME CoreInv, FlowInv, NEW k \in Tasks, NEW thread \in PinTargets \cup {AnyThread},
         Fresh(k), Enqueue(k, thread), UNCHANGED <<m_state, ft, pc>>
  PROVE  FlowInv'
<1> USE DEF FlowInv
<1>0. TypeOK /\ thread \in Threads \cup {AnyThread} /\ NoTask \notin Tasks
      /\ ft \in [Threads -> Tasks \cup {NoTask}]
  BY SchedulerAssumption DEF CoreInv, TypeOK
<1>1. m_state[k] = "NONE" /\ ~Queued(k) /\ \A t \in Threads : ft[t] # k
  BY DEF Fresh, Queued
<1>2. \A j \in Tasks : Queued(j)' <=> Queued(j) \/ j = k
  BY <1>0, EnqueueFacts
<1>3. QueueDistinct'
  BY <1>0, <1>1, EnqueueFacts DEF TokenInv, QueueDistinct
<1>4. \A t \in Threads : (Advances(t)' <=> Advances(t)) /\ (OnStack(t)' <=> OnStack(t))
  BY DEF Advances, OnStack
<1>5. QueuedNotHeld' /\ OneThread'
  BY <1>1, <1>2, <1>4 DEF TokenInv, QueuedNotHeld, OneThread
<1>6. \A j \in Tasks : Advancing(j)' <=> Advancing(j) \/ j = k
  BY <1>2, <1>4 DEF Advancing
<1>7. TermIsFinal'
  BY <1>1, <1>6 DEF TokenInv, TermIsFinal
<1>8. ProgressInv'
  <2>1. \A t \in Threads : pc[t] = "yield" => ft[t] \in Tasks
    BY <1>0 DEF CoreInv, HandInv
  <2> QED
    BY <1>6, <2>1 DEF ProgressInv
<1> QED
  BY <1>3, <1>5, <1>7, <1>8 DEF TokenInv

\* The scan hands a queued task to one thread.
LEMMA FlowFetch ==
  ASSUME CoreInv, FlowInv, NEW t \in Threads, FetchTask(t)
  PROVE  FlowInv'
<1> USE DEF FlowInv
<1>0. TypeOK /\ NoTask \notin Tasks /\ QueueDistinct
      /\ ft \in [Threads -> Tasks \cup {NoTask}] /\ pc \in [Threads -> ThreadPC]
  BY SchedulerAssumption DEF CoreInv, TypeOK, TokenInv
<1>1. PICK k \in Tasks :
        /\ ft' = [ft EXCEPT ![t] = k]
        /\ Queued(k)
        /\ \A j \in Tasks : j # k => (Queued(j)' <=> Queued(j))
        /\ ~Queued(k)'
  BY <1>0, FetchFacts
<1>2. QueueDistinct'
  BY <1>0, FetchFacts DEF QueueDistinct
<1>3. /\ pc[t] = "fetch" /\ m_state' = m_state
      /\ \E to \in {"tickle", "dispatch"} : pc' = [pc EXCEPT ![t] = to]
      /\ ft[t] = NoTask
  BY DEF FetchTask, Goto, fiberVars, CoreInv, HandInv
<1>4. /\ Advances(t)' /\ ~OnStack(t)' /\ ft'[t] = k
      /\ \A u \in Threads : u # t => /\ Advances(u)' <=> Advances(u)
                                     /\ OnStack(u)' <=> OnStack(u)
                                     /\ ft'[u] = ft[u] /\ pc'[u] = pc[u]
  BY <1>0, <1>1, <1>3 DEF Advances, OnStack
<1>5. \A u \in Threads : u # t /\ ft[u] = k => ~Advances(u)
  BY <1>1 DEF TokenInv, QueuedNotHeld
<1>6. QueuedNotHeld'
  BY <1>1, <1>4 DEF TokenInv, QueuedNotHeld
<1>7. OneThread'
  BY <1>0, <1>4, <1>5 DEF TokenInv, OneThread
<1>8. \A j \in Tasks : Advancing(j)' <=> Advancing(j)
  BY <1>0, <1>1, <1>3, <1>4 DEF Advancing
<1>9. TermIsFinal'
  BY <1>3, <1>8 DEF TokenInv, TermIsFinal
<1>10. ProgressInv'
  <2>1. \A u \in Threads : pc[u] = "yield" => ft[u] \in Tasks
    BY <1>0 DEF CoreInv, HandInv
  <2>2. pc'[t] # "yield"
    BY <1>0, <1>3
  <2> QED
    BY <1>3, <1>4, <1>8, <2>1, <2>2 DEF ProgressInv
<1> QED
  BY <1>2, <1>6, <1>7, <1>9, <1>10 DEF TokenInv

\* swapIn takes the thread from "about to run" to "running", or the process to
\* its end; it never makes two threads execute on one stack.
LEMMA FlowSwapIn ==
  ASSUME CoreInv, FlowInv, NEW t \in Threads, SwapIn(t)
  PROVE  FlowInv'
<1> USE DEF FlowInv
<1> DEFINE k == ft[t]
<1>0. NoTask \notin Tasks /\ ft \in [Threads -> Tasks \cup {NoTask}]
      /\ pc \in [Threads -> ThreadPC] /\ m_state \in [Tasks -> FiberState]
  BY SchedulerAssumption DEF CoreInv, TypeOK
<1>1. /\ pc[t] = "dispatch" /\ ft' = ft /\ m_fibers' = m_fibers /\ k \in Tasks
      /\ m_state' \in {m_state, [m_state EXCEPT ![k] = "EXEC"]}
  BY <1>0 DEF SwapIn, queueVars
<1>2. \E to \in {"exec", "aborted", "wrecked"} :
        /\ pc' = [pc EXCEPT ![t] = to]
        /\ to = "exec" => ~StackInUse(k)
  BY DEF SwapIn, Goto
<1>3. /\ \A u \in Threads : Advances(u)' <=> Advances(u)
      /\ \A u \in Threads : u # t => (OnStack(u)' <=> OnStack(u))
      /\ \A u \in Threads : pc'[u] = "yield" => pc[u] = "yield"
      /\ Advances(t)
  BY <1>0, <1>1, <1>2 DEF Advances, OnStack
<1>4. OnStack(t)' => \A u \in Threads : u # t /\ OnStack(u) => ft[u] # k
  BY <1>0, <1>1, <1>2 DEF OnStack, StackInUse
<1>5. \A j \in Tasks : (Queued(j)' <=> Queued(j)) /\ (Advancing(j)' <=> Advancing(j))
  BY <1>1, <1>3 DEF Queued, Advancing
<1>6. QueueDistinct' /\ QueuedNotHeld'
  BY <1>1, <1>3, <1>5 DEF TokenInv, QueueDistinct, QueuedNotHeld
<1>7. OneThread'
  BY <1>1, <1>3, <1>4 DEF TokenInv, OneThread
<1>8. TermIsFinal'
  BY <1>0, <1>1, <1>5 DEF TokenInv, TermIsFinal
<1>9. ProgressInv'
  <2>1. Advancing(k)
    BY <1>1, <1>3 DEF Advancing
  <2>2. \A j \in Tasks : m_state'[j] \notin {"NONE", "TERM"} => Advancing(j)'
    BY <1>0, <1>1, <1>5, <2>1 DEF ProgressInv
  <2>3. \A u \in Threads : pc[u] = "yield" => ft[u] \in Tasks
    BY <1>0 DEF CoreInv, HandInv
  <2> QED
    BY <1>1, <1>3, <1>5, <2>2, <2>3 DEF ProgressInv
<1> QED
  BY <1>6, <1>7, <1>8, <1>9 DEF TokenInv

\* switchTo: the task goes from "running" into the queue.
LEMMA FlowSwitchTo ==
  ASSUME CoreInv, FlowInv, NEW t \in Threads, NEW thread \in Threads,
         BodySwitchTo(t, thread)
  PROVE  FlowInv'
<1> USE DEF FlowInv
<1>0. TypeOK /\ NoTask \notin Tasks /\ ft \in [Threads -> Tasks \cup {NoTask}]
      /\ pc \in [Threads -> ThreadPC] /\ pc[t] = "exec" /\ ft[t] \in Tasks
  BY SchedulerAssumption DEF CoreInv, TypeOK, BodySwitchTo, HandInv
<1>1. PICK k \in Tasks : k = ft[t]
  BY <1>0
<1>2. /\ Enqueue(k, thread) /\ ft' = ft /\ m_state' = m_state
      /\ pc' = [pc EXCEPT ![t] = "yield"]
  BY <1>1 DEF BodySwitchTo, Goto
<1>3. /\ Advances(t) /\ ~Advances(t)' /\ pc'[t] = "yield"
      /\ \A u \in Threads : u # t => (Advances(u)' <=> Advances(u)) /\ pc'[u] = pc[u]
      /\ \A u \in Threads : OnStack(u)' <=> OnStack(u)
  BY <1>0, <1>2 DEF Advances, OnStack
<1>4. ~Queued(k)
  BY <1>1, <1>3 DEF TokenInv, QueuedNotHeld
<1>5. \A j \in Tasks : Queued(j)' <=> Queued(j) \/ j = k
  BY <1>0, <1>2, EnqueueFacts
<1>6. QueueDistinct'
  BY <1>0, <1>2, <1>4, EnqueueFacts DEF TokenInv, QueueDistinct
<1>7. \A u \in Threads : u # t /\ ft[u] = k => ~Advances(u)
  BY <1>0, <1>1, <1>3 DEF TokenInv, OneThread
<1>8. QueuedNotHeld' /\ OneThread'
  BY <1>2, <1>3, <1>5, <1>7 DEF TokenInv, QueuedNotHeld, OneThread
<1>9. \A j \in Tasks : Advancing(j)' <=> Advancing(j)
  BY <1>1, <1>2, <1>3, <1>5 DEF Advancing
<1>10. TermIsFinal'
  BY <1>2, <1>9 DEF TokenInv, TermIsFinal
<1>11. ProgressInv'
  <2>1. \A u \in Threads : pc[u] = "yield" => ft[u] \in Tasks
    BY <1>0 DEF CoreInv, HandInv
  <2>2. Advancing(k)
    BY <1>1, <1>3 DEF Advancing
  <2>3. \A u \in Threads : pc'[u] = "yield" => ft[u] \in Tasks /\ Advancing(ft[u])
    BY <1>1, <1>3, <2>1, <2>2 DEF ProgressInv
  <2>4. \A j \in Tasks : m_state'[j] \notin {"NONE", "TERM"} => Advancing(j)'
    BY <1>2, <1>9 DEF ProgressInv
  <2> QED
    BY <1>2, <1>9, <2>3, <2>4 DEF ProgressInv
<1> QED
  BY <1>6, <1>8, <1>10, <1>11 DEF TokenInv

\* YieldToHold and the end of a body change the state of a fiber the thread
\* is alone on.
LEMMA FlowLeave ==
  ASSUME CoreInv, FlowInv, NEW t \in Threads, YieldToHold(t) \/ BodyReturn(t)
  PROVE  FlowInv'
<1> USE DEF FlowInv
<1>0. /\ NoTask \notin Tasks /\ ft \in [Threads -> Tasks \cup {NoTask}]
      /\ pc \in [Threads -> ThreadPC] /\ m_state \in [Tasks -> FiberState]
      /\ OnStack(t) /\ ft[t] \in Tasks /\ ft' = ft /\ m_fibers' = m_fibers
  BY SchedulerAssumption DEF CoreInv, TypeOK, YieldToHold, BodyReturn, HandInv,
     OnStack, queueVars
<1>1. PICK k \in Tasks : k = ft[t]
  BY <1>0
<1>2. \A u \in Threads : u # t /\ ft[u] = k => ~OnStack(u)
  BY <1>0, <1>1 DEF TokenInv, OneThread
<1>3. \A j \in Tasks : Queued(j)' <=> Queued(j)
  BY <1>0 DEF Queued
<1>4. QueueDistinct'
  BY <1>0 DEF TokenInv, QueueDistinct
<1>5. CASE YieldToHold(t)
  <2>1. /\ pc[t] = "yield" /\ pc' = [pc EXCEPT ![t] = "swapout"]
        /\ m_state' = [m_state EXCEPT ![k] = "HOLD"]
    BY <1>1, <1>5 DEF YieldToHold, Goto
  <2>2. /\ \A u \in Threads : Advances(u)' <=> Advances(u)
        /\ \A u \in Threads : OnStack(u)' <=> OnStack(u)
        /\ \A u \in Threads : pc'[u] = "yield" => pc[u] = "yield"
    BY <1>0, <2>1 DEF Advances, OnStack
  <2>3. \A j \in Tasks : Advancing(j)' <=> Advancing(j)
    BY <1>0, <1>3, <2>2 DEF Advancing
  <2>4. QueuedNotHeld' /\ OneThread'
    BY <1>0, <1>3, <2>2 DEF TokenInv, QueuedNotHeld, OneThread
  <2>5. TermIsFinal'
    BY <1>0, <2>1, <2>3 DEF TokenInv, TermIsFinal
  <2>6. Advancing(k)
    BY <1>1, <2>1 DEF ProgressInv
  <2>7. \A j \in Tasks : m_state'[j] \notin {"NONE", "TERM"} => Advancing(j)'
    BY <1>0, <2>1, <2>3, <2>6 DEF ProgressInv
  <2>8. \A u \in Threads : pc[u] = "yield" => ft[u] \in Tasks
    BY <1>0 DEF CoreInv, HandInv
  <2>9. ProgressInv'
    BY <1>0, <2>2, <2>3, <2>7, <2>8 DEF ProgressInv
  <2> QED
    BY <1>4, <2>4, <2>5, <2>9 DEF TokenInv
<1>6. CASE BodyReturn(t)
  <2>1. /\ pc[t] = "exec" /\ pc' = [pc EXCEPT ![t] = "back"]
        /\ m_state' = [m_state EXCEPT ![k] = "TERM"]
    BY <1>1, <1>6 DEF BodyReturn, Goto
  <2>2. /\ \A u \in Threads : u # t => (Advances(u)' <=> Advances(u))
        /\ \A u \in Threads : OnStack(u)' => OnStack(u)
        /\ \A u \in Threads : pc'[u] = "yield" => pc[u] = "yield" /\ u # t
        /\ Advances(t) /\ ~Advances(t)'
    BY <1>0, <2>1 DEF Advances, OnStack
  <2>3. ~Queued(k) /\ \A u \in Threads : u # t /\ ft[u] = k => ~Advances(u)
    BY <1>0, <1>1, <2>2 DEF TokenInv, QueuedNotHeld, OneThread
  <2>4. /\ ~Advancing(k)'
        /\ \A j \in Tasks : j # k => (Advancing(j)' <=> Advancing(j))
    BY <1>0, <1>1, <1>3, <2>2, <2>3 DEF Advancing
  <2>5. QueuedNotHeld' /\ OneThread'
    BY <1>0, <1>3, <2>2 DEF TokenInv, QueuedNotHeld, OneThread
  <2>6. TermIsFinal'
    BY <1>0, <2>1, <2>4 DEF TokenInv, TermIsFinal
  <2>7. \A j \in Tasks : m_state'[j] \notin {"NONE", "TERM"} => Advancing(j)'
    BY <1>0, <2>1, <2>4 DEF ProgressInv
  <2>8. \A u \in Threads : pc'[u] = "yield" => ft[u] \in Tasks /\ ft[u] # k
    BY <1>0, <1>2, <2>2 DEF CoreInv, HandInv, OnStack
  <2>9. ProgressInv'
    BY <1>0, <2>2, <2>4, <2>7, <2>8 DEF ProgressInv
  <2> QED
    BY <1>4, <2>5, <2>6, <2>9 DEF TokenInv
<1> QED
  BY <1>5, <1>6

LEMMA FlowSame ==
  ASSUME FlowInv, UNCHANGED <<m_fibers, m_state, ft, pc>>
  PROVE  FlowInv'
  BY DEF FlowInv, TokenInv, ProgressInv, QueueDistinct, QueuedNotHeld, OneThread,
     TermIsFinal, Advancing, Queued, Advances, OnStack

LEMMA FlowStep ==
  ASSUME CoreInv, FlowInv, [Next]_vars
  PROVE  FlowInv'
<1>0. pc \in [Threads -> ThreadPC] /\ ft \in [Threads -> Tasks \cup {NoTask}]
      /\ Workers \subseteq Threads /\ (UseCaller => Caller \in Threads)
  BY DEF CoreInv, TypeOK, Threads
<1>1. CASE Owner
  <2>1. ASSUME NEW k \in Tasks, NEW thread \in PinTargets \cup {AnyThread},
               MainSchedule(k, thread)
        PROVE  FlowInv'
    BY <2>1, FlowSchedule DEF MainSchedule, fiberVars
  <2>2. CASE Start
    <3>1. /\ UNCHANGED <<m_fibers, m_state>> /\ ft' = ft
          /\ \A u \in Threads \ Workers : pc'[u] = pc[u]
          /\ \A u \in Workers : pc[u] = "off" /\ pc'[u] = "fetch"
      BY <1>0, <2>2 DEF Start, CoreInv, PhaseInv
    <3> QED
      BY <1>0, <3>1, FlowIdle DEF Advances, OnStack
  <2>3. CASE StopCall
    <3>1. CASE UseCaller /\ ~Stopping
      <4>1. /\ UNCHANGED <<m_fibers, m_state>> /\ ft' = ft
            /\ pc[Caller] = "off" /\ pc' = [pc EXCEPT ![Caller] = "fetch"]
        BY <2>3, <3>1 DEF StopCall, Goto, queueVars, CoreInv, PhaseInv
      <4> QED
        BY <1>0, <3>1, <4>1, FlowIdle DEF Advances, OnStack
    <3>2. CASE ~(UseCaller /\ ~Stopping)
      <4>1. UNCHANGED <<m_fibers, m_state, ft, pc>>
        BY <2>3, <3>2 DEF StopCall, queueVars
      <4> QED
        BY <4>1, FlowSame
    <3> QED
      BY <3>1, <3>2
  <2>4. CASE StopRequest \/ StopCheck \/ StopCallReturn \/ StopJoin
    <3>1. UNCHANGED <<m_fibers, m_state, ft, pc>>
      BY <2>4 DEF StopRequest, StopCheck, StopCallReturn, StopJoin, queueVars,
         fiberVars
    <3> QED
      BY <3>1, FlowSame
  <2> QED
    BY <1>1, <2>1, <2>2, <2>3, <2>4 DEF Owner
<1>2. ASSUME NEW t \in Threads, RunLoop(t)
      PROVE  FlowInv'
  <2>1. CASE FetchTask(t) \/ SwapIn(t) \/ YieldToHold(t)
    BY <2>1, FlowFetch, FlowSwapIn, FlowLeave
  <2>2. CASE FetchNone(t) \/ Tickle(t) \/ DispatchNone(t) \/ EnterIdle(t)
               \/ LeaveRun(t) \/ Idle(t) \/ IdleReturned(t)
    <3>1. UNCHANGED <<m_fibers, m_state, ft>>
      BY <2>2 DEF FetchNone, Tickle, DispatchNone, EnterIdle, LeaveRun, Idle,
         IdleReturned, queueVars, fiberVars
    <3>2. \E to \in ThreadPC :
            /\ pc' = [pc EXCEPT ![t] = to]
            /\ to \notin {"exec", "yield", "swapout"}
            /\ \/ ft[t] = NoTask
               \/ to \in {"tickle", "dispatch"} /\ pc[t] \in {"tickle", "dispatch"}
      BY <2>2 DEF FetchNone, Tickle, DispatchNone, EnterIdle, LeaveRun, Idle,
         IdleReturned, Goto, CoreInv, HandInv, ThreadPC
    <3> QED
      BY <1>0, <3>1, <3>2, FlowIdle DEF Advances, OnStack
  <2>3. CASE TaskReturned(t)
    <3>1. /\ UNCHANGED <<m_fibers, m_state>>
          /\ ft' = [ft EXCEPT ![t] = NoTask] /\ pc[t] = "back"
          /\ pc' = [pc EXCEPT ![t] = "loop"]
      BY <2>3 DEF TaskReturned, fiberVars, Goto
    <3> QED
      BY <1>0, <3>1, FlowIdle DEF Advances, OnStack
  <2>4. CASE SwapOut(t)
    <3>1. /\ UNCHANGED <<m_fibers, m_state, ft>> /\ pc[t] = "swapout"
          /\ pc' = [pc EXCEPT ![t] = "back"]
      BY <2>4 DEF SwapOut, queueVars, fiberVars, Goto
    <3> QED
      BY <1>0, <3>1, FlowIdle DEF Advances, OnStack
  <2> QED
    BY <1>2, <2>1, <2>2, <2>3, <2>4 DEF RunLoop
<1>3. ASSUME NEW t \in Threads, Body(t)
      PROVE  FlowInv'
  <2>1. ASSUME NEW k \in Tasks, NEW thread \in PinTargets \cup {AnyThread},
               BodySchedule(t, k, thread)
        PROVE  FlowInv'
    BY <2>1, FlowSchedule DEF BodySchedule, fiberVars
  <2> QED
    BY <1>3, <2>1, FlowSwitchTo, FlowLeave DEF Body
<1>4. CASE UNCHANGED vars
  BY <1>4, FlowSame DEF vars
<1> QED
  BY <1>1, <1>2, <1>3, <1>4 DEF Next, Terminated

LEMMA IInvParts == IInv <=> CoreInv /\ QuietInv /\ FlowInv
  BY DEF IInv, CoreInv, FlowInv

LEMMA IInvInvariant == Spec => []IInv
<1>1. Init => IInv
  BY CoreInit, QuietInit, FlowInit, IInvParts
<1>2. IInv /\ [Next]_vars => IInv'
  <2>1. IInv /\ [Next]_vars => CoreInv' /\ QuietInv' /\ FlowInv'
    BY CoreStep, QuietStep, FlowStep, IInvParts
  <2>2. (IInv <=> CoreInv /\ QuietInv /\ FlowInv)'
    BY DEF IInv, CoreInv, FlowInv
  <2> QED
    BY <2>1, <2>2
<1> QED
  BY <1>1, <1>2, PTL DEF Spec

\* When nothing is queued and nothing in hand, every fiber that started ended.
LEMMA QuietMeansDone ==
  ASSUME IInv, Stopping
  PROVE  /\ m_fibers = <<>>
         /\ \A t \in Threads : ft[t] = NoTask
         /\ \A k \in Tasks : m_state[k] \in {"NONE", "TERM"}
<1>1. \A t \in Threads : ft[t] = NoTask
  BY QuietHands, IInvParts
<1>2. m_fibers = <<>>
  BY DEF Stopping
<1>3. \A k \in Tasks : ~Queued(k)
  BY <1>2 DEF Queued
<1>4. \A k \in Tasks : ~Advancing(k)
  BY <1>1, <1>3, SchedulerAssumption DEF Advancing
<1> QED
  BY <1>1, <1>2, <1>4 DEF IInv, ProgressInv

\* stop() returns only after every task handed to schedule() ran to its end,
\* for every pool, every queue, with use_caller and without, and even when
\* tasks move between threads.
THEOREM StopDrainsAll == Spec => []StopDrains
<1>1. IInv => StopDrains
  BY QuietMeansDone DEF StopDrains, IInv, QuietInv
<1> QED
  BY <1>1, IInvInvariant, PTL

-----------------------------------------------------------------------------
(***************************************************************************)
(* Without switchTo a fiber is resumed by one thread only.                 *)
(***************************************************************************)

\* No thread is suspending a fiber, and a task that waits to be run has not
\* been run before.
FirstRunInv ==
  /\ \A t \in Threads : pc[t] \notin {"yield", "swapout", "aborted", "wrecked"}
  /\ \A k \in Tasks : Queued(k) => m_state[k] = "NONE"
  /\ \A t \in Threads :
       pc[t] \in {"tickle", "dispatch"} /\ ft[t] # NoTask => m_state[ft[t]] = "NONE"

LEMMA FirstRunStep ==
  ASSUME MaxHops = 0, IInv, FirstRunInv, [Next]_vars
  PROVE  FirstRunInv'
<1>0. /\ CoreInv /\ FlowInv /\ TypeOK /\ NoTask \notin Tasks
      /\ pc \in [Threads -> ThreadPC] /\ ft \in [Threads -> Tasks \cup {NoTask}]
      /\ m_state \in [Tasks -> FiberState]
      /\ hops \in [Tasks -> 0..MaxHops]
      /\ Workers \subseteq Threads /\ (UseCaller => Caller \in Threads)
  BY IInvParts, SchedulerAssumption DEF CoreInv, TypeOK, Threads
<1>1. ASSUME NEW k \in Tasks, NEW thread \in PinTargets \cup {AnyThread},
             Fresh(k), Enqueue(k, thread), UNCHANGED <<m_state, ft, pc>>
      PROVE  FirstRunInv'
  <2>1. thread \in Threads \cup {AnyThread}
    BY SchedulerAssumption
  <2>2. \A j \in Tasks : Queued(j)' <=> Queued(j) \/ j = k
    BY <1>0, <1>1, <2>1, EnqueueFacts
  <2> QED
    BY <1>1, <2>2 DEF FirstRunInv, Fresh
<1>2. CASE Owner
  <2>1. ASSUME NEW k \in Tasks, NEW thread \in PinTargets \cup {AnyThread},
               MainSchedule(k, thread)
        PROVE  FirstRunInv'
    BY <1>1, <2>1 DEF MainSchedule, fiberVars
  <2>2. CASE Start \/ StopRequest \/ StopCheck \/ StopCall \/ StopCallReturn \/ StopJoin
    <3>1. /\ UNCHANGED <<m_fibers, m_state, ft>>
          /\ \A t \in Threads : pc'[t] \in {pc[t], "fetch"}
      BY <1>0, <2>2 DEF Start, StopRequest, StopCheck, StopCall, StopCallReturn,
         StopJoin, queueVars, fiberVars, Goto
    <3> QED
      BY <3>1 DEF FirstRunInv, Queued
  <2> QED
    BY <1>2, <2>1, <2>2 DEF Owner
<1>3. ASSUME NEW t \in Threads, RunLoop(t)
      PROVE  FirstRunInv'
  <2>1. CASE FetchTask(t)
    <3>1. PICK k \in Tasks :
            /\ ft' = [ft EXCEPT ![t] = k]
            /\ Queued(k)
            /\ \A j \in Tasks : Queued(j)' => Queued(j)
      BY <1>0, <2>1, FetchFacts
    <3>2. /\ m_state' = m_state
          /\ \E to \in {"tickle", "dispatch"} : pc' = [pc EXCEPT ![t] = to]
      BY <2>1 DEF FetchTask, fiberVars, Goto
    <3> QED
      BY <1>0, <3>1, <3>2 DEF FirstRunInv
  <2>2. CASE SwapIn(t)
    <3>1. /\ pc[t] = "dispatch" /\ ft[t] \in Tasks /\ m_state[ft[t]] = "NONE"
          /\ UNCHANGED <<m_fibers, ft>>
          /\ m_state' = [m_state EXCEPT ![ft[t]] = "EXEC"]
          /\ pc' = [pc EXCEPT ![t] = IF StackInUse(ft[t]) THEN "wrecked" ELSE "exec"]
      BY <1>0, <2>2 DEF SwapIn, FirstRunInv, queueVars, Goto
    <3>2. \A u \in Threads : u # t /\ ft[u] = ft[t] => ~Advances(u)
      BY <1>0, <3>1 DEF FlowInv, TokenInv, OneThread, Advances
    <3>3. ~StackInUse(ft[t])
      BY <3>1, <3>2 DEF StackInUse, FirstRunInv, Advances
    <3>4. ~Queued(ft[t])
      BY <1>0, <3>1 DEF FlowInv, TokenInv, QueuedNotHeld, Advances
    <3>5. \A j \in Tasks : Queued(j)' <=> Queued(j)
      BY <3>1 DEF Queued
    <3>6. /\ \A u \in Threads : pc'[u] \notin {"yield", "swapout", "aborted", "wrecked"}
          /\ \A u \in Threads : pc'[u] \in {"tickle", "dispatch"} => u # t /\ pc'[u] = pc[u]
      BY <1>0, <3>1, <3>3 DEF FirstRunInv
    <3>7. \A k \in Tasks : Queued(k)' => m_state'[k] = "NONE"
      BY <1>0, <3>1, <3>4, <3>5 DEF FirstRunInv
    <3>8. \A u \in Threads : pc'[u] \in {"tickle", "dispatch"} /\ ft'[u] # NoTask
            => m_state'[ft'[u]] = "NONE"
      BY <1>0, <3>1, <3>2, <3>6 DEF FirstRunInv, Advances
    <3> QED
      BY <3>6, <3>7, <3>8 DEF FirstRunInv
  <2>3. CASE YieldToHold(t) \/ SwapOut(t)
    BY <2>3 DEF YieldToHold, SwapOut, FirstRunInv
  <2>4. CASE TaskReturned(t)
    <3>1. /\ UNCHANGED <<m_fibers, m_state>> /\ pc' = [pc EXCEPT ![t] = "loop"]
          /\ ft' = [ft EXCEPT ![t] = NoTask]
      BY <2>4 DEF TaskReturned, fiberVars, Goto
    <3> QED
      BY <1>0, <3>1 DEF FirstRunInv, Queued
  <2>5. CASE FetchNone(t) \/ Tickle(t) \/ DispatchNone(t) \/ EnterIdle(t)
               \/ LeaveRun(t) \/ Idle(t) \/ IdleReturned(t)
    <3>1. UNCHANGED <<m_fibers, m_state, ft>>
      BY <2>5 DEF FetchNone, Tickle, DispatchNone, EnterIdle, LeaveRun, Idle,
         IdleReturned, queueVars, fiberVars
    <3>2. \E to \in ThreadPC \ {"yield", "swapout", "aborted", "wrecked"} :
            /\ pc' = [pc EXCEPT ![t] = to]
            /\ to \in {"tickle", "dispatch"} => ft[t] = NoTask \/ pc[t] = "tickle"
      BY <1>0, <2>5 DEF FetchNone, Tickle, DispatchNone, EnterIdle, LeaveRun, Idle,
         IdleReturned, Goto, ThreadPC, CoreInv, HandInv
    <3> QED
      BY <1>0, <3>1, <3>2 DEF FirstRunInv, Queued
  <2> QED
    BY <1>3, <2>1, <2>2, <2>3, <2>4, <2>5 DEF RunLoop
<1>4. ASSUME NEW t \in Threads, Body(t)
      PROVE  FirstRunInv'
  <2>1. ASSUME NEW k \in Tasks, NEW thread \in PinTargets \cup {AnyThread},
               BodySchedule(t, k, thread)
        PROVE  FirstRunInv'
    BY <1>1, <2>1 DEF BodySchedule, fiberVars
  <2>2. ASSUME NEW thread \in Threads, BodySwitchTo(t, thread)
        PROVE  FALSE
    <3>1. ft[t] \in Tasks
      BY <1>0, <2>2 DEF BodySwitchTo, CoreInv, HandInv
    <3> QED
      BY <1>0, <2>2, <3>1 DEF BodySwitchTo
  <2>3. CASE BodyReturn(t)
    <3>1. /\ pc[t] = "exec" /\ ft[t] \in Tasks /\ UNCHANGED <<m_fibers, ft>>
          /\ m_state' = [m_state EXCEPT ![ft[t]] = "TERM"]
          /\ pc' = [pc EXCEPT ![t] = "back"]
      BY <1>0, <2>3 DEF BodyReturn, queueVars, Goto, CoreInv, HandInv
    <3>2. \A u \in Threads : u # t /\ ft[u] = ft[t] => ~Advances(u)
      BY <1>0, <3>1 DEF FlowInv, TokenInv, OneThread, Advances
    <3>3. ~Queued(ft[t])
      BY <1>0, <3>1 DEF FlowInv, TokenInv, QueuedNotHeld, Advances
    <3>4. \A j \in Tasks : Queued(j)' <=> Queued(j)
      BY <3>1 DEF Queued
    <3> QED
      BY <1>0, <3>1, <3>2, <3>3, <3>4 DEF FirstRunInv, Advances
  <2> QED
    BY <1>4, <2>1, <2>2, <2>3 DEF Body
<1>5. CASE UNCHANGED vars
  BY <1>5 DEF vars, FirstRunInv, Queued
<1> QED
  BY <1>2, <1>3, <1>4, <1>5 DEF Next, Terminated

\* As long as no task calls switchTo, the assertion of Fiber::swapIn holds and
\* no context is resumed before it is saved, for any number of threads and
\* tasks: the queue hands a task to one thread only.
THEOREM SwapInIsSafe ==
  ASSUME MaxHops = 0
  PROVE  Spec => []SwapInSafe
<1>1. Init => FirstRunInv
  BY DEF Init, FirstRunInv, Queued
<1>2. IInv /\ FirstRunInv /\ [Next]_vars => FirstRunInv'
  BY FirstRunStep
<1>3. FirstRunInv => SwapInSafe
  BY DEF FirstRunInv, SwapInSafe, Alive
<1> QED
  BY <1>1, <1>2, <1>3, IInvInvariant, PTL DEF Spec

-----------------------------------------------------------------------------
(***************************************************************************)
(* The scheduler implements TaskPool.                                      *)
(***************************************************************************)

\* A thread that has been inside a fiber has a fiber that was started.
StartedInv ==
  \A t \in Threads :
    pc[t] \in {"exec", "yield", "swapout", "back"} => m_state[ft[t]] # "NONE"

LEMMA StartedStep ==
  ASSUME IInv, StartedInv, [Next]_vars
  PROVE  StartedInv'
<1>0. /\ CoreInv /\ NoTask \notin Tasks
      /\ pc \in [Threads -> ThreadPC] /\ ft \in [Threads -> Tasks \cup {NoTask}]
      /\ m_state \in [Tasks -> FiberState]
      /\ \A t \in Threads :
           pc[t] \in {"exec", "yield", "swapout", "back"} => ft[t] \in Tasks
  BY IInvParts, SchedulerAssumption DEF CoreInv, TypeOK, HandInv
<1>1. CASE Owner
  <2>1. /\ UNCHANGED <<m_state, ft>>
        /\ \A t \in Threads : pc'[t] \in {pc[t], "fetch"}
    BY <1>0, <1>1 DEF Owner, MainSchedule, Start, StopRequest, StopCheck, StopCall,
       StopCallReturn, StopJoin, queueVars, fiberVars, Goto
  <2> QED
    BY <2>1 DEF StartedInv
<1>2. ASSUME NEW t \in Threads, RunLoop(t)
      PROVE  StartedInv'
  <2>1. CASE SwapIn(t)
    <3>1. /\ ft[t] \in Tasks /\ ft' = ft
          /\ \E to \in {"exec", "aborted", "wrecked"} :
               /\ pc' = [pc EXCEPT ![t] = to]
               /\ to = "exec" => m_state' = [m_state EXCEPT ![ft[t]] = "EXEC"]
          /\ m_state' \in {m_state, [m_state EXCEPT ![ft[t]] = "EXEC"]}
      BY <1>0, <2>1 DEF SwapIn, Goto
    <3> QED
      BY <1>0, <3>1 DEF StartedInv
  <2>2. CASE YieldToHold(t)
    <3>1. /\ pc[t] = "yield" /\ ft[t] \in Tasks /\ ft' = ft
          /\ pc' = [pc EXCEPT ![t] = "swapout"]
          /\ m_state' = [m_state EXCEPT ![ft[t]] = "HOLD"]
      BY <1>0, <2>2 DEF YieldToHold, Goto
    <3> QED
      BY <1>0, <3>1 DEF StartedInv
  <2>3. CASE SwapOut(t)
    <3>1. /\ pc[t] = "swapout" /\ ft' = ft /\ m_state' = m_state
          /\ pc' = [pc EXCEPT ![t] = "back"]
      BY <2>3 DEF SwapOut, Goto, fiberVars
    <3> QED
      BY <1>0, <3>1 DEF StartedInv
  <2>4. CASE ~(SwapIn(t) \/ YieldToHold(t) \/ SwapOut(t))
    <3>1. /\ m_state' = m_state
          /\ \A u \in Threads : u # t => pc'[u] = pc[u] /\ ft'[u] = ft[u]
          /\ pc'[t] \notin {"exec", "yield", "swapout", "back"}
      BY <1>0, <1>2, <2>4 DEF RunLoop, FetchTask, FetchNone, Tickle, DispatchNone,
         TaskReturned, EnterIdle, LeaveRun, Idle, IdleReturned, Goto, fiberVars
    <3> QED
      BY <3>1 DEF StartedInv
  <2> QED
    BY <2>1, <2>2, <2>3, <2>4
<1>3. ASSUME NEW t \in Threads, Body(t)
      PROVE  StartedInv'
  <2>1. /\ pc[t] = "exec" /\ ft[t] \in Tasks /\ ft' = ft
        /\ m_state' \in {m_state, [m_state EXCEPT ![ft[t]] = "TERM"]}
        /\ \A u \in Threads : u # t => pc'[u] = pc[u]
    BY <1>0, <1>3 DEF Body, BodySchedule, BodySwitchTo, BodyReturn, Goto, fiberVars
  <2> QED
    BY <1>0, <2>1 DEF StartedInv
<1>4. CASE UNCHANGED vars
  BY <1>4 DEF vars, StartedInv
<1> QED
  BY <1>1, <1>2, <1>3, <1>4 DEF Next, Terminated

InHand(k) == \E t \in Threads : ft[t] = k

LEMMA FreshMeans ==
  ASSUME NEW k \in Tasks
  PROVE  Fresh(k) <=> m_state[k] = "NONE" /\ ~Queued(k) /\ ~InHand(k)
  BY DEF Fresh, Queued, InHand

\* The abstract status of a task depends only on whether it ended and whether
\* it is anywhere in the scheduler.
LEMMA SameStatus ==
  ASSUME \A k \in Tasks : (m_state[k] = "TERM") <=> (m_state'[k] = "TERM"),
         \A k \in Tasks : Fresh(k)' <=> Fresh(k)
  PROVE  statusOf' = statusOf
  BY DEF statusOf

\* schedule(k) is Submit(k) when a task may be accepted.
LEMMA ScheduleIsSubmit ==
  ASSUME IInv, NEW k \in Tasks, NEW thread \in PinTargets \cup {AnyThread},
         Fresh(k), Enqueue(k, thread), UNCHANGED <<m_state, ft, main>>,
         phaseOf = "open" \/ (phaseOf = "closing" /\ TP!Pending # {})
  PROVE  TP!Submit(k)
<1>0. TypeOK /\ thread \in Threads \cup {AnyThread}
  BY SchedulerAssumption DEF IInv
<1>1. \A j \in Tasks : Queued(j)' <=> Queued(j) \/ j = k
  BY <1>0, EnqueueFacts
<1>2. m_state[k] = "NONE" /\ \A j \in Tasks : InHand(j)' <=> InHand(j)
  BY DEF Fresh, InHand
<1>3. \A j \in Tasks : Fresh(j)' <=> m_state'[j] = "NONE" /\ ~Queued(j)' /\ ~InHand(j)'
  BY DEF Fresh, Queued, InHand
<1>4. \A j \in Tasks : Fresh(j)' <=> Fresh(j) /\ j # k
  BY <1>1, <1>2, <1>3, FreshMeans
<1>5. statusOf[k] = "new" /\ statusOf' = [statusOf EXCEPT ![k] = "pending"]
  BY <1>2, <1>4 DEF statusOf
<1>6. phaseOf' = phaseOf
  BY DEF phaseOf
<1> QED
  BY <1>5, <1>6 DEF TP!Submit

\* A task that a thread holds and that has not ended is pending.
LEMMA HeldIsPending ==
  ASSUME NEW t \in Threads, ft[t] \in Tasks, m_state[ft[t]] # "TERM"
  PROVE  statusOf[ft[t]] = "pending" /\ TP!Pending # {}
<1>1. ~Fresh(ft[t])
  BY DEF Fresh
<1>2. statusOf[ft[t]] = "pending"
  BY <1>1 DEF statusOf
<1> QED
  BY <1>2 DEF TP!Pending

\* When stopping() holds nothing is pending.
LEMMA QuietNothingPending ==
  ASSUME IInv, Stopping
  PROVE  TP!Pending = {}
<1>1. \A k \in Tasks : ~Queued(k) /\ ~InHand(k) /\ m_state[k] \in {"NONE", "TERM"}
  BY QuietMeansDone, SchedulerAssumption DEF Queued, InHand
<1>2. \A k \in Tasks : statusOf[k] # "pending"
  BY <1>1, FreshMeans DEF statusOf
<1> QED
  BY <1>2 DEF TP!Pending

\* Every step of run() changes no task's abstract status.
LEMMA RunLoopStutters ==
  ASSUME IInv, StartedInv, NEW t \in Threads, RunLoop(t)
  PROVE  UNCHANGED <<statusOf, phaseOf>>
<1>0. /\ CoreInv /\ FlowInv /\ TypeOK /\ NoTask \notin Tasks
      /\ ft \in [Threads -> Tasks \cup {NoTask}]
      /\ m_state \in [Tasks -> FiberState]
  BY IInvParts, SchedulerAssumption DEF CoreInv, TypeOK
<1>1. phaseOf' = phaseOf
  <2>1. main' = main
    BY DEF RunLoop, FetchTask, FetchNone, Tickle, SwapIn, DispatchNone, TaskReturned,
       EnterIdle, LeaveRun, Idle, IdleReturned, YieldToHold, SwapOut
  <2> QED
    BY <2>1 DEF phaseOf
<1>2. \A j \in Tasks : Fresh(j)' <=> m_state'[j] = "NONE" /\ ~Queued(j)' /\ ~InHand(j)'
  BY DEF Fresh, Queued, InHand
<1>3. CASE FetchTask(t)
  <2>1. PICK k \in Tasks :
          /\ ft' = [ft EXCEPT ![t] = k]
          /\ Queued(k)
          /\ \A j \in Tasks : j # k => (Queued(j)' <=> Queued(j))
    BY <1>0, <1>3, FetchFacts
  <2>2. m_state' = m_state /\ ft[t] = NoTask
    BY <1>0, <1>3 DEF FetchTask, fiberVars, CoreInv, HandInv
  <2>3. InHand(k)' /\ \A j \in Tasks : j # k => (InHand(j)' <=> InHand(j))
    BY <1>0, <2>1, <2>2 DEF InHand
  <2>4. \A j \in Tasks : Fresh(j)' <=> Fresh(j)
    BY <1>2, <2>1, <2>2, <2>3, FreshMeans
  <2> QED
    BY <1>1, <2>2, <2>4, SameStatus
<1>4. CASE TaskReturned(t)
  <2>1. /\ pc[t] = "back" /\ UNCHANGED <<m_fibers, m_state>>
        /\ ft' = [ft EXCEPT ![t] = NoTask] /\ ft[t] \in Tasks
        /\ m_state[ft[t]] # "NONE"
    BY <1>0, <1>4 DEF TaskReturned, fiberVars, CoreInv, HandInv, StartedInv
  <2>2. \A j \in Tasks : Queued(j)' <=> Queued(j)
    BY <2>1 DEF Queued
  <2>3. \A j \in Tasks : j # ft[t] => (InHand(j)' <=> InHand(j))
    BY <1>0, <2>1 DEF InHand
  <2>4. \A j \in Tasks : Fresh(j)' <=> Fresh(j)
    BY <1>2, <2>1, <2>2, <2>3, FreshMeans
  <2> QED
    BY <1>1, <2>1, <2>4, SameStatus
<1>5. CASE SwapIn(t) \/ YieldToHold(t)
  <2>1. /\ UNCHANGED <<m_fibers, ft>> /\ ft[t] \in Tasks
        /\ \E s \in {"EXEC", "HOLD"} : m_state' \in {m_state, [m_state EXCEPT ![ft[t]] = s]}
    BY <1>0, <1>5 DEF SwapIn, YieldToHold, queueVars, CoreInv, HandInv
  <2>2. Advancing(ft[t])
    <3>1. CASE SwapIn(t)
      BY <2>1, <3>1 DEF SwapIn, Advancing, Advances
    <3>2. CASE YieldToHold(t)
      BY <1>0, <3>2 DEF YieldToHold, FlowInv, ProgressInv
    <3> QED
      BY <1>5, <3>1, <3>2
  <2>3. m_state[ft[t]] # "TERM"
    BY <1>0, <2>1, <2>2 DEF FlowInv, TokenInv, TermIsFinal
  <2>4. \A j \in Tasks : (Queued(j)' <=> Queued(j)) /\ (InHand(j)' <=> InHand(j))
    BY <2>1 DEF Queued, InHand
  <2>5. InHand(ft[t])
    BY DEF InHand
  <2>6. \A j \in Tasks : j # ft[t] => m_state'[j] = m_state[j]
    BY <1>0, <2>1
  <2>7. m_state'[ft[t]] # "TERM"
    BY <1>0, <2>1, <2>3
  <2>8. \A j \in Tasks : Fresh(j)' <=> Fresh(j)
    BY <1>2, <2>4, <2>5, <2>6, FreshMeans
  <2> QED
    BY <1>1, <2>3, <2>6, <2>7, <2>8, SameStatus
<1>6. CASE FetchNone(t) \/ Tickle(t) \/ DispatchNone(t) \/ EnterIdle(t)
             \/ LeaveRun(t) \/ Idle(t) \/ IdleReturned(t) \/ SwapOut(t)
  <2>1. UNCHANGED <<m_fibers, m_state, ft>>
    BY <1>6 DEF FetchNone, Tickle, DispatchNone, EnterIdle, LeaveRun, Idle,
       IdleReturned, SwapOut, queueVars, fiberVars
  <2> QED
    BY <1>1, <2>1 DEF statusOf, Fresh
<1> QED
  BY <1>3, <1>4, <1>5, <1>6 DEF RunLoop

\* A body submits tasks, moves, or finishes its own task.
LEMMA BodySimulates ==
  ASSUME IInv, IInv', NEW t \in Threads, Body(t)
  PROVE  TP!Next \/ UNCHANGED <<statusOf, phaseOf>>
<1>0. /\ CoreInv /\ FlowInv /\ TypeOK /\ NoTask \notin Tasks
      /\ ft \in [Threads -> Tasks \cup {NoTask}]
      /\ m_state \in [Tasks -> FiberState]
      /\ pc[t] = "exec" /\ ft[t] \in Tasks
  BY IInvParts, SchedulerAssumption DEF CoreInv, TypeOK, HandInv, Body, BodySchedule,
     BodySwitchTo, BodyReturn
<1>1. Advancing(ft[t]) /\ m_state[ft[t]] # "TERM"
  BY <1>0 DEF FlowInv, TokenInv, TermIsFinal, Advancing, Advances
<1>2. statusOf[ft[t]] = "pending" /\ TP!Pending # {}
  BY <1>0, <1>1, HeldIsPending
<1>3. ~Stopping
  BY <1>0, <1>2, QuietHands
<1>4. phaseOf \in {"open", "closing"}
  BY <1>3 DEF phaseOf, IInv, QuietInv
<1>5. ASSUME NEW k \in Tasks, NEW thread \in PinTargets \cup {AnyThread},
             BodySchedule(t, k, thread)
      PROVE  TP!Next
  <2>1. TP!Submit(k)
    BY <1>2, <1>4, <1>5, ScheduleIsSubmit DEF BodySchedule, fiberVars
  <2> QED
    BY <2>1 DEF TP!Next
<1>6. ASSUME NEW thread \in Threads, BodySwitchTo(t, thread)
      PROVE  UNCHANGED <<statusOf, phaseOf>>
  <2>1. PICK k \in Tasks : k = ft[t]
    BY <1>0
  <2>2. Enqueue(k, thread) /\ UNCHANGED <<m_state, ft, main>>
    BY <1>6, <2>1 DEF BodySwitchTo
  <2>3. \A j \in Tasks : Queued(j)' <=> Queued(j) \/ j = k
    BY <1>0, <2>2, EnqueueFacts
  <2>4. InHand(k) /\ \A j \in Tasks : InHand(j)' <=> InHand(j)
    BY <2>1, <2>2 DEF InHand
  <2>5. \A j \in Tasks : Fresh(j)' <=> m_state'[j] = "NONE" /\ ~Queued(j)' /\ ~InHand(j)'
    BY DEF Fresh, Queued, InHand
  <2>6. \A j \in Tasks : Fresh(j)' <=> Fresh(j)
    BY <2>2, <2>3, <2>4, <2>5, FreshMeans
  <2> QED
    BY <2>2, <2>6, SameStatus DEF phaseOf
<1>7. CASE BodyReturn(t)
  <2>1. /\ UNCHANGED <<m_fibers, ft, main>>
        /\ m_state' = [m_state EXCEPT ![ft[t]] = "TERM"]
    BY <1>7 DEF BodyReturn, queueVars
  <2>2. \A j \in Tasks : j # ft[t] => (Fresh(j)' <=> Fresh(j))
    BY <1>0, <2>1 DEF Fresh
  <2>3. statusOf' = [statusOf EXCEPT ![ft[t]] = "done"]
    BY <1>0, <2>1, <2>2 DEF statusOf
  <2>4. TP!Finish(ft[t])
    BY <1>2, <2>1, <2>3 DEF TP!Finish, phaseOf
  <2> QED
    BY <1>0, <2>4 DEF TP!Next
<1> QED
  BY <1>5, <1>6, <1>7 DEF Body

\* The owner submits tasks, begins to close the pool and closes it.
LEMMA OwnerSimulates ==
  ASSUME IInv, Owner
  PROVE  TP!Next \/ UNCHANGED <<statusOf, phaseOf>>
<1>1. ASSUME NEW k \in Tasks, NEW thread \in PinTargets \cup {AnyThread},
             MainSchedule(k, thread)
      PROVE  TP!Next
  <2>1. phaseOf = "open"
    BY <1>1 DEF MainSchedule, phaseOf
  <2>2. TP!Submit(k)
    BY <1>1, <2>1, ScheduleIsSubmit DEF MainSchedule, fiberVars
  <2> QED
    BY <2>2 DEF TP!Next
<1>2. CASE ~\E k \in Tasks, thread \in PinTargets \cup {AnyThread} : MainSchedule(k, thread)
  <2>1. UNCHANGED <<m_fibers, m_state, ft>>
    BY <1>2 DEF Owner, Start, StopRequest, StopCheck, StopCall, StopCallReturn,
       StopJoin, queueVars, fiberVars
  <2>2. statusOf' = statusOf
    BY <2>1 DEF statusOf, Fresh
  <2>3. CASE StopRequest
    BY <2>2, <2>3 DEF StopRequest, TP!Next, TP!BeginClose, phaseOf
  <2>4. CASE (StopCheck /\ Stopping) \/ StopJoin
    <3>1. Stopping
      BY <2>4, SchedulerAssumption DEF StopJoin, IInv, QuietInv, Threads
    <3>2. phaseOf = "closing" /\ phaseOf' = "closed"
      BY <2>4 DEF StopCheck, StopJoin, phaseOf
    <3> QED
      BY <2>2, <3>1, <3>2, QuietNothingPending DEF TP!Next, TP!Close
  <2>5. CASE Start \/ (StopCheck /\ ~Stopping) \/ StopCall \/ StopCallReturn
    <3>1. phaseOf' = phaseOf
      BY <2>5 DEF Start, StopCheck, StopCall, StopCallReturn, phaseOf
    <3> QED
      BY <2>2, <3>1
  <2> QED
    BY <1>2, <2>3, <2>4, <2>5 DEF Owner
<1> QED
  BY <1>1, <1>2

\* The scheduler, with its queue, counters, polling threads and two-phase
\* stop(), implements TaskPool: tasks are accepted, finished once, and never
\* accepted out of nothing once the pool closes.
THEOREM SchedulerImplementsTaskPool == Spec => ImplementsTaskPool
<1>1. Init => TP!Init
  BY SchedulerAssumption DEF Init, TP!Init, statusOf, phaseOf, Fresh
<1>2. IInv /\ IInv' /\ StartedInv /\ [Next]_vars => [TP!Next]_<<statusOf, phaseOf>>
  <2> SUFFICES ASSUME IInv, IInv', StartedInv, [Next]_vars
               PROVE  TP!Next \/ UNCHANGED <<statusOf, phaseOf>>
    OBVIOUS
  <2>1. CASE UNCHANGED vars
    BY <2>1 DEF vars, statusOf, phaseOf, Fresh
  <2> QED
    BY <2>1, OwnerSimulates, RunLoopStutters, BodySimulates DEF Next, Terminated
<1>3. Init => StartedInv
  BY DEF Init, StartedInv
<1>4. IInv /\ StartedInv /\ [Next]_vars => StartedInv'
  BY StartedStep
<1> QED
  BY <1>1, <1>2, <1>3, <1>4, IInvInvariant, PTL
     DEF Spec, ImplementsTaskPool, TP!Spec, TP!vars

-----------------------------------------------------------------------------
(***************************************************************************)
(* IOManager.                                                              *)
(***************************************************************************)

\* The types of the variables IOManager adds.
IOTypes ==
  /\ m_timers \subseteq Tasks
  /\ registered \subseteq Tasks
  /\ m_pendingEventCount \in Nat
  /\ pipe \in BOOLEAN
  /\ tickling \subseteq Threads \cup {Caller}
  /\ iopc \in [Threads -> IdlePC]
  /\ cbs \in [Threads -> SUBSET Tasks]
  /\ events \in [Threads -> SUBSET Fds]
  /\ ticked \subseteq Threads
  /\ check \in {"timer", "pending", "sched"}

\* The callbacks that wait are finitely many, as each call arms one.
FiniteInv ==
  /\ IsFiniteSet(m_timers)
  /\ IsFiniteSet(registered)
  /\ \A t \in Threads : IsFiniteSet(cbs[t])

\* Nothing is said of what epoll_wait has reported: a report may have reached
\* several threads and may be stale, and only the re-check under the context's
\* mutex tells.
EventInv == IOTypes /\ FiniteInv /\ PendingCountCovers

\* Threads between the scheduling of an event's callback and its discount.
Discounting == {t \in Threads : iopc[t] = "count"}

-----------------------------------------------------------------------------
(***************************************************************************)
(* The Scheduler's own state.                                              *)
(***************************************************************************)

\* schedule(begin, end) appends entries to the queue.
LEMMA BatchFacts ==
  ASSUME TypeOK, NEW n \in Nat, NEW order \in [1..n -> Tasks],
         m_fibers' = m_fibers \o
           [i \in DOMAIN order |-> [task |-> order[i], threadID |-> AnyThread]]
  PROVE  /\ m_fibers' \in Seq(Entry)
         /\ Len(m_fibers') = Len(m_fibers) + n
         /\ \A i \in 1..Len(m_fibers) : m_fibers'[i] = m_fibers[i]
         /\ \A i \in 1..n : m_fibers'[Len(m_fibers) + i].task = order[i]
<1> DEFINE new == [i \in 1..n |-> [task |-> order[i], threadID |-> AnyThread]]
<1>1. m_fibers \in Seq(Entry)
  BY DEF TypeOK
<1>2. \A i \in 1..n : [task |-> order[i], threadID |-> AnyThread] \in Entry
  BY DEF Entry
<1>3. new \in [1..n -> Entry]
  BY <1>2
<1>4. new \in Seq(Entry) /\ Len(new) = n
  <2>1. new \in Seq(Entry)
    BY <1>3, SeqDef
  <2>2. Len(new) \in Nat /\ DOMAIN new = 1..Len(new)
    <3> HIDE DEF new
    <3> QED BY <2>1, LenProperties
  <2>3. DOMAIN new = 1..n
    OBVIOUS
  <2>4. ASSUME NEW a \in Nat, 1..a = 1..n PROVE a = n
    <3>1. a < n => n \in 1..n /\ n \notin 1..a
      OBVIOUS
    <3>2. n < a => a \in 1..a /\ a \notin 1..n
      OBVIOUS
    <3>3. QED BY <2>4, <3>1, <3>2
  <2>5. QED BY <2>1, <2>2, <2>3, <2>4
<1>5. m_fibers' = m_fibers \o new
  OBVIOUS
<1>6. \A i \in 1..n : new[i].task = order[i]
  OBVIOUS
<1> HIDE DEF new
<1>7. /\ m_fibers' \in Seq(Entry)
      /\ Len(m_fibers') = Len(m_fibers) + n
      /\ \A i \in 1..Len(m_fibers) : m_fibers'[i] = m_fibers[i]
      /\ \A i \in 1..n : m_fibers'[Len(m_fibers) + i] = new[i]
  <2>a. /\ m_fibers \o new \in Seq(Entry)
        /\ Len(m_fibers \o new) = Len(m_fibers) + Len(new)
        /\ \A i \in 1..(Len(m_fibers) + Len(new)) : (m_fibers \o new)[i] =
             IF i <= Len(m_fibers) THEN m_fibers[i] ELSE new[i - Len(m_fibers)]
    BY <1>1, <1>4, ConcatProperties
  <2>1. /\ m_fibers' \in Seq(Entry)
        /\ Len(m_fibers') = Len(m_fibers) + n
        /\ \A i \in 1..(Len(m_fibers) + n) : m_fibers'[i] =
             IF i <= Len(m_fibers) THEN m_fibers[i] ELSE new[i - Len(m_fibers)]
    BY <2>a, <1>4, <1>5, Zenon
  <2>2. Len(m_fibers) \in Nat
    BY <1>1, LenProperties
  <2>3. \A i \in 1..Len(m_fibers) : i \in 1..(Len(m_fibers) + n) /\ i <= Len(m_fibers)
    BY <2>2
  <2>4. \A i \in 1..n : /\ Len(m_fibers) + i \in 1..(Len(m_fibers) + n)
                        /\ ~(Len(m_fibers) + i <= Len(m_fibers))
                        /\ (Len(m_fibers) + i) - Len(m_fibers) = i
    BY <2>2
  <2>5. QED BY <2>1, <2>3, <2>4
<1>8. QED BY <1>6, <1>7

\* triggerEvent takes one registered callback, whatever was reported.
LEMMA TriggerFacts ==
  ASSUME IOTypes, NEW t \in Threads, NEW fd \in Fds, TriggerEvent(t, fd)
  PROVE  \E k \in Tasks :
           /\ k \in registered
           /\ registered' = registered \ {k}
           /\ Enqueue(k, AnyThread)
           /\ pc[t] = "idle" /\ iopc[t] = "events"
           /\ iopc' = [iopc EXCEPT ![t] = "count"]
           /\ events' = [events EXCEPT ![t] = @ \ {fd}]
           /\ tickling' = IF m_fibers = <<>> THEN tickling \cup {t} ELSE tickling
           /\ UNCHANGED <<m_stopping, m_activeThreadCount, m_idleThreadCount, m_state,
                          idle_state, hops, ft, pc, main, m_timers, m_pendingEventCount,
                          pipe, cbs, ticked, check>>
BY DEF IOTypes, TriggerEvent, RegisteredAt, InIdle, NeedTickle, At, fiberVars

\* The steps of IOManager leave the Scheduler's counters exact.
LEMMA IOCore ==
  ASSUME CoreInv, IOTypes, FiniteInv, [IONext]_allVars
  PROVE  CoreInv'
<1>a. UNCHANGED vars => CoreInv'
  BY DEF vars, CoreInv, TypeOK, ActiveCountExact, IdleCountExact, HandInv, PhaseInv
<1>0. /\ TypeOK /\ HandInv /\ PhaseInv
      /\ \A t \in Threads : pc[t] = "idle" => ft[t] = NoTask
  BY DEF CoreInv, HandInv
<1>1. CASE OwnerStep
  <2>1. ASSUME NEW k \in Tasks, NEW thread \in PinTargets \cup {AnyThread},
               OwnerSchedule(k, thread)
        PROVE  CoreInv'
    BY <2>1, CoreOwner DEF OwnerSchedule, Owner
  <2>2. CASE IOStart \/ IOStopRequest
    BY <2>2, CoreOwner DEF IOStart, IOStopRequest, Owner
  <2>3. ASSUME NEW k \in Tasks, OwnerAddTimer(k) \/ OwnerAddEvent(k) PROVE CoreInv'
    BY <2>3, <1>a DEF OwnerAddTimer, OwnerAddEvent, ArmTimer, RegisterEvent
  <2>4. CASE IOTickle(Caller)
    BY <2>4, <1>a DEF IOTickle
  <2>5. QED BY <1>1, <2>1, <2>2, <2>3, <2>4 DEF OwnerStep
<1>2. CASE StopStep
  <2>1. CASE StopCheckPassed
    BY <2>1, <1>a DEF StopCheckPassed
  <2>2. CASE StopFirst
    <3>1. /\ main' \in {"returned", "draining"} /\ main = "stopping"
          /\ UNCHANGED <<m_fibers, m_stopping, m_activeThreadCount, m_idleThreadCount,
                         m_state, idle_state, hops, ft, pc>>
      BY <2>2 DEF StopFirst, queueVars, fiberVars
    <3>2. TypeOK' /\ HandInv' /\ PhaseInv'
      BY <3>1, <1>0 DEF TypeOK, HandInv, PhaseInv, MainPC
    <3>3. ActiveCountExact' /\ IdleCountExact'
      BY <3>1 DEF CoreInv, ActiveCountExact, IdleCountExact
    <3>4. QED BY <3>2, <3>3 DEF CoreInv
  <2>3. CASE StopSecond
    <3>1. CASE main' = "calling"
      <4>1. /\ Caller \in Threads /\ main = "draining"
            /\ pc' = [pc EXCEPT ![Caller] = "fetch"]
            /\ idle_state' = [idle_state EXCEPT ![Caller] = "INIT"]
            /\ UNCHANGED <<m_fibers, m_stopping, m_activeThreadCount, m_idleThreadCount,
                           m_state, hops, ft>>
        BY <2>3, <3>1 DEF StopSecond, queueVars, Goto, Threads
      <4>2. pc[Caller] = "off" /\ ft[Caller] = NoTask /\ pc \in [Threads -> ThreadPC]
        BY <4>1, <1>0, <2>3, <3>1 DEF PhaseInv, HandInv, StopSecond, TypeOK
      <4>3. TypeOK'
        BY <1>0, <3>1, <4>1 DEF TypeOK, ThreadPC, FiberState, MainPC
      <4>4. HandInv' /\ PhaseInv'
        BY <1>0, <3>1, <4>1, <4>2 DEF HandInv, PhaseInv
      <4>5. {t \in Threads : pc'[t] \in {"idle", "unidle"}}
              = {t \in Threads : pc[t] \in {"idle", "unidle"}}
        BY <4>1, <4>2
      <4>6. ActiveCountExact' /\ IdleCountExact'
        BY <4>1, <4>5 DEF CoreInv, ActiveCountExact, IdleCountExact
      <4>7. QED BY <4>3, <4>4, <4>6 DEF CoreInv
    <3>2. CASE main' = "joining"
      <4>1. /\ main = "draining"
            /\ UNCHANGED <<m_fibers, m_stopping, m_activeThreadCount, m_idleThreadCount,
                           m_state, idle_state, hops, ft, pc>>
        BY <2>3, <3>2 DEF StopSecond, queueVars
      <4>2. TypeOK' /\ HandInv' /\ PhaseInv'
        BY <3>2, <4>1, <1>0 DEF TypeOK, HandInv, PhaseInv, MainPC
      <4>3. ActiveCountExact' /\ IdleCountExact'
        BY <4>1 DEF CoreInv, ActiveCountExact, IdleCountExact
      <4>4. QED BY <4>2, <4>3 DEF CoreInv
    <3>3. QED BY <2>3, <3>1, <3>2 DEF StopSecond
  <2>4. CASE IOStopCallReturn \/ IOStopJoin
    BY <2>4, CoreOwner DEF IOStopCallReturn, IOStopJoin, Owner
  <2>5. QED BY <1>2, <2>1, <2>2, <2>3, <2>4 DEF StopStep
<1>3. ASSUME NEW t \in Threads, InheritedStep(t) \/ RunTickle(t) PROVE CoreInv'
  BY <1>3, CoreRunLoop DEF InheritedStep, RunTickle, RunLoop
<1>4. ASSUME NEW t \in Threads, TaskStep(t) PROVE CoreInv'
  <2>1. ASSUME NEW k \in Tasks, NEW thread \in PinTargets \cup {AnyThread},
               TaskSchedule(t, k, thread)
        PROVE  CoreInv'
    BY <2>1, CoreBody DEF TaskSchedule, Body
  <2>2. ASSUME NEW k \in Tasks, TaskAddTimer(t, k) \/ TaskAddEvent(t, k) PROVE CoreInv'
    BY <2>2, <1>a DEF TaskAddTimer, TaskAddEvent, ArmTimer, RegisterEvent
  <2>3. CASE TaskReturn(t)
    BY <2>3, CoreBody DEF TaskReturn, Body
  <2>4. QED BY <1>4, <2>1, <2>2, <2>3 DEF TaskStep
<1>5. ASSUME NEW t \in Threads, IOTickle(t) PROVE CoreInv'
  BY <1>5, <1>a DEF IOTickle
<1>6. ASSUME NEW t \in Threads, IdleStep(t) PROVE CoreInv'
  <2>1. CASE UNCHANGED vars
    BY <2>1, <1>a
  <2>2. ASSUME pc[t] = "idle", Goto(t, "unidle"),
               NEW s \in FiberState, idle_state' = [idle_state EXCEPT ![t] = s],
               UNCHANGED <<m_fibers, m_stopping, m_activeThreadCount, m_idleThreadCount,
                           m_state, hops, ft, main>>
        PROVE  CoreInv'
    <3>1. /\ ActiveCountExact' /\ IdleCountExact' /\ HandInv' /\ PhaseInv'
          /\ pc' \in [Threads -> ThreadPC]
      <4>1. "unidle" \in ThreadPC
        BY DEF ThreadPC
      <4>2. QED BY <2>2, <1>0, <4>1, CoreMove
    <3>2. TypeOK'
      BY <2>2, <3>1, <1>0 DEF TypeOK
    <3>3. QED BY <3>1, <3>2 DEF CoreInv
  <2>3. ASSUME m_fibers' \in Seq(Entry),
               UNCHANGED <<m_stopping, m_activeThreadCount, m_idleThreadCount, m_state,
                           idle_state, hops, ft, pc, main>>
        PROVE  CoreInv'
    <3>1. TypeOK' /\ HandInv' /\ PhaseInv'
      BY <2>3, <1>0 DEF TypeOK, HandInv, PhaseInv
    <3>2. ActiveCountExact' /\ IdleCountExact'
      BY <2>3 DEF CoreInv, ActiveCountExact, IdleCountExact
    <3>3. QED BY <3>1, <3>2 DEF CoreInv
  <2>4. CASE \/ CheckTimer(t) \/ CheckPending(t) \/ EpollWait(t) \/ ListExpired(t) \/ CountEvent(t)
             \/ \E fd \in Fds : SkipEvent(t, fd)
    BY <2>4, <2>1 DEF CheckTimer, CheckPending, EpollWait, ListExpired, CountEvent, SkipEvent,
                      IdleOnly
  <2>5. CASE CheckSched(t)
    BY <2>5, <2>1, <2>2 DEF CheckSched, IdleOnly, InIdle, queueVars, FiberState
  <2>6. CASE YieldIdle(t)
    BY <2>6, <2>2 DEF YieldIdle, InIdle, queueVars, FiberState
  <2>7. CASE ScheduleCbs(t)
    <3>1. PICK order \in [1..Cardinality(cbs[t]) -> cbs[t]] :
            m_fibers' = m_fibers \o
              [i \in DOMAIN order |-> [task |-> order[i], threadID |-> AnyThread]]
      BY <2>7 DEF ScheduleCbs
    <3>2. Cardinality(cbs[t]) \in Nat /\ order \in [1..Cardinality(cbs[t]) -> Tasks]
      BY FS_CardinalityType DEF FiniteInv, IOTypes
    <3>4. m_fibers' \in Seq(Entry)
      BY <1>0, <3>1, <3>2, BatchFacts
    <3>3. QED BY <2>7, <2>3, <3>4 DEF ScheduleCbs, fiberVars
  <2>8. ASSUME NEW fd \in Fds, TriggerEvent(t, fd) PROVE CoreInv'
    <3>1. PICK k \in Tasks :
            /\ Enqueue(k, AnyThread)
            /\ UNCHANGED <<m_stopping, m_activeThreadCount, m_idleThreadCount, m_state,
                           idle_state, hops, ft, pc, main>>
      BY <2>8, TriggerFacts
    <3>2. m_fibers' \in Seq(Entry)
      BY <3>1, <1>0, EnqueueFacts
    <3>3. QED BY <2>3, <3>1, <3>2
  <2>9. QED BY <1>6, <2>4, <2>5, <2>6, <2>7, <2>8 DEF IdleStep
<1>7. CASE IOTerminated \/ UNCHANGED allVars
  BY <1>7, <1>a DEF IOTerminated, allVars
<1>8. QED BY <1>1, <1>2, <1>3, <1>4, <1>5, <1>6, <1>7 DEF IONext, ThreadStep

-----------------------------------------------------------------------------
(***************************************************************************)
(* Events and their count.                                                 *)
(***************************************************************************)
LEMMA EventInit == IOInit => EventInv
<1> SUFFICES ASSUME IOInit PROVE EventInv
  OBVIOUS
<1>1. pipe \in BOOLEAN
  BY DEF IOInit
<1>2. IOTypes
  BY <1>1 DEF IOInit, IOTypes, IdlePC
<1>3. IsFiniteSet({}) /\ Cardinality({}) = 0
  BY FS_EmptySet
<1>4. {t \in Threads : iopc[t] = "count"} = {}
  BY DEF IOInit
<1>5. PendingCountCovers
  BY <1>3, <1>4 DEF IOInit, PendingCountCovers
<1>6. FiniteInv
  BY <1>3 DEF IOInit, FiniteInv
<1>7. QED BY <1>2, <1>5, <1>6 DEF EventInv

\* A step that leaves the registrations alone, and in which no thread comes to a
\* discount or away from it.
LEMMA EventSame ==
  ASSUME EventInv, UNCHANGED <<registered, m_pendingEventCount>>,
         Discounting' = Discounting
  PROVE  PendingCountCovers'
BY DEF EventInv, PendingCountCovers, Discounting

\* A move of one thread inside idle() that is not about a discount.
LEMMA MoveSame ==
  ASSUME EventInv, NEW t \in Threads, NEW to \in IdlePC, At(t, to), iopc[t] # "count",
         to # "count"
  PROVE  Discounting' = Discounting /\ iopc' \in [Threads -> IdlePC]
BY DEF EventInv, IOTypes, At, Discounting

\* addEvent: ++m_pendingEventCount with the registration.
LEMMA EventRegister ==
  ASSUME EventInv, NEW x \in Threads \cup {Caller}, NEW k \in Tasks, RegisterEvent(x, k)
  PROVE  EventInv'
<1>1. /\ k \notin registered
      /\ registered' = registered \cup {k}
      /\ m_pendingEventCount' = m_pendingEventCount + 1
      /\ UNCHANGED <<m_timers, pipe, tickling, iopc, cbs, events, ticked, check>>
  BY DEF RegisterEvent, Unused
<1>3. /\ IsFiniteSet(registered')
      /\ Cardinality(registered') = Cardinality(registered) + 1
  BY <1>1, FS_AddElement DEF EventInv, FiniteInv
<1>4. IOTypes' /\ FiniteInv'
  BY <1>1, <1>3 DEF EventInv, IOTypes, FiniteInv
<1>5. PendingCountCovers'
  <2>1. Cardinality(registered) \in Nat
    BY FS_CardinalityType DEF EventInv, FiniteInv
  <2>2. Cardinality(Discounting) \in Nat /\ Discounting' = Discounting
    <3>1. Discounting \in SUBSET Threads /\ Discounting' = Discounting
      BY <1>1 DEF Discounting
    <3>2. PICK t \in Threads : TRUE
      BY SchedulerAssumption
    <3>3. QED BY <3>1, <3>2, Counting
  <2>3. QED BY <1>1, <1>3, <2>1, <2>2 DEF EventInv, PendingCountCovers, Discounting
<1>6. QED BY <1>4, <1>5 DEF EventInv

\* The thread that schedules the callback is counted until it has discounted.
LEMMA EventTrigger ==
  ASSUME EventInv, NEW t \in Threads, NEW fd \in Fds, TriggerEvent(t, fd)
  PROVE  EventInv'
<1>1. PICK k \in Tasks :
        /\ k \in registered /\ iopc[t] = "events"
        /\ events' = [events EXCEPT ![t] = @ \ {fd}]
        /\ registered' = registered \ {k}
        /\ iopc' = [iopc EXCEPT ![t] = "count"]
        /\ tickling' = IF m_fibers = <<>> THEN tickling \cup {t} ELSE tickling
        /\ UNCHANGED <<m_timers, m_pendingEventCount, pipe, cbs, ticked, check>>
  BY TriggerFacts DEF EventInv
<1>2. /\ IsFiniteSet(registered')
      /\ Cardinality(registered') = Cardinality(registered) - 1
      /\ Cardinality(registered) \in Nat
  BY <1>1, FS_RemoveElement, FS_CardinalityType DEF EventInv, FiniteInv
<1>3. IOTypes' /\ FiniteInv'
  <2>1. \A u \in Threads : events'[u] \in SUBSET Fds
    BY <1>1 DEF EventInv, IOTypes
  <2>2. events' \in [Threads -> SUBSET Fds]
    BY <1>1, <2>1 DEF EventInv, IOTypes
  <2>3. QED BY <1>1, <1>2, <2>2 DEF EventInv, IOTypes, FiniteInv, IdlePC
<1>4. PendingCountCovers'
  <2>1. t \notin Discounting /\ Discounting' = Discounting \cup {t}
    BY <1>1 DEF EventInv, IOTypes, Discounting
  <2>2. /\ Cardinality(Discounting') = Cardinality(Discounting) + 1
        /\ Cardinality(Discounting) \in Nat
    <3>1. Discounting \in SUBSET Threads /\ Discounting' \in SUBSET Threads
      BY DEF Discounting
    <3>2. QED BY <2>1, <3>1, Counting
  <2>3. QED BY <1>1, <1>2, <2>2 DEF EventInv, PendingCountCovers, Discounting
<1>5. QED BY <1>3, <1>4 DEF EventInv

\* A stale report is dropped.
LEMMA EventSkip ==
  ASSUME EventInv, NEW t \in Threads, NEW fd \in Fds, SkipEvent(t, fd)
  PROVE  EventInv'
<1>1. /\ events' = [events EXCEPT ![t] = @ \ {fd}]
      /\ UNCHANGED <<m_timers, registered, m_pendingEventCount, pipe, tickling, iopc, cbs,
                     ticked, check>>
  BY DEF SkipEvent
<1>2. \A u \in Threads : events'[u] \in SUBSET Fds
  BY <1>1 DEF EventInv, IOTypes
<1>3. events' \in [Threads -> SUBSET Fds]
  BY <1>1, <1>2 DEF EventInv, IOTypes
<1>4. IOTypes' /\ FiniteInv'
  BY <1>1, <1>3 DEF EventInv, IOTypes, FiniteInv
<1>5. QED BY <1>1, <1>4, EventSame DEF EventInv, Discounting

LEMMA EventCount ==
  ASSUME EventInv, NEW t \in Threads, CountEvent(t)
  PROVE  EventInv'
<1>1. /\ iopc[t] = "count"
      /\ m_pendingEventCount' = m_pendingEventCount - 1
      /\ iopc' = [iopc EXCEPT ![t] = "events"]
      /\ UNCHANGED <<m_timers, registered, pipe, tickling, cbs, events, ticked, check>>
  BY DEF CountEvent, InIdle, At
<1>2. t \in Discounting /\ Discounting' = Discounting \ {t}
  BY <1>1 DEF EventInv, IOTypes, Discounting
<1>3. /\ Cardinality(Discounting') = Cardinality(Discounting) - 1
      /\ Cardinality(Discounting) # 0 /\ Cardinality(Discounting) \in Nat
  <2>1. Discounting \in SUBSET Threads /\ Discounting' \in SUBSET Threads
    BY DEF Discounting
  <2>2. QED BY <1>2, <2>1, Counting
<1>4. Cardinality(registered) \in Nat
  BY FS_CardinalityType DEF EventInv, FiniteInv
<1>5. PendingCountCovers'
  BY <1>1, <1>3, <1>4 DEF EventInv, PendingCountCovers, Discounting
<1>6. m_pendingEventCount' \in Nat
  BY <1>1, <1>3, <1>4 DEF EventInv, PendingCountCovers, Discounting
<1>7. IOTypes' /\ FiniteInv'
  BY <1>1, <1>6 DEF EventInv, IOTypes, FiniteInv, IdlePC
<1>8. QED BY <1>5, <1>7 DEF EventInv

\* epoll_wait reports fds with a registration, to any number of threads.
LEMMA EventWait ==
  ASSUME EventInv, NEW t \in Threads, EpollWait(t)
  PROVE  EventInv'
<1>1. PICK ready \in SUBSET {FdOf[k] : k \in registered} :
        events' = [events EXCEPT ![t] = ready]
  BY DEF EpollWait
<1>2. /\ iopc[t] = "epoll" /\ At(t, "list")
      /\ ticked' = IF pipe THEN ticked \cup {t} ELSE ticked
      /\ pipe' = FALSE
      /\ UNCHANGED <<m_timers, registered, m_pendingEventCount, tickling, cbs, check>>
  BY DEF EpollWait, InIdle
<1>3. Discounting' = Discounting /\ iopc' \in [Threads -> IdlePC]
  BY <1>2, MoveSame DEF IdlePC
<1>4. pipe' \in BOOLEAN
  BY <1>2
<1>5. ready \in SUBSET Fds
  BY DEF EventInv, IOTypes, Fds
<1>6. events' \in [Threads -> SUBSET Fds]
  BY <1>1, <1>5 DEF EventInv, IOTypes
<1>7. IOTypes' /\ FiniteInv'
  BY <1>2, <1>3, <1>4, <1>6 DEF EventInv, IOTypes, FiniteInv
<1>8. QED BY <1>2, <1>3, <1>7, EventSame DEF EventInv

\* addTimer arms one more timer.
LEMMA EventTimer ==
  ASSUME EventInv, NEW x \in Threads \cup {Caller}, NEW k \in Tasks, ArmTimer(x, k)
  PROVE  EventInv'
<1>1. /\ m_timers' = m_timers \cup {k}
      /\ tickling' \in {tickling, tickling \cup {x}}
      /\ UNCHANGED <<registered, m_pendingEventCount, pipe, iopc, cbs, events, ticked, check>>
  BY DEF ArmTimer
<1>2. IsFiniteSet(m_timers')
  BY <1>1, FS_AddElement DEF EventInv, FiniteInv
<1>3. IOTypes' /\ FiniteInv'
  BY <1>1, <1>2 DEF EventInv, IOTypes, FiniteInv
<1>4. PendingCountCovers'
  BY <1>1, EventSame DEF Discounting
<1>5. QED BY <1>3, <1>4 DEF EventInv

\* The other steps of idle(): they move callbacks, or only look.
LEMMA EventIdle ==
  ASSUME EventInv, NEW t \in Threads,
         \/ CheckTimer(t)
         \/ CheckPending(t)
         \/ CheckSched(t)
         \/ ListExpired(t)
         \/ ScheduleCbs(t)
         \/ YieldIdle(t)
  PROVE  EventInv'
<1>1. PICK to \in IdlePC \ {"count"} : At(t, to)
  BY DEF CheckTimer, CheckPending, CheckSched, ListExpired, ScheduleCbs, YieldIdle, IdlePC
<1>2. /\ iopc[t] # "count"
      /\ UNCHANGED <<registered, m_pendingEventCount, events, check>>
  BY DEF CheckTimer, CheckPending, CheckSched, ListExpired, ScheduleCbs, YieldIdle, InIdle
<1>3. Discounting' = Discounting /\ iopc' \in [Threads -> IdlePC]
  BY <1>1, <1>2, MoveSame
<1>4. /\ m_timers' \subseteq m_timers
      /\ cbs' \in [Threads -> SUBSET Tasks]
      /\ \A u \in Threads : cbs'[u] \subseteq cbs[u] \/ cbs'[u] \subseteq m_timers
  BY DEF EventInv, IOTypes, CheckTimer, CheckPending, CheckSched, ListExpired, ScheduleCbs,
         YieldIdle
<1>5. tickling' \subseteq tickling \cup {t} /\ ticked' \subseteq ticked /\ pipe' \in BOOLEAN
  <2>1. tickling' \subseteq tickling \cup {t} /\ ticked' \subseteq ticked
    BY DEF CheckTimer, CheckPending, CheckSched, ListExpired, ScheduleCbs, YieldIdle, NeedTickle
  <2>2. CASE YieldIdle(t)
    BY <2>2, <2>1 DEF YieldIdle
  <2>3. CASE ~YieldIdle(t)
    <3>1. pipe' = pipe
      BY <2>3 DEF CheckTimer, CheckPending, CheckSched, ListExpired, ScheduleCbs
    <3>2. QED BY <2>1, <3>1 DEF EventInv, IOTypes
  <2>4. QED BY <2>2, <2>3
<1>6. FiniteInv'
  <2>1. IsFiniteSet(m_timers')
    BY <1>4, FS_Subset DEF EventInv, FiniteInv
  <2>2. ASSUME NEW u \in Threads PROVE IsFiniteSet(cbs'[u])
    BY <1>4, FS_Subset DEF EventInv, FiniteInv
  <2>3. QED BY <1>2, <2>1, <2>2 DEF EventInv, FiniteInv
<1>7. IOTypes'
  BY <1>2, <1>3, <1>4, <1>5 DEF EventInv, IOTypes
<1>8. PendingCountCovers'
  BY <1>2, <1>3, EventSame
<1>9. QED BY <1>6, <1>7, <1>8 DEF EventInv

LEMMA EventStep ==
  ASSUME EventInv, [IONext]_allVars
  PROVE  EventInv'
<1>a. UNCHANGED ioVars => EventInv'
  BY DEF ioVars, EventInv, IOTypes, FiniteInv, PendingCountCovers
\* Steps that at most change who is about to tickle, the pipe and the reads of
\* stop().
<1>b. ASSUME tickling' \subseteq tickling \cup Threads \cup {Caller}, pipe' \in BOOLEAN,
             check' \in {"timer", "pending", "sched"},
             UNCHANGED <<m_timers, registered, m_pendingEventCount, iopc, cbs, events,
                         ticked>>
      PROVE  EventInv'
  <2>1. IOTypes' /\ FiniteInv'
    BY <1>b DEF EventInv, IOTypes, FiniteInv
  <2>2. PendingCountCovers'
    BY <1>b, EventSame DEF Discounting
  <2>3. QED BY <2>1, <2>2 DEF EventInv
<1>c. pipe \in BOOLEAN /\ check \in {"timer", "pending", "sched"} /\ tickling \subseteq Threads \cup {Caller}
  BY DEF EventInv, IOTypes
<1>d. ASSUME NEW x \in Threads \cup {Caller}, IOTickle(x) PROVE EventInv'
  <2>1. pipe' \in BOOLEAN
    BY <1>d, <1>c DEF IOTickle, WritePipe
  <2>2. QED BY <1>d, <1>b, <1>c, <2>1 DEF IOTickle
<1>1. CASE OwnerStep
  <2>1. ASSUME NEW k \in Tasks, NEW thread \in PinTargets \cup {AnyThread},
               OwnerSchedule(k, thread)
        PROVE  EventInv'
    BY <2>1, <1>b, <1>c DEF OwnerSchedule, NeedTickle
  <2>2. CASE IOStart \/ IOStopRequest
    BY <2>2, <1>a DEF IOStart, IOStopRequest
  <2>3. ASSUME NEW k \in Tasks, OwnerAddTimer(k) \/ OwnerAddEvent(k) PROVE EventInv'
    BY <2>3, EventTimer, EventRegister DEF OwnerAddTimer, OwnerAddEvent
  <2>4. CASE IOTickle(Caller)
    BY <2>4, <1>d
  <2>5. QED BY <1>1, <2>1, <2>2, <2>3, <2>4 DEF OwnerStep
<1>2. CASE StopStep
  <2>1. CASE StopCheckPassed
    BY <2>1, <1>b, <1>c DEF StopCheckPassed
  <2>2. CASE StopFirst
    BY <2>2, <1>b, <1>c DEF StopFirst
  <2>3. CASE StopSecond
    BY <2>3, <1>b, <1>c DEF StopSecond
  <2>4. CASE IOStopCallReturn \/ IOStopJoin
    BY <2>4, <1>a DEF IOStopCallReturn, IOStopJoin
  <2>5. QED BY <1>2, <2>1, <2>2, <2>3, <2>4 DEF StopStep
<1>3. ASSUME NEW t \in Threads, ThreadStep(t) PROVE EventInv'
  <2>1. CASE InheritedStep(t)
    BY <2>1, <1>a DEF InheritedStep
  <2>2. CASE RunTickle(t)
    <3>1. pipe' \in BOOLEAN
      BY <2>2, <1>c DEF RunTickle, WritePipe
    <3>2. QED BY <2>2, <3>1, <1>b, <1>c DEF RunTickle
  <2>3. CASE IdleStep(t)
    BY <2>3, EventIdle, EventWait, EventSkip, EventTrigger, EventCount DEF IdleStep
  <2>4. CASE IOTickle(t)
    BY <2>4, <1>d
  <2>5. QED BY <1>3, <2>1, <2>2, <2>3, <2>4 DEF ThreadStep
<1>4. ASSUME NEW t \in Threads, TaskStep(t) PROVE EventInv'
  <2>1. ASSUME NEW k \in Tasks, NEW thread \in PinTargets \cup {AnyThread},
               TaskSchedule(t, k, thread)
        PROVE  EventInv'
    BY <2>1, <1>b, <1>c DEF TaskSchedule, NeedTickle
  <2>2. ASSUME NEW k \in Tasks, TaskAddTimer(t, k) \/ TaskAddEvent(t, k) PROVE EventInv'
    BY <2>2, EventTimer, EventRegister DEF TaskAddTimer, TaskAddEvent
  <2>3. CASE TaskReturn(t)
    BY <2>3, <1>a DEF TaskReturn
  <2>4. QED BY <1>4, <2>1, <2>2, <2>3 DEF TaskStep
<1>5. CASE IOTerminated \/ UNCHANGED allVars
  BY <1>5, <1>a DEF IOTerminated, allVars
<1>6. QED BY <1>1, <1>2, <1>3, <1>4, <1>5 DEF IONext

LEMMA EventInvariant == IOSpec => [](CoreInv /\ EventInv)
<1>1. IOInit => CoreInv /\ EventInv
  BY CoreInit, EventInit DEF IOInit
<1>2. (CoreInv /\ EventInv) /\ [IONext]_allVars => (CoreInv /\ EventInv)'
  BY IOCore, EventStep DEF EventInv
<1>3. QED BY <1>1, <1>2, PTL DEF IOSpec

\* The variables of Scheduler and IOManager keep their types; in particular no
\* counter is ever decremented below zero.
THEOREM IOTypeCorrect == IOSpec => []IOTypeOK
<1>1. CoreInv /\ EventInv => IOTypeOK
  BY DEF CoreInv, EventInv, IOTypes, IOTypeOK
<1>2. QED BY <1>1, EventInvariant, PTL

\* m_pendingEventCount is the number of registered events plus the number of
\* threads between triggerEvent and --m_pendingEventCount, for any number of
\* threads that handle events at the same time, also when epoll_wait reported an
\* event to several of them or the fd has a new registration since: the re-check
\* of fdContext->events is enough.
THEOREM PendingCountExact == IOSpec => []PendingCountCovers
<1>1. CoreInv /\ EventInv => PendingCountCovers
  BY DEF EventInv
<1>2. QED BY <1>1, EventInvariant, PTL

-----------------------------------------------------------------------------
(***************************************************************************)
(* The way of a callback: armed (in m_timers, registered, or expired and   *)
(* in the hands of an idle thread), queued, taken, run, ended.             *)
(***************************************************************************)
RunPC == {"off", "fetch", "tickle", "dispatch", "exec", "back", "loop", "idle", "unidle",
          "done"}

\* A thread is in idle() or in run(), and has expired callbacks in hand only
\* between listExpiredCb and schedule(cbs).  No thread fails in swapIn.
PlaceInv ==
  \A t \in Threads :
    /\ pc[t] \in RunPC
    /\ iopc[t] # "none" => pc[t] = "idle"
    /\ cbs[t] # {} => iopc[t] = "cbs"
    /\ pc[t] = "idle" => idle_state[t] = "EXEC"
    /\ pc[t] = "done" => idle_state[t] = "TERM"

\* m_state of the task in a thread's hand, by the place of the thread.
StateAt(p) == IF p = "exec" THEN "EXEC" ELSE IF p = "back" THEN "TERM" ELSE "NONE"

\* A task is queued once, or in one hand, and has the state that belongs there.
TaskInv ==
  /\ QueueDistinct
  /\ \A t, u \in Threads : ft[t] # NoTask /\ ft[t] = ft[u] => t = u
  /\ \A k \in Tasks : Queued(k) => m_state[k] = "NONE" /\ \A t \in Threads : ft[t] # k
  /\ \A t \in Threads : ft[t] # NoTask => m_state[ft[t]] = StateAt(pc[t])
  /\ \A k \in Tasks : m_state[k] \notin {"NONE", "TERM"} => \E t \in Threads : ft[t] = k

Armed(k) == k \in m_timers \/ k \in registered \/ \E t \in Threads : k \in cbs[t]

\* An armed callback was never scheduled, and is armed in one place.
WaitInv ==
  /\ \A k \in Tasks : Armed(k) => Fresh(k)
  /\ \A k \in Tasks : k \in m_timers => k \notin registered
  /\ \A t \in Threads, k \in Tasks : k \in cbs[t] => k \notin m_timers /\ k \notin registered
  /\ \A t, u \in Threads, k \in Tasks : k \in cbs[t] /\ k \in cbs[u] => t = u

WayInv == PlaceInv /\ TaskInv /\ WaitInv

Base == CoreInv /\ EventInv

LEMMA FreshIs ==
  ASSUME NEW k \in Tasks
  PROVE  Fresh(k) <=> m_state[k] = "NONE" /\ ~Queued(k) /\ \A t \in Threads : ft[t] # k
BY DEF Fresh, Queued

LEMMA UnusedIs ==
  ASSUME NEW k \in Tasks
  PROVE  Unused(k) <=> Fresh(k) /\ ~Armed(k)
BY DEF Unused, Armed

LEMMA WayInit == IOInit => WayInv
<1> SUFFICES ASSUME IOInit PROVE WayInv
  OBVIOUS
<1>1. PlaceInv
  BY DEF IOInit, Init, PlaceInv, RunPC
<1>2. TaskInv
  BY DEF IOInit, Init, TaskInv, QueueDistinct, Queued
<1>3. WaitInv
  BY DEF IOInit, Init, WaitInv, Armed
<1>4. QED BY <1>1, <1>2, <1>3 DEF WayInv

\* Threads that only move keep the state their task should have.
LEMMA TaskMove ==
  ASSUME Base, TaskInv, UNCHANGED <<m_fibers, m_state, ft>>,
         \A u \in Threads : ft[u] # NoTask => StateAt(pc'[u]) = StateAt(pc[u])
  PROVE  TaskInv'
BY DEF TaskInv, QueueDistinct, Queued

LEMMA WaitMove ==
  ASSUME WaitInv, UNCHANGED <<m_fibers, m_state, ft, m_timers, registered, cbs>>
  PROVE  WaitInv'
BY DEF WaitInv, Armed, Fresh

\* A callback that was not scheduled before enters the queue.
LEMMA TaskEnqueue ==
  ASSUME Base, TaskInv, NEW k \in Tasks, NEW thread \in Threads \cup {AnyThread},
         Fresh(k), Enqueue(k, thread), UNCHANGED <<m_state, ft, pc>>
  PROVE  /\ TaskInv'
         /\ \A j \in Tasks : j # k /\ Fresh(j) => Fresh(j)'
<1>1. /\ \A j \in Tasks : Queued(j)' <=> Queued(j) \/ j = k
      /\ ~Queued(k) /\ QueueDistinct => \A i, j \in DOMAIN m_fibers' :
           m_fibers'[i].task = m_fibers'[j].task => i = j
  BY EnqueueFacts DEF Base, CoreInv
<1>2. m_state[k] = "NONE" /\ ~Queued(k) /\ \A t \in Threads : ft[t] # k
  BY FreshIs
<1>3. QueueDistinct'
  BY <1>1, <1>2 DEF TaskInv, QueueDistinct
<1>4. TaskInv'
  BY <1>1, <1>2, <1>3 DEF TaskInv
<1>5. ASSUME NEW j \in Tasks, j # k, Fresh(j) PROVE Fresh(j)'
  <2>1. m_state[j] = "NONE" /\ ~Queued(j) /\ \A t \in Threads : ft[t] # j
    BY <1>5, FreshIs
  <2>2. m_state'[j] = "NONE" /\ ~Queued(j)' /\ \A t \in Threads : ft'[t] # j
    BY <1>1, <1>5, <2>1
  <2>3. QED BY <2>2 DEF Fresh, Queued
<1>6. QED BY <1>4, <1>5

LEMMA WaySchedule ==
  ASSUME Base, WayInv, NEW k \in Tasks, NEW thread \in PinTargets \cup {AnyThread},
         Unused(k), Enqueue(k, thread),
         UNCHANGED <<m_state, idle_state, ft, pc, m_timers, registered, iopc, cbs>>
  PROVE  WayInv'
<1>1. thread \in Threads \cup {AnyThread}
  BY SchedulerAssumption
<1>2. Fresh(k) /\ ~Armed(k)
  BY UnusedIs
<1>3. TaskInv' /\ \A j \in Tasks : j # k /\ Fresh(j) => Fresh(j)'
  BY <1>1, <1>2, TaskEnqueue DEF WayInv
<1>4. WaitInv'
  <2>1. \A j \in Tasks : Armed(j)' <=> Armed(j)
    BY DEF Armed
  <2>2. QED BY <1>2, <1>3, <2>1 DEF WayInv, WaitInv
<1>5. PlaceInv'
  BY DEF WayInv, PlaceInv
<1>6. QED BY <1>3, <1>4, <1>5 DEF WayInv

LEMMA WayArm ==
  ASSUME Base, WayInv, NEW k \in Tasks, Unused(k),
         \/ m_timers' = m_timers \cup {k} /\ registered' = registered
         \/ registered' = registered \cup {k} /\ m_timers' = m_timers,
         UNCHANGED <<vars, iopc, cbs>>
  PROVE  WayInv'
<1>1. Fresh(k) /\ ~Armed(k)
  BY UnusedIs
<1>2. UNCHANGED <<m_fibers, m_state, idle_state, ft, pc>>
  BY DEF vars
<1>3. TaskInv'
  BY <1>2, TaskMove DEF WayInv
<1>4. PlaceInv'
  BY <1>2 DEF WayInv, PlaceInv
<1>5. WaitInv'
  <2>1. \A j \in Tasks : Fresh(j)' <=> Fresh(j)
    BY <1>2 DEF Fresh
  <2>2. \A j \in Tasks : Armed(j)' <=> Armed(j) \/ j = k
    BY DEF Armed
  <2>3. QED BY <1>1, <2>1, <2>2 DEF WayInv, WaitInv, Armed
<1>6. QED BY <1>3, <1>4, <1>5 DEF WayInv

\* A step in which threads only move, or change what only idle() looks at.
LEMMA WayMove ==
  ASSUME Base, WayInv, PlaceInv',
         UNCHANGED <<m_fibers, m_state, ft, m_timers, registered, cbs>>,
         \A u \in Threads : ft[u] # NoTask => StateAt(pc'[u]) = StateAt(pc[u])
  PROVE  WayInv'
BY TaskMove, WaitMove DEF WayInv

\* listExpiredCb moves callbacks from m_timers into the thread's hands.
LEMMA WayList ==
  ASSUME Base, WayInv, NEW t \in Threads, ListExpired(t)
  PROVE  WayInv'
<1>1. PICK expired \in SUBSET m_timers :
        /\ m_timers' = m_timers \ expired
        /\ cbs' = [cbs EXCEPT ![t] = expired]
        /\ At(t, IF expired = {} THEN "events" ELSE "cbs")
  BY DEF ListExpired
<1>2. /\ pc[t] = "idle" /\ iopc[t] = "list"
      /\ UNCHANGED <<m_fibers, m_state, idle_state, ft, pc, registered>>
  BY DEF ListExpired, InIdle, IdleOnly, vars
<1>3. cbs \in [Threads -> SUBSET Tasks] /\ iopc \in [Threads -> IdlePC] /\ m_timers \subseteq Tasks
  BY DEF Base, EventInv, IOTypes
<1>4. /\ \A u \in Threads : cbs'[u] = IF u = t THEN expired ELSE cbs[u]
      /\ \A u \in Threads : iopc'[u] = IF u = t THEN (IF expired = {} THEN "events" ELSE "cbs")
                                                ELSE iopc[u]
  BY <1>1, <1>3 DEF At
<1>5. cbs[t] = {}
  BY <1>2 DEF WayInv, PlaceInv
<1>6. PlaceInv'
  BY <1>2, <1>4 DEF WayInv, PlaceInv
<1>7. TaskInv'
  BY <1>2, TaskMove DEF WayInv
<1>8. WaitInv'
  <2>1. \A j \in Tasks : Fresh(j)' <=> Fresh(j)
    BY <1>2 DEF Fresh
  <2>2. \A j \in Tasks : Armed(j)' => Armed(j)
    BY <1>1, <1>2, <1>4 DEF Armed
  <2>3. QED BY <1>1, <1>2, <1>4, <1>5, <2>1, <2>2 DEF WayInv, WaitInv
<1>9. QED BY <1>6, <1>7, <1>8 DEF WayInv

\* triggerEvent: the callback of a registered event goes to the queue.
LEMMA WayTrigger ==
  ASSUME Base, WayInv, NEW t \in Threads, NEW fd \in Fds, TriggerEvent(t, fd)
  PROVE  WayInv'
<1>1. PICK k \in Tasks :
        /\ pc[t] = "idle" /\ iopc[t] = "events" /\ k \in registered
        /\ registered' = registered \ {k}
        /\ Enqueue(k, AnyThread)
        /\ iopc' = [iopc EXCEPT ![t] = "count"]
        /\ UNCHANGED <<m_state, idle_state, ft, pc, m_timers, cbs>>
  BY TriggerFacts DEF Base, EventInv
<1>3. Fresh(k) /\ k \notin m_timers /\ \A u \in Threads : k \notin cbs[u]
  BY <1>1 DEF WayInv, WaitInv, Armed
<1>4. TaskInv' /\ \A j \in Tasks : j # k /\ Fresh(j) => Fresh(j)'
  BY <1>1, <1>3, TaskEnqueue DEF WayInv
<1>5. PlaceInv'
  <2>1. \A u \in Threads : iopc'[u] = IF u = t THEN "count" ELSE iopc[u]
    BY <1>1 DEF Base, EventInv, IOTypes
  <2>2. QED BY <1>1, <2>1 DEF WayInv, PlaceInv
<1>6. WaitInv'
  <2>1. \A j \in Tasks : Armed(j)' => Armed(j) /\ j # k
    BY <1>1, <1>3 DEF Armed
  <2>2. QED BY <1>1, <1>4, <2>1 DEF WayInv, WaitInv
<1>7. QED BY <1>4, <1>5, <1>6 DEF WayInv

\* An order that lists every member of a finite set in as many places as the
\* set has members lists none twice.
LEMMA OrderInjective ==
  ASSUME NEW S, IsFiniteSet(S), NEW order \in [1..Cardinality(S) -> S],
         \A k \in S : \E i \in DOMAIN order : order[i] = k
  PROVE  /\ Cardinality(S) \in Nat
         /\ \A i, j \in 1..Cardinality(S) : order[i] = order[j] => i = j
<1>1. Cardinality(S) \in Nat
  BY FS_CardinalityType
<1>2. IsFiniteSet(1..Cardinality(S)) /\ Cardinality(1..Cardinality(S)) = Cardinality(S)
  <2>1. IsFiniteSet(1..Cardinality(S))
    BY <1>1, FS_Interval
  <2>2. Cardinality(1..Cardinality(S)) = IF 1 > Cardinality(S) THEN 0 ELSE Cardinality(S) - 1 + 1
    BY <1>1, FS_Interval
  <2>3. QED BY <1>1, <2>1, <2>2
<1>3. order \in Surjection(1..Cardinality(S), S)
  BY DEF Surjection
<1>4. order \in Injection(1..Cardinality(S), S)
  BY <1>2, <1>3, FS_SurjSameCardinalityImpliesInj
<1>5. QED BY <1>1, <1>4 DEF Injection, IsInjective

\* schedule(begin, end) queues the expired callbacks, each once.
LEMMA BatchQueued ==
  ASSUME Base, WayInv, NEW t \in Threads, ScheduleCbs(t)
  PROVE  /\ \A j \in Tasks : Queued(j)' <=> Queued(j) \/ j \in cbs[t]
         /\ QueueDistinct'
<1>0. /\ TypeOK /\ IsFiniteSet(cbs[t]) /\ cbs[t] \subseteq Tasks
      /\ m_fibers \in Seq(Entry) /\ QueueDistinct
      /\ \A k \in cbs[t] : ~Queued(k)
  BY FreshIs DEF Base, CoreInv, TypeOK, EventInv, IOTypes, FiniteInv, WayInv, TaskInv, WaitInv,
                 Armed
<1>1. PICK order \in [1..Cardinality(cbs[t]) -> cbs[t]] :
        /\ \A k \in cbs[t] : \E i \in DOMAIN order : order[i] = k
        /\ m_fibers' = m_fibers \o
             [i \in DOMAIN order |-> [task |-> order[i], threadID |-> AnyThread]]
  BY DEF ScheduleCbs
<1> DEFINE n == Cardinality(cbs[t])
           m == Len(m_fibers)
<1>2. n \in Nat /\ \A i, j \in 1..n : order[i] = order[j] => i = j
  BY <1>0, <1>1, OrderInjective
<1>3. order \in [1..n -> Tasks]
  BY <1>0
<1>4. /\ m_fibers' \in Seq(Entry)
      /\ Len(m_fibers') = m + n
      /\ \A i \in 1..m : m_fibers'[i] = m_fibers[i]
      /\ \A i \in 1..n : m_fibers'[m + i].task = order[i]
  BY <1>0, <1>1, <1>2, <1>3, BatchFacts
<1>5. m \in Nat /\ DOMAIN m_fibers = 1..m /\ DOMAIN m_fibers' = 1..(m + n)
  BY <1>0, <1>4, LenProperties
<1> HIDE DEF n, m
<1>6. \A i \in 1..(m + n) : i \in 1..m \/ \E a \in 1..n : i = m + a
  <2>1. \A i \in 1..(m + n) : i \in 1..m \/ ((i - m) \in 1..n /\ i = m + (i - m))
    BY <1>2, <1>5
  <2>2. QED BY <2>1
<1>7. \A i \in 1..m : i \in 1..(m + n)
  BY <1>2, <1>5
<1>8. \A a \in 1..n : m + a \in 1..(m + n)
  BY <1>2, <1>5
<1>9. ASSUME NEW j \in Tasks PROVE Queued(j)' <=> Queued(j) \/ j \in cbs[t]
  <2>1. ASSUME Queued(j)' PROVE Queued(j) \/ j \in cbs[t]
    <3>1. PICK i \in 1..(m + n) : m_fibers'[i].task = j
      BY <2>1, <1>5 DEF Queued
    <3>2. CASE i \in 1..m
      BY <3>1, <3>2, <1>4, <1>5 DEF Queued
    <3>3. CASE i \notin 1..m
      <4>1. PICK a \in 1..n : i = m + a
        BY <3>3, <1>6
      <4>2. j = order[a]
        BY <3>1, <4>1, <1>4
      <4>3. order[a] \in cbs[t]
        BY <1>1 DEF n
      <4>4. QED BY <4>2, <4>3
    <3>4. QED BY <3>2, <3>3
  <2>2. ASSUME Queued(j) PROVE Queued(j)'
    <3>1. PICK i \in 1..m : m_fibers[i].task = j
      BY <2>2, <1>5 DEF Queued
    <3>2. i \in DOMAIN m_fibers' /\ m_fibers'[i].task = j
      BY <3>1, <1>4, <1>5, <1>7
    <3>3. QED BY <3>2 DEF Queued
  <2>3. ASSUME j \in cbs[t] PROVE Queued(j)'
    <3>1. PICK a \in 1..n : order[a] = j
      BY <2>3, <1>1 DEF n
    <3>2. m + a \in DOMAIN m_fibers' /\ m_fibers'[m + a].task = j
      BY <3>1, <1>4, <1>5, <1>8
    <3>3. QED BY <3>2 DEF Queued
  <2>4. QED BY <2>1, <2>2, <2>3
<1>10. ASSUME NEW i \in 1..(m + n), NEW j \in 1..(m + n), m_fibers'[i].task = m_fibers'[j].task
       PROVE  i = j
  <2>0. ASSUME NEW a \in 1..m, NEW b \in 1..n, m_fibers'[a].task = m_fibers'[m + b].task
        PROVE  FALSE
    <3>1. order[b] \in cbs[t] /\ m_fibers[a].task = order[b]
      BY <2>0, <1>1, <1>4 DEF n
    <3>2. Queued(order[b])
      BY <3>1, <1>5 DEF Queued
    <3>3. QED BY <3>1, <3>2, <1>0
  <2>1. CASE i \in 1..m /\ j \in 1..m
    BY <1>10, <2>1, <1>0, <1>4, <1>5 DEF QueueDistinct
  <2>2. CASE i \in 1..m /\ j \notin 1..m
    BY <1>10, <2>0, <2>2, <1>6
  <2>3. CASE i \notin 1..m /\ j \in 1..m
    BY <1>10, <2>0, <2>3, <1>6
  <2>4. CASE i \notin 1..m /\ j \notin 1..m
    <3>1. PICK a \in 1..n, b \in 1..n : i = m + a /\ j = m + b
      BY <2>4, <1>6
    <3>2. order[a] = order[b]
      BY <3>1, <1>10, <1>4
    <3>3. QED BY <3>1, <3>2, <1>2 DEF n
  <2>5. QED BY <2>1, <2>2, <2>3, <2>4
<1>11. QueueDistinct'
  BY <1>5, <1>10 DEF QueueDistinct
<1>12. QED BY <1>9, <1>11

LEMMA WayCbs ==
  ASSUME Base, WayInv, NEW t \in Threads, ScheduleCbs(t)
  PROVE  WayInv'
<1>1. /\ pc[t] = "idle" /\ iopc[t] = "cbs"
      /\ cbs' = [cbs EXCEPT ![t] = {}]
      /\ iopc' = [iopc EXCEPT ![t] = "events"]
      /\ UNCHANGED <<m_state, idle_state, ft, pc, m_timers, registered>>
  BY DEF ScheduleCbs, InIdle, At, fiberVars
<1>2. /\ \A u \in Threads : cbs'[u] = IF u = t THEN {} ELSE cbs[u]
      /\ \A u \in Threads : iopc'[u] = IF u = t THEN "events" ELSE iopc[u]
      /\ cbs[t] \subseteq Tasks
  BY <1>1 DEF Base, EventInv, IOTypes
<1>3. (\A j \in Tasks : Queued(j)' <=> Queued(j) \/ j \in cbs[t]) /\ QueueDistinct'
  BY BatchQueued
<1>4. \A k \in Tasks : k \in cbs[t] =>
        /\ m_state[k] = "NONE" /\ \A u \in Threads : ft[u] # k
        /\ k \notin m_timers /\ k \notin registered
        /\ \A u \in Threads : u # t => k \notin cbs[u]
  BY FreshIs DEF WayInv, WaitInv, Armed
<1>5. TaskInv'
  BY <1>1, <1>3, <1>4 DEF WayInv, TaskInv
<1>6. PlaceInv'
  BY <1>1, <1>2 DEF WayInv, PlaceInv
<1>7. WaitInv'
  <2>1. \A j \in Tasks : Armed(j)' => Armed(j) /\ j \notin cbs[t]
    BY <1>1, <1>2, <1>4 DEF Armed
  <2>2. ASSUME NEW j \in Tasks, Fresh(j), j \notin cbs[t] PROVE Fresh(j)'
    <3>1. m_state[j] = "NONE" /\ ~Queued(j) /\ \A u \in Threads : ft[u] # j
      BY <2>2, FreshIs
    <3>2. m_state'[j] = "NONE" /\ ~Queued(j)' /\ \A u \in Threads : ft'[u] # j
      BY <1>1, <1>3, <2>2, <3>1
    <3>3. QED BY <3>2 DEF Fresh, Queued
  <2>3. QED BY <1>1, <1>2, <2>1, <2>2 DEF WayInv, WaitInv
<1>8. QED BY <1>5, <1>6, <1>7 DEF WayInv

\* The task in hand is run by this thread, for the first time.
LEMMA WaySwapIn ==
  ASSUME Base, WayInv, NEW t \in Threads, SwapIn(t)
  PROVE  /\ ft[t] \in Tasks /\ pc[t] = "dispatch"
         /\ pc' = [pc EXCEPT ![t] = "exec"]
         /\ m_state' = [m_state EXCEPT ![ft[t]] = "EXEC"]
         /\ UNCHANGED <<m_fibers, idle_state, ft>>
<1>1. /\ pc[t] = "dispatch" /\ ft[t] # NoTask /\ UNCHANGED <<m_fibers, idle_state, ft>>
  BY DEF SwapIn, queueVars
<1>2. ft[t] \in Tasks
  BY <1>1 DEF Base, CoreInv, TypeOK
<1>3. m_state[ft[t]] = "NONE"
  BY <1>1 DEF WayInv, TaskInv, StateAt
<1>4. ~StackInUse(ft[t])
  BY <1>1 DEF StackInUse, WayInv, TaskInv
<1>5. QED BY <1>1, <1>2, <1>3, <1>4 DEF SwapIn, Goto

\* The steps of a task's way through run(): taken, run, ended, put away.
LEMMA WayRun ==
  ASSUME Base, WayInv, NEW t \in Threads,
         FetchTask(t) \/ SwapIn(t) \/ BodyReturn(t) \/ TaskReturned(t),
         UNCHANGED ioVars
  PROVE  WayInv'
<1>0. /\ ft \in [Threads -> Tasks \cup {NoTask}] /\ pc \in [Threads -> ThreadPC]
      /\ m_state \in [Tasks -> FiberState] /\ NoTask \notin Tasks
      /\ TypeOK /\ HandInv /\ UNCHANGED <<m_timers, registered, iopc, cbs>>
  BY SchedulerAssumption DEF Base, CoreInv, TypeOK, ioVars
<1>a. \A k \in Tasks : Armed(k)' <=> Armed(k)
  BY <1>0 DEF Armed
<1>b. ASSUME \A k \in Tasks : Armed(k) => Fresh(k)' PROVE WaitInv'
  BY <1>0, <1>a, <1>b DEF WayInv, WaitInv
<1>c. \A k \in Tasks : Armed(k) => m_state[k] = "NONE" /\ ~Queued(k) /\ \A u \in Threads : ft[u] # k
  BY FreshIs DEF WayInv, WaitInv
<1>d. ASSUME NEW to \in RunPC \ {"idle", "done"}, pc' = [pc EXCEPT ![t] = to],
             pc[t] # "idle", idle_state' = idle_state
      PROVE  PlaceInv'
  BY <1>0, <1>d DEF WayInv, PlaceInv
<1>e. ASSUME \A k \in Tasks : Armed(k) =>
               m_state'[k] = "NONE" /\ ~Queued(k)' /\ \A u \in Threads : ft'[u] # k
      PROVE  WaitInv'
  <2>1. \A k \in Tasks : Armed(k) => Fresh(k)'
    BY <1>e DEF Fresh, Queued
  <2>2. QED BY <2>1, <1>b
<1>1. CASE FetchTask(t)
  <2>1. PICK k \in Tasks :
          /\ ft' = [ft EXCEPT ![t] = k]
          /\ Queued(k)
          /\ \A j \in Tasks : j # k => (Queued(j)' <=> Queued(j))
          /\ QueueDistinct => ~Queued(k)'
    BY <1>0, <1>1, FetchFacts
  <2>2. QueueDistinct' /\ ~Queued(k)'
    BY <1>0, <1>1, <2>1, FetchFacts DEF WayInv, TaskInv, QueueDistinct
  <2>3. PICK to \in {"tickle", "dispatch"} : pc' = [pc EXCEPT ![t] = to]
    BY <1>1 DEF FetchTask, Goto
  <2>4. m_state' = m_state /\ idle_state' = idle_state /\ pc[t] = "fetch"
    BY <1>1 DEF FetchTask, fiberVars
  <2>5. m_state[k] = "NONE" /\ (\A u \in Threads : ft[u] # k) /\ ft[t] = NoTask
    BY <1>0, <2>1, <2>4 DEF WayInv, TaskInv, HandInv
  <2>6. TaskInv'
    <3>1. \A u \in Threads : ft'[u] = IF u = t THEN k ELSE ft[u]
      BY <1>0, <2>1
    <3>2. \A u \in Threads : pc'[u] = IF u = t THEN to ELSE pc[u]
      BY <1>0, <2>3
    <3>3. \A u, v \in Threads : ft'[u] # NoTask /\ ft'[u] = ft'[v] => u = v
      BY <2>5, <3>1 DEF WayInv, TaskInv
    <3>4. \A j \in Tasks : Queued(j)' => m_state'[j] = "NONE" /\ \A u \in Threads : ft'[u] # j
      BY <2>1, <2>2, <2>4, <3>1 DEF WayInv, TaskInv
    <3>5. \A u \in Threads : ft'[u] # NoTask => m_state'[ft'[u]] = StateAt(pc'[u])
      BY <2>4, <2>5, <3>1, <3>2 DEF WayInv, TaskInv, StateAt
    <3>6. \A j \in Tasks : m_state'[j] \notin {"NONE", "TERM"} => \E u \in Threads : ft'[u] = j
      BY <2>4, <2>5, <3>1, <1>0 DEF WayInv, TaskInv
    <3>7. QED BY <2>2, <3>3, <3>4, <3>5, <3>6 DEF TaskInv
  <2>7. WaitInv'
    BY <1>0, <1>c, <1>e, <2>1, <2>4
  <2>8. PlaceInv'
    BY <1>d, <2>3, <2>4 DEF RunPC
  <2>9. QED BY <2>6, <2>7, <2>8 DEF WayInv
<1>2. ASSUME NEW from, NEW to \in {"exec", "back"}, NEW s \in {"EXEC", "TERM"},
             s = StateAt(to), pc[t] = from, from \notin {"idle"}, ft[t] \in Tasks,
             pc' = [pc EXCEPT ![t] = to],
             m_state' = [m_state EXCEPT ![ft[t]] = s],
             UNCHANGED <<m_fibers, idle_state, ft>>
      PROVE  WayInv'
  <2>1. \A j \in Tasks : Queued(j)' <=> Queued(j)
    BY <1>2 DEF Queued
  <2>2. /\ \A u \in Threads : pc'[u] = IF u = t THEN to ELSE pc[u]
        /\ \A j \in Tasks : m_state'[j] = IF j = ft[t] THEN s ELSE m_state[j]
    BY <1>0, <1>2
  <2>3. TaskInv'
    <3>1. QueueDistinct' /\ \A u, v \in Threads : ft'[u] # NoTask /\ ft'[u] = ft'[v] => u = v
      BY <1>2 DEF WayInv, TaskInv, QueueDistinct
    <3>2. \A j \in Tasks : Queued(j)' => m_state'[j] = "NONE" /\ \A u \in Threads : ft'[u] # j
      BY <1>2, <2>1, <2>2 DEF WayInv, TaskInv
    <3>3. \A u \in Threads : ft'[u] # NoTask => m_state'[ft'[u]] = StateAt(pc'[u])
      BY <1>0, <1>2, <2>2 DEF WayInv, TaskInv
    <3>4. \A j \in Tasks : m_state'[j] \notin {"NONE", "TERM"} => \E u \in Threads : ft'[u] = j
      BY <1>2, <2>2 DEF WayInv, TaskInv
    <3>5. QED BY <3>1, <3>2, <3>3, <3>4 DEF TaskInv
  <2>4. WaitInv'
    BY <1>c, <1>e, <1>2, <2>1, <2>2
  <2>5. PlaceInv'
    BY <1>d, <1>2 DEF RunPC
  <2>6. QED BY <2>3, <2>4, <2>5 DEF WayInv
<1>3. CASE SwapIn(t)
  <2>1. /\ ft[t] \in Tasks /\ pc[t] = "dispatch"
        /\ pc' = [pc EXCEPT ![t] = "exec"]
        /\ m_state' = [m_state EXCEPT ![ft[t]] = "EXEC"]
        /\ UNCHANGED <<m_fibers, idle_state, ft>>
    BY <1>3, WaySwapIn
  <2>2. "EXEC" = StateAt("exec")
    BY DEF StateAt
  <2>3. QED BY <1>2, <2>1, <2>2
<1>4. CASE BodyReturn(t)
  <2>1. /\ ft[t] \in Tasks /\ pc[t] = "exec"
        /\ pc' = [pc EXCEPT ![t] = "back"]
        /\ m_state' = [m_state EXCEPT ![ft[t]] = "TERM"]
        /\ UNCHANGED <<m_fibers, idle_state, ft>>
    BY <1>0, <1>4 DEF BodyReturn, queueVars, Goto, HandInv
  <2>2. "TERM" = StateAt("back")
    BY DEF StateAt
  <2>3. QED BY <1>2, <2>1, <2>2
<1>5. CASE TaskReturned(t)
  <2>1. /\ pc[t] = "back" /\ ft' = [ft EXCEPT ![t] = NoTask]
        /\ pc' = [pc EXCEPT ![t] = "loop"]
        /\ UNCHANGED <<m_fibers, m_state, idle_state>>
    BY <1>5 DEF TaskReturned, Goto, fiberVars
  <2>2. ft[t] \in Tasks /\ m_state[ft[t]] = "TERM"
    BY <1>0, <2>1 DEF HandInv, WayInv, TaskInv, StateAt
  <2>3. /\ \A u \in Threads : pc'[u] = IF u = t THEN "loop" ELSE pc[u]
        /\ \A u \in Threads : ft'[u] = IF u = t THEN NoTask ELSE ft[u]
        /\ \A j \in Tasks : Queued(j)' <=> Queued(j)
    BY <1>0, <2>1 DEF Queued
  <2>4. TaskInv'
    <3>1. QueueDistinct' /\ \A u, v \in Threads : ft'[u] # NoTask /\ ft'[u] = ft'[v] => u = v
      BY <2>1, <2>3 DEF WayInv, TaskInv, QueueDistinct
    <3>2. \A j \in Tasks : Queued(j)' => m_state'[j] = "NONE" /\ \A u \in Threads : ft'[u] # j
      BY <1>0, <2>1, <2>3 DEF WayInv, TaskInv
    <3>3. \A u \in Threads : ft'[u] # NoTask => m_state'[ft'[u]] = StateAt(pc'[u])
      BY <2>1, <2>3 DEF WayInv, TaskInv
    <3>4. \A j \in Tasks : m_state'[j] \notin {"NONE", "TERM"} => \E u \in Threads : ft'[u] = j
      BY <2>1, <2>2, <2>3 DEF WayInv, TaskInv
    <3>5. QED BY <3>1, <3>2, <3>3, <3>4 DEF TaskInv
  <2>5. WaitInv'
    BY <1>0, <1>c, <1>e, <2>1, <2>3
  <2>6. PlaceInv'
    BY <1>d, <2>1 DEF RunPC
  <2>7. QED BY <2>4, <2>5, <2>6 DEF WayInv
<1>6. QED BY <1>1, <1>3, <1>4, <1>5

\* Steps of one thread in which no task changes its place.
LEMMA WayThread ==
  ASSUME Base, WayInv, NEW t \in Threads,
         \/ (FetchNone(t) \/ DispatchNone(t) \/ EnterIdle(t) \/ LeaveRun(t) \/ IdleReturned(t))
              /\ UNCHANGED ioVars
         \/ RunTickle(t)
         \/ CheckTimer(t) \/ CheckPending(t) \/ CheckSched(t) \/ EpollWait(t)
         \/ CountEvent(t) \/ YieldIdle(t) \/ \E fd \in Fds : SkipEvent(t, fd)
  PROVE  WayInv'
<1>0. /\ pc \in [Threads -> ThreadPC] /\ idle_state \in [Threads -> FiberState]
      /\ iopc \in [Threads -> IdlePC] /\ HandInv
  BY DEF Base, CoreInv, TypeOK, EventInv, IOTypes
<1>1. CASE (FetchNone(t) \/ DispatchNone(t) \/ EnterIdle(t) \/ LeaveRun(t) \/ IdleReturned(t))
             /\ UNCHANGED ioVars
  <2>1. UNCHANGED <<m_fibers, m_state, ft, m_timers, registered, cbs, iopc>>
    BY <1>1 DEF FetchNone, DispatchNone, EnterIdle, LeaveRun, IdleReturned, queueVars, fiberVars,
                ioVars
  <2>2. ft[t] = NoTask /\ pc[t] # "idle"
    BY <1>0, <1>1 DEF FetchNone, DispatchNone, EnterIdle, LeaveRun, IdleReturned, HandInv
  <2>3. PICK to \in RunPC :
          /\ pc' = [pc EXCEPT ![t] = to]
          /\ to = "idle" => idle_state' = [idle_state EXCEPT ![t] = "EXEC"]
          /\ to = "done" => idle_state[t] = "TERM"
          /\ to # "idle" => idle_state' = idle_state
    BY <1>1 DEF FetchNone, DispatchNone, EnterIdle, LeaveRun, IdleReturned, fiberVars, Goto, RunPC
  <2>4. PlaceInv'
    BY <1>0, <2>1, <2>2, <2>3 DEF WayInv, PlaceInv
  <2>5. \A u \in Threads : ft[u] # NoTask => StateAt(pc'[u]) = StateAt(pc[u])
    BY <1>0, <2>2, <2>3
  <2>6. QED BY <2>1, <2>4, <2>5, WayMove
<1>2. CASE RunTickle(t)
  <2>1. /\ UNCHANGED <<m_fibers, m_state, ft, m_timers, registered, cbs, iopc, idle_state>>
        /\ pc[t] = "tickle" /\ pc' = [pc EXCEPT ![t] = "dispatch"]
    BY <1>2 DEF RunTickle, Tickle, queueVars, fiberVars, Goto
  <2>2. PlaceInv'
    BY <1>0, <2>1 DEF WayInv, PlaceInv, RunPC
  <2>3. \A u \in Threads : ft[u] # NoTask => StateAt(pc'[u]) = StateAt(pc[u])
    BY <1>0, <2>1 DEF StateAt
  <2>4. QED BY <2>1, <2>2, <2>3, WayMove
<1>3. CASE UNCHANGED vars /\ (CheckTimer(t) \/ CheckPending(t) \/ CheckSched(t) \/ EpollWait(t)
             \/ CountEvent(t) \/ \E fd \in Fds : SkipEvent(t, fd))
  <2>1. /\ UNCHANGED <<m_fibers, m_state, ft, m_timers, registered, cbs, idle_state, pc>>
        /\ pc[t] = "idle" /\ iopc[t] # "cbs"
    BY <1>3 DEF vars, CheckTimer, CheckPending, CheckSched, EpollWait, CountEvent, SkipEvent,
                InIdle
  <2>2. \A u \in Threads : u # t => iopc'[u] = iopc[u]
    BY <1>0, <1>3 DEF CheckTimer, CheckPending, CheckSched, EpollWait, CountEvent, SkipEvent, At
  <2>3. PlaceInv'
    BY <2>1, <2>2 DEF WayInv, PlaceInv
  <2>4. QED BY <2>1, <2>3, WayMove
<1>4. ASSUME pc[t] = "idle", iopc[t] # "cbs", Goto(t, "unidle"), At(t, "none"),
             UNCHANGED <<m_fibers, m_state, ft, m_timers, registered, cbs>>,
             NEW s, idle_state' = [idle_state EXCEPT ![t] = s]
      PROVE  WayInv'
  <2>1. /\ \A u \in Threads : pc'[u] = IF u = t THEN "unidle" ELSE pc[u]
        /\ \A u \in Threads : iopc'[u] = IF u = t THEN "none" ELSE iopc[u]
        /\ \A u \in Threads : u # t => idle_state'[u] = idle_state[u]
    BY <1>0, <1>4 DEF Goto, At
  <2>2. PlaceInv'
    BY <1>4, <2>1 DEF WayInv, PlaceInv, RunPC
  <2>3. \A u \in Threads : ft[u] # NoTask => StateAt(pc'[u]) = StateAt(pc[u])
    BY <1>4, <2>1 DEF StateAt
  <2>4. QED BY <1>4, <2>2, <2>3, WayMove
<1>5. CASE CheckSched(t) /\ ~UNCHANGED vars
  BY <1>5, <1>4 DEF CheckSched, InIdle, IdleOnly, queueVars
<1>6. CASE YieldIdle(t)
  BY <1>6, <1>4 DEF YieldIdle, InIdle, queueVars
<1>7. UNCHANGED vars \/ ~(CheckTimer(t) \/ CheckPending(t) \/ EpollWait(t) \/ CountEvent(t)
                            \/ \E fd \in Fds : SkipEvent(t, fd))
  BY DEF CheckTimer, CheckPending, EpollWait, CountEvent, SkipEvent, IdleOnly
<1>8. QED BY <1>1, <1>2, <1>3, <1>5, <1>6, <1>7

\* start() and the steps of stop().
LEMMA WayOwner ==
  ASSUME Base, WayInv, IOStart \/ IOStopRequest \/ StopStep
  PROVE  WayInv'
<1>0. /\ pc \in [Threads -> ThreadPC] /\ idle_state \in [Threads -> FiberState] /\ PhaseInv
  BY DEF Base, CoreInv, TypeOK
<1>1. UNCHANGED <<m_fibers, m_state, ft, m_timers, registered, cbs, iopc>>
  BY DEF IOStart, IOStopRequest, StopStep, Start, StopRequest, StopCheckPassed, StopFirst,
         StopSecond, IOStopCallReturn, StopCallReturn, IOStopJoin, StopJoin, queueVars, fiberVars,
         ioVars, vars
<1>2. CASE UNCHANGED <<pc, idle_state>>
  <2>1. PlaceInv'
    BY <1>1, <1>2 DEF WayInv, PlaceInv
  <2>2. QED BY <1>1, <1>2, <2>1, WayMove
<1>3. CASE \A u \in Threads : \/ pc'[u] = pc[u] /\ idle_state'[u] = idle_state[u]
                              \/ pc[u] = "off" /\ pc'[u] = "fetch"
  <2>1. PlaceInv'
    BY <1>1, <1>3 DEF WayInv, PlaceInv, RunPC
  <2>2. \A u \in Threads : ft[u] # NoTask => StateAt(pc'[u]) = StateAt(pc[u])
    BY <1>3 DEF StateAt
  <2>3. QED BY <1>1, <2>1, <2>2, WayMove
<1>4. CASE IOStart
  BY <1>0, <1>3, <1>4 DEF IOStart, Start, PhaseInv
<1>5. CASE StopSecond
  BY <1>0, <1>2, <1>3, <1>5 DEF StopSecond, Goto, PhaseInv
<1>6. CASE ~IOStart /\ ~StopSecond
  BY <1>2, <1>6 DEF IOStopRequest, StopStep, StopRequest, StopCheckPassed, StopFirst,
         IOStopCallReturn, StopCallReturn, IOStopJoin, StopJoin, fiberVars, vars
<1>7. QED BY <1>4, <1>5, <1>6

LEMMA WayStep ==
  ASSUME Base, WayInv, [IONext]_allVars
  PROVE  WayInv'
<1>a. ASSUME UNCHANGED vars, UNCHANGED <<m_timers, registered, cbs, iopc>> PROVE WayInv'
  <2>1. UNCHANGED <<m_fibers, m_state, ft, pc, idle_state>>
    BY <1>a DEF vars
  <2>2. PlaceInv'
    BY <1>a, <2>1 DEF WayInv, PlaceInv
  <2>3. QED BY <1>a, <2>1, <2>2, WayMove
<1>1. CASE OwnerStep
  <2>1. ASSUME NEW k \in Tasks, NEW thread \in PinTargets \cup {AnyThread},
               OwnerSchedule(k, thread)
        PROVE  WayInv'
    BY <2>1, WaySchedule DEF OwnerSchedule, MainSchedule, fiberVars
  <2>2. ASSUME NEW k \in Tasks, OwnerAddTimer(k) \/ OwnerAddEvent(k) PROVE WayInv'
    BY <2>2, WayArm DEF OwnerAddTimer, OwnerAddEvent, ArmTimer, RegisterEvent
  <2>3. CASE IOTickle(Caller)
    BY <2>3, <1>a DEF IOTickle
  <2>4. QED BY <1>1, <2>1, <2>2, <2>3, WayOwner DEF OwnerStep
<1>2. CASE StopStep
  BY <1>2, WayOwner
<1>3. ASSUME NEW t \in Threads, ThreadStep(t) PROVE WayInv'
  <2>1. CASE InheritedStep(t)
    BY <2>1, WayRun, WayThread DEF InheritedStep
  <2>2. CASE RunTickle(t)
    BY <2>2, WayThread
  <2>3. CASE IdleStep(t)
    BY <2>3, WayThread, WayList, WayCbs, WayTrigger DEF IdleStep
  <2>4. CASE IOTickle(t)
    BY <2>4, <1>a DEF IOTickle
  <2>5. QED BY <1>3, <2>1, <2>2, <2>3, <2>4 DEF ThreadStep
<1>4. ASSUME NEW t \in Threads, TaskStep(t) PROVE WayInv'
  <2>1. ASSUME NEW k \in Tasks, NEW thread \in PinTargets \cup {AnyThread},
               TaskSchedule(t, k, thread)
        PROVE  WayInv'
    BY <2>1, WaySchedule DEF TaskSchedule, BodySchedule, fiberVars
  <2>2. ASSUME NEW k \in Tasks, TaskAddTimer(t, k) \/ TaskAddEvent(t, k) PROVE WayInv'
    BY <2>2, WayArm DEF TaskAddTimer, TaskAddEvent, ArmTimer, RegisterEvent
  <2>3. CASE TaskReturn(t)
    BY <2>3, WayRun DEF TaskReturn
  <2>4. QED BY <1>4, <2>1, <2>2, <2>3 DEF TaskStep
<1>5. CASE IOTerminated \/ UNCHANGED allVars
  BY <1>5, <1>a DEF IOTerminated, allVars, ioVars
<1>6. QED BY <1>1, <1>2, <1>3, <1>4, <1>5 DEF IONext

LEMMA WayInvariant == IOSpec => [](Base /\ WayInv)
<1>1. IOInit => Base /\ WayInv
  BY CoreInit, EventInit, WayInit DEF IOInit, Base
<1>2. (Base /\ WayInv) /\ [IONext]_allVars => (Base /\ WayInv)'
  BY IOCore, EventStep, WayStep DEF EventInv, Base
<1>3. QED BY <1>1, <1>2, PTL DEF IOSpec

-----------------------------------------------------------------------------
(***************************************************************************)
(* stop(), when the owner runs the loop itself and no callback arms        *)
(* another.  The three reads of stopping() are not atomic, but the owner   *)
(* is in stop() while it makes them: nothing is armed any more, so what a  *)
(* read found empty stays empty.  A pool thread has no such guarantee: it  *)
(* may have read before stop() was called.                                 *)
(***************************************************************************)
Disarmed == m_timers = {} /\ registered = {}

\* The thread takes no task unless another thread gives it one.
Rests(t) == idle_state[t] = "TERM" \/ pc[t] = "off"

MainInv ==
  /\ main \in {"setup", "started"} => \A t \in Threads : idle_state[t] # "TERM"
  /\ main = "started" => ~m_stopping
  /\ main \in {"joining", "returned"} => pc[Caller] \in {"off", "done"}
  /\ main = "calling" => pc[Caller] # "off"

\* What the owner read, in stop() or as a thread of the pool.
ReadInv ==
  /\ check # "timer" => main \in {"stopping", "draining"} /\ m_timers = {}
  /\ check = "sched" => registered = {}
  /\ iopc[Caller] \in {"pending", "sched"} => m_timers = {}
  /\ iopc[Caller] = "sched" => registered = {}
  /\ idle_state[Caller] = "TERM" => Disarmed
  /\ main \in {"joining", "returned"} => Disarmed

\* When the last thread has seen stopping() hold, it does.
RestInv ==
  main \in {"calling", "joining", "returned"} /\ (\A t \in Threads : Rests(t)) => Stopping

StopInv == MainInv /\ ReadInv /\ RestInv

LEMMA StopInit ==
  ASSUME IOInit, UseCaller PROVE StopInv
<1>1. Caller \in Threads
  BY DEF Threads
<1>2. QED BY <1>1 DEF IOInit, Init, StopInv, MainInv, ReadInv, RestInv

\* m_pendingEventCount == 0: no event is registered.
LEMMA NonePending ==
  ASSUME EventInv, m_pendingEventCount = 0
  PROVE  registered = {}
<1>1. Cardinality(registered) \in Nat /\ (Cardinality(registered) = 0 <=> registered = {})
  BY FS_CardinalityType, FS_EmptySet DEF EventInv, FiniteInv
<1>2. Cardinality(Discounting) \in Nat
  <2>1. Discounting \in SUBSET Threads
    BY DEF Discounting
  <2>2. PICK t \in Threads : TRUE
    BY SchedulerAssumption
  <2>3. QED BY <2>1, <2>2, Counting
<1>3. QED BY <1>1, <1>2 DEF EventInv, PendingCountCovers, Discounting

\* What a thread of the pool may change.
LEMMA ThreadFacts ==
  ASSUME Base, NEW t \in Threads, ThreadStep(t) \/ TaskStep(t)
  PROVE  /\ UNCHANGED <<main, m_stopping, check>>
         /\ \A u \in Threads : u # t =>
              pc'[u] = pc[u] /\ idle_state'[u] = idle_state[u] /\ iopc'[u] = iopc[u]
         /\ pc'[t] = pc[t] \/ (pc[t] \notin {"off", "done"} /\ pc'[t] # "off")
         /\ idle_state'[t] = "TERM" /\ idle_state[t] # "TERM" => CheckSched(t) /\ Stopping
         /\ iopc'[t] = "pending" /\ iopc[t] # "pending" => m_timers = {}
         /\ iopc'[t] = "sched" /\ iopc[t] # "sched" =>
              m_pendingEventCount = 0 /\ iopc[t] = "pending"
<1>0. /\ pc \in [Threads -> ThreadPC] /\ idle_state \in [Threads -> FiberState]
      /\ iopc \in [Threads -> IdlePC] /\ HandInv
  BY DEF Base, CoreInv, TypeOK, EventInv, IOTypes
<1>1. CASE InheritedStep(t)
  BY <1>0, <1>1 DEF InheritedStep, ioVars, FetchTask, FetchNone, SwapIn, DispatchNone, TaskReturned,
                    EnterIdle, LeaveRun, IdleReturned, queueVars, fiberVars, Goto
<1>2. CASE RunTickle(t)
  BY <1>0, <1>2 DEF RunTickle, Tickle, Goto, queueVars, fiberVars
<1>3. CASE IOTickle(t)
  BY <1>3 DEF IOTickle, vars
<1>4. CASE TaskStep(t)
  BY <1>0, <1>4 DEF TaskStep, TaskSchedule, BodySchedule, TaskAddTimer, TaskAddEvent, ArmTimer,
                    RegisterEvent, TaskReturn, BodyReturn, vars, ioVars, queueVars, fiberVars, Goto
<1>5. CASE \/ CheckTimer(t) \/ CheckPending(t) \/ EpollWait(t) \/ ListExpired(t) \/ CountEvent(t)
           \/ \E fd \in Fds : SkipEvent(t, fd)
  BY <1>0, <1>5 DEF CheckTimer, CheckPending, EpollWait, ListExpired, CountEvent, SkipEvent, InIdle,
                    IdleOnly, vars, At
<1>6. CASE CheckSched(t)
  BY <1>0, <1>6 DEF CheckSched, InIdle, IdleOnly, vars, queueVars, Goto, At
<1>7. CASE YieldIdle(t)
  BY <1>0, <1>7 DEF YieldIdle, InIdle, queueVars, Goto, At
<1>8. CASE ScheduleCbs(t) \/ \E fd \in Fds : TriggerEvent(t, fd)
  BY <1>0, <1>8 DEF ScheduleCbs, TriggerEvent, InIdle, fiberVars, At
<1>9. QED BY <1>1, <1>2, <1>3, <1>4, <1>5, <1>6, <1>7, <1>8 DEF ThreadStep, IdleStep

\* Only the owner arms anything, and only before stop().
LEMMA OnlyDisarms ==
  ASSUME Arming = {}, main # "started", [IONext]_allVars
  PROVE  m_timers' \subseteq m_timers /\ registered' \subseteq registered
<1>1. CASE OwnerStep \/ StopStep \/ IOTerminated \/ UNCHANGED allVars
  BY <1>1 DEF OwnerStep, StopStep, IOTerminated, allVars, ioVars, IOStart, OwnerSchedule,
     OwnerAddTimer, OwnerAddEvent, IOTickle, IOStopRequest, StopCheckPassed, StopFirst, StopSecond,
     IOStopCallReturn, IOStopJoin
<1>2. ASSUME NEW t \in Threads, ThreadStep(t)
      PROVE  m_timers' \subseteq m_timers /\ registered' \subseteq registered
  BY <1>2 DEF ThreadStep, InheritedStep, RunTickle, IOTickle, IdleStep, CheckTimer, CheckPending,
     CheckSched, EpollWait, ListExpired, ScheduleCbs, SkipEvent, TriggerEvent, CountEvent,
     YieldIdle, ioVars
<1>3. ASSUME NEW t \in Threads, TaskStep(t)
      PROVE  m_timers' \subseteq m_timers /\ registered' \subseteq registered
  BY <1>3 DEF TaskStep, TaskSchedule, TaskAddTimer, TaskAddEvent, TaskReturn, ioVars
<1>4. QED BY <1>1, <1>2, <1>3 DEF IONext

LEMMA MainStep ==
  ASSUME UseCaller, Arming = {}, Base, WayInv, StopInv, [IONext]_allVars
  PROVE  MainInv'
<1>0. /\ Caller \in Threads /\ Caller \notin Workers /\ PhaseInv
      /\ pc \in [Threads -> ThreadPC] /\ idle_state \in [Threads -> FiberState]
  BY SchedulerAssumption DEF Threads, Base, CoreInv, TypeOK
<1>1. CASE OwnerStep
  <2>1. CASE IOStart
    BY <1>0, <2>1 DEF IOStart, Start, StopInv, MainInv
  <2>2. CASE IOStopRequest
    BY <2>2 DEF IOStopRequest, StopRequest, MainInv
  <2>3. CASE ~IOStart /\ ~IOStopRequest
    <3>1. UNCHANGED <<main, m_stopping, pc, idle_state>>
      BY <1>1, <2>3 DEF OwnerStep, OwnerSchedule, MainSchedule, OwnerAddTimer, OwnerAddEvent,
         ArmTimer, RegisterEvent, IOTickle, vars, fiberVars
    <3>2. QED BY <3>1 DEF StopInv, MainInv
  <2>4. QED BY <2>1, <2>2, <2>3
<1>2. CASE StopStep
  <2>1. CASE StopCheckPassed
    BY <2>1 DEF StopCheckPassed, vars, StopInv, MainInv
  <2>2. CASE StopFirst
    <3>1. main = "stopping" /\ main' \in {"draining", "returned"} /\ pc' = pc
      BY <2>2 DEF StopFirst
    <3>2. pc[Caller] = "off"
      BY <1>0, <3>1 DEF PhaseInv
    <3>3. QED BY <3>1, <3>2 DEF MainInv
  <2>3. CASE StopSecond
    <3>1. main = "draining"
      BY <2>3 DEF StopSecond
    <3>2. pc[Caller] = "off"
      BY <1>0, <3>1 DEF PhaseInv
    <3>3. \/ main' = "calling" /\ pc'[Caller] = "fetch"
          \/ main' = "joining" /\ pc' = pc
      BY <1>0, <2>3 DEF StopSecond, Goto
    <3>4. QED BY <3>2, <3>3 DEF MainInv
  <2>4. CASE IOStopCallReturn
    BY <2>4 DEF IOStopCallReturn, StopCallReturn, MainInv
  <2>5. CASE IOStopJoin
    BY <2>5 DEF IOStopJoin, StopJoin, StopInv, MainInv
  <2>6. QED BY <1>2, <2>1, <2>2, <2>3, <2>4, <2>5 DEF StopStep
<1>3. ASSUME NEW t \in Threads, ThreadStep(t) \/ TaskStep(t) PROVE MainInv'
  <2>1. /\ UNCHANGED <<main, m_stopping>>
        /\ \A u \in Threads : u # t => pc'[u] = pc[u] /\ idle_state'[u] = idle_state[u]
        /\ pc'[t] = pc[t] \/ (pc[t] \notin {"off", "done"} /\ pc'[t] # "off")
        /\ idle_state'[t] = "TERM" /\ idle_state[t] # "TERM" => CheckSched(t) /\ Stopping
    BY <1>3, ThreadFacts
  <2>2. main \in {"setup", "started"} /\ CheckSched(t) /\ Stopping => FALSE
    BY <1>0 DEF StopInv, MainInv, CheckSched, InIdle, Stopping, PhaseInv
  <2>3. QED BY <1>0, <2>1, <2>2 DEF StopInv, MainInv
<1>4. CASE IOTerminated \/ UNCHANGED allVars
  BY <1>4 DEF IOTerminated, allVars, vars, StopInv, MainInv
<1>5. QED BY <1>1, <1>2, <1>3, <1>4 DEF IONext

LEMMA ReadStep ==
  ASSUME UseCaller, Arming = {}, Base, WayInv, StopInv, [IONext]_allVars
  PROVE  ReadInv'
<1>0. /\ Caller \in Threads /\ Caller \notin Workers /\ PhaseInv /\ EventInv
      /\ pc \in [Threads -> ThreadPC] /\ idle_state \in [Threads -> FiberState]
  BY SchedulerAssumption DEF Threads, Base, CoreInv, TypeOK
<1>a. main # "started" => m_timers' \subseteq m_timers /\ registered' \subseteq registered
  BY OnlyDisarms
\* Before stop() the owner has read nothing.
<1>b. main \in {"setup", "started"} => check = "timer" /\ iopc[Caller] = "none"
                                         /\ idle_state[Caller] # "TERM"
  BY <1>0 DEF StopInv, MainInv, ReadInv, PhaseInv, WayInv, PlaceInv
<1>1. CASE OwnerStep
  <2>1. /\ UNCHANGED <<check, iopc>>
        /\ main' \in {main, "started", "stopping"}
    BY <1>1 DEF OwnerStep, IOStart, Start, IOStopRequest, StopRequest, OwnerSchedule, MainSchedule,
       OwnerAddTimer, OwnerAddEvent, ArmTimer, RegisterEvent, IOTickle, vars, fiberVars, ioVars
  <2>2. idle_state'[Caller] = idle_state[Caller]
    BY <1>0, <1>1 DEF OwnerStep, IOStart, Start, IOStopRequest, StopRequest, OwnerSchedule,
       MainSchedule, OwnerAddTimer, OwnerAddEvent, ArmTimer, RegisterEvent, IOTickle, vars, fiberVars
  <2>3. main' # main => main \in {"setup", "started"}
    BY <1>1 DEF OwnerStep, IOStart, Start, IOStopRequest, StopRequest, OwnerSchedule, MainSchedule,
       OwnerAddTimer, OwnerAddEvent, ArmTimer, RegisterEvent, IOTickle, vars
  <2>4. QED BY <1>a, <1>b, <2>1, <2>2, <2>3 DEF StopInv, ReadInv, Disarmed
<1>2. CASE StopStep
  <2>0. main # "started" /\ UNCHANGED <<m_timers, registered, iopc>>
    BY <1>2 DEF StopStep, StopCheckPassed, StopFirst, StopSecond, IOStopCallReturn, StopCallReturn,
       IOStopJoin, StopJoin, ioVars
  <2>1. CASE StopCheckPassed
    <3>1. /\ main \in {"stopping", "draining"} /\ main' = main /\ idle_state' = idle_state
          /\ \/ check = "timer" /\ m_timers = {} /\ check' = "pending"
             \/ check = "pending" /\ m_pendingEventCount = 0 /\ check' = "sched"
      BY <2>1 DEF StopCheckPassed, vars
    <3>2. m_pendingEventCount = 0 => registered = {}
      BY <1>0, NonePending
    <3>3. QED BY <2>0, <3>1, <3>2 DEF StopInv, ReadInv, Disarmed
  <2>2. CASE StopFirst
    <3>1. /\ main' \in {"returned", "draining"} /\ check' = "timer" /\ idle_state' = idle_state
          /\ main' = "returned" => check = "sched"
      BY <2>2 DEF StopFirst, StoppingTrue, fiberVars
    <3>2. QED BY <2>0, <3>1 DEF StopInv, ReadInv, Disarmed
  <2>3. CASE StopSecond
    <3>1. /\ main' \in {"calling", "joining"} /\ check' = "timer"
          /\ main' = "joining" => check = "sched"
          /\ idle_state'[Caller] \in {"INIT", idle_state[Caller]}
      BY <1>0, <2>3 DEF StopSecond, StoppingTrue
    <3>2. QED BY <2>0, <3>1 DEF StopInv, ReadInv, Disarmed
  <2>4. CASE IOStopCallReturn
    <3>1. /\ pc[Caller] = "done" /\ main = "calling" /\ main' = "joining" /\ UNCHANGED <<check, idle_state>>
      BY <2>4 DEF IOStopCallReturn, StopCallReturn, fiberVars, ioVars
    <3>2. idle_state[Caller] = "TERM"
      BY <1>0, <3>1 DEF WayInv, PlaceInv
    <3>3. QED BY <2>0, <3>1, <3>2 DEF StopInv, ReadInv, Disarmed
  <2>5. CASE IOStopJoin
    <3>1. /\ main = "joining" /\ main' = "returned" /\ UNCHANGED <<check, idle_state>>
      BY <2>5 DEF IOStopJoin, StopJoin, fiberVars, ioVars
    <3>2. QED BY <2>0, <3>1 DEF StopInv, ReadInv, Disarmed
  <2>6. QED BY <1>2, <2>1, <2>2, <2>3, <2>4, <2>5 DEF StopStep
<1>3. ASSUME NEW t \in Threads, ThreadStep(t) \/ TaskStep(t) PROVE ReadInv'
  <2>1. /\ UNCHANGED <<main, check>>
        /\ t # Caller => iopc'[Caller] = iopc[Caller] /\ idle_state'[Caller] = idle_state[Caller]
        /\ idle_state'[t] = "TERM" /\ idle_state[t] # "TERM" => CheckSched(t)
        /\ iopc'[t] = "pending" /\ iopc[t] # "pending" => m_timers = {}
        /\ iopc'[t] = "sched" /\ iopc[t] # "sched" =>
             m_pendingEventCount = 0 /\ iopc[t] = "pending"
        /\ pc'[t] = pc[t] \/ pc[t] # "off"
    BY <1>0, <1>3, ThreadFacts
  <2>2. m_pendingEventCount = 0 => registered = {}
    BY <1>0, NonePending
  <2>3. CheckSched(t) => iopc[t] = "sched"
    BY DEF CheckSched, InIdle
  <2>4. WayInv'
    BY WayStep
  <2>5. CASE main = "started"
    \* The owner is not in run(): it is another thread that moves.
    <3>1. pc'[Caller] = "off" /\ check = "timer" /\ iopc[Caller] = "none" /\ idle_state[Caller] # "TERM"
          /\ pc[Caller] = "off"
      <4>1. pc[Caller] = "off"
        BY <1>0, <2>5 DEF PhaseInv
      <4>2. PhaseInv'
        BY IOCore DEF Base, CoreInv, EventInv
      <4>3. pc'[Caller] = "off"
        BY <2>1, <2>5, <4>2 DEF PhaseInv
      <4>4. QED BY <1>b, <2>5, <4>1, <4>3
    <3>2. iopc'[Caller] = "none"
      BY <1>0, <2>4, <3>1 DEF WayInv, PlaceInv
    <3>3. idle_state'[Caller] # "TERM"
      BY <3>1, <2>1, <2>3
    <3>4. QED BY <2>1, <2>5, <3>1, <3>2, <3>3 DEF ReadInv
  <2>6. CASE main # "started"
    BY <1>a, <2>1, <2>2, <2>3, <2>6 DEF StopInv, ReadInv, Disarmed
  <2>7. QED BY <2>5, <2>6
<1>4. CASE IOTerminated \/ UNCHANGED allVars
  BY <1>4 DEF IOTerminated, allVars, vars, ioVars, StopInv, ReadInv, Disarmed
<1>5. QED BY <1>1, <1>2, <1>3, <1>4 DEF IONext

\* When every thread rests and stopping() holds, nobody can add work.
LEMMA QuietRest ==
  ASSUME Base, WayInv, Stopping, main \notin {"setup", "started"},
         \A t \in Threads : Rests(t), [IONext]_allVars
  PROVE  Stopping'
<1>0. \A t \in Threads : ft[t] = NoTask /\ pc[t] # "idle"
  BY QuietHands DEF Base, Rests, WayInv, PlaceInv
<1>a. m_fibers = <<>> /\ m_stopping /\ m_activeThreadCount = 0
  BY DEF Stopping
<1>1. SUFFICES UNCHANGED <<m_fibers, m_stopping, m_activeThreadCount>>
  BY <1>a DEF Stopping
<1>2. CASE OwnerStep \/ StopStep \/ IOTerminated \/ UNCHANGED allVars
  BY <1>2 DEF OwnerStep, StopStep, IOTerminated, allVars, vars, IOStart, Start, OwnerSchedule,
     OwnerAddTimer, OwnerAddEvent, IOTickle, IOStopRequest, StopRequest, StopCheckPassed, StopFirst,
     StopSecond, IOStopCallReturn, StopCallReturn, IOStopJoin, StopJoin, queueVars
<1>3. ASSUME NEW t \in Threads, ThreadStep(t)
      PROVE  UNCHANGED <<m_fibers, m_stopping, m_activeThreadCount>>
  <2>1. ~FetchTask(t)
    BY <1>a DEF FetchTask
  <2>2. ~TaskReturned(t) /\ ~IdleStep(t)
    BY <1>0 DEF TaskReturned, Base, CoreInv, HandInv, IdleStep, CheckTimer, CheckPending, CheckSched,
       EpollWait, ListExpired, ScheduleCbs, SkipEvent, TriggerEvent, CountEvent, YieldIdle, InIdle
  <2>3. CASE InheritedStep(t)
    BY <2>1, <2>2, <2>3 DEF InheritedStep, FetchNone, SwapIn, DispatchNone, EnterIdle, LeaveRun,
       IdleReturned, queueVars
  <2>4. CASE RunTickle(t) \/ IOTickle(t)
    BY <2>4 DEF RunTickle, Tickle, IOTickle, queueVars, vars
  <2>5. QED BY <1>3, <2>2, <2>3, <2>4 DEF ThreadStep
<1>4. ASSUME NEW t \in Threads, TaskStep(t) PROVE FALSE
  BY <1>0, <1>4 DEF TaskStep, TaskSchedule, BodySchedule, TaskAddTimer, TaskAddEvent, TaskReturn,
     BodyReturn, Base, CoreInv, HandInv
<1>5. QED BY <1>2, <1>3, <1>4 DEF IONext

LEMMA RestStep ==
  ASSUME UseCaller, Arming = {}, Base, WayInv, StopInv, [IONext]_allVars
  PROVE  RestInv'
<1> SUFFICES ASSUME main' \in {"calling", "joining", "returned"}, \A t \in Threads : Rests(t)'
             PROVE  Stopping'
  BY DEF RestInv
<1>0. Caller \in Threads /\ pc \in [Threads -> ThreadPC] /\ idle_state \in [Threads -> FiberState]
  BY DEF Threads, Base, CoreInv, TypeOK
<1>1. CASE OwnerStep \/ IOTerminated \/ UNCHANGED allVars
  <2>1. UNCHANGED <<main, pc, idle_state>>
    BY <1>1 DEF OwnerStep, IOTerminated, allVars, vars, IOStart, Start, OwnerSchedule, MainSchedule,
       OwnerAddTimer, OwnerAddEvent, ArmTimer, RegisterEvent, IOTickle, IOStopRequest, StopRequest,
       fiberVars
  <2>2. \A t \in Threads : Rests(t)
    BY <2>1 DEF Rests
  <2>3. QED BY <2>1, <2>2, QuietRest DEF StopInv, RestInv
<1>2. CASE StopStep
  <2>1. UNCHANGED <<m_fibers, m_stopping, m_activeThreadCount>>
    BY <1>2 DEF StopStep, StopCheckPassed, vars, StopFirst, StopSecond, IOStopCallReturn,
       StopCallReturn, IOStopJoin, StopJoin, queueVars
  <2>2. SUFFICES Stopping
    BY <2>1 DEF Stopping
  <2>3. CASE StopCheckPassed
    BY <2>3 DEF StopCheckPassed, vars
  <2>4. CASE StopFirst
    BY <2>4 DEF StopFirst, StoppingTrue
  <2>5. CASE StopSecond
    <3>1. main' = "calling" => ~Rests(Caller)'
      BY <1>0, <2>5 DEF StopSecond, Goto, Rests
    <3>2. QED BY <1>0, <2>5, <3>1 DEF StopSecond, StoppingTrue
  <2>6. CASE IOStopCallReturn \/ IOStopJoin
    <3>1. main \in {"calling", "joining"} /\ UNCHANGED <<pc, idle_state>>
      BY <2>6 DEF IOStopCallReturn, StopCallReturn, IOStopJoin, StopJoin, fiberVars
    <3>2. \A t \in Threads : Rests(t)
      BY <3>1 DEF Rests
    <3>3. QED BY <3>1, <3>2 DEF StopInv, RestInv
  <2>7. QED BY <1>2, <2>3, <2>4, <2>5, <2>6 DEF StopStep
<1>3. ASSUME NEW t \in Threads, ThreadStep(t) \/ TaskStep(t) PROVE Stopping'
  <2>1. /\ UNCHANGED main
        /\ \A u \in Threads : u # t => pc'[u] = pc[u] /\ idle_state'[u] = idle_state[u]
        /\ pc'[t] = pc[t] \/ (pc[t] \notin {"off", "done"} /\ pc'[t] # "off")
        /\ idle_state'[t] = "TERM" /\ idle_state[t] # "TERM" => CheckSched(t) /\ Stopping
    BY <1>3, ThreadFacts
  <2>2. CASE \A u \in Threads : Rests(u)
    BY <2>1, <2>2, QuietRest DEF StopInv, RestInv
  <2>3. CASE ~\A u \in Threads : Rests(u)
    <3>1. ~Rests(t) /\ idle_state'[t] = "TERM" /\ idle_state[t] # "TERM"
      BY <2>1, <2>3 DEF Rests
    <3>2. CheckSched(t) /\ Stopping
      BY <2>1, <3>1
    <3>3. QED BY <3>2 DEF CheckSched, IdleOnly, vars, queueVars, Stopping
  <2>4. QED BY <2>2, <2>3
<1>4. QED BY <1>1, <1>2, <1>3 DEF IONext

LEMMA StopInvariant ==
  ASSUME UseCaller, Arming = {}
  PROVE  IOSpec => [](Base /\ WayInv /\ StopInv)
<1>1. IOInit => StopInv
  BY StopInit
<1>2. Base /\ WayInv /\ StopInv /\ [IONext]_allVars => StopInv'
  BY MainStep, ReadStep, RestStep DEF StopInv
<1>3. QED BY <1>1, <1>2, WayInvariant, PTL DEF IOSpec

\* When stop() has returned and the pool has ended nothing is left: no timer,
\* no event, no expired callback in hand, no task queued or in hand.
LEMMA LeftEmpty ==
  ASSUME UseCaller, Base, WayInv, StopInv, AllLeft
  PROVE  Disarmed /\ Stopping /\ \A k \in Tasks : m_state[k] \in {"NONE", "TERM"}
                                                    /\ (m_state[k] = "NONE" => Unused(k))
<1>1. \A t \in Threads : pc[t] \in {"off", "done"}
  BY DEF AllLeft, StopInv, MainInv, Threads
<1>2. \A t \in Threads : Rests(t) /\ cbs[t] = {}
  BY <1>1 DEF Rests, WayInv, PlaceInv
<1>3. Stopping /\ Disarmed
  BY <1>2 DEF StopInv, RestInv, ReadInv, AllLeft
<1>4. \A t \in Threads : ft[t] = NoTask
  BY <1>3, QuietHands DEF Base
<1>5. NoTask \notin Tasks /\ m_fibers = <<>>
  BY <1>3, SchedulerAssumption DEF Stopping
<1>6. \A k \in Tasks : m_state[k] \in {"NONE", "TERM"}
  BY <1>4, <1>5 DEF WayInv, TaskInv
<1>7. \A k \in Tasks : m_state[k] = "NONE" => Unused(k)
  BY <1>2, <1>3, <1>4, <1>5 DEF Unused, Fresh, Disarmed
<1>8. QED BY <1>3, <1>6, <1>7

\* With use_caller and callbacks that arm no others, no timer and no event is
\* left once stop() has returned and the pool threads have ended.
THEOREM NothingLeftArmed ==
  ASSUME UseCaller, Arming = {}
  PROVE  IOSpec => []NothingArmedAfterStop
<1>1. Base /\ WayInv /\ StopInv => NothingArmedAfterStop
  BY LeftEmpty DEF NothingArmedAfterStop, Disarmed
<1>2. QED BY <1>1, StopInvariant, PTL

-----------------------------------------------------------------------------
(***************************************************************************)
(* IOManager implements TaskPool.                                          *)
(***************************************************************************)
LeftInv == AllLeft => IOTP!Pending = {}

LEMMA LeftNonePending ==
  ASSUME UseCaller, Base, WayInv, StopInv
  PROVE  LeftInv
<1> SUFFICES ASSUME AllLeft PROVE IOTP!Pending = {}
  BY DEF LeftInv
<1>1. \A k \in Tasks : ioStatusOf[k] # "pending"
  BY LeftEmpty DEF ioStatusOf
<1>2. QED BY <1>1 DEF IOTP!Pending

LEMMA UnusedMeans ==
  ASSUME NEW k \in Tasks
  PROVE  /\ Unused(k) <=> /\ m_state[k] = "NONE" /\ ~Queued(k)
                          /\ \A t \in Threads : ft[t] # k
                          /\ ~Armed(k)
         /\ Unused(k)' <=> /\ m_state'[k] = "NONE" /\ ~Queued(k)'
                           /\ \A t \in Threads : ft'[t] # k
                           /\ ~Armed(k)'
BY DEF Unused, Fresh, Queued, Armed

LEMMA IOSameStatus ==
  ASSUME \A j \in Tasks : /\ Unused(j)' <=> Unused(j)
                          /\ m_state'[j] = "TERM" <=> m_state[j] = "TERM"
  PROVE  ioStatusOf' = ioStatusOf
BY DEF ioStatusOf

\* A task enters by schedule(), addTimer or addEvent.
LEMMA IOSubmit ==
  ASSUME NEW k \in Tasks, Unused(k), m_state' = m_state,
         \A j \in Tasks : Unused(j)' <=> Unused(j) /\ j # k
  PROVE  ioStatusOf[k] = "new" /\ ioStatusOf' = [ioStatusOf EXCEPT ![k] = "pending"]
<1>1. m_state[k] = "NONE"
  BY UnusedMeans
<1>2. QED BY <1>1 DEF ioStatusOf

LEMMA ScheduleSubmits ==
  ASSUME Base, NEW k \in Tasks, NEW thread \in PinTargets \cup {AnyThread}, Unused(k),
         Enqueue(k, thread), UNCHANGED <<m_state, ft, m_timers, registered, cbs>>
  PROVE  ioStatusOf[k] = "new" /\ ioStatusOf' = [ioStatusOf EXCEPT ![k] = "pending"]
<1>1. \A j \in Tasks : Queued(j)' <=> Queued(j) \/ j = k
  BY EnqueueFacts, SchedulerAssumption DEF Base, CoreInv
<1>2. \A j \in Tasks : Armed(j)' <=> Armed(j)
  BY DEF Armed
<1>3. \A j \in Tasks : Unused(j)' <=> Unused(j) /\ j # k
  BY <1>1, <1>2, UnusedMeans
<1>4. QED BY <1>3, IOSubmit

LEMMA ArmSubmits ==
  ASSUME NEW k \in Tasks, Unused(k),
         \/ m_timers' = m_timers \cup {k} /\ registered' = registered
         \/ registered' = registered \cup {k} /\ m_timers' = m_timers,
         UNCHANGED <<vars, cbs>>
  PROVE  ioStatusOf[k] = "new" /\ ioStatusOf' = [ioStatusOf EXCEPT ![k] = "pending"]
<1>1. UNCHANGED <<m_fibers, m_state, ft>>
  BY DEF vars
<1>2. \A j \in Tasks : Armed(j)' <=> Armed(j) \/ j = k
  BY DEF Armed
<1>3. \A j \in Tasks : Queued(j)' <=> Queued(j)
  BY <1>1 DEF Queued
<1>4. \A j \in Tasks : Unused(j)' <=> Unused(j) /\ j # k
  BY <1>1, <1>2, <1>3, UnusedMeans
<1>5. QED BY <1>1, <1>4, IOSubmit

\* The loop of a pool thread, idle() included, changes no task's status: it
\* only carries callbacks from place to place.
LEMMA ThreadKeepsStatus ==
  ASSUME Base, WayInv, NEW t \in Threads, ThreadStep(t)
  PROVE  ioStatusOf' = ioStatusOf
<1>0. /\ ft \in [Threads -> Tasks \cup {NoTask}] /\ m_state \in [Tasks -> FiberState]
      /\ NoTask \notin Tasks /\ TypeOK /\ HandInv
      /\ cbs \in [Threads -> SUBSET Tasks]
  BY SchedulerAssumption DEF Base, CoreInv, TypeOK, EventInv, IOTypes
<1>a. UNCHANGED <<m_fibers, m_state, ft, m_timers, registered, cbs>> => ioStatusOf' = ioStatusOf
  BY DEF ioStatusOf, Unused, Fresh
<1>b. UNCHANGED <<m_timers, registered, cbs>> => \A j \in Tasks : Armed(j)' <=> Armed(j)
  BY DEF Armed
<1>1. CASE FetchTask(t) /\ UNCHANGED ioVars
  <2>1. PICK k \in Tasks :
          /\ ft' = [ft EXCEPT ![t] = k]
          /\ Queued(k)
          /\ \A j \in Tasks : j # k => (Queued(j)' <=> Queued(j))
    BY <1>0, <1>1, FetchFacts
  <2>2. m_state' = m_state /\ ft[t] = NoTask /\ UNCHANGED <<m_timers, registered, cbs>>
    BY <1>0, <1>1 DEF FetchTask, fiberVars, HandInv, ioVars
  <2>3. \A j \in Tasks : (\A u \in Threads : ft'[u] # j) <=> (\A u \in Threads : ft[u] # j) /\ j # k
    BY <1>0, <2>1, <2>2
  <2>4. \A j \in Tasks : Unused(j)' <=> Unused(j)
    BY <1>b, <2>1, <2>2, <2>3, UnusedMeans
  <2>5. QED BY <2>2, <2>4, IOSameStatus
<1>2. CASE TaskReturned(t) /\ UNCHANGED ioVars
  <2>1. /\ pc[t] = "back" /\ ft' = [ft EXCEPT ![t] = NoTask]
        /\ UNCHANGED <<m_fibers, m_state, m_timers, registered, cbs>>
    BY <1>2 DEF TaskReturned, fiberVars, ioVars
  <2>2. ft[t] \in Tasks /\ m_state[ft[t]] = "TERM"
    BY <1>0, <2>1 DEF HandInv, WayInv, TaskInv, StateAt
  <2>3. \A j \in Tasks : (\A u \in Threads : ft'[u] # j) => j = ft[t] \/ (\A u \in Threads : ft[u] # j)
    BY <1>0, <2>1
  <2>4. \A j \in Tasks : (\A u \in Threads : ft[u] # j) => \A u \in Threads : ft'[u] # j
    BY <1>0, <2>1
  <2>5. \A j \in Tasks : Queued(j)' <=> Queued(j)
    BY <2>1 DEF Queued
  <2>6. \A j \in Tasks : Unused(j)' <=> Unused(j)
    BY <1>b, <2>1, <2>2, <2>3, <2>4, <2>5, UnusedMeans
  <2>7. QED BY <2>1, <2>6, IOSameStatus
<1>3. CASE SwapIn(t) /\ UNCHANGED ioVars
  <2>1. /\ ft[t] \in Tasks /\ m_state' = [m_state EXCEPT ![ft[t]] = "EXEC"]
        /\ pc[t] = "dispatch" /\ UNCHANGED <<m_fibers, ft, m_timers, registered, cbs>>
    BY <1>3, WaySwapIn DEF ioVars
  <2>2. m_state[ft[t]] = "NONE"
    BY <1>0, <2>1 DEF WayInv, TaskInv, StateAt
  <2>3. \A j \in Tasks : Queued(j)' <=> Queued(j)
    BY <2>1 DEF Queued
  <2>4. \A j \in Tasks : m_state'[j] = IF j = ft[t] THEN "EXEC" ELSE m_state[j]
    BY <1>0, <2>1
  <2>5. \A j \in Tasks : Unused(j)' <=> Unused(j)
    BY <1>b, <2>1, <2>3, <2>4, UnusedMeans
  <2>6. QED BY <2>2, <2>4, <2>5, IOSameStatus
<1>4. CASE ListExpired(t)
  <2>1. PICK expired \in SUBSET m_timers :
          m_timers' = m_timers \ expired /\ cbs' = [cbs EXCEPT ![t] = expired]
    BY <1>4 DEF ListExpired
  <2>2. UNCHANGED <<m_fibers, m_state, ft, registered>> /\ iopc[t] = "list"
    BY <1>4 DEF ListExpired, IdleOnly, vars, InIdle
  <2>3. cbs[t] = {} /\ \A u \in Threads : cbs'[u] = IF u = t THEN expired ELSE cbs[u]
    BY <1>0, <2>1, <2>2 DEF WayInv, PlaceInv
  <2>4. \A j \in Tasks : Armed(j)' <=> Armed(j)
    BY <2>1, <2>2, <2>3 DEF Armed
  <2>5. \A j \in Tasks : Queued(j)' <=> Queued(j)
    BY <2>2 DEF Queued
  <2>6. \A j \in Tasks : Unused(j)' <=> Unused(j)
    BY <2>2, <2>4, <2>5, UnusedMeans
  <2>7. QED BY <2>2, <2>6, IOSameStatus
<1>5. CASE ScheduleCbs(t)
  <2>1. cbs' = [cbs EXCEPT ![t] = {}] /\ UNCHANGED <<m_state, ft, m_timers, registered>>
    BY <1>5 DEF ScheduleCbs, fiberVars
  <2>2. \A u \in Threads : cbs'[u] = IF u = t THEN {} ELSE cbs[u]
    BY <1>0, <2>1
  <2>3. \A j \in Tasks : Queued(j)' <=> Queued(j) \/ j \in cbs[t]
    BY <1>5, BatchQueued
  <2>4. \A j \in Tasks : (Armed(j)' => Armed(j)) /\ (Armed(j) => Armed(j)' \/ j \in cbs[t])
                           /\ (j \in cbs[t] => Armed(j))
    BY <2>1, <2>2 DEF Armed
  <2>5. \A j \in Tasks : Unused(j)' <=> Unused(j)
    BY <2>1, <2>3, <2>4, UnusedMeans
  <2>6. QED BY <2>1, <2>5, IOSameStatus
<1>6. ASSUME NEW fd \in Fds, TriggerEvent(t, fd) PROVE ioStatusOf' = ioStatusOf
  <2>1. PICK k \in Tasks :
          /\ k \in registered /\ registered' = registered \ {k} /\ Enqueue(k, AnyThread)
          /\ UNCHANGED <<m_state, ft, m_timers, cbs>>
    BY <1>6, TriggerFacts DEF Base, EventInv
  <2>2. Armed(k)
    BY <2>1 DEF Armed
  <2>3. \A j \in Tasks : Queued(j)' <=> Queued(j) \/ j = k
    BY <1>0, <2>1, EnqueueFacts
  <2>4. \A j \in Tasks : (Armed(j)' => Armed(j)) /\ (Armed(j) => Armed(j)' \/ j = k)
    BY <2>1 DEF Armed
  <2>5. \A j \in Tasks : Unused(j)' <=> Unused(j)
    BY <2>1, <2>2, <2>3, <2>4, UnusedMeans
  <2>6. QED BY <2>1, <2>5, IOSameStatus
<1>7. CASE InheritedStep(t) /\ ~FetchTask(t) /\ ~TaskReturned(t) /\ ~SwapIn(t)
  BY <1>7, <1>a DEF InheritedStep, ioVars, FetchNone, DispatchNone, EnterIdle, LeaveRun,
     IdleReturned, queueVars, fiberVars
<1>8. CASE RunTickle(t) \/ IOTickle(t)
  BY <1>8, <1>a DEF RunTickle, Tickle, IOTickle, vars, queueVars, fiberVars
<1>9. CASE CheckTimer(t) \/ CheckPending(t) \/ CheckSched(t) \/ EpollWait(t) \/ CountEvent(t)
             \/ YieldIdle(t) \/ \E fd \in Fds : SkipEvent(t, fd)
  BY <1>9, <1>a DEF CheckTimer, CheckPending, CheckSched, EpollWait, CountEvent, YieldIdle, SkipEvent,
     IdleOnly, vars, queueVars
<1>10. InheritedStep(t) => UNCHANGED ioVars
  BY DEF InheritedStep
<1>11. QED BY <1>1, <1>2, <1>3, <1>4, <1>5, <1>6, <1>7, <1>8, <1>9, <1>10 DEF ThreadStep, IdleStep

\* The owner goes through stop() once, and when all have left nobody comes back.
LEMMA PhaseFacts ==
  ASSUME Base, StopInv, [IONext]_allVars
  PROVE  /\ main \in {"setup", "started"} =>
              main' \in {"setup", "started"} \/ (main = "started" /\ main' = "stopping")
         /\ main \notin {"setup", "started"} => main' \notin {"setup", "started"}
         /\ AllLeft => AllLeft'
<1>0. Workers \subseteq Threads /\ pc \in [Threads -> ThreadPC]
  BY DEF Threads, Base, CoreInv, TypeOK
<1>1. CASE OwnerStep
  <2>1. \/ UNCHANGED <<main, pc>>
        \/ main = "setup" /\ main' = "started"
        \/ main = "started" /\ main' = "stopping"
    BY <1>1 DEF OwnerStep, IOStart, Start, OwnerSchedule, MainSchedule, OwnerAddTimer, OwnerAddEvent,
       ArmTimer, RegisterEvent, IOTickle, IOStopRequest, StopRequest, vars
  <2>2. QED BY <2>1 DEF AllLeft
<1>2. CASE StopStep
  <2>1. \/ main \in {"stopping", "draining", "calling", "joining"}
             /\ main' \in {"stopping", "draining", "calling", "joining", "returned"}
    BY <1>2 DEF StopStep, StopCheckPassed, StopFirst, StopSecond, IOStopCallReturn, StopCallReturn,
       IOStopJoin, StopJoin, vars
  <2>2. QED BY <2>1 DEF AllLeft
<1>3. ASSUME NEW t \in Threads, ThreadStep(t) \/ TaskStep(t)
      PROVE  main' = main /\ (AllLeft => AllLeft')
  <2>1. /\ main' = main
        /\ \A u \in Threads : u # t => pc'[u] = pc[u]
        /\ pc'[t] = pc[t] \/ pc[t] # "done"
    BY <1>3, ThreadFacts
  <2>2. QED BY <1>0, <2>1 DEF AllLeft
<1>4. CASE IOTerminated \/ UNCHANGED allVars
  BY <1>4 DEF IOTerminated, allVars, vars, AllLeft
<1>5. QED BY <1>1, <1>2, <1>3, <1>4 DEF IONext

\* A step that leaves the tasks alone at most begins or ends the closing.
LEMMA PhaseSimulates ==
  ASSUME Base, StopInv, [IONext]_allVars, LeftInv', ioStatusOf' = ioStatusOf
  PROVE  IOTP!Next \/ UNCHANGED <<ioStatusOf, ioPhaseOf>>
<1>1. CASE main \in {"setup", "started"} /\ main' \in {"setup", "started"}
  BY <1>1 DEF ioPhaseOf
<1>2. CASE main = "started" /\ main' = "stopping"
  <2>1. ioPhaseOf = "open" /\ ioPhaseOf' = "closing"
    BY <1>2 DEF ioPhaseOf, AllLeft
  <2>2. QED BY <2>1 DEF IOTP!Next, IOTP!BeginClose
<1>3. CASE main \notin {"setup", "started"}
  <2>1. main' \notin {"setup", "started"} /\ (AllLeft => AllLeft')
    BY <1>3, PhaseFacts
  <2>2. CASE AllLeft \/ ~AllLeft'
    <3>1. AllLeft <=> AllLeft'
      BY <2>1, <2>2
    <3>2. ioPhaseOf' = ioPhaseOf
      BY <1>3, <2>1, <3>1 DEF ioPhaseOf
    <3>3. QED BY <3>2
  <2>3. CASE ~AllLeft /\ AllLeft'
    <3>1. ioPhaseOf = "closing" /\ ioPhaseOf' = "closed"
      BY <1>3, <2>1, <2>3 DEF ioPhaseOf
    <3>2. \A k \in Tasks : ioStatusOf'[k] # "pending"
      BY <2>3 DEF LeftInv, IOTP!Pending
    <3>3. IOTP!Pending = {}
      BY <3>2 DEF IOTP!Pending
    <3>4. QED BY <3>1, <3>3 DEF IOTP!Next, IOTP!Close
  <2>4. QED BY <2>2, <2>3
<1>4. QED BY <1>1, <1>2, <1>3, PhaseFacts

\* The body of a task submits others or finishes its own.
LEMMA TaskSimulates ==
  ASSUME UseCaller, Arming = {}, Base, WayInv, StopInv, NEW t \in Threads, TaskStep(t)
  PROVE  IOTP!Next
<1>0. /\ ft \in [Threads -> Tasks \cup {NoTask}] /\ m_state \in [Tasks -> FiberState]
      /\ NoTask \notin Tasks /\ HandInv
  BY SchedulerAssumption DEF Base, CoreInv, TypeOK
<1>1. pc[t] = "exec" /\ main' = main /\ pc'[t] # "done" /\ pc' \in {pc, [pc EXCEPT ![t] = "back"]}
  BY DEF TaskStep, TaskSchedule, BodySchedule, TaskAddTimer, TaskAddEvent, TaskReturn, BodyReturn,
     Goto, ArmTimer, RegisterEvent, vars, Base, CoreInv, TypeOK
<1>2. ft[t] \in Tasks /\ m_state[ft[t]] = "EXEC"
  BY <1>0, <1>1 DEF HandInv, WayInv, TaskInv, StateAt
<1>3. ~Unused(ft[t])
  BY <1>2, UnusedMeans
<1>4. ioStatusOf[ft[t]] = "pending"
  BY <1>2, <1>3 DEF ioStatusOf
<1>5. IOTP!Pending # {}
  BY <1>2, <1>4 DEF IOTP!Pending
<1>6. ~AllLeft /\ ~AllLeft'
  <2>1. main = "returned" => pc[t] \in {"off", "done"} \/ t \in Workers
    BY DEF StopInv, MainInv, Threads
  <2>2. QED BY <1>1, <2>1 DEF AllLeft
<1>7. ioPhaseOf \in {"open", "closing"} /\ ioPhaseOf' = ioPhaseOf
  BY <1>1, <1>6 DEF ioPhaseOf
<1>8. ASSUME NEW k \in Tasks, NEW thread \in PinTargets \cup {AnyThread},
             TaskSchedule(t, k, thread)
      PROVE  IOTP!Next
  <2>1. ioStatusOf[k] = "new" /\ ioStatusOf' = [ioStatusOf EXCEPT ![k] = "pending"]
    BY <1>8, ScheduleSubmits DEF TaskSchedule, BodySchedule, fiberVars
  <2>2. IOTP!Submit(k)
    BY <1>5, <1>7, <2>1 DEF IOTP!Submit
  <2>3. QED BY <2>2 DEF IOTP!Next
<1>9. CASE TaskReturn(t)
  <2>1. /\ m_state' = [m_state EXCEPT ![ft[t]] = "TERM"]
        /\ UNCHANGED <<m_fibers, ft, m_timers, registered, cbs>>
    BY <1>9 DEF TaskReturn, BodyReturn, queueVars, ioVars
  <2>2. \A j \in Tasks : j # ft[t] => m_state'[j] = m_state[j] /\ (Unused(j)' <=> Unused(j))
    BY <1>0, <2>1 DEF Unused, Fresh
  <2>3. m_state'[ft[t]] = "TERM"
    BY <1>0, <1>2, <2>1
  <2>4. ioStatusOf' = [ioStatusOf EXCEPT ![ft[t]] = "done"]
    BY <1>2, <2>2, <2>3 DEF ioStatusOf
  <2>5. IOTP!Finish(ft[t])
    BY <1>4, <1>7, <2>4 DEF IOTP!Finish
  <2>6. QED BY <1>2, <2>5 DEF IOTP!Next
<1>10. QED BY <1>8, <1>9 DEF TaskStep, TaskAddTimer, TaskAddEvent

\* The owner submits tasks while the pool is open.
LEMMA OwnerSubmits ==
  ASSUME Base, NEW k \in Tasks,
         \/ \E thread \in PinTargets \cup {AnyThread} : OwnerSchedule(k, thread)
         \/ OwnerAddTimer(k)
         \/ OwnerAddEvent(k)
  PROVE  IOTP!Next
<1>1. main = "started" /\ main' = main
  BY DEF OwnerSchedule, MainSchedule, OwnerAddTimer, OwnerAddEvent, ArmTimer, RegisterEvent, vars
<1>2. ioPhaseOf = "open" /\ ioPhaseOf' = "open"
  BY <1>1 DEF ioPhaseOf
<1>3. ioStatusOf[k] = "new" /\ ioStatusOf' = [ioStatusOf EXCEPT ![k] = "pending"]
  <2>1. ASSUME NEW thread \in PinTargets \cup {AnyThread}, OwnerSchedule(k, thread)
        PROVE  ioStatusOf[k] = "new" /\ ioStatusOf' = [ioStatusOf EXCEPT ![k] = "pending"]
    BY <2>1, ScheduleSubmits DEF OwnerSchedule, MainSchedule, fiberVars
  <2>2. CASE OwnerAddTimer(k) \/ OwnerAddEvent(k)
    BY <2>2, ArmSubmits DEF OwnerAddTimer, OwnerAddEvent, ArmTimer, RegisterEvent
  <2>3. QED BY <2>1, <2>2
<1>4. QED BY <1>2, <1>3 DEF IOTP!Next, IOTP!Submit

LEMMA IOSimulates ==
  ASSUME UseCaller, Arming = {}, Base, WayInv, StopInv, LeftInv', [IONext]_allVars
  PROVE  IOTP!Next \/ UNCHANGED <<ioStatusOf, ioPhaseOf>>
<1>1. CASE StopStep \/ IOStart \/ IOStopRequest \/ IOTickle(Caller) \/ IOTerminated
             \/ UNCHANGED allVars
  <2>1. UNCHANGED <<m_fibers, m_state, ft, m_timers, registered, cbs>>
    BY <1>1 DEF IOStart, IOStopRequest, StopStep, Start, StopRequest, StopCheckPassed, StopFirst,
       StopSecond, IOStopCallReturn, StopCallReturn, IOStopJoin, StopJoin, IOTickle, IOTerminated,
       queueVars, fiberVars, ioVars, vars, allVars
  <2>2. ioStatusOf' = ioStatusOf
    BY <2>1 DEF ioStatusOf, Unused, Fresh
  <2>3. QED BY <2>2, PhaseSimulates
<1>2. ASSUME NEW t \in Threads, ThreadStep(t)
      PROVE  IOTP!Next \/ UNCHANGED <<ioStatusOf, ioPhaseOf>>
  BY <1>2, ThreadKeepsStatus, PhaseSimulates
<1>3. ASSUME NEW t \in Threads, TaskStep(t) PROVE IOTP!Next
  BY <1>3, TaskSimulates
<1>4. CASE OwnerStep
  BY <1>1, <1>4, OwnerSubmits DEF OwnerStep
<1>5. QED BY <1>1, <1>2, <1>3, <1>4 DEF IONext

\* With use_caller, and for callbacks that arm no others, timers, events, idle
\* threads and the three reads of stopping() together implement TaskPool:
\* whatever was scheduled or armed is run, once, before the last thread leaves.
THEOREM IOManagerImplementsTaskPool ==
  ASSUME UseCaller, Arming = {}
  PROVE  IOSpec => IOImplementsTaskPool
<1>1. IOInit => IOTP!Init
  BY SchedulerAssumption DEF IOInit, Init, IOTP!Init, ioStatusOf, ioPhaseOf, Unused, Fresh
<1>2. Base /\ WayInv /\ StopInv => LeftInv
  BY LeftNonePending
<1>3. Base /\ WayInv /\ StopInv /\ LeftInv' /\ [IONext]_allVars
        => [IOTP!Next]_<<ioStatusOf, ioPhaseOf>>
  BY IOSimulates
<1>4. QED
  BY <1>1, <1>2, <1>3, StopInvariant, PTL DEF IOSpec, IOImplementsTaskPool, IOTP!Spec, IOTP!vars
=============================================================================
