---------------------------- MODULE HookIOProofs ----------------------------
(***************************************************************************)
(* Proofs about HookIO, for any number of workers and of turns, with and   *)
(* without a timeout and a closing fiber: types, the single resumption of  *)
(* a suspended fiber, that it is never forgotten while its descriptor is   *)
(* open, and the assertion of addEvent against a second registration.      *)
(***************************************************************************)
EXTENDS HookIO, FiniteSetTheorems, TLAPS

\* The fiber has announced that it waits, and has not been resumed yet.
Waiting == {"yield", "swapout", "held"}

In(k, q) == \E i \in DOMAIN q : q[i] = k

Single(k, q) == \A i, j \in DOMAIN q : q[i] = k /\ q[j] = k => i = j

\* m_state fits the place of the fiber, and one that a worker executes is
\* either in state EXEC or between YieldToHold and the switch of contexts.
PlaceInv ==
  /\ fpc = "sleep" => m_state \in {"INIT", "EXEC"} /\ turn = 0 /\ timer[0] = "none"
  /\ fpc \in {"try", "timer", "event", "yield", "resumed"} => m_state = "EXEC"
  /\ fpc \in {"try", "timer", "event"} => turn > 0
  /\ fpc \in {"swapout", "held"} => m_state = "HOLD"
  /\ fpc = "returned" => m_state = "TERM"
  /\ \A w \in Workers : run[w] = IO => m_state = "EXEC" \/ fpc = "swapout"

\* One token resumes the fiber: its registration or its entry in the queue.
TokenInv ==
  /\ Single(IO, queue)
  /\ In(IO, queue) => /\ ~registered
                      /\ \/ fpc \in Waiting
                         \/ fpc = "sleep" /\ m_state = "INIT"
  /\ registered => fpc \in Waiting /\ turn > 0

\* The timer of sleep is the token of turn 0, until its callback has run.
SleepInv ==
  /\ cpc[0] \in {"start", "end"}
  /\ timer[0] # "none" /\ cpc[0] = "start" =>
       fpc \in Waiting /\ turn = 0 /\ ~In(IO, queue)
  /\ In(0, queue) => timer[0] # "none"
  /\ \A w \in Workers : run[w] = 0 => timer[0] # "none"

Triggering == \E w \in Workers, n \in Turns \ {0} : CallbackAt(w, n, "trigger")

SleepRuns ==
  turn = 0 /\ (timer[0] = "armed" \/ In(0, queue) \/ \E w \in Workers : run[w] = 0)

\* HeldIsAwaited, from the moment the fiber gives its token away.
AwaitInv ==
  fpc \in Waiting /\ closer # "closed" =>
    (registered /\ interest) \/ Triggering \/ In(IO, queue) \/ SleepRuns

IInv == TypeOK /\ PlaceInv /\ TokenInv /\ SleepInv /\ AwaitInv

-----------------------------------------------------------------------------
(***************************************************************************)
(* The queue.                                                              *)
(***************************************************************************)

\* schedule() adds one entry at the end of m_fibers, and none is lost.
LEMMA AppendFacts ==
  ASSUME NEW S, NEW q \in Seq(S), NEW k \in S
  PROVE  /\ Append(q, k) \in Seq(S)
         /\ \A j : In(j, Append(q, k)) <=> In(j, q) \/ j = k
         /\ \A j : Single(j, q) /\ (j = k => ~In(j, q)) => Single(j, Append(q, k))
<1>1. /\ Append(q, k) \in Seq(S)
      /\ DOMAIN Append(q, k) = 1..(Len(q) + 1)
      /\ DOMAIN q = 1..Len(q)
      /\ Len(q) \in Nat
      /\ \A i \in 1..Len(q) : Append(q, k)[i] = q[i]
      /\ Append(q, k)[Len(q) + 1] = k
  OBVIOUS
<1>2. ASSUME NEW j
      PROVE  In(j, Append(q, k)) <=> In(j, q) \/ j = k
  <2>1. In(j, Append(q, k)) => In(j, q) \/ j = k
    BY <1>1, SMT DEF In
  <2>2. In(j, q) => In(j, Append(q, k))
    BY <1>1, SMT DEF In
  <2>3. j = k => In(j, Append(q, k))
    BY <1>1, SMT DEF In
  <2>4. QED BY <2>1, <2>2, <2>3
<1>3. ASSUME NEW j, Single(j, q), j = k => ~In(j, q)
      PROVE  Single(j, Append(q, k))
  BY <1>1, <1>3, SMT DEF In, Single
<1>4. QED BY <1>1, <1>2, <1>3

\* A worker takes the first entry: only that one leaves m_fibers.
LEMMA TailFacts ==
  ASSUME NEW S, NEW q \in Seq(S), q # <<>>
  PROVE  /\ Tail(q) \in Seq(S)
         /\ Head(q) \in S
         /\ In(Head(q), q)
         /\ \A j : In(j, Tail(q)) => In(j, q)
         /\ \A j : In(j, q) /\ j # Head(q) => In(j, Tail(q))
         /\ \A j : Single(j, q) => Single(j, Tail(q))
         /\ Single(Head(q), q) => ~In(Head(q), Tail(q))
<1>1. /\ Tail(q) \in Seq(S)
      /\ Head(q) \in S
      /\ Len(q) \in Nat \ {0}
      /\ DOMAIN Tail(q) = 1..(Len(q) - 1)
      /\ DOMAIN q = 1..Len(q)
      /\ \A i \in 1..(Len(q) - 1) : Tail(q)[i] = q[i + 1]
      /\ Head(q) = q[1]
  OBVIOUS
<1>2. In(Head(q), q)
  BY <1>1, SMT DEF In
<1>3. ASSUME NEW j, In(j, Tail(q))
      PROVE  In(j, q)
  BY <1>1, <1>3, SMT DEF In
<1>4. ASSUME NEW j, In(j, q), j # Head(q)
      PROVE  In(j, Tail(q))
  <2>1. PICK i \in 1..Len(q) : q[i] = j
    BY <1>1, <1>4 DEF In
  <2>2. i - 1 \in 1..(Len(q) - 1) /\ Tail(q)[i - 1] = j
    BY <2>1, <1>1, <1>4, SMT
  <2>3. QED BY <2>2, <1>1 DEF In
<1>5. ASSUME NEW j, Single(j, q)
      PROVE  Single(j, Tail(q))
  BY <1>1, <1>5, SMT DEF Single
<1>6. ASSUME Single(Head(q), q)
      PROVE  ~In(Head(q), Tail(q))
  BY <1>1, <1>6, SMT DEF Single, In
<1>7. QED BY <1>1, <1>2, <1>3, <1>4, <1>5, <1>6

-----------------------------------------------------------------------------
(***************************************************************************)
(* The initial state, and the steps that leave the state alone.            *)
(***************************************************************************)
LEMMA InitIInv == Init => IInv
<1> SUFFICES ASSUME Init PROVE IInv
  OBVIOUS
<1>1. queue \in Seq(Tasks) /\ Single(IO, queue) /\ ~In(0, queue) /\ In(IO, queue)
  <2>1. /\ queue = <<IO>>
        /\ DOMAIN queue = {1}
        /\ queue[1] = IO
    BY DEF Init
  <2>2. IO \in Tasks /\ IO # 0
    BY HookAssumption DEF Tasks, Turns
  <2>3. queue \in Seq(Tasks)
    BY <2>1, <2>2
  <2>4. QED BY <2>1, <2>2, <2>3 DEF Single, In
<1>3. 0 \in Turns
  BY HookAssumption DEF Turns
<1>2. TypeOK
  <2>1. \A v, w \in Workers : run[v] = IO /\ run[w] = IO => v = w
    BY HookAssumption DEF Init, Tasks
  <2>2. registered \in BOOLEAN /\ interest \in BOOLEAN /\ data \in BOOLEAN
    BY DEF Init
  <2>3. QED BY <1>1, <1>3, <2>1, <2>2 DEF Init, TypeOK
<1>4. PlaceInv /\ TokenInv /\ SleepInv /\ AwaitInv
  BY <1>1, <1>3, HookAssumption
  DEF Init, PlaceInv, TokenInv, SleepInv, AwaitInv, Tasks, Waiting
<1>5. QED BY <1>2, <1>4 DEF IInv

\* What ends the process changes nothing else.
LEMMA FrozenIInv ==
  ASSUME IInv, died' \in {"no", "swapin", "wrecked", "epoll_ctl", "duplicate",
                          "missing", "erase"},
         UNCHANGED <<queue, run, m_state, fpc, turn, timer, cpc, cancelled, registered,
                     interest, closer, result>>,
         data' \in BOOLEAN
  PROVE  IInv'
<1>1. TypeOK'
  BY DEF IInv, TypeOK
<1>2. PlaceInv' /\ TokenInv' /\ SleepInv' /\ AwaitInv'
  BY DEF IInv, PlaceInv, TokenInv, SleepInv, AwaitInv, Triggering, SleepRuns, CallbackAt
<1>3. QED BY <1>1, <1>2 DEF IInv

LEMMA DieIInv ==
  ASSUME IInv, NEW why, Die(why),
         why \in {"swapin", "wrecked", "epoll_ctl", "duplicate", "missing", "erase"}
  PROVE  IInv'
BY FrozenIInv DEF Die, fiberVars, timerVars, eventVars, IInv, TypeOK

LEMMA StutterIInv ==
  ASSUME IInv, UNCHANGED vars
  PROVE  IInv'
BY FrozenIInv DEF vars, IInv, TypeOK

-----------------------------------------------------------------------------
(***************************************************************************)
(* A free worker.                                                          *)
(***************************************************************************)
LEMMA TakeIInv ==
  ASSUME IInv, NEW w \in Workers, Take(w)
  PROVE  IInv'
<1> USE HookAssumption
<1>0. /\ TypeOK /\ PlaceInv /\ TokenInv /\ SleepInv /\ AwaitInv
      /\ run[w] = NoTask /\ queue # <<>> /\ queue \in Seq(Tasks)
  BY DEF IInv, Take, TypeOK
<1>a. /\ Tail(queue) \in Seq(Tasks)
      /\ Head(queue) \in Tasks
      /\ In(Head(queue), queue)
      /\ \A j : In(j, Tail(queue)) => In(j, queue)
      /\ \A j : In(j, queue) /\ j # Head(queue) => In(j, Tail(queue))
      /\ \A j : Single(j, queue) => Single(j, Tail(queue))
      /\ Single(Head(queue), queue) => ~In(Head(queue), Tail(queue))
  BY <1>0, TailFacts
<1>1. CASE Head(queue) # IO
  <2>1. /\ run' = [run EXCEPT ![w] = Head(queue)]
        /\ queue' = Tail(queue)
        /\ UNCHANGED <<m_state, fpc, turn, result, died, timer, cpc, cancelled,
                       registered, interest, data, closer>>
    BY <1>1 DEF Take, fiberVars, timerVars, eventVars
  <2>2. TypeOK'
    BY <1>0, <1>a, <1>1, <2>1 DEF TypeOK
  <2>3. PlaceInv'
    BY <1>0, <1>1, <2>1 DEF PlaceInv, TypeOK
  <2>4. TokenInv'
    BY <1>0, <1>a, <2>1 DEF TokenInv
  <2>5. SleepInv'
    <3>1. \A v \in Workers : run'[v] = 0 => timer[0] # "none"
      BY <1>0, <1>a, <2>1 DEF SleepInv, TypeOK
    <3>2. QED BY <1>0, <1>a, <2>1, <3>1 DEF SleepInv
  <2>6. AwaitInv'
    <3> SUFFICES ASSUME fpc \in Waiting, closer # "closed"
                 PROVE  ((registered /\ interest) \/ Triggering \/ In(IO, queue) \/ SleepRuns)'
      BY <2>1 DEF AwaitInv
    <3>1. (registered /\ interest) \/ Triggering \/ In(IO, queue) \/ SleepRuns
      BY <1>0 DEF AwaitInv
    <3>2. ASSUME Triggering PROVE Triggering'
      <4>1. PICK v \in Workers, n \in Turns \ {0} : CallbackAt(v, n, "trigger")
        BY <3>2 DEF Triggering
      <4>2. v # w
        BY <4>1, <1>0 DEF CallbackAt, Tasks
      <4>3. run'[v] = n /\ cpc'[n] = "trigger"
        BY <4>1, <4>2, <2>1, <1>0 DEF CallbackAt, TypeOK
      <4>4. QED BY <4>3 DEF Triggering, CallbackAt
    <3>3. ASSUME In(IO, queue) PROVE In(IO, queue)'
      BY <3>3, <1>a, <1>1, <2>1
    <3>4. ASSUME SleepRuns PROVE SleepRuns'
      <4>1. CASE timer[0] = "armed"
        BY <4>1, <3>4, <2>1 DEF SleepRuns
      <4>2. CASE In(0, queue) /\ Head(queue) # 0
        BY <4>2, <3>4, <1>a, <2>1 DEF SleepRuns
      <4>3. CASE Head(queue) = 0
        <5>1. run'[w] = 0
          BY <4>3, <2>1, <1>0 DEF TypeOK
        <5>2. QED BY <5>1, <3>4, <2>1 DEF SleepRuns
      <4>4. ASSUME NEW v \in Workers, run[v] = 0 PROVE SleepRuns'
        <5>1. v # w
          BY <4>4, <1>0 DEF Tasks, Turns
        <5>2. run'[v] = 0
          BY <5>1, <4>4, <2>1, <1>0 DEF TypeOK
        <5>3. QED BY <5>2, <3>4, <2>1 DEF SleepRuns
      <4>5. QED BY <4>1, <4>2, <4>3, <4>4, <3>4 DEF SleepRuns
    <3>5. QED BY <3>1, <3>2, <3>3, <3>4, <2>1
  <2>7. QED BY <2>2, <2>3, <2>4, <2>5, <2>6 DEF IInv
<1>2. CASE Head(queue) = IO /\ (m_state = "EXEC" \/ fpc = "swapout")
  <2>1. /\ died' \in {"swapin", "wrecked"}
        /\ UNCHANGED <<queue, run, m_state, fpc, turn, timer, cpc, cancelled, registered,
                       interest, data, closer, result>>
    BY <1>2 DEF Take, fiberVars, timerVars, eventVars
  <2>2. QED BY <2>1, <1>0, FrozenIInv DEF TypeOK
<1>3. CASE Head(queue) = IO /\ ~(m_state = "EXEC" \/ fpc = "swapout")
  <2>1. /\ run' = [run EXCEPT ![w] = IO]
        /\ queue' = Tail(queue)
        /\ m_state' = "EXEC"
        /\ fpc' = (IF fpc = "held" THEN "resumed" ELSE fpc)
        /\ UNCHANGED <<turn, result, died, timer, cpc, cancelled, registered, interest,
                       data, closer>>
    BY <1>3 DEF Take, fiberVars, timerVars, eventVars
  <2>2. /\ In(IO, queue) /\ ~In(IO, Tail(queue))
        /\ \A v \in Workers : run[v] # IO
        /\ (fpc = "held" /\ fpc' = "resumed") \/ (fpc = "sleep" /\ fpc' = "sleep")
        /\ ~registered
    BY <1>0, <1>a, <1>3, <2>1 DEF TokenInv, PlaceInv, Waiting
  <2>3. TypeOK'
    BY <1>0, <1>a, <2>1, <2>2 DEF TypeOK, Tasks
  <2>4. PlaceInv'
    BY <1>0, <2>1, <2>2 DEF PlaceInv
  <2>5. TokenInv'
    BY <1>0, <1>a, <2>1, <2>2 DEF TokenInv
  <2>6. SleepInv'
    <3>1. \A v \in Workers : run'[v] = 0 => timer[0] # "none"
      BY <1>0, <2>1 DEF SleepInv, TypeOK, Turns
    <3>2. timer[0] # "none" => cpc[0] # "start"
      BY <1>0, <2>2 DEF SleepInv
    <3>3. QED BY <1>0, <1>a, <2>1, <3>1, <3>2 DEF SleepInv
  <2>7. AwaitInv'
    BY <2>2 DEF AwaitInv, Waiting
  <2>8. QED BY <2>3, <2>4, <2>5, <2>6, <2>7 DEF IInv
<1>4. QED BY <1>1, <1>2, <1>3

LEMMA ExpireIInv ==
  ASSUME IInv, NEW w \in Workers, NEW n \in Turns, Expire(w, n)
  PROVE  IInv'
<1> USE HookAssumption
<1>0. /\ TypeOK /\ PlaceInv /\ TokenInv /\ SleepInv /\ AwaitInv
      /\ timer[n] = "armed"
      /\ timer' = [timer EXCEPT ![n] = "expired"]
      /\ queue' = Append(queue, n)
      /\ UNCHANGED <<run, m_state, fpc, turn, result, cpc, cancelled, registered, interest,
                     data, closer, died>>
  BY DEF IInv, Expire, Schedule, fiberVars, eventVars
<1>a. n \in Tasks /\ n # IO /\ 0 \in Turns
  BY DEF Tasks, Turns
<1>b. /\ queue' \in Seq(Tasks)
      /\ \A j : In(j, queue') <=> In(j, queue) \/ j = n
      /\ Single(IO, queue')
  BY <1>0, <1>a, AppendFacts DEF TypeOK, TokenInv
<1>1. TypeOK'
  BY <1>0, <1>b DEF TypeOK
<1>2. PlaceInv'
  BY <1>0, <1>a DEF PlaceInv, TypeOK
<1>3. TokenInv'
  BY <1>0, <1>a, <1>b DEF TokenInv
<1>4. SleepInv'
  <2>1. timer[0] # "none" <=> timer'[0] # "none"
    BY <1>0, <1>a DEF TypeOK
  <2>2. n = 0 => timer[0] # "none"
    BY <1>0
  <2>3. QED BY <1>0, <1>a, <1>b, <2>1, <2>2 DEF SleepInv
<1>5. AwaitInv'
  <2>1. Triggering => Triggering'
    BY <1>0 DEF Triggering, CallbackAt
  <2>2. SleepRuns => SleepRuns'
    <3>1. CASE n = 0
      BY <3>1, <1>0, <1>b DEF SleepRuns
    <3>2. CASE n # 0
      BY <3>2, <1>0, <1>a, <1>b DEF SleepRuns, TypeOK
    <3>3. QED BY <3>1, <3>2
  <2>3. QED BY <1>0, <1>b, <2>1, <2>2 DEF AwaitInv
<1>6. QED BY <1>1, <1>2, <1>3, <1>4, <1>5 DEF IInv

\* The three that resume a registered fiber take its registration away.
LEMMA ResumeFacts ==
  ASSUME TypeOK, TokenInv, registered, queue' = Append(queue, IO)
  PROVE  /\ queue' \in Seq(Tasks)
         /\ \A j : In(j, queue') <=> In(j, queue) \/ j = IO
         /\ Single(IO, queue')
         /\ fpc \in Waiting /\ turn > 0
<1>1. IO \in Tasks /\ ~In(IO, queue)
  BY DEF Tasks, TokenInv
<1>2. QED BY <1>1, AppendFacts DEF TypeOK, TokenInv

LEMMA HandleEventIInv ==
  ASSUME IInv, NEW w \in Workers, HandleEvent(w)
  PROVE  IInv'
<1> USE HookAssumption
<1>0. TypeOK /\ PlaceInv /\ TokenInv /\ SleepInv /\ AwaitInv /\ registered
  BY DEF IInv, HandleEvent
<1>1. CASE ~interest
  BY <1>1, DieIInv DEF HandleEvent
<1>2. CASE interest
  <2>1. /\ registered' = FALSE /\ interest' = FALSE
        /\ queue' = Append(queue, IO)
        /\ UNCHANGED <<run, m_state, fpc, turn, result, timer, cpc, cancelled, data,
                       closer, died>>
    BY <1>2 DEF HandleEvent, Schedule, fiberVars, timerVars
  <2>2. /\ queue' \in Seq(Tasks)
        /\ \A j : In(j, queue') <=> In(j, queue) \/ j = IO
        /\ Single(IO, queue')
        /\ fpc \in Waiting /\ turn > 0
    BY <1>0, <2>1, ResumeFacts
  <2>a. registered' \in BOOLEAN /\ interest' \in BOOLEAN
    BY <2>1
  <2>3. TypeOK'
    BY <1>0, <2>1, <2>2, <2>a DEF TypeOK
  <2>4. PlaceInv'
    BY <1>0, <2>1 DEF PlaceInv
  <2>5. TokenInv'
    BY <1>0, <2>1, <2>2 DEF TokenInv
  <2>6. SleepInv'
    BY <1>0, <2>1, <2>2 DEF SleepInv, Turns
  <2>7. AwaitInv'
    BY <2>2 DEF AwaitInv
  <2>8. QED BY <2>3, <2>4, <2>5, <2>6, <2>7 DEF IInv
<1>3. QED BY <1>1, <1>2

-----------------------------------------------------------------------------
(***************************************************************************)
(* The fiber.                                                              *)
(***************************************************************************)

\* A fiber that a worker executes, before it waits: no token is out.
LEMMA RunningFacts ==
  ASSUME IInv, NEW w \in Workers, run[w] = IO, fpc \notin {"yield", "swapout"}
  PROVE  /\ m_state = "EXEC" /\ fpc # "held"
         /\ ~registered /\ ~In(IO, queue)
         /\ \A v \in Workers : run[v] = IO => v = w
BY DEF IInv, TypeOK, PlaceInv, TokenInv, Waiting

LEMMA SleepIInv ==
  ASSUME IInv, NEW w \in Workers, Sleep(w)
  PROVE  IInv'
<1> USE HookAssumption
<1>0. /\ TypeOK /\ PlaceInv /\ TokenInv /\ SleepInv /\ AwaitInv
      /\ run[w] = IO /\ fpc = "sleep"
      /\ timer' = [timer EXCEPT ![0] = "armed"]
      /\ fpc' = "yield"
      /\ UNCHANGED <<queue, run, m_state, turn, result, cpc, cancelled, registered,
                     interest, data, closer, died>>
  BY DEF IInv, Sleep, FiberAt, eventVars
<1>a. 0 \in Turns /\ timer'[0] = "armed"
  BY <1>0 DEF Turns, TypeOK
<1>b. m_state = "EXEC" /\ turn = 0 /\ ~registered /\ ~In(IO, queue)
  BY <1>0, RunningFacts DEF PlaceInv
<1>1. TypeOK'
  BY <1>0, <1>a DEF TypeOK
<1>2. PlaceInv'
  BY <1>0, <1>b DEF PlaceInv
<1>3. TokenInv'
  BY <1>0, <1>b DEF TokenInv
<1>4. SleepInv'
  BY <1>0, <1>a, <1>b DEF SleepInv, Waiting
<1>5. AwaitInv'
  BY <1>0, <1>a, <1>b DEF AwaitInv, SleepRuns
<1>6. QED BY <1>1, <1>2, <1>3, <1>4, <1>5 DEF IInv

LEMMA TryIInv ==
  ASSUME IInv, NEW w \in Workers, Try(w)
  PROVE  IInv'
<1> USE HookAssumption
<1>0. /\ TypeOK /\ PlaceInv /\ TokenInv /\ SleepInv /\ AwaitInv
      /\ run[w] = IO /\ fpc = "try"
      /\ UNCHANGED <<queue, turn, timer, cpc, cancelled, registered, interest, closer, died>>
  BY DEF IInv, Try, FiberAt, timerVars, eventVars
<1>a. data' \in BOOLEAN
  BY <1>0 DEF Try, TypeOK
<1>b. /\ m_state = "EXEC" /\ turn > 0 /\ ~registered /\ ~In(IO, queue)
      /\ \A v \in Workers : run[v] = IO => v = w
  BY <1>0, RunningFacts DEF PlaceInv
<1>c. \/ /\ result' \in {"ok", "EBADF"}
         /\ fpc' = "returned" /\ m_state' = "TERM"
         /\ run' = [run EXCEPT ![w] = NoTask]
      \/ fpc' = "timer" /\ UNCHANGED <<m_state, result, run>>
  BY DEF Try, Return, Leave
<1>1. TypeOK'
  BY <1>0, <1>a, <1>c DEF TypeOK, Tasks
<1>2. PlaceInv'
  BY <1>0, <1>b, <1>c DEF PlaceInv, TypeOK, Tasks
<1>3. TokenInv'
  BY <1>0, <1>b, <1>c DEF TokenInv
<1>4. SleepInv'
  <2>1. ~(timer[0] # "none" /\ cpc[0] = "start")
    BY <1>0 DEF SleepInv, Waiting
  <2>2. \A v \in Workers : run'[v] = 0 => timer[0] # "none"
    BY <1>0, <1>c DEF SleepInv, TypeOK, Tasks, Turns
  <2>3. QED BY <1>0, <2>1, <2>2 DEF SleepInv
<1>5. AwaitInv'
  BY <1>c DEF AwaitInv, Waiting
<1>6. QED BY <1>1, <1>2, <1>3, <1>4, <1>5 DEF IInv

LEMMA AddTimerIInv ==
  ASSUME IInv, NEW w \in Workers, AddTimer(w)
  PROVE  IInv'
<1> USE HookAssumption
<1>0. /\ TypeOK /\ PlaceInv /\ TokenInv /\ SleepInv /\ AwaitInv
      /\ run[w] = IO /\ fpc = "timer"
      /\ timer' = IF HasTimeout THEN [timer EXCEPT ![turn] = "armed"] ELSE timer
      /\ fpc' = "event"
      /\ UNCHANGED <<queue, run, m_state, turn, result, cpc, cancelled, registered,
                     interest, data, closer, died>>
  BY DEF IInv, AddTimer, FiberAt, eventVars
<1>a. /\ m_state = "EXEC" /\ turn > 0 /\ ~registered /\ ~In(IO, queue)
      /\ timer'[0] = timer[0]
  <2>1. 0 \in Turns /\ turn \in Turns
    BY <1>0 DEF Turns, TypeOK
  <2>2. QED BY <1>0, <2>1, RunningFacts DEF PlaceInv, TypeOK
<1>1. TypeOK'
  BY <1>0 DEF TypeOK
<1>2. PlaceInv'
  BY <1>0, <1>a DEF PlaceInv
<1>3. TokenInv'
  BY <1>0, <1>a DEF TokenInv
<1>4. SleepInv'
  BY <1>0, <1>a DEF SleepInv, Waiting
<1>5. AwaitInv'
  BY <1>0 DEF AwaitInv, Waiting
<1>6. QED BY <1>1, <1>2, <1>3, <1>4, <1>5 DEF IInv

LEMMA AddEventIInv ==
  ASSUME IInv, NEW w \in Workers, AddEvent(w)
  PROVE  IInv'
<1> USE HookAssumption
<1>0. /\ TypeOK /\ PlaceInv /\ TokenInv /\ SleepInv /\ AwaitInv
      /\ run[w] = IO /\ fpc = "event"
  BY DEF IInv, AddEvent, FiberAt
<1>1. CASE registered
  BY <1>1, DieIInv DEF AddEvent
<1>2. CASE ~registered /\ (closer = "closed" \/ interest)
  BY <1>2, DieIInv DEF AddEvent
<1>3. CASE ~registered /\ ~(closer = "closed" \/ interest)
  <2>1. /\ registered' = TRUE /\ interest' = TRUE
        /\ fpc' = "yield"
        /\ UNCHANGED <<queue, run, m_state, turn, result, timer, cpc, cancelled, data,
                       closer, died>>
    BY <1>3 DEF AddEvent, timerVars
  <2>2. m_state = "EXEC" /\ turn > 0 /\ ~In(IO, queue)
    BY <1>0, RunningFacts DEF PlaceInv
  <2>a. registered' \in BOOLEAN /\ interest' \in BOOLEAN
    BY <2>1
  <2>3. TypeOK'
    BY <1>0, <2>1, <2>a DEF TypeOK
  <2>4. PlaceInv'
    BY <1>0, <2>1, <2>2 DEF PlaceInv
  <2>5. TokenInv'
    BY <1>0, <2>1, <2>2 DEF TokenInv, Waiting
  <2>6. SleepInv'
    BY <1>0, <2>1 DEF SleepInv, Waiting
  <2>7. AwaitInv'
    BY <2>1 DEF AwaitInv
  <2>8. QED BY <2>3, <2>4, <2>5, <2>6, <2>7 DEF IInv
<1>4. QED BY <1>1, <1>2, <1>3

LEMMA YieldToHoldIInv ==
  ASSUME IInv, NEW w \in Workers, YieldToHold(w)
  PROVE  IInv'
<1>0. /\ TypeOK /\ PlaceInv /\ TokenInv /\ SleepInv /\ AwaitInv
      /\ fpc = "yield" /\ m_state' = "HOLD" /\ fpc' = "swapout"
      /\ UNCHANGED <<queue, run, turn, result, timer, cpc, cancelled, registered, interest,
                     data, closer, died>>
  BY DEF IInv, YieldToHold, FiberAt, timerVars, eventVars
<1>1. TypeOK'
  BY <1>0 DEF TypeOK
<1>2. PlaceInv'
  BY <1>0 DEF PlaceInv
<1>3. TokenInv'
  BY <1>0 DEF TokenInv, Waiting
<1>4. SleepInv'
  BY <1>0 DEF SleepInv, Waiting
<1>5. AwaitInv'
  BY <1>0 DEF AwaitInv, Waiting, Triggering, CallbackAt, SleepRuns
<1>6. QED BY <1>1, <1>2, <1>3, <1>4, <1>5 DEF IInv

\* A worker that is done with its task has none, the others keep theirs.
LEMMA LeaveFacts ==
  ASSUME TypeOK, NEW w \in Workers, Leave(w)
  PROVE  /\ run' \in [Workers -> Tasks \cup {NoTask}]
         /\ \A v \in Workers : run'[v] # NoTask => v # w /\ run'[v] = run[v]
         /\ \A v \in Workers : v # w => run'[v] = run[v]
         /\ \A v \in Workers, k \in Tasks : run'[v] = k => v # w /\ run[v] = k
BY HookAssumption DEF TypeOK, Leave

\* A worker that is not executing a callback about to trigger may leave.
LEMMA LeaveKeepsTriggering ==
  ASSUME TypeOK, NEW w \in Workers, Leave(w),
         \A n \in Turns \ {0} : run[w] = n => cpc[n] # "trigger",
         \A n \in Turns \ {0} : cpc[n] = "trigger" => cpc'[n] = "trigger"
  PROVE  Triggering => Triggering'
<1> SUFFICES ASSUME Triggering PROVE Triggering'
  OBVIOUS
<1>1. PICK v \in Workers, n \in Turns \ {0} : run[v] = n /\ cpc[n] = "trigger"
  BY DEF Triggering, CallbackAt
<1>2. v # w
  BY <1>1
<1>3. run'[v] = n /\ cpc'[n] = "trigger"
  BY <1>1, <1>2, LeaveFacts
<1>4. QED BY <1>3 DEF Triggering, CallbackAt

LEMMA SwapOutIInv ==
  ASSUME IInv, NEW w \in Workers, SwapOut(w)
  PROVE  IInv'
<1> USE HookAssumption
<1>0. /\ TypeOK /\ PlaceInv /\ TokenInv /\ SleepInv /\ AwaitInv
      /\ run[w] = IO /\ fpc = "swapout" /\ fpc' = "held" /\ Leave(w)
      /\ UNCHANGED <<queue, m_state, turn, result, timer, cpc, cancelled, registered,
                     interest, data, closer, died>>
  BY DEF IInv, SwapOut, FiberAt, timerVars, eventVars
<1>a. IO \in Tasks /\ 0 \in Tasks
  BY DEF Tasks, Turns
<1>b. /\ run' \in [Workers -> Tasks \cup {NoTask}]
      /\ \A v \in Workers : v # w => run'[v] = run[v]
      /\ \A v \in Workers, k \in Tasks : run'[v] = k => v # w /\ run[v] = k
  BY <1>0, LeaveFacts
<1>1. TypeOK'
  BY <1>0, <1>a, <1>b DEF TypeOK
<1>2. PlaceInv'
  <2>1. \A v \in Workers : run'[v] # IO
    BY <1>0, <1>a, <1>b DEF TypeOK
  <2>2. QED BY <1>0, <2>1 DEF PlaceInv
<1>3. TokenInv'
  BY <1>0 DEF TokenInv, Waiting
<1>4. SleepInv'
  BY <1>0, <1>a, <1>b DEF SleepInv, Waiting
<1>5. AwaitInv'
  <2>1. Triggering => Triggering'
    BY <1>0, LeaveKeepsTriggering
  <2>2. SleepRuns => SleepRuns'
    <3>1. \A v \in Workers : run[v] = 0 => v # w /\ run'[v] = 0
      BY <1>0, <1>b DEF Turns
    <3>2. QED BY <1>0, <3>1 DEF SleepRuns
  <2>3. QED BY <1>0, <2>1, <2>2 DEF AwaitInv, Waiting
<1>6. QED BY <1>1, <1>2, <1>3, <1>4, <1>5 DEF IInv

LEMMA ResumedIInv ==
  ASSUME IInv, NEW w \in Workers, Resumed(w)
  PROVE  IInv'
<1> USE HookAssumption
<1>0. /\ TypeOK /\ PlaceInv /\ TokenInv /\ SleepInv /\ AwaitInv
      /\ run[w] = IO /\ fpc = "resumed"
      /\ UNCHANGED <<queue, cpc, cancelled, registered, interest, data, closer>>
  BY DEF IInv, Resumed, FiberAt, eventVars
<1>a. /\ m_state = "EXEC" /\ ~registered /\ ~In(IO, queue)
      /\ \A v \in Workers : run[v] = IO => v = w
  BY <1>0, RunningFacts
<1>b. 0 \in Turns /\ IO \in Tasks /\ 0 \in Tasks
  BY DEF Turns, Tasks
<1>c. timer[0] # "none" => cpc[0] # "start"
  BY <1>0 DEF SleepInv, Waiting
<1>1. CASE turn \in cancelled
  <2>1. /\ result' = "ETIMEDOUT" /\ fpc' = "returned" /\ m_state' = "TERM" /\ Leave(w)
        /\ UNCHANGED <<turn, timer, died>>
    BY <1>1 DEF Resumed, Return
  <2>2. /\ run' \in [Workers -> Tasks \cup {NoTask}]
        /\ \A v \in Workers, k \in Tasks : run'[v] = k => v # w /\ run[v] = k
    BY <1>0, <2>1, LeaveFacts
  <2>3. TypeOK'
    BY <1>0, <1>b, <2>1, <2>2 DEF TypeOK
  <2>4. PlaceInv'
    <3>1. \A v \in Workers : run'[v] # IO
      BY <1>a, <1>b, <2>2
    <3>2. QED BY <2>1, <3>1 DEF PlaceInv
  <2>5. TokenInv'
    BY <1>0, <1>a, <2>1 DEF TokenInv
  <2>6. SleepInv'
    BY <1>0, <1>b, <1>c, <2>1, <2>2 DEF SleepInv
  <2>7. AwaitInv'
    BY <2>1 DEF AwaitInv, Waiting
  <2>8. QED BY <2>3, <2>4, <2>5, <2>6, <2>7 DEF IInv
<1>2. CASE turn \notin cancelled /\ turn > 0 /\ timer[turn] = "expired"
  <2>1. died' = "erase" /\ UNCHANGED <<timer, fpc, turn, m_state, result, run>>
    BY <1>2 DEF Resumed
  <2>2. QED BY <1>0, <2>1, FrozenIInv DEF TypeOK
<1>3. CASE turn \notin cancelled /\ ~(turn > 0 /\ timer[turn] = "expired")
  <2>1. /\ turn < MaxTurns
        /\ timer' = [timer EXCEPT ![turn] = IF @ = "armed" THEN "cancelled" ELSE @]
        /\ fpc' = "try"
        /\ turn' = turn + 1
        /\ UNCHANGED <<m_state, result, run, died>>
    BY <1>3 DEF Resumed
  <2>2. turn' \in Turns /\ turn' > 0 /\ turn \in Turns
    BY <1>0, <2>1 DEF TypeOK, Turns
  <2>3. /\ timer' \in [Turns -> {"none", "armed", "expired", "cancelled"}]
        /\ timer'[0] # "none" <=> timer[0] # "none"
    BY <1>0, <1>b, <2>1, <2>2 DEF TypeOK
  <2>4. TypeOK'
    BY <1>0, <2>1, <2>2, <2>3 DEF TypeOK
  <2>5. PlaceInv'
    BY <1>0, <1>a, <2>1, <2>2 DEF PlaceInv
  <2>6. TokenInv'
    BY <1>0, <1>a, <2>1 DEF TokenInv
  <2>7. SleepInv'
    BY <1>0, <1>c, <2>1, <2>3 DEF SleepInv
  <2>8. AwaitInv'
    BY <2>1 DEF AwaitInv, Waiting
  <2>9. QED BY <2>4, <2>5, <2>6, <2>7, <2>8 DEF IInv
<1>4. QED BY <1>1, <1>2, <1>3

-----------------------------------------------------------------------------
(***************************************************************************)
(* The callbacks of the timers.                                            *)
(***************************************************************************)
LEMMA WakeSleeperIInv ==
  ASSUME IInv, NEW w \in Workers, WakeSleeper(w)
  PROVE  IInv'
<1> USE HookAssumption
<1>0. /\ TypeOK /\ PlaceInv /\ TokenInv /\ SleepInv /\ AwaitInv
      /\ run[w] = 0 /\ cpc[0] = "start"
      /\ queue' = Append(queue, IO)
      /\ cpc' = [cpc EXCEPT ![0] = "end"]
      /\ Leave(w)
      /\ UNCHANGED <<m_state, fpc, turn, result, timer, cancelled, registered, interest,
                     data, closer, died>>
  BY DEF IInv, WakeSleeper, CallbackAt, CallbackGoto, Schedule, fiberVars, eventVars
<1>a. 0 \in Turns /\ IO \in Tasks /\ 0 \in Tasks /\ IO # 0
  BY DEF Turns, Tasks
<1>b. /\ run' \in [Workers -> Tasks \cup {NoTask}]
      /\ \A v \in Workers, k \in Tasks : run'[v] = k => v # w /\ run[v] = k
  BY <1>0, LeaveFacts
<1>c. fpc \in Waiting /\ turn = 0 /\ ~In(IO, queue) /\ ~registered
  BY <1>0 DEF SleepInv, TokenInv
<1>d. /\ queue' \in Seq(Tasks)
      /\ \A j : In(j, queue') <=> In(j, queue) \/ j = IO
      /\ Single(IO, queue')
  BY <1>0, <1>a, <1>c, AppendFacts DEF TypeOK, TokenInv
<1>e. cpc' \in [Turns -> {"start", "locked", "assert", "ctl", "trigger", "end"}]
      /\ cpc'[0] = "end"
  BY <1>0, <1>a DEF TypeOK
<1>1. TypeOK'
  BY <1>0, <1>a, <1>b, <1>d, <1>e DEF TypeOK
<1>2. PlaceInv'
  BY <1>0, <1>a, <1>b DEF PlaceInv
<1>3. TokenInv'
  BY <1>0, <1>c, <1>d DEF TokenInv
<1>4. SleepInv'
  BY <1>0, <1>a, <1>b, <1>d, <1>e DEF SleepInv
<1>5. AwaitInv'
  BY <1>d DEF AwaitInv
<1>6. QED BY <1>1, <1>2, <1>3, <1>4, <1>5 DEF IInv

\* Past its first step a callback is one of do_io.
LEMMA CallbackTurn ==
  ASSUME SleepInv, NEW w \in Workers, NEW n \in Turns, NEW where,
         CallbackAt(w, n, where), where \in {"locked", "assert", "ctl", "trigger"}
  PROVE  n # 0
BY DEF SleepInv, CallbackAt

\* Up to the assertion a callback of do_io only moves on, or gives up.
LEMMA CallbackMoves ==
  ASSUME IInv, NEW w \in Workers, NEW n \in Turns \ {0}, NEW to,
         to \in {"locked", "assert", "ctl", "end"},
         run[w] = n, cpc[n] # "trigger", CallbackGoto(n, to),
         run' = run \/ Leave(w),
         cancelled' \subseteq Turns,
         UNCHANGED <<queue, m_state, fpc, turn, result, timer, registered, interest,
                     data, closer, died>>
  PROVE  IInv'
<1> USE HookAssumption
<1>0. /\ TypeOK /\ PlaceInv /\ TokenInv /\ SleepInv /\ AwaitInv
      /\ cpc' = [cpc EXCEPT ![n] = to]
  BY DEF IInv, CallbackGoto
<1>a. n # IO /\ IO \in Tasks /\ 0 \in Tasks /\ 0 \in Turns
  BY DEF Tasks, Turns
<1>b. /\ run' \in [Workers -> Tasks \cup {NoTask}]
      /\ \A v \in Workers, k \in Tasks : run'[v] = k => run[v] = k
      /\ \A v \in Workers : v # w => run'[v] = run[v]
  BY <1>0, LeaveFacts DEF TypeOK
<1>c. /\ cpc' \in [Turns -> {"start", "locked", "assert", "ctl", "trigger", "end"}]
      /\ cpc'[0] = cpc[0]
      /\ \A k \in Turns \ {0} : cpc[k] = "trigger" => cpc'[k] = "trigger"
  BY <1>0, <1>a DEF TypeOK
<1>1. TypeOK'
  BY <1>0, <1>a, <1>b, <1>c DEF TypeOK
<1>2. PlaceInv'
  BY <1>0, <1>a, <1>b DEF PlaceInv
<1>3. TokenInv'
  BY <1>0 DEF TokenInv
<1>4. SleepInv'
  BY <1>0, <1>a, <1>b, <1>c DEF SleepInv
<1>5. AwaitInv'
  <2>1. Triggering => Triggering'
    <3>1. CASE run' = run
      BY <3>1, <1>c DEF Triggering, CallbackAt
    <3>2. CASE Leave(w)
      BY <3>2, <1>0, <1>c, LeaveKeepsTriggering
    <3>3. QED BY <3>1, <3>2
  <2>2. SleepRuns => SleepRuns'
    <3>1. \A v \in Workers : run[v] = 0 => v # w /\ run'[v] = 0
      BY <1>b
    <3>2. QED BY <3>1 DEF SleepRuns
  <2>3. QED BY <1>0, <2>1, <2>2 DEF AwaitInv
<1>6. QED BY <1>1, <1>2, <1>3, <1>4, <1>5 DEF IInv

LEMMA LockInfoIInv ==
  ASSUME IInv, NEW w \in Workers, NEW n \in Turns, LockInfo(w, n)
  PROVE  IInv'
<1>1. /\ n # 0 /\ run[w] = n /\ cpc[n] # "trigger"
      /\ UNCHANGED <<queue, m_state, fpc, turn, result, timer, cancelled, registered,
                     interest, data, closer, died>>
  BY HookAssumption DEF LockInfo, CallbackAt, fiberVars, eventVars, Turns
<1>2. \/ CallbackGoto(n, "locked") /\ run' = run
      \/ CallbackGoto(n, "end") /\ Leave(w)
  BY DEF LockInfo
<1>3. cancelled' \subseteq Turns
  BY <1>1 DEF IInv, TypeOK
<1>4. QED BY <1>1, <1>2, <1>3, CallbackMoves

LEMMA SetCancelledIInv ==
  ASSUME IInv, NEW w \in Workers, NEW n \in Turns, SetCancelled(w, n)
  PROVE  IInv'
<1>1. /\ run[w] = n /\ cpc[n] # "trigger" /\ CallbackGoto(n, "assert")
      /\ UNCHANGED <<queue, run, m_state, fpc, turn, result, timer, registered,
                     interest, data, closer, died>>
  BY DEF SetCancelled, CallbackAt, fiberVars, eventVars
<1>2. n # 0
  BY CallbackTurn DEF IInv, SetCancelled
<1>3. cancelled' \subseteq Turns
  BY DEF SetCancelled, IInv, TypeOK
<1>4. QED BY <1>1, <1>2, <1>3, CallbackMoves

LEMMA CancelAssertIInv ==
  ASSUME IInv, NEW w \in Workers, NEW n \in Turns, CancelAssert(w, n)
  PROVE  IInv'
<1>1. CASE ~registered
  BY <1>1, DieIInv DEF CancelAssert
<1>2. CASE registered
  <2>1. /\ run[w] = n /\ cpc[n] # "trigger" /\ CallbackGoto(n, "ctl")
        /\ UNCHANGED <<queue, run, m_state, fpc, turn, result, timer, cancelled, registered,
                       interest, data, closer, died>>
    BY <1>2 DEF CancelAssert, CallbackAt, fiberVars, eventVars
  <2>2. n # 0
    BY CallbackTurn DEF IInv, CancelAssert
  <2>3. cancelled' \subseteq Turns
    BY <2>1 DEF IInv, TypeOK
  <2>4. QED BY <2>1, <2>2, <2>3, CallbackMoves
<1>3. QED BY <1>1, <1>2

LEMMA CancelCtlIInv ==
  ASSUME IInv, NEW w \in Workers, NEW n \in Turns, CancelCtl(w, n)
  PROVE  IInv'
<1> USE HookAssumption
<1>0. TypeOK /\ PlaceInv /\ TokenInv /\ SleepInv /\ AwaitInv
  BY DEF IInv
<1>1. CASE ~interest
  BY <1>1, DieIInv DEF CancelCtl
<1>2. CASE interest
  <2>1. /\ interest' = FALSE
        /\ run[w] = n
        /\ cpc' = [cpc EXCEPT ![n] = "trigger"]
        /\ UNCHANGED <<queue, run, m_state, fpc, turn, result, timer, cancelled, registered,
                       data, closer, died>>
    BY <1>2 DEF CancelCtl, CallbackAt, CallbackGoto, fiberVars
  <2>2. n # 0 /\ 0 \in Turns
    BY <1>0, CallbackTurn DEF CancelCtl, Turns
  <2>3. /\ cpc' \in [Turns -> {"start", "locked", "assert", "ctl", "trigger", "end"}]
        /\ cpc'[0] = cpc[0] /\ cpc'[n] = "trigger"
    BY <1>0, <2>1, <2>2 DEF TypeOK
  <2>a. interest' \in BOOLEAN
    BY <2>1
  <2>4. TypeOK'
    BY <1>0, <2>1, <2>3, <2>a DEF TypeOK
  <2>5. PlaceInv'
    BY <1>0, <2>1 DEF PlaceInv
  <2>6. TokenInv'
    BY <1>0, <2>1 DEF TokenInv
  <2>7. SleepInv'
    BY <1>0, <2>1, <2>3 DEF SleepInv
  <2>8. AwaitInv'
    <3>1. Triggering'
      BY <2>1, <2>2, <2>3 DEF Triggering, CallbackAt
    <3>2. QED BY <3>1 DEF AwaitInv
  <2>9. QED BY <2>4, <2>5, <2>6, <2>7, <2>8 DEF IInv
<1>3. QED BY <1>1, <1>2

LEMMA CancelTriggerIInv ==
  ASSUME IInv, NEW w \in Workers, NEW n \in Turns, CancelTrigger(w, n)
  PROVE  IInv'
<1> USE HookAssumption
<1>0. TypeOK /\ PlaceInv /\ TokenInv /\ SleepInv /\ AwaitInv
  BY DEF IInv
<1>1. CASE ~registered
  BY <1>1, DieIInv DEF CancelTrigger
<1>2. CASE registered
  <2>1. /\ registered' = FALSE
        /\ queue' = Append(queue, IO)
        /\ cpc' = [cpc EXCEPT ![n] = "end"]
        /\ Leave(w)
        /\ UNCHANGED <<m_state, fpc, turn, result, timer, cancelled, interest, data,
                       closer, died>>
    BY <1>2 DEF CancelTrigger, CallbackGoto, Schedule, fiberVars
  <2>2. n # 0 /\ 0 \in Turns /\ IO \in Tasks /\ 0 \in Tasks /\ IO # 0
    BY <1>0, CallbackTurn DEF CancelTrigger, Turns, Tasks
  <2>3. /\ cpc' \in [Turns -> {"start", "locked", "assert", "ctl", "trigger", "end"}]
        /\ cpc'[0] = cpc[0]
    BY <1>0, <2>1, <2>2 DEF TypeOK
  <2>4. /\ queue' \in Seq(Tasks)
        /\ \A j : In(j, queue') <=> In(j, queue) \/ j = IO
        /\ Single(IO, queue')
        /\ fpc \in Waiting /\ turn > 0
    BY <1>0, <1>2, <2>1, ResumeFacts
  <2>5. /\ run' \in [Workers -> Tasks \cup {NoTask}]
        /\ \A v \in Workers, k \in Tasks : run'[v] = k => run[v] = k
    BY <1>0, <2>1, LeaveFacts
  <2>a. registered' \in BOOLEAN
    BY <2>1
  <2>b. turn # 0
    BY <2>4, <1>0 DEF TypeOK, Turns
  <2>6. TypeOK'
    BY <1>0, <2>1, <2>2, <2>3, <2>4, <2>5, <2>a DEF TypeOK
  <2>7. PlaceInv'
    BY <1>0, <2>1, <2>2, <2>5 DEF PlaceInv
  <2>8. TokenInv'
    BY <1>0, <2>1, <2>4 DEF TokenInv
  <2>9. SleepInv'
    BY <1>0, <2>1, <2>2, <2>3, <2>4, <2>5, <2>b DEF SleepInv
  <2>10. AwaitInv'
    BY <2>4 DEF AwaitInv
  <2>11. QED BY <2>6, <2>7, <2>8, <2>9, <2>10 DEF IInv
<1>3. QED BY <1>1, <1>2

-----------------------------------------------------------------------------
(***************************************************************************)
(* close() and its caller.                                                 *)
(***************************************************************************)
LEMMA CallCloseIInv ==
  ASSUME IInv, CallClose
  PROVE  IInv'
<1> USE HookAssumption
<1>0. /\ TypeOK /\ PlaceInv /\ TokenInv /\ SleepInv /\ AwaitInv
      /\ closer' = "start" /\ closer = "none"
      /\ queue' = Append(queue, Close)
      /\ UNCHANGED <<run, m_state, fpc, turn, result, timer, cpc, cancelled, registered,
                     interest, data, died>>
  BY DEF IInv, CallClose, Schedule, fiberVars, timerVars, eventVars
<1>a. Close \in Tasks /\ Close # IO /\ Close # 0
  BY DEF Tasks, Turns
<1>b. /\ queue' \in Seq(Tasks)
      /\ \A j : In(j, queue') <=> In(j, queue) \/ j = Close
      /\ Single(IO, queue')
  BY <1>0, <1>a, AppendFacts DEF TypeOK, TokenInv
<1>1. TypeOK'
  BY <1>0, <1>b DEF TypeOK
<1>2. PlaceInv'
  BY <1>0 DEF PlaceInv
<1>3. TokenInv'
  BY <1>0, <1>a, <1>b DEF TokenInv
<1>4. SleepInv'
  BY <1>0, <1>a, <1>b DEF SleepInv
<1>5. AwaitInv'
  BY <1>0, <1>b DEF AwaitInv, Triggering, CallbackAt, SleepRuns
<1>6. QED BY <1>1, <1>2, <1>3, <1>4, <1>5 DEF IInv

LEMMA CloseCancelAllIInv ==
  ASSUME IInv, NEW w \in Workers, CloseCancelAll(w)
  PROVE  IInv'
<1> USE HookAssumption
<1>0. TypeOK /\ PlaceInv /\ TokenInv /\ SleepInv /\ AwaitInv
  BY DEF IInv
<1>1. CASE registered /\ ~interest
  BY <1>1, DieIInv DEF CloseCancelAll
<1>2. CASE ~(registered /\ ~interest)
  <2>1. /\ IF registered THEN queue' = Append(queue, IO) ELSE queue' = queue
        /\ registered' = FALSE /\ interest' = FALSE
        /\ closer' = "close"
        /\ UNCHANGED <<run, m_state, fpc, turn, result, timer, cpc, cancelled, data, died>>
    BY <1>2 DEF CloseCancelAll, Schedule, fiberVars, timerVars
  <2>2. /\ queue' \in Seq(Tasks)
        /\ \A j : In(j, queue') <=> In(j, queue) \/ (registered /\ j = IO)
        /\ Single(IO, queue')
        /\ registered => fpc \in Waiting /\ turn # 0
    <3>1. CASE registered
      <4>1. queue' = Append(queue, IO)
        BY <3>1, <2>1
      <4>2. /\ queue' \in Seq(Tasks)
            /\ \A j : In(j, queue') <=> In(j, queue) \/ j = IO
            /\ Single(IO, queue')
            /\ fpc \in Waiting /\ turn > 0
        BY <3>1, <4>1, <1>0, ResumeFacts
      <4>3. QED BY <3>1, <4>2, <1>0 DEF TypeOK, Turns
    <3>2. CASE ~registered
      BY <3>2, <2>1, <1>0 DEF TypeOK, TokenInv
    <3>3. QED BY <3>1, <3>2
  <2>a. registered' \in BOOLEAN /\ interest' \in BOOLEAN
    BY <2>1
  <2>3. TypeOK'
    BY <1>0, <2>1, <2>2, <2>a DEF TypeOK
  <2>4. PlaceInv'
    BY <1>0, <2>1 DEF PlaceInv
  <2>5. TokenInv'
    BY <1>0, <2>1, <2>2 DEF TokenInv
  <2>6. SleepInv'
    BY <1>0, <2>1, <2>2 DEF SleepInv, Turns
  <2>7. AwaitInv'
    <3> SUFFICES ASSUME fpc \in Waiting, ~registered
                 PROVE  Triggering' \/ In(IO, queue)' \/ SleepRuns'
      BY <2>1, <2>2 DEF AwaitInv
    <3>1. closer = "start"
      BY DEF CloseCancelAll
    <3>2. Triggering \/ In(IO, queue) \/ SleepRuns
      BY <1>0, <3>1 DEF AwaitInv
    <3>3. queue' = queue
      BY <2>1
    <3>4. QED BY <3>2, <3>3, <2>1 DEF Triggering, CallbackAt, SleepRuns
  <2>8. QED BY <2>3, <2>4, <2>5, <2>6, <2>7 DEF IInv
<1>3. QED BY <1>1, <1>2

LEMMA CloseFdIInv ==
  ASSUME IInv, NEW w \in Workers, CloseFd(w)
  PROVE  IInv'
<1> USE HookAssumption
<1>0. /\ TypeOK /\ PlaceInv /\ TokenInv /\ SleepInv /\ AwaitInv
      /\ closer' = "closed" /\ interest' = FALSE /\ Leave(w)
      /\ UNCHANGED <<queue, m_state, fpc, turn, result, timer, cpc, cancelled, registered,
                     data, died>>
  BY DEF IInv, CloseFd, fiberVars, timerVars
<1>a. IO \in Tasks /\ 0 \in Tasks
  BY DEF Tasks, Turns
<1>b. /\ run' \in [Workers -> Tasks \cup {NoTask}]
      /\ \A v \in Workers, k \in Tasks : run'[v] = k => run[v] = k
  BY <1>0, LeaveFacts
<1>c. interest' \in BOOLEAN
  BY <1>0
<1>1. TypeOK'
  BY <1>0, <1>a, <1>b, <1>c DEF TypeOK
<1>2. PlaceInv'
  BY <1>0, <1>a, <1>b DEF PlaceInv
<1>3. TokenInv'
  BY <1>0 DEF TokenInv
<1>4. SleepInv'
  BY <1>0, <1>a, <1>b DEF SleepInv
<1>5. AwaitInv'
  BY <1>0 DEF AwaitInv
<1>6. QED BY <1>1, <1>2, <1>3, <1>4, <1>5 DEF IInv

LEMMA ArriveIInv ==
  ASSUME IInv, Arrive
  PROVE  IInv'
<1>1. data' \in BOOLEAN /\ died' = died
      /\ UNCHANGED <<queue, run, m_state, fpc, turn, timer, cpc, cancelled, registered,
                     interest, closer, result>>
  BY DEF Arrive, fiberVars, timerVars, eventVars
<1>2. QED BY <1>1, FrozenIInv DEF IInv, TypeOK

-----------------------------------------------------------------------------
(***************************************************************************)
(* The theorems.                                                           *)
(***************************************************************************)
LEMMA NextIInv ==
  ASSUME IInv, [Next]_vars
  PROVE  IInv'
<1>1. ASSUME NEW w \in Workers, WorkerStep(w) PROVE IInv'
  <2>1. CASE Take(w)
    BY <2>1, TakeIInv
  <2>2. ASSUME NEW n \in Turns, Expire(w, n) PROVE IInv'
    BY <2>2, ExpireIInv
  <2>3. CASE HandleEvent(w)
    BY <2>3, HandleEventIInv
  <2>4. CASE FiberStep(w)
    BY <2>4, SleepIInv, TryIInv, AddTimerIInv, AddEventIInv, YieldToHoldIInv, SwapOutIInv,
       ResumedIInv DEF FiberStep
  <2>5. CASE WakeSleeper(w)
    BY <2>5, WakeSleeperIInv
  <2>6. ASSUME NEW n \in Turns, CallbackStep(w, n) PROVE IInv'
    BY <2>6, LockInfoIInv, SetCancelledIInv, CancelAssertIInv, CancelCtlIInv,
       CancelTriggerIInv DEF CallbackStep
  <2>7. CASE CloseCancelAll(w)
    BY <2>7, CloseCancelAllIInv
  <2>8. CASE CloseFd(w)
    BY <2>8, CloseFdIInv
  <2>9. QED BY <1>1, <2>1, <2>2, <2>3, <2>4, <2>5, <2>6, <2>7, <2>8 DEF WorkerStep
<1>2. QED BY <1>1, ArriveIInv, CallCloseIInv, StutterIInv DEF Next

LEMMA Invariance == Spec => []IInv
BY InitIInv, NextIInv, PTL DEF Spec

\* The fields of the hooked call keep their types, and no two workers execute
\* the fiber at one time.
THEOREM TypeCorrect == Spec => []TypeOK
<1>1. IInv => TypeOK
  BY DEF IInv
<1>2. QED BY <1>1, Invariance, PTL

\* triggerEvent from idle(), from the timeout's cancelEvent and from close(),
\* and the callback of sleep, put the suspended fiber into the queue only once.
THEOREM OneResumption == Spec => []ResumedOnce
<1>1. ASSUME IInv PROVE ResumedOnce
  <2>1. \A i, j \in Queued(IO) : i = j
    BY <1>1 DEF IInv, TokenInv, Single, Queued
  <2>2. CASE Queued(IO) = {}
    BY <2>2, FS_EmptySet DEF ResumedOnce
  <2>3. ASSUME NEW i \in Queued(IO) PROVE ResumedOnce
    <3>1. Queued(IO) = {i}
      BY <2>1, <2>3
    <3>2. Cardinality({i}) = 1
      BY FS_Singleton
    <3>3. QED BY <3>1, <3>2 DEF ResumedOnce
  <2>4. QED BY <2>2, <2>3
<1>2. QED BY <1>1, Invariance, PTL

\* A fiber suspended by sleep or do_io is watched, being cancelled, queued, or
\* has the timer of its sleep, as long as its descriptor is not closed.
THEOREM NoLostFiber == Spec => []HeldIsAwaited
<1>1. ASSUME IInv PROVE HeldIsAwaited
  <2>1. \A k : In(k, queue) => Queued(k) # {}
    BY DEF In, Queued
  <2>2. fpc = "held" /\ closer # "closed" =>
          (registered /\ interest) \/ Triggering \/ In(IO, queue) \/ SleepRuns
    BY <1>1 DEF IInv, AwaitInv, Waiting
  <2>3. QED BY <2>1, <2>2 DEF HeldIsAwaited, Triggering, SleepRuns
<1>2. QED BY <1>1, Invariance, PTL

\* The assertion of addEvent: the event is not registered yet.
AddAssertion == died # "duplicate"

\* addEvent of a loop of do_io never finds the event of an earlier one still
\* registered: its assertion ~(events & event) holds.
THEOREM NoDuplicateEvent == Spec => []AddAssertion
<1>1. Init => AddAssertion
  BY DEF Init, AddAssertion
<1>2. ASSUME IInv, AddAssertion, [Next]_vars PROVE AddAssertion'
  <2> USE DEF AddAssertion
  <2>1. ASSUME NEW w \in Workers, AddEvent(w) PROVE AddAssertion'
    <3>1. ~registered
      BY <1>2, <2>1, RunningFacts DEF AddEvent, FiberAt
    <3>2. QED BY <1>2, <2>1, <3>1 DEF AddEvent, Die
  <2>2. ASSUME NEW w \in Workers, WorkerStep(w), ~AddEvent(w)
        PROVE  AddAssertion'
    <3>1. CASE Take(w)
      BY <3>1, <1>2 DEF Take
    <3>2. CASE HandleEvent(w)
      BY <3>2, <1>2 DEF HandleEvent, Die
    <3>3. CASE FiberStep(w)
      BY <3>3, <1>2, <2>2 DEF FiberStep, Sleep, Try, AddTimer, YieldToHold, SwapOut, Resumed
    <3>4. ASSUME NEW n \in Turns, CallbackStep(w, n) PROVE AddAssertion'
      BY <3>4, <1>2 DEF CallbackStep, LockInfo, SetCancelled, CancelAssert, CancelCtl,
         CancelTrigger, Die
    <3>5. CASE CloseCancelAll(w) \/ CloseFd(w) \/ WakeSleeper(w)
      BY <3>5, <1>2 DEF CloseCancelAll, CloseFd, WakeSleeper, Die
    <3>6. ASSUME NEW n \in Turns, Expire(w, n) PROVE AddAssertion'
      BY <3>6, <1>2 DEF Expire
    <3>7. QED BY <2>2, <3>1, <3>2, <3>3, <3>4, <3>5, <3>6 DEF WorkerStep
  <2>3. QED BY <1>2, <2>1, <2>2 DEF Next, Arrive, CallClose, vars
<1>3. QED BY <1>1, <1>2, Invariance, PTL DEF Spec
=============================================================================
