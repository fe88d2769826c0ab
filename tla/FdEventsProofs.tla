--------------------------- MODULE FdEventsProofs ---------------------------
(***************************************************************************)
(* Proofs about FdEvents, for any set of descriptors, events and threads:  *)
(* with a SafeUse no assertion about FdContexts fails, and the five views  *)
(* of a registration agree between the operations.                         *)
(***************************************************************************)
EXTENDS FdEvents, FiniteSetTheorems, TLAPS

AddPC == {"grow", "register"}
UnlockedPC == {"del", "delend", "cancel", "cancelend"}

\* Between epoll_ctl and the end of delEvent or cancelEvent.
EndPC == {"delend", "cancelend"}

\* Every fd the vector reaches has one FdContext, the first.
TableInv ==
  /\ size >= InitialSize
  /\ made = [f \in Fds |-> IF f < size THEN 1 ELSE 0]

\* What a thread in the middle of an operation may rely on, although the fd was
\* unlocked since it looked.
PlaceInv ==
  \A t \in Threads :
    /\ t \notin usage.threads => pc[t] = "free"
    /\ pc[t] # "free" => \E f \in usage.fds : at[t].context = <<f, 1>>
    /\ pc[t] = "grow" => at[t].context[1] >= size
    /\ pc[t] \notin {"free", "grow"} => at[t].context[1] < size
    /\ pc[t] \in AddPC => at[t].event \in usage.events \ events[at[t].context]
    /\ pc[t] \in UnlockedPC =>
         /\ OneThread(usage)
         /\ at[t].event \in events[at[t].context]
         /\ newEvents[t] = events[at[t].context] \ {at[t].event}
    /\ pc[t] = "handle" =>
         /\ report[t] \subseteq usage.events \cup {ERR}
         /\ OneThread(usage) => report[t] \subseteq events[at[t].context] \cup {ERR}

\* No event is being registered twice.
AddInv ==
  \A t, u \in Threads : pc[t] \in AddPC /\ pc[u] \in AddPC /\ at[t] = at[u] => t = u

\* The views of a registration, also in the middle of an operation.
ViewInv ==
  /\ context = events
  /\ \A c \in Contexts : /\ events[c] \subseteq usage.events
                         /\ events[c] # {} => c[2] = 1 /\ c[1] < size
  /\ \A f \in Fds : (\A t \in Threads : pc[t] \in EndPC => at[t].context # <<f, 1>>)
                      => interest[f] = events[<<f, 1>>]
  /\ \A t \in Threads : pc[t] \in EndPC => interest[at[t].context[1]] = newEvents[t]
  /\ \A f \in Fds : interest[f] # {} => ptr[f] = <<f, 1>>

Registered == {x \in Contexts \X Events : x[2] \in events[x[1]]}

\* delEvent and cancelEvent discount the event before they remove it.
CountInv ==
  /\ IsFiniteSet(Registered)
  /\ (\A t \in Threads : pc[t] \notin EndPC) => m_pendingEventCount = Cardinality(Registered)
  /\ (\E t \in Threads : pc[t] \in EndPC) => m_pendingEventCount + 1 = Cardinality(Registered)

IInv ==
  /\ TypeOK
  /\ OneThread(usage) \/ Locked(usage)
  /\ TableInv
  /\ PlaceInv
  /\ AddInv
  /\ ViewInv
  /\ CountInv
  /\ NoFailure

-----------------------------------------------------------------------------
(***************************************************************************)
(* The registered events as one set.                                       *)
(***************************************************************************)
LEMMA RegisteredAdd ==
  ASSUME TypeOK, IsFiniteSet(Registered), NEW c \in Contexts, NEW e \in Events,
         e \notin events[c], events' = [events EXCEPT ![c] = @ \cup {e}]
  PROVE  IsFiniteSet(Registered') /\ Cardinality(Registered') = Cardinality(Registered) + 1
<1>1. \A d \in Contexts : events'[d] = IF d = c THEN events[c] \cup {e} ELSE events[d]
  BY DEF TypeOK
<1>2. Registered' = Registered \cup {<<c, e>>}
  BY <1>1 DEF Registered
<1>3. <<c, e>> \notin Registered
  BY DEF Registered
<1>4. QED BY <1>2, <1>3, FS_AddElement

LEMMA RegisteredRemove ==
  ASSUME TypeOK, IsFiniteSet(Registered), NEW c \in Contexts, NEW S \in SUBSET events[c],
         events' = [events EXCEPT ![c] = @ \ S]
  PROVE  /\ IsFiniteSet(Registered') /\ Cardinality(Registered') \in Nat
         /\ Cardinality(S) \in Nat
         /\ Cardinality(Registered') + Cardinality(S) = Cardinality(Registered)
<1>1. \A d \in Contexts : events'[d] = IF d = c THEN events[c] \ S ELSE events[d]
  BY DEF TypeOK
<1>2. S \in SUBSET Events /\ IsFiniteSet(S) /\ Cardinality(S) \in Nat
  BY FS_Subset, FS_CardinalityType, FdAssumption DEF TypeOK
<1>3. Registered' = Registered \ ({c} \X S)
  BY <1>1 DEF Registered
<1>4. Registered \cap ({c} \X S) = {c} \X S
  BY <1>2 DEF Registered
<1>5. Cardinality({c} \X S) = Cardinality(S)
  <2>1. IsFiniteSet({c}) /\ Cardinality({c}) = 1
    BY FS_Singleton
  <2>2. Cardinality({c} \X S) = Cardinality({c}) * Cardinality(S)
    BY <1>2, <2>1, FS_Product
  <2>3. QED BY <1>2, <2>1, <2>2
<1>6. /\ IsFiniteSet(Registered \ ({c} \X S))
      /\ Cardinality(Registered \ ({c} \X S))
           = Cardinality(Registered) - Cardinality(Registered \cap ({c} \X S))
  BY FS_Difference
<1>7. Cardinality(Registered) \in Nat /\ Cardinality(Registered') \in Nat
  BY <1>3, <1>6, FS_CardinalityType
<1>8. /\ IsFiniteSet(Registered')
      /\ Cardinality(Registered') = Cardinality(Registered) - Cardinality(S)
  BY <1>3, <1>4, <1>5, <1>6, Zenon
<1>9. QED BY <1>2, <1>7, <1>8

-----------------------------------------------------------------------------
LEMMA FdInit ==
  ASSUME SafeUse, Init PROVE IInv
<1>0. usage \in Usages /\ (OneThread(usage) \/ Locked(usage))
  BY DEF Init, SafeUse
<1>1. TypeOK
  BY <1>0, FdAssumption DEF Init, TypeOK, Nowhere
<1>2. TableInv
  BY FdAssumption DEF Init, TableInv
<1>3. PlaceInv /\ AddInv
  BY DEF Init, PlaceInv, AddInv, AddPC, UnlockedPC
<1>4. ViewInv
  BY FdAssumption DEF Init, ViewInv, EndPC, Contexts
<1>5. CountInv
  <2>1. Registered = {}
    BY DEF Init, Registered
  <2>2. QED BY <2>1, FS_EmptySet DEF Init, CountInv, EndPC
<1>6. QED BY <1>0, <1>1, <1>2, <1>3, <1>4, <1>5 DEF IInv, Init, NoFailure

-----------------------------------------------------------------------------
(***************************************************************************)
(* Facts for the steps.                                                    *)
(***************************************************************************)

\* The usage of the program, and the FdContext of an fd it uses.
LEMMA UsageFacts ==
  ASSUME IInv
  PROVE  /\ usage.threads \subseteq Threads /\ usage.fds \subseteq Fds
         /\ usage.events \subseteq Events /\ Fds \subseteq Nat
         /\ InitialSize \in Nat /\ InitialSize >= 2 /\ size \in Nat /\ size >= InitialSize
         /\ ERR \notin Events /\ NoEvent \notin Events
         /\ \A f \in Fds : <<f, 1>> \in Contexts /\ <<f, 1>>[1] = f /\ <<f, 1>>[2] = 1
         /\ \A f \in Fds : f < size => FdContext(f) = <<f, 1>>
<1>1. usage \in Usages /\ size \in Nat /\ size >= InitialSize
  BY DEF IInv, TypeOK, TableInv
<1>2. usage \in [threads : SUBSET Threads, fds : SUBSET Fds, events : SUBSET Events,
                 operations : SUBSET {"addEvent", "delEvent", "cancelEvent", "cancelAll"}]
  BY <1>1, FdAssumption
<1>3. \A f \in Fds : f < size => made[f] = 1
  BY DEF IInv, TableInv
<1>4. QED BY <1>1, <1>2, <1>3, FdAssumption DEF Contexts, FdContext

\* A thread in an operation.
LEMMA BusyFacts ==
  ASSUME IInv, NEW t \in Threads, pc[t] # "free"
  PROVE  \E f \in usage.fds : /\ f \in Fds /\ at[t].context = <<f, 1>>
                              /\ at[t].context \in Contexts /\ at[t].context[1] = f
                              /\ t \in usage.threads
<1>1. t \in usage.threads /\ \E f \in usage.fds : at[t].context = <<f, 1>>
  BY DEF IInv, PlaceInv
<1>2. PICK f \in usage.fds : at[t].context = <<f, 1>>
  BY <1>1
<1>3. f \in Fds /\ <<f, 1>> \in Contexts /\ <<f, 1>>[1] = f
  BY UsageFacts
<1>4. QED BY <1>1, <1>2, <1>3

\* Where operations hold no lock there is one thread, so nobody else is busy.
LEMMA Alone ==
  ASSUME IInv, NEW t \in Threads, NEW u \in Threads, pc[t] # "free", pc[u] # "free",
         OneThread(usage)
  PROVE  t = u
BY BusyFacts DEF OneThread

LEMMA GrowAlone ==
  ASSUME IInv, NEW t \in Threads, NEW u \in Threads, pc[t] = "grow", pc[u] = "grow"
  PROVE  t = u
<1>1. PICK f \in usage.fds : f \in Fds /\ at[t].context = <<f, 1>> /\ at[t].context[1] = f
  BY BusyFacts
<1>2. PICK g \in usage.fds : g \in Fds /\ at[u].context = <<g, 1>> /\ at[u].context[1] = g
  BY BusyFacts
<1>3. CASE OneThread(usage)
  BY <1>3, Alone
<1>4. CASE Locked(usage)
  <2>1. f >= size /\ g >= size /\ at[t].event \in usage.events /\ at[u].event \in usage.events
    BY <1>1, <1>2 DEF IInv, PlaceInv, AddPC
  <2>2. f >= InitialSize /\ g >= InitialSize
    BY <2>1, UsageFacts
  <2>3. f = g /\ at[t].event = at[u].event
    BY <1>4, <2>1, <2>2 DEF Locked
  <2>4. at[t] = at[u]
    BY <1>1, <1>2, <2>3 DEF IInv, TypeOK
  <2>5. QED BY <2>4 DEF IInv, AddInv, AddPC
<1>5. QED BY <1>3, <1>4 DEF IInv

\* While a thread does something else none is in delEvent or cancelEvent.
LEMMA NoneUnlocked ==
  ASSUME IInv, NEW t \in usage.threads, pc[t] \notin UnlockedPC
  PROVE  \A u \in Threads : pc[u] \notin UnlockedPC /\ pc[u] \notin EndPC
<1> SUFFICES ASSUME NEW u \in Threads, pc[u] \in UnlockedPC PROVE FALSE
  BY DEF UnlockedPC, EndPC
<1>1. OneThread(usage) /\ u \in usage.threads
  BY DEF IInv, PlaceInv, UnlockedPC
<1>2. u = t
  BY <1>1 DEF OneThread
<1>3. QED BY <1>2

\* Then epoll watches exactly the registered events.
LEMMA WatchFacts ==
  ASSUME IInv, NEW t \in usage.threads, pc[t] \notin UnlockedPC, NEW f \in Fds
  PROVE  /\ interest[f] = events[<<f, 1>>] /\ context[<<f, 1>>] = events[<<f, 1>>]
         /\ interest[f] \subseteq usage.events
         /\ interest[f] # {} => ptr[f] = <<f, 1>> /\ f < size
<1>1. \A u \in Threads : pc[u] \notin EndPC
  BY NoneUnlocked
<1>2. <<f, 1>> \in Contexts /\ <<f, 1>>[1] = f
  BY UsageFacts
<1>3. interest[f] = events[<<f, 1>>]
  BY <1>1 DEF IInv, ViewInv
<1>4. QED BY <1>2, <1>3 DEF IInv, ViewInv

\* epoll_ctl fails for MOD and DEL if the fd is not watched, for ADD if it is.
LEMMA CtlMeans ==
  ASSUME NEW f, NEW A
  PROVE  /\ CtlFails(f, FALSE) <=> interest[f] = {}
         /\ interest[f] = A => ~CtlFails(f, A = {})
<1>1. CtlFails(f, FALSE) <=> interest[f] = {}
  BY Zenon DEF CtlFails
<1>2. ASSUME interest[f] = A PROVE ~CtlFails(f, A = {})
  BY <1>2, Zenon DEF CtlFails
<1>3. QED BY <1>1, <1>2

\* Steps that change neither the registrations nor the vector.
LEMMA FdMove ==
  ASSUME IInv, UNCHANGED <<tableVars, fdVars>>,
         \A t \in Threads : (pc'[t] \in EndPC \/ pc[t] \in EndPC)
           => pc'[t] = pc[t] /\ at'[t] = at[t] /\ newEvents'[t] = newEvents[t]
  PROVE  TableInv' /\ ViewInv' /\ CountInv'
<1>1. UNCHANGED <<usage, size, made, events, context, interest, ptr, m_pendingEventCount>>
  BY DEF tableVars, fdVars
<1>2. TableInv'
  BY <1>1 DEF IInv, TableInv
<1>3. ViewInv'
  BY <1>1 DEF IInv, ViewInv
<1>4. CountInv'
  <2>1. Registered' = Registered
    BY <1>1 DEF Registered
  <2>2. QED BY <1>1, <2>1 DEF IInv, CountInv
<1>5. QED BY <1>2, <1>3, <1>4

-----------------------------------------------------------------------------
(***************************************************************************)
(* The steps.                                                              *)
(***************************************************************************)
LEMMA FdAdd ==
  ASSUME IInv, NEW t \in usage.threads, NEW f \in usage.fds, NEW e \in usage.events,
         AddEvent(t, f, e)
  PROVE  IInv'
<1>0. /\ t \in Threads /\ f \in Fds /\ e \in Events /\ <<f, 1>> \in Contexts /\ <<f, 1>>[1] = f
      /\ f \in Nat /\ size \in Nat /\ (f < size => FdContext(f) = <<f, 1>>)
  BY UsageFacts
<1> DEFINE place == [context |-> <<f, 1>>, event |-> e]
<1>1. PICK p \in AddPC :
        /\ pc' = [pc EXCEPT ![t] = p]
        /\ at' = [at EXCEPT ![t] = place]
        /\ p = "grow" => f >= size
        /\ p = "register" => f < size
  BY <1>0 DEF AddEvent, Move, AddPC
<1>2. /\ pc[t] = "free" /\ ~Awaited(f, e)
      /\ \A u \in Threads :
           ~(pc[u] \in AddPC /\ at[u].context[1] = f /\ at[u].event = e)
      /\ UNCHANGED <<tableVars, fdVars, newEvents, report, died>>
  BY DEF AddEvent, AddPC
<1>3. UNCHANGED <<usage, size, made, events, context, interest, ptr, m_pendingEventCount>>
  BY <1>2 DEF tableVars, fdVars
<1>4. place \in [context : Contexts \cup {NoContext}, event : Events \cup {NoEvent}]
  BY <1>0
<1>5. TypeOK'
  BY <1>0, <1>1, <1>2, <1>3, <1>4 DEF IInv, TypeOK, AddPC
<1>6. /\ \A u \in Threads : pc'[u] = IF u = t THEN p ELSE pc[u]
      /\ \A u \in Threads : at'[u] = IF u = t THEN place ELSE at[u]
  BY <1>1 DEF IInv, TypeOK
<1>7. e \notin events[<<f, 1>>]
  BY <1>0, <1>2 DEF Awaited, IInv, ViewInv
<1>8. place.context = <<f, 1>> /\ place.event = e
  OBVIOUS
<1> HIDE DEF place
<1>9. PlaceInv'
  <2>1. ASSUME NEW u \in Threads, u # t PROVE PlaceInv!(u)'
    BY <2>1, <1>2, <1>3, <1>6 DEF IInv, PlaceInv
  <2>2. PlaceInv!(t)'
    BY <1>0, <1>1, <1>2, <1>3, <1>6, <1>7, <1>8 DEF AddPC, UnlockedPC
  <2>3. QED BY <1>0, <2>1, <2>2 DEF PlaceInv
<1>10. AddInv'
  BY <1>0, <1>2, <1>6, <1>8 DEF IInv, AddInv
<1>11. TableInv' /\ ViewInv' /\ CountInv'
  BY <1>1, <1>2, <1>6, FdMove DEF AddPC, EndPC
<1>12. QED BY <1>2, <1>3, <1>5, <1>9, <1>10, <1>11 DEF IInv, NoFailure, OneThread, Locked

LEMMA FdWait ==
  ASSUME IInv, NEW t \in usage.threads, NEW f \in usage.fds, EpollWait(t, f)
  PROVE  IInv'
<1>0. t \in Threads /\ f \in Fds /\ <<f, 1>> \in Contexts /\ <<f, 1>>[1] = f
      /\ usage.events \subseteq Events
  BY UsageFacts
<1>1. PICK r \in SUBSET (interest[f] \cup {ERR}) : report' = [report EXCEPT ![t] = r]
  BY DEF EpollWait
<1> DEFINE place == [context |-> ptr[f], event |-> NoEvent]
<1>2. /\ pc[t] = "free" /\ interest[f] # {}
      /\ pc' = [pc EXCEPT ![t] = "handle"] /\ at' = [at EXCEPT ![t] = place]
      /\ UNCHANGED <<tableVars, fdVars, newEvents, died>>
  BY DEF EpollWait, Move
<1>3. UNCHANGED <<usage, size, made, events, context, interest, ptr, m_pendingEventCount>>
  BY <1>2 DEF tableVars, fdVars
<1>4. /\ interest[f] = events[<<f, 1>>] /\ interest[f] \subseteq usage.events
      /\ ptr[f] = <<f, 1>> /\ f < size
  BY <1>0, <1>2, WatchFacts DEF UnlockedPC
<1>5. place \in [context : Contexts \cup {NoContext}, event : Events \cup {NoEvent}]
      /\ place.context = <<f, 1>>
  BY <1>0, <1>4
<1> HIDE DEF place
<1>6. /\ \A u \in Threads : pc'[u] = IF u = t THEN "handle" ELSE pc[u]
      /\ \A u \in Threads : at'[u] = IF u = t THEN place ELSE at[u]
      /\ \A u \in Threads : report'[u] = IF u = t THEN r ELSE report[u]
  BY <1>1, <1>2 DEF IInv, TypeOK
<1>7. r \subseteq usage.events \cup {ERR} /\ r \subseteq events[<<f, 1>>] \cup {ERR}
      /\ r \in SUBSET (Events \cup {ERR})
  BY <1>0, <1>4
<1>8. TypeOK'
  BY <1>0, <1>1, <1>2, <1>3, <1>5, <1>7 DEF IInv, TypeOK
<1>9. PlaceInv'
  <2>1. ASSUME NEW u \in Threads, u # t PROVE PlaceInv!(u)'
    BY <2>1, <1>2, <1>3, <1>6 DEF IInv, PlaceInv
  <2>2. PlaceInv!(t)'
    BY <1>0, <1>3, <1>4, <1>5, <1>6, <1>7 DEF AddPC, UnlockedPC
  <2>3. QED BY <1>0, <2>1, <2>2 DEF PlaceInv
<1>10. AddInv'
  BY <1>6 DEF IInv, AddInv, AddPC
<1>11. TableInv' /\ ViewInv' /\ CountInv'
  BY <1>2, <1>6, FdMove DEF EndPC
<1>12. QED BY <1>2, <1>3, <1>8, <1>9, <1>10, <1>11 DEF IInv, NoFailure, OneThread, Locked

\* contextResize(fd * 1.5) by the only thread that grows the vector.
LEMMA FdGrow ==
  ASSUME IInv, NEW t \in usage.threads, Grow(t)
  PROVE  IInv'
<1>0. t \in Threads /\ Fds \subseteq Nat /\ InitialSize \in Nat /\ InitialSize >= 2
      /\ size \in Nat /\ size >= InitialSize
  BY UsageFacts
<1>1. PICK f \in usage.fds : /\ f \in Fds /\ at[t].context = <<f, 1>>
                             /\ at[t].context \in Contexts /\ at[t].context[1] = f
  BY <1>0, BusyFacts DEF Grow
<1> DEFINE s == (f * 3) \div 2
           place == [at[t] EXCEPT !.context = <<f, made'[f]>>]
<1>2. /\ pc[t] = "grow" /\ size' = s
      /\ made' = [g \in Fds |-> IF g \in size..(s - 1) THEN made[g] + 1 ELSE made[g]]
      /\ pc' = [pc EXCEPT ![t] = "register"] /\ at' = [at EXCEPT ![t] = place]
      /\ UNCHANGED <<usage, fdVars, newEvents, report, died>>
  BY <1>1 DEF Grow, ContextResize, Move
<1>3. UNCHANGED <<events, context, interest, ptr, m_pendingEventCount>>
  BY <1>2 DEF fdVars
<1>4. f \in Nat /\ f >= size
  BY <1>0, <1>1, <1>2 DEF IInv, PlaceInv
<1>5. s \in Nat /\ s > f
  BY <1>0, <1>4
<1> HIDE DEF s
<1>6. \A g \in Fds : made'[g] = IF g < s THEN 1 ELSE 0
  <2> SUFFICES ASSUME NEW g \in Fds PROVE made'[g] = IF g < s THEN 1 ELSE 0
    OBVIOUS
  <2>1. made[g] = IF g < size THEN 1 ELSE 0
    BY DEF IInv, TableInv
  <2>2. g \in Nat /\ (g \in size..(s - 1) <=> size <= g /\ g < s)
    BY <1>0, <1>5
  <2>3. QED BY <1>0, <1>2, <1>4, <1>5, <2>1, <2>2
<1>7. made'[f] = 1
  BY <1>1, <1>5, <1>6
<1>8. at[t] \in [context : Contexts \cup {NoContext}, event : Events \cup {NoEvent}]
  BY <1>0 DEF IInv, TypeOK
<1>9. place = at[t]
  BY <1>1, <1>7, <1>8
<1> HIDE DEF place
<1>10. at' = at
  BY <1>2, <1>9 DEF IInv, TypeOK
<1>11. \A u \in Threads : pc'[u] = IF u = t THEN "register" ELSE pc[u]
  BY <1>2 DEF IInv, TypeOK
<1>12. TypeOK'
  <2>1. made' \in [Fds -> 0..MaxContexts]
    BY <1>2, <1>6, FdAssumption
  <2>2. QED BY <1>2, <1>3, <1>5, <1>10, <2>1 DEF IInv, TypeOK
<1>13. TableInv'
  <2>1. made' = [g \in Fds |-> IF g < size' THEN 1 ELSE 0]
    BY <1>2, <1>6
  <2>2. size' >= InitialSize
    BY <1>0, <1>2, <1>4, <1>5
  <2>3. QED BY <2>1, <2>2 DEF TableInv
<1>14. PlaceInv'
  <2>1. ASSUME NEW u \in Threads, u # t PROVE PlaceInv!(u)'
    <3>1. pc[u] # "grow"
      BY <1>0, <1>2, <2>1, GrowAlone
    <3>2. pc[u] # "free" => at[u].context[1] < s
      <4> HAVE pc[u] # "free"
      <4>1. PICK g \in usage.fds : g \in Fds /\ at[u].context[1] = g
        BY BusyFacts
      <4>2. g < size
        BY <3>1, <4>1 DEF IInv, PlaceInv
      <4>3. g \in Nat /\ g < s
        BY <1>0, <1>4, <1>5, <4>1, <4>2
      <4>4. QED BY <4>1, <4>3
    <3>3. QED BY <2>1, <3>1, <3>2, <1>2, <1>3, <1>10, <1>11 DEF IInv, PlaceInv
  <2>2. PlaceInv!(t)'
    BY <1>0, <1>1, <1>2, <1>3, <1>5, <1>10, <1>11 DEF IInv, PlaceInv, AddPC, UnlockedPC
  <2>3. QED BY <1>0, <2>1, <2>2 DEF PlaceInv
<1>15. AddInv'
  BY <1>2, <1>10, <1>11 DEF IInv, AddInv, AddPC
<1>16. ViewInv'
  <2>1. \A c \in Contexts : c[1] < size => c[1] < size'
    <3>1. \A c \in Contexts : c[1] \in Nat
      BY <1>0 DEF Contexts
    <3>2. QED BY <1>0, <1>2, <1>4, <1>5, <3>1
  <2>2. \A u \in Threads : /\ pc'[u] \in EndPC <=> pc[u] \in EndPC
                           /\ newEvents'[u] = newEvents[u]
    BY <1>2, <1>11 DEF EndPC
  <2>3. QED BY <1>2, <1>3, <1>10, <2>1, <2>2 DEF IInv, ViewInv
<1>17. CountInv'
  <2>1. Registered' = Registered
    BY <1>3 DEF Registered
  <2>2. \A u \in Threads : pc'[u] \in EndPC <=> pc[u] \in EndPC
    BY <1>2, <1>11 DEF EndPC
  <2>3. QED BY <1>3, <2>1, <2>2 DEF IInv, CountInv
<1>18. QED BY <1>2, <1>12, <1>13, <1>14, <1>15, <1>16, <1>17
          DEF IInv, NoFailure, OneThread, Locked

\* The registration finds the event unused and epoll in the state it expects.
LEMMA FdRegister ==
  ASSUME IInv, NEW t \in usage.threads, Register(t)
  PROVE  IInv'
<1>0. t \in Threads /\ pc[t] = "register"
  BY UsageFacts DEF Register
<1>1. PICK f \in usage.fds : /\ f \in Fds /\ at[t].context = <<f, 1>>
                             /\ at[t].context \in Contexts /\ at[t].context[1] = f
  BY <1>0, BusyFacts
<1> DEFINE c == <<f, 1>>
           e == at[t].event
<1>2. c \in Contexts /\ c[1] = f /\ c[2] = 1 /\ e \in usage.events /\ e \in Events /\ e \notin events[c]
      /\ f < size
  BY <1>0, <1>1, UsageFacts DEF IInv, PlaceInv, AddPC
<1>3. interest[f] = events[c] /\ context = events
  BY <1>0, <1>1, WatchFacts DEF UnlockedPC, IInv, ViewInv
<1>4. ~CtlFails(f, events[c] = {})
  BY <1>3, CtlMeans
<1>5. /\ Watch(c, events[c] \cup {e})
      /\ m_pendingEventCount' = m_pendingEventCount + 1
      /\ events' = [events EXCEPT ![c] = @ \cup {e}]
      /\ context' = [context EXCEPT ![c] = @ \cup {e}]
      /\ Move(t, "free", Nowhere)
      /\ UNCHANGED <<tableVars, newEvents, report, died>>
  BY <1>1, <1>2, <1>4 DEF Register
<1>6. \A u \in Threads : pc[u] \notin UnlockedPC /\ pc[u] \notin EndPC
  BY <1>0, NoneUnlocked DEF UnlockedPC
<1> HIDE DEF c
<1>7. /\ interest' = [interest EXCEPT ![f] = events[c] \cup {e}]
      /\ ptr' = [ptr EXCEPT ![f] = c]
      /\ pc' = [pc EXCEPT ![t] = "free"] /\ at' = [at EXCEPT ![t] = Nowhere]
      /\ UNCHANGED <<usage, size, made>>
  BY <1>2, <1>5 DEF Watch, Move, tableVars
<1>8. /\ \A u \in Threads : pc'[u] = IF u = t THEN "free" ELSE pc[u]
      /\ \A u \in Threads : u # t => at'[u] = at[u]
      /\ \A d \in Contexts : events'[d] = IF d = c THEN events[c] \cup {e} ELSE events[d]
      /\ \A g \in Fds : interest'[g] = IF g = f THEN events[c] \cup {e} ELSE interest[g]
      /\ \A g \in Fds : ptr'[g] = IF g = f THEN c ELSE ptr[g]
  BY <1>2, <1>5, <1>7 DEF IInv, TypeOK
<1>9. TypeOK'
  <2>1. Nowhere \in [context : Contexts \cup {NoContext}, event : Events \cup {NoEvent}]
    BY DEF Nowhere
  <2>2. events[c] \cup {e} \in SUBSET Events
    BY <1>2 DEF IInv, TypeOK
  <2>3. context[c] \cup {e} \in SUBSET Events
    BY <1>2 DEF IInv, TypeOK
  <2>4. events' \in [Contexts -> SUBSET Events] /\ context' \in [Contexts -> SUBSET Events]
    BY <1>2, <1>5, <2>2, <2>3 DEF IInv, TypeOK
  <2>5. interest' \in [Fds -> SUBSET Events] /\ ptr' \in [Fds -> Contexts \cup {NoContext}]
    BY <1>1, <1>2, <1>7, <2>2 DEF IInv, TypeOK
  <2>6. m_pendingEventCount' \in Nat
    BY <1>5 DEF IInv, TypeOK
  <2>7. /\ at' \in [Threads -> [context : Contexts \cup {NoContext}, event : Events \cup {NoEvent}]]
        /\ pc' \in [Threads -> {"free", "grow", "register", "handle", "del", "delend", "cancel",
                                "cancelend"}]
    BY <1>7, <2>1 DEF IInv, TypeOK
  <2>8. QED BY <1>5, <1>7, <2>4, <2>5, <2>6, <2>7 DEF IInv, TypeOK
<1>10. TableInv'
  BY <1>7 DEF IInv, TableInv
<1>11. PlaceInv'
  <2>1. ASSUME NEW u \in Threads, u # t PROVE PlaceInv!(u)'
    <3>1. /\ pc'[u] = pc[u] /\ at'[u] = at[u] /\ newEvents'[u] = newEvents[u]
          /\ report'[u] = report[u] /\ usage' = usage /\ size' = size
      BY <2>1, <1>5, <1>7, <1>8
    <3>2. pc[u] \in AddPC /\ at[u].context = c => at[u].event # e
      <4>1. at[t] \in [context : Contexts \cup {NoContext}, event : Events \cup {NoEvent}]
            /\ at[u] \in [context : Contexts \cup {NoContext}, event : Events \cup {NoEvent}]
        BY <1>0 DEF IInv, TypeOK
      <4>2. at[u].context = at[t].context /\ at[u].event = at[t].event => at[u] = at[t]
        BY <4>1
      <4>3. QED BY <1>0, <1>1, <2>1, <4>2 DEF IInv, AddInv, AddPC, c
    <3>3. pc[u] # "free" => at[u].context \in Contexts
      BY BusyFacts
    <3>4. pc[u] \in AddPC => at[u].event \notin events'[at[u].context]
      BY <3>2, <3>3, <1>8 DEF IInv, PlaceInv, AddPC
    <3>5. pc[u] = "handle" => events[at[u].context] \subseteq events'[at[u].context]
      BY <3>3, <1>8
    <3>6. QED BY <3>1, <3>4, <3>5, <1>6 DEF IInv, PlaceInv
  <2>2. PlaceInv!(t)'
    BY <1>0, <1>8 DEF AddPC, UnlockedPC
  <2>3. QED BY <1>0, <2>1, <2>2 DEF PlaceInv
<1>12. AddInv'
  BY <1>8 DEF IInv, AddInv, AddPC
<1>13. ViewInv'
  <2>1. context' = events'
    BY <1>3, <1>5
  <2>2. \A d \in Contexts : /\ events'[d] \subseteq usage'.events
                            /\ events'[d] # {} => d[2] = 1 /\ d[1] < size'
    BY <1>2, <1>7, <1>8 DEF IInv, ViewInv
  <2>3. \A g \in Fds : interest'[g] = events'[<<g, 1>>]
    <3>1. ASSUME NEW g \in Fds, g # f PROVE interest'[g] = events'[<<g, 1>>]
      <4>1. <<g, 1>> \in Contexts /\ <<g, 1>> # c
        BY <3>1, <1>2, UsageFacts
      <4>2. interest[g] = events[<<g, 1>>]
        BY <1>0, <3>1, WatchFacts DEF UnlockedPC
      <4>3. QED BY <3>1, <4>1, <4>2, <1>8
    <3>2. interest'[f] = events'[<<f, 1>>]
      BY <1>1, <1>2, <1>8 DEF c
    <3>3. QED BY <3>1, <3>2
  <2>4. \A u \in Threads : pc'[u] \notin EndPC
    BY <1>6, <1>8 DEF EndPC
  <2>5. \A g \in Fds : interest'[g] # {} => ptr'[g] = <<g, 1>>
    BY <1>8 DEF IInv, ViewInv, c
  <2>6. QED BY <2>1, <2>2, <2>3, <2>4, <2>5 DEF ViewInv
<1>14. CountInv'
  <2>1. IsFiniteSet(Registered') /\ Cardinality(Registered') = Cardinality(Registered) + 1
    BY <1>2, <1>5, RegisteredAdd DEF IInv, CountInv
  <2>2. m_pendingEventCount = Cardinality(Registered)
    BY <1>6 DEF IInv, CountInv
  <2>3. \A u \in Threads : pc'[u] \notin EndPC
    BY <1>6, <1>8 DEF EndPC
  <2>4. QED BY <1>5, <2>1, <2>2, <2>3 DEF CountInv
<1>15. QED BY <1>5, <1>7, <1>9, <1>10, <1>11, <1>12, <1>13, <1>14
          DEF IInv, NoFailure, OneThread, Locked

\* A thread that holds fdContext->mutex triggers the set S of registered events.
LEMMA FdRemove ==
  ASSUME IInv, NEW t \in usage.threads, pc[t] \notin UnlockedPC,
         NEW f \in usage.fds, NEW S \in SUBSET events[<<f, 1>>],
         Watch(<<f, 1>>, events[<<f, 1>>] \ S), Trigger(<<f, 1>>, S),
         m_pendingEventCount' = m_pendingEventCount - Cardinality(S),
         pc'[t] = "free", \A u \in Threads : u # t => pc'[u] = pc[u] /\ at'[u] = at[u]
                                                        /\ report'[u] = report[u],
         pc' \in [Threads -> {"free", "grow", "register", "handle", "del", "delend", "cancel",
                              "cancelend"}],
         at' \in [Threads -> [context : Contexts \cup {NoContext}, event : Events \cup {NoEvent}]],
         report' \in [Threads -> SUBSET (Events \cup {ERR})],
         UNCHANGED <<tableVars, newEvents, died>>
  PROVE  IInv'
<1> DEFINE c == <<f, 1>>
<1>0. t \in Threads /\ f \in Fds /\ c \in Contexts /\ c[1] = f /\ c[2] = 1
  BY UsageFacts
<1>1. interest[f] = events[c] /\ context = events /\ (interest[f] # {} => ptr[f] = c)
  BY <1>0, WatchFacts DEF IInv, ViewInv
<1>2. \A u \in Threads : pc[u] \notin UnlockedPC /\ pc[u] \notin EndPC
  BY NoneUnlocked
<1> HIDE DEF c
<1>3. /\ interest' = [interest EXCEPT ![f] = events[c] \ S]
      /\ ptr' = [ptr EXCEPT ![f] = IF events[c] \ S = {} THEN NoContext ELSE c]
      /\ events' = [events EXCEPT ![c] = @ \ S]
      /\ context' = [context EXCEPT ![c] = @ \ S]
      /\ UNCHANGED <<usage, size, made>>
  BY <1>0 DEF Watch, Trigger, tableVars, c
<1>4. /\ \A d \in Contexts : events'[d] = IF d = c THEN events[c] \ S ELSE events[d]
      /\ \A g \in Fds : interest'[g] = IF g = f THEN events[c] \ S ELSE interest[g]
      /\ \A g \in Fds : ptr'[g] = IF g = f THEN (IF events[c] \ S = {} THEN NoContext ELSE c)
                                           ELSE ptr[g]
  BY <1>0, <1>3 DEF IInv, TypeOK
<1>5. /\ IsFiniteSet(Registered') /\ Cardinality(Registered') \in Nat /\ Cardinality(S) \in Nat
      /\ Cardinality(Registered') + Cardinality(S) = Cardinality(Registered)
  BY <1>0, <1>3, RegisteredRemove DEF IInv, CountInv, c
<1>6. m_pendingEventCount = Cardinality(Registered)
  BY <1>2 DEF IInv, CountInv
<1>7. m_pendingEventCount' = Cardinality(Registered') /\ m_pendingEventCount' \in Nat
  BY <1>5, <1>6
<1>8. TypeOK'
  <2>1. events[c] \ S \in SUBSET Events /\ context[c] \ S \in SUBSET Events
    BY <1>0 DEF IInv, TypeOK
  <2>2. events' \in [Contexts -> SUBSET Events] /\ context' \in [Contexts -> SUBSET Events]
    BY <1>0, <1>3, <2>1 DEF IInv, TypeOK
  <2>3. interest' \in [Fds -> SUBSET Events] /\ ptr' \in [Fds -> Contexts \cup {NoContext}]
    BY <1>0, <1>3, <2>1 DEF IInv, TypeOK
  <2>4. QED BY <1>3, <1>7, <2>2, <2>3 DEF IInv, TypeOK
<1>9. TableInv'
  BY <1>3 DEF IInv, TableInv
<1>10. PlaceInv'
  <2>1. ASSUME NEW u \in Threads, u # t PROVE PlaceInv!(u)'
    <3>1. /\ pc'[u] = pc[u] /\ at'[u] = at[u] /\ newEvents'[u] = newEvents[u]
          /\ report'[u] = report[u] /\ usage' = usage /\ size' = size
      BY <2>1, <1>3
    <3>2. pc[u] # "free" => at[u].context \in Contexts /\ ~OneThread(usage)
      BY <2>1, BusyFacts DEF OneThread
    <3>3. pc[u] \in AddPC => events'[at[u].context] \subseteq events[at[u].context]
      BY <3>2, <1>4 DEF AddPC
    <3>4. OneThread(usage)' <=> OneThread(usage)
      BY <1>3 DEF OneThread
    <3>5. QED BY <3>1, <3>2, <3>3, <3>4, <1>2 DEF IInv, PlaceInv
  <2>2. PlaceInv!(t)'
    BY <1>0 DEF AddPC, UnlockedPC
  <2>3. QED BY <1>0, <2>1, <2>2 DEF PlaceInv
<1>11. AddInv'
  BY DEF IInv, AddInv, AddPC
<1>12. \A u \in Threads : pc'[u] \notin EndPC
  BY <1>2 DEF EndPC
<1>13. ViewInv'
  <2>1. context' = events'
    BY <1>1, <1>3
  <2>2. \A d \in Contexts : /\ events'[d] \subseteq usage'.events
                            /\ events'[d] # {} => d[2] = 1 /\ d[1] < size'
    BY <1>3, <1>4 DEF IInv, ViewInv
  <2>3. \A g \in Fds : interest'[g] = events'[<<g, 1>>]
    <3>1. ASSUME NEW g \in Fds, g # f PROVE interest'[g] = events'[<<g, 1>>]
      <4>1. <<g, 1>> \in Contexts /\ <<g, 1>> # c
        BY <3>1, <1>0, UsageFacts
      <4>2. interest[g] = events[<<g, 1>>]
        BY <3>1, WatchFacts
      <4>3. QED BY <3>1, <4>1, <4>2, <1>4
    <3>2. interest'[f] = events'[<<f, 1>>]
      BY <1>0, <1>4 DEF c
    <3>3. QED BY <3>1, <3>2
  <2>4. \A g \in Fds : interest'[g] # {} => ptr'[g] = <<g, 1>>
    BY <1>4 DEF IInv, ViewInv, c
  <2>5. QED BY <1>12, <2>1, <2>2, <2>3, <2>4 DEF ViewInv
<1>14. CountInv'
  BY <1>5, <1>7, <1>12 DEF CountInv
<1>15. QED BY <1>3, <1>8, <1>9, <1>10, <1>11, <1>13, <1>14 DEF IInv, NoFailure, OneThread, Locked

LEMMA FdCancelAll ==
  ASSUME IInv, NEW t \in usage.threads, NEW f \in usage.fds, CancelAll(t, f)
  PROVE  IInv'
<1>0. t \in Threads /\ f \in Fds /\ f \in Nat /\ size \in Nat /\ (f < size => FdContext(f) = <<f, 1>>)
      /\ <<f, 1>>[1] = f
  BY UsageFacts
<1>1. pc[t] = "free" /\ f < size /\ events[FdContext(f)] # {} /\ FdContext(f) = <<f, 1>>
  BY <1>0 DEF CancelAll
<1>2. interest[f] = events[<<f, 1>>] /\ context[<<f, 1>>] = events[<<f, 1>>]
  BY <1>0, <1>1, WatchFacts DEF UnlockedPC
<1>3. ~CtlFails(f, FALSE) /\ TriggerWorks(<<f, 1>>, events[<<f, 1>>])
  BY <1>1, <1>2, CtlMeans DEF TriggerWorks
<1>4. /\ Watch(<<f, 1>>, {}) /\ Trigger(<<f, 1>>, events[<<f, 1>>])
      /\ m_pendingEventCount' = m_pendingEventCount - Cardinality(events[<<f, 1>>])
      /\ UNCHANGED <<tableVars, pc, at, newEvents, report, died>>
  BY <1>1, <1>3 DEF CancelAll
<1>5. events[<<f, 1>>] \ events[<<f, 1>>] = {}
  OBVIOUS
<1>6. Watch(<<f, 1>>, events[<<f, 1>>] \ events[<<f, 1>>])
  BY <1>4, <1>5
<1>7. /\ pc' \in [Threads -> {"free", "grow", "register", "handle", "del", "delend", "cancel",
                              "cancelend"}]
      /\ at' \in [Threads -> [context : Contexts \cup {NoContext}, event : Events \cup {NoEvent}]]
      /\ report' \in [Threads -> SUBSET (Events \cup {ERR})]
  BY <1>4 DEF IInv, TypeOK
<1>8. QED BY <1>1, <1>4, <1>6, <1>7, FdRemove DEF UnlockedPC

\* A report may be old.  If it still meets a registered event, all it names is
\* registered: it names one event only, or nobody else was there to change it.
LEMMA FdHandle ==
  ASSUME IInv, NEW t \in usage.threads, HandleReport(t)
  PROVE  IInv'
<1>0. t \in Threads /\ pc[t] = "handle"
  BY UsageFacts DEF HandleReport
<1>1. PICK f \in usage.fds : /\ f \in Fds /\ at[t].context = <<f, 1>>
                             /\ at[t].context \in Contexts /\ at[t].context[1] = f
  BY <1>0, BusyFacts
<1> DEFINE c == <<f, 1>>
           real == RealEvents(t)
<1>2. interest[f] = events[c] /\ context[c] = events[c] /\ events[c] \subseteq usage.events
  BY <1>0, <1>1, WatchFacts DEF UnlockedPC
<1>3. Nowhere \in [context : Contexts \cup {NoContext}, event : Events \cup {NoEvent}]
  BY DEF Nowhere
<1>a. ASSUME pc' = [pc EXCEPT ![t] = "free"], at' = [at EXCEPT ![t] = Nowhere],
             report' = [report EXCEPT ![t] = {}]
      PROVE  /\ pc' \in [Threads -> {"free", "grow", "register", "handle", "del", "delend", "cancel",
                                     "cancelend"}]
             /\ at' \in [Threads -> [context : Contexts \cup {NoContext}, event : Events \cup {NoEvent}]]
             /\ report' \in [Threads -> SUBSET (Events \cup {ERR})]
             /\ pc'[t] = "free"
             /\ \A u \in Threads : u # t => pc'[u] = pc[u] /\ at'[u] = at[u] /\ report'[u] = report[u]
  BY <1>0, <1>3, <1>a DEF IInv, TypeOK
<1>4. CASE events[c] \cap real = {}
  <2>1. /\ report' = [report EXCEPT ![t] = {}] /\ Move(t, "free", Nowhere)
        /\ UNCHANGED <<tableVars, fdVars, newEvents, died>>
    BY <1>1, <1>4 DEF HandleReport
  <2>2. UNCHANGED <<usage, size, made, events, context, interest, ptr, m_pendingEventCount>>
    BY <2>1 DEF tableVars, fdVars
  <2>3. /\ pc' \in [Threads -> {"free", "grow", "register", "handle", "del", "delend", "cancel",
                                "cancelend"}]
        /\ at' \in [Threads -> [context : Contexts \cup {NoContext}, event : Events \cup {NoEvent}]]
        /\ report' \in [Threads -> SUBSET (Events \cup {ERR})]
        /\ pc'[t] = "free"
        /\ \A u \in Threads : u # t => pc'[u] = pc[u] /\ at'[u] = at[u] /\ report'[u] = report[u]
    BY <1>a, <2>1 DEF Move
  <2>4. TypeOK'
    BY <2>1, <2>2, <2>3 DEF IInv, TypeOK
  <2>5. PlaceInv'
    <3>1. ASSUME NEW u \in Threads, u # t PROVE PlaceInv!(u)'
      BY <3>1, <2>1, <2>2, <2>3 DEF IInv, PlaceInv
    <3>2. PlaceInv!(t)'
      BY <2>3, <1>0 DEF AddPC, UnlockedPC
    <3>3. QED BY <3>1, <3>2 DEF PlaceInv
  <2>6. AddInv'
    BY <2>3 DEF IInv, AddInv, AddPC
  <2>7. TableInv' /\ ViewInv' /\ CountInv'
    BY <1>0, <2>1, <2>3, FdMove DEF EndPC
  <2>8. QED BY <2>1, <2>2, <2>4, <2>5, <2>6, <2>7 DEF IInv, NoFailure, OneThread, Locked
<1>5. CASE events[c] \cap real # {}
  <2>1. /\ report[t] \subseteq usage.events \cup {ERR}
        /\ OneThread(usage) => report[t] \subseteq events[c] \cup {ERR}
    BY <1>0, <1>1 DEF IInv, PlaceInv
  <2>2. real = (report[t] \ {ERR}) \cup (IF ERR \in report[t] THEN events[c] ELSE {})
    BY <1>1 DEF RealEvents
  <2>3. real \subseteq events[c]
    <3>1. CASE OneThread(usage)
      BY <2>1, <2>2, <3>1
    <3>2. CASE Locked(usage)
      <4>1. \A d, e \in usage.events : d = e
        BY <3>2 DEF Locked
      <4>2. real \subseteq usage.events
        BY <1>2, <2>1, <2>2
      <4>3. QED BY <1>2, <1>5, <4>1, <4>2
    <3>3. QED BY <3>1, <3>2 DEF IInv
  <2>4. interest[f] # {}
    BY <1>2, <1>5
  <2>5. ~CtlFails(f, FALSE) /\ TriggerWorks(c, real)
    BY <1>2, <2>3, <2>4, CtlMeans DEF TriggerWorks
  <2>6. /\ Watch(c, events[c] \ real) /\ Trigger(c, real)
        /\ m_pendingEventCount' = m_pendingEventCount - Cardinality(real)
        /\ report' = [report EXCEPT ![t] = {}] /\ Move(t, "free", Nowhere)
        /\ UNCHANGED <<tableVars, newEvents, died>>
    BY <1>1, <1>5, <2>5 DEF HandleReport
  <2>7. /\ pc' \in [Threads -> {"free", "grow", "register", "handle", "del", "delend", "cancel",
                                "cancelend"}]
        /\ at' \in [Threads -> [context : Contexts \cup {NoContext}, event : Events \cup {NoEvent}]]
        /\ report' \in [Threads -> SUBSET (Events \cup {ERR})]
        /\ pc'[t] = "free"
        /\ \A u \in Threads : u # t => pc'[u] = pc[u] /\ at'[u] = at[u] /\ report'[u] = report[u]
    BY <1>a, <2>6 DEF Move
  <2> HIDE DEF real
  <2>8. QED BY <1>0, <2>3, <2>6, <2>7, FdRemove DEF UnlockedPC
<1>6. QED BY <1>4, <1>5


-----------------------------------------------------------------------------
(***************************************************************************)
(* delEvent and cancelEvent, which hold no lock: one thread.               *)
(***************************************************************************)
LEMMA FdUnlocked ==
  ASSUME IInv, NEW t \in usage.threads, NEW f \in usage.fds, NEW e \in usage.events,
         NEW op \in {"delEvent", "cancelEvent"}, NEW next \in {"del", "cancel"},
         Unlocked(t, f, e, op, next)
  PROVE  IInv'
<1> DEFINE c == <<f, 1>>
           place == [context |-> c, event |-> e]
<1>0. /\ t \in Threads /\ f \in Fds /\ e \in Events /\ c \in Contexts /\ c[1] = f
      /\ f \in Nat /\ size \in Nat /\ (f < size => FdContext(f) = c)
  BY UsageFacts
<1>1. pc[t] = "free" /\ op \in usage.operations /\ Awaited(f, e) /\ f < size /\ FdContext(f) = c
  BY <1>0 DEF Unlocked
<1>2. OneThread(usage)
  BY <1>1 DEF IInv, Locked
<1>3. e \in events[c]
  <2>1. PICK d \in Contexts : d[1] = f /\ e \in context[d]
    BY <1>1 DEF Awaited
  <2>2. e \in events[d] /\ d[2] = 1
    BY <2>1 DEF IInv, ViewInv
  <2>3. d = c
    BY <2>1, <2>2 DEF Contexts
  <2>4. QED BY <2>2, <2>3
<1>4. /\ newEvents' = [newEvents EXCEPT ![t] = events[c] \ {e}]
      /\ pc' = [pc EXCEPT ![t] = next] /\ at' = [at EXCEPT ![t] = place]
      /\ UNCHANGED <<tableVars, fdVars, report, died>>
  BY <1>1, <1>3 DEF Unlocked, Move
<1>5. UNCHANGED <<usage, size, made, events, context, interest, ptr, m_pendingEventCount>>
  BY <1>4 DEF tableVars, fdVars
<1>6. /\ place \in [context : Contexts \cup {NoContext}, event : Events \cup {NoEvent}]
      /\ place.context = c /\ place.event = e
  BY <1>0
<1> HIDE DEF place, c
<1>7. /\ \A u \in Threads : pc'[u] = IF u = t THEN next ELSE pc[u]
      /\ \A u \in Threads : at'[u] = IF u = t THEN place ELSE at[u]
      /\ \A u \in Threads : newEvents'[u] = IF u = t THEN events[c] \ {e} ELSE newEvents[u]
  BY <1>4 DEF IInv, TypeOK
<1>8. TypeOK'
  <2>1. events[c] \ {e} \in SUBSET Events
    BY <1>0 DEF IInv, TypeOK
  <2>2. newEvents' \in [Threads -> SUBSET Events]
    BY <1>4, <2>1 DEF IInv, TypeOK
  <2>3. QED BY <1>4, <1>5, <1>6, <2>2 DEF IInv, TypeOK
<1>9. PlaceInv'
  <2>1. ASSUME NEW u \in Threads, u # t PROVE PlaceInv!(u)'
    BY <2>1, <1>4, <1>5, <1>7 DEF IInv, PlaceInv, OneThread
  <2>2. OneThread(usage)'
    BY <1>2, <1>5 DEF OneThread
  <2>3. PlaceInv!(t)'
    BY <1>0, <1>1, <1>3, <1>5, <1>6, <1>7, <2>2 DEF AddPC, UnlockedPC, c
  <2>4. QED BY <1>0, <2>1, <2>3 DEF PlaceInv
<1>10. AddInv'
  BY <1>7 DEF IInv, AddInv, AddPC
<1>11. TableInv' /\ ViewInv' /\ CountInv'
  BY <1>1, <1>4, <1>7, FdMove DEF EndPC
<1>12. QED BY <1>4, <1>5, <1>8, <1>9, <1>10, <1>11 DEF IInv, NoFailure, OneThread, Locked

\* Where a thread in delEvent or cancelEvent is.
LEMMA UnlockedFacts ==
  ASSUME IInv, NEW t \in usage.threads, pc[t] \in UnlockedPC
  PROVE  /\ t \in Threads /\ OneThread(usage)
         /\ at[t].event \in events[at[t].context] /\ at[t].event \in Events
         /\ newEvents[t] = events[at[t].context] \ {at[t].event}
         /\ \E f \in Fds : at[t].context = <<f, 1>> /\ <<f, 1>>[1] = f /\ f < size
         /\ at[t].context \in Contexts
         /\ \A u \in Threads : u # t => pc[u] = "free"
<1>0. t \in Threads /\ pc[t] # "free"
  BY UsageFacts DEF UnlockedPC
<1>1. PICK f \in usage.fds : /\ f \in Fds /\ at[t].context = <<f, 1>>
                             /\ at[t].context \in Contexts /\ at[t].context[1] = f
  BY <1>0, BusyFacts
<1>2. /\ OneThread(usage) /\ at[t].event \in events[at[t].context] /\ f < size
      /\ newEvents[t] = events[at[t].context] \ {at[t].event}
  BY <1>0, <1>1 DEF IInv, PlaceInv, UnlockedPC
<1>3. at[t].event \in Events
  BY <1>1, <1>2 DEF IInv, TypeOK
<1>4. QED BY <1>0, <1>1, <1>2, <1>3, Alone

LEMMA FdCtl ==
  ASSUME IInv, NEW t \in usage.threads, UnlockedCtl(t)
  PROVE  IInv'
<1> DEFINE c == at[t].context
           e == at[t].event
<1>0. pc[t] \in {"del", "cancel"} /\ pc[t] \in UnlockedPC
  BY DEF UnlockedCtl, UnlockedPC
<1>1. /\ t \in Threads /\ OneThread(usage) /\ e \in events[c] /\ e \in Events /\ c \in Contexts
      /\ newEvents[t] = events[c] \ {e} /\ \A u \in Threads : u # t => pc[u] = "free"
  BY <1>0, UnlockedFacts
<1>2. PICK f \in Fds : c = <<f, 1>> /\ c[1] = f /\ f < size
  BY <1>0, UnlockedFacts
<1>3. \A u \in Threads : pc[u] \notin EndPC
  BY <1>0, <1>1 DEF EndPC
<1>4. \A g \in Fds : interest[g] = events[<<g, 1>>]
  BY <1>3 DEF IInv, ViewInv
<1>5. ~CtlFails(f, FALSE)
  <2>1. interest[f] # {}
    BY <1>1, <1>2, <1>4
  <2>2. QED BY <2>1, CtlMeans
<1>6. PICK p \in EndPC : pc' = [pc EXCEPT ![t] = p]
  BY <1>2, <1>5 DEF UnlockedCtl, Move, EndPC
<1>7. /\ Watch(c, newEvents[t])
      /\ m_pendingEventCount' = m_pendingEventCount - 1
      /\ at' = [at EXCEPT ![t] = at[t]]
      /\ UNCHANGED <<tableVars, events, context, newEvents, report, died>>
  BY <1>2, <1>5 DEF UnlockedCtl, Move
<1> HIDE DEF c, e
<1>8. /\ interest' = [interest EXCEPT ![f] = newEvents[t]]
      /\ ptr' = [ptr EXCEPT ![f] = IF newEvents[t] = {} THEN NoContext ELSE c]
      /\ UNCHANGED <<usage, size, made>>
  BY <1>2, <1>7 DEF Watch, tableVars
<1>9. at' = at
  BY <1>1, <1>7 DEF IInv, TypeOK
<1>10. /\ \A u \in Threads : pc'[u] = IF u = t THEN p ELSE pc[u]
       /\ \A g \in Fds : interest'[g] = IF g = f THEN newEvents[t] ELSE interest[g]
       /\ \A g \in Fds : ptr'[g] = IF g = f THEN (IF newEvents[t] = {} THEN NoContext ELSE c)
                                            ELSE ptr[g]
  BY <1>6, <1>8 DEF IInv, TypeOK
<1>11. /\ m_pendingEventCount' \in Nat
       /\ m_pendingEventCount' + 1 = Cardinality(Registered)
  <2>1. m_pendingEventCount = Cardinality(Registered) /\ IsFiniteSet(Registered)
    BY <1>3 DEF IInv, CountInv
  <2>2. <<c, e>> \in Registered
    BY <1>1 DEF Registered
  <2>3. Cardinality(Registered) # 0 /\ Cardinality(Registered) \in Nat
    BY <2>1, <2>2, FS_EmptySet, FS_CardinalityType
  <2>4. QED BY <1>7, <2>1, <2>3
<1>12. TypeOK'
  <2>1. interest' \in [Fds -> SUBSET Events] /\ ptr' \in [Fds -> Contexts \cup {NoContext}]
    BY <1>1, <1>2, <1>8 DEF IInv, TypeOK
  <2>2. pc' \in [Threads -> {"free", "grow", "register", "handle", "del", "delend", "cancel",
                             "cancelend"}]
    BY <1>6 DEF IInv, TypeOK, EndPC
  <2>3. QED BY <1>7, <1>8, <1>9, <1>11, <2>1, <2>2 DEF IInv, TypeOK
<1>13. TableInv'
  BY <1>8 DEF IInv, TableInv
<1>14. PlaceInv'
  <2>1. ASSUME NEW u \in Threads, u # t PROVE PlaceInv!(u)'
    BY <2>1, <1>7, <1>8, <1>9, <1>10 DEF IInv, PlaceInv, OneThread
  <2>2. PlaceInv!(t)'
    BY <1>0, <1>1, <1>7, <1>8, <1>9, <1>10
       DEF IInv, PlaceInv, OneThread, AddPC, UnlockedPC, EndPC
  <2>3. QED BY <2>1, <2>2 DEF PlaceInv
<1>15. AddInv'
  BY <1>9, <1>10 DEF IInv, AddInv, AddPC, EndPC
<1>16. ViewInv'
  <2>1. context' = events' /\ events' = events
    BY <1>7 DEF IInv, ViewInv
  <2>2. \A d \in Contexts : /\ events'[d] \subseteq usage'.events
                            /\ events'[d] # {} => d[2] = 1 /\ d[1] < size'
    BY <1>8, <2>1 DEF IInv, ViewInv
  <2>3. ASSUME NEW g \in Fds, \A u \in Threads : pc'[u] \in EndPC => at'[u].context # <<g, 1>>
        PROVE  interest'[g] = events'[<<g, 1>>]
    <3>1. g # f
      BY <1>1, <1>2, <1>9, <1>10, <2>3 DEF c
    <3>2. QED BY <3>1, <1>4, <1>10, <2>1
  <2>4. ASSUME NEW u \in Threads, pc'[u] \in EndPC
        PROVE  interest'[at'[u].context[1]] = newEvents'[u]
    <3>1. u = t
      BY <2>4, <1>1, <1>10 DEF EndPC
    <3>2. QED BY <3>1, <1>2, <1>7, <1>9, <1>10 DEF c
  <2>5. \A g \in Fds : interest'[g] # {} => ptr'[g] = <<g, 1>>
    BY <1>2, <1>10 DEF IInv, ViewInv
  <2>6. QED BY <2>1, <2>2, <2>3, <2>4, <2>5 DEF ViewInv
<1>17. CountInv'
  <2>1. Registered' = Registered
    BY <1>7 DEF Registered
  <2>2. pc'[t] \in EndPC
    BY <1>1, <1>10
  <2>3. QED BY <1>1, <1>11, <2>1, <2>2 DEF IInv, CountInv
<1>18. QED BY <1>7, <1>8, <1>12, <1>13, <1>14, <1>15, <1>16, <1>17
          DEF IInv, NoFailure, OneThread, Locked

\* The event, no longer watched nor counted, leaves fdContext->events.
LEMMA FdEnd ==
  ASSUME IInv, NEW t \in usage.threads, pc[t] \in EndPC,
         Trigger(at[t].context, {at[t].event}),
         newEvents' = [newEvents EXCEPT ![t] = {}],
         Move(t, "free", Nowhere),
         UNCHANGED <<tableVars, interest, ptr, m_pendingEventCount, report, died>>
  PROVE  IInv'
<1> DEFINE c == at[t].context
           e == at[t].event
<1>0. pc[t] \in UnlockedPC
  BY DEF EndPC, UnlockedPC
<1>1. /\ t \in Threads /\ OneThread(usage) /\ e \in events[c] /\ e \in Events /\ c \in Contexts
      /\ newEvents[t] = events[c] \ {e} /\ \A u \in Threads : u # t => pc[u] = "free"
  BY <1>0, UnlockedFacts
<1>2. PICK f \in Fds : c = <<f, 1>> /\ c[1] = f /\ f < size
  BY <1>0, UnlockedFacts
<1>3. interest[f] = events[c] \ {e}
  BY <1>1, <1>2 DEF IInv, ViewInv
<1>4. /\ events' = [events EXCEPT ![c] = @ \ {e}]
      /\ context' = [context EXCEPT ![c] = @ \ {e}]
      /\ pc' = [pc EXCEPT ![t] = "free"] /\ at' = [at EXCEPT ![t] = Nowhere]
      /\ UNCHANGED <<usage, size, made>>
  BY DEF Trigger, Move, tableVars
<1>5. at[t].context = c
  OBVIOUS
<1> HIDE DEF c, e
<1>6. /\ \A u \in Threads : pc'[u] = "free"
      /\ \A d \in Contexts : events'[d] = IF d = c THEN events[c] \ {e} ELSE events[d]
  BY <1>1, <1>4 DEF IInv, TypeOK
<1>7. TypeOK'
  <2>1. events[c] \ {e} \in SUBSET Events /\ context[c] \ {e} \in SUBSET Events
    BY <1>1 DEF IInv, TypeOK
  <2>2. events' \in [Contexts -> SUBSET Events] /\ context' \in [Contexts -> SUBSET Events]
    BY <1>4, <2>1 DEF IInv, TypeOK
  <2>3. newEvents' \in [Threads -> SUBSET Events]
    BY DEF IInv, TypeOK
  <2>4. Nowhere \in [context : Contexts \cup {NoContext}, event : Events \cup {NoEvent}]
    BY DEF Nowhere
  <2>5. /\ at' \in [Threads -> [context : Contexts \cup {NoContext}, event : Events \cup {NoEvent}]]
        /\ pc' \in [Threads -> {"free", "grow", "register", "handle", "del", "delend", "cancel",
                                "cancelend"}]
    BY <1>4, <2>4 DEF IInv, TypeOK
  <2>6. QED BY <1>4, <2>2, <2>3, <2>5 DEF IInv, TypeOK
<1>8. TableInv'
  BY <1>4 DEF IInv, TableInv
<1>9. PlaceInv' /\ AddInv'
  BY <1>6 DEF PlaceInv, AddInv, AddPC, UnlockedPC
<1>10. ViewInv'
  <2>1. context' = events'
    BY <1>4 DEF IInv, ViewInv
  <2>2. \A d \in Contexts : /\ events'[d] \subseteq usage'.events
                            /\ events'[d] # {} => d[2] = 1 /\ d[1] < size'
    BY <1>4, <1>6 DEF IInv, ViewInv
  <2>3. \A g \in Fds : interest'[g] = events'[<<g, 1>>]
    <3>1. ASSUME NEW g \in Fds, g # f PROVE interest'[g] = events'[<<g, 1>>]
      <4>1. <<g, 1>> \in Contexts /\ <<g, 1>> # c
        BY <3>1, <1>2, UsageFacts
      <4>2. \A u \in Threads : pc[u] \in EndPC => at[u].context # <<g, 1>>
        BY <1>1, <1>5, <4>1 DEF EndPC
      <4>3. interest[g] = events[<<g, 1>>]
        BY <4>2 DEF IInv, ViewInv
      <4>4. QED BY <4>1, <4>3, <1>6
    <3>2. interest'[f] = events'[<<f, 1>>]
      BY <1>1, <1>2, <1>3, <1>6
    <3>3. QED BY <3>1, <3>2
  <2>4. QED BY <1>6, <2>1, <2>2, <2>3 DEF IInv, ViewInv, EndPC
<1>11. CountInv'
  <2>1. {e} \in SUBSET events[c] /\ Cardinality({e}) = 1
    BY <1>1, FS_Singleton
  <2>2. /\ IsFiniteSet(Registered') /\ Cardinality(Registered') \in Nat
        /\ Cardinality(Registered') + 1 = Cardinality(Registered)
    BY <1>1, <1>4, <2>1, RegisteredRemove DEF IInv, CountInv
  <2>3. m_pendingEventCount + 1 = Cardinality(Registered) /\ m_pendingEventCount \in Nat
    BY <1>1 DEF IInv, CountInv, TypeOK
  <2>4. QED BY <1>6, <2>2, <2>3 DEF CountInv, EndPC
<1>12. QED BY <1>4, <1>7, <1>8, <1>9, <1>10, <1>11 DEF IInv, NoFailure, OneThread, Locked

LEMMA FdDelEnd ==
  ASSUME IInv, NEW t \in usage.threads, DelEventEnd(t) PROVE IInv'
<1>1. pc[t] \in EndPC /\ pc[t] \in UnlockedPC
  BY DEF DelEventEnd, EndPC, UnlockedPC
<1>2. newEvents[t] = events[at[t].context] \ {at[t].event}
  BY <1>1, UnlockedFacts
<1>3. Trigger(at[t].context, {at[t].event})
  BY <1>2 DEF DelEventEnd, Trigger
<1>4. QED BY <1>1, <1>3, FdEnd DEF DelEventEnd

LEMMA FdCancelEnd ==
  ASSUME IInv, NEW t \in usage.threads, CancelEventEnd(t) PROVE IInv'
<1>1. pc[t] \in EndPC /\ pc[t] \in UnlockedPC
  BY DEF CancelEventEnd, EndPC, UnlockedPC
<1>2. TriggerWorks(at[t].context, {at[t].event})
  BY <1>1, UnlockedFacts DEF TriggerWorks, IInv, ViewInv
<1>3. QED BY <1>1, <1>2, FdEnd DEF CancelEventEnd

-----------------------------------------------------------------------------
LEMMA FdStep ==
  ASSUME IInv, [Next]_vars PROVE IInv'
<1>1. CASE UNCHANGED vars
  <2>1. UNCHANGED <<tableVars, fdVars, pc, at, newEvents, report, died>>
    BY <1>1 DEF vars, tableVars, fdVars
  <2>2. UNCHANGED <<usage, size, made, events, context, interest, ptr, m_pendingEventCount>>
    BY <2>1 DEF tableVars, fdVars
  <2>3. TypeOK'
    BY <2>1, <2>2 DEF IInv, TypeOK
  <2>4. PlaceInv' /\ AddInv'
    BY <2>1, <2>2 DEF IInv, PlaceInv, AddInv, OneThread
  <2>5. TableInv' /\ ViewInv' /\ CountInv'
    BY <2>1, FdMove
  <2>6. QED BY <2>1, <2>2, <2>3, <2>4, <2>5 DEF IInv, NoFailure, OneThread, Locked
<1>2. CASE Next
  <2>1. PICK t \in usage.threads : ThreadStep(t)
    BY <1>2 DEF Next
  <2>2. CASE \E f \in usage.fds, e \in usage.events : AddEvent(t, f, e)
    BY <2>2, FdAdd
  <2>3. CASE Grow(t)
    BY <2>3, FdGrow
  <2>4. CASE Register(t)
    BY <2>4, FdRegister
  <2>5. CASE \E f \in usage.fds, e \in usage.events : DelEvent(t, f, e)
    BY <2>5, FdUnlocked DEF DelEvent
  <2>6. CASE \E f \in usage.fds, e \in usage.events : CancelEvent(t, f, e)
    BY <2>6, FdUnlocked DEF CancelEvent
  <2>7. CASE \E f \in usage.fds : CancelAll(t, f)
    BY <2>7, FdCancelAll
  <2>8. CASE UnlockedCtl(t)
    BY <2>8, FdCtl
  <2>9. CASE DelEventEnd(t)
    BY <2>9, FdDelEnd
  <2>10. CASE CancelEventEnd(t)
    BY <2>10, FdCancelEnd
  <2>11. CASE \E f \in usage.fds : EpollWait(t, f)
    BY <2>11, FdWait
  <2>12. CASE HandleReport(t)
    BY <2>12, FdHandle
  <2>13. QED BY <2>1, <2>2, <2>3, <2>4, <2>5, <2>6, <2>7, <2>8, <2>9, <2>10, <2>11, <2>12
            DEF ThreadStep
<1>3. QED BY <1>1, <1>2

LEMMA FdInvariant ==
  ASSUME SafeUse PROVE Spec => []IInv
<1>1. Init => IInv
  BY FdInit
<1>2. IInv /\ [Next]_vars => IInv'
  BY FdStep
<1>3. QED BY <1>1, <1>2, PTL DEF Spec

-----------------------------------------------------------------------------
(***************************************************************************)
(* The theorems, for every usage of which SafeUse holds: one thread with   *)
(* all of addEvent, delEvent, cancelEvent and cancelAll, or any number of  *)
(* threads with addEvent and cancelAll (TLC shows failures outside it).    *)
(***************************************************************************)

\* The types of the FdContexts, of the vector and of the threads that use them.
THEOREM FdTypeCorrect ==
  ASSUME SafeUse PROVE Spec => []TypeOK
<1>1. IInv => TypeOK
  BY DEF IInv
<1>2. QED BY <1>1, FdInvariant, PTL

\* No assertion of addEvent, delEvent, cancelEvent, cancelAll, triggerEvent and
\* idle() fails, epoll_ctl never returns an error and triggerEvent never finds an
\* empty EventContext, however old the report that idle() handles is.
THEOREM NoAssertionFails ==
  ASSUME SafeUse PROVE Spec => []NoFailure
<1>1. IInv => NoFailure
  BY DEF IInv
<1>2. QED BY <1>1, FdInvariant, PTL

\* Between the operations fdContext->events, the EventContexts, the interest and
\* data.ptr of epoll and m_pendingEventCount say the same of every registration.
THEOREM RegistrationsAgree ==
  ASSUME SafeUse PROVE Spec => []Consistent
<1>1. IInv => Consistent
  <2> SUFFICES ASSUME IInv, \A t \in Threads : pc[t] \in {"free", "grow", "register", "handle"}
               PROVE  /\ \A c \in Contexts : events[c] = context[c]
                      /\ \A f \in Fds :
                           /\ interest[f] = (IF size > f THEN events[FdContext(f)] ELSE {})
                           /\ interest[f] # {} => ptr[f] = FdContext(f)
                      /\ m_pendingEventCount =
                           Cardinality({x \in Contexts \X Events : x[2] \in events[x[1]]})
    BY DEF Consistent
  <2>1. \A t \in Threads : pc[t] \notin EndPC
    BY DEF EndPC
  <2>2. \A c \in Contexts : events[c] = context[c]
    BY DEF IInv, ViewInv
  <2>3. ASSUME NEW f \in Fds
        PROVE  /\ interest[f] = (IF size > f THEN events[FdContext(f)] ELSE {})
               /\ interest[f] # {} => ptr[f] = FdContext(f)
    <3>1. /\ <<f, 1>> \in Contexts /\ <<f, 1>>[1] = f /\ f \in Nat /\ size \in Nat
          /\ (f < size => FdContext(f) = <<f, 1>>)
      BY UsageFacts
    <3>2. interest[f] = events[<<f, 1>>] /\ (interest[f] # {} => ptr[f] = <<f, 1>>)
      BY <2>1 DEF IInv, ViewInv
    <3>3. events[<<f, 1>>] # {} => f < size
      BY <3>1 DEF IInv, ViewInv
    <3>4. QED BY <3>1, <3>2, <3>3
  <2>4. m_pendingEventCount = Cardinality(Registered)
    BY <2>1 DEF IInv, CountInv
  <2>5. QED BY <2>2, <2>3, <2>4 DEF Registered
<1>2. QED BY <1>1, FdInvariant, PTL
=============================================================================
