-------------------------- MODULE TcpServerProofs --------------------------
(***************************************************************************)
(* Proofs about TcpServer for any addresses, connections and threads and   *)
(* any number of calls, as long as stop() is not one of them: tasks never  *)
(* confuse the descriptors the kernel reuses, and no assertion fails.      *)
(*                                                                         *)
(* The inductive invariant says which Socket, descriptor and FdContext     *)
(* belong together at every stage of a task, and that a task is in one     *)
(* place only: the queue, a thread or an event.                            *)
(***************************************************************************)
EXTENDS TcpServer, FiniteSetTheorems, TLAPS

\* stop() is not called.
NoStop == "stop" \notin usage.calls

Distinct(q) == \A i, j \in DOMAIN q : q[i] = q[j] => i = j

Stages ==
  {"none", "bind", "sleep", "start", "serving", "asleep", "call", "end", "loop", "try", "event",
   "adopt", "close", "del", "closef", "first", "next"}

\* The types the argument is about.
Types ==
  /\ queue \in Seq(Tasks) /\ running \subseteq Tasks
  /\ pc \in [Tasks -> Stages]
  /\ fd \in [Tasks -> Fds \cup {NoFd}]
  /\ newConn \in [Tasks -> Conns \cup {Nobody}]
  /\ todo \in [Tasks -> Seq(Addresses)]
  /\ calls \in Nat
  /\ m_sockets \in Seq(Listeners)
  /\ m_sock \in [Objects -> Fds \cup {NoFd}]
  /\ kernel \in [Fds -> Objects \cup {Nobody}]
  /\ ctx \in [Fds -> Objects \cup {Nobody}]
  /\ waiting \in [Fds -> Tasks \cup {Nobody}]
  /\ conn \in [Conns -> Addresses \cup {"none", "open", "gone"}]

\* The server is started once, and then runs; no task of stop() exists.
Phases ==
  /\ NoStop
  /\ \A t \in Stops : pc[t] = "none" /\ fd[t] = NoFd
  /\ isStop => /\ \A t \in Tasks \ {Program} : pc[t] = "none"
               /\ pc[Program] \in {"bind", "sleep", "start", "end"}
               /\ calls = 0
  /\ ~isStop => /\ pc[Program] \in {"serving", "asleep", "call", "bind", "end"}
                /\ pc[Program] = "bind" => calls > 0

\* Sockets, descriptors and their contexts.
Descriptors ==
  /\ \A x \in Objects : m_sock[x] # NoFd => kernel[m_sock[x]] = x
  /\ \A s \in Listeners : m_sock[s] # NoFd => ctx[m_sock[s]] = s
  /\ \A f \in Fds : ctx[f] # Nobody => kernel[f] = ctx[f] /\ m_sock[ctx[f]] = f
  /\ \A f \in Fds : kernel[f] \in Listeners => m_sock[kernel[f]] = f
  /\ \A f, g \in Fds : kernel[f] # Nobody /\ kernel[f] = kernel[g] => f = g
  /\ \A s, u \in Listeners : m_sock[s] # NoFd /\ m_sock[u] # NoFd /\ s[1] = u[1] => s = u

\* What the server holds is open, and there once.
SocketsInv == Distinct(m_sockets) /\ \A s \in ToSet(m_sockets) : m_sock[s] # NoFd

\* The accept tasks, of the one start(), and their sockets.
AcceptInv ==
  \A t \in Accepts :
    /\ pc[t] \in {"none", "loop", "try", "event", "adopt"}
    /\ pc[t] # "none" => m_sock[t[2]] # NoFd /\ t[3] = 1
    /\ pc[t] \in {"try", "event", "adopt"} => fd[t] = m_sock[t[2]]

\* A connection between accept_f and the end of the hooked accept.
AdoptInv ==
  /\ \A t \in Accepts : pc[t] = "adopt" =>
       /\ newConn[t] \in Conns
       /\ pc[Client(newConn[t])] = "none" /\ m_sock[newConn[t]] = NoFd
       /\ conn[newConn[t]] \in {"open", "gone"}
       /\ \E f \in Fds : kernel[f] = newConn[t]
  /\ \A t, u \in Accepts : pc[t] = "adopt" /\ pc[u] = "adopt" /\ newConn[t] = newConn[u] => t = u

\* A connection and its handleClient.
ClientInv ==
  \A c \in Conns :
    LET t == Client(c) IN
    /\ pc[t] \in {"none", "loop", "try", "event", "close", "del", "closef"}
    /\ pc[t] # "none" => m_sock[c] # NoFd /\ conn[c] \in {"open", "gone"}
    /\ pc[t] \in {"loop", "try", "event", "close", "del"} => ctx[m_sock[c]] = c
    /\ pc[t] = "closef" => ctx[m_sock[c]] = Nobody
    /\ pc[t] \in {"try", "event", "close", "del", "closef"} => fd[t] = m_sock[c]
    /\ conn[c] \in Addresses \cup {"none"} => m_sock[c] = NoFd /\ \A f \in Fds : kernel[f] # c

\* A task is in the queue once, on a thread, or at an event.
PlaceInv ==
  /\ Distinct(queue)
  /\ ToSet(queue) \cap running = {}
  /\ \A t \in ToSet(queue) \cup running : pc[t] \notin {"none", "asleep"}
  /\ \A f \in Fds : waiting[f] # Nobody =>
       /\ waiting[f] \in Accepts \cup Clients /\ pc[waiting[f]] = "try" /\ fd[waiting[f]] = f
       /\ waiting[f] \notin ToSet(queue) \cup running

\* epoll watches what tasks wait for; no assertion has failed.
EventInv == died = "no" /\ watched = {f \in Fds : waiting[f] # Nobody}

IInv ==
  /\ Types /\ Phases /\ Descriptors /\ SocketsInv /\ AcceptInv /\ AdoptInv /\ ClientInv
  /\ PlaceInv /\ EventInv

-----------------------------------------------------------------------------
(***************************************************************************)
(* Constants, sequences and descriptors.                                   *)
(***************************************************************************)

LEMMA TaskFacts ==
  /\ Program \in Tasks /\ Program \notin Accepts /\ Program \notin Stops
  /\ \A c \in Conns : /\ Client(c) \in Tasks /\ Client(c) \in Clients /\ Client(c)[2] = c
                      /\ Client(c) # Program /\ Client(c) \notin Accepts /\ Client(c) \notin Stops
  /\ \A c, d \in Conns : Client(c) = Client(d) => c = d
  /\ \A t \in Accepts : /\ t \in Tasks /\ t # Program /\ t \notin Stops /\ t \notin Clients
                        /\ t[2] \in Listeners
  /\ \A t, u \in Accepts : t[2] = u[2] /\ t[3] = u[3] => t = u
  /\ \A t \in Stops : t \in Tasks /\ t # Program /\ t \notin Clients
  /\ \A t \in Clients : \E c \in Conns : t = Client(c)
  /\ \A t \in Tasks : t = Program \/ t \in Accepts \/ t \in Stops \/ t \in Clients
  /\ Nobody \notin Tasks
<1>1. \A c : Client(c)[1] = "client" /\ Client(c)[2] = c /\ Client(c) = <<"client", c>>
  BY DEF Client
<1>2. \A t \in Accepts : \E s \in Listeners, n \in 1..(MaxCalls + 1) : t = <<"accept", s, n>>
  BY DEF Accepts
<1>3. \A t \in Accepts : t[1] = "accept" /\ t[2] \in Listeners /\ t = <<"accept", t[2], t[3]>>
  BY <1>2
<1>4. \A t \in Stops : t[1] = "stop"
  BY DEF Stops
<1>5. Program[1] = "program"
  BY DEF Program
<1>6. \A t \in Clients : \E c \in Conns : t = Client(c)
  BY DEF Clients
<1>7. \A c \in Conns : Client(c) \in Clients
  BY DEF Clients
<1>8. Program \in Tasks /\ Accepts \subseteq Tasks /\ Stops \subseteq Tasks /\ Clients \subseteq Tasks
      /\ \A t \in Tasks : t = Program \/ t \in Accepts \/ t \in Stops \/ t \in Clients
  BY DEF Tasks
<1>9. Nobody \notin Tasks
  BY TcpAssumption
<1>10. \A t, u \in Accepts : t[2] = u[2] /\ t[3] = u[3] => t = u
  BY <1>3
<1>11. QED BY <1>1, <1>3, <1>4, <1>5, <1>6, <1>7, <1>8, <1>9, <1>10

LEMMA ObjectFacts ==
  /\ Listeners \subseteq Objects /\ Conns \subseteq Objects /\ Listeners \cap Conns = {}
  /\ Nobody \notin Objects /\ NoFd \notin Fds
  /\ \A s \in Listeners : s[1] \in Addresses /\ s \in {s[1]} \X {1, 2}
  /\ \A a \in Addresses : \A s \in {a} \X {1, 2} : s \in Listeners /\ s[1] = a
  /\ \A c \in Conns : \A a \in Addresses : c \notin {a} \X {1, 2}
  /\ "none" \notin Addresses /\ "open" \notin Addresses /\ "gone" \notin Addresses
<1>1. \A a \in Addresses : \A s \in {a} \X {1, 2} : s \in Listeners /\ s[1] = a
  BY DEF Listeners
<1>2. \A s \in Listeners : s[1] \in Addresses /\ s \in {s[1]} \X {1, 2}
  BY DEF Listeners
<1>3. Listeners \cap Conns = {} /\ Nobody \notin Objects
      /\ {"none", "open", "gone"} \cap Addresses = {}
  BY TcpAssumption
<1>4. Listeners \subseteq Objects /\ Conns \subseteq Objects
  BY DEF Objects
<1>5. NoFd \notin Fds
  BY TcpAssumption DEF NoFd, Fds
<1>6. QED BY <1>1, <1>2, <1>3, <1>4, <1>5

LEMMA Joined ==
  ASSUME NEW S, NEW q \in Seq(S), NEW ts \in Seq(S), Distinct(q), Distinct(ts),
         ToSet(q) \cap ToSet(ts) = {}
  PROVE  q \o ts \in Seq(S) /\ Distinct(q \o ts) /\ ToSet(q \o ts) = ToSet(q) \cup ToSet(ts)
<1> DEFINE r == q \o ts
           m == Len(q)
           n == Len(ts)
<1>1. /\ r \in Seq(S) /\ Len(r) = m + n /\ m \in Nat /\ n \in Nat
      /\ \A i \in 1..m : r[i] = q[i]
      /\ \A i \in 1..n : r[m + i] = ts[i]
  OBVIOUS
<1>2. DOMAIN q = 1..m /\ DOMAIN ts = 1..n
  OBVIOUS
<1> HIDE DEF r, m, n
<1>3. DOMAIN r = 1..(m + n)
  BY <1>1
<1>4. \A i \in 1..(m + n) : i \in 1..m \/ (i - m \in 1..n /\ m + (i - m) = i)
  BY <1>1
<1>5. \A i \in 1..m : i \in 1..(m + n)
  BY <1>1
<1>6. \A i \in 1..n : m + i \in 1..(m + n)
  BY <1>1
<1>7. ToSet(r) = ToSet(q) \cup ToSet(ts)
  <2>1. ASSUME NEW x \in ToSet(r) PROVE x \in ToSet(q) \cup ToSet(ts)
    <3>1. PICK i \in 1..(m + n) : x = r[i]
      BY <1>3 DEF ToSet
    <3>2. CASE i \in 1..m
      BY <1>1, <1>2, <3>1, <3>2 DEF ToSet
    <3>3. CASE i - m \in 1..n /\ m + (i - m) = i
      <4>1. x = ts[i - m]
        BY <1>1, <3>1, <3>3
      <4>2. QED BY <1>2, <3>3, <4>1 DEF ToSet
    <3>4. QED BY <1>4, <3>2, <3>3
  <2>2. ASSUME NEW x \in ToSet(q) PROVE x \in ToSet(r)
    <3>1. PICK i \in 1..m : x = q[i]
      BY <1>2 DEF ToSet
    <3>2. QED BY <1>1, <1>3, <1>5, <3>1 DEF ToSet
  <2>3. ASSUME NEW x \in ToSet(ts) PROVE x \in ToSet(r)
    <3>1. PICK i \in 1..n : x = ts[i]
      BY <1>2 DEF ToSet
    <3>2. QED BY <1>1, <1>3, <1>6, <3>1 DEF ToSet
  <2>4. QED BY <2>1, <2>2, <2>3
<1>8. ASSUME NEW i \in DOMAIN r, NEW j \in DOMAIN r, r[i] = r[j] PROVE i = j
  <2>1. \A x \in 1..m : q[x] \in ToSet(q)
    BY <1>2 DEF ToSet
  <2>2. \A x \in 1..n : ts[x] \in ToSet(ts)
    BY <1>2 DEF ToSet
  <2>3. CASE i \in 1..m /\ j \in 1..m
    BY <1>1, <1>2, <1>8, <2>3 DEF Distinct
  <2>4. CASE i \in 1..m /\ j \notin 1..m
    <3>1. r[i] = q[i] /\ r[j] = ts[j - m] /\ j - m \in 1..n
      BY <1>1, <1>3, <1>4, <2>4
    <3>2. QED BY <1>8, <2>1, <2>2, <2>4, <3>1
  <2>5. CASE i \notin 1..m /\ j \in 1..m
    <3>1. r[j] = q[j] /\ r[i] = ts[i - m] /\ i - m \in 1..n
      BY <1>1, <1>3, <1>4, <2>5
    <3>2. QED BY <1>8, <2>1, <2>2, <2>5, <3>1
  <2>6. CASE i \notin 1..m /\ j \notin 1..m
    <3>1. r[j] = ts[j - m] /\ r[i] = ts[i - m] /\ i - m \in 1..n /\ j - m \in 1..n
      BY <1>1, <1>3, <1>4, <2>6
    <3>2. i - m = j - m
      BY <1>2, <1>8, <3>1 DEF Distinct
    <3>3. i \in Nat /\ j \in Nat
      BY <1>1, <1>3
    <3>4. QED BY <1>1, <3>2, <3>3
  <2>7. QED BY <2>3, <2>4, <2>5, <2>6
<1>9. QED BY <1>1, <1>7, <1>8 DEF Distinct, r

LEMMA OneMore ==
  ASSUME NEW S, NEW q \in Seq(S), NEW x \in S, Distinct(q), x \notin ToSet(q)
  PROVE  /\ q \o <<x>> \in Seq(S) /\ Distinct(q \o <<x>>) /\ ToSet(q \o <<x>>) = ToSet(q) \cup {x}
         /\ Append(q, x) = q \o <<x>>
<1> DEFINE t == <<x>>
<1>1. t \in Seq(S) /\ Distinct(t) /\ ToSet(t) = {x}
  BY DEF Distinct, ToSet
<1>2. Append(q, x) = q \o t
  OBVIOUS
<1> HIDE DEF t
<1>3. ToSet(q) \cap ToSet(t) = {}
  BY <1>1
<1>4. q \o t \in Seq(S) /\ Distinct(q \o t) /\ ToSet(q \o t) = ToSet(q) \cup ToSet(t)
  BY <1>1, <1>3, Joined
<1>5. QED BY <1>1, <1>2, <1>4 DEF t

LEMMA Taken ==
  ASSUME NEW S, NEW q \in Seq(S), q # <<>>, Distinct(q)
  PROVE  /\ Head(q) \in S /\ Head(q) \in ToSet(q) /\ Tail(q) \in Seq(S)
         /\ Distinct(Tail(q)) /\ ToSet(Tail(q)) = ToSet(q) \ {Head(q)}
<1> DEFINE r == Tail(q)
           n == Len(q)
<1>1. /\ n \in Nat /\ n > 0 /\ r \in Seq(S) /\ Len(r) = n - 1 /\ DOMAIN q = 1..n
      /\ Head(q) = q[1] /\ \A i \in 1..(n - 1) : r[i] = q[i + 1]
  OBVIOUS
<1> HIDE DEF r, n
<1>2. DOMAIN r = 1..(n - 1) /\ 1 \in 1..n /\ q[1] \in S
  <2>1. 1 \in 1..n
    BY <1>1
  <2>2. QED BY <1>1, <2>1
<1>3. \A i \in 1..(n - 1) : i + 1 \in 1..n /\ i + 1 # 1
  BY <1>1
<1>4. \A i \in 1..n : i # 1 => i - 1 \in 1..(n - 1) /\ (i - 1) + 1 = i
  BY <1>1
<1>5. Distinct(r)
  <2>1. ASSUME NEW i \in 1..(n - 1), NEW j \in 1..(n - 1), r[i] = r[j] PROVE i = j
    <3>1. q[i + 1] = q[j + 1]
      BY <1>1, <2>1
    <3>2. i + 1 = j + 1
      BY <1>1, <1>3, <3>1 DEF Distinct
    <3>3. QED BY <1>1, <3>2
  <2>2. QED BY <1>2, <2>1 DEF Distinct
<1>6. ASSUME NEW x \in ToSet(r) PROVE x \in ToSet(q) /\ x # q[1]
  <2>1. PICK i \in 1..(n - 1) : x = q[i + 1]
    BY <1>1, <1>2 DEF ToSet
  <2>2. x \in ToSet(q)
    BY <1>1, <1>3, <2>1 DEF ToSet
  <2>3. x # q[1]
    BY <1>1, <1>2, <1>3, <2>1 DEF Distinct
  <2>4. QED BY <2>2, <2>3
<1>7. ASSUME NEW x \in ToSet(q), x # q[1] PROVE x \in ToSet(r)
  <2>1. PICK i \in 1..n : x = q[i]
    BY <1>1 DEF ToSet
  <2>2. i - 1 \in 1..(n - 1) /\ r[i - 1] = x
    BY <1>1, <1>4, <1>7, <2>1
  <2>3. QED BY <1>2, <2>2 DEF ToSet
<1>8. Head(q) \in ToSet(q)
  BY <1>1, <1>2 DEF ToSet
<1>9. QED BY <1>1, <1>2, <1>5, <1>6, <1>7, <1>8 DEF r

LEMMA FunctionIsSequence ==
  ASSUME NEW S, NEW n \in Nat, NEW m \in [1..n -> S]
  PROVE  m \in Seq(S)
<1> DEFINE w == [i \in 1..n |-> m[i]]
<1>1. m = w
  OBVIOUS
<1>2. \A i \in 1..n : m[i] \in S
  OBVIOUS
<1>3. w \in Seq(S)
  BY <1>2
<1> HIDE DEF w
<1>4. QED BY <1>1, <1>3

LEMMA AddressesInSequence == SetToSeq(Addresses) \in Seq(Addresses)
<1> DEFINE n == Cardinality(Addresses)
<1>1. n \in Nat /\ ExistsBijection(1..n, Addresses)
  BY TcpAssumption, FS_CardinalityType
<1>2. PICK f \in [1..n -> Addresses] : IsInjective(f)
  BY <1>1, Zenon DEF ExistsBijection, Bijection, Injection
<1>3. SetToSeq(Addresses) \in [1..n -> Addresses]
  BY <1>2 DEF SetToSeq
<1> HIDE DEF n
<1>4. QED BY <1>1, <1>3, FunctionIsSequence

LEMMA LeastElement == ASSUME NEW T \in SUBSET Nat, T # {} PROVE \E x \in T : \A y \in T : x <= y
<1> DEFINE R == {ss \in Nat \X Nat : ss[1] < ss[2]}
<1>0. IsWellFoundedOn(R, Nat)
  BY NatLessThanWellFounded, Zenon DEF OpToRel
<1> HIDE DEF R
<1>1. PICK x \in T : \A y \in T : ~ (<<y, x>> \in R)
  BY <1>0, WFMin
<1>2. \A y \in T : ~(y < x)
  BY <1>1 DEF R
<1>3. QED BY <1>2

\* The kernel has a descriptor left for a new socket of address y, or for a new
\* connection y: those in use belong to other addresses and connections.
LEMMA FreeDescriptor ==
  ASSUME Types, Descriptors, NEW y,
         \/ y \in Addresses /\ ~Listening(y)
         \/ y \in Conns /\ \A f \in Fds : kernel[f] # y
  PROVE  Min(FreeFds) \in Fds /\ kernel[Min(FreeFds)] = Nobody
<1> DEFINE S == Addresses \cup Conns
           T == S \ {y}
           h == [f \in Fds |-> IF kernel[f] \in Listeners THEN kernel[f][1] ELSE kernel[f]]
<1>1. /\ Cardinality(Addresses) \in Nat /\ Cardinality(Conns) \in Nat /\ MaxFds \in Nat
      /\ MaxFds >= Cardinality(Addresses) + Cardinality(Conns)
      /\ IsFiniteSet(Addresses) /\ IsFiniteSet(Conns) /\ Addresses \cap Conns = {}
  BY TcpAssumption, FS_CardinalityType
<1>2. IsFiniteSet(S) /\ Cardinality(S) = Cardinality(Addresses) + Cardinality(Conns)
  <2>1. IsFiniteSet(Addresses \cap Conns) /\ Cardinality(Addresses \cap Conns) = 0
    BY <1>1, FS_EmptySet
  <2>2. /\ IsFiniteSet(S)
        /\ Cardinality(S) = Cardinality(Addresses) + Cardinality(Conns)
                            - Cardinality(Addresses \cap Conns)
    BY <1>1, FS_Union
  <2>3. QED BY <1>1, <2>1, <2>2
<1>3. y \in S
  OBVIOUS
<1>4. IsFiniteSet(T) /\ Cardinality(T) = Cardinality(S) - 1
  <2> HIDE DEF S
  <2> QED BY <1>2, <1>3, FS_RemoveElement
<1>5. Cardinality(T) < Cardinality(Fds) /\ IsFiniteSet(Fds)
  <2>1. IsFiniteSet(1..MaxFds) /\ Cardinality(1..MaxFds) = IF 1 > MaxFds THEN 0 ELSE MaxFds - 1 + 1
    BY <1>1, FS_Interval
  <2>2. Cardinality(S) > 0
    <3>1. Cardinality(S) \in Nat
      BY <1>1, <1>2
    <3>2. Cardinality(S) # 0
      <4> HIDE DEF S
      <4> QED BY <1>2, <1>3, FS_EmptySet
    <3>3. QED BY <3>1, <3>2
  <2> HIDE DEF S, T
  <2>3. QED BY <1>1, <1>2, <1>4, <2>1, <2>2 DEF Fds
<1>6. FreeFds # {}
  <2> SUFFICES ASSUME FreeFds = {} PROVE FALSE
    OBVIOUS
  <2>1. \A f \in Fds : kernel[f] # Nobody /\ kernel[f] \in Objects
    BY DEF FreeFds, Types
  <2>2. \A f \in Fds : kernel[f] \in Listeners \/ kernel[f] \in Conns
    BY <2>1 DEF Objects
  <2>3. \A f \in Fds : h[f] \in T
    <3>1. ASSUME NEW f \in Fds, kernel[f] \in Listeners PROVE kernel[f][1] \in T
      <4>1. kernel[f][1] \in Addresses /\ kernel[f] \in {kernel[f][1]} \X {1, 2}
        BY <3>1, ObjectFacts
      <4>2. kernel[f][1] # y
        BY <1>1, <4>1 DEF Listening
      <4>3. QED BY <4>1, <4>2
    <3>2. ASSUME NEW f \in Fds, kernel[f] \in Conns PROVE kernel[f] \in T
      <4>1. kernel[f] # y
        BY <1>1, <3>2
      <4>2. QED BY <3>2, <4>1
    <3>3. QED BY <2>2, <3>1, <3>2
  <2>4. h \in [Fds -> T]
    <3> HIDE DEF T
    <3> QED BY <2>3
  <2> HIDE DEF T
  <2> HIDE DEF h
  <2>5. PICK f, g \in Fds : f # g /\ h[f] = h[g]
    BY <1>4, <1>5, <2>4, FS_PigeonHole
  <2> USE DEF h
  <2>6. CASE kernel[f] \in Listeners /\ kernel[g] \in Listeners
    <3>1. m_sock[kernel[f]] = f /\ m_sock[kernel[g]] = g
      BY <2>6 DEF Descriptors
    <3>2. m_sock[kernel[f]] # NoFd /\ m_sock[kernel[g]] # NoFd
      BY <3>1, ObjectFacts
    <3>3. kernel[f][1] = kernel[g][1]
      BY <2>5, <2>6
    <3>4. kernel[f] = kernel[g]
      BY <2>6, <3>2, <3>3 DEF Descriptors
    <3>5. QED BY <2>5, <3>1, <3>4
  <2>7. CASE kernel[f] \in Conns /\ kernel[g] \in Conns
    <3>1. kernel[f] = kernel[g]
      BY <2>5, <2>7, ObjectFacts
    <3>2. QED BY <2>1, <2>5, <3>1 DEF Descriptors
  <2>8. CASE kernel[f] \in Listeners /\ kernel[g] \in Conns
    <3>1. kernel[f][1] = kernel[g] /\ kernel[f][1] \in Addresses
      BY <2>5, <2>8, ObjectFacts
    <3>2. QED BY <1>1, <2>8, <3>1
  <2>9. CASE kernel[g] \in Listeners /\ kernel[f] \in Conns
    <3>1. kernel[g][1] = kernel[f] /\ kernel[g][1] \in Addresses
      BY <2>5, <2>9, ObjectFacts
    <3>2. QED BY <1>1, <2>9, <3>1
  <2>10. QED BY <2>2, <2>6, <2>7, <2>8, <2>9
<1>7. FreeFds \in SUBSET Nat
  BY <1>1 DEF FreeFds, Fds
<1>8. PICK x \in FreeFds : \A z \in FreeFds : x <= z
  BY <1>6, <1>7, LeastElement
<1>9. Min(FreeFds) \in FreeFds
  BY <1>8 DEF Min
<1>10. QED BY <1>9 DEF FreeFds

-----------------------------------------------------------------------------
(***************************************************************************)
(* The initial states.                                                     *)
(***************************************************************************)

LEMMA IInvInit == Init /\ NoStop => IInv
<1> SUFFICES ASSUME Init, NoStop PROVE IInv
  OBVIOUS
<1>0. /\ Program \in Tasks /\ \A t \in Tasks : pc[t] = IF t = Program THEN "bind" ELSE "none"
      /\ queue = <<Program>> /\ running = {} /\ m_sockets = <<>>
  BY TaskFacts DEF Init
<1>1. Types
  <2>1. <<>> \in Seq(Addresses) /\ <<>> \in Seq(Listeners)
    OBVIOUS
  <2>2. todo \in [Tasks -> Seq(Addresses)]
    BY <2>1, AddressesInSequence DEF Init
  <2>3. <<Program>> \in Seq(Tasks)
    BY <1>0
  <2>4. QED BY <2>1, <2>2, <2>3 DEF Types, Init, Stages
<1>2. Phases
  BY <1>0, TaskFacts DEF Phases, Init
<1>3. Descriptors
  BY ObjectFacts DEF Descriptors, Init
<1>4. SocketsInv
  BY <1>0 DEF SocketsInv, Distinct, ToSet
<1>5. AcceptInv
  BY <1>0, TaskFacts DEF AcceptInv
<1>6. AdoptInv
  BY <1>0, TaskFacts DEF AdoptInv
<1>7. ClientInv
  BY <1>0, TaskFacts, ObjectFacts DEF ClientInv, Init
<1>8. PlaceInv
  <2>1. Distinct(<<Program>>) /\ ToSet(<<Program>>) = {Program}
    BY DEF Distinct, ToSet
  <2>2. QED BY <1>0, <2>1 DEF PlaceInv, Init
<1>9. EventInv
  BY DEF EventInv, Init
<1>10. QED BY <1>1, <1>2, <1>3, <1>4, <1>5, <1>6, <1>7, <1>8, <1>9 DEF IInv

-----------------------------------------------------------------------------
(***************************************************************************)
(* What a step leaves alone.                                               *)
(***************************************************************************)

LEMMA KeepDescriptors == Descriptors /\ UNCHANGED fdVars => Descriptors'
BY DEF Descriptors, fdVars

LEMMA KeepSockets == SocketsInv /\ UNCHANGED <<m_sockets, m_sock>> => SocketsInv'
BY DEF SocketsInv, Distinct, ToSet

LEMMA KeepEvents == EventInv /\ UNCHANGED <<eventVars, died>> => EventInv'
BY DEF EventInv, eventVars

LEMMA KeepTasks ==
  ASSUME AcceptInv, AdoptInv, ClientInv, UNCHANGED <<fd, newConn, fdVars, conn>>,
         \A t \in Accepts \cup Clients : pc'[t] = pc[t]
  PROVE  AcceptInv' /\ AdoptInv' /\ ClientInv'
<1>1. AcceptInv'
  BY DEF AcceptInv, fdVars
<1>2. AdoptInv'
  <2>1. \A t \in Accepts : pc'[t] = "adopt" => pc'[Client(newConn[t])] = pc[Client(newConn[t])]
    BY TaskFacts DEF AdoptInv
  <2>2. QED BY <2>1 DEF AdoptInv, fdVars
<1>3. ClientInv'
  <2>1. \A c \in Conns : pc'[Client(c)] = pc[Client(c)]
    BY TaskFacts
  <2>2. QED BY <2>1 DEF ClientInv, fdVars
<1>4. QED BY <1>1, <1>2, <1>3

\* The program moves on.
LEMMA ProgramMoves ==
  ASSUME IInv, NEW to, pc' = [pc EXCEPT ![Program] = to],
         UNCHANGED <<fd, newConn, fdVars, conn>>
  PROVE  /\ AcceptInv' /\ AdoptInv' /\ ClientInv' /\ Descriptors'
         /\ pc'[Program] = to /\ \A t \in Tasks : t # Program => pc'[t] = pc[t]
<1>1. pc'[Program] = to /\ \A t \in Tasks : t # Program => pc'[t] = pc[t]
  BY TaskFacts DEF IInv, Types
<1>2. \A t \in Accepts \cup Clients : t \in Tasks /\ t # Program
  BY TaskFacts
<1>3. QED BY <1>1, <1>2, KeepTasks, KeepDescriptors DEF IInv

\* The program leaves its thread, moves on or is scheduled: no event is concerned.
LEMMA ProgramPlace ==
  ASSUME IInv, pc'[Program] # "none", \A t \in Tasks : t # Program => pc'[t] = pc[t],
         Distinct(queue'), ToSet(queue') \cap running' = {},
         ToSet(queue') \cup running' \subseteq ToSet(queue) \cup running \cup {Program},
         pc'[Program] = "asleep" => Program \notin ToSet(queue') \cup running',
         UNCHANGED <<fd, waiting>>
  PROVE  PlaceInv'
<1>1. ToSet(queue) \cup running \subseteq Tasks
  BY DEF IInv, Types, ToSet
<1>2. \A t \in ToSet(queue') \cup running' : pc'[t] \notin {"none", "asleep"}
  BY <1>1 DEF IInv, PlaceInv
<1>3. ASSUME NEW f \in Fds, waiting[f] # Nobody
      PROVE  /\ waiting[f] \in Accepts \cup Clients /\ pc'[waiting[f]] = "try" /\ fd[waiting[f]] = f
             /\ waiting[f] \notin ToSet(queue') \cup running'
  <2>1. /\ waiting[f] \in Accepts \cup Clients /\ pc[waiting[f]] = "try" /\ fd[waiting[f]] = f
        /\ waiting[f] \notin ToSet(queue) \cup running
    BY <1>3 DEF IInv, PlaceInv
  <2>2. waiting[f] \in Tasks /\ waiting[f] # Program
    BY <2>1, TaskFacts
  <2>3. QED BY <2>1, <2>2
<1>4. QED BY <1>2, <1>3 DEF PlaceInv

-----------------------------------------------------------------------------
(***************************************************************************)
(* The program.                                                            *)
(***************************************************************************)

LEMMA SleepAndRetryStep == ASSUME IInv, SleepAndRetry PROVE IInv'
<1>0. /\ Program \in running /\ pc[Program] = "sleep" /\ pc' = [pc EXCEPT ![Program] = "bind"]
      /\ todo' = [todo EXCEPT ![Program] = SetToSeq(Addresses)]
      /\ running' = running \ {Program} /\ queue' = queue \o <<Program>>
      /\ UNCHANGED <<fd, newConn, usage, failed, calls, isStop, m_sockets, m_sock, kernel, ctx,
                     waiting, watched, busy, conn, data, died>>
  BY DEF SleepAndRetry, At, Goto, Leave, Schedule, progVars, serverVars, fdVars, eventVars, netVars
<1>1. /\ AcceptInv' /\ AdoptInv' /\ ClientInv' /\ Descriptors'
      /\ pc'[Program] = "bind" /\ \A t \in Tasks : t # Program => pc'[t] = pc[t]
  BY <1>0, ProgramMoves DEF fdVars
<1>2. /\ queue' \in Seq(Tasks) /\ Distinct(queue') /\ ToSet(queue') = ToSet(queue) \cup {Program}
  <2>1. queue \in Seq(Tasks) /\ Distinct(queue) /\ Program \notin ToSet(queue) /\ Program \in Tasks
    BY <1>0, TaskFacts DEF IInv, Types, PlaceInv
  <2>2. QED BY <1>0, <2>1, OneMore
<1>3. Types'
  BY <1>0, <1>2, AddressesInSequence DEF IInv, Types, Stages
<1>4. Phases'
  BY <1>0, <1>1, TaskFacts DEF IInv, Phases, NoStop
<1>5. PlaceInv'
  <2>1. ToSet(queue') \cap running' = {}
    BY <1>0, <1>2 DEF IInv, PlaceInv
  <2>2. QED BY <1>0, <1>1, <1>2, <2>1, ProgramPlace
<1>6. QED BY <1>0, <1>1, <1>3, <1>4, <1>5, KeepSockets, KeepEvents DEF IInv, eventVars

LEMMA SleepStep == ASSUME IInv, Sleep PROVE IInv'
<1>0. /\ Program \in running /\ pc[Program] = "serving" /\ pc' = [pc EXCEPT ![Program] = "asleep"]
      /\ running' = running \ {Program}
      /\ UNCHANGED <<queue, todo, fd, newConn, usage, failed, calls, isStop, m_sockets, m_sock,
                     kernel, ctx, waiting, watched, busy, conn, data, died>>
  BY DEF Sleep, At, Goto, Leave, progVars, serverVars, fdVars, eventVars, netVars
<1>1. /\ AcceptInv' /\ AdoptInv' /\ ClientInv' /\ Descriptors'
      /\ pc'[Program] = "asleep" /\ \A t \in Tasks : t # Program => pc'[t] = pc[t]
  BY <1>0, ProgramMoves DEF fdVars
<1>3. Types'
  BY <1>0 DEF IInv, Types, Stages
<1>4. Phases'
  BY <1>0, <1>1, TaskFacts DEF IInv, Phases, NoStop
<1>5. PlaceInv'
  <2>1. Distinct(queue) /\ ToSet(queue) \cap running = {}
    BY DEF IInv, PlaceInv
  <2>2. Distinct(queue') /\ ToSet(queue') = ToSet(queue)
    BY <1>0, <2>1
  <2>3. QED BY <1>0, <1>1, <2>1, <2>2, ProgramPlace
<1>6. QED BY <1>0, <1>1, <1>3, <1>4, <1>5, KeepSockets, KeepEvents DEF IInv, eventVars

LEMMA WakeStep == ASSUME IInv, Wake PROVE IInv'
<1>0. /\ pc[Program] = "asleep" /\ pc' = [pc EXCEPT ![Program] = "call"]
      /\ queue' = queue \o <<Program>>
      /\ UNCHANGED <<running, todo, fd, newConn, usage, failed, calls, isStop, m_sockets, m_sock,
                     kernel, ctx, waiting, watched, busy, conn, data, died>>
  BY DEF Wake, Goto, Schedule, progVars, serverVars, fdVars, eventVars, netVars
<1>1. /\ AcceptInv' /\ AdoptInv' /\ ClientInv' /\ Descriptors'
      /\ pc'[Program] = "call" /\ \A t \in Tasks : t # Program => pc'[t] = pc[t]
  BY <1>0, ProgramMoves DEF fdVars
<1>2. /\ queue' \in Seq(Tasks) /\ Distinct(queue') /\ ToSet(queue') = ToSet(queue) \cup {Program}
      /\ Program \notin running
  <2>1. queue \in Seq(Tasks) /\ Distinct(queue) /\ Program \notin ToSet(queue) /\ Program \in Tasks
        /\ Program \notin running
    BY <1>0, TaskFacts DEF IInv, Types, PlaceInv
  <2>2. QED BY <1>0, <2>1, OneMore
<1>3. Types'
  BY <1>0, <1>2 DEF IInv, Types, Stages
<1>4. Phases'
  BY <1>0, <1>1, TaskFacts DEF IInv, Phases, NoStop
<1>5. PlaceInv'
  <2>1. ToSet(queue') \cap running' = {}
    BY <1>0, <1>2 DEF IInv, PlaceInv
  <2>2. QED BY <1>0, <1>1, <1>2, <2>1, ProgramPlace
<1>6. QED BY <1>0, <1>1, <1>3, <1>4, <1>5, KeepSockets, KeepEvents DEF IInv, eventVars

LEMMA CallBindStep == ASSUME IInv, CallBind PROVE IInv'
<1>0. /\ pc[Program] = "call" /\ pc' = [pc EXCEPT ![Program] = "bind"] /\ calls' = calls + 1
      /\ todo' = [todo EXCEPT ![Program] = SetToSeq(Addresses)]
      /\ UNCHANGED <<queue, running, fd, newConn, usage, failed, isStop, m_sockets, m_sock,
                     kernel, ctx, waiting, watched, busy, conn, data, died>>
  BY DEF CallBind, At, Goto, schedVars, serverVars, fdVars, eventVars, netVars
<1>1. /\ AcceptInv' /\ AdoptInv' /\ ClientInv' /\ Descriptors'
      /\ pc'[Program] = "bind" /\ \A t \in Tasks : t # Program => pc'[t] = pc[t]
  BY <1>0, ProgramMoves DEF fdVars
<1>2. calls' \in Nat
  BY <1>0 DEF IInv, Types
<1>3. Types'
  <2>1. pc' \in [Tasks -> Stages] /\ todo' \in [Tasks -> Seq(Addresses)]
    BY <1>0, AddressesInSequence DEF IInv, Types, Stages
  <2>2. QED BY <1>0, <1>2, <2>1 DEF IInv, Types
<1>4. Phases'
  BY <1>0, <1>1, TaskFacts DEF IInv, Phases, NoStop, Types
<1>5. PlaceInv'
  <2>1. Distinct(queue) /\ ToSet(queue) \cap running = {}
    BY DEF IInv, PlaceInv
  <2>2. Distinct(queue') /\ ToSet(queue') = ToSet(queue)
    BY <1>0, <2>1
  <2>3. QED BY <1>0, <1>1, <2>1, <2>2, ProgramPlace
<1>6. QED BY <1>0, <1>1, <1>3, <1>4, <1>5, KeepSockets, KeepEvents DEF IInv, eventVars

\* The server runs: start() does nothing.
LEMMA CallStartStep == ASSUME IInv, CallStart PROVE IInv'
<1>0. /\ pc[Program] = "call" /\ ~isStop /\ pc' = [pc EXCEPT ![Program] = "serving"]
      /\ calls' = calls + 1
      /\ UNCHANGED <<queue, running, todo, fd, newConn, usage, failed, isStop, m_sockets, m_sock,
                     kernel, ctx, waiting, watched, busy, conn, data, died>>
  <2>1. pc[Program] = "call" /\ ~isStop
    BY DEF CallStart, At, IInv, Phases
  <2>2. QED BY <2>1 DEF CallStart, DoStart, Goto, fdVars, eventVars, netVars
<1>1. /\ AcceptInv' /\ AdoptInv' /\ ClientInv' /\ Descriptors'
      /\ pc'[Program] = "serving" /\ \A t \in Tasks : t # Program => pc'[t] = pc[t]
  BY <1>0, ProgramMoves DEF fdVars
<1>2. calls' \in Nat
  BY <1>0 DEF IInv, Types
<1>3. Types'
  <2>1. pc' \in [Tasks -> Stages] /\ todo' \in [Tasks -> Seq(Addresses)]
    BY <1>0 DEF IInv, Types, Stages
  <2>2. QED BY <1>0, <1>2, <2>1 DEF IInv, Types
<1>4. Phases'
  BY <1>0, <1>1, TaskFacts DEF IInv, Phases, NoStop, Types
<1>5. PlaceInv'
  <2>1. Distinct(queue) /\ ToSet(queue) \cap running = {}
    BY DEF IInv, PlaceInv
  <2>2. Distinct(queue') /\ ToSet(queue') = ToSet(queue)
    BY <1>0, <2>1
  <2>3. QED BY <1>0, <1>1, <2>1, <2>2, ProgramPlace
<1>6. QED BY <1>0, <1>1, <1>3, <1>4, <1>5, KeepSockets, KeepEvents DEF IInv, eventVars

LEMMA StartStep == ASSUME IInv, Start PROVE IInv'
<1> DEFINE as == [i \in DOMAIN m_sockets |-> <<"accept", m_sockets[i], calls + 1>>]
<1>0. /\ Program \in running /\ pc[Program] = "start" /\ isStop /\ calls = 0
      /\ \A t \in Tasks : t # Program => pc[t] = "none"
  BY DEF Start, At, IInv, Phases
<1>1. /\ ~isStop' /\ queue' = queue \o as
      /\ pc' = [t \in Tasks |-> IF t \in ToSet(as) THEN "loop"
                                ELSE IF t = Program THEN "serving" ELSE pc[t]]
      /\ UNCHANGED <<running, todo, fd, newConn, usage, failed, calls, m_sockets, m_sock,
                     kernel, ctx, waiting, watched, busy, conn, data, died>>
  BY <1>0 DEF Start, DoStart, Schedule, progVars, fdVars, eventVars, netVars
<1>2. /\ as \in Seq(Tasks) /\ Distinct(as) /\ ToSet(as) \subseteq Accepts
      /\ \A t \in ToSet(as) : t[2] \in ToSet(m_sockets) /\ t[3] = 1
  <2>1. m_sockets \in Seq(Listeners) /\ Distinct(m_sockets)
    BY DEF IInv, Types, SocketsInv
  <2>2. \A i \in DOMAIN m_sockets : m_sockets[i] \in Listeners /\ m_sockets[i] \in ToSet(m_sockets)
    BY <2>1 DEF ToSet
  <2>3. calls + 1 = 1 /\ calls + 1 \in 1..(MaxCalls + 1)
    BY <1>0, TcpAssumption
  <2>4. \A i \in DOMAIN m_sockets : as[i] = <<"accept", m_sockets[i], 1>>
    BY <2>3
  <2>5. \A i \in DOMAIN m_sockets : as[i] \in Accepts
    BY <2>2, <2>3 DEF Accepts
  <2>6. \A i \in DOMAIN m_sockets : as[i][2] = m_sockets[i] /\ as[i][3] = 1
    BY <2>4
  <2>7. DOMAIN as = DOMAIN m_sockets /\ DOMAIN m_sockets = 1..Len(m_sockets)
        /\ Len(m_sockets) \in Nat
    BY <2>1
  <2>8. as \in Seq(Tasks)
    <3>1. \A i \in 1..Len(m_sockets) : as[i] \in Tasks
      BY <2>5, <2>7, TaskFacts
    <3>2. as \in [1..Len(m_sockets) -> Tasks]
      BY <2>7, <3>1
    <3> HIDE DEF as
    <3>3. QED BY <2>7, <3>2, FunctionIsSequence
  <2> HIDE DEF as
  <2>9. Distinct(as)
    <3>1. \A i, j \in DOMAIN m_sockets : as[i] = as[j] => m_sockets[i] = m_sockets[j]
      BY <2>6
    <3>2. QED BY <2>1, <2>7, <3>1 DEF Distinct
  <2>10. ASSUME NEW t \in ToSet(as)
         PROVE  t \in Accepts /\ t[2] \in ToSet(m_sockets) /\ t[3] = 1
    <3>1. PICK i \in DOMAIN m_sockets : t = as[i]
      BY <2>7 DEF ToSet
    <3>2. QED BY <2>2, <2>5, <2>6, <3>1
  <2>11. QED BY <2>8, <2>9, <2>10
<1> HIDE DEF as
<1>3. /\ pc'[Program] = "serving"
      /\ \A t \in Tasks : t # Program => pc'[t] = IF t \in ToSet(as) THEN "loop" ELSE "none"
  BY <1>0, <1>1, <1>2, TaskFacts
<1>4. /\ queue' \in Seq(Tasks) /\ Distinct(queue') /\ ToSet(queue') = ToSet(queue) \cup ToSet(as)
  <2>1. queue \in Seq(Tasks) /\ Distinct(queue)
    BY DEF IInv, Types, PlaceInv
  <2>2. ToSet(queue) \cap ToSet(as) = {}
    <3>1. \A t \in ToSet(as) : pc[t] = "none"
      BY <1>0, <1>2, TaskFacts
    <3>2. \A t \in ToSet(queue) : pc[t] # "none"
      BY DEF IInv, PlaceInv
    <3>3. QED BY <3>1, <3>2
  <2>3. QED BY <1>1, <1>2, <2>1, <2>2, Joined
<1>5. Types'
  <2>1. pc' \in [Tasks -> Stages]
    BY <1>1 DEF IInv, Types, Stages
  <2>2. QED BY <1>1, <1>4, <2>1 DEF IInv, Types
<1>6. Phases'
  BY <1>1, <1>2, <1>3, TaskFacts DEF IInv, Phases, NoStop
<1>7. AcceptInv'
  <2>1. \A s \in ToSet(m_sockets) : m_sock[s] # NoFd
    BY DEF IInv, SocketsInv
  <2>2. QED BY <1>1, <1>2, <1>3, <2>1, TaskFacts DEF AcceptInv
<1>8. AdoptInv'
  BY <1>3, TaskFacts DEF AdoptInv
<1>9. ClientInv'
  <2>1. \A c \in Conns : pc'[Client(c)] = "none"
    BY <1>2, <1>3, TaskFacts
  <2>2. QED BY <1>1, <2>1 DEF IInv, ClientInv
<1>10. PlaceInv'
  <2>1. \A f \in Fds : waiting[f] = Nobody
    BY <1>0, TaskFacts DEF IInv, PlaceInv
  <2>2. ToSet(queue') \cap running' = {}
    <3>1. \A t \in ToSet(as) : pc[t] = "none"
      BY <1>0, <1>2, TaskFacts
    <3>2. ToSet(queue) \cap running = {} /\ \A t \in running : pc[t] # "none"
      BY DEF IInv, PlaceInv
    <3>3. QED BY <1>1, <1>4, <3>1, <3>2
  <2>3. \A t \in ToSet(queue) \cup running : t = Program
    <3>1. ToSet(queue) \cup running \subseteq Tasks
      BY DEF IInv, Types, ToSet
    <3>2. QED BY <1>0, <3>1 DEF IInv, PlaceInv
  <2>4. \A t \in ToSet(queue') \cup running' : pc'[t] \notin {"none", "asleep"}
    BY <1>1, <1>2, <1>3, <1>4, <2>3, TaskFacts
  <2>5. QED BY <1>1, <1>4, <2>1, <2>2, <2>4 DEF PlaceInv
<1>11. QED BY <1>1, <1>5, <1>6, <1>7, <1>8, <1>9, <1>10, KeepDescriptors, KeepSockets, KeepEvents
           DEF IInv, fdVars, eventVars

\* A Socket is bound: it gets the lowest free descriptor.
LEMMA BindOneStep == ASSUME IInv, BindOne PROVE IInv'
<1> DEFINE a == Head(todo[Program])
<1>0. /\ todo[Program] # <<>> /\ todo' = [todo EXCEPT ![Program] = Tail(@)]
      /\ UNCHANGED <<queue, running, pc, fd, newConn, usage, calls, isStop, waiting, watched, busy,
                     conn, data, died>>
  BY DEF BindOne, schedVars, eventVars, netVars
<1>1. a \in Addresses /\ todo' \in [Tasks -> Seq(Addresses)]
  <2>1. todo \in [Tasks -> Seq(Addresses)] /\ todo[Program] \in Seq(Addresses)
    BY TaskFacts DEF IInv, Types
  <2>2. a \in Addresses /\ Tail(todo[Program]) \in Seq(Addresses)
    BY <1>0, <2>1
  <2>3. QED BY <1>0, <2>1, <2>2
<1>2. Phases' /\ EventInv'
  BY <1>0, KeepEvents DEF IInv, Phases, NoStop, eventVars
<1>3. PlaceInv'
  BY <1>0 DEF IInv, PlaceInv
<1>4. CASE UNCHANGED <<m_sockets, fdVars>>
  <2>1. Types'
    BY <1>0, <1>1, <1>4 DEF IInv, Types, fdVars
  <2>2. Descriptors' /\ SocketsInv'
    BY <1>4, KeepDescriptors, KeepSockets DEF IInv, fdVars
  <2>3. AcceptInv' /\ AdoptInv' /\ ClientInv'
    BY <1>0, <1>4, KeepTasks DEF IInv
  <2>4. QED BY <1>2, <1>3, <2>1, <2>2, <2>3 DEF IInv
<1>5. CASE ~Listening(a)
           /\ \E s \in {a} \X {1, 2} :
              /\ ~InServer(s) /\ ~InUse(s)
              /\ m_sock' = [m_sock EXCEPT ![s] = Min(FreeFds)]
              /\ kernel' = [kernel EXCEPT ![Min(FreeFds)] = s]
              /\ ctx' = GetContext(Min(FreeFds), s)
              /\ m_sockets' = Append(m_sockets, s)
  <2> DEFINE f == Min(FreeFds)
  <2>1. PICK s \in {a} \X {1, 2} :
              /\ ~InServer(s) /\ ~InUse(s)
              /\ m_sock' = [m_sock EXCEPT ![s] = f]
              /\ kernel' = [kernel EXCEPT ![f] = s]
              /\ ctx' = GetContext(f, s)
              /\ m_sockets' = Append(m_sockets, s)
    BY <1>5
  <2>2. f \in Fds /\ kernel[f] = Nobody
    BY <1>1, <1>5, FreeDescriptor DEF IInv
  <2>3. s \in Listeners /\ s[1] = a /\ s \in Objects /\ s \notin Conns /\ s # Nobody
    BY <1>1, ObjectFacts
  <2> HIDE DEF f, a
  <2>4. ctx[f] = Nobody /\ ctx' = [ctx EXCEPT ![f] = s]
    <3>1. ctx[f] = Nobody
      BY <2>2, ObjectFacts DEF IInv, Types, Descriptors
    <3>2. QED BY <2>1, <3>1 DEF GetContext
  <2>5. \A u \in Listeners : u[1] = a => m_sock[u] = NoFd
    <3> SUFFICES ASSUME NEW u \in Listeners, u[1] = a, m_sock[u] # NoFd PROVE FALSE
      OBVIOUS
    <3>1. m_sock[u] \in Fds /\ kernel[m_sock[u]] = u /\ u \in {a} \X {1, 2}
      BY ObjectFacts DEF IInv, Types, Descriptors
    <3>2. QED BY <1>5, <3>1 DEF Listening, a
  <2>6. /\ m_sock'[s] = f /\ \A x \in Objects : x # s => m_sock'[x] = m_sock[x]
        /\ kernel'[f] = s /\ \A g \in Fds : g # f => kernel'[g] = kernel[g]
        /\ ctx'[f] = s /\ \A g \in Fds : g # f => ctx'[g] = ctx[g]
    BY <2>1, <2>2, <2>3, <2>4 DEF IInv, Types
  <2>7. \A x \in Objects : m_sock[x] # NoFd => m_sock[x] # f /\ x # s
    BY <2>2, <2>3, <2>5, ObjectFacts DEF IInv, Descriptors
  <2>8. f # NoFd
    BY <2>2, ObjectFacts
  <2>9. m_sockets' \in Seq(Listeners) /\ Distinct(m_sockets')
        /\ ToSet(m_sockets') = ToSet(m_sockets) \cup {s}
    <3>1. m_sockets \in Seq(Listeners) /\ Distinct(m_sockets) /\ s \notin ToSet(m_sockets)
      BY <2>1 DEF IInv, Types, SocketsInv, InServer
    <3>2. /\ m_sockets \o <<s>> \in Seq(Listeners) /\ Distinct(m_sockets \o <<s>>)
          /\ ToSet(m_sockets \o <<s>>) = ToSet(m_sockets) \cup {s}
          /\ Append(m_sockets, s) = m_sockets \o <<s>>
      BY <2>3, <3>1, OneMore
    <3>3. QED BY <2>1, <3>2
  <2>10. Types'
    BY <1>0, <1>1, <2>1, <2>2, <2>3, <2>4, <2>9 DEF IInv, Types
  <2>11. Descriptors'
    <3>1. \A x \in Objects : m_sock'[x] # NoFd => kernel'[m_sock'[x]] = x
      <4>1. \A x \in Objects : m_sock[x] \in Fds \cup {NoFd}
        BY DEF IInv, Types
      <4>2. QED BY <2>3, <2>6, <2>7, <4>1 DEF IInv, Descriptors
    <3>2. \A u \in Listeners : m_sock'[u] # NoFd => ctx'[m_sock'[u]] = u
      <4>1. \A u \in Listeners : u \in Objects /\ m_sock[u] \in Fds \cup {NoFd}
        BY ObjectFacts DEF IInv, Types
      <4>2. QED BY <2>3, <2>6, <2>7, <4>1 DEF IInv, Descriptors
    <3>3. \A g \in Fds : ctx'[g] # Nobody => kernel'[g] = ctx'[g] /\ m_sock'[ctx'[g]] = g
      <4>1. ASSUME NEW g \in Fds, g # f, ctx[g] # Nobody
            PROVE kernel'[g] = ctx'[g] /\ m_sock'[ctx'[g]] = g
        <5>1. ctx[g] \in Objects /\ kernel[g] = ctx[g] /\ m_sock[ctx[g]] = g /\ g # NoFd
          BY <4>1, ObjectFacts DEF IInv, Types, Descriptors
        <5>2. QED BY <2>6, <2>7, <4>1, <5>1
      <4>2. QED BY <2>6, <4>1
    <3>4. \A g \in Fds : kernel'[g] \in Listeners => m_sock'[kernel'[g]] = g
      <4>1. ASSUME NEW g \in Fds, g # f, kernel[g] \in Listeners PROVE m_sock'[kernel'[g]] = g
        <5>1. kernel[g] \in Objects /\ m_sock[kernel[g]] = g /\ g # NoFd
          BY <4>1, ObjectFacts DEF IInv, Descriptors
        <5>2. QED BY <2>6, <2>7, <4>1, <5>1
      <4>2. QED BY <2>6, <4>1
    <3>5. \A g, h \in Fds : kernel'[g] # Nobody /\ kernel'[g] = kernel'[h] => g = h
      <4>1. \A g \in Fds : kernel[g] # s
        <5> SUFFICES ASSUME NEW g \in Fds, kernel[g] = s PROVE FALSE
          OBVIOUS
        <5>1. m_sock[s] = g
          BY <2>3 DEF IInv, Descriptors
        <5>2. QED BY <2>3, <2>5, <5>1, ObjectFacts
      <4>2. QED BY <2>6, <4>1 DEF IInv, Descriptors
    <3>6. \A u, v \in Listeners :
            m_sock'[u] # NoFd /\ m_sock'[v] # NoFd /\ u[1] = v[1] => u = v
      BY <2>3, <2>5, <2>6, ObjectFacts DEF IInv, Descriptors
    <3>7. QED BY <3>1, <3>2, <3>3, <3>4, <3>5, <3>6 DEF Descriptors
  <2>12. SocketsInv'
    <3>1. \A u \in ToSet(m_sockets) : u \in Objects /\ m_sock[u] # NoFd
      <4>1. m_sockets \in Seq(Listeners)
        BY DEF IInv, Types
      <4>2. ToSet(m_sockets) \subseteq Listeners
        BY <4>1 DEF ToSet
      <4>3. QED BY <4>2, ObjectFacts DEF IInv, SocketsInv
    <3>2. QED BY <2>6, <2>8, <2>9, <3>1 DEF SocketsInv
  <2>13. AcceptInv'
    <3>1. ASSUME NEW t \in Accepts, pc[t] # "none" PROVE m_sock'[t[2]] = m_sock[t[2]]
      <4>1. t[2] \in Objects /\ m_sock[t[2]] # NoFd
        BY <3>1, TaskFacts, ObjectFacts DEF IInv, AcceptInv
      <4>2. QED BY <2>6, <2>7, <4>1
    <3>2. QED BY <1>0, <3>1 DEF IInv, AcceptInv
  <2>14. AdoptInv'
    <3>1. ASSUME NEW t \in Accepts, pc[t] = "adopt"
          PROVE  /\ newConn[t] \in Conns
                 /\ pc[Client(newConn[t])] = "none" /\ m_sock'[newConn[t]] = NoFd
                 /\ conn[newConn[t]] \in {"open", "gone"}
                 /\ \E g \in Fds : kernel'[g] = newConn[t]
      <4>1. /\ newConn[t] \in Conns
            /\ pc[Client(newConn[t])] = "none" /\ m_sock[newConn[t]] = NoFd
            /\ conn[newConn[t]] \in {"open", "gone"}
        BY <3>1 DEF IInv, AdoptInv
      <4>2. PICK g \in Fds : kernel[g] = newConn[t]
        BY <3>1 DEF IInv, AdoptInv
      <4>3. g # f
        BY <2>2, <4>1, <4>2, ObjectFacts
      <4>4. QED BY <2>3, <2>6, <4>1, <4>2, <4>3, ObjectFacts
    <3>2. QED BY <1>0, <3>1 DEF IInv, AdoptInv
  <2>15. ClientInv'
    <3>1. ASSUME NEW c \in Conns
          PROVE  /\ m_sock'[c] = m_sock[c]
                 /\ m_sock[c] # NoFd => ctx'[m_sock[c]] = ctx[m_sock[c]]
                 /\ (\A g \in Fds : kernel[g] # c) => \A g \in Fds : kernel'[g] # c
      <4>1. c \in Objects /\ c # s /\ m_sock[c] \in Fds \cup {NoFd}
        BY <2>3, ObjectFacts DEF IInv, Types
      <4>2. QED BY <2>6, <2>7, <4>1
    <3>2. QED BY <1>0, <3>1 DEF IInv, ClientInv
  <2>16. QED BY <1>2, <1>3, <2>10, <2>11, <2>12, <2>13, <2>14, <2>15 DEF IInv
<1>6. QED BY <1>4, <1>5 DEF BindOne

\* Sockets that no accept task uses are destroyed.
LEMMA Destroyed ==
  ASSUME IInv, NEW ss \in SUBSET Listeners, \A s \in ss : ~InUse(s), Destroy(ss),
         ToSet(m_sockets) \subseteq ss \cup {s \in Listeners : InUse(s)}, m_sockets' = <<>>,
         UNCHANGED <<fd, newConn, waiting, died>>,
         \A t \in Accepts \cup Clients : pc'[t] = pc[t]
  PROVE  /\ Descriptors' /\ SocketsInv' /\ AcceptInv' /\ AdoptInv' /\ ClientInv' /\ EventInv'
         /\ m_sock' \in [Objects -> Fds \cup {NoFd}]
         /\ kernel' \in [Fds -> Objects \cup {Nobody}]
         /\ ctx' \in [Fds -> Objects \cup {Nobody}]
         /\ conn' \in [Conns -> Addresses \cup {"none", "open", "gone"}]
         /\ m_sockets' \in Seq(Listeners)
<1> DEFINE fs == {m_sock[s] : s \in ss} \ {NoFd}
<1>1. /\ m_sock' = [x \in Objects |-> IF x \in ss THEN NoFd ELSE m_sock[x]]
      /\ kernel' = [f \in Fds |-> IF f \in fs THEN Nobody ELSE kernel[f]]
      /\ ctx' = [f \in Fds |-> IF f \in fs THEN Nobody ELSE ctx[f]]
      /\ watched' = watched \ fs
      /\ conn' = [c \in Conns |->
                   IF \E f \in fs : kernel[f] = c \/ kernel[f] \in {conn[c]} \X {1, 2}
                   THEN "gone" ELSE conn[c]]
  BY DEF Destroy, CloseF
<1>2. \A f \in fs : kernel[f] \in ss /\ m_sock[kernel[f]] = f /\ f \in Fds
  BY ObjectFacts DEF IInv, Types, Descriptors
<1>3. \A s \in ss : m_sock[s] # NoFd => m_sock[s] \in fs
  OBVIOUS
<1> HIDE DEF fs
<1>4. \A x \in Objects : x \notin ss /\ m_sock[x] # NoFd => m_sock[x] \notin fs /\ m_sock[x] \in Fds
  BY <1>2 DEF IInv, Types, Descriptors
<1>5. \A c \in Conns : conn'[c] \in {conn[c], "gone"} /\ conn[c] \in Addresses \cup {"none", "open", "gone"}
  BY <1>1 DEF IInv, Types
<1>6. Descriptors'
  <2>1. \A x \in Objects : m_sock'[x] # NoFd => kernel'[m_sock'[x]] = x
    BY <1>1, <1>4 DEF IInv, Descriptors
  <2>2. \A s \in Listeners : m_sock'[s] # NoFd => ctx'[m_sock'[s]] = s
    BY <1>1, <1>4, ObjectFacts DEF IInv, Descriptors
  <2>3. \A f \in Fds : ctx'[f] # Nobody => kernel'[f] = ctx'[f] /\ m_sock'[ctx'[f]] = f
    <3>1. ASSUME NEW f \in Fds, f \notin fs, ctx[f] # Nobody
          PROVE  kernel[f] = ctx[f] /\ m_sock'[ctx[f]] = f
      <4>1. ctx[f] \in Objects /\ kernel[f] = ctx[f] /\ m_sock[ctx[f]] = f /\ f # NoFd
        BY <3>1, ObjectFacts DEF IInv, Types, Descriptors
      <4>2. ctx[f] \notin ss
        BY <1>3, <3>1, <4>1
      <4>3. QED BY <1>1, <4>1, <4>2
    <3>2. QED BY <1>1, <3>1
  <2>4. \A f \in Fds : kernel'[f] \in Listeners => m_sock'[kernel'[f]] = f
    <3>1. ASSUME NEW f \in Fds, f \notin fs, kernel[f] \in Listeners PROVE m_sock'[kernel[f]] = f
      <4>1. kernel[f] \in Objects /\ m_sock[kernel[f]] = f /\ f # NoFd
        BY <3>1, ObjectFacts DEF IInv, Descriptors
      <4>2. kernel[f] \notin ss
        BY <1>3, <3>1, <4>1
      <4>3. QED BY <1>1, <4>1, <4>2
    <3>2. QED BY <1>1, <3>1, ObjectFacts
  <2>5. \A f, g \in Fds : kernel'[f] # Nobody /\ kernel'[f] = kernel'[g] => f = g
    BY <1>1 DEF IInv, Descriptors
  <2>6. \A s, u \in Listeners : m_sock'[s] # NoFd /\ m_sock'[u] # NoFd /\ s[1] = u[1] => s = u
    BY <1>1, ObjectFacts DEF IInv, Descriptors
  <2>7. QED BY <2>1, <2>2, <2>3, <2>4, <2>5, <2>6 DEF Descriptors
<1>7. SocketsInv'
  BY DEF SocketsInv, Distinct, ToSet
<1>8. AcceptInv'
  <2>1. ASSUME NEW t \in Accepts, pc[t] # "none" PROVE m_sock'[t[2]] = m_sock[t[2]]
    <3>1. t[2] \in Objects /\ t[2] \notin ss
      BY <2>1, TaskFacts, ObjectFacts DEF InUse
    <3>2. QED BY <1>1, <3>1
  <2>2. QED BY <2>1 DEF IInv, AcceptInv
<1>9. AdoptInv'
  <2>1. ASSUME NEW t \in Accepts, pc[t] = "adopt"
        PROVE  /\ newConn[t] \in Conns
               /\ pc'[Client(newConn[t])] = "none" /\ m_sock'[newConn[t]] = NoFd
               /\ conn'[newConn[t]] \in {"open", "gone"}
               /\ \E g \in Fds : kernel'[g] = newConn[t]
    <3>1. /\ newConn[t] \in Conns
          /\ pc[Client(newConn[t])] = "none" /\ m_sock[newConn[t]] = NoFd
          /\ conn[newConn[t]] \in {"open", "gone"}
      BY <2>1 DEF IInv, AdoptInv
    <3>2. PICK g \in Fds : kernel[g] = newConn[t]
      BY <2>1 DEF IInv, AdoptInv
    <3>3. g \notin fs
      BY <1>2, <3>1, <3>2, ObjectFacts
    <3>4. newConn[t] \in Objects /\ Client(newConn[t]) \in Clients
      BY <3>1, TaskFacts, ObjectFacts
    <3>5. QED BY <1>1, <1>5, <3>1, <3>2, <3>3, <3>4
  <2>2. QED BY <2>1 DEF IInv, AdoptInv
<1>10. ClientInv'
  <2>1. ASSUME NEW c \in Conns
        PROVE  /\ m_sock'[c] = m_sock[c] /\ pc'[Client(c)] = pc[Client(c)]
               /\ m_sock[c] # NoFd => ctx'[m_sock[c]] = ctx[m_sock[c]]
               /\ (\A g \in Fds : kernel[g] # c) => \A g \in Fds : kernel'[g] # c
               /\ conn'[c] \in Addresses \cup {"none"} => conn[c] = conn'[c]
               /\ conn[c] \in {"open", "gone"} => conn'[c] \in {"open", "gone"}
    <3>1. c \in Objects /\ c \notin ss /\ c # Nobody /\ Client(c) \in Clients
      BY ObjectFacts, TaskFacts
    <3>2. QED BY <1>1, <1>4, <1>5, <3>1, ObjectFacts
  <2>2. QED BY <2>1 DEF IInv, ClientInv
<1>11. EventInv'
  <2>1. \A f \in fs : waiting[f] = Nobody
    <3> SUFFICES ASSUME NEW f \in fs, waiting[f] # Nobody PROVE FALSE
      OBVIOUS
    <3>1. /\ f \in Fds /\ kernel[f] \in ss /\ waiting[f] \in Accepts \cup Clients
          /\ pc[waiting[f]] = "try" /\ fd[waiting[f]] = f
      BY <1>2 DEF IInv, PlaceInv
    <3>2. CASE waiting[f] \in Accepts
      <4> DEFINE t == waiting[f]
      <4>1. m_sock[t[2]] = f /\ m_sock[t[2]] # NoFd /\ t[2] \in Listeners /\ t[2] \in Objects
        BY <3>1, <3>2, TaskFacts, ObjectFacts DEF IInv, AcceptInv
      <4>2. kernel[f] = t[2]
        BY <4>1 DEF IInv, Descriptors
      <4>3. QED BY <3>1, <3>2, <4>2 DEF InUse
    <3>3. CASE waiting[f] \in Clients
      <4>1. PICK c \in Conns : waiting[f] = Client(c)
        BY <3>3, TaskFacts
      <4>2. m_sock[c] = f /\ m_sock[c] # NoFd /\ c \in Objects
        BY <3>1, <4>1, ObjectFacts DEF IInv, ClientInv
      <4>3. kernel[f] = c
        BY <4>2 DEF IInv, Descriptors
      <4>4. QED BY <3>1, <4>3, ObjectFacts
    <3>4. QED BY <3>1, <3>2, <3>3
  <2>2. QED BY <1>1, <2>1 DEF IInv, EventInv
<1>12. /\ m_sock' \in [Objects -> Fds \cup {NoFd}]
       /\ kernel' \in [Fds -> Objects \cup {Nobody}]
       /\ ctx' \in [Fds -> Objects \cup {Nobody}]
  BY <1>1 DEF IInv, Types
<1>13. conn' \in [Conns -> Addresses \cup {"none", "open", "gone"}]
  BY <1>1 DEF IInv, Types
<1>14. QED BY <1>6, <1>7, <1>8, <1>9, <1>10, <1>11, <1>12, <1>13

LEMMA BindEndStep == ASSUME IInv, BindEnd PROVE IInv'
<1> DEFINE to == IF calls > 0 THEN "serving" ELSE IF failed THEN "sleep" ELSE "start"
           ss == {s \in Listeners : InServer(s) /\ ~InUse(s)}
<1>0. /\ Program \in running /\ pc[Program] = "bind" /\ pc' = [pc EXCEPT ![Program] = to]
      /\ UNCHANGED <<queue, running, fd, newConn, todo, usage, calls, isStop, waiting, died>>
      /\ \/ m_sockets' = <<>> /\ Destroy(ss)
         \/ UNCHANGED <<m_sockets, fdVars, watched, conn>>
  BY DEF BindEnd, At, Goto, schedVars
<1>1. to \in {"serving", "sleep", "start"} /\ (calls > 0 <=> to = "serving")
  OBVIOUS
<1> HIDE DEF to
<1>2. pc'[Program] = to /\ \A t \in Tasks : t # Program => pc'[t] = pc[t]
  BY <1>0, TaskFacts DEF IInv, Types
<1>3. \A t \in Accepts \cup Clients : pc'[t] = pc[t]
  BY <1>2, TaskFacts
<1>4. Phases'
  <2>1. calls \in Nat
    BY DEF IInv, Types
  <2>2. QED BY <1>0, <1>1, <1>2, <2>1, TaskFacts DEF IInv, Phases, NoStop
<1>5. PlaceInv'
  <2>1. Distinct(queue) /\ ToSet(queue) \cap running = {}
    BY DEF IInv, PlaceInv
  <2>2. Distinct(queue') /\ ToSet(queue') = ToSet(queue)
    BY <1>0, <2>1
  <2>3. QED BY <1>0, <1>1, <1>2, <2>1, <2>2, ProgramPlace
<1>6. pc' \in [Tasks -> Stages]
  BY <1>0, <1>1 DEF IInv, Types, Stages
<1>7. CASE m_sockets' = <<>> /\ Destroy(ss)
  <2>1. ss \in SUBSET Listeners /\ (\A s \in ss : ~InUse(s))
        /\ ToSet(m_sockets) \subseteq ss \cup {s \in Listeners : InUse(s)}
    <3>1. m_sockets \in Seq(Listeners)
      BY DEF IInv, Types
    <3>2. ToSet(m_sockets) \subseteq Listeners
      BY <3>1 DEF ToSet
    <3>3. QED BY <3>2 DEF InServer
  <2> HIDE DEF ss
  <2>2. /\ Descriptors' /\ SocketsInv' /\ AcceptInv' /\ AdoptInv' /\ ClientInv' /\ EventInv'
        /\ m_sock' \in [Objects -> Fds \cup {NoFd}]
        /\ kernel' \in [Fds -> Objects \cup {Nobody}]
        /\ ctx' \in [Fds -> Objects \cup {Nobody}]
        /\ conn' \in [Conns -> Addresses \cup {"none", "open", "gone"}]
        /\ m_sockets' \in Seq(Listeners)
    BY <1>0, <1>3, <1>7, <2>1, Destroyed
  <2>3. Types'
    BY <1>0, <1>6, <2>2 DEF IInv, Types
  <2>4. QED BY <1>4, <1>5, <2>2, <2>3 DEF IInv
<1>8. CASE UNCHANGED <<m_sockets, fdVars, watched, conn>>
  <2>1. AcceptInv' /\ AdoptInv' /\ ClientInv'
    BY <1>0, <1>3, <1>8, KeepTasks DEF IInv
  <2>2. Descriptors' /\ SocketsInv' /\ EventInv'
    BY <1>0, <1>8, KeepDescriptors, KeepSockets, KeepEvents DEF IInv, fdVars, eventVars
  <2>3. Types'
    BY <1>0, <1>6, <1>8 DEF IInv, Types, fdVars
  <2>4. QED BY <1>4, <1>5, <2>1, <2>2, <2>3 DEF IInv
<1>9. QED BY <1>0, <1>7, <1>8

LEMMA EndProgramStep == ASSUME IInv, EndProgram PROVE IInv'
<1> DEFINE ss == ToSet(m_sockets)
<1>0. /\ Program \in running /\ pc[Program] \in {"start", "call"}
      /\ pc' = [pc EXCEPT ![Program] = "end"] /\ running' = running \ {Program}
      /\ UNCHANGED <<queue, fd, newConn, todo, usage, calls, isStop, waiting, died>>
      /\ \/ (\A t \in Tasks \ {Program} : pc[t] = "none") /\ Destroy(ss) /\ m_sockets' = <<>>
         \/ UNCHANGED <<m_sockets, fdVars, watched, conn>>
  BY DEF EndProgram, At, Goto, Leave, progVars
<1>2. pc'[Program] = "end" /\ \A t \in Tasks : t # Program => pc'[t] = pc[t]
  BY <1>0, TaskFacts DEF IInv, Types
<1>3. \A t \in Accepts \cup Clients : pc'[t] = pc[t]
  BY <1>2, TaskFacts
<1>4. Phases'
  BY <1>0, <1>2, TaskFacts DEF IInv, Phases, NoStop
<1>5. PlaceInv'
  <2>1. Distinct(queue) /\ ToSet(queue) \cap running = {}
    BY DEF IInv, PlaceInv
  <2>2. Distinct(queue') /\ ToSet(queue') = ToSet(queue)
    BY <1>0, <2>1
  <2>3. QED BY <1>0, <1>2, <2>1, <2>2, ProgramPlace
<1>6. pc' \in [Tasks -> Stages]
  BY <1>0 DEF IInv, Types, Stages
<1>7. CASE (\A t \in Tasks \ {Program} : pc[t] = "none") /\ Destroy(ss) /\ m_sockets' = <<>>
  <2>1. ss \in SUBSET Listeners
    <3>1. m_sockets \in Seq(Listeners)
      BY DEF IInv, Types
    <3>2. QED BY <3>1 DEF ToSet
  <2>2. \A s \in ss : ~InUse(s)
    BY <1>7, TaskFacts DEF InUse
  <2>3. ToSet(m_sockets) \subseteq ss \cup {s \in Listeners : InUse(s)}
    OBVIOUS
  <2> HIDE DEF ss
  <2>4. /\ Descriptors' /\ SocketsInv' /\ AcceptInv' /\ AdoptInv' /\ ClientInv' /\ EventInv'
        /\ m_sock' \in [Objects -> Fds \cup {NoFd}]
        /\ kernel' \in [Fds -> Objects \cup {Nobody}]
        /\ ctx' \in [Fds -> Objects \cup {Nobody}]
        /\ conn' \in [Conns -> Addresses \cup {"none", "open", "gone"}]
        /\ m_sockets' \in Seq(Listeners)
    BY <1>0, <1>3, <1>7, <2>1, <2>2, <2>3, Destroyed
  <2>5. Types'
    BY <1>0, <1>6, <2>4 DEF IInv, Types
  <2>6. QED BY <1>4, <1>5, <2>4, <2>5 DEF IInv
<1>8. CASE UNCHANGED <<m_sockets, fdVars, watched, conn>>
  <2>1. AcceptInv' /\ AdoptInv' /\ ClientInv'
    BY <1>0, <1>3, <1>8, KeepTasks DEF IInv
  <2>2. Descriptors' /\ SocketsInv' /\ EventInv'
    BY <1>0, <1>8, KeepDescriptors, KeepSockets, KeepEvents DEF IInv, fdVars, eventVars
  <2>3. Types'
    BY <1>0, <1>6, <1>8 DEF IInv, Types, fdVars
  <2>4. QED BY <1>4, <1>5, <2>1, <2>2, <2>3 DEF IInv
<1>9. QED BY <1>0, <1>7, <1>8

-----------------------------------------------------------------------------
(***************************************************************************)
(* The tasks of the server.                                                *)
(***************************************************************************)

\* The server runs while an accept task or a client does.
LEMMA TaskPhase ==
  ASSUME IInv, NEW t \in Accepts \cup Clients, pc[t] # "none",
         UNCHANGED <<usage, calls, isStop>>,
         \A u \in Tasks : u \notin Accepts \cup Clients => pc'[u] = pc[u] /\ fd'[u] = fd[u]
  PROVE  Phases' /\ ~isStop
<1>1. ~isStop
  BY TaskFacts DEF IInv, Phases
<1>2. \A u \in Stops : u \in Tasks /\ u \notin Accepts \cup Clients
  BY TaskFacts
<1>3. Program \in Tasks /\ Program \notin Accepts \cup Clients
  BY TaskFacts
<1>4. QED BY <1>1, <1>2, <1>3 DEF IInv, Phases, NoStop

\* A task on a thread is at no event: it goes on there, or leaves it.
LEMMA TaskPlace ==
  ASSUME IInv, NEW t \in running,
         \A u \in Tasks : u # t => pc'[u] = pc[u] /\ fd'[u] = fd[u],
         UNCHANGED <<queue, waiting>>,
         \/ running' = running /\ pc'[t] \notin {"none", "asleep"}
         \/ running' = running \ {t}
  PROVE  PlaceInv'
<1>1. ToSet(queue) \cup running \subseteq Tasks
  BY DEF IInv, Types, ToSet
<1>2. Distinct(queue') /\ ToSet(queue') = ToSet(queue) /\ running' \subseteq running
  BY DEF IInv, PlaceInv
<1>3. ToSet(queue') \cap running' = {} /\ t \notin ToSet(queue)
  BY <1>2 DEF IInv, PlaceInv
<1>4. \A u \in ToSet(queue') \cup running' : pc'[u] \notin {"none", "asleep"}
  BY <1>1, <1>2, <1>3 DEF IInv, PlaceInv
<1>5. ASSUME NEW f \in Fds, waiting[f] # Nobody
      PROVE  /\ waiting[f] \in Accepts \cup Clients /\ pc'[waiting[f]] = "try"
             /\ fd'[waiting[f]] = f /\ waiting[f] \notin ToSet(queue') \cup running'
  <2>1. /\ waiting[f] \in Accepts \cup Clients /\ pc[waiting[f]] = "try" /\ fd[waiting[f]] = f
        /\ waiting[f] \notin ToSet(queue) \cup running
    BY <1>5 DEF IInv, PlaceInv
  <2>2. waiting[f] \in Tasks /\ waiting[f] # t
    BY <2>1, TaskFacts
  <2>3. QED BY <1>2, <2>1, <2>2
<1>6. QED BY <1>2, <1>3, <1>4, <1>5 DEF PlaceInv

\* Where a task of the server is decides what it is.
LEMMA TaskKind ==
  ASSUME IInv, NEW t \in running
  PROVE  /\ t \in Tasks /\ t \notin Stops /\ pc[t] # "none"
         /\ pc[t] \in {"event", "close", "del", "closef"} => t \in Accepts \cup Clients
         /\ pc[t] \in {"close", "del", "closef"} => t \in Clients
<1>1. t \in Tasks /\ pc[t] # "none"
  BY DEF IInv, Types, PlaceInv
<1>2. t \notin Stops
  BY <1>1 DEF IInv, Phases
<1>3. t = Program => pc[t] \in {"bind", "sleep", "start", "end", "serving", "asleep", "call"}
  BY DEF IInv, Phases
<1>4. t \in Accepts => pc[t] \in {"none", "loop", "try", "event", "adopt"}
  BY DEF IInv, AcceptInv
<1>5. QED BY <1>1, <1>2, <1>3, <1>4, TaskFacts

LEMMA AcceptLoopStep == ASSUME IInv, NEW t \in running, AcceptLoop(t) PROVE IInv'
<1>0. t \in Accepts /\ t \in Tasks /\ pc[t] = "loop"
  BY TaskKind DEF AcceptLoop, At
<1>1. ~isStop
  BY <1>0 DEF IInv, Phases, AcceptInv, At
<1>2. /\ pc' = [pc EXCEPT ![t] = "try"] /\ fd' = [fd EXCEPT ![t] = m_sock[t[2]]]
      /\ UNCHANGED <<queue, running, todo, newConn, usage, failed, calls, isStop, m_sockets, m_sock,
                     kernel, ctx, waiting, watched, busy, conn, data, died>>
  BY <1>1 DEF AcceptLoop, Goto, progVars, serverVars, fdVars, eventVars, netVars
<1>3. /\ pc'[t] = "try" /\ fd'[t] = m_sock[t[2]]
      /\ \A u \in Tasks : u # t => pc'[u] = pc[u] /\ fd'[u] = fd[u]
  BY <1>0, <1>2 DEF IInv, Types
<1>4. Types'
  <2>1. m_sock[t[2]] \in Fds \cup {NoFd}
    BY <1>0, TaskFacts, ObjectFacts DEF IInv, Types
  <2>2. pc' \in [Tasks -> Stages] /\ fd' \in [Tasks -> Fds \cup {NoFd}]
    BY <1>2, <2>1 DEF IInv, Types, Stages
  <2>3. QED BY <1>2, <2>2 DEF IInv, Types
<1>5. Phases'
  BY <1>0, <1>2, <1>3, TaskPhase
<1>6. PlaceInv'
  BY <1>2, <1>3, TaskPlace
<1>7. AcceptInv'
  <2>1. ASSUME NEW u \in Accepts
        PROVE  /\ pc'[u] \in {"none", "loop", "try", "event", "adopt"}
               /\ pc'[u] # "none" => m_sock[u[2]] # NoFd /\ u[3] = 1
               /\ pc'[u] \in {"try", "event", "adopt"} => fd'[u] = m_sock[u[2]]
    <3>1. CASE u = t
      BY <1>0, <1>3, <3>1 DEF IInv, AcceptInv
    <3>2. CASE u # t
      BY <1>3, <2>1, <3>2, TaskFacts DEF IInv, AcceptInv
    <3>3. QED BY <3>1, <3>2
  <2>2. QED BY <1>2, <2>1 DEF AcceptInv
<1>8. AdoptInv'
  <2>1. \A u \in Accepts : pc'[u] = "adopt" <=> pc[u] = "adopt"
    BY <1>0, <1>3, TaskFacts
  <2>2. \A c \in Conns : pc'[Client(c)] = pc[Client(c)]
    BY <1>0, <1>3, TaskFacts
  <2>3. QED BY <1>2, <2>1, <2>2 DEF IInv, AdoptInv
<1>9. ClientInv'
  <2>1. \A c \in Conns : pc'[Client(c)] = pc[Client(c)] /\ fd'[Client(c)] = fd[Client(c)]
    BY <1>0, <1>3, TaskFacts
  <2>2. QED BY <1>2, <2>1 DEF IInv, ClientInv
<1>10. QED BY <1>2, <1>4, <1>5, <1>6, <1>7, <1>8, <1>9, KeepDescriptors, KeepSockets, KeepEvents
         DEF IInv, fdVars, eventVars

\* An accept task finds no connection.
LEMMA AcceptWaits ==
  ASSUME IInv, NEW t \in running, t \in Accepts, pc[t] = "try",
         pc' = [pc EXCEPT ![t] = "event"],
         UNCHANGED <<queue, running, todo, fd, newConn, usage, failed, calls, isStop, m_sockets,
                     m_sock, kernel, ctx, waiting, watched, busy, conn, data, died>>
  PROVE  IInv'
<1>1. t \in Tasks
  BY TaskFacts
<1>2. pc'[t] = "event" /\ \A u \in Tasks : u # t => pc'[u] = pc[u] /\ fd'[u] = fd[u]
  BY <1>1 DEF IInv, Types
<1>3. Types'
  <2>1. pc' \in [Tasks -> Stages]
    BY DEF IInv, Types, Stages
  <2>2. QED BY <2>1 DEF IInv, Types
<1>4. Phases'
  BY <1>2, TaskPhase
<1>5. PlaceInv'
  BY <1>2, TaskPlace
<1>6. AcceptInv'
  <2>1. ASSUME NEW u \in Accepts
        PROVE  /\ pc'[u] \in {"none", "loop", "try", "event", "adopt"}
               /\ pc'[u] # "none" => m_sock[u[2]] # NoFd /\ u[3] = 1
               /\ pc'[u] \in {"try", "event", "adopt"} => fd'[u] = m_sock[u[2]]
    <3>1. CASE u = t
      BY <1>2, <3>1 DEF IInv, AcceptInv
    <3>2. CASE u # t
      BY <1>2, <2>1, <3>2, TaskFacts DEF IInv, AcceptInv
    <3>3. QED BY <3>1, <3>2
  <2>2. QED BY <2>1 DEF AcceptInv
<1>7. AdoptInv'
  <2>1. \A u \in Accepts : pc'[u] = "adopt" <=> pc[u] = "adopt"
    BY <1>2, TaskFacts
  <2>2. \A c \in Conns : pc'[Client(c)] = pc[Client(c)]
    BY <1>2, TaskFacts
  <2>3. QED BY <2>1, <2>2 DEF IInv, AdoptInv
<1>8. ClientInv'
  <2>1. \A c \in Conns : pc'[Client(c)] = pc[Client(c)]
    BY <1>2, TaskFacts
  <2>2. QED BY <2>1 DEF IInv, ClientInv
<1>9. QED BY <1>3, <1>4, <1>5, <1>6, <1>7, <1>8, KeepDescriptors, KeepSockets, KeepEvents
        DEF IInv, fdVars, eventVars

\* accept_f returns connection c on the free descriptor g.
LEMMA AcceptTakes ==
  ASSUME IInv, NEW t \in running, t \in Accepts, pc[t] = "try",
         NEW c \in Conns, conn[c] \in Addresses, NEW g \in Fds, kernel[g] = Nobody,
         pc' = [pc EXCEPT ![t] = "adopt"], kernel' = [kernel EXCEPT ![g] = c],
         conn' = [conn EXCEPT ![c] = "open"], newConn' = [newConn EXCEPT ![t] = c],
         UNCHANGED <<queue, running, todo, fd, usage, failed, calls, isStop, m_sockets,
                     m_sock, ctx, waiting, watched, busy, data, died>>
  PROVE  IInv'
<1>1. t \in Tasks /\ c \in Objects
  BY TaskFacts, ObjectFacts
<1>2. /\ pc'[t] = "adopt" /\ newConn'[t] = c
      /\ \A u \in Tasks : u # t => pc'[u] = pc[u] /\ newConn'[u] = newConn[u] /\ fd'[u] = fd[u]
  BY <1>1 DEF IInv, Types
<1>3. kernel'[g] = c /\ \A f \in Fds : f # g => kernel'[f] = kernel[f]
  BY DEF IInv, Types
<1>4. conn'[c] = "open" /\ \A d \in Conns : d # c => conn'[d] = conn[d]
  BY DEF IInv, Types
<1>5. /\ m_sock[c] = NoFd /\ \A f \in Fds : kernel[f] # c
      /\ pc[Client(c)] = "none"
  BY ObjectFacts DEF IInv, ClientInv
<1>6. Types'
  <2>1. pc' \in [Tasks -> Stages] /\ newConn' \in [Tasks -> Conns \cup {Nobody}]
    BY DEF IInv, Types, Stages
  <2>2. kernel' \in [Fds -> Objects \cup {Nobody}]
    BY <1>1 DEF IInv, Types
  <2>3. conn' \in [Conns -> Addresses \cup {"none", "open", "gone"}]
    BY DEF IInv, Types
  <2>4. QED BY <2>1, <2>2, <2>3 DEF IInv, Types
<1>7. Phases'
  BY <1>2, TaskPhase
<1>8. PlaceInv'
  BY <1>2, TaskPlace
<1>9. Descriptors'
  <2>1. ASSUME NEW x \in Objects, m_sock[x] # NoFd PROVE kernel'[m_sock[x]] = x
    <3>1. kernel[m_sock[x]] = x /\ m_sock[x] \in Fds /\ x # Nobody
      BY <2>1, ObjectFacts DEF IInv, Types, Descriptors
    <3>2. QED BY <1>3, <3>1
  <2>2. ASSUME NEW f \in Fds, ctx[f] # Nobody PROVE kernel'[f] = ctx[f] /\ m_sock[ctx[f]] = f
    <3>1. kernel[f] = ctx[f] /\ m_sock[ctx[f]] = f
      BY <2>2 DEF IInv, Descriptors
    <3>2. QED BY <1>3, <2>2, <3>1
  <2>3. ASSUME NEW f \in Fds, kernel'[f] \in Listeners PROVE m_sock[kernel'[f]] = f
    <3>1. f # g
      BY <1>3, <2>3, ObjectFacts
    <3>2. QED BY <1>3, <2>3, <3>1 DEF IInv, Descriptors
  <2>4. ASSUME NEW f \in Fds, NEW h \in Fds, kernel'[f] # Nobody, kernel'[f] = kernel'[h]
        PROVE  f = h
    BY <1>3, <1>5, <2>4 DEF IInv, Descriptors
  <2>5. QED BY <2>1, <2>2, <2>3, <2>4 DEF IInv, Descriptors
<1>10. AcceptInv'
  <2>1. ASSUME NEW u \in Accepts
        PROVE  /\ pc'[u] \in {"none", "loop", "try", "event", "adopt"}
               /\ pc'[u] # "none" => m_sock[u[2]] # NoFd /\ u[3] = 1
               /\ pc'[u] \in {"try", "event", "adopt"} => fd'[u] = m_sock[u[2]]
    <3>1. CASE u = t
      BY <1>2, <3>1 DEF IInv, AcceptInv
    <3>2. CASE u # t
      BY <1>2, <2>1, <3>2, TaskFacts DEF IInv, AcceptInv
    <3>3. QED BY <3>1, <3>2
  <2>2. QED BY <2>1 DEF AcceptInv
<1>11. \A d \in Conns : pc'[Client(d)] = pc[Client(d)] /\ fd'[Client(d)] = fd[Client(d)]
  BY <1>2, TaskFacts
<1>12. AdoptInv'
  <2>1. ASSUME NEW u \in Accepts, pc'[u] = "adopt"
        PROVE  /\ newConn'[u] \in Conns
               /\ pc'[Client(newConn'[u])] = "none" /\ m_sock[newConn'[u]] = NoFd
               /\ conn'[newConn'[u]] \in {"open", "gone"}
               /\ \E f \in Fds : kernel'[f] = newConn'[u]
    <3>1. CASE u = t
      BY <1>2, <1>3, <1>4, <1>5, <1>11, <3>1
    <3>2. CASE u # t
      <4>1. pc[u] = "adopt" /\ newConn'[u] = newConn[u]
        BY <1>2, <2>1, <3>2, TaskFacts
      <4>2. /\ newConn[u] \in Conns
            /\ pc[Client(newConn[u])] = "none" /\ m_sock[newConn[u]] = NoFd
            /\ conn[newConn[u]] \in {"open", "gone"}
            /\ \E f \in Fds : kernel[f] = newConn[u]
        BY <2>1, <4>1 DEF IInv, AdoptInv
      <4>3. newConn[u] # c /\ newConn[u] # Nobody
        BY <4>2, ObjectFacts
      <4>4. \E f \in Fds : kernel'[f] = newConn[u]
        BY <1>3, <4>2, <4>3
      <4>5. QED BY <1>4, <1>11, <4>1, <4>2, <4>3, <4>4
    <3>3. QED BY <3>1, <3>2
  <2>2. \A u \in Accepts : u # t /\ pc'[u] = "adopt" =>
          pc[u] = "adopt" /\ newConn'[u] = newConn[u] /\ newConn[u] # c
    <3>1. ASSUME NEW u \in Accepts, u # t, pc'[u] = "adopt"
          PROVE  pc[u] = "adopt" /\ newConn'[u] = newConn[u] /\ newConn[u] # c
      <4>1. pc[u] = "adopt" /\ newConn'[u] = newConn[u]
        BY <1>2, <3>1, TaskFacts
      <4>2. \E f \in Fds : kernel[f] = newConn[u]
        BY <4>1 DEF IInv, AdoptInv
      <4>3. QED BY <1>5, <4>1, <4>2
    <3>2. QED BY <3>1
  <2>3. ASSUME NEW u \in Accepts, NEW v \in Accepts, pc'[u] = "adopt", pc'[v] = "adopt",
               newConn'[u] = newConn'[v]
        PROVE  u = v
    BY <1>2, <2>2, <2>3 DEF IInv, AdoptInv
  <2>4. QED BY <2>1, <2>3 DEF AdoptInv
<1>13. ClientInv'
  <2>1. ASSUME NEW d \in Conns, d # c, conn[d] \in Addresses \cup {"none"}, NEW f \in Fds
        PROVE  kernel'[f] # d
    <3>1. kernel[f] # d
      BY <2>1 DEF IInv, ClientInv
    <3>2. QED BY <1>3, <2>1, <3>1
  <2>2. conn'[c] \notin Addresses \cup {"none"}
    BY <1>4, ObjectFacts
  <2>3. \A d \in Conns : conn'[d] \in Addresses \cup {"none"} =>
          m_sock[d] = NoFd /\ \A f \in Fds : kernel'[f] # d
    BY <1>4, <2>1, <2>2 DEF IInv, ClientInv
  <2>4. \A d \in Conns : pc[Client(d)] # "none" => m_sock[d] # NoFd /\ conn'[d] \in {"open", "gone"}
    BY <1>4, <1>5 DEF IInv, ClientInv
  <2>5. QED BY <1>11, <2>3, <2>4 DEF IInv, ClientInv
<1>14. QED BY <1>6, <1>7, <1>8, <1>9, <1>10, <1>12, <1>13, KeepSockets, KeepEvents
         DEF IInv, eventVars

LEMMA TryAcceptStep == ASSUME IInv, NEW t \in running, TryAccept(t) PROVE IInv'
<1>0. t \in Accepts /\ pc[t] = "try"
  BY DEF TryAccept, At
<1>1. fd[t] = m_sock[t[2]] /\ m_sock[t[2]] # NoFd /\ t[2] \in Listeners /\ t[2] \in Objects
  BY <1>0, TaskFacts, ObjectFacts DEF IInv, AcceptInv
<1>2. fd[t] \in Fds /\ kernel[fd[t]] = t[2]
  BY <1>1 DEF IInv, Types, Descriptors
<1>3. UNCHANGED <<queue, running, todo, fd, usage, failed, calls, isStop, m_sockets,
                  m_sock, ctx, waiting, watched, busy, data, died>>
  BY DEF TryAccept, schedVars, progVars, serverVars, eventVars
<1>4. CASE Backlog(t[2][1]) = {}
  <2>1. pc' = [pc EXCEPT ![t] = "event"] /\ UNCHANGED <<kernel, newConn, conn>>
    BY <1>1, <1>2, <1>4 DEF TryAccept, Goto
  <2>2. QED BY <1>0, <1>3, <2>1, AcceptWaits
<1>5. CASE Backlog(t[2][1]) # {}
  <2>1. PICK c \in Backlog(t[2][1]) :
          /\ kernel' = [kernel EXCEPT ![Min(FreeFds)] = c]
          /\ conn' = [conn EXCEPT ![c] = "open"]
          /\ newConn' = [newConn EXCEPT ![t] = c]
          /\ pc' = [pc EXCEPT ![t] = "adopt"]
    BY <1>1, <1>2, <1>5 DEF TryAccept, Goto
  <2>2. c \in Conns /\ conn[c] \in Addresses
    BY <1>1, ObjectFacts DEF Backlog
  <2>3. \A f \in Fds : kernel[f] # c
    BY <2>2 DEF IInv, ClientInv
  <2>4. Min(FreeFds) \in Fds /\ kernel[Min(FreeFds)] = Nobody
    BY <2>2, <2>3, FreeDescriptor DEF IInv
  <2>5. QED BY <1>0, <1>3, <2>1, <2>2, <2>4, AcceptTakes
<1>6. QED BY <1>4, <1>5

LEMMA AdoptStep == ASSUME IInv, NEW t \in running, Adopt(t) PROVE IInv'
<1> DEFINE c == newConn[t]
           f == CHOOSE g \in Fds : kernel[g] = c
<1>0. t \in Accepts /\ t \in Tasks /\ pc[t] = "adopt"
  BY TaskFacts DEF Adopt, At
<1>1. /\ c \in Conns /\ pc[Client(c)] = "none" /\ m_sock[c] = NoFd
      /\ conn[c] \in {"open", "gone"} /\ \E g \in Fds : kernel[g] = c
  BY <1>0 DEF IInv, AdoptInv
<1>2. f \in Fds /\ kernel[f] = c
  BY <1>1
<1>3. /\ ctx' = GetContext(f, c) /\ m_sock' = [m_sock EXCEPT ![c] = f]
      /\ queue' = queue \o <<Client(c)>>
      /\ pc' = [pc EXCEPT ![Client(c)] = "loop", ![t] = "loop"]
      /\ newConn' = [newConn EXCEPT ![t] = Nobody]
      /\ UNCHANGED <<running, fd, todo, usage, failed, calls, isStop, m_sockets, kernel,
                     waiting, watched, busy, conn, data, died>>
  BY DEF Adopt, Schedule, progVars, serverVars, eventVars, netVars
<1> HIDE DEF f
<1>4. /\ Client(c) \in Tasks /\ Client(c) # t /\ Client(c) \notin Accepts /\ c \in Objects
      /\ Client(c) \in Clients /\ c # Nobody /\ f # NoFd
  BY <1>0, <1>1, <1>2, TaskFacts, ObjectFacts
<1>5. ctx[f] = Nobody
  <2>1. ctx[f] # Nobody => ctx[f] = c /\ m_sock[c] = f
    BY <1>2 DEF IInv, Descriptors
  <2>2. QED BY <1>1, <1>2, <1>4, <2>1
<1>6. ctx' = [ctx EXCEPT ![f] = c]
  BY <1>3, <1>5 DEF GetContext
<1>7. /\ pc'[t] = "loop" /\ pc'[Client(c)] = "loop"
      /\ \A u \in Tasks : u # t /\ u # Client(c) => pc'[u] = pc[u]
      /\ \A u \in Tasks : u # t => newConn'[u] = newConn[u]
  <2>1. pc \in [Tasks -> Stages] /\ newConn \in [Tasks -> Conns \cup {Nobody}]
    BY DEF IInv, Types
  <2> HIDE DEF c
  <2>2. QED BY <1>0, <1>3, <1>4, <2>1
<1> HIDE DEF c
<1>8. ctx'[f] = c /\ \A g \in Fds : g # f => ctx'[g] = ctx[g]
  BY <1>2, <1>6 DEF IInv, Types
<1>9. m_sock'[c] = f /\ \A x \in Objects : x # c => m_sock'[x] = m_sock[x]
  BY <1>3, <1>4 DEF IInv, Types
<1>10. /\ queue' \in Seq(Tasks) /\ Distinct(queue') /\ ToSet(queue') = ToSet(queue) \cup {Client(c)}
       /\ Client(c) \notin running
  <2>1. /\ queue \in Seq(Tasks) /\ Distinct(queue) /\ Client(c) \notin ToSet(queue)
        /\ Client(c) \notin running
    BY <1>1 DEF IInv, Types, PlaceInv
  <2>2. QED BY <1>3, <1>4, <2>1, OneMore
<1>11. Types'
  <2>1. pc' \in [Tasks -> Stages] /\ newConn' \in [Tasks -> Conns \cup {Nobody}]
    BY <1>3 DEF IInv, Types, Stages
  <2>2. ctx' \in [Fds -> Objects \cup {Nobody}] /\ m_sock' \in [Objects -> Fds \cup {NoFd}]
    BY <1>2, <1>3, <1>4, <1>6 DEF IInv, Types
  <2>3. QED BY <1>3, <1>10, <2>1, <2>2 DEF IInv, Types
<1>12. Phases'
  <2>1. \A u \in Tasks : u \notin Accepts \cup Clients => pc'[u] = pc[u] /\ fd'[u] = fd[u]
    BY <1>0, <1>3, <1>4, <1>7
  <2>2. QED BY <1>0, <1>3, <2>1, TaskPhase
<1>13. Descriptors'
  <2>1. ASSUME NEW x \in Objects, m_sock'[x] # NoFd PROVE kernel[m_sock'[x]] = x
    BY <1>2, <1>9, <2>1 DEF IInv, Descriptors
  <2>2. ASSUME NEW s \in Listeners, m_sock'[s] # NoFd PROVE ctx'[m_sock'[s]] = s
    <3>1. s # c /\ s \in Objects /\ s # Nobody
      BY <1>1, ObjectFacts
    <3>2. m_sock'[s] = m_sock[s] /\ ctx[m_sock[s]] = s /\ m_sock[s] \in Fds
      BY <1>9, <2>2, <3>1 DEF IInv, Descriptors, Types
    <3>3. QED BY <1>5, <1>8, <3>1, <3>2
  <2>3. ASSUME NEW g \in Fds, ctx'[g] # Nobody PROVE kernel[g] = ctx'[g] /\ m_sock'[ctx'[g]] = g
    <3>1. CASE g = f
      BY <1>2, <1>8, <1>9, <3>1
    <3>2. CASE g # f
      <4>1. ctx'[g] = ctx[g] /\ ctx[g] \in Objects
        BY <1>8, <2>3, <3>2 DEF IInv, Types
      <4>2. kernel[g] = ctx[g] /\ m_sock[ctx[g]] = g
        BY <2>3, <4>1 DEF IInv, Descriptors
      <4>3. ctx[g] # c
        BY <1>1, <4>2, ObjectFacts
      <4>4. QED BY <1>9, <4>1, <4>2, <4>3
    <3>3. QED BY <3>1, <3>2
  <2>4. ASSUME NEW g \in Fds, kernel[g] \in Listeners PROVE m_sock'[kernel[g]] = g
    <3>1. kernel[g] # c /\ kernel[g] \in Objects
      BY <1>1, <2>4, ObjectFacts
    <3>2. QED BY <1>9, <2>4, <3>1 DEF IInv, Descriptors
  <2>5. \A s \in Listeners : m_sock'[s] = m_sock[s]
    BY <1>1, <1>9, ObjectFacts
  <2>6. QED BY <1>3, <2>1, <2>2, <2>3, <2>4, <2>5 DEF IInv, Descriptors
<1>14. SocketsInv'
  <2>1. ToSet(m_sockets) \subseteq Listeners
    BY DEF IInv, Types, ToSet
  <2>2. \A s \in Listeners : m_sock'[s] = m_sock[s]
    BY <1>1, <1>9, ObjectFacts
  <2>3. Distinct(m_sockets') /\ ToSet(m_sockets') = ToSet(m_sockets)
    BY <1>3 DEF IInv, SocketsInv
  <2>4. QED BY <2>1, <2>2, <2>3 DEF IInv, SocketsInv
<1>15. AcceptInv'
  <2>1. ASSUME NEW u \in Accepts
        PROVE  /\ pc'[u] \in {"none", "loop", "try", "event", "adopt"}
               /\ pc'[u] # "none" => m_sock'[u[2]] # NoFd /\ u[3] = 1
               /\ pc'[u] \in {"try", "event", "adopt"} => fd[u] = m_sock'[u[2]]
    <3>1. m_sock'[u[2]] = m_sock[u[2]]
      BY <1>1, <1>9, TaskFacts, ObjectFacts
    <3>2. CASE u = t
      BY <1>0, <1>7, <3>1, <3>2 DEF IInv, AcceptInv
    <3>3. CASE u # t
      BY <1>4, <1>7, <2>1, <3>1, <3>3, TaskFacts DEF IInv, AcceptInv
    <3>4. QED BY <3>2, <3>3
  <2>2. QED BY <1>3, <2>1 DEF AcceptInv
<1>16. \A u \in Accepts : pc'[u] = "adopt" =>
         u # t /\ pc[u] = "adopt" /\ newConn'[u] = newConn[u]
  BY <1>4, <1>7, TaskFacts
<1>17. AdoptInv'
  <2>1. ASSUME NEW u \in Accepts, pc'[u] = "adopt"
        PROVE  /\ newConn'[u] \in Conns
               /\ pc'[Client(newConn'[u])] = "none" /\ m_sock'[newConn'[u]] = NoFd
               /\ conn[newConn'[u]] \in {"open", "gone"}
               /\ \E g \in Fds : kernel[g] = newConn'[u]
    <3>1. u # t /\ pc[u] = "adopt" /\ newConn'[u] = newConn[u]
      BY <1>16, <2>1
    <3>2. /\ newConn[u] \in Conns
          /\ pc[Client(newConn[u])] = "none" /\ m_sock[newConn[u]] = NoFd
          /\ conn[newConn[u]] \in {"open", "gone"}
          /\ \E g \in Fds : kernel[g] = newConn[u]
      BY <3>1 DEF IInv, AdoptInv
    <3>3. newConn[u] # c
      BY <1>0, <3>1 DEF IInv, AdoptInv, c
    <3>4. /\ Client(newConn[u]) \in Tasks /\ Client(newConn[u]) # t
          /\ Client(newConn[u]) # Client(c) /\ newConn[u] \in Objects
      BY <1>0, <1>1, <3>2, <3>3, TaskFacts, ObjectFacts
    <3>5. QED BY <1>7, <1>9, <3>1, <3>2, <3>3, <3>4
  <2>2. ASSUME NEW u \in Accepts, NEW v \in Accepts, pc'[u] = "adopt", pc'[v] = "adopt",
               newConn'[u] = newConn'[v]
        PROVE  u = v
    BY <1>16, <2>2 DEF IInv, AdoptInv
  <2>3. UNCHANGED <<conn, kernel>>
    BY <1>3
  <2>4. QED BY <2>1, <2>2, <2>3 DEF AdoptInv
<1>18. ClientInv'
  <2>1. ASSUME NEW d \in Conns, d # c
        PROVE  /\ pc'[Client(d)] = pc[Client(d)] /\ m_sock'[d] = m_sock[d]
               /\ m_sock[d] # NoFd => ctx'[m_sock[d]] = ctx[m_sock[d]]
    <3>1. Client(d) \in Tasks /\ Client(d) # t /\ Client(d) # Client(c) /\ d \in Objects
      BY <1>0, <1>1, <2>1, TaskFacts, ObjectFacts
    <3>2. m_sock[d] # NoFd => kernel[m_sock[d]] = d /\ m_sock[d] \in Fds
      BY <3>1 DEF IInv, Descriptors, Types
    <3>3. m_sock[d] # NoFd => m_sock[d] # f
      BY <1>2, <2>1, <3>2
    <3>4. QED BY <1>7, <1>8, <1>9, <2>1, <3>1, <3>2, <3>3
  <2>2. ASSUME NEW d \in Conns
        PROVE  /\ pc'[Client(d)] \in {"none", "loop", "try", "event", "close", "del", "closef"}
               /\ pc'[Client(d)] # "none" => m_sock'[d] # NoFd /\ conn[d] \in {"open", "gone"}
               /\ pc'[Client(d)] \in {"loop", "try", "event", "close", "del"} => ctx'[m_sock'[d]] = d
               /\ pc'[Client(d)] = "closef" => ctx'[m_sock'[d]] = Nobody
               /\ pc'[Client(d)] \in {"try", "event", "close", "del", "closef"} =>
                    fd[Client(d)] = m_sock'[d]
               /\ conn[d] \in Addresses \cup {"none"} =>
                    m_sock'[d] = NoFd /\ \A g \in Fds : kernel[g] # d
    <3>1. CASE d = c
      <4>1. conn[c] \notin Addresses \cup {"none"}
        BY <1>1, ObjectFacts
      <4>2. QED BY <1>1, <1>4, <1>7, <1>8, <1>9, <3>1, <4>1
    <3>2. CASE d # c
      BY <2>1, <3>2 DEF IInv, ClientInv
    <3>3. QED BY <3>1, <3>2
  <2>3. QED BY <1>3, <2>2 DEF ClientInv
<1>19. PlaceInv'
  <2>1. ToSet(queue) \cup running \subseteq Tasks
    BY DEF IInv, Types, ToSet
  <2>2. ToSet(queue') \cap running' = {}
    BY <1>3, <1>10 DEF IInv, PlaceInv
  <2>3. \A u \in ToSet(queue') \cup running' : pc'[u] \notin {"none", "asleep"}
    BY <1>3, <1>7, <1>10, <2>1 DEF IInv, PlaceInv
  <2>4. ASSUME NEW g \in Fds, waiting[g] # Nobody
        PROVE  /\ waiting[g] \in Accepts \cup Clients /\ pc'[waiting[g]] = "try"
               /\ fd[waiting[g]] = g /\ waiting[g] \notin ToSet(queue') \cup running
    <3>1. /\ waiting[g] \in Accepts \cup Clients /\ pc[waiting[g]] = "try" /\ fd[waiting[g]] = g
          /\ waiting[g] \notin ToSet(queue) \cup running
      BY <2>4 DEF IInv, PlaceInv
    <3>2. waiting[g] \in Tasks /\ waiting[g] # t /\ waiting[g] # Client(c)
      BY <1>1, <3>1, TaskFacts
    <3>3. QED BY <1>7, <1>10, <3>1, <3>2
  <2>5. QED BY <1>3, <1>10, <2>2, <2>3, <2>4 DEF PlaceInv
<1>20. QED BY <1>3, <1>11, <1>12, <1>13, <1>14, <1>15, <1>17, <1>18, <1>19, KeepEvents
         DEF IInv, eventVars

\* The descriptor of a task in a call is its Socket's, and no other task is in
\* a call on it.
LEMMA TaskSocket ==
  ASSUME IInv, NEW t \in Accepts \cup Clients,
         pc[t] \in {"try", "event", "close", "del", "closef"}
  PROVE  /\ fd[t] = m_sock[t[2]] /\ fd[t] \in Fds /\ t[2] \in Objects
         /\ kernel[fd[t]] = t[2]
         /\ \A u \in Accepts \cup Clients :
              pc[u] \in {"try", "event", "close", "del", "closef"} /\ fd[u] = fd[t] => u = t
<1>1. ASSUME NEW u \in Accepts \cup Clients, pc[u] \in {"try", "event", "close", "del", "closef"}
      PROVE  /\ fd[u] = m_sock[u[2]] /\ fd[u] \in Fds /\ u[2] \in Objects
             /\ kernel[fd[u]] = u[2]
             /\ u \in Accepts => u[2] \in Listeners /\ u[3] = 1
             /\ u \notin Accepts => u = Client(u[2]) /\ u[2] \in Conns
  <2>1. CASE u \in Accepts
    <3>1. u[2] \in Listeners /\ u[2] \in Objects
      BY <2>1, TaskFacts, ObjectFacts
    <3>2. pc[u] \in {"try", "event"} /\ m_sock[u[2]] # NoFd /\ u[3] = 1 /\ fd[u] = m_sock[u[2]]
      BY <1>1, <2>1 DEF IInv, AcceptInv
    <3>3. QED BY <2>1, <3>1, <3>2 DEF IInv, Types, Descriptors
  <2>2. CASE u \in Clients
    <3>1. PICK c \in Conns : u = Client(c)
      BY <2>2, TaskFacts
    <3>2. u[2] = c /\ c \in Objects /\ u \notin Accepts
      BY <3>1, TaskFacts, ObjectFacts
    <3>3. m_sock[c] # NoFd /\ fd[u] = m_sock[c]
      BY <1>1, <3>1 DEF IInv, ClientInv
    <3>4. QED BY <3>1, <3>2, <3>3 DEF IInv, Types, Descriptors
  <2>3. QED BY <2>1, <2>2
<1>2. ASSUME NEW u \in Accepts \cup Clients, pc[u] \in {"try", "event", "close", "del", "closef"},
             fd[u] = fd[t]
      PROVE  u = t
  <2>1. u[2] = t[2]
    BY <1>1, <1>2
  <2>2. CASE t \in Accepts /\ u \in Accepts
    <3>1. t[3] = 1 /\ u[3] = 1
      BY <1>1, <1>2, <2>2
    <3>2. QED BY <2>1, <2>2, <3>1, TaskFacts
  <2>3. CASE t \notin Accepts /\ u \notin Accepts
    <3>1. t = Client(t[2]) /\ u = Client(u[2])
      BY <1>1, <1>2, <2>3
    <3>2. QED BY <2>1, <3>1
  <2>4. CASE (t \in Accepts) # (u \in Accepts)
    <3>1. \/ t[2] \in Listeners /\ u[2] \in Conns
          \/ u[2] \in Listeners /\ t[2] \in Conns
      BY <1>1, <1>2, <2>4
    <3>2. QED BY <2>1, <3>1, ObjectFacts
  <2>5. QED BY <2>2, <2>3, <2>4
<1>3. QED BY <1>1, <1>2

\* No task waits for the descriptor of a task on a thread.
LEMMA NobodyElseWaits ==
  ASSUME IInv, NEW t \in running, t \in Accepts \cup Clients,
         pc[t] \in {"event", "close", "del", "closef"}
  PROVE  fd[t] \in Fds /\ waiting[fd[t]] = Nobody /\ fd[t] \notin watched
<1>1. fd[t] \in Fds
  BY TaskSocket
<1>2. ASSUME waiting[fd[t]] # Nobody PROVE FALSE
  <2> DEFINE u == waiting[fd[t]]
  <2>1. u \in Accepts \cup Clients /\ pc[u] = "try" /\ fd[u] = fd[t] /\ u \notin running
    BY <1>1, <1>2 DEF IInv, PlaceInv
  <2> HIDE DEF u
  <2>2. u = t
    BY <2>1, TaskSocket
  <2>3. QED BY <2>1, <2>2
<1>3. QED BY <1>1, <1>2 DEF IInv, EventInv

LEMMA AddEventStep == ASSUME IInv, NEW t \in running, AddEvent(t) PROVE IInv'
<1> DEFINE f == fd[t]
<1>0. t \in Tasks /\ t \in Accepts \cup Clients /\ pc[t] = "event"
  BY TaskKind DEF AddEvent, At
<1>1. f \in Fds /\ waiting[f] = Nobody /\ f \notin watched
  BY <1>0, NobodyElseWaits
<1>2. IsOpen(f)
  <2>1. kernel[f] = t[2] /\ t[2] \in Objects
    BY <1>0, TaskSocket
  <2>2. QED BY <1>1, <2>1, ObjectFacts DEF IsOpen
<1>3. /\ waiting' = [waiting EXCEPT ![f] = t] /\ watched' = watched \cup {f}
      /\ pc' = [pc EXCEPT ![t] = "try"] /\ running' = running \ {t}
      /\ UNCHANGED <<queue, todo, fd, newConn, usage, failed, calls, isStop, m_sockets, m_sock,
                     kernel, ctx, busy, conn, data, died>>
  BY <1>1, <1>2 DEF AddEvent, Goto, Leave, progVars, serverVars, fdVars, netVars
<1>4. pc'[t] = "try" /\ \A u \in Tasks : u # t => pc'[u] = pc[u]
  BY <1>0, <1>3 DEF IInv, Types
<1>5. waiting'[f] = t /\ \A g \in Fds : g # f => waiting'[g] = waiting[g]
  BY <1>1, <1>3 DEF IInv, Types
<1>6. Types'
  <2>1. pc' \in [Tasks -> Stages] /\ waiting' \in [Fds -> Tasks \cup {Nobody}]
    BY <1>0, <1>3 DEF IInv, Types, Stages
  <2>2. QED BY <1>3, <2>1 DEF IInv, Types
<1>7. Phases'
  <2>1. \A u \in Tasks : u \notin Accepts \cup Clients => pc'[u] = pc[u] /\ fd'[u] = fd[u]
    BY <1>0, <1>3, <1>4
  <2>2. QED BY <1>0, <1>3, <2>1, TaskPhase
<1>9. AcceptInv'
  <2>1. ASSUME NEW u \in Accepts
        PROVE  /\ pc'[u] \in {"none", "loop", "try", "event", "adopt"}
               /\ pc'[u] # "none" => m_sock[u[2]] # NoFd /\ u[3] = 1
               /\ pc'[u] \in {"try", "event", "adopt"} => fd[u] = m_sock[u[2]]
    <3>1. CASE u = t
      BY <1>0, <1>4, <3>1 DEF IInv, AcceptInv
    <3>2. CASE u # t
      BY <1>4, <2>1, <3>2, TaskFacts DEF IInv, AcceptInv
    <3>3. QED BY <3>1, <3>2
  <2>2. QED BY <1>3, <2>1 DEF AcceptInv
<1>10. AdoptInv'
  <2>1. \A u \in Accepts : pc'[u] = "adopt" <=> pc[u] = "adopt"
    BY <1>0, <1>4, TaskFacts
  <2>2. \A c \in Conns : pc[Client(c)] = "none" => pc'[Client(c)] = "none"
    BY <1>0, <1>4, TaskFacts
  <2>3. QED BY <1>3, <2>1, <2>2 DEF IInv, AdoptInv
<1>11. ClientInv'
  <2>1. \A c \in Conns : \/ pc'[Client(c)] = pc[Client(c)]
                         \/ pc'[Client(c)] = "try" /\ pc[Client(c)] = "event"
    BY <1>0, <1>4, TaskFacts
  <2>2. QED BY <1>3, <2>1 DEF IInv, ClientInv
<1>12. PlaceInv'
  <2>1. ToSet(queue) \cup running \subseteq Tasks /\ t \notin ToSet(queue)
    BY DEF IInv, Types, ToSet, PlaceInv
  <2>2. Distinct(queue') /\ ToSet(queue') = ToSet(queue) /\ ToSet(queue') \cap running' = {}
    BY <1>3 DEF IInv, PlaceInv
  <2>3. \A u \in ToSet(queue') \cup running' : pc'[u] \notin {"none", "asleep"}
    BY <1>3, <1>4, <2>1, <2>2 DEF IInv, PlaceInv
  <2>4. ASSUME NEW g \in Fds, waiting'[g] # Nobody
        PROVE  /\ waiting'[g] \in Accepts \cup Clients /\ pc'[waiting'[g]] = "try"
               /\ fd[waiting'[g]] = g /\ waiting'[g] \notin ToSet(queue') \cup running'
    <3>1. CASE g = f
      BY <1>0, <1>3, <1>4, <1>5, <2>1, <2>2, <3>1
    <3>2. CASE g # f
      <4>1. waiting'[g] = waiting[g]
        BY <1>5, <3>2
      <4>2. /\ waiting[g] \in Accepts \cup Clients /\ pc[waiting[g]] = "try" /\ fd[waiting[g]] = g
            /\ waiting[g] \notin ToSet(queue) \cup running
        BY <2>4, <4>1 DEF IInv, PlaceInv
      <4>3. waiting[g] \in Tasks /\ waiting[g] # t
        BY <4>2, TaskFacts
      <4>4. QED BY <1>3, <1>4, <2>2, <4>1, <4>2, <4>3
    <3>3. QED BY <3>1, <3>2
  <2>5. QED BY <1>3, <2>2, <2>3, <2>4 DEF PlaceInv
<1>13. EventInv'
  <2>1. died' = "no" /\ watched = {g \in Fds : waiting[g] # Nobody} /\ t # Nobody
    BY <1>0, <1>3, TaskFacts DEF IInv, EventInv
  <2> HIDE DEF f
  <2>2. watched' = {g \in Fds : waiting'[g] # Nobody}
    BY <1>1, <1>3, <1>5, <2>1
  <2>3. QED BY <2>1, <2>2 DEF EventInv
<1>14. QED BY <1>3, <1>6, <1>7, <1>9, <1>10, <1>11, <1>12, <1>13, KeepDescriptors, KeepSockets
         DEF IInv, fdVars

\* A client goes on with its Socket, or to closing it.
LEMMA ClientMoves ==
  ASSUME IInv, NEW c \in Conns, pc[Client(c)] \in {"loop", "try"},
         NEW to \in {"loop", "try", "event", "close"},
         pc' = [pc EXCEPT ![Client(c)] = to], fd' \in [Tasks -> Fds \cup {NoFd}],
         fd'[Client(c)] = m_sock[c], \A u \in Tasks : u # Client(c) => fd'[u] = fd[u],
         UNCHANGED <<newConn, todo, usage, calls, isStop, m_sockets, m_sock, kernel, ctx, conn>>
  PROVE  /\ Phases' /\ Descriptors' /\ SocketsInv' /\ AcceptInv' /\ AdoptInv' /\ ClientInv'
         /\ pc' \in [Tasks -> Stages] /\ pc'[Client(c)] = to
         /\ \A u \in Tasks : u # Client(c) => pc'[u] = pc[u]
<1>1. Client(c) \in Tasks /\ Client(c) \in Clients /\ Client(c) \notin Accepts
  BY TaskFacts
<1>2. pc'[Client(c)] = to /\ \A u \in Tasks : u # Client(c) => pc'[u] = pc[u]
  BY <1>1 DEF IInv, Types
<1>3. pc' \in [Tasks -> Stages]
  BY DEF IInv, Types, Stages
<1>4. Phases'
  <2>1. \A u \in Tasks : u \notin Accepts \cup Clients => pc'[u] = pc[u] /\ fd'[u] = fd[u]
    BY <1>1, <1>2
  <2>2. pc[Client(c)] # "none" /\ Client(c) \in Accepts \cup Clients
    BY <1>1
  <2>3. QED BY <2>1, <2>2, TaskPhase
<1>5. \A u \in Accepts : pc'[u] = pc[u] /\ fd'[u] = fd[u]
  BY <1>1, <1>2, TaskFacts
<1>6. AcceptInv'
  BY <1>5 DEF IInv, AcceptInv
<1>7. \A d \in Conns : d # c => pc'[Client(d)] = pc[Client(d)] /\ fd'[Client(d)] = fd[Client(d)]
  BY <1>2, TaskFacts
<1>8. AdoptInv'
  <2>1. \A d \in Conns : pc[Client(d)] = "none" => pc'[Client(d)] = "none"
    BY <1>7
  <2>2. QED BY <1>5, <2>1 DEF IInv, AdoptInv
<1>9. ClientInv'
  <2>1. ASSUME NEW d \in Conns
        PROVE  /\ pc'[Client(d)] \in {"none", "loop", "try", "event", "close", "del", "closef"}
               /\ pc'[Client(d)] # "none" => m_sock[d] # NoFd /\ conn[d] \in {"open", "gone"}
               /\ pc'[Client(d)] \in {"loop", "try", "event", "close", "del"} => ctx[m_sock[d]] = d
               /\ pc'[Client(d)] = "closef" => ctx[m_sock[d]] = Nobody
               /\ pc'[Client(d)] \in {"try", "event", "close", "del", "closef"} =>
                    fd'[Client(d)] = m_sock[d]
               /\ conn[d] \in Addresses \cup {"none"} =>
                    m_sock[d] = NoFd /\ \A g \in Fds : kernel[g] # d
    <3>1. CASE d = c
      BY <1>2, <3>1 DEF IInv, ClientInv
    <3>2. CASE d # c
      BY <1>7, <2>1, <3>2 DEF IInv, ClientInv
    <3>3. QED BY <3>1, <3>2
  <2>2. QED BY <2>1 DEF ClientInv
<1>10. QED BY <1>2, <1>3, <1>4, <1>6, <1>8, <1>9, KeepDescriptors, KeepSockets DEF IInv, fdVars

LEMMA ClientLoopStep == ASSUME IInv, NEW c \in Conns, ClientLoop(c) PROVE IInv'
<1> DEFINE to == IF isStop THEN "close" ELSE "try"
<1>1. /\ Client(c) \in running /\ pc[Client(c)] = "loop" /\ pc' = [pc EXCEPT ![Client(c)] = to]
      /\ fd' = [fd EXCEPT ![Client(c)] = m_sock[c]]
      /\ UNCHANGED <<queue, running, todo, newConn, usage, failed, calls, isStop, m_sockets, m_sock,
                     kernel, ctx, waiting, watched, busy, conn, data, died>>
  BY DEF ClientLoop, At, Goto, schedVars, progVars, serverVars, fdVars, eventVars, netVars
<1>2. Client(c) \in Tasks /\ m_sock[c] \in Fds \cup {NoFd} /\ fd \in [Tasks -> Fds \cup {NoFd}]
  BY TaskFacts, ObjectFacts DEF IInv, Types
<1>3. /\ fd' \in [Tasks -> Fds \cup {NoFd}] /\ fd'[Client(c)] = m_sock[c]
      /\ \A u \in Tasks : u # Client(c) => fd'[u] = fd[u]
  BY <1>1, <1>2
<1>4. to \in {"loop", "try", "event", "close"} /\ to \notin {"none", "asleep"}
  OBVIOUS
<1> HIDE DEF to
<1>5. /\ Phases' /\ Descriptors' /\ SocketsInv' /\ AcceptInv' /\ AdoptInv' /\ ClientInv'
      /\ pc' \in [Tasks -> Stages] /\ pc'[Client(c)] = to
      /\ \A u \in Tasks : u # Client(c) => pc'[u] = pc[u]
  BY <1>1, <1>3, <1>4, ClientMoves
<1>6. Types'
  BY <1>1, <1>3, <1>5 DEF IInv, Types
<1>7. PlaceInv'
  BY <1>1, <1>3, <1>4, <1>5, TaskPlace
<1>8. QED BY <1>1, <1>5, <1>6, <1>7, KeepEvents DEF IInv, eventVars

LEMMA TryRecvStep == ASSUME IInv, NEW c \in Conns, TryRecv(c) PROVE IInv'
<1> DEFINE to == CASE data[c] = "data" -> "loop" [] data[c] = "eof" -> "close" [] OTHER -> "event"
<1>1. /\ Client(c) \in running /\ pc[Client(c)] = "try" /\ pc' = [pc EXCEPT ![Client(c)] = to]
      /\ UNCHANGED <<queue, running, todo, fd, newConn, usage, failed, calls, isStop, m_sockets,
                     m_sock, kernel, ctx, waiting, watched, busy, conn, died>>
  BY DEF TryRecv, At, Goto, schedVars, progVars, serverVars, fdVars, eventVars
<1>2. fd' \in [Tasks -> Fds \cup {NoFd}] /\ \A u \in Tasks : u # Client(c) => fd'[u] = fd[u]
  BY <1>1 DEF IInv, Types
<1>3. fd'[Client(c)] = m_sock[c]
  BY <1>1 DEF IInv, ClientInv
<1>4. to \in {"loop", "try", "event", "close"} /\ to \notin {"none", "asleep"}
  OBVIOUS
<1> HIDE DEF to
<1>5. /\ Phases' /\ Descriptors' /\ SocketsInv' /\ AcceptInv' /\ AdoptInv' /\ ClientInv'
      /\ pc' \in [Tasks -> Stages] /\ pc'[Client(c)] = to
      /\ \A u \in Tasks : u # Client(c) => pc'[u] = pc[u]
  BY <1>1, <1>2, <1>3, <1>4, ClientMoves
<1>6. Types'
  BY <1>1, <1>2, <1>5 DEF IInv, Types
<1>7. PlaceInv'
  BY <1>1, <1>2, <1>4, <1>5, TaskPlace
<1>8. QED BY <1>1, <1>5, <1>6, <1>7, KeepEvents DEF IInv, eventVars

\* The task of an event is scheduled.
LEMMA Resumed ==
  ASSUME IInv, NEW f \in Fds, waiting[f] # Nobody, queue' = queue \o <<waiting[f]>>,
         waiting' = [waiting EXCEPT ![f] = Nobody], watched' = watched \ {f},
         UNCHANGED <<running, fd, died>>, pc'[waiting[f]] \notin {"none", "asleep"},
         \A u \in Tasks : u # waiting[f] => pc'[u] = pc[u]
  PROVE  /\ PlaceInv' /\ EventInv' /\ queue' \in Seq(Tasks)
         /\ waiting' \in [Fds -> Tasks \cup {Nobody}]
<1> DEFINE t == waiting[f]
<1>1. /\ t \in Accepts \cup Clients /\ pc[t] = "try" /\ fd[t] = f
      /\ t \notin ToSet(queue) \cup running
  BY DEF IInv, PlaceInv
<1>2. t \in Tasks
  BY <1>1, TaskFacts
<1>3. waiting'[f] = Nobody /\ \A g \in Fds : g # f => waiting'[g] = waiting[g]
  BY DEF IInv, Types
<1>4. waiting' \in [Fds -> Tasks \cup {Nobody}]
  BY DEF IInv, Types
<1> HIDE DEF t
<1>5. queue' = queue \o <<t>> /\ pc'[t] \notin {"none", "asleep"} /\ \A u \in Tasks : u # t => pc'[u] = pc[u]
  BY DEF t
<1>6. queue' \in Seq(Tasks) /\ Distinct(queue') /\ ToSet(queue') = ToSet(queue) \cup {t}
  <2>1. queue \in Seq(Tasks) /\ Distinct(queue) /\ t \notin ToSet(queue)
    BY <1>1 DEF IInv, Types, PlaceInv
  <2>2. QED BY <1>2, <1>5, <2>1, OneMore
<1>7. PlaceInv'
  <2>1. ToSet(queue) \cup running \subseteq Tasks
    BY DEF IInv, Types, ToSet
  <2>2. ToSet(queue') \cap running' = {}
    BY <1>1, <1>6 DEF IInv, PlaceInv
  <2>3. \A u \in ToSet(queue') \cup running' : pc'[u] \notin {"none", "asleep"}
    BY <1>5, <1>6, <2>1 DEF IInv, PlaceInv
  <2>4. ASSUME NEW g \in Fds, waiting'[g] # Nobody
        PROVE  /\ waiting'[g] \in Accepts \cup Clients /\ pc'[waiting'[g]] = "try"
               /\ fd[waiting'[g]] = g /\ waiting'[g] \notin ToSet(queue') \cup running
    <3>1. g # f /\ waiting'[g] = waiting[g]
      BY <1>3, <2>4
    <3>2. /\ waiting[g] \in Accepts \cup Clients /\ pc[waiting[g]] = "try" /\ fd[waiting[g]] = g
          /\ waiting[g] \notin ToSet(queue) \cup running
      BY <2>4, <3>1 DEF IInv, PlaceInv
    <3>3. waiting[g] \in Tasks /\ waiting[g] # t
      BY <1>1, <3>1, <3>2, TaskFacts
    <3>4. QED BY <1>5, <1>6, <3>1, <3>2, <3>3
  <2>5. QED BY <1>6, <2>2, <2>3, <2>4 DEF PlaceInv
<1>8. EventInv'
  <2>1. died = "no" /\ watched = {g \in Fds : waiting[g] # Nobody}
    BY DEF IInv, EventInv
  <2>2. watched' = {g \in Fds : waiting'[g] # Nobody}
    BY <1>3, <2>1
  <2>3. QED BY <2>1, <2>2 DEF EventInv
<1>9. QED BY <1>4, <1>6, <1>7, <1>8

LEMMA TimeoutStep == ASSUME IInv, NEW c \in Conns, Timeout(c) PROVE IInv'
<1>1. PICK f \in Fds : /\ waiting[f] = Client(c)
                       /\ waiting' = [waiting EXCEPT ![f] = Nobody]
                       /\ watched' = watched \ {f}
  BY DEF Timeout, RecvTimeout
<1>2. /\ pc' = [pc EXCEPT ![Client(c)] = "close"] /\ queue' = queue \o <<Client(c)>>
      /\ UNCHANGED <<running, todo, fd, newConn, usage, failed, calls, isStop, m_sockets,
                     m_sock, kernel, ctx, busy, conn, data, died>>
  BY DEF Timeout, RecvTimeout, Goto, Schedule, progVars, serverVars, fdVars, netVars
<1>3. Client(c) \in Tasks /\ Client(c) # Nobody
  BY TaskFacts
<1>4. pc[Client(c)] = "try"
  BY <1>1, <1>3 DEF IInv, PlaceInv
<1>5. /\ fd' \in [Tasks -> Fds \cup {NoFd}] /\ \A u \in Tasks : u # Client(c) => fd'[u] = fd[u]
  BY <1>2 DEF IInv, Types
<1>6. fd'[Client(c)] = m_sock[c]
  BY <1>2, <1>4 DEF IInv, ClientInv
<1>7. /\ Phases' /\ Descriptors' /\ SocketsInv' /\ AcceptInv' /\ AdoptInv' /\ ClientInv'
      /\ pc' \in [Tasks -> Stages] /\ pc'[Client(c)] = "close"
      /\ \A u \in Tasks : u # Client(c) => pc'[u] = pc[u]
  BY <1>2, <1>4, <1>5, <1>6, ClientMoves
<1>8. /\ PlaceInv' /\ EventInv' /\ queue' \in Seq(Tasks)
      /\ waiting' \in [Fds -> Tasks \cup {Nobody}]
  BY <1>1, <1>2, <1>3, <1>7, Resumed
<1>9. Types'
  BY <1>2, <1>5, <1>7, <1>8 DEF IInv, Types
<1>10. QED BY <1>7, <1>8, <1>9 DEF IInv

LEMMA CloseCancelStep == ASSUME IInv, NEW t \in running, CloseCancel(t) PROVE IInv'
<1>0. t \in Clients /\ t \in Tasks /\ pc[t] = "close"
  BY TaskKind DEF CloseCancel, At
<1>1. PICK c \in Conns : t = Client(c)
  BY <1>0, TaskFacts
<1>2. fd[t] \in Fds /\ waiting[fd[t]] = Nobody
  BY <1>0, NobodyElseWaits
<1>3. ctx[fd[t]] = c /\ fd[t] = m_sock[c] /\ c # Nobody
  BY <1>0, <1>1, ObjectFacts DEF IInv, ClientInv
<1>4. /\ pc' = [pc EXCEPT ![t] = "del"]
      /\ UNCHANGED <<queue, running, todo, fd, newConn, usage, failed, calls, isStop, m_sockets,
                     m_sock, kernel, ctx, waiting, watched, busy, conn, data, died>>
  <2>1. ~CancelFails(fd[t])
    BY <1>2 DEF CancelFails
  <2>2. QED BY <1>2, <1>3, <2>1
    DEF CloseCancel, CancelAll, Goto, progVars, serverVars, fdVars, eventVars, netVars
<1>5. pc'[t] = "del" /\ \A u \in Tasks : u # t => pc'[u] = pc[u] /\ fd'[u] = fd[u]
  BY <1>0, <1>4 DEF IInv, Types
<1>6. Types'
  <2>1. pc' \in [Tasks -> Stages]
    BY <1>4 DEF IInv, Types, Stages
  <2>2. QED BY <1>4, <2>1 DEF IInv, Types
<1>7. Phases'
  <2>1. \A u \in Tasks : u \notin Accepts \cup Clients => pc'[u] = pc[u] /\ fd'[u] = fd[u]
    BY <1>0, <1>5
  <2>2. QED BY <1>0, <1>4, <2>1, TaskPhase
<1>8. PlaceInv'
  BY <1>4, <1>5, TaskPlace
<1>9. AcceptInv'
  <2>1. \A u \in Accepts : pc'[u] = pc[u]
    BY <1>0, <1>5, TaskFacts
  <2>2. QED BY <1>4, <2>1 DEF IInv, AcceptInv
<1>10. \A d \in Conns : \/ pc'[Client(d)] = pc[Client(d)]
                        \/ pc'[Client(d)] = "del" /\ pc[Client(d)] = "close"
  BY <1>0, <1>5, TaskFacts
<1>11. AdoptInv'
  <2>1. \A u \in Accepts : pc'[u] = pc[u]
    BY <1>0, <1>5, TaskFacts
  <2>2. \A d \in Conns : pc[Client(d)] = "none" => pc'[Client(d)] = "none"
    BY <1>10
  <2>3. QED BY <1>4, <2>1, <2>2 DEF IInv, AdoptInv
<1>12. ClientInv'
  BY <1>4, <1>10 DEF IInv, ClientInv
<1>13. QED BY <1>4, <1>6, <1>7, <1>8, <1>9, <1>11, <1>12, KeepDescriptors, KeepSockets, KeepEvents
         DEF IInv, fdVars, eventVars

LEMMA CloseDelStep == ASSUME IInv, NEW t \in running, CloseDel(t) PROVE IInv'
<1> DEFINE f == fd[t]
<1>0. t \in Clients /\ t \in Tasks /\ pc[t] = "del"
  BY TaskKind DEF CloseDel, At
<1>1. PICK c \in Conns : t = Client(c)
  BY <1>0, TaskFacts
<1>2. f = m_sock[c] /\ ctx[f] = c
  BY <1>0, <1>1 DEF IInv, ClientInv
<1>3. f \in Fds /\ kernel[f] = c
  BY <1>0, <1>1, TaskSocket, TaskFacts
<1>4. /\ pc' = [pc EXCEPT ![t] = "closef"] /\ ctx' = [ctx EXCEPT ![f] = Nobody]
      /\ UNCHANGED <<queue, running, todo, fd, newConn, usage, failed, calls, isStop, m_sockets,
                     m_sock, kernel, waiting, watched, busy, conn, data, died>>
  BY DEF CloseDel, Goto, schedVars, progVars, serverVars, eventVars, netVars
<1> HIDE DEF f
<1>5. pc'[t] = "closef" /\ \A u \in Tasks : u # t => pc'[u] = pc[u] /\ fd'[u] = fd[u]
  BY <1>0, <1>4 DEF IInv, Types
<1>6. ctx'[f] = Nobody /\ \A g \in Fds : g # f => ctx'[g] = ctx[g]
  BY <1>3, <1>4 DEF IInv, Types
<1>7. Types'
  <2>1. pc' \in [Tasks -> Stages] /\ ctx' \in [Fds -> Objects \cup {Nobody}]
    BY <1>4 DEF IInv, Types, Stages
  <2>2. QED BY <1>4, <2>1 DEF IInv, Types
<1>8. Phases'
  <2>1. \A u \in Tasks : u \notin Accepts \cup Clients => pc'[u] = pc[u] /\ fd'[u] = fd[u]
    BY <1>0, <1>5
  <2>2. QED BY <1>0, <1>4, <2>1, TaskPhase
<1>9. PlaceInv'
  BY <1>4, <1>5, TaskPlace
<1>10. \A u \in Accepts : pc'[u] = pc[u]
  BY <1>0, <1>5, TaskFacts
<1>11. AcceptInv'
  BY <1>4, <1>10 DEF IInv, AcceptInv
<1>12. \A d \in Conns : d # c => pc'[Client(d)] = pc[Client(d)]
  BY <1>1, <1>5, TaskFacts
<1>13. AdoptInv'
  <2>1. \A d \in Conns : pc[Client(d)] = "none" => pc'[Client(d)] = "none"
    BY <1>0, <1>1, <1>12
  <2>2. QED BY <1>4, <1>10, <2>1 DEF IInv, AdoptInv
<1>14. Descriptors'
  <2>1. ASSUME NEW s \in Listeners, m_sock[s] # NoFd PROVE ctx'[m_sock[s]] = s
    <3>1. ctx[m_sock[s]] = s /\ kernel[m_sock[s]] = s /\ m_sock[s] \in Fds /\ s # c
      BY <1>1, <2>1, ObjectFacts DEF IInv, Types, Descriptors
    <3>2. QED BY <1>3, <1>6, <3>1
  <2>2. \A g \in Fds : ctx'[g] # Nobody => kernel[g] = ctx'[g] /\ m_sock[ctx'[g]] = g
    BY <1>6 DEF IInv, Descriptors
  <2>3. QED BY <1>4, <2>1, <2>2 DEF IInv, Descriptors
<1>15. ClientInv'
  <2>1. ASSUME NEW d \in Conns
        PROVE  /\ pc'[Client(d)] \in {"none", "loop", "try", "event", "close", "del", "closef"}
               /\ pc'[Client(d)] # "none" => m_sock[d] # NoFd /\ conn[d] \in {"open", "gone"}
               /\ pc'[Client(d)] \in {"loop", "try", "event", "close", "del"} => ctx'[m_sock[d]] = d
               /\ pc'[Client(d)] = "closef" => ctx'[m_sock[d]] = Nobody
               /\ pc'[Client(d)] \in {"try", "event", "close", "del", "closef"} =>
                    fd[Client(d)] = m_sock[d]
               /\ conn[d] \in Addresses \cup {"none"} =>
                    m_sock[d] = NoFd /\ \A g \in Fds : kernel[g] # d
    <3>1. CASE d = c
      BY <1>0, <1>1, <1>2, <1>5, <1>6, <3>1 DEF IInv, ClientInv
    <3>2. CASE d # c
      <4>1. m_sock[d] # NoFd => ctx'[m_sock[d]] = ctx[m_sock[d]]
        <5>1. m_sock[d] # NoFd => kernel[m_sock[d]] = d /\ m_sock[d] \in Fds
          BY ObjectFacts DEF IInv, Types, Descriptors
        <5>2. QED BY <1>3, <1>6, <3>2, <5>1
      <4>2. QED BY <1>12, <2>1, <3>2, <4>1 DEF IInv, ClientInv
    <3>3. QED BY <3>1, <3>2
  <2>2. QED BY <1>4, <2>1 DEF ClientInv
<1>16. QED BY <1>4, <1>7, <1>8, <1>9, <1>11, <1>13, <1>14, <1>15, KeepSockets, KeepEvents
         DEF IInv, eventVars

LEMMA CloseFdStep == ASSUME IInv, NEW t \in running, CloseFd(t) PROVE IInv'
<1> DEFINE f == fd[t]
<1>0. t \in Clients /\ t \in Tasks /\ t \notin Stops /\ pc[t] = "closef"
  BY TaskKind DEF CloseFd, At
<1>1. PICK c \in Conns : t = Client(c)
  BY <1>0, TaskFacts
<1>2. f = m_sock[c] /\ ctx[f] = Nobody /\ m_sock[c] # NoFd /\ conn[c] \in {"open", "gone"}
  BY <1>0, <1>1 DEF IInv, ClientInv
<1>3. f \in Fds /\ kernel[f] = c /\ c \in Objects /\ c # Nobody /\ SocketOf(t) = c
  BY <1>0, <1>1, TaskSocket, TaskFacts, ObjectFacts DEF SocketOf
<1>4. f \notin watched
  BY <1>0, NobodyElseWaits
<1>5. /\ kernel' = [g \in Fds |-> IF g \in {f} THEN Nobody ELSE kernel[g]]
      /\ watched' = watched \ {f}
      /\ conn' = [d \in Conns |->
                    IF \E g \in {f} : kernel[g] = d \/ kernel[g] \in {conn[d]} \X {1, 2}
                    THEN "gone" ELSE conn[d]]
      /\ m_sock' = [m_sock EXCEPT ![c] = NoFd] /\ fd' = [fd EXCEPT ![t] = NoFd]
      /\ pc' = [pc EXCEPT ![t] = "none"] /\ running' = running \ {t}
      /\ UNCHANGED <<queue, todo, newConn, usage, failed, calls, isStop, m_sockets,
                     ctx, waiting, busy, data, died>>
  BY <1>0, <1>3 DEF CloseFd, CloseF, Goto, Leave, progVars, serverVars
<1> HIDE DEF f
<1>6. pc'[t] = "none" /\ \A u \in Tasks : u # t => pc'[u] = pc[u] /\ fd'[u] = fd[u]
  BY <1>0, <1>5 DEF IInv, Types
<1>7. kernel'[f] = Nobody /\ \A g \in Fds : g # f => kernel'[g] = kernel[g]
  BY <1>3, <1>5
<1>8. m_sock'[c] = NoFd /\ \A x \in Objects : x # c => m_sock'[x] = m_sock[x]
  BY <1>3, <1>5 DEF IInv, Types
<1>9. conn'[c] = "gone" /\ \A d \in Conns : conn'[d] = conn[d] \/ conn'[d] = "gone"
  BY <1>1, <1>3, <1>5
<1>10. Types'
  <2>1. pc' \in [Tasks -> Stages] /\ fd' \in [Tasks -> Fds \cup {NoFd}]
    BY <1>5 DEF IInv, Types, Stages
  <2>2. m_sock' \in [Objects -> Fds \cup {NoFd}] /\ kernel' \in [Fds -> Objects \cup {Nobody}]
    BY <1>5 DEF IInv, Types
  <2>3. conn' \in [Conns -> Addresses \cup {"none", "open", "gone"}]
    BY <1>5 DEF IInv, Types
  <2>4. running' \subseteq Tasks
    BY <1>5 DEF IInv, Types
  <2>5. QED BY <1>5, <2>1, <2>2, <2>3, <2>4 DEF IInv, Types
<1>11. Phases'
  <2>1. \A u \in Tasks : u \notin Accepts \cup Clients => pc'[u] = pc[u] /\ fd'[u] = fd[u]
    BY <1>0, <1>6
  <2>2. QED BY <1>0, <1>5, <2>1, TaskPhase
<1>12. PlaceInv'
  BY <1>5, <1>6, TaskPlace
<1>13. \A s \in Listeners : m_sock'[s] = m_sock[s] /\ s # c /\ s \in Objects
  BY <1>1, <1>8, ObjectFacts
<1>14. Descriptors'
  <2>1. ASSUME NEW x \in Objects, m_sock'[x] # NoFd PROVE kernel'[m_sock'[x]] = x
    <3>1. x # c /\ m_sock'[x] = m_sock[x]
      BY <1>8, <2>1
    <3>2. kernel[m_sock[x]] = x /\ m_sock[x] \in Fds
      BY <2>1, <3>1 DEF IInv, Types, Descriptors
    <3>3. QED BY <1>3, <1>7, <3>1, <3>2
  <2>2. ASSUME NEW g \in Fds, ctx[g] # Nobody PROVE kernel'[g] = ctx[g] /\ m_sock'[ctx[g]] = g
    <3>1. g # f /\ kernel[g] = ctx[g] /\ m_sock[ctx[g]] = g /\ ctx[g] \in Objects
      BY <1>2, <2>2 DEF IInv, Descriptors, Types
    <3>2. ctx[g] # c
      BY <1>2, <3>1
    <3>3. QED BY <1>7, <1>8, <3>1, <3>2
  <2>3. ASSUME NEW g \in Fds, kernel'[g] \in Listeners PROVE m_sock'[kernel'[g]] = g
    <3>1. g # f /\ kernel'[g] = kernel[g]
      BY <1>7, <2>3, ObjectFacts
    <3>2. QED BY <1>13, <2>3, <3>1 DEF IInv, Descriptors
  <2>4. \A g, h \in Fds : kernel'[g] # Nobody /\ kernel'[g] = kernel'[h] => g = h
    BY <1>7 DEF IInv, Descriptors
  <2>5. QED BY <1>5, <1>13, <2>1, <2>2, <2>3, <2>4 DEF IInv, Descriptors
<1>15. SocketsInv'
  <2>1. ToSet(m_sockets) \subseteq Listeners
    BY DEF IInv, Types, ToSet
  <2>2. Distinct(m_sockets') /\ ToSet(m_sockets') = ToSet(m_sockets)
    BY <1>5 DEF IInv, SocketsInv
  <2>3. QED BY <1>13, <2>1, <2>2 DEF IInv, SocketsInv
<1>16. \A u \in Accepts : pc'[u] = pc[u] /\ fd'[u] = fd[u] /\ m_sock'[u[2]] = m_sock[u[2]]
  BY <1>0, <1>6, <1>13, TaskFacts
<1>17. AcceptInv'
  BY <1>16 DEF IInv, AcceptInv
<1>18. \A d \in Conns : d # c =>
         /\ pc'[Client(d)] = pc[Client(d)] /\ fd'[Client(d)] = fd[Client(d)]
         /\ m_sock'[d] = m_sock[d]
  BY <1>1, <1>6, <1>8, TaskFacts, ObjectFacts
<1>19. AdoptInv'
  <2>1. ASSUME NEW u \in Accepts, pc'[u] = "adopt"
        PROVE  /\ newConn[u] \in Conns
               /\ pc'[Client(newConn[u])] = "none" /\ m_sock'[newConn[u]] = NoFd
               /\ conn'[newConn[u]] \in {"open", "gone"}
               /\ \E g \in Fds : kernel'[g] = newConn[u]
    <3>1. /\ newConn[u] \in Conns
          /\ pc[Client(newConn[u])] = "none" /\ m_sock[newConn[u]] = NoFd
          /\ conn[newConn[u]] \in {"open", "gone"}
          /\ \E g \in Fds : kernel[g] = newConn[u]
      BY <1>16, <2>1 DEF IInv, AdoptInv
    <3>2. newConn[u] # c
      BY <1>2, <3>1
    <3>3. \E g \in Fds : kernel'[g] = newConn[u]
      BY <1>3, <1>7, <3>1, <3>2
    <3>4. conn'[newConn[u]] \in {"open", "gone"}
      BY <1>9, <3>1
    <3>5. QED BY <1>18, <3>1, <3>2, <3>3, <3>4
  <2>2. \A u, v \in Accepts : pc'[u] = "adopt" /\ pc'[v] = "adopt" /\ newConn[u] = newConn[v] => u = v
    BY <1>16 DEF IInv, AdoptInv
  <2>3. QED BY <1>5, <2>1, <2>2 DEF AdoptInv
<1>20. ClientInv'
  <2>1. ASSUME NEW d \in Conns
        PROVE  /\ pc'[Client(d)] \in {"none", "loop", "try", "event", "close", "del", "closef"}
               /\ pc'[Client(d)] # "none" => m_sock'[d] # NoFd /\ conn'[d] \in {"open", "gone"}
               /\ pc'[Client(d)] \in {"loop", "try", "event", "close", "del"} => ctx[m_sock'[d]] = d
               /\ pc'[Client(d)] = "closef" => ctx[m_sock'[d]] = Nobody
               /\ pc'[Client(d)] \in {"try", "event", "close", "del", "closef"} =>
                    fd'[Client(d)] = m_sock'[d]
               /\ conn'[d] \in Addresses \cup {"none"} =>
                    m_sock'[d] = NoFd /\ \A g \in Fds : kernel'[g] # d
    <3>1. CASE d = c
      BY <1>1, <1>6, <1>9, <3>1, ObjectFacts
    <3>2. CASE d # c
      <4>1. conn'[d] \in Addresses \cup {"none"} => conn'[d] = conn[d]
        BY <1>9, ObjectFacts
      <4>2. \A g \in Fds : kernel[g] # d => kernel'[g] # d
        BY <1>7, ObjectFacts
      <4>3. pc[Client(d)] # "none" => m_sock[d] # NoFd /\ conn'[d] \in {"open", "gone"}
        BY <1>9 DEF IInv, ClientInv
      <4>4. QED BY <1>18, <2>1, <3>2, <4>1, <4>2, <4>3 DEF IInv, ClientInv
    <3>3. QED BY <3>1, <3>2
  <2>2. QED BY <1>5, <2>1 DEF ClientInv
<1>21. EventInv'
  <2>1. watched' = watched
    BY <1>4, <1>5
  <2>2. QED BY <1>5, <2>1 DEF IInv, EventInv
<1>22. QED BY <1>10, <1>11, <1>12, <1>14, <1>15, <1>17, <1>19, <1>20, <1>21 DEF IInv

-----------------------------------------------------------------------------
(***************************************************************************)
(* The threads, and the world outside.                                     *)
(***************************************************************************)

\* A step that concerns no task, Socket or descriptor.
LEMMA KeepRest ==
  ASSUME IInv, UNCHANGED <<pc, fd, newConn, usage, calls, isStop, m_sockets, m_sock, kernel, ctx, conn>>
  PROVE  Phases' /\ Descriptors' /\ SocketsInv' /\ AcceptInv' /\ AdoptInv' /\ ClientInv'
<1>1. Phases'
  BY DEF IInv, Phases, NoStop
<1>2. AcceptInv' /\ AdoptInv' /\ ClientInv'
  <2>1. \A t \in Accepts \cup Clients : pc'[t] = pc[t]
    OBVIOUS
  <2>2. UNCHANGED <<fd, newConn, fdVars, conn>>
    BY DEF fdVars
  <2>3. QED BY <2>1, <2>2, KeepTasks DEF IInv
<1>3. QED BY <1>1, <1>2, KeepDescriptors, KeepSockets DEF IInv, fdVars

LEMMA TakeStep == ASSUME IInv, Take PROVE IInv'
<1>1. /\ queue # <<>> /\ running' = running \cup {Head(queue)} /\ queue' = Tail(queue)
      /\ UNCHANGED <<pc, fd, newConn, todo, usage, failed, calls, isStop, m_sockets, m_sock,
                     kernel, ctx, waiting, watched, busy, conn, data, died>>
  BY DEF Take, taskVars, progVars, serverVars, fdVars, eventVars, netVars
<1>2. queue \in Seq(Tasks) /\ Distinct(queue)
  BY DEF IInv, Types, PlaceInv
<1>3. /\ Head(queue) \in Tasks /\ Head(queue) \in ToSet(queue) /\ queue' \in Seq(Tasks)
      /\ Distinct(queue') /\ ToSet(queue') = ToSet(queue) \ {Head(queue)}
  BY <1>1, <1>2, Taken
<1>4. Types'
  <2>1. running' \subseteq Tasks
    BY <1>1, <1>3 DEF IInv, Types
  <2>2. QED BY <1>1, <1>3, <2>1 DEF IInv, Types
<1>5. PlaceInv'
  <2>1. ToSet(queue') \cap running' = {} /\ ToSet(queue') \cup running' = ToSet(queue) \cup running
    BY <1>1, <1>3 DEF IInv, PlaceInv
  <2>2. QED BY <1>1, <1>3, <2>1 DEF IInv, PlaceInv
<1>6. QED BY <1>1, <1>4, <1>5, KeepRest, KeepEvents DEF IInv, eventVars

LEMMA ReportStep == ASSUME IInv, NEW f \in Fds, Report(f) PROVE IInv'
<1>1. /\ f \in watched /\ queue' = queue \o <<waiting[f]>>
      /\ waiting' = [waiting EXCEPT ![f] = Nobody] /\ watched' = watched \ {f}
      /\ UNCHANGED <<running, pc, fd, newConn, todo, usage, failed, calls, isStop, m_sockets, m_sock,
                     kernel, ctx, busy, conn, data, died>>
  BY DEF Report, Schedule, taskVars, progVars, serverVars, fdVars, netVars
<1>2. waiting[f] # Nobody
  BY <1>1 DEF IInv, EventInv
<1>3. pc'[waiting[f]] \notin {"none", "asleep"}
  BY <1>1, <1>2 DEF IInv, PlaceInv
<1>4. /\ PlaceInv' /\ EventInv' /\ queue' \in Seq(Tasks)
      /\ waiting' \in [Fds -> Tasks \cup {Nobody}]
  BY <1>1, <1>2, <1>3, Resumed
<1>5. Types'
  BY <1>1, <1>4 DEF IInv, Types
<1>6. QED BY <1>1, <1>4, <1>5, KeepRest DEF IInv

\* A connection that is not there yet comes to an address.
LEMMA ConnectStep == ASSUME IInv, NEW c \in Conns, NEW a \in Addresses, Connect(c, a) PROVE IInv'
<1>1. /\ conn[c] = "none" /\ conn' = [conn EXCEPT ![c] = a]
      /\ UNCHANGED <<queue, running, pc, fd, newConn, todo, usage, failed, calls, isStop, m_sockets,
                     m_sock, kernel, ctx, waiting, watched, busy, data, died>>
  BY DEF Connect, schedVars, taskVars, progVars, serverVars, fdVars, eventVars
<1>2. conn'[c] = a /\ \A d \in Conns : d # c => conn'[d] = conn[d]
  BY <1>1 DEF IInv, Types
<1>3. Types'
  <2>1. conn' \in [Conns -> Addresses \cup {"none", "open", "gone"}]
    BY <1>1 DEF IInv, Types
  <2>2. QED BY <1>1, <2>1 DEF IInv, Types
<1>4. Phases'
  BY <1>1 DEF IInv, Phases, NoStop
<1>5. AcceptInv'
  BY <1>1 DEF IInv, AcceptInv
<1>6. AdoptInv'
  <2>1. \A d \in Conns : conn[d] \in {"open", "gone"} => conn'[d] \in {"open", "gone"}
    BY <1>1, <1>2
  <2>2. QED BY <1>1, <2>1 DEF IInv, AdoptInv
<1>7. ClientInv'
  <2>1. /\ \A d \in Conns : conn[d] \in {"open", "gone"} => conn'[d] \in {"open", "gone"}
        /\ \A d \in Conns : conn'[d] \in Addresses \cup {"none"} => conn[d] \in Addresses \cup {"none"}
    BY <1>1, <1>2
  <2>2. QED BY <1>1, <2>1 DEF IInv, ClientInv
<1>8. PlaceInv'
  BY <1>1 DEF IInv, PlaceInv
<1>9. QED BY <1>1, <1>3, <1>4, <1>5, <1>6, <1>7, <1>8, KeepDescriptors, KeepSockets, KeepEvents
        DEF IInv, fdVars, eventVars

\* Nothing the invariant is about changes.
LEMMA KeepAll ==
  ASSUME IInv, UNCHANGED <<queue, running, pc, fd, newConn, todo, usage, calls, isStop,
                           m_sockets, m_sock, kernel, ctx, waiting, watched, conn, died>>
  PROVE  IInv'
<1>1. Types'
  BY DEF IInv, Types
<1>2. PlaceInv'
  BY DEF IInv, PlaceInv
<1>3. QED BY <1>1, <1>2, KeepRest, KeepEvents DEF IInv, eventVars

LEMMA SendStep == ASSUME IInv, NEW c, NEW what, Send(c, what) PROVE IInv'
BY KeepAll DEF Send, schedVars, taskVars, progVars, serverVars, fdVars, eventVars

LEMMA ReleaseStep == ASSUME IInv, NEW a, Release(a) PROVE IInv'
BY KeepAll DEF Release, schedVars, taskVars, progVars, serverVars, fdVars, eventVars

-----------------------------------------------------------------------------
(***************************************************************************)
(* Every step.                                                             *)
(***************************************************************************)

LEMMA ProgramStepStep == ASSUME IInv, ProgramStep PROVE IInv'
<1>1. ~CallStop
  BY DEF IInv, Phases, NoStop, CallStop
<1>2. QED BY <1>1, BindOneStep, BindEndStep, SleepAndRetryStep, StartStep, SleepStep, CallStartStep,
             CallBindStep, EndProgramStep DEF ProgramStep

LEMMA TaskStepStep == ASSUME IInv, NEW t \in running, TaskStep(t) PROVE IInv'
<1>1. ~StopFirst(t) /\ ~StopNext(t)
  BY TaskKind DEF StopFirst, StopNext
<1>2. CASE t = Program /\ ProgramStep
  BY <1>2, ProgramStepStep
<1>3. CASE \E c \in Conns : t = Client(c) /\ (ClientLoop(c) \/ TryRecv(c))
  BY <1>3, ClientLoopStep, TryRecvStep
<1>4. QED BY <1>1, <1>2, <1>3, AcceptLoopStep, TryAcceptStep, AdoptStep, AddEventStep,
             CloseCancelStep, CloseDelStep, CloseFdStep DEF TaskStep

LEMMA IInvNext == IInv /\ [Next]_vars => IInv'
<1> SUFFICES ASSUME IInv, [Next]_vars PROVE IInv'
  OBVIOUS
<1>1. CASE \E t \in running : TaskStep(t)
  BY <1>1, TaskStepStep
<1>2. CASE Take
  BY <1>2, TakeStep
<1>3. CASE \E f \in Fds : Report(f)
  BY <1>3, ReportStep
<1>4. CASE \E c \in Conns : Timeout(c)
  BY <1>4, TimeoutStep
<1>5. CASE Wake
  BY <1>5, WakeStep
<1>6. CASE World
  BY <1>6, ConnectStep, SendStep, ReleaseStep DEF World
<1>7. CASE UNCHANGED vars
  BY <1>7, KeepAll DEF vars, schedVars, taskVars, progVars, serverVars, fdVars, eventVars, netVars
<1>8. QED BY <1>1, <1>2, <1>3, <1>4, <1>5, <1>6, <1>7 DEF Next

\* The inductive invariant, for programs that do not call stop().
THEOREM ServerInvariant == Spec /\ NoStop => []IInv
<1>1. Init /\ NoStop => IInv
  BY IInvInit
<1>2. IInv /\ [Next]_vars => IInv'
  BY IInvNext
<1>3. QED BY <1>1, <1>2, PTL DEF Spec

-----------------------------------------------------------------------------
(***************************************************************************)
(* What the invariant says.                                                *)
(***************************************************************************)

\* In a program that binds and starts at any time but does not stop its server,
\* a task that is about to accept or to read on an open descriptor means this
\* one and finds the FdContext made for it, although close_f and the kernel's
\* lowest free number hand the same descriptors out again and again.
THEOREM DescriptorsAreOwn == Spec /\ NoStop => []OwnDescriptor
<1>1. IInv => OwnDescriptor
  <2> SUFFICES ASSUME IInv, NEW t \in Accepts \cup Clients, pc[t] = "try"
               PROVE  kernel[fd[t]] = t[2] /\ ctx[fd[t]] = t[2]
    BY DEF OwnDescriptor
  <2>1. kernel[fd[t]] = t[2] /\ fd[t] = m_sock[t[2]] /\ fd[t] \in Fds
    BY TaskSocket
  <2>2. fd[t] # NoFd
    BY <2>1, ObjectFacts
  <2>3. CASE t \in Accepts
    BY <2>1, <2>2, <2>3, TaskFacts DEF IInv, Descriptors
  <2>4. CASE t \in Clients
    <3>1. PICK c \in Conns : t = Client(c)
      BY <2>4, TaskFacts
    <3>2. t[2] = c
      BY <3>1, TaskFacts
    <3>3. ctx[m_sock[c]] = c
      BY <3>1 DEF IInv, ClientInv
    <3>4. QED BY <2>1, <3>2, <3>3
  <2>5. QED BY <2>3, <2>4
<1>2. Spec /\ NoStop => []IInv
  BY ServerInvariant
<1>3. QED BY <1>1, <1>2, PTL

NoAssertionFails == died = "no"

\* Such a server never dies of an assertion: addEvent finds no second task on a
\* descriptor, and epoll_ctl neither an unknown nor an already watched one.
THEOREM AssertionsHold == Spec /\ NoStop => []NoAssertionFails
<1>1. IInv => NoAssertionFails
  BY DEF IInv, EventInv, NoAssertionFails
<1>2. Spec /\ NoStop => []IInv
  BY ServerInvariant
<1>3. QED BY <1>1, <1>2, PTL
=============================================================================
