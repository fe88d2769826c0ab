----------------------------- MODULE TcpServer ------------------------------
(***************************************************************************)
(* TCPServer (tcpserver.cpp) with what it stands on: Socket (socket.cpp),  *)
(* the hooked accept, recv, socket and close (hook.cpp), FdManager, and    *)
(* the events of IOManager.  The threads of one IOManager execute          *)
(*                                                                         *)
(*   <<"program", 0>>  the fiber that binds, starts and stops the server   *)
(*   <<"accept", s, n>> startAccept on the listening Socket s, from the    *)
(*                     n-th start()                                        *)
(*   <<"stop", n>>     the n-th closing task of stop()                     *)
(*   <<"client", c>>   handleClient on the Socket of connection c          *)
(*                                                                         *)
(* A Socket object is the pair <<a, n>> of an address and a number, or the *)
(* connection itself.  The kernel gives out the lowest free descriptor.    *)
(* How a registered fiber is suspended and resumed is HookIO's subject:    *)
(* here addEvent and YieldToHold are one step, and a timeout wins or loses *)
(* against an event as a whole.  Failed assertions end the process.        *)
(***************************************************************************)
EXTENDS Naturals, Sequences, SequencesExt, FiniteSets, FiniteSetsExt

CONSTANTS
  Addresses, Conns,
  MaxFds,     \* the descriptors the kernel can give out
  Usages,     \* what programs do after start(): threads, calls and their number
  Nobody      \* no object, no task

Fds == 1..MaxFds
NoFd == 0     \* m_sock == -1

Listeners == Addresses \X {1, 2}
Objects == Listeners \cup Conns
MaxCalls == Max({u.times : u \in Usages})

Program == <<"program", 0>>
Client(c) == <<"client", c>>
Accepts == {<<"accept", s, n>> : s \in Listeners, n \in 1..(MaxCalls + 1)}
Stops == {<<"stop", n>> : n \in 1..MaxCalls}
Clients == {Client(c) : c \in Conns}
Tasks == {Program} \cup Accepts \cup Stops \cup Clients

ASSUME TcpAssumption ==
  /\ IsFiniteSet(Addresses) /\ IsFiniteSet(Conns)
  /\ MaxFds \in Nat /\ MaxFds >= Cardinality(Addresses) + Cardinality(Conns)
  /\ Usages \subseteq [threads : Nat \ {0}, calls : SUBSET {"start", "stop", "bind"},
                       times : Nat]
  /\ MaxCalls \in Nat
  /\ Nobody \notin Tasks \cup Objects
  /\ Addresses \cap Conns = {} /\ Listeners \cap Conns = {}
  /\ {"none", "open", "gone"} \cap Addresses = {}

VARIABLES
  usage,
  queue,      \* m_fibers of the scheduler
  running,    \* the tasks on a thread
  pc,         \* per task, where it is; "none": no such task (any more)
  fd,         \* per task, the descriptor of the hooked call it is in
  newConn,    \* per task, the connection accept_f returned
  todo,       \* per task, the sockets (addresses) its loop has still to do
  failed,     \* failaddrs is not empty
  calls,      \* the calls made after the first start()
  isStop, m_sockets,
  m_sock,     \* per Socket object
  kernel,     \* per descriptor, the object it is open for
  ctx,        \* FdManager::m_datas: the object an FdContext was made for
  waiting,    \* per descriptor, the task of its READ event
  watched,    \* the descriptors epoll watches
  busy,       \* the addresses other processes hold
  conn,       \* per connection: "none", "open", "gone" or the address it waits at
  data,       \* per connection, what recv finds: "none", "data", "spent" (read: nothing
              \* more but the end) or "eof"
  died        \* "no", or the assertion that failed

schedVars == <<queue, running>>
taskVars == <<pc, fd, newConn, todo>>
progVars == <<usage, failed, calls>>
serverVars == <<isStop, m_sockets>>
fdVars == <<m_sock, kernel, ctx>>
eventVars == <<waiting, watched>>
netVars == <<busy, conn, data>>
vars == <<schedVars, taskVars, progVars, serverVars, fdVars, eventVars, netVars, died>>

Init ==
  /\ usage \in Usages
  /\ queue = <<Program>>
  /\ running = {}
  /\ pc = [t \in Tasks |-> IF t = Program THEN "bind" ELSE "none"]
  /\ fd = [t \in Tasks |-> NoFd]
  /\ newConn = [t \in Tasks |-> Nobody]
  /\ todo = [t \in Tasks |-> IF t = Program THEN SetToSeq(Addresses) ELSE <<>>]
  /\ failed = FALSE
  /\ calls = 0
  /\ isStop = TRUE
  /\ m_sockets = <<>>
  /\ m_sock = [x \in Objects |-> NoFd]
  /\ kernel = [f \in Fds |-> Nobody]
  /\ ctx = [f \in Fds |-> Nobody]
  /\ waiting = [f \in Fds |-> Nobody]
  /\ watched = {}
  /\ busy \in SUBSET Addresses
  /\ conn = [c \in Conns |-> "none"]
  /\ data = [c \in Conns |-> "none"]
  /\ died = "no"

-----------------------------------------------------------------------------
At(t, where) == t \in running /\ pc[t] = where

Goto(t, to) == pc' = [pc EXCEPT ![t] = to]

\* The task leaves its thread: suspended, or terminated if it goes to "none".
Leave(t) == running' = running \ {t}

Schedule(ts) == queue' = queue \o ts

Die(why) ==
  /\ died' = why
  /\ UNCHANGED <<schedVars, taskVars, progVars, serverVars, fdVars, eventVars, netVars>>

IsOpen(f) == f \in Fds /\ kernel[f] # Nobody

FreeFds == {f \in Fds : kernel[f] = Nobody}

Backlog(a) == {c \in Conns : conn[c] = a}

\* The address is taken by a listening socket of this process.
Listening(a) == \E f \in Fds : kernel[f] \in {a} \X {1, 2}

\* The server holds the listening Socket s; an accept task does.
InServer(s) == s \in ToSet(m_sockets)

InUse(s) == \E t \in Accepts : t[2] = s /\ pc[t] # "none"

\* FdManager::get(fd, true): an existing context is taken as it is.
GetContext(f, x) == IF ctx[f] = Nobody THEN [ctx EXCEPT ![f] = x] ELSE ctx

\* close_f of the descriptors fs: they leave the epoll set, and connections not
\* accepted yet are reset.
CloseF(fs) ==
  /\ kernel' = [f \in Fds |-> IF f \in fs THEN Nobody ELSE kernel[f]]
  /\ watched' = watched \ fs
  /\ conn' = [c \in Conns |->
                IF \E f \in fs : kernel[f] = c \/ kernel[f] \in {conn[c]} \X {1, 2}
                THEN "gone" ELSE conn[c]]

\* Sockets nobody uses are destroyed, which closes them.
Destroy(ss) ==
  LET fs == {m_sock[s] : s \in ss} \ {NoFd} IN
    /\ CloseF(fs)
    /\ ctx' = [f \in Fds |-> IF f \in fs THEN Nobody ELSE ctx[f]]
    /\ m_sock' = [x \in Objects |-> IF x \in ss THEN NoFd ELSE m_sock[x]]

-----------------------------------------------------------------------------
(***************************************************************************)
(* The program: bind until it succeeds (as the tests do), start, and then  *)
(* the calls of its usage.                                                 *)
(***************************************************************************)

\* bind, for one address: a Socket with a new descriptor (socket() and its
\* FdContext), bound and listening; on failure the Socket is gone again.
BindOne ==
  /\ At(Program, "bind")
  /\ todo[Program] # <<>>
  /\ LET a == Head(todo[Program]) IN
       IF a \in busy \/ Listening(a)
       THEN failed' = TRUE /\ UNCHANGED <<m_sockets, fdVars>>
       ELSE \E s \in {a} \X {1, 2} :
              /\ ~InServer(s) /\ ~InUse(s)
              /\ s[2] = 2 => InServer(<<a, 1>>) \/ InUse(<<a, 1>>)
              /\ LET f == Min(FreeFds) IN
                   /\ m_sock' = [m_sock EXCEPT ![s] = f]
                   /\ kernel' = [kernel EXCEPT ![f] = s]
                   /\ ctx' = GetContext(f, s)
              /\ m_sockets' = Append(m_sockets, s)
              /\ UNCHANGED failed
  /\ todo' = [todo EXCEPT ![Program] = Tail(@)]
  /\ UNCHANGED <<schedVars, pc, fd, newConn, usage, calls, isStop, eventVars, netVars, died>>

\* Faulty variant: the sockets that were bound stay open after a failure.
BindEnd_Keep ==
  /\ At(Program, "bind")
  /\ todo[Program] = <<>>
  /\ failed' = FALSE
  /\ Goto(Program, IF calls > 0 THEN "serving" ELSE IF failed THEN "sleep" ELSE "start")
  /\ UNCHANGED <<schedVars, fd, newConn, todo, usage, calls, serverVars, fdVars, eventVars,
                 netVars, died>>

\* The end of bind: any failure clears m_sockets, the ones bound before included.
BindEnd ==
  /\ At(Program, "bind")
  /\ todo[Program] = <<>>
  /\ failed' = FALSE
  /\ Goto(Program, IF calls > 0 THEN "serving" ELSE IF failed THEN "sleep" ELSE "start")
  /\ IF failed
     THEN /\ m_sockets' = <<>>
          /\ Destroy({s \in Listeners : InServer(s) /\ ~InUse(s)})
     ELSE UNCHANGED <<m_sockets, fdVars, watched, conn>>
  /\ UNCHANGED <<schedVars, fd, newConn, todo, usage, calls, isStop, waiting, busy, data,
                 died>>

\* while (!bind(addrs, fails)) sleep(1): the timer of sleep puts the fiber back.
SleepAndRetry ==
  /\ At(Program, "sleep")
  /\ Goto(Program, "bind")
  /\ todo' = [todo EXCEPT ![Program] = SetToSeq(Addresses)]
  /\ Leave(Program)
  /\ Schedule(<<Program>>)
  /\ UNCHANGED <<fd, newConn, progVars, serverVars, fdVars, eventVars, netVars, died>>

\* Faulty variant: an accept task for the first socket only.
DoStart_First ==
  IF isStop
  THEN LET as == <<<<"accept", Head(m_sockets), calls + 1>>>>
       IN  /\ isStop' = FALSE
           /\ Schedule(as)
           /\ pc' = [t \in Tasks |-> IF t \in ToSet(as) THEN "loop"
                                     ELSE IF t = Program THEN "serving" ELSE pc[t]]
  ELSE Goto(Program, "serving") /\ UNCHANGED <<isStop, queue>>

\* start(): nothing if it runs, else an accept task per socket.
DoStart ==
  IF isStop
  THEN LET as == [i \in DOMAIN m_sockets |-> <<"accept", m_sockets[i], calls + 1>>]
       IN  /\ isStop' = FALSE
           /\ Schedule(as)
           /\ pc' = [t \in Tasks |-> IF t \in ToSet(as) THEN "loop"
                                     ELSE IF t = Program THEN "serving" ELSE pc[t]]
  ELSE Goto(Program, "serving") /\ UNCHANGED <<isStop, queue>>

Start ==
  /\ At(Program, "start")
  /\ DoStart
  /\ UNCHANGED <<running, fd, newConn, todo, progVars, m_sockets, fdVars, eventVars, netVars,
                 died>>

\* Between its calls the program sleeps.
Sleep ==
  /\ At(Program, "serving")
  /\ Goto(Program, "asleep")
  /\ Leave(Program)
  /\ UNCHANGED <<queue, fd, newConn, todo, progVars, serverVars, fdVars, eventVars, netVars,
                 died>>

Wake ==
  /\ pc[Program] = "asleep"
  /\ calls < usage.times
  /\ Goto(Program, "call")
  /\ Schedule(<<Program>>)
  /\ UNCHANGED <<running, fd, newConn, todo, progVars, serverVars, fdVars, eventVars, netVars,
                 died>>

\* stop(): isStop, and a task that will close the sockets.
CallStop ==
  /\ At(Program, "call") /\ "stop" \in usage.calls
  /\ calls' = calls + 1
  /\ isStop' = TRUE
  /\ LET t == <<"stop", calls + 1>> IN
       /\ Schedule(<<t>>)
       /\ pc' = [pc EXCEPT ![t] = "first", ![Program] = "serving"]
  /\ UNCHANGED <<running, fd, newConn, todo, usage, failed, m_sockets, fdVars, eventVars,
                 netVars, died>>

CallStart ==
  /\ At(Program, "call") /\ "start" \in usage.calls
  /\ calls' = calls + 1
  /\ DoStart
  /\ UNCHANGED <<running, fd, newConn, todo, usage, failed, m_sockets, fdVars, eventVars,
                 netVars, died>>

CallBind ==
  /\ At(Program, "call") /\ "bind" \in usage.calls
  /\ calls' = calls + 1
  /\ Goto(Program, "bind")
  /\ todo' = [todo EXCEPT ![Program] = SetToSeq(Addresses)]
  /\ UNCHANGED <<schedVars, fd, newConn, usage, failed, serverVars, fdVars, eventVars,
                 netVars, died>>

\* The program gives up its server: ~TCPServer, unless tasks still hold it.
EndProgram ==
  /\ \/ At(Program, "start")
     \/ At(Program, "call")
  /\ Goto(Program, "end")
  /\ Leave(Program)
  /\ IF \A t \in Tasks \ {Program} : pc[t] = "none"
     THEN Destroy(ToSet(m_sockets)) /\ m_sockets' = <<>>
     ELSE UNCHANGED <<fdVars, watched, conn, m_sockets>>
  /\ UNCHANGED <<queue, fd, newConn, todo, progVars, isStop, waiting, busy, data, died>>

ProgramStep ==
  \/ BindOne
  \/ BindEnd
  \/ SleepAndRetry
  \/ Start
  \/ Sleep
  \/ CallStop
  \/ CallStart
  \/ CallBind
  \/ EndProgram

-----------------------------------------------------------------------------
(***************************************************************************)
(* startAccept.                                                            *)
(***************************************************************************)

\* while (!isStop): the end of the task drops its Socket, which is closed if
\* the server does not have it any more.
AcceptLoop(t) ==
  /\ t \in Accepts /\ At(t, "loop")
  /\ IF ~isStop
     THEN /\ Goto(t, "try")
          /\ fd' = [fd EXCEPT ![t] = m_sock[t[2]]]
          /\ UNCHANGED running
     ELSE IF InServer(t[2]) \/ m_sock[t[2]] = NoFd
             \/ \E u \in Accepts \ {t} : u[2] = t[2] /\ pc[u] # "none"
     THEN /\ Goto(t, "none")
          /\ fd' = [fd EXCEPT ![t] = NoFd]
          /\ Leave(t)
     ELSE /\ Goto(t, "close")
          /\ fd' = [fd EXCEPT ![t] = m_sock[t[2]]]
          /\ UNCHANGED running
  /\ UNCHANGED <<queue, newConn, todo, progVars, serverVars, fdVars, eventVars, netVars, died>>

\* accept_f: EBADF, EINVAL, a connection, or EAGAIN.
TryAccept(t) ==
  /\ t \in Accepts /\ At(t, "try")
  /\ LET f == fd[t]
         x == IF f \in Fds THEN kernel[f] ELSE Nobody
     IN  IF x \notin Listeners
         THEN Goto(t, "loop") /\ UNCHANGED <<kernel, newConn, conn>>
         ELSE IF Backlog(x[1]) = {}
         THEN Goto(t, "event") /\ UNCHANGED <<kernel, newConn, conn>>
         ELSE \E c \in Backlog(x[1]) :
                /\ kernel' = [kernel EXCEPT ![Min(FreeFds)] = c]
                /\ conn' = [conn EXCEPT ![c] = "open"]
                /\ newConn' = [newConn EXCEPT ![t] = c]
                /\ Goto(t, "adopt")
  /\ UNCHANGED <<schedVars, fd, todo, progVars, serverVars, m_sock, ctx, eventVars, busy,
                 data, died>>

\* The rest of the hooked accept (FdMgr get(fd, true)), Socket::init,
\* setRecvTimeout and schedule(handleClient).
Adopt(t) ==
  /\ t \in Accepts /\ At(t, "adopt")
  /\ LET c == newConn[t]
         f == CHOOSE g \in Fds : kernel[g] = c
     IN  /\ ctx' = GetContext(f, c)
         /\ m_sock' = [m_sock EXCEPT ![c] = f]
         /\ Schedule(<<Client(c)>>)
         /\ pc' = [pc EXCEPT ![Client(c)] = "loop", ![t] = "loop"]
  /\ newConn' = [newConn EXCEPT ![t] = Nobody]
  /\ UNCHANGED <<running, fd, todo, progVars, serverVars, kernel, eventVars, netVars, died>>

\* addEvent(fd, READ) and YieldToHold; when resumed, do_io tries again.
AddEvent(t) ==
  /\ At(t, "event")
  /\ LET f == fd[t] IN
       IF waiting[f] # Nobody THEN Die("duplicate")
       ELSE IF ~IsOpen(f) \/ f \in watched THEN Die("epoll_ctl")
       ELSE /\ waiting' = [waiting EXCEPT ![f] = t]
            /\ watched' = watched \cup {f}
            /\ Goto(t, "try")
            /\ Leave(t)
            /\ UNCHANGED <<queue, fd, newConn, todo, progVars, serverVars, fdVars, netVars,
                           died>>

-----------------------------------------------------------------------------
(***************************************************************************)
(* handleClient.                                                           *)
(***************************************************************************)
ClientLoop(c) ==
  /\ At(Client(c), "loop")
  /\ Goto(Client(c), IF isStop THEN "close" ELSE "try")
  /\ fd' = [fd EXCEPT ![Client(c)] = m_sock[c]]
  /\ UNCHANGED <<schedVars, newConn, todo, progVars, serverVars, fdVars, eventVars, netVars,
                 died>>

\* recv_f: bytes, the end of the stream, or EAGAIN.
TryRecv(c) ==
  /\ At(Client(c), "try")
  /\ Goto(Client(c), CASE data[c] = "data" -> "loop"
                       [] data[c] = "eof" -> "close"
                       [] OTHER -> "event")
  /\ data' = [data EXCEPT ![c] = IF @ = "data" THEN "spent" ELSE @]
  /\ UNCHANGED <<schedVars, fd, newConn, todo, progVars, serverVars, fdVars, eventVars, busy,
                 conn, died>>

\* The timeout of recv: cancelEvent resumes the fiber, which returns -1.
RecvTimeout(c) ==
  /\ \E f \in Fds :
       /\ waiting[f] = Client(c)
       /\ waiting' = [waiting EXCEPT ![f] = Nobody]
       /\ watched' = watched \ {f}
  /\ Goto(Client(c), "close")
  /\ Schedule(<<Client(c)>>)
  /\ UNCHANGED <<running, fd, newConn, todo, progVars, serverVars, fdVars, netVars, died>>

-----------------------------------------------------------------------------
(***************************************************************************)
(* The task of stop(), and the hooked close() it shares with the           *)
(* destructor of a client's Socket.                                        *)
(***************************************************************************)

\* The task starts its loop over m_sockets.
StopFirst(t) ==
  /\ t \in Stops /\ At(t, "first")
  /\ todo' = [todo EXCEPT ![t] = m_sockets]
  /\ Goto(t, "next")
  /\ UNCHANGED <<schedVars, fd, newConn, progVars, serverVars, fdVars, eventVars, netVars, died>>

\* cancelAll(fd): a registered event leaves epoll and resumes its task.
CancelAll(f) ==
  IF waiting[f] # Nobody
  THEN /\ Schedule(<<waiting[f]>>)
       /\ waiting' = [waiting EXCEPT ![f] = Nobody]
       /\ watched' = watched \ {f}
  ELSE UNCHANGED <<queue, eventVars>>

CancelFails(f) == waiting[f] # Nobody /\ f \notin watched

\* Faulty variant: the sockets are closed without cancelAll.
StopNext_NoCancel(t) ==
  /\ t \in Stops /\ At(t, "next")
  /\ IF todo[t] = <<>>
     THEN /\ m_sockets' = <<>>
          /\ Goto(t, "none")
          /\ Leave(t)
          /\ UNCHANGED <<fd, todo>>
     ELSE /\ fd' = [fd EXCEPT ![t] = m_sock[Head(todo[t])]]
          /\ Goto(t, "del")
          /\ UNCHANGED <<m_sockets, running, todo>>
  /\ UNCHANGED <<queue, newConn, progVars, isStop, fdVars, eventVars, netVars, died>>

\* sock->cancelAll() and sock->close() for the next socket, both without effect
\* if it is closed already; m_sockets.clear() after the last.
StopNext(t) ==
  /\ t \in Stops /\ At(t, "next")
  /\ LET f == IF todo[t] = <<>> THEN NoFd ELSE m_sock[Head(todo[t])] IN
       IF f # NoFd /\ CancelFails(f) THEN Die("epoll_ctl")
       ELSE /\ IF todo[t] = <<>>
               THEN /\ m_sockets' = <<>>
                    /\ Goto(t, "none")
                    /\ Leave(t)
                    /\ UNCHANGED <<fd, todo, queue, eventVars>>
               ELSE IF f = NoFd
               THEN /\ todo' = [todo EXCEPT ![t] = Tail(@)]
                    /\ UNCHANGED <<pc, fd, m_sockets, schedVars, eventVars>>
               ELSE /\ CancelAll(f)
                    /\ fd' = [fd EXCEPT ![t] = f]
                    /\ Goto(t, "close")
                    /\ UNCHANGED <<m_sockets, running, todo>>
            /\ UNCHANGED <<newConn, progVars, isStop, fdVars, netVars, died>>

\* close(): cancelAll(fd) if the descriptor has an FdContext ...
CloseCancel(t) ==
  /\ At(t, "close")
  /\ IF CancelFails(fd[t]) THEN Die("epoll_ctl")
     ELSE /\ IF ctx[fd[t]] # Nobody
             THEN Goto(t, "del") /\ CancelAll(fd[t])
             ELSE Goto(t, "closef") /\ UNCHANGED <<queue, eventVars>>
          /\ UNCHANGED <<running, fd, newConn, todo, progVars, serverVars, fdVars, netVars,
                         died>>

\* Faulty variant: FdMgr del(fd) is forgotten.
CloseDel_Forget(t) ==
  /\ At(t, "del")
  /\ Goto(t, "closef")
  /\ UNCHANGED <<schedVars, fd, newConn, todo, progVars, serverVars, fdVars, eventVars,
                 netVars, died>>

\* ... FdMgr del(fd) ...
CloseDel(t) ==
  /\ At(t, "del")
  /\ ctx' = [ctx EXCEPT ![fd[t]] = Nobody]
  /\ Goto(t, "closef")
  /\ UNCHANGED <<schedVars, fd, newConn, todo, progVars, serverVars, m_sock, kernel,
                 eventVars, netVars, died>>

\* The Socket task t closes.
SocketOf(t) == IF t \in Stops THEN Head(todo[t]) ELSE t[2]

\* ... close_f(fd), and m_sock = -1.
CloseFd(t) ==
  /\ At(t, "closef")
  /\ CloseF({fd[t]})
  /\ m_sock' = [m_sock EXCEPT ![SocketOf(t)] = NoFd]
  /\ fd' = [fd EXCEPT ![t] = NoFd]
  /\ IF t \in Stops
     THEN todo' = [todo EXCEPT ![t] = Tail(@)] /\ Goto(t, "next") /\ UNCHANGED running
     ELSE Goto(t, "none") /\ Leave(t) /\ UNCHANGED todo
  /\ UNCHANGED <<queue, newConn, progVars, serverVars, ctx, waiting, busy, data, died>>

TaskStep(t) ==
  \/ t = Program /\ ProgramStep
  \/ AcceptLoop(t)
  \/ TryAccept(t)
  \/ Adopt(t)
  \/ \E c \in Conns : t = Client(c) /\ (ClientLoop(c) \/ TryRecv(c))
  \/ AddEvent(t)
  \/ StopFirst(t)
  \/ StopNext(t)
  \/ CloseCancel(t)
  \/ CloseDel(t)
  \/ CloseFd(t)

-----------------------------------------------------------------------------
(***************************************************************************)
(* The threads, and the world outside.                                     *)
(***************************************************************************)
ThreadFree == Cardinality(running) < usage.threads

Take ==
  /\ ThreadFree
  /\ queue # <<>>
  /\ running' = running \cup {Head(queue)}
  /\ queue' = Tail(queue)
  /\ UNCHANGED <<taskVars, progVars, serverVars, fdVars, eventVars, netVars, died>>

\* What epoll finds: a connection to accept, bytes to read.
Ready(f) ==
  \/ kernel[f] \in Listeners /\ Backlog(kernel[f][1]) # {}
  \/ kernel[f] \in Conns /\ data[kernel[f]] \in {"data", "eof"}

\* Between two tasks, and while there is none, a thread is in idle(): epoll_wait
\* and triggerEvent.
Report(f) ==
  /\ ThreadFree
  /\ f \in watched /\ Ready(f)
  /\ Schedule(<<waiting[f]>>)
  /\ waiting' = [waiting EXCEPT ![f] = Nobody]
  /\ watched' = watched \ {f}
  /\ UNCHANGED <<running, taskVars, progVars, serverVars, fdVars, netVars, died>>

Timeout(c) == ThreadFree /\ RecvTimeout(c)

Connect(c, a) ==
  /\ conn[c] = "none" /\ Listening(a)
  /\ conn' = [conn EXCEPT ![c] = a]
  /\ UNCHANGED <<schedVars, taskVars, progVars, serverVars, fdVars, eventVars, busy, data, died>>

\* A client sends once and closes, or only closes, or neither; one that never
\* paused would keep handleClient, and with it the thread, for itself.
Send(c, what) ==
  /\ conn[c] \in Addresses \cup {"open"}
  /\ data[c] = "none" \/ (data[c] = "spent" /\ what = "eof")
  /\ data' = [data EXCEPT ![c] = what]
  /\ UNCHANGED <<schedVars, taskVars, progVars, serverVars, fdVars, eventVars, busy, conn, died>>

Release(a) ==
  /\ a \in busy
  /\ busy' = busy \ {a}
  /\ UNCHANGED <<schedVars, taskVars, progVars, serverVars, fdVars, eventVars, conn, data, died>>

World ==
  \/ \E c \in Conns, a \in Addresses : Connect(c, a)
  \/ \E c \in Conns, what \in {"data", "eof"} : Send(c, what)
  \/ \E a \in Addresses : Release(a)

Next ==
  \/ died = "no" /\ \E t \in running : TaskStep(t)
  \/ died = "no" /\ Take
  \/ died = "no" /\ \E f \in Fds : Report(f)
  \/ died = "no" /\ \E c \in Conns : Timeout(c)
  \/ died = "no" /\ Wake
  \/ died = "no" /\ World

Spec == Init /\ [][Next]_vars

\* Some thread with a task goes on, a free one takes a task, idle() reports what
\* is ready and what is due, and other processes give up the addresses.
Fairness ==
  /\ WF_vars(died = "no" /\ \E t \in running : TaskStep(t))
  /\ WF_vars(died = "no" /\ Take)
  /\ WF_vars(died = "no" /\ \E f \in Fds : Report(f))
  /\ WF_vars(died = "no" /\ \E c \in Conns : Timeout(c))
  /\ WF_vars(died = "no" /\ \E a \in Addresses : Release(a))

FairSpec == Spec /\ Fairness

-----------------------------------------------------------------------------
(***************************************************************************)
(* Properties.                                                             *)
(***************************************************************************)
\* Types of the variables.
TypeOK ==
  /\ queue \in Seq(Tasks)
  /\ running \subseteq Tasks
  /\ fd \in [Tasks -> Fds \cup {NoFd}]
  /\ m_sockets \in Seq(Listeners)
  /\ m_sock \in [Objects -> Fds \cup {NoFd}]
  /\ kernel \in [Fds -> Objects \cup {Nobody}]
  /\ ctx \in [Fds -> Objects \cup {Nobody}]
  /\ waiting \in [Fds -> Tasks \cup {Nobody}]
  /\ watched \subseteq Fds

\* Descriptors are closed by one task while another gets the same number from
\* the kernel, and a suspended call keeps the number it was made with.  Still, a
\* task that is about to read or accept on an open descriptor means this one,
\* and finds the FdContext made for it (non-blocking, with its own timeouts).
OwnDescriptor ==
  \A t \in Accepts \cup Clients :
    pc[t] = "try" /\ IsOpen(fd[t]) /\ (\A u \in Stops : fd[u] # fd[t]) =>
      kernel[fd[t]] = t[2] /\ ctx[fd[t]] = t[2]

Quiet ==
  /\ \A t \in Tasks \ {Program} : pc[t] = "none"
  /\ \A f \in Fds : kernel[f] = Nobody /\ ctx[f] = Nobody /\ waiting[f] = Nobody

\* After stop() the server ends: its accept tasks and clients, although some
\* were suspended, its descriptors and its events, so that the IOManager can
\* stop as well.
StopEnds == <>[](isStop /\ pc[Program] \in {"asleep", "end"}) => <>[]Quiet

\* No client waits for ever: a connection is accepted, or reset.
NobodyWaits == \A c \in Conns : conn[c] \in Addresses ~> conn[c] \in {"open", "gone"}

\* Every client is let go: it closed, or its timeout came, or the server stopped.
ClientsEnd == \A c \in Conns : conn[c] = "open" ~> conn[c] = "gone"

\* The retry loop around bind ends once the addresses are free.
BindSucceeds == <>(pc[Program] = "start")
=============================================================================
