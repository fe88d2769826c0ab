---------------------------- MODULE MCTcpServer -----------------------------
(***************************************************************************)
(* Instances of TcpServer for TLC.                                         *)
(***************************************************************************)
EXTENDS TcpServer, TLC

\* One thread, and stop(), or start() and bind() once more; two threads and a
\* server that runs on.
SafeUsages ==
  {[threads |-> 1, calls |-> {"stop"}, times |-> 1],
   [threads |-> 1, calls |-> {"start", "bind"}, times |-> 1],
   [threads |-> 2, calls |-> {}, times |-> 0]}

\* stop() with two threads.
StopUsages == {[threads |-> 2, calls |-> {"stop"}, times |-> 1]}

\* start() after stop().
RestartUsages == {[threads |-> 1, calls |-> {"stop", "start"}, times |-> 2]}

\* stop(), bind() and start() again.
ReopenUsages == {[threads |-> 1, calls |-> {"stop", "bind", "start"}, times |-> 3]}

\* bind() after start().
RebindUsages == {[threads |-> 1, calls |-> {"stop", "bind"}, times |-> 2]}
=============================================================================
