----------------------------- MODULE MCFdEvents -----------------------------
(***************************************************************************)
(* Instances of FdEvents for TLC.                                          *)
(***************************************************************************)
EXTENDS FdEvents, TLC

CONSTANTS t1, t2, READ, WRITE

AllOperations == {"addEvent", "delEvent", "cancelEvent", "cancelAll"}
LockedOperations == {"addEvent", "cancelAll"}

\* One thread with everything; two threads with the locked operations, one
\* event and one fd beyond the initial vector.
SafeUsages ==
  {[threads |-> {t1}, fds |-> Fds, events |-> Events, operations |-> AllOperations],
   [threads |-> Threads, fds |-> {1, 2}, events |-> {READ},
    operations |-> LockedOperations]}

\* Two threads, both events.
BothEvents ==
  {[threads |-> Threads, fds |-> {1}, events |-> Events, operations |-> LockedOperations]}

\* Two threads, one of which may be in an operation that does not lock.
UnlockedOperations ==
  {[threads |-> Threads, fds |-> {1}, events |-> {READ}, operations |-> AllOperations]}

\* Two threads, two fds beyond the initial vector.
TwoGrow ==
  {[threads |-> Threads, fds |-> {2, 3}, events |-> {READ},
    operations |-> LockedOperations]}
=============================================================================
