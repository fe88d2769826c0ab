---------------------------- MODULE MCIOManager ----------------------------
(***************************************************************************)
(* Instances of IOManager for TLC.                                         *)
(***************************************************************************)
EXTENDS IOManager, TLC

CONSTANTS w1, w2, c, f

TaskSymmetry == Permutations(Tasks)

NoWorkers == {}
OneWorker == {w1}
TwoWorkers == {w1, w2}

\* Every callback on an fd of its own, or all of them one after the other on one.
OwnFd == [k \in Tasks |-> k]
SharedFd == [k \in Tasks |-> f]
=============================================================================
