---------------------------- MODULE MCScheduler ----------------------------
(***************************************************************************)
(* Instances of Scheduler for TLC.                                         *)
(***************************************************************************)
EXTENDS Scheduler, TLC

CONSTANTS w1, w2, c

TaskSymmetry == Permutations(Tasks)

OneWorker == {w1}
TwoWorkers == {w1, w2}
NoWorkers == {}
PinToCaller == {c}
PinToWorker == {w1}
=============================================================================
