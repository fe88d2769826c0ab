------------------------------ MODULE MCTimer ------------------------------
(***************************************************************************)
(* Instances of TimerManager for TLC.                                      *)
(***************************************************************************)
EXTENDS TimerManager, TLC

CONSTANTS t1, t2, c1, c2, s1, s2

OneTimer == {t1}
TwoTimers == {t1, t2}
Recurs == {t2}
OneClient == {c1}
TwoClients == {c1, c2}
OneSleeper == {s1}
TwoSleepers == {s1, s2}

ThreadSymmetry == Permutations(Clients) \cup Permutations(Sleepers)
=============================================================================
