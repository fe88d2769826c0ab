------------------------------ MODULE TaskPool ------------------------------
(***************************************************************************)
(* What a Scheduler promises to the program that uses it, without threads, *)
(* queue, counters or fibers: a task that was accepted is finished, no     *)
(* task is accepted out of nothing once the pool is being closed, and the  *)
(* pool counts as closed only when nothing is pending.                     *)
(***************************************************************************)
CONSTANT Tasks

VARIABLES
  status,   \* per task: "new", "pending" or "done"
  phase     \* "open", "closing" (inside stop()), "closed" (stop() returned)

vars == <<status, phase>>

Pending == {k \in Tasks : status[k] = "pending"}

Init ==
  /\ status = [k \in Tasks |-> "new"]
  /\ phase = "open"

\* While the pool is being closed only a pending task can submit another one.
Submit(k) ==
  /\ status[k] = "new"
  /\ phase = "open" \/ (phase = "closing" /\ Pending # {})
  /\ status' = [status EXCEPT ![k] = "pending"]
  /\ UNCHANGED phase

Finish(k) ==
  /\ status[k] = "pending"
  /\ status' = [status EXCEPT ![k] = "done"]
  /\ UNCHANGED phase

BeginClose ==
  /\ phase = "open"
  /\ phase' = "closing"
  /\ UNCHANGED status

Close ==
  /\ phase = "closing"
  /\ Pending = {}
  /\ phase' = "closed"
  /\ UNCHANGED status

Next ==
  \/ \E k \in Tasks : Submit(k) \/ Finish(k)
  \/ BeginClose
  \/ Close

Spec == Init /\ [][Next]_vars

\* The pool is only obliged to finish a task once it is being closed: a task
\* pinned to the caller's thread waits for stop().
Fairness ==
  /\ WF_vars(Close)
  /\ \A k \in Tasks : WF_vars(phase = "closing" /\ Finish(k))

FairSpec == Spec /\ Fairness
=============================================================================
