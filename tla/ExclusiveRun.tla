---------------------------- MODULE ExclusiveRun ----------------------------
(***************************************************************************)
(* What the single-execution guard of app/locking.py promises, with no     *)
(* file, clock or process in sight: a set of runs is inside the guarded    *)
(* region, a run enters only when nobody is inside, and runs leave, one    *)
(* because it is done or several because their process died.               *)
(***************************************************************************)
CONSTANT Run        \* the pipeline runs that may want the data directory

VARIABLE inside     \* the runs inside the guarded region

Init == inside = {}

\* A run enters an empty region.
Enter(r) ==
  /\ inside = {}
  /\ inside' = {r}

\* Runs leave: an ordinary release, or the death of the process they lived in.
Leave(R) ==
  /\ R # {}
  /\ R \subseteq inside
  /\ inside' = inside \ R

Next ==
  \/ \E r \in Run : Enter(r)
  \/ \E R \in SUBSET Run : Leave(R)

Spec == Init /\ [][Next]_inside
=============================================================================
