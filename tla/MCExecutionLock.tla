--------------------------- MODULE MCExecutionLock ---------------------------
(***************************************************************************)
(* Small deployments of the lock file for TLC.                             *)
(***************************************************************************)
EXTENDS ExecutionLock

CONSTANTS r1, r2, r3, p1, p2

MCRun == {r1, r2, r3}
MCProcess == {p1, p2}

\* The service of render.yaml: every request in one process, which may die.
Single == [home |-> [r \in MCRun |-> p1], crashes |-> 2]

\* Two processes on one data directory: r1 and r2 here, r3 there.
Split == [r \in MCRun |-> IF r = r3 THEN p2 ELSE p1]

MCSafe == {Single, [home |-> Split, crashes |-> 0]}
=============================================================================
