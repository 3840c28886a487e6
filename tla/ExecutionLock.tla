---------------------------- MODULE ExecutionLock ----------------------------
(***************************************************************************)
(* The lock file of app/locking.py, system call by system call.            *)
(*                                                                         *)
(* A run calls acquire() on entry to the guarded region and release() on   *)
(* every way out of it.  The file is created with O_CREAT | O_EXCL; a run  *)
(* that finds one looks at its age (stat), refuses if it is younger than   *)
(* TTL, and otherwise unlinks it and creates its own.  Both methods are    *)
(* synchronous, so within one event loop (one process) nothing runs        *)
(* between their system calls; runs of different processes interleave at   *)
(* every one of them.                                                      *)
(*                                                                         *)
(* Time is counted in ticks: the age of the file, capped at TTL because    *)
(* nothing tells older files apart, and how long each holder has been      *)
(* inside.  MaxHold bounds the latter; the code itself does not (the       *)
(* history push runs after the pipeline's timeout), so MaxHold < TTL is an *)
(* assumption about the deployment.                                        *)
(***************************************************************************)
EXTENDS Naturals, FiniteSets

CONSTANTS
  Run,          \* the requests that may run the pipeline; a request may come back
  Process,      \* the server processes that share the data directory
  NoFile,       \* "there is no lock file"
  TTL,          \* ttl_seconds, in ticks
  MaxHold,      \* the longest a run stays inside, in ticks
  Deployments   \* [home: Run -> Process, crashes: how often a process may die or a disk be full]

ASSUME NoFileAssumption == NoFile \notin Run
ASSUME TimeAssumption == TTL \in Nat \ {0} /\ MaxHold \in Nat
ASSUME DeploymentAssumption ==
  Deployments \subseteq [home : [Run -> Process], crashes : Nat]

VARIABLES
  home,         \* the process each run lives in; fixed once deployed
  budget,       \* how many more times a process may die or a disk be full
  file,         \* the run that created the lock file, or NoFile
  age,          \* ticks since the file was created, at most TTL
  pc,           \* where each run is in acquire() and release()
  hold          \* how many ticks each holder has been inside

vars == <<home, budget, file, age, pc, hold>>

\* "found": about to stat, after a failed create; "stale": about to unlink;
\* "again": about to create a second time; "held": _held is True.
Location == {"idle", "found", "stale", "again", "held", "refused"}

TypeOK ==
  /\ home \in [Run -> Process]
  /\ budget \in Nat
  /\ file \in Run \cup {NoFile}
  /\ age \in 0 .. TTL
  /\ pc \in [Run -> Location]
  /\ hold \in [Run -> 0 .. MaxHold]

Holders == {r \in Run : pc[r] = "held"}
Acquiring(r) == pc[r] \in {"found", "stale", "again"}

\* r may take a step of its process's event loop: no other run of the process is
\* between two system calls of acquire().
Scheduled(r) == \A s \in Run : home[s] = home[r] /\ Acquiring(s) => s = r

Init ==
  /\ \E d \in Deployments : home = d.home /\ budget = d.crashes
  /\ file = NoFile
  /\ age = 0
  /\ pc = [r \in Run |-> "idle"]
  /\ hold = [r \in Run |-> 0]

-----------------------------------------------------------------------------
\* os.open(O_CREAT | O_EXCL) succeeds: the file is r's and _held becomes True.
Created(r) ==
  /\ file = NoFile
  /\ file' = r
  /\ age' = 0
  /\ pc' = [pc EXCEPT ![r] = "held"]
  /\ hold' = [hold EXCEPT ![r] = 0]

\* _create() has created the file and cannot write its text into it, as on a full disk:
\* acquire() raises with _held still False, and the file stays behind.
CreateFails(r) ==
  /\ budget > 0
  /\ file = NoFile
  /\ pc[r] = "again" \/ (pc[r] \in {"idle", "refused"} /\ Scheduled(r))
  /\ file' = r
  /\ age' = 0
  /\ pc' = [pc EXCEPT ![r] = "idle"]
  /\ budget' = budget - 1
  /\ UNCHANGED <<home, hold>>

\* r's acquire() ends with RUN_ALREADY_IN_PROGRESS.
Refused(r) ==
  /\ pc' = [pc EXCEPT ![r] = "refused"]
  /\ UNCHANGED <<file, age, hold>>

-----------------------------------------------------------------------------
(* Variants with a plausible bug each, to confirm that the properties below can fail. *)

\* The second create without O_EXCL: the file found is truncated and taken over.
CreateAgainNotExclusive(r) ==
  /\ pc[r] = "again"
  /\ file' = r
  /\ age' = 0
  /\ pc' = [pc EXCEPT ![r] = "held"]
  /\ hold' = [hold EXCEPT ![r] = 0]
  /\ UNCHANGED <<home, budget>>

\* The comparison off by one: age <= ttl_seconds refuses.
CheckAgeOffByOne(r) ==
  /\ pc[r] = "found"
  /\ \/ file # NoFile /\ age <= TTL /\ Refused(r)
     \/ file = NoFile /\ pc' = [pc EXCEPT ![r] = "again"] /\ UNCHANGED <<file, age, hold>>
  /\ UNCHANGED <<home, budget>>

\* The stale file is reported as cleared and left where it is.
BreakStaleKeepsFile(r) ==
  /\ pc[r] = "stale"
  /\ pc' = [pc EXCEPT ![r] = "again"]
  /\ UNCHANGED <<home, budget, file, age, hold>>

\* The age is not looked at: every file found counts as stale.
CheckAgeAlwaysStale(r) ==
  /\ pc[r] = "found"
  /\ pc' = [pc EXCEPT ![r] = IF file = NoFile THEN "again" ELSE "stale"]
  /\ UNCHANGED <<home, budget, file, age, hold>>

-----------------------------------------------------------------------------
\* acquire(): the first create.
TryCreate(r) ==
  /\ pc[r] \in {"idle", "refused"}
  /\ Scheduled(r)
  /\ \/ Created(r)
     \/ /\ file # NoFile
        /\ pc' = [pc EXCEPT ![r] = "found"]
        /\ UNCHANGED <<file, age, hold>>
  /\ UNCHANGED <<home, budget>>

\* _break_if_stale(): stat, and what its answer leads to.  A file that has vanished
\* counts as cleared; one younger than the TTL belongs to a run in progress.
CheckAge(r) ==
  /\ pc[r] = "found"
  /\ \/ /\ file = NoFile
        /\ pc' = [pc EXCEPT ![r] = "again"]
        /\ UNCHANGED <<file, age, hold>>
     \/ /\ file # NoFile
        /\ age < TTL
        /\ Refused(r)
     \/ /\ file # NoFile
        /\ age >= TTL
        /\ pc' = [pc EXCEPT ![r] = "stale"]
        /\ UNCHANGED <<file, age, hold>>
  /\ UNCHANGED <<home, budget>>

\* _break_if_stale(): unlink(missing_ok=True), whatever file is there by now.
BreakStale(r) ==
  /\ pc[r] = "stale"
  /\ file' = NoFile
  /\ age' = 0
  /\ pc' = [pc EXCEPT ![r] = "again"]
  /\ UNCHANGED <<home, budget, hold>>

\* acquire(): the second create.
CreateAgain(r) ==
  /\ pc[r] = "again"
  /\ \/ Created(r)
     \/ file # NoFile /\ Refused(r)
  /\ UNCHANGED <<home, budget>>

\* release(), from __exit__: unlink(missing_ok=True), whatever file is there by now.
Release(r) ==
  /\ pc[r] = "held"
  /\ Scheduled(r)
  /\ file' = NoFile
  /\ age' = 0
  /\ pc' = [pc EXCEPT ![r] = "idle"]
  /\ UNCHANGED <<home, budget, hold>>

\* A process dies with all its runs and is started again; the file stays.
Crash(p) ==
  /\ budget > 0
  /\ \E r \in Run : home[r] = p /\ pc[r] \notin {"idle", "refused"}
  /\ budget' = budget - 1
  /\ pc' = [r \in Run |-> IF home[r] = p THEN "idle" ELSE pc[r]]
  /\ UNCHANGED <<home, file, age, hold>>

\* Time passes; no holder stays inside for more than MaxHold ticks.
Tick ==
  /\ \A r \in Holders : hold[r] < MaxHold
  /\ age' = IF file # NoFile /\ age < TTL THEN age + 1 ELSE age
  /\ hold' = [r \in Run |-> IF r \in Holders THEN hold[r] + 1 ELSE hold[r]]
  /\ UNCHANGED <<home, budget, file, pc>>

Step(r) ==
  \/ TryCreate(r)
  \/ CheckAge(r)
  \/ BreakStale(r)
  \/ CreateAgain(r)
  \/ Release(r)

Next ==
  \/ \E r \in Run : Step(r) \/ CreateFails(r)
  \/ \E p \in Process : Crash(p)
  \/ Tick

Spec == Init /\ [][Next]_vars

\* Requests keep coming (the daily cron), a request that is being served goes on to
\* its end, and time passes.
FairSpec ==
  /\ Spec
  /\ WF_vars(Tick)
  /\ \A r \in Run : WF_vars(Step(r))

-----------------------------------------------------------------------------
\* A deployment in which an abandoned file cannot be contended for by two processes:
\* one process only, which is what render.yaml starts, or processes that do not die on
\* disks that do not fill up.
OneProcess == \A r, s \in Run : home[r] = home[s]
SafeDeployment == OneProcess \/ budget = 0

\* The same of every deployment considered, and no run outstays the TTL.  The runs and the
\* proofs assume this; of a run that outstays the TTL they say nothing.
Healthy ==
  /\ MaxHold < TTL
  /\ \A d \in Deployments :
       d.crashes = 0 \/ \A r, s \in Run : d.home[r] = d.home[s]

\* At most one run is inside the guarded region ("Only one briefing should run at a
\* time", the first line of the module's docstring).
MutualExclusion == \A r, s \in Holders : r = s

\* What makes MutualExclusion inductive: the file of a run inside is its own and
\* exactly as old as its stay, so it is never stale; without crashes there is never a
\* file without a run inside, and with them only one run at a time is in acquire(),
\* so an abandoned file found stale is still the abandoned one when it is unlinked.
LockInv ==
  /\ TypeOK
  /\ SafeDeployment
  /\ MutualExclusion
  /\ \A r \in Holders : file = r /\ age = hold[r]
  /\ \A r \in Run : pc[r] = "stale" => OneProcess /\ Holders = {}
  /\ OneProcess => \A r, s \in Run : Acquiring(r) /\ Acquiring(s) => r = s
  /\ OneProcess => \A r \in Run : pc[r] = "again" => file = NoFile
  /\ ~OneProcess => (file # NoFile => file \in Holders)

\* A run leaving the region removes its own file and no other ("Release only a lock we
\* actually hold, so we never delete someone else's", locking.py:68).
ReleasesOwnFile ==
  [][\A r \in Run : Release(r) => file = r]_vars

\* A run is turned away only by a file younger than the TTL, so that neither a crash
\* nor a slow run blocks every later request (locking.py:7-8).
RefusedByFreshFileOnly ==
  [][\A r \in Run : pc[r] # "refused" /\ pc'[r] = "refused"
        => file # NoFile /\ age < TTL]_vars

\* The lock file of a dead run, or of one that could not write it, does not survive for ever: as long as requests keep
\* coming, one of them removes it (locking.py:7-8).
AbandonedFileIsCleared ==
  (file # NoFile /\ Holders = {}) ~> (file = NoFile \/ Holders # {})

\* The lock implements the guard.
Guard == INSTANCE ExclusiveRun WITH inside <- Holders
ImplementsGuard == Guard!Spec
=============================================================================
