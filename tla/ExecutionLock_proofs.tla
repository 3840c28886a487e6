------------------------- MODULE ExecutionLock_proofs -------------------------
(***************************************************************************)
(* Proofs about the lock file, for any runs, processes and durations.      *)
(*                                                                         *)
(* Under Healthy (no run outstays the TTL, and either one process or no    *)
(* faults) LockInv is inductive.  Mutual exclusion, that release()         *)
(* removes only the releaser's file, that only a fresh file turns a run    *)
(* away, and that the lock implements ExclusiveRun all follow from it.     *)
(***************************************************************************)
EXTENDS ExecutionLock, TLAPS

USE NoFileAssumption, TimeAssumption, DeploymentAssumption

\* Every variable keeps its type whatever the deployment.
THEOREM TypeCorrect == Spec => []TypeOK
<1>1. Init => TypeOK
  BY DEF Init, TypeOK, Location
<1>2. TypeOK /\ [Next]_vars => TypeOK'
  <2> SUFFICES ASSUME TypeOK, [Next]_vars PROVE TypeOK'
    OBVIOUS
  <2> USE DEF TypeOK, Location
  <2>1. ASSUME NEW r \in Run, TryCreate(r) PROVE TypeOK'
    BY <2>1 DEF TryCreate, Created
  <2>2. ASSUME NEW r \in Run, CheckAge(r) PROVE TypeOK'
    BY <2>2 DEF CheckAge, Refused
  <2>3. ASSUME NEW r \in Run, BreakStale(r) PROVE TypeOK'
    BY <2>3 DEF BreakStale
  <2>4. ASSUME NEW r \in Run, CreateAgain(r) PROVE TypeOK'
    BY <2>4 DEF CreateAgain, Created, Refused
  <2>5. ASSUME NEW r \in Run, Release(r) PROVE TypeOK'
    BY <2>5 DEF Release
  <2>6. ASSUME NEW p \in Process, Crash(p) PROVE TypeOK'
    BY <2>6 DEF Crash
  <2>7. CASE Tick
    BY <2>7 DEF Tick, Holders
  <2>8. CASE UNCHANGED vars
    BY <2>8 DEF vars
  <2>9. ASSUME NEW r \in Run, CreateFails(r) PROVE TypeOK'
    BY <2>9 DEF CreateFails
  <2>10. QED
    BY <2>1, <2>2, <2>3, <2>4, <2>5, <2>6, <2>7, <2>8, <2>9 DEF Next, Step
<1>3. QED
  BY <1>1, <1>2, PTL DEF Spec

-----------------------------------------------------------------------------
\* The deployments of Healthy start safe.
LEMMA InitLockInv ==
  ASSUME Healthy, Init
  PROVE  LockInv
<1>1. TypeOK
  BY DEF Init, TypeOK, Location
<1>2. PICK d \in Deployments : home = d.home /\ budget = d.crashes
  BY DEF Init
<1>3. SafeDeployment
  BY <1>2 DEF Healthy, SafeDeployment, OneProcess
<1>4. Holders = {} /\ \A r \in Run : pc[r] = "idle"
  BY DEF Init, Holders
<1>5. QED
  BY <1>1, <1>3, <1>4 DEF LockInv, MutualExclusion, Acquiring, Init

\* Every step of a healthy deployment preserves the inductive invariant.
LEMMA NextLockInv ==
  ASSUME Healthy, LockInv, TypeOK', [Next]_vars
  PROVE  LockInv'
<1> USE DEF LockInv, TypeOK
<1>0. /\ home' = home /\ (OneProcess' <=> OneProcess)
      /\ SafeDeployment'
  BY DEF Next, Step, TryCreate, CheckAge, BreakStale, CreateAgain, Release, Crash,
         CreateFails, Tick, vars, OneProcess, SafeDeployment
<1>1. ASSUME NEW r \in Run, TryCreate(r) PROVE LockInv'
  <2>1. CASE Created(r)
    BY <1>0, <1>1, <2>1
    DEF TryCreate, Created, Scheduled, Holders, MutualExclusion, Acquiring, OneProcess
  <2>2. CASE file # NoFile /\ pc' = [pc EXCEPT ![r] = "found"] /\ UNCHANGED <<file, age, hold>>
    BY <1>0, <1>1, <2>2
    DEF TryCreate, Holders, MutualExclusion, Acquiring, Scheduled, OneProcess
  <2>3. QED
    BY <1>1, <2>1, <2>2 DEF TryCreate
<1>2. ASSUME NEW r \in Run, CheckAge(r) PROVE LockInv'
  <2>1. CASE file # NoFile /\ age >= TTL
    <3>1. Holders = {}
      BY <2>1 DEF Healthy, Holders
    <3>2. OneProcess
      BY <2>1, <3>1
    <3>3. QED
      BY <1>0, <1>2, <2>1, <3>1, <3>2
      DEF CheckAge, Refused, Holders, MutualExclusion, Acquiring, OneProcess
  <2>2. CASE ~(file # NoFile /\ age >= TTL)
    BY <1>0, <1>2, <2>2
    DEF CheckAge, Refused, Holders, MutualExclusion, Acquiring, OneProcess
  <2>3. QED
    BY <2>1, <2>2
<1>3. ASSUME NEW r \in Run, BreakStale(r) PROVE LockInv'
  BY <1>0, <1>3
  DEF BreakStale, Holders, MutualExclusion, Acquiring, OneProcess
<1>4. ASSUME NEW r \in Run, CreateAgain(r) PROVE LockInv'
  <2>1. CASE Created(r)
    BY <1>0, <1>4, <2>1
    DEF CreateAgain, Created, Holders, MutualExclusion, Acquiring, OneProcess
  <2>2. CASE Refused(r)
    BY <1>0, <1>4, <2>2
    DEF CreateAgain, Refused, Holders, MutualExclusion, Acquiring, OneProcess
  <2>3. QED
    BY <1>4, <2>1, <2>2 DEF CreateAgain
<1>5. ASSUME NEW r \in Run, Release(r) PROVE LockInv'
  BY <1>0, <1>5
  DEF Release, Holders, MutualExclusion, Acquiring, OneProcess
<1>6. ASSUME NEW p \in Process, Crash(p) PROVE LockInv'
  <2>1. OneProcess
    BY <1>6 DEF Crash, SafeDeployment
  <2>2. QED
    BY <1>0, <1>6, <2>1 DEF Crash, Holders, MutualExclusion, Acquiring, OneProcess
<1>7. CASE Tick
  BY <1>0, <1>7 DEF Tick, Healthy, Holders, MutualExclusion, Acquiring
<1>8. CASE UNCHANGED vars
  BY <1>0, <1>8 DEF vars, Holders, MutualExclusion, Acquiring
<1>9. ASSUME NEW r \in Run, CreateFails(r) PROVE LockInv'
  <2>1. OneProcess /\ Holders = {}
    BY <1>9 DEF CreateFails, SafeDeployment, Holders
  <2>2. Holders' = {} /\ \A s \in Run \ {r} : ~Acquiring(s)
    <3>1. Holders' = {}
      BY <1>9, <2>1 DEF CreateFails, Holders
    <3>2. CASE pc[r] = "again"
      BY <2>1, <3>1, <3>2 DEF Acquiring
    <3>3. CASE Scheduled(r)
      BY <2>1, <3>1, <3>3 DEF Scheduled, OneProcess
    <3>4. QED
      BY <1>9, <3>1, <3>2, <3>3 DEF CreateFails
  <2>3. \A s \in Run : ~Acquiring(s)'
    BY <1>9, <2>2 DEF CreateFails, Acquiring
  <2>4. \A s \in Run : pc'[s] \notin {"stale", "again"}
    BY <2>3 DEF Acquiring
  <2>5. QED
    BY <1>0, <2>1, <2>2, <2>3, <2>4 DEF MutualExclusion
<1>10. QED
  BY <1>1, <1>2, <1>3, <1>4, <1>5, <1>6, <1>7, <1>8, <1>9 DEF Next, Step

\* Healthy deployments keep the inductive invariant.
THEOREM LockInvariant ==
  ASSUME Healthy
  PROVE  Spec => []LockInv
<1>1. Init => LockInv
  BY InitLockInv
<1>2. LockInv /\ TypeOK' /\ [Next]_vars => LockInv'
  BY NextLockInv
<1>3. QED
  BY <1>1, <1>2, TypeCorrect, PTL DEF Spec

-----------------------------------------------------------------------------
\* At most one run is inside the guarded region (locking.py:3).
THEOREM MutexHolds ==
  ASSUME Healthy
  PROVE  Spec => []MutualExclusion
<1>1. LockInv => MutualExclusion
  BY DEF LockInv
<1>2. QED
  BY <1>1, LockInvariant, PTL

\* release() never deletes another run's file (locking.py:68).
THEOREM ReleasesOwnFileHolds ==
  ASSUME Healthy
  PROVE  Spec => ReleasesOwnFile
<1>1. LockInv /\ [Next]_vars => [\A r \in Run : Release(r) => file = r]_vars
  BY DEF LockInv, Release, Holders
<1>2. QED
  BY <1>1, LockInvariant, PTL DEF Spec, ReleasesOwnFile

\* acquire() turns a run away only for a file younger than the TTL.
THEOREM RefusedByFreshFileOnlyHolds ==
  ASSUME Healthy
  PROVE  Spec => RefusedByFreshFileOnly
<1> DEFINE Fresh ==
      \A r \in Run : pc[r] # "refused" /\ pc'[r] = "refused" => file # NoFile /\ age < TTL
<1>1. LockInv /\ [Next]_vars => [Fresh]_vars
  <2> SUFFICES ASSUME LockInv, [Next]_vars,
                      NEW r \in Run, pc[r] # "refused", pc'[r] = "refused"
               PROVE  file # NoFile /\ age < TTL
    OBVIOUS
  <2> USE DEF LockInv, TypeOK
  <2>1. ASSUME NEW s \in Run, CheckAge(s) PROVE file # NoFile /\ age < TTL
    BY <2>1 DEF CheckAge, Refused
  <2>2. ASSUME NEW s \in Run, CreateAgain(s) PROVE file # NoFile /\ age < TTL
    BY <2>2 DEF CreateAgain, Created, Refused, Healthy, Holders
  <2>3. QED
    BY <2>1, <2>2 DEF Next, Step, TryCreate, Created, BreakStale, Release, Crash, CreateFails,
                      Tick, vars
<1>2. QED
  BY <1>1, LockInvariant, PTL DEF Spec, RefusedByFreshFileOnly

\* The lock implements the abstract guard: a create is an entry into an empty region,
\* a release and a crash are departures, and every other step is a stutter.
THEOREM ImplementsGuardHolds ==
  ASSUME Healthy
  PROVE  Spec => ImplementsGuard
<1>1. Init => Guard!Init
  BY DEF Init, Guard!Init, Holders
<1>2. LockInv /\ [Next]_vars => [Guard!Next]_Holders
  <2> SUFFICES ASSUME LockInv, [Next]_vars PROVE [Guard!Next]_Holders
    OBVIOUS
  <2> USE DEF LockInv, TypeOK
  <2>1. ASSUME NEW r \in Run, Created(r), pc[r] # "held" PROVE Guard!Enter(r)
    BY <2>1 DEF Created, Holders, Guard!Enter
  <2>2. ASSUME NEW r \in Run, pc[r] # "held",
               NEW l \in Location \ {"held"}, pc' = [pc EXCEPT ![r] = l]
        PROVE  Holders' = Holders
    BY <2>2 DEF Holders, Location
  <2>3. ASSUME NEW r \in Run, TryCreate(r) PROVE [Guard!Next]_Holders
    BY <2>1, <2>2, <2>3 DEF TryCreate, Guard!Next, Location
  <2>4. ASSUME NEW r \in Run, CheckAge(r) PROVE [Guard!Next]_Holders
    BY <2>2, <2>4 DEF CheckAge, Refused, Location
  <2>5. ASSUME NEW r \in Run, BreakStale(r) PROVE [Guard!Next]_Holders
    BY <2>2, <2>5 DEF BreakStale, Location
  <2>6. ASSUME NEW r \in Run, CreateAgain(r) PROVE [Guard!Next]_Holders
    BY <2>1, <2>2, <2>6 DEF CreateAgain, Refused, Guard!Next, Location
  <2>7. ASSUME NEW r \in Run, Release(r) PROVE [Guard!Next]_Holders
    <3>1. {r} \in SUBSET Run /\ {r} \subseteq Holders /\ {r} # {}
      BY <2>7 DEF Release, Holders
    <3>2. Holders' = Holders \ {r}
      BY <2>7 DEF Release, Holders
    <3>3. QED
      BY <3>1, <3>2 DEF Guard!Next, Guard!Leave
  <2>8. ASSUME NEW p \in Process, Crash(p) PROVE [Guard!Next]_Holders
    <3> DEFINE Dead == {r \in Holders : home[r] = p}
    <3>1. Dead \in SUBSET Run /\ Dead \subseteq Holders
      BY DEF Holders
    <3>2. Holders' = Holders \ Dead
      BY <2>8 DEF Crash, Holders
    <3>3. CASE Dead = {}
      BY <3>2, <3>3
    <3>4. CASE Dead # {}
      BY <3>1, <3>2, <3>4 DEF Guard!Next, Guard!Leave
    <3>5. QED
      BY <3>3, <3>4
  <2>9. CASE Tick \/ UNCHANGED vars
    BY <2>9 DEF Tick, vars, Holders
  <2>10. ASSUME NEW r \in Run, CreateFails(r) PROVE [Guard!Next]_Holders
    BY <2>2, <2>10 DEF CreateFails, Location, Holders
  <2>11. QED
    BY <2>3, <2>4, <2>5, <2>6, <2>7, <2>8, <2>9, <2>10 DEF Next, Step
<1>3. QED
  BY <1>1, <1>2, LockInvariant, PTL DEF Spec, ImplementsGuard, Guard!Spec
=============================================================================
