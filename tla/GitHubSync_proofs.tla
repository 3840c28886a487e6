-------------------------- MODULE GitHubSync_proofs --------------------------
(***************************************************************************)
(* Proofs about the synchronisation with GitHub, for any datasets and any  *)
(* number of runs, foreign commits, rows and nested requests.  SyncInv is  *)
(* inductive, and which rows a request may take out of the repository      *)
(* follows from it.                                                        *)
(***************************************************************************)
EXTENDS GitHubSync, TLAPS

USE SyncBoundsAssumption

\* The enumeration lists each dataset once, and there is one.
LEMMA Datasets ==
  /\ Len(Order) \in Nat \ {0} /\ 1 \in Index
  /\ \A k \in Index : Order[k] \in File
  /\ \A j, k \in Index : Order[j] = Order[k] => j = k
BY OrderAssumption DEF Index, File

\* The dataset the loop is at is not one of those before it.
LEMMA AheadIsNotCurrent ==
  ASSUME at \in Index, NEW f \in File, Ahead(f)
  PROVE  f # current
<1>1. PICK k \in Index : k > at /\ Order[k] = f
  BY DEF Ahead
<1>2. k # at
  BY <1>1, Datasets DEF Index
<1>3. QED
  BY <1>1, <1>2, Datasets DEF current

\* Before the first turn everything is to be done.
LEMMA AllToDo ==
  ASSUME at = 1, NEW f \in File
  PROVE  ToDo(f)
<1>1. PICK k \in Index : Order[k] = f
  BY DEF File
<1>2. k = 1 \/ k > 1
  BY Datasets DEF Index
<1>3. QED
  BY <1>1, <1>2 DEF ToDo, Ahead, current

\* One turn of the loop: what is still to be done is what was before it.
LEMMA Advances ==
  ASSUME at \in Index, NEW loop, NEW after, Advance(loop, after)
  PROVE  /\ at' \in Index
         /\ \/ pc' = after /\ at' = 1 /\ \A f \in File : ~Ahead(f)
            \/ pc' = loop /\ \A f \in File : (ToDo(f)' <=> Ahead(f)) /\ (Ahead(f) => f # current)
<1>1. CASE at < Len(Order) /\ at' = at + 1 /\ pc' = loop
  <2>1. at' \in Index
    BY <1>1, Datasets DEF Index
  <2>2. ASSUME NEW f \in File, ToDo(f)' PROVE Ahead(f)
    <3>1. PICK k \in Index : k >= at + 1 /\ Order[k] = f
      BY <1>1, <2>1, <2>2 DEF ToDo, Ahead, current, Index
    <3>2. k > at
      BY <3>1 DEF Index
    <3>3. QED
      BY <3>1, <3>2 DEF Ahead
  <2>3. ASSUME NEW f \in File, Ahead(f) PROVE ToDo(f)'
    <3>1. PICK k \in Index : k > at /\ Order[k] = f
      BY <2>3 DEF Ahead
    <3>2. k = at' \/ k > at'
      BY <1>1, <3>1 DEF Index
    <3>3. QED
      BY <3>1, <3>2 DEF ToDo, Ahead, current
  <2>4. QED
    BY <1>1, <2>1, <2>2, <2>3, AheadIsNotCurrent
<1>2. CASE at = Len(Order) /\ at' = 1 /\ pc' = after
  <2>1. \A f \in File : ~Ahead(f)
    BY <1>2, Datasets DEF Ahead, Index
  <2>2. QED
    BY <1>2, <2>1, Datasets
<1>3. QED
  BY <1>1, <1>2 DEF Advance

\* The loop variable alone decides what is still to be done.
LEMMA SameTurn ==
  ASSUME at' = at
  PROVE  current' = current /\ \A f \in File : (Ahead(f)' <=> Ahead(f)) /\ (ToDo(f)' <=> ToDo(f))
BY DEF current, Ahead, ToDo

\* What the invariant says of the types, and of the dataset the loop is at.
LEMMA SyncTypes ==
  ASSUME TypeOK
  PROVE  /\ at \in Index /\ current \in File
         /\ local \in [File -> {NoBlob} \cup Blob] /\ remote \in [File -> {NoBlob} \cup Blob]
         /\ shas \in [File -> {NoSha} \cup Blob] /\ base \in [File -> {NoBlob} \cup Blob]
         /\ dropped \in [File -> Blob] /\ torn \subseteq File /\ retried \subseteq File
         /\ report \in [pushed : SUBSET File, failed : SUBSET File]
         /\ report.pushed \subseteq File /\ report.failed \subseteq File
         /\ runs \in 0 .. MaxRuns /\ commits \in 0 .. MaxCommits /\ depth \in Nat
BY Datasets DEF TypeOK, current

\* A blob is neither the absence of a file nor the absence of a sha.
LEMMA Blobs == \A b \in Blob : b # NoBlob /\ b # NoSha
BY BlobAssumption

\* The rows of a file are a blob, and so is every part of a blob.
LEMMA RowsAreBlobs ==
  /\ \A b \in {NoBlob} \cup Blob : RowsOf(b) \in Blob
  /\ \A b \in Blob : SUBSET b \subseteq Blob
BY DEF RowsOf, Blob

-----------------------------------------------------------------------------
LEMMA StartRunKeepsInv ==
  ASSUME SyncInv, StartRun
  PROVE  SyncInv'
<1> USE DEF SyncInv
<1>1. /\ runs' = runs + 1 /\ runs < MaxRuns /\ pc = "idle" /\ pc' = "pull"
      /\ shas' = [f \in File |-> NoSha] /\ base' = [f \in File |-> NoBlob]
      /\ torn' = {} /\ dropped' = [f \in File |-> {}] /\ retried' = {}
      /\ report' = [pushed |-> {}, failed |-> {}]
      /\ UNCHANGED <<local, remote, commits, at, depth>>
  BY DEF StartRun, Starts, NoReport
<1>2. TypeOK'
  BY <1>1 DEF TypeOK, Blob
<1>3. LoopsStartFresh' /\ KeepsPulledRows' /\ FirstShaIsPulled'
  BY <1>1 DEF LoopsStartFresh, KeepsPulledRows, FirstShaIsPulled, ShaIsPulled, Pushing, NoReport
<1>4. ShasAreOfFiles' /\ ReportIsTrue'
  BY <1>1 DEF ShasAreOfFiles, ReportIsTrue, Pushing
<1>5. QED
  BY <1>2, <1>3, <1>4

\* pull() has an answer: whatever becomes of the content, the sha belongs to what was
\* answered, and a content that was not taken over whole is marked as torn.
LEMMA AnswerKeepsInv ==
  ASSUME SyncInv, PullAnswered, at' \in Index, pc' \in {"pull", "work"},
         pc' = "work" => at' = 1,
         pc' = "pull" => \A f \in File : ToDo(f)' => Ahead(f) /\ f # current,
         NEW b \in {NoBlob} \cup Blob, local' = [local EXCEPT ![current] = b],
         torn' \in {torn, torn \cup {current}},
         b = remote[current] \/ (torn' = torn \cup {current} /\ pc' = "work")
  PROVE  SyncInv'
<1> USE DEF SyncInv
<1>1. /\ pc = "pull" /\ remote[current] # NoBlob
      /\ shas' = [shas EXCEPT ![current] = remote[current]]
      /\ base' = [base EXCEPT ![current] = remote[current]]
      /\ UNCHANGED <<remote, runs, commits, depth, report, dropped, retried>>
  BY DEF PullAnswered
<1>2. remote[current] \in Blob
  BY <1>1, SyncTypes
<1>3. TypeOK'
  BY <1>1, <1>2, SyncTypes DEF TypeOK
<1>4. \A f \in File : IF f = current
        THEN local'[f] = b /\ shas'[f] = remote[f] /\ base'[f] = remote[f]
        ELSE local'[f] = local[f] /\ shas'[f] = shas[f] /\ base'[f] = base[f]
  BY <1>1, SyncTypes
<1>5. report = NoReport /\ retried = {} /\ \A f \in File : ToDo(f) => base[f] = NoBlob /\ f \notin torn
  BY <1>1 DEF LoopsStartFresh
<1>6. LoopsStartFresh'
  <2>1. pc' = "pull" => \A f \in File : ToDo(f)' => base'[f] = NoBlob /\ f \notin torn'
    BY <1>4, <1>5 DEF ToDo
  <2>2. QED
    BY <1>1, <1>5, <2>1 DEF LoopsStartFresh, Pushing, NoReport
<1>7. KeepsPulledRows'
  <2> SUFFICES ASSUME NEW f \in File, base'[f] # NoBlob, f \notin torn'
               PROVE  local'[f] # NoBlob /\ base'[f] \subseteq local'[f] \cup dropped'[f]
    BY DEF KeepsPulledRows
  <2>1. CASE f = current
    BY <1>1, <1>4, <2>1
  <2>2. CASE f # current
    BY <1>1, <1>4, <2>2 DEF KeepsPulledRows
  <2>3. QED
    BY <2>1, <2>2
<1>8. FirstShaIsPulled'
  BY <1>1, <1>4 DEF FirstShaIsPulled, ShaIsPulled, Pushing
<1>9. ShasAreOfFiles' /\ ReportIsTrue'
  BY <1>1, <1>4, <1>5 DEF ShasAreOfFiles, ReportIsTrue, Pushing, NoReport
<1>10. QED
  BY <1>3, <1>6, <1>7, <1>8, <1>9

LEMMA PullFileKeepsInv ==
  ASSUME SyncInv, PullFile
  PROVE  SyncInv'
<1>1. /\ at' \in Index
      /\ \/ pc' = "work" /\ at' = 1
         \/ pc' = "pull" /\ \A f \in File : ToDo(f)' => Ahead(f) /\ f # current
  BY SyncTypes, Advances DEF PullFile, SyncInv
<1>2. PullAnswered /\ local' = [local EXCEPT ![current] = remote[current]] /\ torn' = torn
  BY DEF PullFile
<1>3. remote[current] \in {NoBlob} \cup Blob
  BY SyncTypes DEF SyncInv
<1>4. QED
  BY <1>1, <1>2, <1>3, AnswerKeepsInv

LEMMA PullBreaksKeepsInv ==
  ASSUME SyncInv, PullBreaks
  PROVE  SyncInv'
<1>1. PullAnswered /\ torn' = torn \cup {current} /\ at' = 1 /\ pc' = "work" /\ 1 \in Index
  BY Datasets DEF PullBreaks
<1>2. PICK b \in {NoBlob} \cup Blob : local' = [local EXCEPT ![current] = b]
  <2>1. CASE UNCHANGED local
    BY <2>1, SyncTypes DEF SyncInv
  <2>2. CASE \E b \in SUBSET RowsOf(remote[current]) : local' = [local EXCEPT ![current] = b]
    BY <2>2, SyncTypes, RowsAreBlobs DEF SyncInv
  <2>3. QED
    BY <2>1, <2>2 DEF PullBreaks
<1>3. QED
  BY <1>1, <1>2, AnswerKeepsInv

LEMMA PullNothingKeepsInv ==
  ASSUME SyncInv, PullNothing
  PROVE  SyncInv'
<1> USE DEF SyncInv
<1>1. /\ pc = "pull"
      /\ UNCHANGED <<local, remote, shas, base, torn, dropped, retried, runs, commits, depth, report>>
  BY DEF PullNothing, history
<1>2. /\ at' \in Index
      /\ \/ pc' = "work" /\ at' = 1
         \/ pc' = "pull" /\ \A f \in File : ToDo(f)' => Ahead(f) /\ f # current
  BY SyncTypes, Advances, Datasets DEF PullNothing
<1>3. TypeOK'
  BY <1>1, <1>2 DEF TypeOK
<1>4. LoopsStartFresh'
  BY <1>1, <1>2 DEF LoopsStartFresh, ToDo, Pushing
<1>5. KeepsPulledRows' /\ FirstShaIsPulled' /\ ShasAreOfFiles'
  BY <1>1, <1>2 DEF KeepsPulledRows, FirstShaIsPulled, ShaIsPulled, ShasAreOfFiles, Pushing
<1>6. ReportIsTrue'
  BY <1>1, <1>2 DEF ReportIsTrue, Pushing, LoopsStartFresh, NoReport
<1>7. QED
  BY <1>3, <1>4, <1>5, <1>6

\* The run ends without a push, or after it.
LEMMA GoesIdleKeepsInv ==
  ASSUME SyncInv, AlreadyDelivered \/ EndRun
  PROVE  SyncInv'
<1> USE DEF SyncInv
<1>1. /\ pc \in {"work", "done"} /\ pc' = "idle"
      /\ UNCHANGED <<local, remote, shas, runs, commits, at, depth, report, base, torn, dropped, retried>>
  BY DEF AlreadyDelivered, EndRun, history
<1>2. at = 1 /\ depth = 0
  BY <1>1, SyncTypes DEF LoopsStartFresh, ShasAreOfFiles, Pushing
<1>3. TypeOK' /\ LoopsStartFresh' /\ KeepsPulledRows' /\ FirstShaIsPulled'
  BY <1>1, <1>2 DEF TypeOK, LoopsStartFresh, KeepsPulledRows, FirstShaIsPulled, Pushing
<1>4. ShasAreOfFiles' /\ ReportIsTrue'
  BY <1>1, <1>2 DEF ShasAreOfFiles, ReportIsTrue, Pushing
<1>5. QED
  BY <1>3, <1>4

\* Whatever the run takes out of a file is counted as dropped.
LEMMA WriteFileKeepsInv ==
  ASSUME SyncInv, WriteFile
  PROVE  SyncInv'
<1> USE DEF SyncInv
<1>1. PICK g \in File, own \in SUBSET {runs} : \E kept \in SUBSET RowsOf(local[g]) :
        /\ local' = [local EXCEPT ![g] = kept \cup own]
        /\ dropped' = [dropped EXCEPT ![g] = dropped[g] \cup (RowsOf(local[g]) \ kept)]
  BY DEF WriteFile
<1>2. PICK kept \in SUBSET RowsOf(local[g]) :
        /\ local' = [local EXCEPT ![g] = kept \cup own]
        /\ dropped' = [dropped EXCEPT ![g] = dropped[g] \cup (RowsOf(local[g]) \ kept)]
  BY <1>1
<1>3. /\ pc \in {"work", "write"} /\ pc' = "write"
      /\ UNCHANGED <<remote, shas, runs, commits, at, depth, report, base, torn, retried>>
  BY DEF WriteFile
<1>4. kept \cup own \in Blob /\ dropped[g] \cup (RowsOf(local[g]) \ kept) \in Blob
  <2>1. RowsOf(local[g]) \in Blob /\ dropped[g] \in Blob
    BY SyncTypes, RowsAreBlobs
  <2>2. own \in Blob
    BY SyncTypes DEF Blob, Row
  <2>3. QED
    BY <2>1, <2>2 DEF Blob
<1>5. kept \cup own # NoBlob
  BY <1>4, Blobs
<1>6. TypeOK'
  BY <1>2, <1>3, <1>4 DEF TypeOK
<1>7. \A f \in File : IF f = g
        THEN local'[f] = kept \cup own /\ dropped'[f] = dropped[g] \cup (RowsOf(local[g]) \ kept)
        ELSE local'[f] = local[f] /\ dropped'[f] = dropped[f]
  BY <1>2, SyncTypes
<1>8. KeepsPulledRows'
  <2> SUFFICES ASSUME NEW f \in File, base'[f] # NoBlob, f \notin torn'
               PROVE  local'[f] # NoBlob /\ base'[f] \subseteq local'[f] \cup dropped'[f]
    BY DEF KeepsPulledRows
  <2>1. local[f] # NoBlob /\ base[f] \subseteq local[f] \cup dropped[f] /\ base'[f] = base[f]
    BY <1>3 DEF KeepsPulledRows
  <2>2. CASE f = g
    BY <1>5, <1>7, <2>1, <2>2 DEF RowsOf
  <2>3. CASE f # g
    BY <1>7, <2>1, <2>3
  <2>4. QED
    BY <2>2, <2>3
<1>9. LoopsStartFresh' /\ FirstShaIsPulled'
  BY <1>3 DEF LoopsStartFresh, FirstShaIsPulled, ShaIsPulled, Pushing
<1>10. ShasAreOfFiles' /\ ReportIsTrue'
  BY <1>3 DEF ShasAreOfFiles, ReportIsTrue, Pushing, LoopsStartFresh, NoReport
<1>11. QED
  BY <1>6, <1>8, <1>9, <1>10

LEMMA StartPushKeepsInv ==
  ASSUME SyncInv, StartPush
  PROVE  SyncInv'
<1> USE DEF SyncInv
<1>1. /\ pc \in {"work", "write"} /\ pc' = "put" /\ at = 1 /\ report = NoReport /\ depth = 0
      /\ UNCHANGED <<local, remote, shas, runs, commits, at, depth, report, base, torn, dropped, retried>>
  BY SyncTypes DEF StartPush, history, LoopsStartFresh, ShasAreOfFiles, Pushing
<1>2. \A f \in File : ToDo(f)'
  BY <1>1, AllToDo, SameTurn
<1>3. TypeOK' /\ LoopsStartFresh' /\ KeepsPulledRows'
  BY <1>1 DEF TypeOK, LoopsStartFresh, KeepsPulledRows, Pushing, NoReport
<1>4. FirstShaIsPulled' /\ ShasAreOfFiles'
  BY <1>1 DEF FirstShaIsPulled, ShaIsPulled, ShasAreOfFiles, Pushing
<1>5. ReportIsTrue'
  BY <1>1, <1>2 DEF ReportIsTrue, Pushing, NoReport
<1>6. QED
  BY <1>3, <1>4, <1>5

\* push() is done with the current file, whatever came of it.
LEMMA DoneKeepsInv ==
  ASSUME SyncInv, Pushing, Advance("put", "done"), depth' = 0,
         UNCHANGED <<local, remote, runs, commits, base, torn, dropped, retried>>,
         shas' \in {shas, [shas EXCEPT ![current] = local[current]]},
         shas' # shas => Stored(current),
         \/ report' = report
         \/ report' = [report EXCEPT !.failed = @ \cup {current}]
         \/ report' = [report EXCEPT !.pushed = @ \cup {current}] /\ Stored(current),
         local[current] = NoBlob \/ current \in report'.pushed \cup report'.failed \cup retried
  PROVE  SyncInv'
<1> USE DEF SyncInv
<1>1. /\ at' \in Index
      /\ \/ pc' = "done" /\ at' = 1 /\ \A f \in File : ~Ahead(f)
         \/ pc' = "put" /\ \A f \in File : (ToDo(f)' <=> Ahead(f)) /\ (Ahead(f) => f # current)
  BY SyncTypes, Advances
<1>2. \A f \in File : f # current => shas'[f] = shas[f]
  BY SyncTypes
<1>3. /\ report' \in [pushed : SUBSET File, failed : SUBSET File]
      /\ report.pushed \subseteq report'.pushed /\ report.failed \subseteq report'.failed
      /\ report'.pushed \cup report'.failed \subseteq report.pushed \cup report.failed \cup {current}
      /\ report'.pushed \cap report'.failed \subseteq report.pushed \cap report.failed
      /\ report'.pushed = report.pushed \/ (report'.pushed = report.pushed \cup {current} /\ Stored(current))
  <2>1. current \notin report.pushed \cup report.failed
    BY SyncTypes DEF LoopsStartFresh, ToDo
  <2>2. QED
    BY <2>1, SyncTypes
<1>4. TypeOK'
  BY <1>1, <1>3, SyncTypes DEF TypeOK, Stored
<1>5. LoopsStartFresh'
  BY <1>1, <1>3 DEF LoopsStartFresh, ToDo, Pushing
<1>6. KeepsPulledRows'
  BY DEF KeepsPulledRows, Pushing
<1>7. FirstShaIsPulled'
  <2>1. Pushing' => \A f \in File : ToDo(f)' => ShaIsPulled(f)'
    BY <1>1, <1>2 DEF FirstShaIsPulled, ShaIsPulled, Pushing
  <2>2. QED
    BY <1>1, <2>1 DEF FirstShaIsPulled, ToDo, Pushing
<1>8. ShasAreOfFiles'
  BY <1>2, SyncTypes DEF ShasAreOfFiles, Stored
<1>9. ReportIsTrue'
  <2>1. \A f \in File : Stored(f)' <=> Stored(f)
    BY DEF Stored
  <2>2. \A f \in report'.pushed : Stored(f)'
    BY <1>3, <2>1, SyncTypes DEF ReportIsTrue, Pushing
  <2>3. ASSUME NEW f \in File, ~(Pushing' /\ ToDo(f)')
        PROVE  local[f] = NoBlob \/ f \in report'.pushed \cup report'.failed \cup retried
    <3>1. CASE f = current
      BY <3>1
    <3>2. CASE f # current
      <4>1. ~ToDo(f)
        BY <1>1, <2>3, <3>2 DEF ToDo, Pushing
      <4>2. QED
        BY <1>3, <4>1 DEF ReportIsTrue
    <3>3. QED
      BY <3>1, <3>2
  <2>4. QED
    BY <1>1, <1>3, <2>2, <2>3 DEF ReportIsTrue
<1>10. QED
  BY <1>4, <1>5, <1>6, <1>7, <1>8, <1>9

LEMMA SkipFileKeepsInv ==
  ASSUME SyncInv, SkipFile
  PROVE  SyncInv'
<1>1. /\ Pushing /\ Advance("put", "done") /\ depth' = 0
      /\ UNCHANGED <<local, remote, shas, runs, commits, base, torn, dropped, retried>>
      /\ \/ local[current] = NoBlob /\ report' = report
         \/ report' = [report EXCEPT !.failed = @ \cup {current}]
  BY DEF SkipFile, Pushing, history
<1>2. local[current] = NoBlob \/ current \in report'.pushed \cup report'.failed \cup retried
  BY <1>1, SyncTypes DEF SyncInv
<1>3. QED
  BY <1>1, <1>2, DoneKeepsInv

LEMMA PutReturnsKeepsInv ==
  ASSUME SyncInv, PutReturns
  PROVE  SyncInv'
<1>1. /\ Pushing /\ Advance("put", "done") /\ depth' = 0
      /\ UNCHANGED <<local, remote, runs, commits, base, torn, dropped, retried>>
      /\ shas' = [shas EXCEPT ![current] = local[current]]
      /\ report' = [report EXCEPT !.pushed = @ \cup {current}]
  BY DEF PutReturns, Pushing, history
<1>2. Stored(current)
  BY DEF PutReturns, SyncInv, ReportIsTrue
<1>3. current \in report'.pushed
  BY <1>1, SyncTypes DEF SyncInv
<1>4. QED
  BY <1>1, <1>2, <1>3, DoneKeepsInv

\* A first request that fails is in the report, and another one is a retry.
LEMMA FailureKeepsInv ==
  ASSUME SyncInv, PutLost \/ RefreshFails
  PROVE  SyncInv'
<1>1. /\ Pushing /\ PutFails
      /\ UNCHANGED <<local, remote, shas, runs, commits, base, torn, dropped, retried>>
  BY DEF PutLost, RefreshFails, Putting, Pushing, history
<1>2. depth # 0 => current \in retried /\ report' = report
  BY <1>1, SyncTypes DEF PutFails, SyncInv, ShasAreOfFiles
<1>3. depth = 0 => report' = [report EXCEPT !.failed = @ \cup {current}]
  BY <1>1 DEF PutFails
<1>4. local[current] = NoBlob \/ current \in report'.pushed \cup report'.failed \cup retried
  BY <1>2, <1>3, SyncTypes DEF SyncInv
<1>5. Advance("put", "done") /\ depth' = 0
  BY <1>1 DEF PutFails
<1>6. QED
  BY <1>1, <1>2, <1>3, <1>4, <1>5, DoneKeepsInv

\* The repository now holds what the run has for the current file, whatever the answer.
LEMMA PutAcceptedKeepsInv ==
  ASSUME SyncInv, PutAccepted
  PROVE  SyncInv'
<1> USE DEF SyncInv
<1>1. /\ pc = "put" /\ pc' = "stored" /\ local[current] # NoBlob
      /\ remote' = [remote EXCEPT ![current] = local[current]]
      /\ UNCHANGED <<local, shas, runs, commits, at, depth, report, base, torn, dropped, retried>>
  BY DEF PutAccepted, Stores, Putting, history
<1>2. current' = current /\ \A f \in File : (Ahead(f)' <=> Ahead(f)) /\ (ToDo(f)' <=> ToDo(f))
  BY <1>1, SameTurn
<1>3. \A f \in File : IF f = current THEN remote'[f] = local[f] ELSE remote'[f] = remote[f]
  BY <1>1, SyncTypes
<1>4. TypeOK'
  BY <1>1, SyncTypes DEF TypeOK
<1>5. LoopsStartFresh' /\ KeepsPulledRows' /\ FirstShaIsPulled'
  BY <1>1, <1>2 DEF LoopsStartFresh, KeepsPulledRows, FirstShaIsPulled, ShaIsPulled, Pushing
<1>6. ShasAreOfFiles'
  BY <1>1, <1>2, <1>3 DEF ShasAreOfFiles, Pushing
<1>7. ReportIsTrue'
  <2>1. Stored(current)' /\ \A f \in File : Stored(f) => Stored(f)'
    BY <1>1, <1>2, <1>3, SyncTypes DEF Stored
  <2>2. QED
    BY <1>1, <1>2, <2>1, SyncTypes DEF ReportIsTrue, Pushing
<1>8. QED
  BY <1>4, <1>5, <1>6, <1>7

LEMMA PutConflictKeepsInv ==
  ASSUME SyncInv, PutConflict
  PROVE  SyncInv'
<1> USE DEF SyncInv
<1>1. /\ pc = "put" /\ pc' = "refresh"
      /\ UNCHANGED <<local, remote, shas, runs, commits, at, depth, report, base, torn, dropped, retried>>
  BY DEF PutConflict, Putting, history
<1>2. current' = current /\ \A f \in File : (Ahead(f)' <=> Ahead(f)) /\ (ToDo(f)' <=> ToDo(f))
  BY <1>1, SameTurn
<1>3. TypeOK' /\ LoopsStartFresh' /\ KeepsPulledRows'
  BY <1>1, <1>2 DEF TypeOK, LoopsStartFresh, KeepsPulledRows, Pushing
<1>4. FirstShaIsPulled' /\ ShasAreOfFiles'
  BY <1>1, <1>2 DEF FirstShaIsPulled, ShaIsPulled, ShasAreOfFiles, Pushing
<1>5. ReportIsTrue'
  BY <1>1, <1>2 DEF ReportIsTrue, Stored, Pushing
<1>6. QED
  BY <1>3, <1>4, <1>5

LEMMA RefreshShaKeepsInv ==
  ASSUME SyncInv, RefreshSha
  PROVE  SyncInv'
<1> USE DEF SyncInv
<1>1. /\ pc = "refresh" /\ pc' = "put" /\ depth' = depth + 1 /\ remote[current] # NoBlob
      /\ shas' = [shas EXCEPT ![current] = remote[current]]
      /\ retried' = retried \cup {current}
      /\ UNCHANGED <<local, remote, runs, commits, at, report, base, torn, dropped>>
  BY DEF RefreshSha
<1>2. remote[current] \in Blob /\ remote[current] # NoSha
  BY <1>1, SyncTypes, Blobs
<1>3. /\ current' = current /\ \A f \in File : (Ahead(f)' <=> Ahead(f)) /\ (ToDo(f)' <=> ToDo(f))
      /\ \A f \in File : Ahead(f) => f # current
  BY <1>1, SyncTypes, SameTurn, AheadIsNotCurrent
<1>4. shas'[current] = remote[current] /\ \A f \in File : f # current => shas'[f] = shas[f]
  BY <1>1, SyncTypes
<1>5. TypeOK' /\ depth' > 0
  BY <1>1, <1>2, SyncTypes DEF TypeOK
<1>6. LoopsStartFresh' /\ KeepsPulledRows'
  BY <1>1, <1>3 DEF LoopsStartFresh, KeepsPulledRows, Pushing
<1>7. FirstShaIsPulled'
  BY <1>1, <1>3, <1>4, <1>5 DEF FirstShaIsPulled, ShaIsPulled, Pushing
<1>8. ShasAreOfFiles'
  BY <1>1, <1>2, <1>3, <1>4 DEF ShasAreOfFiles, Pushing
<1>9. ReportIsTrue'
  BY <1>1, <1>3 DEF ReportIsTrue, Stored, Pushing
<1>10. QED
  BY <1>5, <1>6, <1>7, <1>8, <1>9

\* Other writers touch the repository only, and neither a file nor a row of it goes.
LEMMA ForeignCommitKeepsInv ==
  ASSUME SyncInv, ForeignCommit
  PROVE  SyncInv'
<1> USE DEF SyncInv
<1>1. /\ commits < MaxCommits /\ commits' = commits + 1
      /\ UNCHANGED <<local, shas, runs, pc, at, depth, report, base, torn, dropped, retried>>
  BY DEF ForeignCommit, history
<1>2. PICK f \in File :
        remote' = [remote EXCEPT ![f] = RowsOf(remote[f]) \cup {-(commits + 1)}]
  BY DEF ForeignCommit
<1>3. /\ remote' \in [File -> {NoBlob} \cup Blob]
      /\ \A g \in File : remote[g] # NoBlob => remote'[g] # NoBlob /\ remote[g] \subseteq remote'[g]
  <2> DEFINE b == RowsOf(remote[f]) \cup {-(commits + 1)}
  <2>1. -(commits + 1) \in Row /\ RowsOf(remote[f]) \in Blob
    BY <1>1, SyncTypes, RowsAreBlobs DEF Row
  <2>2. b \in Blob /\ (remote[f] # NoBlob => remote[f] \subseteq b)
    BY <2>1 DEF Blob, RowsOf
  <2> HIDE DEF b
  <2>3. b # NoBlob
    BY <2>2, Blobs
  <2>4. remote' = [remote EXCEPT ![f] = b]
    BY <1>2 DEF b
  <2>5. QED
    BY <2>2, <2>3, <2>4, SyncTypes
<1>4. TypeOK'
  BY <1>1, <1>3, SyncTypes DEF TypeOK
<1>5. current' = current /\ \A g \in File : (Ahead(g)' <=> Ahead(g)) /\ (ToDo(g)' <=> ToDo(g))
  BY <1>1, SameTurn
<1>6. LoopsStartFresh' /\ KeepsPulledRows' /\ FirstShaIsPulled'
  BY <1>1, <1>5 DEF LoopsStartFresh, KeepsPulledRows, FirstShaIsPulled, ShaIsPulled, Pushing
<1>7. ShasAreOfFiles'
  BY <1>1, <1>3, <1>5, SyncTypes DEF ShasAreOfFiles, Pushing
<1>8. ReportIsTrue'
  <2>1. \A g \in File : Stored(g) => Stored(g)'
    BY <1>1, <1>3 DEF Stored
  <2>2. QED
    BY <1>1, <1>5, <2>1, SyncTypes DEF ReportIsTrue, Pushing
<1>9. QED
  BY <1>4, <1>6, <1>7, <1>8

\* A run that is cut short or wiped out leaves nothing to keep but what the repository holds.
LEMMA EndKeepsInv ==
  ASSUME SyncInv, CutShort \/ Redeploy
  PROVE  SyncInv'
<1> USE DEF SyncInv
<1>1. /\ pc' = "idle" /\ at' = 1 /\ depth' = 0
      /\ UNCHANGED <<shas, runs, commits, report, base, torn, dropped, retried>>
  BY DEF CutShort, Redeploy, history
<1>2. local' \in [File -> {NoBlob} \cup Blob]
  BY SyncTypes DEF CutShort, Redeploy
<1>3. /\ remote' \in [File -> {NoBlob} \cup Blob]
      /\ \A f \in File : remote[f] # NoBlob => remote'[f] # NoBlob
  BY SyncTypes DEF CutShort, Redeploy, Stores, Putting
<1>4. TypeOK'
  BY <1>1, <1>2, <1>3, Datasets DEF TypeOK
<1>5. LoopsStartFresh' /\ KeepsPulledRows' /\ FirstShaIsPulled'
  BY <1>1 DEF LoopsStartFresh, KeepsPulledRows, FirstShaIsPulled, Pushing
<1>6. ShasAreOfFiles' /\ ReportIsTrue'
  BY <1>1, <1>3 DEF ShasAreOfFiles, ReportIsTrue, Pushing
<1>7. QED
  BY <1>4, <1>5, <1>6

\* Nothing is known before the first run.
LEMMA InitSyncInv == Init => SyncInv
<1> SUFFICES ASSUME Init PROVE SyncInv
  OBVIOUS
<1>1. TypeOK
  BY Datasets DEF Init, TypeOK, NoReport, Blob
<1>2. LoopsStartFresh /\ KeepsPulledRows /\ FirstShaIsPulled /\ ShasAreOfFiles /\ ReportIsTrue
  BY DEF Init, LoopsStartFresh, KeepsPulledRows, FirstShaIsPulled, ShasAreOfFiles, ReportIsTrue,
         NoReport, Pushing
<1>3. QED
  BY <1>1, <1>2 DEF SyncInv

LEMMA NextSyncInv == SyncInv /\ [Next]_vars => SyncInv'
<1> SUFFICES ASSUME SyncInv, [Next]_vars PROVE SyncInv'
  OBVIOUS
<1>1. CASE StartRun
  BY <1>1, StartRunKeepsInv
<1>2. CASE Sync
  BY <1>2, PullFileKeepsInv, PullBreaksKeepsInv, PullNothingKeepsInv, GoesIdleKeepsInv,
     WriteFileKeepsInv, StartPushKeepsInv, SkipFileKeepsInv, PutAcceptedKeepsInv,
     PutReturnsKeepsInv, FailureKeepsInv, PutConflictKeepsInv, RefreshShaKeepsInv DEF Sync
<1>3. CASE ForeignCommit \/ CutShort \/ Redeploy
  BY <1>3, ForeignCommitKeepsInv, EndKeepsInv
<1>4. CASE UNCHANGED vars
  BY <1>4 DEF vars, SyncInv, TypeOK, LoopsStartFresh, KeepsPulledRows, FirstShaIsPulled,
              ShaIsPulled, ShasAreOfFiles, ReportIsTrue, Stored, Pushing, ToDo, Ahead, current
<1>5. QED
  BY <1>1, <1>2, <1>3, <1>4 DEF Next

\* The sha of a first request is the one its own pull read, what the run has of a version that
\* was taken over whole is that version less what the run took out, and the report of the push
\* tells of every file but those whose retry failed.
THEOREM SyncInvariant == Spec => []SyncInv
BY InitSyncInv, NextSyncInv, PTL DEF Spec

\* What an accepted request puts in the place of what was there: a first request keeps it,
\* a retry keeps at least the rows that the run had pulled, less what the run took out.
LEMMA AcceptedKeeps ==
  ASSUME SyncInv, Putting, Accepts(current), current \notin torn
  PROVE  /\ depth = 0 => RowsOf(remote[current]) \subseteq local[current] \cup dropped[current]
         /\ RowsOf(base[current]) \subseteq local[current] \cup dropped[current]
<1>1. pc = "put" /\ current \in File
  BY SyncTypes DEF SyncInv, Putting
<1>2. RowsOf(base[current]) \subseteq local[current] \cup dropped[current]
  BY <1>1 DEF SyncInv, KeepsPulledRows, RowsOf
<1>3. ASSUME depth = 0, remote[current] # NoBlob
      PROVE  remote[current] \subseteq local[current] \cup dropped[current]
  <2>1. remote[current] # NoSha /\ shas[current] = remote[current]
    BY <1>1, <1>3, SyncTypes, Blobs DEF SyncInv, Accepts
  <2>2. base[current] = remote[current]
    BY <1>1, <1>3, <2>1 DEF SyncInv, FirstShaIsPulled, ShaIsPulled, Pushing
  <2>3. QED
    BY <1>2, <1>3, <2>2 DEF RowsOf
<1>4. QED
  BY <1>2, <1>3 DEF RowsOf

\* A row that the run did not take out itself leaves the repository only in a retry after a
\* conflict, and then it is none of those the run had pulled, or when the pull of the file
\* had broken off, whatever the other writers, redeploys and failures do.
THEOREM RowsLostOnlyAfterRefreshHolds == Spec => RowsLostOnlyAfterRefresh
<1> DEFINE Allowed == \A f \in File : Lost(f) # {} =>
                        /\ f = current
                        /\ f \in torn \/ (depth > 0 /\ Lost(f) \cap RowsOf(base[f]) = {})
<1>1. SyncInv /\ [Next]_vars => [Allowed]_vars
  <2> SUFFICES ASSUME SyncInv, [Next]_vars, NEW f \in File, Lost(f) # {}
               PROVE  /\ f = current
                      /\ f \in torn \/ (depth > 0 /\ Lost(f) \cap RowsOf(base[f]) = {})
    OBVIOUS
  <2>1. remote \in [File -> {NoBlob} \cup Blob] /\ current \in File /\ depth \in Nat
    BY SyncTypes DEF SyncInv
  <2>2. CASE Stores
    <3>1. /\ Putting /\ Accepts(current) /\ local[current] # NoBlob
          /\ remote' = [remote EXCEPT ![current] = local[current]]
      BY <2>2 DEF Stores, Putting
    <3>2. f = current /\ remote'[f] = local[f]
      BY <2>1, <3>1 DEF Lost
    <3>3. Lost(f) = RowsOf(remote[f]) \ (local[f] \cup dropped[f])
      BY <3>1, <3>2 DEF Lost, RowsOf
    <3>4. QED
      BY <2>1, <3>1, <3>2, <3>3, AcceptedKeeps
  <2>3. CASE ForeignCommit
    <3>1. PICK g \in File : remote' = [remote EXCEPT ![g] = RowsOf(remote[g]) \cup {-(commits + 1)}]
      BY <2>3 DEF ForeignCommit
    <3>2. RowsOf(remote[f]) \subseteq RowsOf(remote'[f])
      <4> DEFINE b == RowsOf(remote[g]) \cup {-(commits + 1)}
      <4>1. b \in Blob
        <5>1. -(commits + 1) \in Row
          BY <2>3, SyncTypes DEF ForeignCommit, Row, SyncInv
        <5>2. QED
          BY <2>1, <5>1, RowsAreBlobs DEF Blob
      <4>2. b # NoBlob /\ RowsOf(b) = b
        BY <4>1, Blobs DEF RowsOf
      <4>3. QED
        BY <2>1, <3>1, <4>2
    <3>3. QED
      BY <3>2 DEF Lost
  <2>4. CASE UNCHANGED remote
    BY <2>4 DEF Lost
  <2>5. Stores \/ ForeignCommit \/ UNCHANGED remote
    BY DEF Next, Sync, StartRun, Starts, PullAnswered, PullFile, PullBreaks, PullNothing,
           AlreadyDelivered, WriteFile, StartPush, SkipFile, PutAccepted, PutReturns, PutLost,
           PutConflict, RefreshSha, RefreshFails, EndRun, CutShort, Redeploy, vars
  <2>6. QED
    BY <2>2, <2>3, <2>4, <2>5
<1>2. QED
  BY <1>1, SyncInvariant, PTL DEF Spec, RowsLostOnlyAfterRefresh
=============================================================================
