----------------------------- MODULE GitHubSync -----------------------------
(***************************************************************************)
(* The synchronisation of data/*.csv with the GitHub repository            *)
(* (app/storage/github_sync.py), request by request: pull() at the start   *)
(* of a run, the run's own writes, push() with its retries at the end, and *)
(* around them other writers of the repository, lost answers and redeploys *)
(* that wipe the directory.                                                *)
(*                                                                         *)
(* A file is the set of rows it holds: n for a row of the n-th run and -k  *)
(* for one of the k-th foreign commit.  The sha of a blob is a digest of   *)
(* its content, so it is modelled by the content.  Every run has a         *)
(* GitHubSync of its own, which knows no sha until it has pulled.          *)
(***************************************************************************)
EXTENDS Integers, Sequences, FiniteSets

CONSTANTS
  Order,        \* the datasets, in the order of the enumeration
  NoBlob,       \* "there is no such file"
  NoSha,        \* "no sha is known"
  MaxRuns,      \* runs
  MaxCommits,   \* commits of other writers
  MaxRows,      \* MAX_FILE_BYTES, in rows
  MaxNested     \* _put calls nested in one another; the code has no such limit

ASSUME SyncBoundsAssumption ==
  MaxRuns \in Nat /\ MaxCommits \in Nat /\ MaxRows \in Nat /\ MaxNested \in Nat

Index == 1 .. Len(Order)
File == {Order[k] : k \in Index}
Row == -MaxCommits .. MaxRuns
Blob == SUBSET Row

ASSUME OrderAssumption ==
  /\ Order \in Seq(File) /\ Order # <<>>
  /\ \A j, k \in Index : Order[j] = Order[k] => j = k
ASSUME BlobAssumption == \A b \in Blob : b # NoBlob /\ b # NoSha

VARIABLES
  local,    \* the data directory
  remote,   \* the branch of the repository
  shas,     \* GitHubSync._shas
  runs,     \* how many runs have started
  commits,  \* how many foreign commits there were
  pc,       \* what the run is doing
  at,       \* the dataset the loop of pull() or push() is at
  depth,    \* how many _put calls of this file are nested in the first one
  report,   \* the SyncReport of push()
  \* What nothing in the code keeps, and the properties speak of:
  base,     \* the version of each file that GitHub answered to this run's pull
  torn,     \* the files of which the pull kept the sha and not, or not all of, the content
  dropped,  \* the rows that this run itself took out of each file
  retried   \* the files of which the push sent a second request

vars == <<local, remote, shas, runs, commits, pc, at, depth, report, base, torn, dropped, retried>>
history == <<base, torn, dropped, retried>>

NoReport == [pushed |-> {}, failed |-> {}]

TypeOK ==
  /\ local \in [File -> {NoBlob} \cup Blob]
  /\ remote \in [File -> {NoBlob} \cup Blob]
  /\ shas \in [File -> {NoSha} \cup Blob]
  /\ runs \in 0 .. MaxRuns
  /\ commits \in 0 .. MaxCommits
  /\ pc \in {"idle", "pull", "work", "write", "put", "refresh", "stored", "done"}
  /\ at \in Index
  /\ depth \in Nat
  /\ report \in [pushed : SUBSET File, failed : SUBSET File]
  /\ base \in [File -> {NoBlob} \cup Blob]
  /\ torn \subseteq File
  /\ dropped \in [File -> Blob]
  /\ retried \subseteq File

Init ==
  /\ local = [f \in File |-> NoBlob]
  /\ remote = [f \in File |-> NoBlob]
  /\ shas = [f \in File |-> NoSha]
  /\ runs = 0
  /\ commits = 0
  /\ pc = "idle"
  /\ at = 1
  /\ depth = 0
  /\ report = NoReport
  /\ base = [f \in File |-> NoBlob]
  /\ torn = {}
  /\ dropped = [f \in File |-> {}]
  /\ retried = {}

current == Order[at]

\* The loop goes on to the next dataset, or to what follows the loop.
Advance(loop, after) ==
  \/ at < Len(Order) /\ at' = at + 1 /\ pc' = loop
  \/ at = Len(Order) /\ at' = 1 /\ pc' = after

\* The rows of a file; one that is not there has none.
RowsOf(b) == IF b = NoBlob THEN {} ELSE b

-----------------------------------------------------------------------------
\* A run begins: the GitHubSync it is given knows the shas s.
Starts(s) ==
  /\ pc = "idle"
  /\ runs < MaxRuns
  /\ runs' = runs + 1
  /\ pc' = "pull"
  /\ shas' = s
  /\ report' = NoReport
  /\ base' = [f \in File |-> NoBlob]
  /\ torn' = {}
  /\ dropped' = [f \in File |-> {}]
  /\ retried' = {}
  /\ UNCHANGED <<local, remote, commits, at, depth>>

\* A variant with a plausible bug: one GitHubSync, with its shas, serves all runs.
StartRunKeepsShas == Starts(shas)

\* A run begins with a GitHubSync of its own.
StartRun == Starts([f \in File |-> NoSha])

\* pull() has a 200 for the current file: the sha is kept before the content is looked at.
PullAnswered ==
  /\ pc = "pull"
  /\ remote[current] # NoBlob
  /\ shas' = [shas EXCEPT ![current] = remote[current]]
  /\ base' = [base EXCEPT ![current] = remote[current]]
  /\ UNCHANGED <<remote, runs, commits, depth, report, dropped, retried>>

\* A variant with a plausible bug: the sha is kept, the content is not written.
PullShaOnly ==
  /\ PullAnswered
  /\ Advance("pull", "work")
  /\ UNCHANGED <<local, torn>>

\* pull(): the content is decoded and written as well.
PullFile ==
  /\ PullAnswered
  /\ local' = [local EXCEPT ![current] = remote[current]]
  /\ Advance("pull", "work")
  /\ UNCHANGED torn

\* pull(): the content cannot be decoded, or write_text() fails when it has emptied the file
\* and written some of it.  The exception ends the pull, and the run goes on.
PullBreaks ==
  /\ PullAnswered
  /\ \/ UNCHANGED local
     \/ \E b \in SUBSET RowsOf(remote[current]) : local' = [local EXCEPT ![current] = b]
  /\ torn' = torn \cup {current}
  /\ at' = 1
  /\ pc' = "work"

\* pull(): 404, a request that fails, or an answer that is not JSON.  None of them touches
\* the file or its sha; the last one ends the pull of the later files too.
PullNothing ==
  /\ pc = "pull"
  /\ Advance("pull", "work") \/ (at' = 1 /\ pc' = "work")
  /\ UNCHANGED <<local, remote, shas, runs, commits, depth, report>>
  /\ UNCHANGED history

\* The briefing of the day was delivered already: nothing is written or pushed.
AlreadyDelivered ==
  /\ pc = "work"
  /\ pc' = "idle"
  /\ UNCHANGED <<local, remote, shas, runs, commits, at, depth, report>>
  /\ UNCHANGED history

\* The run rewrites a file.  It may add rows of its own and leave out any that were there:
\* those past the retention, superseded topics, all the articles of earlier runs.
WriteFile ==
  /\ pc \in {"work", "write"}
  /\ \E f \in File, own \in SUBSET {runs} : \E kept \in SUBSET RowsOf(local[f]) :
       /\ local' = [local EXCEPT ![f] = kept \cup own]
       /\ dropped' = [dropped EXCEPT ![f] = @ \cup (RowsOf(local[f]) \ kept)]
  /\ pc' = "write"
  /\ UNCHANGED <<remote, shas, runs, commits, at, depth, report, base, torn, retried>>

\* The run succeeded or failed; push() begins in either case.
StartPush ==
  /\ pc \in {"work", "write"}
  /\ pc' = "put"
  /\ UNCHANGED <<local, remote, shas, runs, commits, at, depth, report>>
  /\ UNCHANGED history

\* push(): nothing to push, or too much.
SkipFile ==
  /\ pc = "put"
  /\ depth = 0
  /\ \/ local[current] = NoBlob /\ UNCHANGED report
     \/ /\ local[current] # NoBlob
        /\ Cardinality(local[current]) > MaxRows
        /\ report' = [report EXCEPT !.failed = @ \cup {current}]
  /\ Advance("put", "done")
  /\ UNCHANGED <<local, remote, shas, runs, commits, depth>>
  /\ UNCHANGED history

\* _put() is about to send its request for the current file.
Putting ==
  /\ pc = "put"
  /\ local[current] # NoBlob
  /\ Cardinality(local[current]) <= MaxRows

\* GitHub's side of PUT: a file is created without a sha and replaced with its own.
Accepts(f) == IF remote[f] = NoBlob THEN shas[f] = NoSha ELSE shas[f] = remote[f]

\* GitHub carries the request out.
Stores ==
  /\ Putting
  /\ Accepts(current)
  /\ remote' = [remote EXCEPT ![current] = local[current]]

\* _put() returns False to push(), or to the _put() it is nested in, which had it append
\* to a report of its own: a retry that fails is in no list that push() returns.
PutFails ==
  /\ report' = IF depth = 0 THEN [report EXCEPT !.failed = @ \cup {current}] ELSE report
  /\ depth' = 0
  /\ Advance("put", "done")

\* GitHub has stored the file, and its answer, 200 or 201, is on the way.
PutAccepted ==
  /\ Stores
  /\ pc' = "stored"
  /\ UNCHANGED <<local, shas, runs, commits, at, depth, report>>
  /\ UNCHANGED history

\* The answer is there: _put() keeps the new sha and returns True, through every _put() it is
\* nested in, to push(), which reports the file.
PutReturns ==
  /\ pc = "stored"
  /\ shas' = [shas EXCEPT ![current] = local[current]]
  /\ report' = [report EXCEPT !.pushed = @ \cup {current}]
  /\ depth' = 0
  /\ Advance("put", "done")
  /\ UNCHANGED <<local, remote, runs, commits>>
  /\ UNCHANGED history

\* The request is lost, or GitHub refuses it for another reason, or the answer is lost.
PutLost ==
  /\ Putting \/ pc = "stored"
  /\ PutFails
  /\ UNCHANGED <<local, remote, shas, runs, commits>>
  /\ UNCHANGED history

\* 409, which GitHub answers for a sha that is not the file's and for causes of its own, or
\* 422 for a file that exists and no sha.
PutConflict ==
  /\ Putting
  /\ depth < MaxNested
  /\ pc' = "refresh"
  /\ UNCHANGED <<local, remote, shas, runs, commits, at, depth, report>>
  /\ UNCHANGED history

\* A variant with a plausible bug: once the sha is refreshed the file counts as pushed.
RefreshCountsAsPushed ==
  /\ pc = "refresh"
  /\ remote[current] # NoBlob
  /\ shas' = [shas EXCEPT ![current] = remote[current]]
  /\ report' = [report EXCEPT !.pushed = @ \cup {current}]
  /\ Advance("put", "done")
  /\ UNCHANGED <<local, remote, runs, commits, depth>>
  /\ UNCHANGED history

\* _refresh_sha() succeeds and _put() calls itself.
RefreshSha ==
  /\ pc = "refresh"
  /\ remote[current] # NoBlob
  /\ shas' = [shas EXCEPT ![current] = remote[current]]
  /\ depth' = depth + 1
  /\ pc' = "put"
  /\ retried' = retried \cup {current}
  /\ UNCHANGED <<local, remote, runs, commits, at, report, base, torn, dropped>>

\* _refresh_sha() fails.
RefreshFails ==
  /\ pc = "refresh"
  /\ PutFails
  /\ UNCHANGED <<local, remote, shas, runs, commits>>
  /\ UNCHANGED history

\* push() has returned its report, and the run is over.
EndRun ==
  /\ pc = "done"
  /\ pc' = "idle"
  /\ UNCHANGED <<local, remote, shas, runs, commits, at, depth, report>>
  /\ UNCHANGED history

Sync ==
  \/ PullFile \/ PullBreaks \/ PullNothing \/ AlreadyDelivered \/ WriteFile \/ StartPush
  \/ SkipFile \/ PutAccepted \/ PutReturns \/ PutLost \/ PutConflict \/ RefreshSha
  \/ RefreshFails \/ EndRun

\* Someone else commits a row to a file of the branch.
ForeignCommit ==
  /\ commits < MaxCommits
  /\ commits' = commits + 1
  /\ \E f \in File : remote' = [remote EXCEPT ![f] = RowsOf(@) \cup {-(commits + 1)}]
  /\ UNCHANGED <<local, shas, runs, pc, at, depth, report>>
  /\ UNCHANGED history

\* The run ends before push() does: the timeout cancels it, an answer that cannot be read
\* raises an exception, the process is stopped.  A request that is out may still be
\* carried out.
CutShort ==
  /\ pc # "idle"
  /\ pc' = "idle"
  /\ at' = 1
  /\ depth' = 0
  /\ Stores \/ UNCHANGED remote
  /\ UNCHANGED <<local, shas, runs, commits, report>>
  /\ UNCHANGED history

\* A redeploy ends the run and wipes the data directory.
Redeploy ==
  /\ local' = [f \in File |-> NoBlob]
  /\ pc' = "idle"
  /\ at' = 1
  /\ depth' = 0
  /\ UNCHANGED <<remote, shas, runs, commits, report>>
  /\ UNCHANGED history

Next == StartRun \/ Sync \/ ForeignCommit \/ CutShort \/ Redeploy

Spec == Init /\ [][Next]_vars

-----------------------------------------------------------------------------
\* The dataset f is still before the loop of the present phase.
Ahead(f) == \E k \in Index : k > at /\ Order[k] = f
ToDo(f) == f = current \/ Ahead(f)

Pushing == pc \in {"put", "refresh", "stored"}

\* The sha that is known of f is the one of the version that the pull of this run read.
ShaIsPulled(f) == shas[f] = IF base[f] = NoBlob THEN NoSha ELSE base[f]

LoopsStartFresh ==
  /\ pc \in {"idle", "work", "write", "done"} => at = 1
  /\ pc = "pull" => \A f \in File : ToDo(f) => base[f] = NoBlob /\ f \notin torn
  /\ pc \in {"pull", "work", "write"} => report = NoReport /\ retried = {}
  /\ Pushing => \A f \in File : ToDo(f) => f \notin report.pushed \cup report.failed

\* Of a version that the pull took over whole, the run still has every row that it did not
\* take out itself.
KeepsPulledRows ==
  pc # "idle" => \A f \in File : base[f] # NoBlob /\ f \notin torn =>
                   local[f] # NoBlob /\ base[f] \subseteq local[f] \cup dropped[f]

\* The first request for a file carries the sha that its pull read, or none if it read
\* none, and never one of an earlier run.
FirstShaIsPulled ==
  /\ pc \in {"pull", "work", "write"} => \A f \in File : ShaIsPulled(f)
  /\ Pushing => \A f \in File : Ahead(f) \/ (f = current /\ depth = 0) => ShaIsPulled(f)

\* A sha is only known of a file that exists, and a nested request carries one.
ShasAreOfFiles ==
  /\ \A f \in File : shas[f] # NoSha => remote[f] # NoBlob
  /\ depth > 0 => Pushing /\ shas[current] # NoSha /\ current \in retried

\* The repository has every row that the run has for f.
Stored(f) == local[f] # NoBlob /\ remote[f] # NoBlob /\ local[f] \subseteq remote[f]

\* What the report of the push says, and what it leaves unsaid: a file in pushed has its rows
\* in the repository, none is in both lists, and one that the loop has left behind is in
\* neither only if it was not there or a second request for it failed
\* (github_sync.py:154-155, 199, 206).
ReportIsTrue ==
  /\ report.pushed \cap report.failed = {}
  /\ pc # "idle" => \A f \in report.pushed : Stored(f)
  /\ pc = "stored" => Stored(current)
  /\ Pushing \/ pc = "done" =>
       \A f \in File : local[f] = NoBlob \/ (Pushing /\ ToDo(f))
                         \/ f \in report.pushed \cup report.failed \cup retried

\* The inductive invariant.
SyncInv ==
  /\ TypeOK
  /\ LoopsStartFresh
  /\ KeepsPulledRows
  /\ FirstShaIsPulled
  /\ ShasAreOfFiles
  /\ ReportIsTrue

\* The rows of f that a step takes out of the repository and that the run did not take out
\* of the file itself.
Lost(f) == RowsOf(remote[f]) \ (RowsOf(remote'[f]) \cup dropped[f])

\* A row that the run did not take out itself disappears from the repository in two cases
\* only: the sha was refreshed after a conflict, and then the row is none of those that the
\* run had pulled; or the pull had kept the sha of a file without all of its content.  In
\* every other request the sha that GitHub compares guards it (github_sync.py:68, 121).
RowsLostOnlyAfterRefresh ==
  [][\A f \in File : Lost(f) # {} =>
       /\ f = current
       /\ f \in torn \/ (depth > 0 /\ Lost(f) \cap RowsOf(base[f]) = {})]_vars

\* "Each run pulls `data/*.csv` before it starts and commits changes afterwards, so
\* history survives a redeploy" (README.md:151-152): the repository loses no row that the
\* run did not take out itself.  For runs with no other writer, and no pull that breaks
\* off within a file.
HistorySurvives == [][\A f \in File : f \notin torn => Lost(f) = {}]_vars
=============================================================================
