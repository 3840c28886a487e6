----------------------------- MODULE BriefingRun -----------------------------
(***************************************************************************)
(* The life of the briefing requests of app/pipeline.py: the lock, the     *)
(* pull of the history, the duplicate check, the day's record in           *)
(* briefings.csv, the email, the push of the history, and what happens to  *)
(* them when a step fails, the 600 second timeout cancels the run, the     *)
(* process dies or a redeploy wipes the data directory.                    *)
(*                                                                         *)
(* The records of briefings.csv are kept per day, here (local) and in the  *)
(* GitHub repository (remote); the other four files do not decide whether  *)
(* an email is sent.  Steps of one request between two awaits are one      *)
(* action, since nothing else runs in the event loop between them.  The    *)
(* lock is the abstract guard that ExecutionLock implements.               *)
(***************************************************************************)
EXTENDS Naturals, FiniteSets

CONSTANTS
  Run,            \* requests to POST /api/daily-brief
  Nobody,         \* "no lock file"
  MaxDay,         \* the days are 1 .. MaxDay
  RetentionDays,  \* data_retention_days
  MaxTries,       \* attempts of the email sender
  Modes,          \* the [force, dry] query parameters that requests use
  Faults          \* what may go wrong, a subset of FaultKinds

FaultKinds ==
  {"github", "csv", "news", "reply", "reject", "timeout", "crash", "redeploy"}

ASSUME NobodyAssumption == Nobody \notin Run
ASSUME BoundsAssumption ==
  MaxDay \in Nat \ {0} /\ RetentionDays \in Nat /\ MaxTries \in Nat \ {0}
ASSUME ModesAssumption == Modes \subseteq [force : BOOLEAN, dry : BOOLEAN]

VARIABLES
  today,      \* the date in the configured timezone
  holder,     \* the run whose lock file exists, or Nobody
  run,        \* the state of each request
  local,      \* briefings.csv in the data directory
  remote,     \* briefings.csv in the GitHub repository
  inbox,      \* how many emails the provider has taken for each day
  inflight,   \* requests given up while the provider still had a message of theirs
  excused     \* days with an acceptance nobody recorded or a record that was replaced

vars == <<today, holder, run, local, remote, inbox, inflight, excused>>

Day == 1 .. MaxDay
NoRecord == [status |-> "NONE", email |-> "NONE"]
NoFile == [d \in Day |-> NoRecord]
Record == [status : {"STARTED", "COMPLETED", "PARTIAL", "FAILED"},
           email  : {"PENDING", "SENT", "SKIPPED", "FAILED"}]

\* A request at l, for the day d, with the query parameters m and the result e.
At(l, d, m, e) ==
  [pc |-> l, day |-> d, force |-> m.force, dry |-> m.dry, partial |-> FALSE,
   cancelled |-> FALSE, tries |-> 0, result |-> e]
NoFlags == [force |-> FALSE, dry |-> FALSE]

\* "pulled": briefings.csv has been pulled, the pull of the other files may go on;
\* "pushed": the same of the push.
Busy == {"pull", "pulled", "collect", "research", "send", "record", "push", "pushed"}
Active(r) == run[r].pc \in Busy
ActiveRuns == {r \in Run : Active(r)}

Result == {"none", "completed", "partial", "dry_run", "already_completed",
           "RUN_ALREADY_IN_PROGRESS", "NO_USABLE_NEWS", "AI_PROCESSING_FAILED",
           "EMAIL_FAILED", "CSV_WRITE_FAILED", "INTERNAL_ERROR", "EXECUTION_TIMEOUT"}

RunState == [pc : Busy \cup {"idle", "done", "dead"}, day : Day, force : BOOLEAN,
             dry : BOOLEAN, partial : BOOLEAN, cancelled : BOOLEAN,
             tries : 0 .. MaxTries, result : Result]

TypeOK ==
  /\ today \in Day
  /\ holder \in Run \cup {Nobody}
  /\ run \in [Run -> RunState]
  /\ local \in [Day -> Record \cup {NoRecord}]
  /\ remote \in [Day -> Record \cup {NoRecord}]
  /\ inbox \in [Day -> Nat]
  /\ inflight \subseteq Run
  /\ excused \subseteq Day

-----------------------------------------------------------------------------
\* was_delivered() that forgets PARTIAL (a plausible bug, to see a property fail).
WasDeliveredCompletedOnly(rec) == rec.status = "COMPLETED" /\ rec.email = "SENT"

\* models.Briefing.was_delivered().
WasDelivered(rec) ==
  /\ rec.status \in {"COMPLETED", "PARTIAL"}
  /\ rec.email = "SENT"

Init ==
  /\ today = 1
  /\ holder = Nobody
  /\ run = [r \in Run |-> At("idle", 1, NoFlags, "none")]
  /\ local = NoFile
  /\ remote = NoFile
  /\ inbox = [d \in Day |-> 0]
  /\ inflight = {}
  /\ excused = {}

\* The local file becomes f.  Days whose delivery it no longer shows, and the days D,
\* are excused.
Store(f, D) ==
  /\ local' = f
  /\ excused' = excused \cup D
                  \cup {d \in Day : WasDelivered(local[d]) /\ ~WasDelivered(f[d])}

\* The request r goes on in the state s.
Becomes(r, s) == run' = [run EXCEPT ![r] = s]

Goto(r, l) == Becomes(r, [run[r] EXCEPT !.pc = l])

\* _work is left with this result or error code; the finally clause pushes.
ToPush(r, result) == Becomes(r, [run[r] EXCEPT !.pc = "push", !.result = result])

\* run() returns: __exit__ has released the lock.
Finish(r, result) ==
  /\ Becomes(r, At("done", run[r].day, NoFlags, result))
  /\ holder' = Nobody

Upsert(r, status, email) ==
  [local EXCEPT ![run[r].day] = [status |-> status, email |-> email]]

-----------------------------------------------------------------------------
(* Variants with a plausible bug each, to confirm that the properties below can fail. *)

\* The request goes on although another one holds the lock.
RequestUnlocked(r) ==
  /\ run[r].pc = "idle"
  /\ \E m \in Modes : Becomes(r, At("pull", today, m, "none"))
  /\ holder' = r
  /\ UNCHANGED <<today, local, remote, inbox, inflight, excused>>

\* The duplicate check is gone.
BeginUnchecked(r) ==
  /\ run[r].pc = "pulled"
  /\ Store(Upsert(r, "STARTED", "PENDING"), {})
  /\ Goto(r, "collect")
  /\ UNCHANGED <<today, holder, remote, inbox, inflight>>

\* The run starts without its STARTED record.
BeginUnrecorded(r) ==
  /\ run[r].pc = "pulled"
  /\ run[r].force \/ ~WasDelivered(local[run[r].day])
  /\ Goto(r, "collect")
  /\ UNCHANGED <<today, holder, local, remote, inbox, inflight, excused>>

\* The sender's count of attempts wraps around.
SendRejectedForEver(r) ==
  /\ "reject" \in Faults
  /\ run[r].pc = "send"
  /\ Becomes(r, [run[r] EXCEPT !.tries = (@ + 1) % MaxTries])
  /\ UNCHANGED <<today, holder, local, remote, inbox, inflight, excused>>

\* A failed send is not looked at.
SendFailedIgnored(r) ==
  /\ run[r].pc = "send"
  /\ run[r].tries = MaxTries
  /\ Goto(r, "record")
  /\ UNCHANGED <<today, holder, local, remote, inbox, inflight, excused>>

\* A dry run is recorded as sent.
RecordOutcomeSent(r) ==
  /\ run[r].pc = "record"
  /\ Store(Upsert(r, IF run[r].partial THEN "PARTIAL" ELSE "COMPLETED", "SENT"), {})
  /\ ToPush(r, "completed")
  /\ UNCHANGED <<today, holder, remote, inbox, inflight>>

-----------------------------------------------------------------------------
\* A request arrives: run() fixes the date, and _guarded takes the lock or gives up.
Request(r) ==
  /\ run[r].pc = "idle"
  /\ \/ /\ holder = Nobody
        /\ holder' = r
        /\ \E m \in Modes : Becomes(r, At("pull", today, m, "none"))
     \/ /\ holder # Nobody
        /\ Becomes(r, At("done", today, NoFlags, "RUN_ALREADY_IN_PROGRESS"))
        /\ UNCHANGED holder
  /\ UNCHANGED <<today, local, remote, inbox, inflight, excused>>

\* _pull_history: a pulled file replaces the local one; a file the repository lacks
\* (404) or a failure leaves it.
Pull(r) ==
  /\ run[r].pc = "pull"
  /\ \/ remote # NoFile /\ Store(remote, {})
     \/ /\ "github" \in Faults \/ remote = NoFile
        /\ UNCHANGED <<local, excused>>
  /\ Goto(r, "pulled")
  /\ UNCHANGED <<today, holder, remote, inbox, inflight>>

\* A duplicate: the day was delivered and nobody forces it.  No push on this way out.
AlreadyCompleted(r) ==
  /\ run[r].pc = "pulled"
  /\ ~run[r].force
  /\ WasDelivered(local[run[r].day])
  /\ Finish(r, "already_completed")
  /\ UNCHANGED <<today, local, remote, inbox, inflight, excused>>

\* Rows dated before the cutoff go.
CleanUp(f, d0) == [d \in Day |-> IF d + RetentionDays >= d0 THEN f[d] ELSE NoRecord]

\* _work begins: the STARTED record replaces the day's record, whatever it was, and
\* expired days are removed.  Either write may fail.
Begin(r) ==
  /\ run[r].pc = "pulled"
  /\ run[r].force \/ ~WasDelivered(local[run[r].day])
  /\ LET started == Upsert(r, "STARTED", "PENDING") IN
       \/ Store(CleanUp(started, run[r].day), {}) /\ Goto(r, "collect")
       \/ /\ "csv" \in Faults
          /\ \E f \in {local, started} : Store(f, {})
          /\ ToPush(r, "CSV_WRITE_FAILED")
  /\ UNCHANGED <<today, holder, remote, inbox, inflight>>

\* _collect, update_registry, _rank and _persist_analysis.
Collect(r) ==
  /\ run[r].pc = "collect"
  /\ \/ Goto(r, "research")
     \/ "news" \in Faults /\ ToPush(r, "NO_USABLE_NEWS")
     \/ "csv" \in Faults /\ ToPush(r, "CSV_WRITE_FAILED")
  /\ UNCHANGED <<today, holder, local, remote, inbox, inflight, excused>>

\* _research, the minimum of three verified topics, and the rendering.
Research(r) ==
  /\ run[r].pc = "research"
  /\ \/ \E p \in BOOLEAN :
          Becomes(r, [run[r] EXCEPT !.pc = IF run[r].dry THEN "record" ELSE "send",
                                    !.partial = p])
     \/ /\ "news" \in Faults
        /\ \E e \in {"NO_USABLE_NEWS", "AI_PROCESSING_FAILED"} : ToPush(r, e)
  /\ UNCHANGED <<today, holder, local, remote, inbox, inflight, excused>>

\* One attempt of the sender: the provider takes the message and says so.
SendAccepted(r) ==
  /\ run[r].pc = "send"
  /\ run[r].tries < MaxTries
  /\ inbox' = [inbox EXCEPT ![run[r].day] = @ + 1]
  /\ Becomes(r, [run[r] EXCEPT !.pc = "record", !.tries = 0])
  /\ UNCHANGED <<today, holder, local, remote, inflight, excused>>

\* The provider takes the message and its answer is lost, which counts as a failed
\* attempt, or is not JSON, which ends the run.
SendUnacknowledged(r) ==
  /\ "reply" \in Faults
  /\ run[r].pc = "send"
  /\ run[r].tries < MaxTries
  /\ inbox' = [inbox EXCEPT ![run[r].day] = @ + 1]
  /\ \/ Becomes(r, [run[r] EXCEPT !.tries = @ + 1])
     \/ ToPush(r, "INTERNAL_ERROR")
  /\ Store(local, {run[r].day})
  /\ UNCHANGED <<today, holder, remote, inflight>>

\* The provider does not take the message, for now or for good.
SendRejected(r) ==
  /\ "reject" \in Faults
  /\ run[r].pc = "send"
  /\ run[r].tries < MaxTries
  /\ \E n \in {run[r].tries + 1, MaxTries} : Becomes(r, [run[r] EXCEPT !.tries = n])
  /\ UNCHANGED <<today, holder, local, remote, inbox, inflight, excused>>

\* send() has failed: _record_email_failure marks the day's record, if there is one,
\* and the run ends.
SendFailed(r) ==
  /\ run[r].pc = "send"
  /\ run[r].tries = MaxTries
  /\ \/ /\ Store(IF local[run[r].day] = NoRecord THEN local
                 ELSE Upsert(r, "FAILED", "FAILED"), {})
        /\ ToPush(r, "EMAIL_FAILED")
     \/ /\ "csv" \in Faults
        /\ ToPush(r, "CSV_WRITE_FAILED")
        /\ UNCHANGED <<local, excused>>
  /\ UNCHANGED <<today, holder, remote, inbox, inflight>>

\* The final record.  If it cannot be written, the acceptance stays unrecorded.
RecordOutcome(r) ==
  /\ run[r].pc = "record"
  /\ LET p == run[r].partial IN
       \/ /\ Store(Upsert(r, IF p THEN "PARTIAL" ELSE "COMPLETED",
                             IF run[r].dry THEN "SKIPPED" ELSE "SENT"), {})
          /\ ToPush(r, IF run[r].dry THEN "dry_run" ELSE IF p THEN "partial" ELSE "completed")
       \/ /\ "csv" \in Faults
          /\ Store(local, IF run[r].dry THEN {} ELSE {run[r].day})
          /\ ToPush(r, "CSV_WRITE_FAILED")
  /\ UNCHANGED <<today, holder, remote, inbox, inflight>>

\* _push_history replaces the file in the repository, if there is one here, or fails.
Push(r) ==
  /\ run[r].pc = "push"
  /\ \/ remote' = IF local = NoFile THEN remote ELSE local
     \/ "github" \in Faults /\ UNCHANGED remote
  /\ Goto(r, "pushed")
  /\ UNCHANGED <<today, holder, local, inbox, inflight, excused>>

\* run() returns what _work came to, however the push went.
Return(r) ==
  /\ run[r].pc = "pushed"
  /\ Finish(r, run[r].result)
  /\ UNCHANGED <<today, local, remote, inbox, inflight, excused>>

-----------------------------------------------------------------------------
\* The runs R are given up while the provider may have a message of theirs, which is
\* delivered later or never; an acceptance whose record is still to come is lost.
GiveUp(R, f) ==
  LET sending == {r \in R : run[r].pc = "send" /\ run[r].tries < MaxTries}
      accepted == {r \in R : run[r].pc = "record" /\ ~run[r].dry}
  IN  /\ inflight' = inflight \cup sending
      /\ Store(f, {run[r].day : r \in sending \cup accepted})

\* wait_for cancels the run at an await.  Out of _work the finally clause still pushes;
\* out of the pull, or out of the push itself, the lock is released at once.
Timeout(r) ==
  /\ "timeout" \in Faults
  /\ ~run[r].cancelled
  /\ GiveUp({r}, local)
  /\ \/ /\ run[r].pc \in {"pull", "pulled", "push", "pushed"}
        /\ Finish(r, "EXECUTION_TIMEOUT")
     \/ /\ run[r].pc \in {"collect", "research"} \/ (run[r].pc = "send" /\ run[r].tries < MaxTries)
        /\ Becomes(r, [run[r] EXCEPT !.pc = "push", !.cancelled = TRUE,
                                  !.result = "EXECUTION_TIMEOUT"])
        /\ UNCHANGED holder
  /\ UNCHANGED <<today, remote, inbox>>

\* The provider delivers a message whose request was given up.
LateDelivery(r) ==
  /\ r \in inflight
  /\ inflight' = inflight \ {r}
  /\ inbox' = [inbox EXCEPT ![run[r].day] = @ + 1]
  /\ UNCHANGED <<today, holder, run, local, remote, excused>>

Killed ==
  [r \in Run |-> IF Active(r) THEN At("dead", run[r].day, NoFlags, "none") ELSE run[r]]

\* The process dies and is started again: its requests are gone, the files stay, the
\* lock file among them.
Crash ==
  /\ "crash" \in Faults
  /\ ActiveRuns # {}
  /\ run' = Killed
  /\ GiveUp(ActiveRuns, local)
  /\ UNCHANGED <<today, holder, remote, inbox>>

\* A redeploy: a new process with an empty data directory.
Redeploy ==
  /\ "redeploy" \in Faults
  /\ run' = Killed
  /\ GiveUp(ActiveRuns, NoFile)
  /\ holder' = Nobody
  /\ UNCHANGED <<today, remote, inbox>>

\* The lock file of a dead run is broken once it is older than the TTL.
LockExpires ==
  /\ holder # Nobody
  /\ ~Active(holder)
  /\ holder' = Nobody
  /\ UNCHANGED <<today, run, local, remote, inbox, inflight, excused>>

NextDay ==
  /\ today < MaxDay
  /\ today' = today + 1
  /\ UNCHANGED <<holder, run, local, remote, inbox, inflight, excused>>

\* What the event loop does for a request, once it has arrived.
Step(r) ==
  \/ Pull(r) \/ AlreadyCompleted(r) \/ Begin(r) \/ Collect(r) \/ Research(r)
  \/ SendAccepted(r) \/ SendUnacknowledged(r) \/ SendRejected(r) \/ SendFailed(r)
  \/ RecordOutcome(r) \/ Push(r) \/ Return(r)

Next ==
  \/ \E r \in Run : Request(r) \/ Step(r) \/ Timeout(r) \/ LateDelivery(r)
  \/ Crash \/ Redeploy \/ LockExpires \/ NextDay

Spec == Init /\ [][Next]_vars

\* Every await of a request ends, with an answer, an error or its own timeout.
FairSpec == Spec /\ \A r \in Run : WF_vars(Step(r))

-----------------------------------------------------------------------------
\* A day whose record says it was delivered, here or in the repository, really was:
\* a morning without an email stays retryable (tests/test_idempotency.py:3-4).
RecordsAreTruthful ==
  \A d \in Day : WasDelivered(local[d]) \/ WasDelivered(remote[d]) => inbox[d] > 0

\* A request answered with success has its email in the recipient's mailbox, whichever
\* request sent it: a morning without an email is never reported green.
SuccessIsTrue ==
  \A r \in Run : run[r].result \in {"completed", "partial", "already_completed"}
                  => inbox[run[r].day] > 0

\* No day gets two emails, however requests, failures, crashes and redeploys follow
\* one another, except a day for which an acceptance went unrecorded (a lost answer, a
\* timeout or a crash around the send, a failed write) or whose delivered record was
\* replaced (a forced run, a pull of an older file, a wiped directory) (PRD 48, 73).
OnceUnlessExcused == \A d \in Day \ excused : inbox[d] <= 1

\* A delivered record is only ever replaced by a forced run of its own day, by the
\* pull, by a redeploy or by the retention.
DeliveredRecordSurvives ==
  [][\A d \in Day : WasDelivered(local[d]) /\ ~WasDelivered(local'[d])
       => \/ \E r \in Run : run[r].pc = "pulled" /\ run[r].force /\ run[r].day = d
          \/ local' \in {remote, NoFile}
          \/ d + RetentionDays < today]_vars

\* The parts of the strengthening that makes the three invariants above inductive.
HolderInside == \A r \in Run : Active(r) => holder = r

AcceptedBeforeRecord ==
  \A r \in Run : run[r].pc = "record" /\ ~run[r].dry => inbox[run[r].day] > 0

DryRunsSendNothing == \A r \in Run : run[r].pc = "send" => ~run[r].dry

UndeliveredWhileWorking ==
  \A r \in Run : run[r].pc \in {"collect", "research", "send", "record"}
                 => ~WasDelivered(local[run[r].day])

LateIsExcused == \A r \in inflight : run[r].pc # "idle" /\ run[r].day \in excused

\* The one email of an unexcused day has its record, or a run that is about to write it.
AccountedFor(d) ==
  \/ inbox[d] = 0
  \/ /\ inbox[d] = 1
     /\ \/ WasDelivered(local[d])
        \/ \E r \in Run : run[r].pc = "record" /\ ~run[r].dry /\ run[r].day = d

\* The inductive invariant: whoever works on a day holds the lock and replaces no
\* delivered record unnoticed, and each email is accounted for or excused.
RunInv ==
  /\ TypeOK
  /\ RecordsAreTruthful
  /\ SuccessIsTrue
  /\ HolderInside
  /\ AcceptedBeforeRecord
  /\ DryRunsSendNothing
  /\ UndeliveredWhileWorking
  /\ LateIsExcused
  /\ \A d \in Day \ excused : AccountedFor(d)

\* At most one request at a time is between its lock and its release, the push of the
\* history included (the first line of locking.py's docstring).
Guard == INSTANCE ExclusiveRun WITH inside <- ActiveRuns
OneRunAtATime == Guard!Spec

\* Every request that got the lock is answered, unless its process dies.
EveryRunEnds == \A r \in Run : Active(r) ~> ~Active(r)

\* "a briefing already *delivered* must never be sent twice" (tests/test_idempotency.py:3),
\* for requests that do not ask for it with force.
NeverSentAgainUnforced ==
  [][\A r \in Run : SendAccepted(r) /\ ~run[r].force => inbox[run[r].day] = 0]_vars
=============================================================================
