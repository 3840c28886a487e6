-------------------------- MODULE BriefingRun_proofs --------------------------
(***************************************************************************)
(* Proofs about the life of the briefing requests, for any set of          *)
(* requests, flags and faults and any number of days, attempts and         *)
(* retention days.  RunInv is inductive; that records and answers are      *)
(* truthful, that a second email needs an excuse, that the record of a     *)
(* delivery survives and that runs exclude each other follow from it.      *)
(***************************************************************************)
EXTENDS BriefingRun, TLAPS

USE NobodyAssumption, BoundsAssumption, ModesAssumption

\* What a file of briefings.csv is.
File == [Day -> Record \cup {NoRecord}]

\* A record that was never written was never delivered.
LEMMA NoRecordUndelivered == ~WasDelivered(NoRecord)
BY DEF WasDelivered, NoRecord

\* The records that the pipeline writes, and which of them count as delivered.
LEMMA Written ==
  /\ \A s \in {"STARTED", "COMPLETED", "PARTIAL", "FAILED"} :
       \A e \in {"PENDING", "SENT", "SKIPPED", "FAILED"} :
         [status |-> s, email |-> e] \in Record
  /\ ~WasDelivered([status |-> "STARTED", email |-> "PENDING"])
  /\ ~WasDelivered([status |-> "FAILED", email |-> "FAILED"])
  /\ \A s \in {"COMPLETED", "PARTIAL"} :
       /\ WasDelivered([status |-> s, email |-> "SENT"])
       /\ ~WasDelivered([status |-> s, email |-> "SKIPPED"])
BY DEF WasDelivered, Record

\* upsert_briefing changes the day's record and no other.
LEMMA UpsertChangesOneDay ==
  ASSUME TypeOK, NEW r \in Run,
         NEW s \in {"STARTED", "COMPLETED", "PARTIAL", "FAILED"},
         NEW e \in {"PENDING", "SENT", "SKIPPED", "FAILED"}
  PROVE  /\ Upsert(r, s, e) \in File
         /\ Upsert(r, s, e)[run[r].day] = [status |-> s, email |-> e]
         /\ \A d \in Day : d # run[r].day => Upsert(r, s, e)[d] = local[d]
BY Written DEF Upsert, TypeOK, File, RunState

\* The retention keeps a record or removes it.
LEMMA CleanUpRemovesOnly ==
  ASSUME NEW f \in File, NEW d0
  PROVE  /\ CleanUp(f, d0) \in File
         /\ \A d \in Day : CleanUp(f, d0)[d] \in {f[d], NoRecord}
BY DEF CleanUp, File

-----------------------------------------------------------------------------
\* t is the state s of a request, of the same day and with the same flags, at l.
MovedOn(s, t, l) ==
  /\ t \in RunState
  /\ t.pc = l /\ t.day = s.day /\ t.force = s.force /\ t.dry = s.dry

\* What is read of a request's state has its type.
LEMMA RunStateFields ==
  ASSUME NEW s \in RunState
  PROVE  /\ s.pc \in Busy \cup {"idle", "done", "dead"} /\ s.day \in Day
         /\ s.force \in BOOLEAN /\ s.dry \in BOOLEAN /\ s.partial \in BOOLEAN
         /\ s.cancelled \in BOOLEAN /\ s.tries \in 0 .. MaxTries /\ s.result \in Result
BY DEF RunState

\* The updates of a request's state that the steps make, one lemma each.
LEMMA GoneTo ==
  ASSUME NEW s \in RunState, NEW l \in Busy
  PROVE  MovedOn(s, [s EXCEPT !.pc = l], l) /\ [s EXCEPT !.pc = l].result = s.result
BY DEF RunState, MovedOn

LEMMA GoneToPush ==
  ASSUME NEW s \in RunState, NEW e \in Result
  PROVE  /\ MovedOn(s, [s EXCEPT !.pc = "push", !.result = e], "push")
         /\ [s EXCEPT !.pc = "push", !.result = e].result = e
BY DEF RunState, MovedOn, Busy

LEMMA Verified ==
  ASSUME NEW s \in RunState, NEW l \in Busy, NEW p \in BOOLEAN
  PROVE  /\ MovedOn(s, [s EXCEPT !.pc = l, !.partial = p], l)
         /\ [s EXCEPT !.pc = l, !.partial = p].result = s.result
BY DEF RunState, MovedOn

LEMMA Accepted ==
  ASSUME NEW s \in RunState
  PROVE  /\ MovedOn(s, [s EXCEPT !.pc = "record", !.tries = 0], "record")
         /\ [s EXCEPT !.pc = "record", !.tries = 0].result = s.result
<1>1. 0 \in 0 .. MaxTries
  OBVIOUS
<1>2. QED
  BY <1>1 DEF RunState, MovedOn, Busy

LEMMA Tried ==
  ASSUME NEW s \in RunState, NEW n \in 0 .. MaxTries
  PROVE  MovedOn(s, [s EXCEPT !.tries = n], s.pc) /\ [s EXCEPT !.tries = n].result = s.result
BY RunStateFields DEF RunState, MovedOn

LEMMA Cancelled ==
  ASSUME NEW s \in RunState
  PROVE  LET t == [s EXCEPT !.pc = "push", !.cancelled = TRUE, !.result = "EXECUTION_TIMEOUT"]
         IN  MovedOn(s, t, "push") /\ t.result = "EXECUTION_TIMEOUT"
BY DEF RunState, MovedOn, Busy, Result

\* The state a request is set to when it arrives, is answered or is lost.
LEMMA FreshState ==
  ASSUME NEW l \in Busy \cup {"idle", "done", "dead"}, NEW d \in Day, NEW e \in Result, NEW m,
         m.force \in BOOLEAN, m.dry \in BOOLEAN
  PROVE  /\ At(l, d, m, e) \in RunState
         /\ At(l, d, m, e).pc = l /\ At(l, d, m, e).day = d /\ At(l, d, m, e).result = e
BY DEF RunState, At

\* The flags of a request that is no longer of interest.
LEMMA NoFlagsBoolean == NoFlags.force \in BOOLEAN /\ NoFlags.dry \in BOOLEAN
BY DEF NoFlags

\* One request changes its state, the others keep theirs.
LEMMA BecomesOnly ==
  ASSUME TypeOK, NEW r \in Run, NEW s \in RunState, Becomes(r, s)
  PROVE  /\ run' \in [Run -> RunState]
         /\ run'[r] = s
         /\ \A q \in Run : q # r => run'[q] = run[q]
BY DEF Becomes, TypeOK

-----------------------------------------------------------------------------
Success == {"completed", "partial", "already_completed"}
Working == {"collect", "research", "send", "record"}
Recording(q, d) == run[q].pc = "record" /\ ~run[q].dry /\ run[q].day = d

\* What Store does to the file and to the excused days.
LEMMA StoreExcuses ==
  ASSUME TypeOK, NEW f \in File, NEW D \in SUBSET Day, Store(f, D)
  PROVE  /\ local' = f
         /\ excused \subseteq excused' /\ D \subseteq excused' /\ excused' \subseteq Day
         /\ \A d \in Day \ excused' : WasDelivered(local[d]) => WasDelivered(local'[d])
BY DEF Store, TypeOK

\* Emails of the unexcused days stay accounted for when none is taken, no delivered record
\* goes and no run leaves "record" without its record.
LEMMA AccountedKept ==
  ASSUME RunInv, NEW r \in Run, NEW s \in RunState, Becomes(r, s),
         excused \subseteq excused',
         \A d \in Day \ excused' : inbox'[d] = inbox[d],
         \A d \in Day \ excused' : WasDelivered(local[d]) => WasDelivered(local'[d]),
         \A d \in Day \ excused' : Recording(r, d) => WasDelivered(local'[d])
  PROVE  \A d \in Day \ excused' : AccountedFor(d)'
<1> SUFFICES ASSUME NEW d \in Day \ excused' PROVE AccountedFor(d)'
  OBVIOUS
<1>1. AccountedFor(d) /\ inbox'[d] = inbox[d]
  BY DEF RunInv
<1>2. CASE inbox[d] = 0
  BY <1>1, <1>2 DEF AccountedFor
<1>3. CASE inbox[d] = 1 /\ WasDelivered(local[d])
  BY <1>1, <1>3 DEF AccountedFor
<1>4. ASSUME inbox[d] = 1, NEW q \in Run, Recording(q, d) PROVE AccountedFor(d)'
  <2>1. CASE q = r
    BY <1>1, <1>4, <2>1 DEF AccountedFor
  <2>2. CASE q # r
    <3>1. run'[q] = run[q]
      BY <2>2, BecomesOnly DEF RunInv
    <3>2. QED
      BY <1>1, <1>4, <3>1 DEF AccountedFor, Recording
  <2>3. QED
    BY <2>1, <2>2
<1>5. QED
  BY <1>1, <1>2, <1>3, <1>4 DEF AccountedFor, Recording

\* What a step of the request r has to keep to preserve the invariant.
LEMMA StepKeepsInv ==
  ASSUME RunInv, TypeOK', NEW r \in Run, NEW s \in RunState, Becomes(r, s),
         s.pc # "idle", s.day = run[r].day \/ run[r].pc = "idle",
         s.result \in Success => inbox'[s.day] > 0,
         s.pc \in Busy => holder' = r,
         Active(r) \/ (local' = local /\ \A q \in Run : Active(q) => holder' = q),
         s.pc = "record" /\ ~s.dry => inbox'[s.day] > 0,
         s.pc = "send" => ~s.dry,
         s.pc \in Working => ~WasDelivered(local'[s.day]),
         \A d \in Day : inbox'[d] >= inbox[d],
         excused \subseteq excused',
         \A q \in inflight' : q \in inflight \/ (q = r /\ s.day \in excused'),
         \A d \in Day : WasDelivered(local'[d]) \/ WasDelivered(remote'[d]) => inbox'[d] > 0,
         \A d \in Day \ excused' : AccountedFor(d)'
  PROVE  RunInv'
<1> USE DEF RunInv
<1>1. /\ run'[r] = s
      /\ \A q \in Run : q # r => run'[q] = run[q]
  BY BecomesOnly
<1>2. /\ inbox \in [Day -> Nat] /\ inbox' \in [Day -> Nat]
      /\ \A q \in Run : run[q] \in RunState /\ run[q].day \in Day
  BY RunStateFields DEF TypeOK
<1>3. RecordsAreTruthful'
  BY DEF RecordsAreTruthful
<1>4. SuccessIsTrue'
  <2> SUFFICES ASSUME NEW q \in Run, q # r, run[q].result \in Success
               PROVE  inbox'[run[q].day] > 0
    BY <1>1 DEF SuccessIsTrue, Success
  <2>1. inbox[run[q].day] > 0
    BY DEF SuccessIsTrue, Success
  <2>2. QED
    BY <1>2, <2>1
<1>5. \A q \in Run : q # r /\ Active(q) => ~Active(r)
  BY DEF HolderInside
<1>6. HolderInside'
  BY <1>1, <1>5 DEF HolderInside, Active
<1>7. AcceptedBeforeRecord'
  <2> SUFFICES ASSUME NEW q \in Run, q # r, run[q].pc = "record", ~run[q].dry
               PROVE  inbox'[run[q].day] > 0
    BY <1>1 DEF AcceptedBeforeRecord
  <2>1. inbox[run[q].day] > 0
    BY DEF AcceptedBeforeRecord
  <2>2. QED
    BY <1>2, <2>1
<1>8. UndeliveredWhileWorking'
  <2> SUFFICES ASSUME NEW q \in Run, q # r, run[q].pc \in Working
               PROVE  ~WasDelivered(local'[run[q].day])
    BY <1>1 DEF UndeliveredWhileWorking, Working
  <2>1. Active(q)
    BY DEF Active, Busy, Working
  <2>2. local' = local
    BY <1>5, <2>1
  <2>3. QED
    BY <2>2 DEF UndeliveredWhileWorking, Working
<1>9. LateIsExcused'
  <2> SUFFICES ASSUME NEW q \in inflight' PROVE run'[q].pc # "idle" /\ run'[q].day \in excused'
    BY DEF LateIsExcused
  <2>1. q \in Run
    BY DEF TypeOK
  <2>2. QED
    BY <1>1, <2>1 DEF LateIsExcused
<1>10. DryRunsSendNothing'
  BY <1>1 DEF DryRunsSendNothing
<1>11. QED
  BY <1>3, <1>4, <1>6, <1>7, <1>8, <1>9, <1>10

-----------------------------------------------------------------------------
\* The types that the invariant gives, field by field.
LEMMA Types ==
  ASSUME TypeOK
  PROVE  /\ run \in [Run -> RunState] /\ local \in File /\ remote \in File
         /\ inbox \in [Day -> Nat] /\ inflight \subseteq Run /\ excused \subseteq Day
         /\ today \in Day /\ holder \in Run \cup {Nobody}
         /\ \A r \in Run : run[r] \in RunState /\ run[r].day \in Day
                         /\ run[r].dry \in BOOLEAN /\ run[r].force \in BOOLEAN
BY RunStateFields DEF TypeOK, File

\* A step that leaves the file and the excused days alone stores what is there.
LEMMA StoreNothing ==
  ASSUME UNCHANGED <<local, excused>>
  PROVE  Store(local, {})
BY DEF Store

\* A step of an active request that stays active and takes no email.
LEMMA QuietStepKeepsInv ==
  ASSUME RunInv, NEW r \in Run, NEW s \in RunState, Becomes(r, s),
         Active(r), s.pc \in Busy, s.day = run[r].day,
         UNCHANGED <<today, holder, inbox, inflight>>, remote' \in {remote, local},
         NEW f \in File, NEW D \in SUBSET Day, Store(f, D),
         s.result \in Success => inbox[s.day] > 0,
         s.pc = "record" /\ ~s.dry => inbox[s.day] > 0,
         s.pc = "send" => ~s.dry,
         s.pc \in Working => ~WasDelivered(f[s.day]),
         \A d \in Day : WasDelivered(f[d]) => inbox[d] > 0,
         \A d \in Day \ (excused \cup D) : Recording(r, d) => WasDelivered(f[d])
  PROVE  RunInv'
<1>0. TypeOK
  BY DEF RunInv
<1>1. /\ local' = f /\ excused \subseteq excused' /\ D \subseteq excused' /\ excused' \subseteq Day
      /\ \A d \in Day \ excused' : WasDelivered(local[d]) => WasDelivered(local'[d])
  BY <1>0, StoreExcuses
<1>2. TypeOK'
  <2>1. run' \in [Run -> RunState] /\ local' \in File /\ remote' \in File
    BY <1>0, <1>1, BecomesOnly, Types
  <2>2. QED
    BY <1>0, <1>1, <2>1, Types DEF TypeOK, File
<1>3. holder = r /\ \A q \in Run : Active(q) => holder = q
  BY DEF RunInv, HolderInside
<1>4. \A d \in Day \ excused' : AccountedFor(d)'
  <2>1. \A d \in Day \ excused' : Recording(r, d) => WasDelivered(local'[d])
    BY <1>1
  <2>2. QED
    BY <1>1, <2>1, AccountedKept
<1>5. \A d \in Day : WasDelivered(local'[d]) \/ WasDelivered(remote'[d]) => inbox'[d] > 0
  BY <1>1 DEF RunInv, RecordsAreTruthful
<1>6. \A d \in Day : inbox'[d] >= inbox[d]
  BY <1>0, Types
<1>7. s.pc # "idle"
  BY DEF Busy
<1>8. QED
  BY <1>1, <1>2, <1>3, <1>4, <1>5, <1>6, <1>7, StepKeepsInv

\* What the invariant says of a request and of the days, in the words of the steps.
LEMMA Known ==
  ASSUME RunInv, NEW r \in Run
  PROVE  /\ TypeOK /\ run[r] \in RunState /\ run[r].day \in Day
         /\ local \in File /\ remote \in File
         /\ run[r].result \in Success => inbox[run[r].day] > 0
         /\ run[r].pc = "record" /\ ~run[r].dry => inbox[run[r].day] > 0
         /\ run[r].pc = "send" => ~run[r].dry
         /\ run[r].pc \in Working => ~WasDelivered(local[run[r].day])
         /\ \A d \in Day : WasDelivered(local[d]) \/ WasDelivered(remote[d]) => inbox[d] > 0
BY Types DEF RunInv, SuccessIsTrue, Success, AcceptedBeforeRecord, DryRunsSendNothing,
             UndeliveredWhileWorking, Working, RecordsAreTruthful

LEMMA PullKeepsInv ==
  ASSUME RunInv, NEW r \in Run, Pull(r)
  PROVE  RunInv'
<1> DEFINE s == [run[r] EXCEPT !.pc = "pulled"]
<1>1. MovedOn(run[r], s, "pulled") /\ s.result = run[r].result
  BY Known, GoneTo DEF Busy
<1>2. run[r].pc = "pull" /\ Active(r)
  BY DEF Pull, Active, Busy
<1>3. PICK f \in {local, remote} : Store(f, {})
  BY StoreNothing DEF Pull
<1>4. Becomes(r, s) /\ UNCHANGED <<today, holder, remote, inbox, inflight>>
  BY DEF Pull, Goto
<1>5. s \in RunState /\ s.pc = "pulled" /\ s.day = run[r].day /\ "pulled" \in Busy
  BY <1>1 DEF MovedOn, Busy
<1>6. QED
  <2> HIDE DEF s
  <2>1. f \in File
    BY Known
  <2>2. \A d \in Day : ~Recording(r, d)
    BY <1>2 DEF Recording
  <2>3. s.result \in Success => inbox[s.day] > 0
    BY <1>1, <1>5, Known
  <2>4. \A d \in Day : WasDelivered(f[d]) => inbox[d] > 0
    BY Known
  <2>5. s.pc \notin {"record", "send"} \cup Working
    BY <1>5 DEF Working
  <2>6. QED
    BY <1>2, <1>3, <1>4, <1>5, <2>1, <2>2, <2>3, <2>4, <2>5, QuietStepKeepsInv

\* A step of an active request that changes nothing else.
LEMMA MoveKeepsInv ==
  ASSUME RunInv, NEW r \in Run, NEW s, NEW l \in Busy, MovedOn(run[r], s, l), Becomes(r, s),
         Active(r), run[r].pc # "record",
         UNCHANGED <<today, holder, local, remote, inbox, inflight, excused>>,
         s.result = run[r].result \/ s.result \notin Success,
         l = "record" => run[r].dry,
         l = "send" => ~run[r].dry,
         l \in Working => run[r].pc \in Working
  PROVE  RunInv'
<1>1. s \in RunState /\ s.pc = l /\ s.day = run[r].day /\ s.dry = run[r].dry
  BY DEF MovedOn
<1>2. Store(local, {})
  BY StoreNothing
<1>3. \A d \in Day : ~Recording(r, d)
  BY DEF Recording
<1>4. s.result \in Success => inbox[s.day] > 0
  BY <1>1, Known
<1>5. s.pc \in Working => ~WasDelivered(local[s.day])
  BY <1>1, Known
<1>6. local \in File /\ \A d \in Day : WasDelivered(local[d]) => inbox[d] > 0
  BY Known
<1>7. remote' \in {remote, local} /\ UNCHANGED <<today, holder, inbox, inflight>>
  OBVIOUS
<1>8. ~(s.pc = "record" /\ ~s.dry) /\ (s.pc = "send" => ~s.dry)
  BY <1>1
<1>9. QED
  BY <1>1, <1>2, <1>3, <1>4, <1>5, <1>6, <1>7, <1>8, QuietStepKeepsInv

\* A step that ends the work of an active request with an error and changes nothing else.
LEMMA FailureKeepsInv ==
  ASSUME RunInv, NEW r \in Run, NEW e \in Result \ Success, ToPush(r, e),
         Active(r), run[r].pc # "record",
         UNCHANGED <<today, holder, local, remote, inbox, inflight, excused>>
  PROVE  RunInv'
<1> DEFINE s == [run[r] EXCEPT !.pc = "push", !.result = e]
<1>1. MovedOn(run[r], s, "push") /\ s.result = e
  <2>1. run[r] \in RunState
    BY Known
  <2>2. QED
    BY <2>1, GoneToPush
<1>2. Becomes(r, s)
  BY DEF ToPush
<1> HIDE DEF s
<1>3. "push" \in Busy /\ "push" \notin {"record", "send"} \cup Working
  BY DEF Busy, Working
<1>4. QED
  BY <1>1, <1>2, <1>3, MoveKeepsInv

LEMMA BeginKeepsInv ==
  ASSUME RunInv, NEW r \in Run, Begin(r)
  PROVE  RunInv'
<1> DEFINE started == Upsert(r, "STARTED", "PENDING")
<1>1. run[r].pc = "pulled" /\ Active(r)
  BY DEF Begin, Active, Busy
<1>2. /\ started \in File
      /\ started[run[r].day] = [status |-> "STARTED", email |-> "PENDING"]
      /\ \A d \in Day : d # run[r].day => started[d] = local[d]
  BY Known, UpsertChangesOneDay
<1>3. /\ ~WasDelivered(started[run[r].day])
      /\ \A d \in Day : WasDelivered(started[d]) => WasDelivered(local[d])
  BY <1>2, Written
<1>4. UNCHANGED <<today, holder, inbox, inflight>> /\ remote' \in {remote, local}
  BY DEF Begin
<1>5. \A d \in Day : ~Recording(r, d)
  BY <1>1 DEF Recording
<1> HIDE DEF started
<1>6. CASE Store(CleanUp(started, run[r].day), {}) /\ Goto(r, "collect")
  <2> DEFINE s == [run[r] EXCEPT !.pc = "collect"]
             f == CleanUp(started, run[r].day)
  <2>1. /\ s \in RunState /\ s.pc = "collect" /\ s.day = run[r].day
        /\ s.result = run[r].result /\ s.pc \in Busy /\ s.pc \notin {"record", "send"}
    BY Known, GoneTo DEF MovedOn, Busy
  <2>2. f \in File /\ \A d \in Day : f[d] \in {started[d], NoRecord}
    BY <1>2, CleanUpRemovesOnly
  <2>3. Becomes(r, s) /\ Store(f, {})
    BY <1>6 DEF Goto
  <2> HIDE DEF s, f
  <2>4. \A d \in Day : WasDelivered(f[d]) => WasDelivered(started[d])
    BY <2>2, NoRecordUndelivered
  <2>5. ~WasDelivered(f[s.day]) /\ \A d \in Day : WasDelivered(f[d]) => inbox[d] > 0
    BY <1>3, <2>1, <2>4, Known
  <2>6. s.result \in Success => inbox[s.day] > 0
    BY <2>1, Known
  <2>7. QED
    BY <1>1, <1>4, <1>5, <2>1, <2>2, <2>3, <2>5, <2>6, QuietStepKeepsInv
<1>7. ASSUME NEW f \in {local, started}, Store(f, {}), ToPush(r, "CSV_WRITE_FAILED")
      PROVE  RunInv'
  <2> DEFINE s == [run[r] EXCEPT !.pc = "push", !.result = "CSV_WRITE_FAILED"]
  <2>1. /\ s \in RunState /\ s.pc = "push" /\ s.day = run[r].day
        /\ s.result = "CSV_WRITE_FAILED"
    BY Known, GoneToPush DEF MovedOn, Result
  <2>2. Becomes(r, s)
    BY <1>7 DEF ToPush
  <2> HIDE DEF s
  <2>3. s.pc \in Busy /\ s.pc \notin {"record", "send"} \cup Working /\ s.result \notin Success
    BY <2>1 DEF Busy, Working, Success
  <2>4. f \in File /\ \A d \in Day : WasDelivered(f[d]) => inbox[d] > 0
    BY <1>2, <1>3, Known
  <2>5. QED
    BY <1>1, <1>4, <1>5, <1>7, <2>1, <2>2, <2>3, <2>4, QuietStepKeepsInv
<1>8. QED
  BY <1>6, <1>7 DEF Begin, started

LEMMA CollectKeepsInv ==
  ASSUME RunInv, NEW r \in Run, Collect(r)
  PROVE  RunInv'
<1>1. run[r].pc = "collect" /\ Active(r) /\ run[r].pc \in Working
  BY DEF Collect, Active, Busy, Working
<1>2. UNCHANGED <<today, holder, local, remote, inbox, inflight, excused>>
  BY DEF Collect
<1>3. CASE Goto(r, "research")
  <2> DEFINE s == [run[r] EXCEPT !.pc = "research"]
  <2>1. MovedOn(run[r], s, "research") /\ s.result = run[r].result /\ "research" \in Busy
    BY Known, GoneTo DEF Busy
  <2>2. Becomes(r, s)
    BY <1>3 DEF Goto
  <2> HIDE DEF s
  <2>3. QED
    BY <1>1, <1>2, <2>1, <2>2, MoveKeepsInv
<1>4. ASSUME NEW e \in {"NO_USABLE_NEWS", "CSV_WRITE_FAILED"}, ToPush(r, e)
      PROVE  RunInv'
  <2>1. e \in Result \ Success
    BY DEF Result, Success
  <2>2. QED
    BY <1>1, <1>2, <1>4, <2>1, FailureKeepsInv
<1>5. QED
  BY <1>3, <1>4 DEF Collect

LEMMA ResearchKeepsInv ==
  ASSUME RunInv, NEW r \in Run, Research(r)
  PROVE  RunInv'
<1>1. run[r].pc = "research" /\ Active(r) /\ run[r].pc \in Working
  BY DEF Research, Active, Busy, Working
<1>2. UNCHANGED <<today, holder, local, remote, inbox, inflight, excused>>
  BY DEF Research
<1> DEFINE l == IF run[r].dry THEN "record" ELSE "send"
<1>3. ASSUME NEW p \in BOOLEAN, Becomes(r, [run[r] EXCEPT !.pc = l, !.partial = p])
      PROVE  RunInv'
  <2> DEFINE s == [run[r] EXCEPT !.pc = l, !.partial = p]
  <2>1. l \in Busy /\ (l = "record" => run[r].dry) /\ (l = "send" => ~run[r].dry)
    BY DEF Busy
  <2>2. MovedOn(run[r], s, l) /\ s.result = run[r].result
    BY <2>1, Known, Verified
  <2> HIDE DEF s, l
  <2>3. QED
    BY <1>1, <1>2, <1>3, <2>1, <2>2, MoveKeepsInv DEF s
<1>4. ASSUME NEW e \in {"NO_USABLE_NEWS", "AI_PROCESSING_FAILED"}, ToPush(r, e)
      PROVE  RunInv'
  <2>1. e \in Result \ Success
    BY DEF Result, Success
  <2>2. QED
    BY <1>1, <1>2, <1>4, <2>1, FailureKeepsInv
<1>5. QED
  BY <1>3, <1>4 DEF Research

LEMMA SendRejectedKeepsInv ==
  ASSUME RunInv, NEW r \in Run, SendRejected(r)
  PROVE  RunInv'
<1>1. run[r].pc = "send" /\ Active(r) /\ run[r].pc \in Working
  BY DEF SendRejected, Active, Busy, Working
<1>2. run[r] \in RunState /\ run[r].tries \in 0 .. MaxTries
  BY Known, RunStateFields
<1>3. PICK n \in {run[r].tries + 1, MaxTries} : Becomes(r, [run[r] EXCEPT !.tries = n])
  BY DEF SendRejected
<1>4. n \in 0 .. MaxTries
  BY <1>2 DEF SendRejected
<1> DEFINE s == [run[r] EXCEPT !.tries = n]
<1>5. MovedOn(run[r], s, run[r].pc) /\ s.result = run[r].result
  BY <1>2, <1>4, Tried
<1>6. Becomes(r, s)
  BY <1>3
<1>7. UNCHANGED <<today, holder, local, remote, inbox, inflight, excused>>
  BY DEF SendRejected
<1>8. "send" \in Busy /\ ~run[r].dry
  BY <1>1, Known DEF Busy
<1> HIDE DEF s
<1>9. QED
  BY <1>1, <1>5, <1>6, <1>7, <1>8, MoveKeepsInv

LEMMA SendFailedKeepsInv ==
  ASSUME RunInv, NEW r \in Run, SendFailed(r)
  PROVE  RunInv'
<1>1. run[r].pc = "send" /\ Active(r) /\ UNCHANGED <<today, holder, remote, inbox, inflight>>
  BY DEF SendFailed, Active, Busy
<1>2. CASE ToPush(r, "CSV_WRITE_FAILED") /\ UNCHANGED <<local, excused>>
  <2>1. "CSV_WRITE_FAILED" \in Result \ Success
    BY DEF Result, Success
  <2>2. QED
    BY <1>1, <1>2, <2>1, FailureKeepsInv
<1> DEFINE failed == Upsert(r, "FAILED", "FAILED")
<1>3. ASSUME NEW f \in {local, failed}, Store(f, {}), ToPush(r, "EMAIL_FAILED")
      PROVE  RunInv'
  <2> DEFINE s == [run[r] EXCEPT !.pc = "push", !.result = "EMAIL_FAILED"]
  <2>1. /\ s \in RunState /\ s.pc = "push" /\ s.day = run[r].day
        /\ s.result = "EMAIL_FAILED"
    BY Known, GoneToPush DEF MovedOn, Result
  <2>2. Becomes(r, s)
    BY <1>3 DEF ToPush
  <2> HIDE DEF s
  <2>3. s.pc \in Busy /\ s.pc \notin {"record", "send"} \cup Working /\ s.result \notin Success
    BY <2>1 DEF Busy, Working, Success
  <2>4. /\ failed \in File /\ ~WasDelivered(failed[run[r].day])
        /\ \A d \in Day : d # run[r].day => failed[d] = local[d]
    BY Known, UpsertChangesOneDay, Written
  <2> HIDE DEF failed
  <2>5. f \in File /\ \A d \in Day : WasDelivered(f[d]) => inbox[d] > 0
    BY <2>4, Known
  <2>6. \A d \in Day : ~Recording(r, d)
    BY <1>1 DEF Recording
  <2>7. QED
    BY <1>1, <1>3, <2>1, <2>2, <2>3, <2>5, <2>6, QuietStepKeepsInv
<1>4. QED
  <2>1. CASE Store(IF local[run[r].day] = NoRecord THEN local ELSE failed, {})
             /\ ToPush(r, "EMAIL_FAILED")
    BY <1>3, <2>1
  <2>2. QED
    BY <1>2, <2>1 DEF SendFailed

LEMMA RecordOutcomeKeepsInv ==
  ASSUME RunInv, NEW r \in Run, RecordOutcome(r)
  PROVE  RunInv'
<1>1. run[r].pc = "record" /\ Active(r) /\ UNCHANGED <<today, holder, remote, inbox, inflight>>
  BY DEF RecordOutcome, Active, Busy
<1>2. run[r] \in RunState /\ run[r].partial \in BOOLEAN /\ run[r].dry \in BOOLEAN
  BY Known, RunStateFields
<1> DEFINE status == IF run[r].partial THEN "PARTIAL" ELSE "COMPLETED"
           email == IF run[r].dry THEN "SKIPPED" ELSE "SENT"
           f == Upsert(r, status, email)
           e == IF run[r].dry THEN "dry_run" ELSE IF run[r].partial THEN "partial" ELSE "completed"
<1>3. ~run[r].dry => inbox[run[r].day] > 0
  BY <1>1, Known
<1>4. CASE Store(f, {}) /\ ToPush(r, e)
  <2> DEFINE s == [run[r] EXCEPT !.pc = "push", !.result = e]
  <2>1. e \in Result /\ (e \in Success => ~run[r].dry)
    BY <1>2 DEF Result, Success
  <2>2. Becomes(r, s)
    BY <1>4 DEF ToPush
  <2>3. /\ f \in File /\ f[run[r].day] = [status |-> status, email |-> email]
        /\ \A d \in Day : d # run[r].day => f[d] = local[d]
    BY Known, UpsertChangesOneDay
  <2>4. WasDelivered(f[run[r].day]) <=> ~run[r].dry
    BY <2>3, <1>2, Written
  <2> HIDE DEF e, f
  <2>5. s \in RunState /\ s.pc = "push" /\ s.day = run[r].day /\ s.result = e
    BY <2>1, Known, GoneToPush DEF MovedOn
  <2> HIDE DEF s
  <2>6. s.pc \in Busy /\ s.pc \notin {"record", "send"} \cup Working
    BY <2>5 DEF Busy, Working
  <2>7. \A d \in Day : WasDelivered(f[d]) => inbox[d] > 0
    BY <1>3, <2>3, <2>4, Known
  <2>8. \A d \in Day : Recording(r, d) => WasDelivered(f[d])
    BY <2>4 DEF Recording
  <2>9. QED
    BY <1>1, <1>3, <1>4, <2>1, <2>2, <2>3, <2>5, <2>6, <2>7, <2>8, QuietStepKeepsInv
<1>5. ASSUME Store(local, IF run[r].dry THEN {} ELSE {run[r].day}),
             ToPush(r, "CSV_WRITE_FAILED")
      PROVE  RunInv'
  <2> DEFINE s == [run[r] EXCEPT !.pc = "push", !.result = "CSV_WRITE_FAILED"]
             D == IF run[r].dry THEN {} ELSE {run[r].day}
  <2>1. /\ s \in RunState /\ s.pc = "push" /\ s.day = run[r].day
        /\ s.result = "CSV_WRITE_FAILED"
    BY Known, GoneToPush DEF MovedOn, Result
  <2>2. Becomes(r, s)
    BY <1>5 DEF ToPush
  <2> HIDE DEF s
  <2>3. s.pc \in Busy /\ s.pc \notin {"record", "send"} \cup Working /\ s.result \notin Success
    BY <2>1 DEF Busy, Working, Success
  <2>4. D \in SUBSET Day /\ Store(local, D)
    BY <1>5, Known
  <2>5. \A d \in Day \ (excused \cup D) : ~Recording(r, d)
    BY DEF Recording
  <2> HIDE DEF D
  <2>6. local \in File /\ \A d \in Day : WasDelivered(local[d]) => inbox[d] > 0
    BY Known
  <2>7. QED
    BY <1>1, <2>1, <2>2, <2>3, <2>4, <2>5, <2>6, QuietStepKeepsInv
<1>6. QED
  BY <1>4, <1>5 DEF RecordOutcome

LEMMA PushKeepsInv ==
  ASSUME RunInv, NEW r \in Run, Push(r)
  PROVE  RunInv'
<1> DEFINE s == [run[r] EXCEPT !.pc = "pushed"]
<1>1. run[r].pc = "push" /\ Active(r) /\ UNCHANGED <<today, holder, inbox, inflight>>
  BY DEF Push, Active, Busy
<1>2. remote' \in {remote, local} /\ Becomes(r, s) /\ Store(local, {})
  BY StoreNothing DEF Push, Goto
<1>3. s \in RunState /\ s.pc = "pushed" /\ s.day = run[r].day /\ s.result = run[r].result
  BY Known, GoneTo DEF MovedOn, Busy
<1> HIDE DEF s
<1>4. s.pc \in Busy /\ s.pc \notin {"record", "send"} \cup Working
  BY <1>3 DEF Busy, Working
<1>5. \A d \in Day : ~Recording(r, d)
  BY <1>1 DEF Recording
<1>6. s.result \in Success => inbox[s.day] > 0
  BY <1>3, Known
<1>7. local \in File /\ \A d \in Day : WasDelivered(local[d]) => inbox[d] > 0
  BY Known
<1>8. QED
  BY <1>1, <1>2, <1>3, <1>4, <1>5, <1>6, <1>7, QuietStepKeepsInv

-----------------------------------------------------------------------------
\* What the request finds when it arrives: nobody else is active if there is no lock.
LEMMA RequestKeepsInv ==
  ASSUME RunInv, NEW r \in Run, Request(r)
  PROVE  RunInv'
<1>1. /\ TypeOK /\ today \in Day /\ run[r].pc = "idle" /\ ~Active(r)
      /\ UNCHANGED <<today, local, remote, inbox, inflight, excused>>
  BY Known, Types DEF Request, Active, Busy
<1>2. /\ inbox \in [Day -> Nat] /\ \A d \in Day : ~Recording(r, d)
      /\ \A q \in Run : Active(q) => holder = q
  BY <1>1, Types DEF Recording, RunInv, HolderInside
<1>3. ASSUME NEW s \in RunState, Becomes(r, s), s.pc \in {"pull", "done"}, s.result \notin Success,
             s.pc = "pull" => holder = Nobody /\ holder' = r,
             s.pc = "done" => holder' = holder
      PROVE  RunInv'
  <2>1. TypeOK'
    <3>1. run' \in [Run -> RunState] /\ holder' \in Run \cup {Nobody}
      BY <1>1, <1>3, BecomesOnly, Types
    <3>2. QED
      BY <1>1, <3>1, Types DEF TypeOK
  <2>2. \A d \in Day \ excused' : AccountedFor(d)'
    BY <1>1, <1>2, <1>3, AccountedKept
  <2>3. \A q \in Run : Active(q) => holder' = q
    BY <1>2, <1>3
  <2>4. s.pc \notin {"idle", "record", "send"} \cup Working /\ (s.pc \in Busy => s.pc = "pull")
    BY <1>3 DEF Working, Busy
  <2>5. \A d \in Day : WasDelivered(local'[d]) \/ WasDelivered(remote'[d]) => inbox'[d] > 0
    BY <1>1, Known
  <2>6. \A d \in Day : inbox'[d] >= inbox[d]
    BY <1>1, <1>2
  <2>7. QED
    BY <1>1, <1>3, <2>1, <2>2, <2>3, <2>4, <2>5, <2>6, StepKeepsInv
<1>4. CASE /\ holder = Nobody /\ holder' = r
           /\ \E m \in Modes : Becomes(r, At("pull", today, m, "none"))
  <2>1. PICK m \in Modes : Becomes(r, At("pull", today, m, "none"))
    BY <1>4
  <2>2. m.force \in BOOLEAN /\ m.dry \in BOOLEAN /\ "none" \in Result \ Success /\ "pull" \in Busy
    BY DEF Result, Success, Busy
  <2> DEFINE s == At("pull", today, m, "none")
  <2>3. s \in RunState /\ s.pc = "pull" /\ s.result = "none"
    BY <1>1, <2>2, FreshState
  <2> HIDE DEF s
  <2>4. QED
    BY <1>3, <1>4, <2>1, <2>2, <2>3 DEF s
<1>5. CASE /\ Becomes(r, At("done", today, NoFlags, "RUN_ALREADY_IN_PROGRESS"))
           /\ UNCHANGED holder
  <2> DEFINE s == At("done", today, NoFlags, "RUN_ALREADY_IN_PROGRESS")
  <2>1. "RUN_ALREADY_IN_PROGRESS" \in Result \ Success
    BY DEF Result, Success
  <2>2. s \in RunState /\ s.pc = "done" /\ s.result = "RUN_ALREADY_IN_PROGRESS"
    BY <1>1, <2>1, FreshState, NoFlagsBoolean
  <2>3. Becomes(r, s)
    BY <1>5
  <2> HIDE DEF s
  <2>4. QED
    BY <1>3, <1>5, <2>1, <2>2, <2>3
<1>6. QED
  BY <1>4, <1>5 DEF Request

\* An active request is answered, with the lock released.
LEMMA FinishKeepsInv ==
  ASSUME RunInv, NEW r \in Run, NEW e \in Result, Finish(r, e), Active(r),
         e \in Success => inbox[run[r].day] > 0,
         run[r].pc # "record",
         UNCHANGED <<today, local, remote, inbox, inflight, excused>>
  PROVE  RunInv'
<1> DEFINE s == At("done", run[r].day, NoFlags, e)
<1>1. s \in RunState /\ s.pc = "done" /\ s.day = run[r].day /\ s.result = e
  BY Known, FreshState, NoFlagsBoolean
<1>2. Becomes(r, s) /\ holder' = Nobody
  BY DEF Finish
<1> HIDE DEF s
<1>3. TypeOK /\ inbox \in [Day -> Nat] /\ \A d \in Day : ~Recording(r, d)
  BY Known, Types DEF Recording
<1>4. TypeOK'
  <2>1. run' \in [Run -> RunState]
    BY <1>1, <1>2, <1>3, BecomesOnly
  <2>2. QED
    BY <1>2, <1>3, <2>1, Types DEF TypeOK
<1>5. \A d \in Day \ excused' : AccountedFor(d)'
  BY <1>1, <1>2, <1>3, AccountedKept
<1>6. s.pc \notin {"idle", "record", "send"} \cup Working \cup Busy
  BY <1>1 DEF Working, Busy
<1>7. \A d \in Day : WasDelivered(local'[d]) \/ WasDelivered(remote'[d]) => inbox'[d] > 0
  BY Known
<1>8. \A d \in Day : inbox'[d] >= inbox[d]
  BY <1>3
<1>9. QED
  BY <1>1, <1>2, <1>3, <1>4, <1>5, <1>6, <1>7, <1>8, StepKeepsInv

LEMMA AlreadyCompletedKeepsInv ==
  ASSUME RunInv, NEW r \in Run, AlreadyCompleted(r)
  PROVE  RunInv'
<1>1. inbox[run[r].day] > 0
  BY Known DEF AlreadyCompleted
<1>2. "already_completed" \in Result /\ Active(r) /\ run[r].pc # "record"
  BY DEF AlreadyCompleted, Result, Active, Busy
<1>3. QED
  BY <1>1, <1>2, FinishKeepsInv DEF AlreadyCompleted

LEMMA ReturnKeepsInv ==
  ASSUME RunInv, NEW r \in Run, Return(r)
  PROVE  RunInv'
<1>1. run[r].result \in Result
  BY Known, RunStateFields
<1>2. Active(r) /\ run[r].pc # "record"
  BY DEF Return, Active, Busy
<1>3. QED
  BY <1>1, <1>2, Known, FinishKeepsInv DEF Return

\* The email of an undelivered day, taken while no other run records one, is its first
\* unless the day is excused.
LEMMA SendAcceptedKeepsInv ==
  ASSUME RunInv, NEW r \in Run, SendAccepted(r)
  PROVE  RunInv'
<1> DEFINE s == [run[r] EXCEPT !.pc = "record", !.tries = 0]
<1>1. /\ TypeOK /\ run[r].pc = "send" /\ Active(r) /\ run[r].pc \in Working
      /\ UNCHANGED <<today, holder, local, remote, inflight, excused>>
  BY Known DEF SendAccepted, Active, Busy, Working
<1>2. /\ s \in RunState /\ s.pc = "record" /\ s.day = run[r].day /\ ~s.dry
      /\ s.result = run[r].result
  BY <1>1, Known, Accepted DEF MovedOn
<1>3. Becomes(r, s)
  BY DEF SendAccepted
<1> HIDE DEF s
<1>4. /\ inbox \in [Day -> Nat] /\ run[r].day \in Day
      /\ inbox' \in [Day -> Nat] /\ inbox'[run[r].day] = inbox[run[r].day] + 1
      /\ \A d \in Day : d # run[r].day => inbox'[d] = inbox[d]
  BY <1>1, Types DEF SendAccepted
<1>5. /\ run'[r] = s /\ \A q \in Run : q # r => run'[q] = run[q]
      /\ run' \in [Run -> RunState]
  BY <1>1, <1>2, <1>3, BecomesOnly
<1>6. TypeOK'
  BY <1>1, <1>4, <1>5, Types DEF TypeOK
<1>7. ~WasDelivered(local[run[r].day])
  BY <1>1, Known
<1>8. holder = r /\ \A q \in Run : Active(q) => q = r
  BY <1>1 DEF RunInv, HolderInside
<1>9. \A q \in Run, d \in Day : ~Recording(q, d)
  <2> SUFFICES ASSUME NEW q \in Run, NEW d \in Day, Recording(q, d) PROVE FALSE
    OBVIOUS
  <2>1. Active(q) /\ q # r
    BY <1>1 DEF Recording, Active, Busy
  <2>2. QED
    BY <1>8, <2>1
<1>10. \A d \in Day \ excused' : AccountedFor(d)'
  <2> SUFFICES ASSUME NEW d \in Day \ excused PROVE AccountedFor(d)'
    BY <1>1
  <2>1. inbox[d] = 0 \/ (inbox[d] = 1 /\ WasDelivered(local[d]))
    BY <1>9 DEF RunInv, AccountedFor, Recording
  <2>2. CASE d = run[r].day
    <3>1. inbox'[d] = 1
      BY <1>4, <1>7, <2>1, <2>2
    <3>2. run'[r].pc = "record" /\ ~run'[r].dry /\ run'[r].day = d
      BY <1>2, <1>5, <2>2
    <3>3. QED
      BY <3>1, <3>2 DEF AccountedFor
  <2>3. CASE d # run[r].day
    BY <1>1, <1>4, <2>1, <2>3 DEF AccountedFor
  <2>4. QED
    BY <2>2, <2>3
<1>11. \A d \in Day : inbox'[d] >= inbox[d]
  <2> TAKE d \in Day
  <2>1. inbox[d] \in Nat /\ (inbox'[d] = inbox[d] \/ inbox'[d] = inbox[d] + 1)
    BY <1>4
  <2>2. QED
    BY <2>1
<1>12. \A d \in Day : WasDelivered(local'[d]) \/ WasDelivered(remote'[d]) => inbox'[d] > 0
  <2> TAKE d \in Day
  <2>1. WasDelivered(local[d]) \/ WasDelivered(remote[d]) => inbox[d] > 0
    BY Known
  <2>2. QED
    BY <1>1, <1>4, <1>11, <2>1
<1>13. inbox'[s.day] > 0
  BY <1>2, <1>4
<1>14. s.pc \notin {"idle", "send"} /\ ~WasDelivered(local'[s.day])
  BY <1>1, <1>2, <1>7
<1>15. QED
  BY <1>1, <1>2, <1>3, <1>6, <1>8, <1>10, <1>11, <1>12, <1>13, <1>14, StepKeepsInv

\* A message whose answer is lost counts for a day that is excused from now on.
LEMMA SendUnacknowledgedKeepsInv ==
  ASSUME RunInv, NEW r \in Run, SendUnacknowledged(r)
  PROVE  RunInv'
<1>1. /\ TypeOK /\ run[r] \in RunState /\ run[r].pc = "send" /\ run[r].day \in Day
      /\ Active(r) /\ ~run[r].dry /\ run[r].tries \in 0 .. MaxTries /\ run[r].tries < MaxTries
      /\ UNCHANGED <<today, holder, remote, inflight>>
  BY Known, RunStateFields DEF SendUnacknowledged, Active, Busy
<1>2. /\ local' = local /\ excused \subseteq excused' /\ excused' \subseteq Day
      /\ run[r].day \in excused'
  <2>1. Store(local, {run[r].day}) /\ {run[r].day} \in SUBSET Day /\ local \in File
    BY <1>1, Known DEF SendUnacknowledged
  <2>2. QED
    BY <1>1, <2>1, StoreExcuses
<1>3. /\ inbox \in [Day -> Nat] /\ inbox' \in [Day -> Nat]
      /\ \A d \in Day : inbox'[d] \in {inbox[d], inbox[d] + 1}
      /\ \A d \in Day : d # run[r].day => inbox'[d] = inbox[d]
  BY <1>1, Types DEF SendUnacknowledged
<1>4. PICK s \in RunState : /\ Becomes(r, s) /\ s.day = run[r].day /\ ~s.dry
                           /\ \/ s.pc = "send" /\ s.result = run[r].result
                              \/ s.pc = "push" /\ s.result = "INTERNAL_ERROR"
  <2>1. CASE Becomes(r, [run[r] EXCEPT !.tries = @ + 1])
    <3> DEFINE s == [run[r] EXCEPT !.tries = run[r].tries + 1]
    <3>1. run[r].tries + 1 \in 0 .. MaxTries
      BY <1>1
    <3>2. s \in RunState /\ s.day = run[r].day /\ s.dry = run[r].dry
          /\ s.pc = "send" /\ s.result = run[r].result
      BY <1>1, <3>1, Tried DEF MovedOn
    <3>3. Becomes(r, s)
      BY <2>1
    <3> HIDE DEF s
    <3>4. QED
      BY <1>1, <3>2, <3>3
  <2>2. CASE ToPush(r, "INTERNAL_ERROR")
    <3> DEFINE s == [run[r] EXCEPT !.pc = "push", !.result = "INTERNAL_ERROR"]
    <3>1. s \in RunState /\ s.day = run[r].day /\ s.dry = run[r].dry
          /\ s.pc = "push" /\ s.result = "INTERNAL_ERROR"
      BY <1>1, GoneToPush DEF MovedOn, Result
    <3>2. Becomes(r, s)
      BY <2>2 DEF ToPush
    <3> HIDE DEF s
    <3>3. QED
      BY <1>1, <3>1, <3>2
  <2>3. QED
    BY <2>1, <2>2 DEF SendUnacknowledged
<1>5. TypeOK'
  <2>1. run' \in [Run -> RunState]
    BY <1>1, <1>4, BecomesOnly
  <2>2. QED
    BY <1>1, <1>2, <1>3, <2>1, Types DEF TypeOK
<1>6. \A d \in Day \ excused' : AccountedFor(d)'
  <2>1. \A d \in Day : ~Recording(r, d)
    BY <1>1 DEF Recording
  <2>2. QED
    BY <1>2, <1>3, <1>4, <2>1, AccountedKept
<1>7. \A d \in Day : inbox'[d] >= inbox[d] /\ (inbox[d] > 0 => inbox'[d] > 0)
  <2> TAKE d \in Day
  <2>1. inbox[d] \in Nat /\ inbox'[d] \in {inbox[d], inbox[d] + 1}
    BY <1>3
  <2>2. QED
    BY <2>1
<1>8. \A d \in Day : WasDelivered(local'[d]) \/ WasDelivered(remote'[d]) => inbox'[d] > 0
  BY <1>1, <1>2, <1>7, Known
<1>9. s.result \in Success => inbox'[s.day] > 0
  BY <1>1, <1>4, <1>7, Known DEF Success
<1>10. /\ ~WasDelivered(local'[s.day]) \/ s.pc = "push"
       /\ holder' = r /\ "push" \notin Working /\ s.pc \notin {"idle", "record"}
  BY <1>1, <1>2, <1>4, Known DEF RunInv, HolderInside, Working
<1>11. QED
  BY <1>1, <1>2, <1>4, <1>5, <1>6, <1>7, <1>8, <1>9, <1>10, StepKeepsInv

\* What is given up is excused: messages in flight and acceptances without a record.
LEMMA GiveUpExcuses ==
  ASSUME RunInv, NEW R \in SUBSET Run, NEW f \in File, GiveUp(R, f)
  PROVE  /\ local' = f /\ excused \subseteq excused' /\ excused' \subseteq Day
         /\ inflight' \subseteq Run
         /\ \A d \in Day \ excused' : WasDelivered(local[d]) => WasDelivered(local'[d])
         /\ \A q \in R, d \in Day \ excused' : ~Recording(q, d)
         /\ \A q \in inflight' : q \in inflight \/ (q \in R /\ run[q].pc = "send" /\ run[q].day \in excused')
<1> DEFINE sending == {q \in R : run[q].pc = "send" /\ run[q].tries < MaxTries}
           accepted == {q \in R : run[q].pc = "record" /\ ~run[q].dry}
           D == {run[q].day : q \in sending \cup accepted}
<1>1. TypeOK /\ inflight \subseteq Run /\ D \in SUBSET Day
  BY Types DEF RunInv
<1>2. Store(f, D) /\ inflight' = inflight \cup sending
  BY DEF GiveUp
<1>3. /\ local' = f /\ excused \subseteq excused' /\ D \subseteq excused' /\ excused' \subseteq Day
      /\ \A d \in Day \ excused' : WasDelivered(local[d]) => WasDelivered(local'[d])
  <2> HIDE DEF D
  <2>1. QED
    BY <1>1, <1>2, StoreExcuses
<1>4. \A q \in R, d \in Day \ excused' : ~Recording(q, d)
  BY <1>3 DEF Recording
<1>5. \A q \in inflight' : q \in inflight \/ (q \in R /\ run[q].pc = "send" /\ run[q].day \in excused')
  BY <1>2, <1>3
<1>6. QED
  BY <1>1, <1>2, <1>3, <1>4, <1>5

\* The timeout, out of _work or out of the steps around it.
LEMMA TimeoutKeepsInv ==
  ASSUME RunInv, NEW r \in Run, Timeout(r)
  PROVE  RunInv'
<1>1. /\ TypeOK /\ run[r] \in RunState /\ local \in File
      /\ UNCHANGED <<today, remote, inbox>>
  BY Known DEF Timeout
<1>2. /\ local' = local /\ excused \subseteq excused' /\ excused' \subseteq Day
      /\ inflight' \subseteq Run
      /\ \A d \in Day \ excused' : WasDelivered(local[d]) => WasDelivered(local'[d])
      /\ \A d \in Day \ excused' : ~Recording(r, d)
      /\ \A q \in inflight' : q \in inflight \/ (q = r /\ run[r].day \in excused')
  <2>1. GiveUp({r}, local) /\ {r} \in SUBSET Run
    BY DEF Timeout
  <2>2. QED
    BY <1>1, <2>1, GiveUpExcuses
<1>3. "EXECUTION_TIMEOUT" \in Result \ Success
  BY DEF Result, Success
<1>4. PICK s \in RunState : /\ Becomes(r, s) /\ s.day = run[r].day
                           /\ s.result = "EXECUTION_TIMEOUT" /\ Active(r)
                           /\ \/ s.pc = "done" /\ holder' = Nobody
                              \/ s.pc = "push" /\ holder' = holder
  <2>1. CASE run[r].pc \in {"pull", "pulled", "push", "pushed"} /\ Finish(r, "EXECUTION_TIMEOUT")
    <3> DEFINE s == At("done", run[r].day, NoFlags, "EXECUTION_TIMEOUT")
    <3>1. s \in RunState /\ s.pc = "done" /\ s.day = run[r].day /\ s.result = "EXECUTION_TIMEOUT"
      BY <1>3, Known, FreshState, NoFlagsBoolean
    <3>2. Becomes(r, s) /\ holder' = Nobody
      BY <2>1 DEF Finish
    <3>3. Active(r)
      BY <2>1 DEF Active, Busy
    <3> HIDE DEF s
    <3>4. QED
      BY <3>1, <3>2, <3>3
  <2>2. CASE /\ run[r].pc \in {"collect", "research", "send"}
             /\ Becomes(r, [run[r] EXCEPT !.pc = "push", !.cancelled = TRUE,
                                          !.result = "EXECUTION_TIMEOUT"])
             /\ UNCHANGED holder
    <3> DEFINE s == [run[r] EXCEPT !.pc = "push", !.cancelled = TRUE,
                                   !.result = "EXECUTION_TIMEOUT"]
    <3>1. s \in RunState /\ s.pc = "push" /\ s.day = run[r].day /\ s.result = "EXECUTION_TIMEOUT"
      BY <1>1, Cancelled DEF MovedOn
    <3>2. Active(r) /\ Becomes(r, s)
      BY <2>2 DEF Active, Busy
    <3> HIDE DEF s
    <3>3. QED
      BY <2>2, <3>1, <3>2
  <2>3. QED
    BY <2>1, <2>2 DEF Timeout
<1>5. TypeOK'
  <2>1. run' \in [Run -> RunState]
    BY <1>1, <1>4, BecomesOnly
  <2>2. QED
    BY <1>1, <1>2, <1>4, <2>1, Types DEF TypeOK
<1>6. \A d \in Day \ excused' : AccountedFor(d)'
  BY <1>1, <1>2, <1>4, AccountedKept
<1>7. /\ s.pc \notin {"idle", "record", "send"} \cup Working
      /\ s.pc \in Busy => holder' = r
  BY <1>4 DEF Busy, Working, RunInv, HolderInside
<1>8. \A d \in Day : WasDelivered(local'[d]) \/ WasDelivered(remote'[d]) => inbox'[d] > 0
  BY <1>1, <1>2, Known
<1>9. \A d \in Day : inbox'[d] >= inbox[d]
  BY <1>1, Types
<1>10. QED
  BY <1>2, <1>3, <1>4, <1>5, <1>6, <1>7, <1>8, <1>9, StepKeepsInv

\* A message that was given up may still be delivered: its day has been excused.
LEMMA LateDeliveryKeepsInv ==
  ASSUME RunInv, NEW r \in Run, LateDelivery(r)
  PROVE  RunInv'
<1>1. /\ TypeOK /\ run[r] \in RunState /\ run[r].day \in Day
      /\ r \in inflight /\ inflight' = inflight \ {r}
      /\ UNCHANGED <<today, holder, run, local, remote, excused>>
  BY Known DEF LateDelivery
<1>2. run[r].pc # "idle" /\ run[r].day \in excused
  BY <1>1 DEF RunInv, LateIsExcused
<1>3. /\ inbox \in [Day -> Nat] /\ inbox' \in [Day -> Nat]
      /\ \A d \in Day : inbox'[d] \in {inbox[d], inbox[d] + 1}
      /\ \A d \in Day : d # run[r].day => inbox'[d] = inbox[d]
  BY <1>1, Types DEF LateDelivery
<1>4. Becomes(r, run[r])
  BY <1>1, Types DEF Becomes
<1>5. TypeOK'
  BY <1>1, <1>3, Types DEF TypeOK
<1>6. \A d \in Day \ excused' : AccountedFor(d)'
  BY <1>1, <1>2, <1>3 DEF RunInv, AccountedFor
<1>7. \A d \in Day : inbox'[d] >= inbox[d] /\ (inbox[d] > 0 => inbox'[d] > 0)
  <2> TAKE d \in Day
  <2>1. inbox[d] \in Nat /\ inbox'[d] \in {inbox[d], inbox[d] + 1}
    BY <1>3
  <2>2. QED
    BY <2>1
<1>8. \A d \in Day : WasDelivered(local'[d]) \/ WasDelivered(remote'[d]) => inbox'[d] > 0
  BY <1>1, <1>7, Known
<1>9. /\ run[r].result \in Success => inbox'[run[r].day] > 0
      /\ run[r].pc = "record" /\ ~run[r].dry => inbox'[run[r].day] > 0
      /\ run[r].pc = "send" => ~run[r].dry
      /\ run[r].pc \in Working => ~WasDelivered(local'[run[r].day])
  BY <1>1, <1>7, Known
<1>10. /\ \A q \in Run : Active(q) => holder' = q
       /\ run[r].pc \in Busy => holder' = r
  BY <1>1 DEF RunInv, HolderInside, Active
<1>11. QED
  BY <1>1, <1>2, <1>4, <1>5, <1>6, <1>7, <1>8, <1>9, <1>10, StepKeepsInv

\* A crash and a redeploy leave no request active; only the redeploy touches the files.
LEMMA KilledKeepsInv ==
  ASSUME RunInv, NEW f \in {local, NoFile}, GiveUp(ActiveRuns, f), run' = Killed,
         holder' \in {holder, Nobody}, UNCHANGED <<today, remote, inbox>>
  PROVE  RunInv'
<1>1. TypeOK /\ ActiveRuns \in SUBSET Run /\ f \in File
  BY DEF RunInv, ActiveRuns, TypeOK, File, NoFile
<1>2. /\ local' = f /\ excused \subseteq excused' /\ excused' \subseteq Day
      /\ inflight' \subseteq Run
      /\ \A d \in Day \ excused' : WasDelivered(local[d]) => WasDelivered(local'[d])
      /\ \A q \in ActiveRuns, d \in Day \ excused' : ~Recording(q, d)
      /\ \A q \in inflight' : q \in inflight \/ (q \in ActiveRuns /\ run[q].day \in excused')
  BY <1>1, GiveUpExcuses
<1>3. \A q \in Run : /\ run'[q] \in RunState /\ run'[q].day = run[q].day /\ run'[q].pc \notin Busy
                     /\ run'[q].result \in Success => run'[q] = run[q]
                     /\ run[q].pc # "idle" => run'[q].pc # "idle"
  <2> SUFFICES ASSUME NEW q \in Run
               PROVE  /\ run'[q] \in RunState /\ run'[q].day = run[q].day /\ run'[q].pc \notin Busy
                      /\ run'[q].result \in Success => run'[q] = run[q]
                      /\ run[q].pc # "idle" => run'[q].pc # "idle"
    OBVIOUS
  <2>1. run[q] \in RunState /\ run[q].day \in Day
    BY Known
  <2>2. CASE Active(q)
    <3>1. run'[q] = At("dead", run[q].day, NoFlags, "none")
      BY <2>2 DEF Killed
    <3>2. "none" \in Result \ Success /\ "dead" \notin Busy
      BY DEF Result, Success, Busy
    <3>3. /\ run'[q] \in RunState /\ run'[q].pc = "dead"
          /\ run'[q].day = run[q].day /\ run'[q].result = "none"
      BY <2>1, <3>1, <3>2, FreshState, NoFlagsBoolean
    <3>4. QED
      BY <3>2, <3>3
  <2>3. CASE ~Active(q)
    <3>1. run'[q] = run[q]
      BY <2>3 DEF Killed
    <3>2. QED
      BY <2>1, <2>3, <3>1 DEF Active
  <2>4. QED
    BY <2>2, <2>3
<1>4. TypeOK'
  <2>1. run' \in [Run -> RunState]
    BY <1>3 DEF Killed
  <2>2. QED
    BY <1>1, <1>2, <2>1, Types DEF TypeOK, File
<1>5. \A d \in Day : WasDelivered(f[d]) => WasDelivered(local[d])
  BY NoRecordUndelivered DEF NoFile
<1>6. RecordsAreTruthful'
  BY <1>2, <1>5 DEF RecordsAreTruthful, RunInv
<1>7. SuccessIsTrue'
  BY <1>3 DEF SuccessIsTrue, RunInv, Success
<1>8. HolderInside' /\ AcceptedBeforeRecord' /\ DryRunsSendNothing' /\ UndeliveredWhileWorking'
  BY <1>3 DEF HolderInside, AcceptedBeforeRecord, DryRunsSendNothing, UndeliveredWhileWorking,
              Active, Busy
<1>9. LateIsExcused'
  <2> SUFFICES ASSUME NEW q \in inflight' PROVE run'[q].pc # "idle" /\ run'[q].day \in excused'
    BY DEF LateIsExcused
  <2>1. q \in Run
    BY <1>2
  <2>2. CASE q \in inflight
    BY <1>2, <1>3, <2>1, <2>2 DEF LateIsExcused, RunInv
  <2>3. CASE q \in ActiveRuns /\ run[q].day \in excused'
    BY <1>3, <2>1, <2>3 DEF ActiveRuns, Active, Busy
  <2>4. QED
    BY <1>2, <2>2, <2>3
<1>10. \A d \in Day \ excused' : AccountedFor(d)'
  <2> SUFFICES ASSUME NEW d \in Day \ excused' PROVE AccountedFor(d)'
    OBVIOUS
  <2>1. AccountedFor(d)
    BY <1>2 DEF RunInv
  <2>2. \A q \in Run : ~Recording(q, d)
    BY <1>2 DEF Recording, ActiveRuns, Active, Busy
  <2>3. QED
    BY <1>2, <2>1, <2>2 DEF AccountedFor, Recording
<1>11. QED
  BY <1>4, <1>6, <1>7, <1>8, <1>9, <1>10 DEF RunInv

\* The break of a dead request's lock, a new day, and steps that change nothing.
LEMMA EnvironmentKeepsInv ==
  ASSUME RunInv, LockExpires \/ NextDay \/ UNCHANGED vars
  PROVE  RunInv'
<1>1. /\ UNCHANGED <<run, local, remote, inbox, inflight, excused>>
      /\ holder' = holder \/ (~Active(holder) /\ holder' = Nobody /\ holder # Nobody)
  BY DEF LockExpires, NextDay, vars
<1>2. TypeOK'
  <2>1. TypeOK
    BY DEF RunInv
  <2>2. CASE LockExpires
    BY <2>1, <2>2 DEF LockExpires, TypeOK
  <2>3. CASE NextDay
    BY <2>1, <2>3 DEF NextDay, TypeOK, Day
  <2>4. CASE UNCHANGED vars
    BY <2>1, <2>4 DEF vars, TypeOK
  <2>5. QED
    BY <2>2, <2>3, <2>4
<1>3. HolderInside'
  BY <1>1 DEF RunInv, HolderInside, Active
<1>4. RecordsAreTruthful' /\ SuccessIsTrue' /\ AcceptedBeforeRecord' /\ DryRunsSendNothing'
  BY <1>1 DEF RunInv, RecordsAreTruthful, SuccessIsTrue, AcceptedBeforeRecord, DryRunsSendNothing
<1>5. UndeliveredWhileWorking' /\ LateIsExcused'
  BY <1>1 DEF RunInv, UndeliveredWhileWorking, LateIsExcused
<1>6. \A d \in Day \ excused' : AccountedFor(d)'
  BY <1>1 DEF RunInv, AccountedFor
<1>7. QED
  BY <1>2, <1>3, <1>4, <1>5, <1>6 DEF RunInv

-----------------------------------------------------------------------------
\* The invariant holds before the first request.
LEMMA InitRunInv == Init => RunInv
<1> SUFFICES ASSUME Init PROVE RunInv
  OBVIOUS
<1>1. 1 \in Day /\ "none" \in Result \ Success
  BY DEF Day, Result, Success
<1>2. TypeOK
  <2>1. "none" \in Result /\ 0 \in 0 .. MaxTries
    BY <1>1
  <2>2. At("idle", 1, NoFlags, "none") \in RunState
    BY <1>1, <2>1, NoFlagsBoolean DEF At, RunState
  <2>3. QED
    BY <1>1, <2>2 DEF Init, TypeOK, NoFile
<1>3. \A r \in Run : run[r].pc = "idle" /\ run[r].result = "none"
  BY DEF Init, At
<1>4. \A d \in Day : ~WasDelivered(local[d]) /\ ~WasDelivered(remote[d]) /\ inbox[d] = 0
  BY NoRecordUndelivered DEF Init, NoFile
<1>5. RecordsAreTruthful /\ \A d \in Day \ excused : AccountedFor(d)
  BY <1>4 DEF RecordsAreTruthful, AccountedFor
<1>6. /\ SuccessIsTrue /\ HolderInside /\ AcceptedBeforeRecord /\ DryRunsSendNothing
      /\ UndeliveredWhileWorking
  BY <1>3 DEF SuccessIsTrue, HolderInside, AcceptedBeforeRecord, DryRunsSendNothing,
              UndeliveredWhileWorking, Active, Busy
<1>7. LateIsExcused
  BY DEF Init, LateIsExcused
<1>8. QED
  BY <1>2, <1>5, <1>6, <1>7 DEF RunInv

\* Every step keeps it.
LEMMA NextRunInv == RunInv /\ [Next]_vars => RunInv'
<1> SUFFICES ASSUME RunInv, [Next]_vars PROVE RunInv'
  OBVIOUS
<1>1. ASSUME NEW r \in Run, Request(r) PROVE RunInv'
  BY <1>1, RequestKeepsInv
<1>2. ASSUME NEW r \in Run, Step(r) PROVE RunInv'
  BY <1>2, PullKeepsInv, AlreadyCompletedKeepsInv, BeginKeepsInv, CollectKeepsInv,
     ResearchKeepsInv, SendAcceptedKeepsInv, SendUnacknowledgedKeepsInv, SendRejectedKeepsInv,
     SendFailedKeepsInv, RecordOutcomeKeepsInv, PushKeepsInv, ReturnKeepsInv DEF Step
<1>3. ASSUME NEW r \in Run, Timeout(r) \/ LateDelivery(r) PROVE RunInv'
  BY <1>3, TimeoutKeepsInv, LateDeliveryKeepsInv
<1>4. CASE Crash \/ Redeploy
  <2>1. CASE Crash
    BY <2>1, KilledKeepsInv DEF Crash
  <2>2. CASE Redeploy
    BY <2>2, KilledKeepsInv DEF Redeploy
  <2>3. QED
    BY <1>4, <2>1, <2>2
<1>5. CASE LockExpires \/ NextDay \/ UNCHANGED vars
  BY <1>5, EnvironmentKeepsInv
<1>6. QED
  BY <1>1, <1>2, <1>3, <1>4, <1>5 DEF Next

\* The inductive invariant, of which the three results below are parts or consequences.
THEOREM RunInvariant == Spec => []RunInv
BY InitRunInv, NextRunInv, PTL DEF Spec

\* A record that says "delivered", here or in the repository, stands for an email that the
\* provider has taken, after any crashes, redeploys, pulls and pushes of the history.
THEOREM RecordsAreTruthfulHolds == Spec => []RecordsAreTruthful
<1>1. RunInv => RecordsAreTruthful
  BY DEF RunInv
<1>2. QED
  BY <1>1, RunInvariant, PTL

\* A request that is answered "completed", "partial" or "already_completed" has its email.
THEOREM SuccessIsTrueHolds == Spec => []SuccessIsTrue
<1>1. RunInv => SuccessIsTrue
  BY DEF RunInv
<1>2. QED
  BY <1>1, RunInvariant, PTL

\* A second email on one day takes an acceptance nobody recorded or a delivered record that
\* was replaced, for any number of requests, days and attempts.
THEOREM OnceUnlessExcusedHolds == Spec => []OnceUnlessExcused
<1>1. RunInv => OnceUnlessExcused
  BY DEF RunInv, OnceUnlessExcused, AccountedFor
<1>2. QED
  BY <1>1, RunInvariant, PTL

-----------------------------------------------------------------------------
\* An active request that changes its state stays inside or leaves.
LEMMA ActiveStepIsGuarded ==
  ASSUME TypeOK, NEW r \in Run, Active(r), NEW s, Becomes(r, s)
  PROVE  [Guard!Next]_ActiveRuns
<1>1. run'[r] = s /\ \A q \in Run : q # r => run'[q] = run[q]
  BY DEF Becomes, TypeOK
<1>2. CASE s.pc \in Busy
  <2>1. ActiveRuns' = ActiveRuns
    BY <1>1, <1>2 DEF ActiveRuns, Active
  <2>2. QED
    BY <2>1
<1>3. CASE s.pc \notin Busy
  <2>1. ActiveRuns' = ActiveRuns \ {r} /\ {r} \in SUBSET Run /\ {r} \subseteq ActiveRuns
    BY <1>1, <1>3 DEF ActiveRuns, Active
  <2>2. QED
    BY <2>1 DEF Guard!Next, Guard!Leave
<1>4. QED
  BY <1>2, <1>3

\* Every step that the event loop makes for a request is such a step.
LEMMA StepsAreActive ==
  ASSUME NEW r \in Run, Step(r)
  PROVE  Active(r) /\ \E s : Becomes(r, s)
<1> USE DEF Active, Busy, Goto, ToPush, Finish
<1>1. CASE Pull(r) \/ AlreadyCompleted(r) \/ Begin(r)
  BY <1>1 DEF Pull, AlreadyCompleted, Begin
<1>2. CASE Collect(r) \/ Research(r)
  BY <1>2 DEF Collect, Research
<1>3. CASE SendAccepted(r) \/ SendUnacknowledged(r) \/ SendRejected(r) \/ SendFailed(r)
  BY <1>3 DEF SendAccepted, SendUnacknowledged, SendRejected, SendFailed
<1>4. CASE RecordOutcome(r) \/ Push(r) \/ Return(r)
  BY <1>4 DEF RecordOutcome, Push, Return
<1>5. QED
  BY <1>1, <1>2, <1>3, <1>4 DEF Step

\* Requests exclude each other: their life cycle implements the abstract guard, whatever
\* fails, and with the push of the history inside the guarded region.
THEOREM OneRunAtATimeHolds == Spec => OneRunAtATime
<1>1. Init => Guard!Init
  <2> SUFFICES ASSUME Init PROVE ActiveRuns = {}
    BY DEF Guard!Init
  <2>1. \A r \in Run : run[r].pc = "idle"
    BY DEF Init, At
  <2>2. QED
    BY <2>1 DEF ActiveRuns, Active, Busy
<1>2. RunInv /\ [Next]_vars => [Guard!Next]_ActiveRuns
  <2> SUFFICES ASSUME RunInv, [Next]_vars PROVE [Guard!Next]_ActiveRuns
    OBVIOUS
  <2>1. TypeOK
    BY DEF RunInv
  <2>2. ASSUME NEW r \in Run, Request(r) PROVE [Guard!Next]_ActiveRuns
    <3>1. PICK s : Becomes(r, s) /\ ((s.pc = "pull" /\ holder = Nobody) \/ s.pc = "done")
      <4>1. \A l, m, e : At(l, today, m, e).pc = l
        BY DEF At
      <4>2. CASE holder = Nobody /\ \E m \in Modes : Becomes(r, At("pull", today, m, "none"))
        BY <4>1, <4>2
      <4>3. CASE Becomes(r, At("done", today, NoFlags, "RUN_ALREADY_IN_PROGRESS"))
        BY <4>1, <4>3
      <4>4. QED
        BY <2>2, <4>2, <4>3 DEF Request
    <3>2. /\ run[r].pc = "idle" /\ run'[r] = s
          /\ \A q \in Run : q # r => run'[q] = run[q]
      BY <2>1, <2>2, <3>1 DEF Request, Becomes, TypeOK
    <3>3. CASE s.pc = "pull" /\ holder = Nobody
      <4>1. ActiveRuns = {}
        BY <3>3 DEF ActiveRuns, RunInv, HolderInside
      <4>2. ActiveRuns' = {r}
        BY <3>2, <3>3, <4>1 DEF ActiveRuns, Active, Busy
      <4>3. QED
        BY <4>1, <4>2 DEF Guard!Next, Guard!Enter
    <3>4. CASE s.pc = "done"
      <4>1. ActiveRuns' = ActiveRuns
        BY <3>2, <3>4 DEF ActiveRuns, Active, Busy
      <4>2. QED
        BY <4>1
    <3>5. QED
      BY <3>1, <3>3, <3>4
  <2>3. ASSUME NEW r \in Run, Step(r) PROVE [Guard!Next]_ActiveRuns
    BY <2>1, <2>3, StepsAreActive, ActiveStepIsGuarded
  <2>4. ASSUME NEW r \in Run, Timeout(r) PROVE [Guard!Next]_ActiveRuns
    <3>1. Active(r) /\ \E s : Becomes(r, s)
      BY <2>4 DEF Timeout, Finish, Active, Busy
    <3>2. QED
      BY <2>1, <3>1, ActiveStepIsGuarded
  <2>5. CASE Crash \/ Redeploy
    <3>1. run' = Killed
      BY <2>5 DEF Crash, Redeploy
    <3>2. \A r \in Run : run'[r].pc \notin Busy
      BY <3>1 DEF Killed, Active, At, Busy
    <3>3. ActiveRuns' = {} /\ ActiveRuns \in SUBSET Run
      BY <3>2 DEF ActiveRuns, Active
    <3>4. QED
      BY <3>3 DEF Guard!Next, Guard!Leave
  <2>6. CASE (\E r \in Run : LateDelivery(r)) \/ LockExpires \/ NextDay \/ UNCHANGED vars
    <3>1. run' = run
      BY <2>6 DEF LateDelivery, LockExpires, NextDay, vars
    <3>2. ActiveRuns' = ActiveRuns
      BY <3>1 DEF ActiveRuns, Active
    <3>3. QED
      BY <3>2
  <2>7. QED
    BY <2>2, <2>3, <2>4, <2>5, <2>6 DEF Next
<1>3. QED
  BY <1>1, <1>2, RunInvariant, PTL DEF Spec, OneRunAtATime, Guard!Spec

-----------------------------------------------------------------------------
\* A request works on the day it arrived, which does not lie ahead.
DaysArePast == \A r \in Run : run[r].pc # "idle" => run[r].day <= today

\* A step that the event loop makes for a request keeps its day.
LEMMA StepsKeepDays ==
  ASSUME TypeOK, NEW r \in Run, Step(r) \/ Timeout(r)
  PROVE  /\ run[r].pc # "idle"
         /\ \A q \in Run : run'[q].day = run[q].day /\ (q # r => run'[q] = run[q])
<1>1. run \in [Run -> RunState] /\ run[r] \in RunState
  BY Types
<1>2. Active(r) /\ \E s : Becomes(r, s)
  BY StepsAreActive DEF Timeout, Finish, Active, Busy
<1>3. \A q \in Run : q # r => run'[q] = run[q]
  BY <1>1, <1>2 DEF Becomes
<1>4. run'[r].day = run[r].day
  <2>1. \A l, e : Goto(r, l) \/ ToPush(r, e) \/ Finish(r, e) => run'[r].day = run[r].day
    <3>1. \A l : Goto(r, l) => run'[r].day = run[r].day
      BY <1>1 DEF Goto, Becomes, RunState
    <3>2. \A e : ToPush(r, e) => run'[r].day = run[r].day
      BY <1>1 DEF ToPush, Becomes, RunState
    <3>3. \A e : Finish(r, e) => run'[r].day = run[r].day
      BY <1>1 DEF Finish, Becomes, At
    <3>4. QED
      BY <3>1, <3>2, <3>3
  <2>2. CASE Pull(r) \/ AlreadyCompleted(r) \/ Begin(r) \/ Collect(r)
    BY <2>1, <2>2 DEF Pull, AlreadyCompleted, Begin, Collect
  <2>3. CASE SendFailed(r) \/ RecordOutcome(r) \/ Push(r) \/ Return(r)
    BY <2>1, <2>3 DEF SendFailed, RecordOutcome, Push, Return
  <2>4. CASE Research(r)
    BY <1>1, <2>1, <2>4 DEF Research, Becomes, RunState
  <2>5. CASE SendAccepted(r) \/ SendUnacknowledged(r) \/ SendRejected(r)
    BY <1>1, <2>1, <2>5 DEF SendAccepted, SendUnacknowledged, SendRejected, Becomes, RunState
  <2>6. CASE Timeout(r)
    <3>1. \/ Finish(r, "EXECUTION_TIMEOUT")
          \/ Becomes(r, [run[r] EXCEPT !.pc = "push", !.cancelled = TRUE,
                                       !.result = "EXECUTION_TIMEOUT"])
      BY <2>6 DEF Timeout
    <3>2. QED
      BY <1>1, <2>1, <3>1 DEF Becomes, RunState
  <2>7. QED
    BY <2>2, <2>3, <2>4, <2>5, <2>6 DEF Step
<1>5. QED
  BY <1>2, <1>3, <1>4 DEF Active, Busy

\* No request runs ahead of the calendar, in any step.
LEMMA DaysStayPast ==
  ASSUME TypeOK, DaysArePast, [Next]_vars
  PROVE  DaysArePast'
<1>1. today \in Day /\ run \in [Run -> RunState] /\ \A r \in Run : run[r].day \in Day
  BY Types
<1>2. today' = today \/ (today' = today + 1 /\ run' = run)
  BY DEF Next, vars, Request, Step, Pull, AlreadyCompleted, Begin, Collect, Research,
         SendAccepted, SendUnacknowledged, SendRejected, SendFailed, RecordOutcome, Push,
         Return, Timeout, LateDelivery, Crash, Redeploy, LockExpires, NextDay
<1>3. ASSUME NEW r \in Run, Request(r) PROVE DaysArePast'
  <2>1. \A q \in Run : run'[q] = run[q] \/ run'[q].day = today
    <3>1. \A l, m, e : At(l, today, m, e).day = today
      BY DEF At
    <3>2. QED
      BY <1>1, <1>3, <3>1 DEF Request, Becomes
  <2>2. today' = today
    BY <1>3 DEF Request
  <2>3. QED
    BY <1>1, <2>1, <2>2 DEF DaysArePast, Day
<1>4. ASSUME NEW r \in Run, Step(r) \/ Timeout(r) PROVE DaysArePast'
  <2>1. \A q \in Run : run[q].pc = "idle" => run'[q].pc = "idle"
    BY <1>4, StepsKeepDays
  <2>2. QED
    BY <1>1, <1>2, <1>4, <2>1, StepsKeepDays DEF DaysArePast, Day
<1>5. CASE Crash \/ Redeploy
  <2>1. run' = Killed /\ today' = today
    BY <1>5 DEF Crash, Redeploy
  <2>2. \A q \in Run : run'[q] = run[q] \/ (Active(q) /\ run'[q].day = run[q].day)
    BY <2>1 DEF Killed, At
  <2>3. \A q \in Run : Active(q) => run[q].pc # "idle"
    BY DEF Active, Busy
  <2>4. QED
    BY <2>1, <2>2, <2>3 DEF DaysArePast
<1>6. CASE (\E r \in Run : LateDelivery(r)) \/ LockExpires \/ NextDay \/ UNCHANGED vars
  <2>1. run' = run
    BY <1>6 DEF LateDelivery, LockExpires, NextDay, vars
  <2>2. QED
    BY <1>1, <1>2, <2>1 DEF DaysArePast, Day
<1>7. QED
  BY <1>3, <1>4, <1>5, <1>6 DEF Next

\* What the steps make of briefings.csv.
LEMMA StepsStore ==
  ASSUME RunInv, DaysArePast, [Next]_vars, NEW d \in Day,
         WasDelivered(local[d]), ~WasDelivered(local'[d])
  PROVE  \/ \E r \in Run : run[r].pc = "pulled" /\ run[r].force /\ run[r].day = d
         \/ local' \in {remote, NoFile}
         \/ d + RetentionDays < today
<1>1. /\ TypeOK /\ today \in Day /\ local \in File
      /\ \A r \in Run : run[r] \in RunState /\ run[r].day \in Day
  BY Types DEF RunInv
<1>2. local' # local
  OBVIOUS
<1>3. ASSUME NEW r \in Run, Pull(r) PROVE local' = remote
  BY <1>2, <1>3 DEF Pull, Store
<1>4. ASSUME NEW r \in Run, Begin(r)
      PROVE  (run[r].pc = "pulled" /\ run[r].force /\ run[r].day = d) \/ d + RetentionDays < today
  <2> DEFINE started == Upsert(r, "STARTED", "PENDING")
  <2>1. CASE run[r].day = d
    BY <1>4, <2>1 DEF Begin
  <2>2. CASE run[r].day # d
    <3>1. started \in File /\ started[d] = local[d]
      BY <1>1, <2>2, UpsertChangesOneDay
    <3>2. local' \in {local, started, CleanUp(started, run[r].day)}
      BY <1>4 DEF Begin, Store
    <3> HIDE DEF started
    <3>3. local' = CleanUp(started, run[r].day)
      BY <1>2, <3>1, <3>2
    <3>4. ~(d + RetentionDays >= run[r].day)
      BY <3>1, <3>3 DEF CleanUp
    <3>5. run[r].day <= today
      BY <1>4 DEF Begin, DaysArePast
    <3>6. QED
      BY <1>1, <3>4, <3>5 DEF Day
  <2>3. QED
    BY <2>1, <2>2
<1>5. ASSUME NEW r \in Run, SendFailed(r) \/ RecordOutcome(r) PROVE FALSE
  <2>1. run[r].pc \in Working
    BY <1>5 DEF SendFailed, RecordOutcome, Working
  <2>2. run[r].day # d
    BY <2>1, Known
  <2>3. PICK s \in {"COMPLETED", "PARTIAL", "FAILED"}, e \in {"SENT", "SKIPPED", "FAILED"} :
          local' = Upsert(r, s, e)
    BY <1>2, <1>5 DEF SendFailed, RecordOutcome, Store
  <2>4. local'[d] = local[d]
    BY <1>1, <2>2, <2>3, UpsertChangesOneDay
  <2>5. QED
    BY <2>4
<1>6. ASSUME NEW r \in Run, Step(r), ~Pull(r), ~Begin(r), ~SendFailed(r), ~RecordOutcome(r)
      PROVE  local' = local
  BY <1>6 DEF Step, AlreadyCompleted, Collect, Research, SendAccepted, SendUnacknowledged,
              SendRejected, Push, Return, Store
<1>7. ASSUME NEW r \in Run, Request(r) \/ Timeout(r) \/ LateDelivery(r) PROVE local' = local
  BY <1>7 DEF Request, Timeout, LateDelivery, GiveUp, Store
<1>8. CASE Redeploy
  BY <1>8 DEF Redeploy, GiveUp, Store
<1>9. CASE Crash \/ LockExpires \/ NextDay \/ UNCHANGED vars
  BY <1>2, <1>9 DEF Crash, LockExpires, NextDay, vars, GiveUp, Store
<1>10. QED
  BY <1>2, <1>3, <1>4, <1>5, <1>6, <1>7, <1>8, <1>9 DEF Next

\* A delivered record of a day outlives whatever requests, failures and crashes do, but for
\* a forced run of that day, the pull, a redeploy and the retention.
THEOREM DeliveredRecordSurvivesHolds == Spec => DeliveredRecordSurvives
<1>1. Init => DaysArePast
  BY DEF Init, At, DaysArePast
<1>2. RunInv /\ DaysArePast /\ [Next]_vars => DaysArePast'
  BY DaysStayPast DEF RunInv
<1>3. RunInv /\ DaysArePast /\ [Next]_vars =>
        [\A d \in Day : WasDelivered(local[d]) /\ ~WasDelivered(local'[d])
           => \/ \E r \in Run : run[r].pc = "pulled" /\ run[r].force /\ run[r].day = d
              \/ local' \in {remote, NoFile}
              \/ d + RetentionDays < today]_vars
  BY StepsStore
<1>4. QED
  BY <1>1, <1>2, <1>3, RunInvariant, PTL DEF Spec, DeliveredRecordSurvives
=============================================================================
