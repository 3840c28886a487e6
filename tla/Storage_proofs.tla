---------------------------- MODULE Storage_proofs ----------------------------
(***************************************************************************)
(* Proofs about the file of a dataset, for any retention, any number of    *)
(* days and whatever a pull may bring.  The temporary file is what is      *)
(* being written from the moment its rows are in it, and on the disk       *)
(* before it is renamed; the file that it replaces is the one that was     *)
(* read for it.                                                            *)
(***************************************************************************)
EXTENDS Storage, TLAPS

\* What may be written, and what may be left of it, are contents.
LEMMA Contents ==
  /\ Absent \in Content /\ Empty \in Content /\ Damaged \in Content
  /\ \A R \in SUBSET Row : Whole(R) \in Content
  /\ \A c \in Content : Torn(c) \subseteq Content /\ c \in Torn(c)
<1>1. TornRow \in Row
  BY DaysAssumption DEF TornRow, Row, Form, NoDay
<1>2. /\ Absent \in Content /\ Empty \in Content /\ Damaged \in Content
      /\ \A R \in SUBSET Row : Whole(R) \in Content
  BY DEF Content, Absent, Empty, Damaged, Whole
<1>3. ASSUME NEW c \in Content PROVE Torn(c) \subseteq Content /\ c \in Torn(c)
  <2>1. \A R \in SUBSET (c.rows \cup {TornRow}) : R \subseteq Row
    BY <1>1 DEF Content
  <2>2. QED
    BY <1>2, <2>1 DEF Torn
<1>4. QED
  BY <1>2, <1>3

\* So are the rows of a file, those that are kept and those that are written back.
LEMMA RowsOfFile ==
  ASSUME file \in Content, day \in 0 .. MaxDays
  PROVE  /\ Raw \subseteq Row /\ Kept(Raw) \subseteq Row /\ Records \subseteq Row
         /\ Today \in Row
         /\ \A r \in Raw : r.form = "valid" => r \in Records
<1>1. Raw \subseteq Row
  BY DEF Raw, Content
<1>2. Kept(Raw) \subseteq Row
  BY <1>1 DEF Kept
<1>3. \A r \in Row : [r EXCEPT !.form = "valid"] \in Row
  BY DEF Row, Form
<1>4. Records \subseteq Row
  BY <1>1, <1>3 DEF Records
<1>5. Today \in Row
  BY DaysAssumption DEF Today, Row, Form, NoDay
<1>6. \A r \in Row : r.form = "valid" => [r EXCEPT !.form = "valid"] = r
  BY DEF Row
<1>7. \A r \in Raw : r.form = "valid" => r \in Records
  BY <1>1, <1>6 DEF Records
<1>8. QED
  BY <1>1, <1>2, <1>4, <1>5, <1>7

\* A plan begins with its only pull, and overwrites only what it has just cleaned up.
LEMMA PlanShape ==
  ASSUME dataset \in Dataset
  PROVE  /\ Len(Plan) \in Nat \ {0} /\ Plan[1] = "pull"
         /\ \A i \in 1 .. Len(Plan) : Plan[i] = "pull" => i = 1
         /\ \A i \in 1 .. Len(Plan) : Plan[i] = "overwrite" =>
              dataset = "articles" /\ i = 3 /\ Plan[2] = "cleanup"
         /\ \A i \in 1 .. Len(Plan) :
              Plan[i] \in {"pull", "read", "upsert", "cleanup", "append", "merge", "overwrite"}
<1>1. CASE dataset = "briefings"
  BY <1>1 DEF Plan
<1>2. CASE dataset = "trend_scores"
  BY <1>2 DEF Plan
<1>3. CASE dataset = "topics"
  BY <1>3 DEF Plan
<1>4. CASE dataset = "articles"
  BY <1>4 DEF Plan
<1>5. CASE dataset = "sources"
  BY <1>5 DEF Plan
<1>6. QED
  BY <1>1, <1>2, <1>3, <1>4, <1>5 DEF Dataset

\* The end of an operation, and of a run.
LEMMA DoneGoesOn ==
  ASSUME TypeOK, Done, UNCHANGED dataset
  PROVE  /\ at' \in 1 .. Len(Plan)' /\ held' = Absent
         /\ \/ pc' = "idle" /\ at' = 1
            \/ pc' = "step" /\ at' = at + 1 /\ at < Len(Plan)
         /\ Plan' = Plan
<1>1. Plan' = Plan
  BY DEF Plan
<1>2. Len(Plan) \in Nat \ {0} /\ at \in 1 .. Len(Plan)
  BY PlanShape DEF TypeOK
<1>3. QED
  BY <1>1, <1>2 DEF Done, EndRun

\* Between two operations, and between two runs, there is little to be kept.
LEMMA Rests ==
  ASSUME TypeOK', pc' \in {"idle", "step"}, pc' = "idle" => at' = 1, file' \in disk',
         file'.kind = "damaged" /\ At("overwrite")' => damage' # "unnoticed"
  PROVE  StorageInv'
BY DEF StorageInv, ReadyToReplace, HeldIsCurrent, Noticed, WritingPC

\* The end of a run.
LEMMA EndRests ==
  ASSUME TypeOK, EndRun, UNCHANGED dataset, day' \in 0 .. MaxDays, file' \in Content,
         disk' \subseteq Content, tmp' \in [content : Content, synced : BOOLEAN],
         damage' \in Damage, file' \in disk'
  PROVE  StorageInv'
<1>1. Plan' = Plan /\ Len(Plan) \in Nat \ {0}
  BY PlanShape DEF TypeOK, Plan
<1>2. TypeOK'
  BY <1>1, Contents DEF TypeOK, EndRun
<1>3. ~At("overwrite")'
  BY DEF At, EndRun
<1>4. QED
  BY <1>2, <1>3, Rests DEF EndRun

\* The end of an operation that leaves a file which nobody has to copy before it is
\* overwritten.
LEMMA DoneRests ==
  ASSUME TypeOK, Done, UNCHANGED <<dataset, day>>, file' \in Content,
         disk' \subseteq Content, tmp' \in [content : Content, synced : BOOLEAN],
         damage' \in Damage, file' \in disk',
         Plan[at] # "cleanup" \/ (file'.kind = "damaged" => damage' # "unnoticed")
  PROVE  StorageInv'
<1>1. /\ at' \in 1 .. Len(Plan)' /\ held' = Absent
      /\ \/ pc' = "idle" /\ at' = 1
         \/ pc' = "step" /\ at' = at + 1 /\ at < Len(Plan)
      /\ Plan' = Plan
  BY DoneGoesOn
<1>2. TypeOK'
  BY <1>1, Contents DEF TypeOK
<1>3. ASSUME At("overwrite")' PROVE Plan[at] = "cleanup"
  <2>1. pc' = "step" /\ at' = at + 1 /\ Plan[at'] = "overwrite" /\ at' \in 1 .. Len(Plan)
    BY <1>1, <1>3 DEF At
  <2>2. at' = 3 /\ Plan[2] = "cleanup"
    BY <2>1, PlanShape DEF TypeOK
  <2>3. at = 2
    BY <2>1, <2>2 DEF TypeOK
  <2>4. QED
    BY <2>2, <2>3
<1>4. QED
  BY <1>1, <1>2, <1>3, Rests

\* What is damaged is reported.
LEMMA QuarantineNotices ==
  ASSUME TypeOK, Quarantine
  PROVE  damage' \in Damage /\ (file.kind = "damaged" => damage' # "unnoticed")
BY DEF TypeOK, Quarantine, Damage

-----------------------------------------------------------------------------
LEMMA StorageBegins ==
  ASSUME Init
  PROVE  StorageInv
<1>1. Len(Plan) \in Nat \ {0} /\ Plan[1] = "pull"
  BY PlanShape DEF Init
<1>2. TypeOK
  BY <1>1, Contents, DaysAssumption DEF Init, TypeOK, NoTmp, Damage
<1>3. QED
  BY <1>2 DEF Init, StorageInv, ReadyToReplace, HeldIsCurrent, Noticed, WritingPC, At, Absent

\* The run begins, stops, pulls and reads.
LEMMA PullsAndReadsKeepInv ==
  ASSUME StorageInv, StartRun \/ StopRun \/ PullNothing \/ PullOpens \/ PullFills \/ Read
  PROVE  StorageInv'
<1> USE DEF StorageInv
<1>1. CASE StartRun
  <2>1. Plan' = Plan /\ Plan[1] = "pull" /\ at = 1 /\ Len(Plan) \in Nat \ {0}
    BY <1>1, PlanShape DEF StartRun, TypeOK, Plan
  <2>2. TypeOK'
    BY <1>1, <2>1, DaysAssumption DEF StartRun, TypeOK
  <2>3. ~At("overwrite")'
    BY <1>1, <2>1 DEF StartRun, At
  <2>4. QED
    BY <1>1, <2>2, <2>3, Rests DEF StartRun
<1>2. CASE StopRun
  BY <1>2, EndRests DEF StopRun, TypeOK
<1>3. CASE PullNothing
  BY <1>3, DoneRests DEF PullNothing, TypeOK, At
<1>4. CASE PullOpens
  <2>1. Plan' = Plan
    BY <1>4 DEF PullOpens, Plan
  <2>2. TypeOK'
    BY <1>4, <2>1, Contents, StorageAssumption DEF PullOpens, TypeOK, Damage
  <2>3. QED
    BY <1>4, <2>1, <2>2 DEF PullOpens, At, ReadyToReplace, HeldIsCurrent, Noticed, WritingPC, Empty
<1>5. CASE PullFills
  <2>1. Torn(held) \subseteq Content
    BY Contents DEF TypeOK
  <2>2. QED
    BY <1>5, <2>1, DoneRests DEF PullFills, TypeOK
<1>6. CASE Read
  BY <1>6, QuarantineNotices, DoneRests DEF Read, TypeOK, At
<1>7. QED
  BY <1>1, <1>2, <1>3, <1>4, <1>5, <1>6

\* An operation that has computed what it will write, of a file that it has read.
LEMMA WriteBegins ==
  ASSUME StorageInv, UNCHANGED <<dataset, day, file, disk, tmp, at>>, pc = "step", pc' = "open",
         NEW R \in SUBSET Row, held' = Whole(R), damage' \in Damage,
         \/ Plan[at] = "cleanup" /\ R = Kept(Raw)
         \/ Plan[at] = "overwrite" /\ R = {Today}
         \/ Plan[at] \in {"upsert", "append", "merge"} /\ R \in {Records, Records \cup {Today}},
         file.kind = "damaged" => damage' # "unnoticed"
  PROVE  StorageInv'
<1>1. /\ Plan' = Plan /\ Raw' = Raw /\ Records' = Records /\ Today' = Today
      /\ Kept(Raw)' = Kept(Raw)
  BY DEF Plan, Raw, Records, Today, Kept
<1>2. TypeOK'
  BY <1>1, Contents DEF StorageInv, TypeOK, WritingPC
<1>3. HeldIsCurrent'
  BY <1>1 DEF HeldIsCurrent
<1>4. file' \in disk'
  BY DEF StorageInv
<1>5. QED
  BY <1>2, <1>3, <1>4 DEF StorageInv, ReadyToReplace, Noticed

\* The operations that write compute what they will write.
LEMMA OperationsKeepInv ==
  ASSUME StorageInv, Cleanup \/ Rewrite \/ Overwrite
  PROVE  StorageInv'
<1>1. TypeOK /\ (pc = "step" => file \in disk)
  BY DEF StorageInv
<1>2. Kept(Raw) \subseteq Row /\ Records \subseteq Row /\ Today \in Row
  BY <1>1, RowsOfFile DEF TypeOK
<1>3. CASE Cleanup
  <2>1. damage' \in Damage /\ (file.kind = "damaged" => damage' # "unnoticed")
    BY <1>1, <1>3, QuarantineNotices DEF Cleanup
  <2>2. CASE Done
    BY <1>1, <1>3, <2>1, <2>2, DoneRests DEF Cleanup, TypeOK, At
  <2>3. CASE held' = Whole(Kept(Raw)) /\ pc' = "open" /\ UNCHANGED at
    BY <1>2, <1>3, <2>1, <2>3, WriteBegins DEF Cleanup, At
  <2>4. QED
    BY <1>3, <2>2, <2>3 DEF Cleanup
<1>4. CASE Rewrite
  <2>1. /\ damage' \in Damage /\ (file.kind = "damaged" => damage' # "unnoticed")
        /\ pc = "step" /\ Plan[at] \in {"upsert", "append", "merge"}
        /\ UNCHANGED <<dataset, day, file, disk, tmp>>
    BY <1>1, <1>4, QuarantineNotices DEF Rewrite, At
  <2>2. CASE Done
    BY <1>1, <2>1, <2>2, DoneRests DEF TypeOK
  <2>3. ASSUME NEW new \in SUBSET {Today},
               held' = Whole(Records \cup new) /\ pc' = "open" /\ UNCHANGED at
        PROVE  StorageInv'
    <3>1. new = {} \/ new = {Today}
      OBVIOUS
    <3>2. Records \cup new \in SUBSET Row
      BY <1>2, <3>1
    <3>3. Records \cup new \in {Records, Records \cup {Today}}
      BY <3>1
    <3>4. QED
      BY <2>1, <2>3, <3>2, <3>3, WriteBegins
  <2>4. QED
    BY <1>4, <2>2, <2>3 DEF Rewrite
<1>5. CASE Overwrite
  <2>1. /\ pc = "step" /\ Plan[at] = "overwrite" /\ held' = Whole({Today}) /\ pc' = "open"
        /\ UNCHANGED <<dataset, day, file, disk, tmp, damage, at>>
    BY <1>5 DEF Overwrite, At
  <2>2. file.kind = "damaged" => damage' # "unnoticed"
    BY <2>1 DEF StorageInv, Noticed, At
  <2>3. damage' \in Damage /\ {Today} \in SUBSET Row
    BY <1>1, <1>2, <2>1 DEF TypeOK
  <2>4. QED
    BY <2>1, <2>2, <2>3, WriteBegins
<1>6. QED
  BY <1>3, <1>4, <1>5

\* A system call of an atomic write that leaves the file alone.
LEMMA WriteGoesOn ==
  ASSUME StorageInv, UNCHANGED <<dataset, day, file, disk, held, damage, at>>, pc \in WritingPC,
         pc' \in WritingPC, tmp' \in [content : Content, synced : BOOLEAN], ReadyToReplace'
  PROVE  StorageInv'
<1>1. /\ Plan' = Plan /\ Raw' = Raw /\ Records' = Records /\ Today' = Today
      /\ Kept(Raw)' = Kept(Raw)
  BY DEF Plan, Raw, Records, Today, Kept
<1>2. TypeOK'
  BY <1>1 DEF StorageInv, TypeOK
<1>3. HeldIsCurrent'
  BY <1>1 DEF StorageInv, HeldIsCurrent
<1>4. Noticed'
  BY DEF StorageInv, Noticed
<1>5. file' \in disk' /\ pc' # "fill" /\ pc' # "idle"
  BY DEF StorageInv, WritingPC
<1>6. QED
  BY <1>2, <1>3, <1>4, <1>5 DEF StorageInv

\* The system calls of an atomic write.
LEMMA WritesKeepInv ==
  ASSUME StorageInv, OpenTmp \/ WriteRows \/ Sync \/ Check \/ Replace \/ WriteFails
  PROVE  StorageInv'
<1>1. TypeOK /\ ReadyToReplace /\ (pc # "fill" => file \in disk)
  BY DEF StorageInv
<1>2. CASE OpenTmp
  <2>1. tmp' \in [content : Content, synced : BOOLEAN]
    BY <1>2, Contents DEF OpenTmp
  <2>2. ReadyToReplace'
    BY <1>2 DEF OpenTmp, ReadyToReplace
  <2>3. QED
    BY <1>2, <2>1, <2>2, WriteGoesOn DEF OpenTmp, WritingPC
<1>3. CASE WriteRows
  <2>1. tmp' \in [content : Content, synced : BOOLEAN]
    BY <1>1, <1>3 DEF WriteRows, TypeOK
  <2>2. ReadyToReplace'
    BY <1>3 DEF WriteRows, ReadyToReplace
  <2>3. QED
    BY <1>3, <2>1, <2>2, WriteGoesOn DEF WriteRows, WritingPC
<1>4. CASE Sync
  <2>1. tmp' \in [content : Content, synced : BOOLEAN]
    BY <1>1, <1>4 DEF Sync, TypeOK
  <2>2. tmp'.content = tmp.content /\ tmp'.synced = TRUE
    BY <1>1, <1>4 DEF Sync, TypeOK
  <2>3. ReadyToReplace'
    BY <1>1, <1>4, <2>2 DEF Sync, ReadyToReplace
  <2>4. QED
    BY <1>4, <2>1, <2>3, WriteGoesOn DEF Sync, WritingPC
<1>5. CASE Check
  <2>1. ReadyToReplace'
    BY <1>1, <1>5 DEF Check, ReadyToReplace
  <2>2. QED
    BY <1>1, <1>5, <2>1, WriteGoesOn DEF Check, WritingPC, TypeOK
<1>6. CASE Replace
  <2>1. tmp.content \in Content /\ tmp.content = held
    BY <1>1, <1>6 DEF Replace, ReadyToReplace, TypeOK
  <2>2. Torn(tmp.content) \subseteq Content /\ tmp.content \in Torn(tmp.content)
    BY <2>1, Contents
  <2>3. file' \in Content /\ file' \in disk' /\ disk' \subseteq Content
    BY <1>1, <1>6, <2>1, <2>2 DEF Replace, TypeOK
  <2>4. tmp' \in [content : Content, synced : BOOLEAN]
    BY <1>6, Contents DEF Replace, NoTmp
  <2>5. file'.kind # "damaged"
    <3>1. \E R : held = Whole(R)
      BY <1>6 DEF StorageInv, HeldIsCurrent, Replace, WritingPC
    <3>2. QED
      BY <1>6, <2>1, <3>1 DEF Replace, Whole
  <2>6. QED
    BY <1>1, <1>6, <2>3, <2>4, <2>5, DoneRests DEF Replace, TypeOK, Damage
<1>7. CASE WriteFails
  <2>1. pc # "fill"
    BY <1>7 DEF WriteFails, WritingPC
  <2>2. QED
    BY <1>1, <1>7, <2>1, EndRests, Contents DEF WriteFails, TypeOK, NoTmp
<1>8. QED
  BY <1>2, <1>3, <1>4, <1>5, <1>6, <1>7

\* What happens to the process and to the machine.
LEMMA FaultsKeepInv ==
  ASSUME StorageInv, Crash \/ PowerLoss \/ WriteBack \/ Redeploy
  PROVE  StorageInv'
<1>1. TypeOK /\ (pc # "fill" => file \in disk)
  BY DEF StorageInv
<1>2. CASE Crash
  <2>1. Torn(held) \subseteq Content
    BY <1>1, Contents DEF TypeOK
  <2>2. file' \in Content /\ file' \in disk' /\ disk' \subseteq Content
    BY <1>1, <1>2, <2>1 DEF Crash, TypeOK
  <2>3. QED
    BY <1>1, <1>2, <2>2, EndRests DEF Crash, TypeOK
<1>3. CASE PowerLoss
  <2>1. [tmp EXCEPT !.synced = FALSE] \in [content : Content, synced : BOOLEAN]
    BY <1>1 DEF TypeOK
  <2>2. NoTmp \in [content : Content, synced : BOOLEAN]
    BY Contents DEF NoTmp
  <2>3. damage' \in Damage
    BY <1>1, <1>3 DEF PowerLoss, TypeOK, Damage
  <2>4. QED
    BY <1>1, <1>3, <2>1, <2>2, <2>3, EndRests DEF PowerLoss, TypeOK
<1>4. CASE WriteBack
  <2>1. /\ Plan' = Plan /\ Raw' = Raw /\ Records' = Records /\ Today' = Today
        /\ Kept(Raw)' = Kept(Raw)
    BY <1>4 DEF WriteBack, Plan, Raw, Records, Today, Kept
  <2>2. TypeOK'
    BY <1>1, <1>4, <2>1 DEF WriteBack, TypeOK
  <2>3. HeldIsCurrent'
    BY <1>4, <2>1 DEF WriteBack, StorageInv, HeldIsCurrent
  <2>4. ReadyToReplace' /\ Noticed'
    BY <1>4, <2>1 DEF WriteBack, StorageInv, ReadyToReplace, Noticed, At
  <2>5. QED
    BY <1>4, <2>1, <2>2, <2>3, <2>4 DEF WriteBack, StorageInv
<1>5. CASE Redeploy
  BY <1>1, <1>5, EndRests, Contents DEF Redeploy, TypeOK, NoTmp, Damage
<1>6. QED
  BY <1>2, <1>3, <1>4, <1>5

LEMMA StorageStutters ==
  ASSUME StorageInv, UNCHANGED vars
  PROVE  StorageInv'
<1>1. /\ Plan' = Plan /\ Raw' = Raw /\ Records' = Records /\ Today' = Today
      /\ Kept(Raw)' = Kept(Raw)
  BY DEF vars, Plan, Raw, Records, Today, Kept
<1>2. TypeOK' /\ ReadyToReplace'
  BY <1>1 DEF vars, StorageInv, TypeOK, ReadyToReplace
<1>3. HeldIsCurrent'
  BY <1>1 DEF vars, StorageInv, HeldIsCurrent
<1>4. Noticed'
  BY <1>1 DEF vars, StorageInv, Noticed, At
<1>5. QED
  BY <1>1, <1>2, <1>3, <1>4 DEF vars, StorageInv

\* The invariant of the storage holds for any retention, any number of days and whatever a
\* pull brings: what is renamed over the file is complete, on the disk, and computed from
\* the file that it replaces, whose damage, if nobody could read it, has been reported
\* (atomic.py:43-53, backend.py:72-88).
THEOREM StorageInvariant == Spec => []StorageInv
<1>1. StorageInv /\ [Next]_vars => StorageInv'
  BY PullsAndReadsKeepInv, OperationsKeepInv, WritesKeepInv, FaultsKeepInv, StorageStutters
     DEF Next
<1>2. QED
  BY <1>1, StorageBegins, PTL DEF Spec

-----------------------------------------------------------------------------
\* What may be missing from the file after a step, without anybody having taken the file.
RowMayLeave(r) ==
  \/ r.day \in 0 .. (day - Retention - 1) \/ r.form # "valid" \/ dataset = "articles"
  \/ PullOpens \/ PullFills \/ Crash \/ PowerLoss \/ Redeploy

\* A row that is gone after a rename had expired or could not be validated, or the dataset
\* is overwritten.
LEMMA ReplaceLosesForAReason ==
  ASSUME StorageInv, Replace, NEW r \in Raw \ Raw'
  PROVE  RowMayLeave(r)
<1>1. /\ TypeOK /\ file' = held /\ pc = "replace"
      /\ file \in Content /\ day \in 0 .. MaxDays /\ day \in Int
  BY DaysAssumption DEF StorageInv, TypeOK, Replace, ReadyToReplace
<1>2. r \in Row
  BY <1>1, RowsOfFile
<1>3. CASE Plan[at] = "cleanup" /\ held = Whole(Kept(Raw))
  <2>1. r \in Raw /\ r \notin Kept(Raw)
    BY <1>1, <1>3 DEF Raw, Whole
  <2>2. r.day # NoDay /\ ~(r.day >= day - Retention)
    BY <2>1 DEF Kept
  <2>3. r.day \in NoDay .. MaxDays
    BY <1>2 DEF Row
  <2>4. r.day \in 0 .. (day - Retention - 1)
    BY <1>1, <2>2, <2>3, StorageAssumption, DaysAssumption DEF NoDay
  <2>5. QED
    BY <2>4 DEF RowMayLeave
<1>4. CASE Plan[at] = "overwrite"
  <2>1. dataset = "articles"
    BY <1>1, <1>4, PlanShape DEF TypeOK
  <2>2. QED
    BY <2>1 DEF RowMayLeave
<1>5. CASE held \in {Whole(Records), Whole(Records \cup {Today})}
  <2>1. r \notin Records
    BY <1>1, <1>5 DEF Raw, Whole
  <2>2. r.form # "valid"
    BY <1>1, <2>1, RowsOfFile
  <2>3. QED
    BY <2>2 DEF RowMayLeave
<1>6. QED
  BY <1>1, <1>3, <1>4, <1>5 DEF StorageInv, HeldIsCurrent, WritingPC

\* Only a rename, a pull, and what happens to the process or the machine change the file.
LEMMA WhoChangesTheFile ==
  ASSUME [Next]_vars
  PROVE  \/ file' = file /\ Raw' = Raw
         \/ Replace \/ PullOpens \/ PullFills \/ Crash \/ PowerLoss \/ Redeploy
<1>1. file' = file \/ Replace \/ PullOpens \/ PullFills \/ Crash \/ PowerLoss \/ Redeploy
  BY DEF Next, vars, StartRun, StopRun, PullNothing, Read, Cleanup, Rewrite, Overwrite, OpenTmp,
         WriteRows, Sync, Check, WriteFails, WriteBack
<1>2. QED
  BY <1>1 DEF Raw

\* Whatever the retention and however long the service runs, no row that is valid and has
\* not expired leaves the file, unless a pull, a fault or a redeploy takes the file
\* (repository.py:50-158).
THEOREM RowsStay == Spec => RowsLeaveForAReason
<1>1. StorageInv /\ [Next]_vars => \A r \in Raw \ Raw' : RowMayLeave(r)
  <2> SUFFICES ASSUME StorageInv, [Next]_vars, NEW r \in Raw \ Raw' PROVE RowMayLeave(r)
    OBVIOUS
  <2>1. QED
    BY ReplaceLosesForAReason, WhoChangesTheFile DEF RowMayLeave
<1>2. StorageInv /\ [Next]_vars =>
        [\A r \in Raw \ Raw' :
           \/ r.day \in 0 .. (day - Retention - 1) \/ r.form # "valid" \/ dataset = "articles"
           \/ PullOpens \/ PullFills \/ Crash \/ PowerLoss \/ Redeploy]_vars
  BY <1>1 DEF RowMayLeave
<1>3. QED
  BY <1>2, StorageInvariant, PTL DEF Spec, RowsLeaveForAReason

\* A write replaces what nobody can read only after a read has reported it, for any
\* retention, any number of days and whatever a pull brings; only a pull, which truncates
\* without reading, a power loss and a redeploy do without (backend.py:72-88).
THEOREM DamageIsReportedHolds == Spec => DamageIsReported
<1>1. StorageInv /\ [Next]_vars =>
        [file.kind = "damaged" /\ file' # file
           => damage # "unnoticed" \/ PullOpens \/ PowerLoss \/ Redeploy]_vars
  <2> SUFFICES ASSUME StorageInv, [Next]_vars, file.kind = "damaged", file' # file,
                      ~PullOpens, ~PowerLoss, ~Redeploy
               PROVE  damage # "unnoticed"
    OBVIOUS
  <2>1. pc # "fill"
    BY DEF StorageInv, Empty
  <2>2. Replace
    BY <2>1, WhoChangesTheFile DEF PullFills, Crash
  <2>3. QED
    BY <2>2 DEF Replace, StorageInv, Noticed, WritingPC
<1>2. QED
  BY <1>1, StorageInvariant, PTL DEF Spec, DamageIsReported

-----------------------------------------------------------------------------
\* Both speak of the same contents.
LEMMA SameContents ==
  /\ Atomic!Absent = Absent /\ Atomic!Empty = Empty
  /\ Atomic!Content = Content
  /\ \A c : Atomic!Torn(c) = Torn(c)
<1>1. /\ Atomic!Absent = Absent /\ Atomic!Empty = Empty /\ Atomic!Damaged = Damaged
      /\ \A R : Atomic!Whole(R) = Whole(R)
      /\ Atomic!TornRow = TornRow /\ Atomic!Row = Row
  BY DEF Atomic!Absent, Absent, Atomic!Empty, Empty, Atomic!Damaged, Damaged, Atomic!Whole, Whole,
         Atomic!TornRow, TornRow, Atomic!Row, Row, Atomic!NoDay, NoDay, Atomic!Form, Form
<1>2. Atomic!Content = Content
  BY <1>1 DEF Atomic!Content, Content
<1>3. \A c : Atomic!Torn(c) = Torn(c)
  BY <1>1 DEF Atomic!Torn, Torn
<1>4. QED
  BY <1>1, <1>2, <1>3

\* What the abstract file is told of a step that leaves the write as it is.
LEMMA WritingStays ==
  ASSUME UNCHANGED <<pc, held>> \/ (pc \in WritingPC /\ pc' \in WritingPC /\ UNCHANGED held)
  PROVE  Writing' = Writing
BY DEF Writing

LEMMA NothingIsWritten ==
  /\ pc \in {"idle", "step"} => Writing = Atomic!NoWrite
  /\ pc' \in {"idle", "step"} => Writing' = Atomic!NoWrite
BY SameContents DEF Writing, WritingPC, Atomic!NoWrite

\* Steps of the run and of its pulls.
LEMMA RunStepsAreFileSteps ==
  ASSUME StorageInv,
         StartRun \/ StopRun \/ PullNothing \/ PullOpens \/ PullFills \/ Read
  PROVE  [Atomic!Next]_(Atomic!vars)
<1> USE DEF Atomic!vars
<1>1. TypeOK
  BY DEF StorageInv
<1>2. Done => pc' \in {"idle", "step"}
  BY DEF Done, EndRun
<1>3. CASE StartRun \/ StopRun \/ PullNothing \/ Read
  <2>1. pc \in {"idle", "step"} /\ pc' \in {"idle", "step"} /\ UNCHANGED <<file, disk>>
    BY <1>2, <1>3 DEF StartRun, StopRun, PullNothing, Read, At, EndRun
  <2>2. QED
    BY <2>1, NothingIsWritten
<1>4. CASE PullOpens
  <2>1. /\ pc = "step" /\ pc' = "fill" /\ held' \in Content
        /\ file' = Empty /\ disk' = disk \cup {Empty}
    BY <1>4, StorageAssumption DEF PullOpens, At
  <2>2. Writing = Atomic!NoWrite /\ Writing' = [how |-> "in place", new |-> held']
    BY <2>1, NothingIsWritten DEF Writing, WritingPC
  <2>3. Writing' \in [how : {"in place"}, new : Content]
    BY <2>1, <2>2
  <2>4. QED
    BY <2>1, <2>2, <2>3, SameContents DEF Atomic!Next, Atomic!BeginInPlace
<1>5. CASE PullFills
  <2>1. /\ pc = "fill" /\ pc' \in {"idle", "step"} /\ file' \in Torn(held)
        /\ disk' = disk \cup Torn(held)
    BY <1>2, <1>5 DEF PullFills
  <2>2. Writing.how = "in place" /\ Writing.new = held /\ Writing' = Atomic!NoWrite
    BY <2>1, NothingIsWritten DEF Writing, WritingPC
  <2>3. QED
    BY <2>1, <2>2, SameContents DEF Atomic!Next, Atomic!EndInPlace
<1>6. QED
  BY <1>3, <1>4, <1>5

\* Steps of the operations that write.
LEMMA OperationsAreFileSteps ==
  ASSUME StorageInv, StorageInv', Cleanup \/ Rewrite \/ Overwrite
  PROVE  [Atomic!Next]_(Atomic!vars)
<1> USE DEF Atomic!vars
<1>1. /\ pc = "step" /\ pc' \in {"idle", "step", "open"} /\ UNCHANGED <<file, disk>>
      /\ held' \in Content
  BY DEF Cleanup, Rewrite, Overwrite, At, Done, EndRun, StorageInv, TypeOK
<1>2. CASE pc' = "open"
  <2>1. Writing = Atomic!NoWrite /\ Writing' = [how |-> "atomic", new |-> held']
    BY <1>1, <1>2, NothingIsWritten DEF Writing, WritingPC
  <2>2. Writing' \in [how : {"atomic"}, new : Content]
    BY <1>1, <2>1
  <2>3. QED
    BY <1>1, <2>1, <2>2, SameContents DEF Atomic!Next, Atomic!Begin
<1>3. CASE pc' \in {"idle", "step"}
  BY <1>1, <1>3, NothingIsWritten
<1>4. QED
  BY <1>1, <1>2, <1>3

\* The system calls of a write.
LEMMA WritesAreFileSteps ==
  ASSUME StorageInv, OpenTmp \/ WriteRows \/ Sync \/ Check \/ Replace \/ WriteFails
  PROVE  [Atomic!Next]_(Atomic!vars)
<1> USE DEF Atomic!vars
<1>1. CASE OpenTmp \/ WriteRows \/ Sync \/ Check
  <2>1. pc \in WritingPC /\ pc' \in WritingPC /\ UNCHANGED <<file, disk, held>>
    BY <1>1 DEF OpenTmp, WriteRows, Sync, Check, WritingPC
  <2>2. QED
    BY <2>1, WritingStays
<1>2. CASE Replace
  <2>1. tmp.content = held /\ tmp.synced
    BY <1>2 DEF StorageInv, ReadyToReplace, Replace
  <2>2. /\ pc = "replace" /\ pc' \in {"idle", "step"} /\ file' = held
        /\ disk' = disk \cup {held}
    BY <1>2, <2>1 DEF Replace, Done, EndRun
  <2>3. Writing.how = "atomic" /\ Writing.new = held /\ Writing' = Atomic!NoWrite
    BY <2>2, NothingIsWritten DEF Writing, WritingPC
  <2>4. QED
    BY <2>2, <2>3 DEF Atomic!Next, Atomic!Replace
<1>3. CASE WriteFails
  <2>1. pc \in WritingPC /\ pc' = "idle" /\ UNCHANGED <<file, disk>>
    BY <1>3 DEF WriteFails, EndRun
  <2>2. Writing.how = "atomic" /\ Writing' = Atomic!NoWrite
    BY <2>1, NothingIsWritten DEF Writing
  <2>3. QED
    BY <2>1, <2>2 DEF Atomic!Next, Atomic!GiveUp
<1>4. QED
  BY <1>1, <1>2, <1>3

\* What happens to the process and to the machine.
LEMMA FaultsAreFileSteps ==
  ASSUME StorageInv, Crash \/ PowerLoss \/ WriteBack \/ Redeploy
  PROVE  [Atomic!Next]_(Atomic!vars)
<1> USE DEF Atomic!vars
<1>1. pc \in {"idle", "step", "fill"} \cup WritingPC
  BY DEF StorageInv, TypeOK
<1>2. CASE Crash
  <2>1. pc' = "idle" /\ Writing' = Atomic!NoWrite
    BY <1>2, NothingIsWritten DEF Crash, EndRun
  <2>2. CASE pc = "fill"
    <3>1. Writing.how = "in place" /\ Writing.new = held
      BY <2>2 DEF Writing, WritingPC
    <3>2. QED
      BY <1>2, <2>1, <2>2, <3>1, SameContents DEF Crash, Atomic!Next, Atomic!EndInPlace
  <2>3. CASE pc \in WritingPC
    <3>1. Writing.how = "atomic" /\ UNCHANGED <<file, disk>>
      BY <1>2, <2>3 DEF Writing, WritingPC, Crash
    <3>2. QED
      BY <2>1, <3>1 DEF Atomic!Next, Atomic!GiveUp
  <2>4. CASE pc \in {"idle", "step"}
    BY <1>2, <2>1, <2>4, NothingIsWritten DEF Crash
  <2>5. QED
    BY <1>1, <2>2, <2>3, <2>4
<1>3. CASE PowerLoss
  <2>1. Writing' = Atomic!NoWrite
    BY <1>3, NothingIsWritten DEF PowerLoss, EndRun
  <2>2. QED
    BY <1>3, <2>1 DEF PowerLoss, Atomic!Next, Atomic!PowerLoss
<1>4. CASE WriteBack
  <2>1. Writing' = Writing
    BY <1>4, WritingStays DEF WriteBack
  <2>2. Writing.how # "in place"
    BY <1>4 DEF WriteBack, Writing
  <2>3. QED
    BY <1>4, <2>1, <2>2 DEF WriteBack, Atomic!Next, Atomic!WriteBack
<1>5. CASE Redeploy
  <2>1. Writing' = Atomic!NoWrite
    BY <1>5, NothingIsWritten DEF Redeploy, EndRun
  <2>2. QED
    BY <1>5, <2>1, SameContents DEF Redeploy, Atomic!Next, Atomic!Wipe
<1>6. QED
  BY <1>2, <1>3, <1>4, <1>5

\* The temporary file, the fsync, the validation and the rename are a write that takes place
\* at once or not at all, through crashes and power losses, for any contents
\* (atomic.py:1-8).
THEOREM WritesAreAtomic == Spec => ImplementsAtomicFile
<1>1. Init => Atomic!Init
  BY NothingIsWritten, SameContents DEF Init, Atomic!Init
<1>2. StorageInv /\ StorageInv' /\ [Next]_vars => [Atomic!Next]_(Atomic!vars)
  <2> SUFFICES ASSUME StorageInv, StorageInv', [Next]_vars PROVE [Atomic!Next]_(Atomic!vars)
    OBVIOUS
  <2>1. CASE UNCHANGED vars
    <3>1. Writing' = Writing /\ UNCHANGED <<file, disk>>
      BY <2>1, WritingStays DEF vars
    <3>2. QED
      BY <3>1 DEF Atomic!vars
  <2>2. CASE Next
    BY <2>2, RunStepsAreFileSteps, OperationsAreFileSteps, WritesAreFileSteps,
       FaultsAreFileSteps DEF Next
  <2>3. QED
    BY <2>1, <2>2
<1>3. QED
  BY <1>1, <1>2, StorageInvariant, PTL DEF Spec, Atomic!Spec, ImplementsAtomicFile
=============================================================================
