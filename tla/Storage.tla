------------------------------- MODULE Storage -------------------------------
(***************************************************************************)
(* The file of one dataset through the runs of several days: the pull that *)
(* writes it in place, and the reads and atomic writes of the repository   *)
(* (app/storage/repository.py, backend.py, atomic.py), a system call at a  *)
(* time, with crashes, power losses, full disks and redeploys between any  *)
(* two of them.  The datasets share no file and no temporary file, so one  *)
(* of them is enough; which one is chosen at the start.                    *)
(***************************************************************************)
EXTENDS CsvFile, Sequences

CONSTANTS
  Retention,    \* retention_days
  Foreign       \* what a pull may bring

ASSUME StorageAssumption == Retention \in Nat /\ Foreign \subseteq Content

Dataset == {"articles", "topics", "trend_scores", "briefings", "sources"}

VARIABLES
  dataset,  \* the dataset of this file
  day,      \* today
  file,     \* the file as a reader finds it
  disk,     \* what a power loss may leave of it
  tmp,      \* the temporary file beside it: [content, synced]
  held,     \* the content being written
  damage,   \* what was done about the damage of the file; nothing in the code keeps it
  pc,       \* the system call the run is at
  at        \* the operation of the plan it is at

vars == <<dataset, day, file, disk, tmp, held, damage, pc, at>>

\* What a run does to the file, in its order.
Plan ==
  CASE dataset = "briefings" -> <<"pull", "read", "upsert", "cleanup", "upsert">>
    [] dataset = "trend_scores" -> <<"pull", "cleanup", "read", "append">>
    [] dataset = "topics" -> <<"pull", "cleanup", "merge">>
    [] dataset = "articles" -> <<"pull", "cleanup", "overwrite">>
    [] dataset = "sources" -> <<"pull", "read", "merge">>

NoTmp == [content |-> Absent, synced |-> FALSE]
WritingPC == {"open", "rows", "sync", "check", "replace"}
Damage == {"unnoticed", "reported", "copied"}

\* A row that the run builds, with the date of today.
Today == [day |-> day, form |-> "valid"]

Init ==
  /\ dataset \in Dataset
  /\ day = 0
  /\ file = Absent
  /\ disk = {Absent}
  /\ tmp = NoTmp
  /\ held = Absent
  /\ damage = "unnoticed"
  /\ pc = "idle"
  /\ at = 1

EndRun == at' = 1 /\ pc' = "idle" /\ held' = Absent

Done ==
  \/ at < Len(Plan) /\ at' = at + 1 /\ pc' = "step" /\ held' = Absent
  \/ at = Len(Plan) /\ EndRun

At(op) == pc = "step" /\ Plan[at] = op

-----------------------------------------------------------------------------
StartRun ==
  /\ pc = "idle"
  /\ day' \in day .. (day + 1) /\ day' <= MaxDays
  /\ pc' = "step"
  /\ UNCHANGED <<dataset, file, disk, tmp, held, damage, at>>

\* Anything else that ends a run: a duplicate, a failure, the timeout, an OSError of a read.
StopRun ==
  /\ pc = "step"
  /\ EndRun
  /\ UNCHANGED <<dataset, day, file, disk, tmp, damage>>

\* pull(): nothing is there, the request failed, or an earlier file ended the pull.
PullNothing ==
  /\ At("pull")
  /\ Done
  /\ UNCHANGED <<dataset, day, file, disk, tmp, damage>>

\* pull(): write_text opens the file, which truncates it.
PullOpens ==
  /\ At("pull")
  /\ held' \in Foreign
  /\ file' = Empty
  /\ disk' = disk \cup {Empty}
  /\ damage' = "unnoticed"
  /\ pc' = "fill"
  /\ UNCHANGED <<dataset, day, tmp, at>>

\* pull(): write_text writes, or fails on the way; either way the run goes on.
PullFills ==
  /\ pc = "fill"
  /\ file' \in Torn(held)
  /\ disk' = disk \cup Torn(held)
  /\ Done
  /\ UNCHANGED <<dataset, day, tmp, damage>>

-----------------------------------------------------------------------------
\* A variant with a plausible bug: a damaged file is taken for an empty one.
QuarantineNothing == UNCHANGED damage

\* read_raw() makes a copy of what it cannot read; if that fails it says so in its report of
\* the damage, and goes on.
Quarantine ==
  damage' \in IF file.kind # "damaged" THEN {damage}
              ELSE IF damage = "copied" THEN {"copied"} ELSE {"copied", "reported"}

\* What read_raw() returns.
Raw == IF file.kind = "whole" THEN file.rows ELSE {}

\* read(), and then _to_row() of what it returned: rows that fail validation are skipped,
\* surplus cells are dropped.
Records == {[r EXCEPT !.form = "valid"] : r \in {q \in Raw : q.form # "invalid"}}

\* A variant with a plausible bug: the cutoff day itself is taken for expired.
KeptOffByOne(R) == {r \in R : r.day = NoDay \/ r.day > day - Retention}

\* _is_within_retention(): rows nobody can date are kept.
Kept(R) == {r \in R : r.day = NoDay \/ r.day >= day - Retention}

Read ==
  /\ At("read")
  /\ Quarantine
  /\ Done
  /\ UNCHANGED <<dataset, day, file, disk, tmp>>

\* cleanup_old_data() works on the raw rows, and writes only when it removes some.
Cleanup ==
  /\ At("cleanup")
  /\ Quarantine
  /\ \/ Kept(Raw) = Raw /\ Done
     \/ Kept(Raw) # Raw /\ held' = Whole(Kept(Raw)) /\ pc' = "open" /\ UNCHANGED at
  /\ UNCHANGED <<dataset, day, file, disk, tmp>>

\* upsert_briefing(), append(), update_registry() and _persist_analysis() write back what
\* they read with the rows of today; append() of nothing does not write.
Rewrite ==
  /\ \/ At("upsert") \/ At("append") \/ At("merge")
  /\ Quarantine
  /\ \E new \in SUBSET {Today} :
       /\ new = {} => ~At("upsert")
       /\ \/ new = {} /\ At("append") /\ Done
          \/ /\ ~(new = {} /\ At("append"))
             /\ held' = Whole(Records \cup new) /\ pc' = "open" /\ UNCHANGED at
  /\ UNCHANGED <<dataset, day, file, disk, tmp>>

\* articles.csv holds the articles of the last run only.
Overwrite ==
  /\ At("overwrite")
  /\ held' = Whole({Today})
  /\ pc' = "open"
  /\ UNCHANGED <<dataset, day, file, disk, tmp, damage, at>>

-----------------------------------------------------------------------------
\* atomic_write_csv(): the temporary file is opened, which truncates a leftover.
OpenTmp ==
  /\ pc = "open"
  /\ tmp' = [content |-> Empty, synced |-> FALSE]
  /\ pc' = "rows"
  /\ UNCHANGED <<dataset, day, file, disk, held, damage, at>>

\* A variant with a plausible bug: a row that cannot be written is skipped.
WriteRowsSkipping ==
  /\ pc = "rows"
  /\ tmp' = [content |-> Whole({r \in held.rows : r.form # "ragged"}), synced |-> FALSE]
  /\ pc' = "sync"
  /\ UNCHANGED <<dataset, day, file, disk, held, damage, at>>

WriteRows ==
  /\ pc = "rows"
  /\ \A r \in held.rows : r.form # "ragged"
  /\ tmp' = [content |-> held, synced |-> FALSE]
  /\ pc' = "sync"
  /\ UNCHANGED <<dataset, day, file, disk, held, damage, at>>

\* A variant with a plausible bug: no fsync.
SyncSkipped ==
  /\ pc = "sync"
  /\ pc' = "check"
  /\ UNCHANGED <<dataset, day, file, disk, tmp, held, damage, at>>

Sync ==
  /\ pc = "sync"
  /\ tmp' = [tmp EXCEPT !.synced = TRUE]
  /\ pc' = "check"
  /\ UNCHANGED <<dataset, day, file, disk, held, damage, at>>

\* _validate() reads the temporary file back.
Check ==
  /\ pc = "check"
  /\ tmp.content = held
  /\ pc' = "replace"
  /\ UNCHANGED <<dataset, day, file, disk, tmp, held, damage, at>>

Replace ==
  /\ pc = "replace"
  /\ file' = tmp.content
  /\ disk' = disk \cup (IF tmp.synced THEN {tmp.content} ELSE Torn(tmp.content))
  /\ tmp' = NoTmp
  /\ damage' = "unnoticed"
  /\ Done
  /\ UNCHANGED <<dataset, day>>

\* A row with surplus cells (DictWriter raises), a validation that fails, a full disk: the
\* temporary file is removed and CSV_WRITE_FAILED ends the run.
WriteFails ==
  /\ pc \in WritingPC
  /\ tmp' = NoTmp
  /\ EndRun
  /\ UNCHANGED <<dataset, day, file, disk, damage>>

-----------------------------------------------------------------------------
\* The process dies; what it wrote stays with the system.
Crash ==
  /\ pc # "idle"
  /\ IF pc = "fill" THEN file' \in Torn(held) /\ disk' = disk \cup Torn(held)
                    ELSE UNCHANGED <<file, disk>>
  /\ EndRun
  /\ UNCHANGED <<dataset, day, tmp, damage>>

\* The machine dies: of what was not forced to the disk anything may be left, and nothing
\* forces a recovery copy there.
PowerLoss ==
  /\ file' \in disk
  /\ disk' = {file'}
  /\ tmp' \in {NoTmp, [tmp EXCEPT !.synced = FALSE]}
  /\ damage' \in IF file' # file THEN {"unnoticed"}
                 ELSE IF damage = "copied" THEN {"copied", "reported"} ELSE {damage}
  /\ EndRun
  /\ UNCHANGED <<dataset, day>>

WriteBack ==
  /\ pc # "fill"
  /\ disk' = {file}
  /\ UNCHANGED <<dataset, day, file, tmp, held, damage, pc, at>>

\* A redeploy starts with an empty directory.
Redeploy ==
  /\ file' = Absent
  /\ disk' = {Absent}
  /\ tmp' = NoTmp
  /\ damage' = "unnoticed"
  /\ EndRun
  /\ UNCHANGED <<dataset, day>>

Next ==
  \/ StartRun \/ StopRun \/ PullNothing \/ PullOpens \/ PullFills
  \/ Read \/ Cleanup \/ Rewrite \/ Overwrite
  \/ OpenTmp \/ WriteRows \/ Sync \/ Check \/ Replace \/ WriteFails
  \/ Crash \/ PowerLoss \/ WriteBack \/ Redeploy

Spec == Init /\ [][Next]_vars

-----------------------------------------------------------------------------
TypeOK ==
  /\ dataset \in Dataset
  /\ day \in 0 .. MaxDays
  /\ file \in Content
  /\ disk \subseteq Content
  /\ tmp \in [content : Content, synced : BOOLEAN]
  /\ held \in Content
  /\ damage \in Damage
  /\ pc \in {"idle", "step", "fill"} \cup WritingPC
  /\ at \in 1 .. Len(Plan)

\* Between the fsync and the rename the temporary file holds exactly the rows that are
\* being written, and they have been forced to the disk (atomic.py:43-53); the file itself
\* may always survive a power loss as it is.
ReadyToReplace ==
  /\ pc \in {"sync", "check", "replace"} => tmp.content = held
  /\ pc \in {"check", "replace"} => tmp.synced

\* What a write was computed from is still there when it is carried out: nobody changes the
\* file between the read of a rewrite or a cleanup and its rename.
HeldIsCurrent ==
  pc \in WritingPC =>
    \/ Plan[at] = "cleanup" /\ held = Whole(Kept(Raw))
    \/ Plan[at] = "overwrite" /\ held = Whole({Today})
    \/ /\ Plan[at] \in {"upsert", "append", "merge"}
       /\ held \in {Whole(Records), Whole(Records \cup {Today})}

\* Whoever is about to replace a damaged file has read it before, and reported it.
Noticed ==
  file.kind = "damaged" /\ (pc \in WritingPC \/ At("overwrite")) => damage # "unnoticed"

StorageInv ==
  /\ TypeOK
  /\ ReadyToReplace
  /\ HeldIsCurrent
  /\ Noticed
  /\ file \in disk \/ pc = "fill"
  /\ pc = "idle" => at = 1
  /\ pc = "fill" => Plan[at] = "pull" /\ file = Empty

\* A row leaves the file of a running service only because it has expired, cannot be
\* validated, or belongs to a dataset that keeps the last run only (repository.py:50-158);
\* otherwise a pull, a power loss or a redeploy took the file.
RowsLeaveForAReason ==
  [][\A r \in Raw \ Raw' :
       \/ r.day \in 0 .. (day - Retention - 1) \/ r.form # "valid" \/ dataset = "articles"
       \/ PullOpens \/ PullFills \/ Crash \/ PowerLoss \/ Redeploy]_vars

\* Only a pull, a power loss or a redeploy takes a file that nobody can read and that no
\* read has reported: every write comes after a read of the same file, the one of
\* articles.csv through the cleanup before it (backend.py:72-88).
DamageIsReported ==
  [][file.kind = "damaged" /\ file' # file
       => damage # "unnoticed" \/ PullOpens \/ PowerLoss \/ Redeploy]_vars

Writing ==
  IF pc \in WritingPC THEN [how |-> "atomic", new |-> held]
  ELSE IF pc = "fill" THEN [how |-> "in place", new |-> held]
  ELSE [how |-> "none", new |-> Absent]

Atomic == INSTANCE AtomicFile WITH content <- file, pending <- Writing

\* The temporary file, the fsync, the validation and the rename implement a write that
\* takes place at once or not at all, through crashes and power losses (atomic.py:1-8).
ImplementsAtomicFile == Atomic!Spec
=============================================================================
