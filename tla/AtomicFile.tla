----------------------------- MODULE AtomicFile -----------------------------
(***************************************************************************)
(* What app/storage/atomic.py promises of a file, with no temporary file   *)
(* in sight: a write takes place at once or not at all, and a power loss   *)
(* brings back a version that was whole.  A write in place, like that of a *)
(* pull, promises neither.                                                 *)
(***************************************************************************)
EXTENDS CsvFile

VARIABLES
  content,    \* what a reader finds
  disk,       \* what a power loss may leave
  pending     \* the write that is under way: [how, new]

NoWrite == [how |-> "none", new |-> Absent]

Init ==
  /\ content = Absent
  /\ disk = {Absent}
  /\ pending = NoWrite

Begin ==
  /\ pending = NoWrite
  /\ pending' \in [how : {"atomic"}, new : Content]
  /\ UNCHANGED <<content, disk>>

Replace ==
  /\ pending.how = "atomic"
  /\ content' = pending.new
  /\ disk' = disk \cup {pending.new}
  /\ pending' = NoWrite

\* open("w") truncates.
BeginInPlace ==
  /\ pending = NoWrite
  /\ pending' \in [how : {"in place"}, new : Content]
  /\ content' = Empty
  /\ disk' = disk \cup {Empty}

\* The write in place ends, whole or not.
EndInPlace ==
  /\ pending.how = "in place"
  /\ content' \in Torn(pending.new)
  /\ disk' = disk \cup Torn(pending.new)
  /\ pending' = NoWrite

GiveUp ==
  /\ pending.how = "atomic"
  /\ pending' = NoWrite
  /\ UNCHANGED <<content, disk>>

PowerLoss ==
  /\ content' \in disk
  /\ disk' = {content'}
  /\ pending' = NoWrite

\* The system writes its cache back.
WriteBack ==
  /\ pending.how # "in place"
  /\ disk' = {content}
  /\ UNCHANGED <<content, pending>>

Wipe ==
  /\ content' = Absent
  /\ disk' = {Absent}
  /\ pending' = NoWrite

Next ==
  \/ Begin \/ Replace \/ BeginInPlace \/ EndInPlace
  \/ GiveUp \/ PowerLoss \/ WriteBack \/ Wipe

vars == <<content, disk, pending>>
Spec == Init /\ [][Next]_vars
=============================================================================
