------------------------------ MODULE Sending ------------------------------
(***************************************************************************)
(* What a run may rely on when it sends its message, whichever provider it *)
(* is configured with; the send steps of BriefingRun are these.  A message *)
(* that was taken and whose acceptance got lost is sent again, so there    *)
(* may be more copies than the sender knows of, but no acceptance without  *)
(* a copy, and no more tries than allowed.                                 *)
(***************************************************************************)
EXTENDS Integers

CONSTANT MaxTries     \* attempts of one message

VARIABLES
  tries,      \* the attempts that failed
  copies,     \* the messages the provider took
  verdict     \* what the run is told

vars == <<tries, copies, verdict>>

Init == tries = 0 /\ copies = 0 /\ verdict = "open"

\* The provider takes the message; whether it can say so is another matter.
Deliver ==
  /\ verdict = "open" /\ tries < MaxTries
  /\ copies <= tries
  /\ copies' = copies + 1
  /\ UNCHANGED <<tries, verdict>>

Accept ==
  /\ verdict = "open" /\ tries < MaxTries /\ copies > 0
  /\ verdict' = "sent"
  /\ UNCHANGED <<tries, copies>>

\* An attempt fails, with or without a copy, perhaps for good.
Reject ==
  /\ verdict = "open" /\ tries < MaxTries
  /\ tries' \in {tries + 1, MaxTries}
  /\ UNCHANGED <<copies, verdict>>

Fail ==
  /\ verdict = "open" /\ tries = MaxTries
  /\ verdict' = "failed"
  /\ UNCHANGED <<tries, copies>>

\* A dry run sends nothing.
Skip ==
  /\ verdict = "open" /\ tries = 0 /\ copies = 0
  /\ verdict' = "skipped"
  /\ UNCHANGED <<tries, copies>>

\* The run ends in the middle, and with it the tries.
Raise ==
  /\ verdict = "open"
  /\ verdict' = "raised"
  /\ tries' = MaxTries
  /\ UNCHANGED copies

\* A thread that was left alone delivers after all.
LateDelivery ==
  /\ verdict = "raised"
  /\ copies < MaxTries
  /\ copies' = copies + 1
  /\ UNCHANGED <<tries, verdict>>

Next == Deliver \/ Accept \/ Reject \/ Fail \/ Skip \/ Raise \/ LateDelivery

Spec == Init /\ [][Next]_vars
=============================================================================
