------------------------------- MODULE Mailer -------------------------------
(***************************************************************************)
(* The senders (app/mailer/sender.py): three loops of attempts, one for    *)
(* each provider, over HTTP or over SMTP in a thread of its own, and the   *)
(* sender of dry runs.  The provider may take a message whose acceptance   *)
(* never arrives: the answer gets lost, a gateway answers for it, or the   *)
(* SMTP dialogue ends badly after the data.                                *)
(***************************************************************************)
EXTENDS Integers

CONSTANTS
  Provider,     \* of {"resend", "sendgrid", "smtp", "null"}
  MailTries     \* DEFAULT_ATTEMPTS

ASSUME MailAssumption ==
  /\ Provider \subseteq {"resend", "sendgrid", "smtp", "null"}
  /\ MailTries \in Nat \ {0}

VARIABLES
  provider,   \* the sender of this run, once there is one
  mail,       \* what the loop is at
  attempt,    \* its counter
  copies,     \* messages the provider took
  told,       \* the SendResult, or the exception
  thread      \* "left": one of SMTP goes on after its run

mailVars == <<provider, mail, attempt, copies, told, thread>>

MailTypeOK ==
  /\ provider \in Provider \cup {"none"}
  /\ mail \in {"off", "attempt", "taken", "failed", "rejected", "over"}
  /\ attempt \in 1 .. MailTries
  /\ copies \in Nat
  /\ told \in {"open", "sent", "failed", "skipped", "raised"}
  /\ thread \in {"none", "left"}

MailInit ==
  /\ provider = "none"
  /\ mail = "off"
  /\ attempt = 1
  /\ copies = 0
  /\ told = "open"
  /\ thread = "none"

\* _send(), with the sender that the configuration names, or that of a dry run.
StartMail ==
  /\ mail = "off"
  /\ mail' = "attempt"
  /\ provider' \in Provider
  /\ UNCHANGED <<attempt, copies, told, thread>>

\* NullSender.send().
SkipMail ==
  /\ mail = "attempt" /\ provider = "null"
  /\ mail' = "over"
  /\ told' = "skipped"
  /\ UNCHANGED <<provider, attempt, copies, thread>>

\* The POST, or the DATA of the SMTP dialogue, reaches the provider, which takes it.
Taken ==
  /\ mail = "attempt" /\ provider # "null"
  /\ mail' = "taken"
  /\ copies' = copies + 1
  /\ UNCHANGED <<provider, attempt, told, thread>>

\* A variant with a plausible bug: every answer below 500 is an acceptance.
NotTakenButAccepted ==
  /\ mail = "attempt" /\ provider # "null"
  /\ \/ mail' = "failed" /\ UNCHANGED told
     \/ mail' = "over" /\ told' = "sent"
  /\ UNCHANGED <<provider, attempt, copies, thread>>

\* The provider does not take it: for now (a transport error, any status that is in no
\* list), or for good (NON_RETRYABLE_STATUS, an authentication error).
NotTaken ==
  /\ mail = "attempt" /\ provider # "null"
  /\ mail' \in {"failed", "rejected"}
  /\ UNCHANGED <<provider, attempt, copies, told, thread>>

\* 200 or 201 from Resend, 202 from SendGrid, the end of the SMTP dialogue.
Confirmed ==
  /\ mail = "taken"
  /\ mail' = "over"
  /\ told' = "sent"
  /\ UNCHANGED <<provider, attempt, copies, thread>>

\* The message was taken, and the sender sees a failure.
Unconfirmed ==
  /\ mail = "taken"
  /\ mail' = "failed"
  /\ UNCHANGED <<provider, attempt, copies, told, thread>>

\* Resend's acceptance is not JSON: response.json() raises.
Unreadable ==
  /\ mail = "taken" /\ provider = "resend"
  /\ mail' = "over"
  /\ told' = "raised"
  /\ UNCHANGED <<provider, attempt, copies, thread>>

\* A variant with a plausible bug: one attempt too many.
TryAgainOffByOne ==
  /\ mail = "failed"
  /\ attempt <= MailTries
  /\ attempt' = attempt + 1
  /\ mail' = "attempt"
  /\ UNCHANGED <<provider, copies, told, thread>>

TryAgain ==
  /\ mail = "failed"
  /\ attempt < MailTries
  /\ attempt' = attempt + 1
  /\ mail' = "attempt"
  /\ UNCHANGED <<provider, copies, told, thread>>

GiveUpMail ==
  /\ \/ mail = "failed" /\ attempt = MailTries
     \/ mail = "rejected"
  /\ mail' = "over"
  /\ told' = "failed"
  /\ UNCHANGED <<provider, attempt, copies, thread>>

\* The timeout of the run, which stops a request but not a thread, or a crash.
CancelMail ==
  /\ mail \in {"attempt", "taken", "failed", "rejected"}
  /\ mail' = "over"
  /\ told' = "raised"
  /\ thread' \in IF provider = "smtp" /\ mail = "attempt" THEN {"none", "left"} ELSE {"none"}
  /\ UNCHANGED <<provider, attempt, copies>>

\* The thread that was left behind ends, with a delivery or without.
ThreadEnds ==
  /\ thread = "left"
  /\ thread' = "none"
  /\ copies' \in {copies, copies + 1}
  /\ UNCHANGED <<provider, mail, attempt, told>>

MailStep ==
  \/ SkipMail \/ Taken \/ NotTaken \/ Confirmed \/ Unconfirmed \/ Unreadable
  \/ TryAgain \/ GiveUpMail \/ CancelMail \/ ThreadEnds

MailSpec == MailInit /\ [][StartMail \/ MailStep]_mailVars

-----------------------------------------------------------------------------
\* There is at most one copy for each attempt that was begun, a confirmed message has been
\* taken, a refused one may have been, and a dry run has sent nothing (sender.py:92-124,
\* 338-364): what RunInv of BriefingRun counts on.
CopiesAreAccounted ==
  /\ copies <= attempt
  /\ mail = "attempt" \/ thread = "left" => copies < attempt
  /\ mail \in {"off", "attempt", "failed", "taken", "rejected"} <=> told = "open"
  /\ (mail = "taken" \/ told = "sent") => copies >= 1
  /\ mail = "off" \/ provider = "null" => attempt = 1 /\ copies = 0
  /\ provider = "null" => mail \in {"off", "attempt", "over"} /\ thread = "none"
  /\ told = "skipped" => provider = "null"
  /\ thread = "left" => told = "raised"

MailInv == MailTypeOK /\ CopiesAreAccounted

FailedTries ==
  IF mail = "rejected" \/ told \in {"failed", "raised"} THEN MailTries
  ELSE IF mail = "failed" THEN attempt
  ELSE attempt - 1

Abstract == INSTANCE Sending WITH MaxTries <- MailTries, tries <- FailedTries, verdict <- told

\* Each provider's loop does what the run relies on.
ImplementsSending == Abstract!Spec
=============================================================================
