------------------------------- MODULE CsvFile -------------------------------
(***************************************************************************)
(* What a dataset's CSV file can hold, as far as its readers tell apart: a *)
(* row has a day and is valid, fails validation, or has more cells than    *)
(* the header.  A file with another header, or with bytes that are not     *)
(* UTF-8, is damaged.                                                      *)
(***************************************************************************)
EXTENDS Integers

CONSTANT MaxDays      \* the last day of an instance

ASSUME DaysAssumption == MaxDays \in Nat

NoDay == -1           \* a day nobody can read
Form == {"valid", "invalid", "ragged"}
Row == [day : NoDay .. MaxDays, form : Form]
Content == [kind : {"absent", "empty", "damaged", "whole"}, rows : SUBSET Row]

Absent == [kind |-> "absent", rows |-> {}]
Empty == [kind |-> "empty", rows |-> {}]
Damaged == [kind |-> "damaged", rows |-> {}]
Whole(R) == [kind |-> "whole", rows |-> R]
TornRow == [day |-> NoDay, form |-> "invalid"]

\* What may be found of a content that was being written when the writer or the power
\* went: nothing, part of the header, or some of the rows, the last of them cut.
Torn(c) ==
  {Empty, Damaged, c} \cup {Whole(R) : R \in SUBSET (c.rows \cup {TornRow})}
=============================================================================
