----------------------------- MODULE MCStorage -----------------------------
(***************************************************************************)
(* Small instances of a dataset's file for TLC.                            *)
(***************************************************************************)
EXTENDS Storage

\* A history with a row that expires beside one of today with surplus cells, one with a
\* row that fails validation, and a file with another header.
MCForeign ==
  {Whole({[day |-> 0, form |-> "valid"], [day |-> 1, form |-> "ragged"]}),
   Whole({[day |-> 0, form |-> "ragged"], [day |-> NoDay, form |-> "invalid"]}),
   Damaged}
=============================================================================
