-------------------------- MODULE MCTopicIdentity --------------------------
(***************************************************************************)
(* Small instances of the identity of topics for TLC: a story that comes   *)
(* under two headlines, and another story.                                 *)
(***************************************************************************)
EXTENDS TopicIdentity, TLC

CONSTANTS launch, release, merger

Wordings == {launch, release, merger}
Alike == {<<h, k>> \in Wordings \X Wordings : h = k \/ merger \notin {h, k}}
Words == [h \in Wordings |-> h]
Rewordings == Permutations({launch, release})
=============================================================================
