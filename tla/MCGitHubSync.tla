---------------------------- MODULE MCGitHubSync ----------------------------
(***************************************************************************)
(* Small instances of the synchronisation with GitHub for TLC.             *)
(***************************************************************************)
EXTENDS GitHubSync

CONSTANTS topics, briefings

TwoFiles == <<topics, briefings>>
OneFile == <<briefings>>
=============================================================================
