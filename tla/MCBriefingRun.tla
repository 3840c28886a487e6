---------------------------- MODULE MCBriefingRun ----------------------------
(***************************************************************************)
(* Small instances of the request life cycle for TLC.                      *)
(***************************************************************************)
EXTENDS BriefingRun

AllModes == [force : BOOLEAN, dry : BOOLEAN]
=============================================================================
