---------------------------- MODULE MCProcessRun -----------------------------
(***************************************************************************)
(* Instances of ProcessRun for TLC.                                        *)
(***************************************************************************)
EXTENDS ProcessRun
=============================================================================
