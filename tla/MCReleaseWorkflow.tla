---------------------------- MODULE MCReleaseWorkflow --------------------------
(***************************************************************************)
(* Two runs, of one version or of two, with three publish jobs at most.    *)
(***************************************************************************)
EXTENDS ReleaseWorkflow

CONSTANTS r1, r2
================================================================================
