--------------------------- MODULE MCClusterSnapshot ---------------------------
(***************************************************************************)
(* Two hosts of 4 cores, one hyperthreaded and one idle; two VMs of        *)
(* different size: the larger is a monster, both together overcommit.      *)
(***************************************************************************)
EXTENDS ClusterSnapshot

MCHost == {"h1", "h2"}
MCVm == {"v1", "v2"}
MCVCpus == [v \in MCVm |-> IF v = "v1" THEN 1 ELSE 4]
MCCores == [h \in MCHost |-> 4]
MCHyperthreaded == {"h1"}
MCRunningThreads == [h \in MCHost |-> IF h = "h1" THEN 3 ELSE 0]
MCRunningCores == [h \in MCHost |-> IF h = "h1" THEN 3 ELSE 0]
================================================================================
