---------------------------- MODULE MCClusterMetrics ---------------------------
(***************************************************************************)
(* Three hosts.  The first runs nothing: it has no VMs, no core is busy,   *)
(* and most stats have no value.  The second has memory tiering, so that   *)
(* more is provisioned than it has DRAM, two VMs of which one is as big as *)
(* the host, and eleven samples; the third has no DRAM stat, one VM,       *)
(* thirteen samples, a link of unknown speed and no thread running, and its*)
(* allocation is that of its VM.  Memory is in units of 64 GB.             *)
(***************************************************************************)
EXTENDS ClusterMetrics

MCHosts == <<"h0", "h1", "h2">>
MCVmsOf == [h0 |-> {}, h1 |-> {"v1", "v2"}, h2 |-> {"v3"}]

MCHost ==
    [cores |-> 4, dram |-> 16, provisioned |-> 24, balloon |-> 1, threads |-> 50, core_util |-> 60,
     hyperthreaded |-> "true", compressed |-> 1, swapout |-> 2, reserved |-> 7, capacity |-> 10,
     contention |-> 2, vcpus_allocated |-> 6, memory_allocated |-> 25, network |-> 50,
     linkspeed |-> 100]
MCIdle ==
    [key \in DOMAIN MCHost |->
        CASE key = "cores" -> 4 [] key = "threads" -> 5 [] key = "core_util" -> 0 [] OTHER -> NoData]
MCVm == [vcpus |-> 2, memory |-> 1]
MCStored ==
    [h0 |-> MCIdle,
     h1 |-> MCHost,
     h2 |-> [MCHost EXCEPT !.dram = 0, !.hyperthreaded = "false", !.linkspeed = Text, !.swapout = 0,
                           !.threads = 0, !.core_util = 0, !.capacity = 0,
                           !.vcpus_allocated = NoData, !.memory_allocated = NoData],
     v1 |-> [vcpus |-> 4, memory |-> 24], v2 |-> MCVm, v3 |-> MCVm,
     cluster |-> [vms_per_host |-> 2, vmotions |-> 1, total_imbalance |-> 900, overcommit |-> 2]]

MCDefault == [cpu_pct |-> 50, memory_pct |-> 50, memory_cap |-> 8]
\* At the limits of the ranges, beyond them, and no number.
MCSettings ==
    {[cpu_pct |-> p, memory_pct |-> p, memory_cap |-> 9] : p \in {100, NaN}}
    \cup {[cpu_pct |-> 1, memory_pct |-> 100, memory_cap |-> NaN],
          [cpu_pct |-> 200, memory_pct |-> 0, memory_cap |-> Text]}

MCSamples == [h \in {"h0", "h1", "h2"} |->
                 [v \in {1, 2, 9} |->
                     CASE h = "h0" -> 0 [] h = "h1" -> IF v = 1 THEN 9 ELSE 1
                       [] h = "h2" -> IF v = 1 THEN 9 ELSE 2]]
================================================================================
