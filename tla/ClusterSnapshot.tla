---------------------------- MODULE ClusterSnapshot ----------------------------
(***************************************************************************)
(* One cluster as a collection cycle sees it: fetch_cluster_snapshot()     *)
(* reads it request by request while its VMs are migrated and switched on  *)
(* and off, and collect_cluster_and_host_metrics() computes from what came *)
(* back.  Any request may be refused, and any stat may be stale.           *)
(*                                                                         *)
(* The VM metrics are the CPU ones; ClusterMetrics has the others.  The    *)
(* cluster's own stats are one request whose values nothing else depends   *)
(* on, and are left out.                                                   *)
(***************************************************************************)
EXTENDS Ratios

CONSTANTS
    Host,           \* the hosts of the cluster
    Vm,
    VCpus,          \* VM_NUM_CPU_STATKEY of each VM
    Cores,          \* HOST_CPU_CORES_STATKEY of each host
    Hyperthreaded,  \* the hosts whose two HT properties are "true"
    RunningThreads, \* CPU_UTILIZATION_STATKEY of each host, times its cores
    RunningCores,   \* HOST_CPU_CORE_UTILIZATION_STATKEY of each, times its cores
    MonsterPct,     \* monster.cpu_pct
    MaxChanges      \* bound: migrations and power operations during the read

ASSUME VmAssumption ==
    /\ IsFiniteSet(Host) /\ IsFiniteSet(Vm) /\ Host # {} /\ Host \cap Vm = {}
    /\ VCpus \in [Vm -> Nat \ {0}] /\ Cores \in [Host -> Nat \ {0}]
    /\ Hyperthreaded \subseteq Host
    /\ RunningThreads \in [Host -> Nat] /\ RunningCores \in [Host -> Nat]
    /\ MonsterPct \in 1..100 /\ MaxChanges \in Nat

VARIABLES
    where,          \* the host each VM is on
    power,          \* its power state
    changes,        \* how often either has changed during the read
    moved,          \* history: the VMs migrated during the read
    switched,       \* history: the VMs switched on or off during the read
    step,           \* the read that is next
    hosts,          \* snap.hosts
    unread,         \* the hosts whose VMs have not been asked for
    all_vms,        \* the VMs read for each host
    props,          \* the hosts whose HT properties, and the VMs whose "Powered On", came back
    stats,          \* the <<stat, resource>> that came back fresh
    allocated,      \* the native vCPU allocation of each host, where it came back
    metrics,        \* host_records, and the cluster's worst
    lost            \* history: what was asked for and did not come back

world == <<where, power, changes, moved, switched>>
snap == <<hosts, unread, all_vms, props, stats, allocated>>
vars == <<world, step, snap, metrics, lost>>

--------------------------------------------------------------------------------
VCpusOf(vms) == MapThenSumSet(LAMBDA v : VCpus[v], vms)

host_cpu_imbalance_ratio(h, known, hyperthreaded) ==
    IF ~known THEN NoData
    ELSE LET threads == IF hyperthreaded THEN 2 * RunningThreads[h] ELSE RunningThreads[h]
         IN  IF RunningCores[h] = 0 THEN (IF threads = 0 THEN One ELSE NoData)
             ELSE Ratio(threads, RunningCores[h])

--------------------------------------------------------------------------------
Init ==
    /\ where \in [Vm -> Host] /\ power \in [Vm -> {"on", "off"}]
    /\ changes = 0 /\ moved = {} /\ switched = {}
    /\ step = "children"
    /\ hosts = {} /\ unread = {} /\ all_vms = [h \in Host |-> {}]
    /\ props = {} /\ stats = {} /\ allocated = [h \in Host |-> NoData]
    /\ metrics = [h \in {} |-> {}] /\ lost = {}

Change ==
    /\ step # "done"
    /\ changes < MaxChanges /\ changes' = changes + 1
    /\ UNCHANGED <<step, snap, metrics, lost>>

\* vMotion: the VM keeps running.
Migrate ==
    \E v \in Vm, h \in Host :
        /\ power[v] = "on" /\ where[v] # h
        /\ where' = [where EXCEPT ![v] = h]
        /\ moved' = moved \cup {v}
        /\ UNCHANGED <<power, switched>>
        /\ Change

SwitchPower ==
    \E v \in Vm :
        /\ power' = [power EXCEPT ![v] = IF @ = "on" THEN "off" ELSE "on"]
        /\ switched' = switched \cup {v}
        /\ UNCHANGED <<where, moved>>
        /\ Change

\* fetch_child_hosts()
ReadChildren ==
    /\ step = "children"
    /\ \/ /\ hosts' = Host /\ unread' = Host
          /\ step' = "vms"
          /\ UNCHANGED lost
       \/ /\ lost' = {<<"children", "cluster">>}
          /\ step' = "metrics"
          /\ UNCHANGED <<hosts, unread>>
    /\ UNCHANGED <<world, all_vms, props, stats, allocated, metrics>>

\* fetch_children_of_kind() for one host after another.
ReadHostVms ==
    /\ step = "vms"
    /\ \E h \in unread :
        /\ unread' = unread \ {h}
        /\ \/ /\ all_vms' = [all_vms EXCEPT ![h] = {v \in Vm : where[v] = h}]
              /\ UNCHANGED lost
           \/ /\ lost' = lost \cup {<<"vms", h>>}
              /\ UNCHANGED all_vms
    /\ step' = IF unread' = {} THEN "props" ELSE "vms"
    /\ UNCHANGED <<world, hosts, props, stats, allocated, metrics>>

vm_ids == UNION {all_vms[h] : h \in hosts}

\* Mutant: a VM without the property counts as on.
ReadPropertiesUnlessOff ==
    /\ step = "props"
    /\ \E refused \in SUBSET (hosts \cup vm_ids) :
        /\ props' = (Hyperthreaded \ refused) \cup {v \in vm_ids : power[v] = "on" \/ v \in refused}
        /\ lost' = lost \cup {<<"props", x>> : x \in refused}
    /\ step' = "hostStats"
    /\ UNCHANGED <<world, hosts, unread, all_vms, stats, allocated, metrics>>

\* bulk_latest_properties() of the hosts, then of the VMs, where there are any.
ReadProperties ==
    /\ step = "props"
    /\ \E refused \in SUBSET (hosts \cup vm_ids) :
        /\ props' = (Hyperthreaded \cup {v \in vm_ids : power[v] = "on"}) \ refused
        /\ lost' = lost \cup {<<"props", x>> : x \in refused}
    /\ step' = "hostStats"
    /\ UNCHANGED <<world, hosts, unread, all_vms, stats, allocated, metrics>>

HostStats == {"cores", "utilization"}

\* bulk_latest_stats() of the hosts: any of them may be refused, or stale, and
\* the native allocation may not be collected at all.
ReadHostStats ==
    /\ step = "hostStats"
    /\ \E missing \in SUBSET (HostStats \X hosts), native \in SUBSET hosts :
        /\ stats' = (HostStats \X hosts) \ missing
        /\ lost' = lost \cup missing
        /\ allocated' = [h \in Host |->
               IF h \in native THEN VCpusOf({v \in Vm : where[v] = h /\ power[v] = "on"})
               ELSE NoData]
    /\ step' = "vmStats"
    /\ UNCHANGED <<world, hosts, unread, all_vms, props, metrics>>

\* Mutant: the VMs that are off count too.
vms_on_or_off(h) == all_vms[h]

vms_by_host(h) == all_vms[h] \cap props
powered_on == UNION {vms_by_host(h) : h \in hosts}

\* Mutant: the stats of every VM are read.
ReadAllVmStats ==
    /\ step = "vmStats"
    /\ \E missing \in SUBSET vm_ids :
        /\ stats' = stats \cup ({"vcpus"} \X (vm_ids \ missing))
        /\ lost' = lost \cup ({"vcpus"} \X missing)
    /\ step' = "metrics"
    /\ UNCHANGED <<world, hosts, unread, all_vms, props, allocated, metrics>>

\* bulk_latest_stats() of the powered-on VMs.
ReadVmStats ==
    /\ step = "vmStats"
    /\ \E missing \in SUBSET powered_on :
        /\ stats' = stats \cup ({"vcpus"} \X (powered_on \ missing))
        /\ lost' = lost \cup ({"vcpus"} \X missing)
    /\ step' = "metrics"
    /\ UNCHANGED <<world, hosts, unread, all_vms, props, allocated, metrics>>

\* One host's row of collect_cluster_and_host_metrics().
HostMetrics(h) ==
    LET cores == IF <<"cores", h>> \in stats THEN Cores[h] ELSE 0
        known == {v \in vms_by_host(h) : <<"vcpus", v>> \in stats}
        host_total_vcpu == IF allocated[h] # NoData THEN allocated[h] ELSE VCpusOf(known)
    IN  [monster |-> monster_size_ratio({VCpus[v] : v \in known}, cores * MonsterPct,
                                        Cardinality(vms_by_host(h))),
         overcommit |-> IF cores = 0 THEN NoData ELSE Ratio(host_total_vcpu, cores),
         imbalance |-> host_cpu_imbalance_ratio(h, cores # 0 /\ <<"utilization", h>> \in stats,
                                                h \in props)]

ComputeMetrics ==
    /\ step = "metrics"
    /\ metrics' = [h \in hosts |-> HostMetrics(h)]
    /\ step' = "done"
    /\ UNCHANGED <<world, snap, lost>>

\* The metrics the cluster takes from its hosts: the worst of those known.
ClusterMetric(m) == _worst({metrics[h][m] : h \in hosts})

\* The next cluster is another behaviour.
Terminated == step = "done" /\ UNCHANGED vars

Next == \/ Migrate \/ SwitchPower
        \/ ReadChildren \/ ReadHostVms \/ ReadProperties \/ ReadHostStats \/ ReadVmStats
        \/ ComputeMetrics \/ Terminated

Spec == Init /\ [][Next]_vars

--------------------------------------------------------------------------------
Requests == {<<"children", "cluster">>} \cup ({"vms"} \X Host) \cup ({"props"} \X (Host \cup Vm))
            \cup (HostStats \X Host) \cup ({"vcpus"} \X Vm)

TypeOK ==
    /\ where \in [Vm -> Host] /\ power \in [Vm -> {"on", "off"}]
    /\ changes \in 0..MaxChanges /\ moved \subseteq Vm /\ switched \subseteq Vm
    /\ step \in {"children", "vms", "props", "hostStats", "vmStats", "metrics", "done"}
    /\ hosts \in {{}, Host} /\ unread \subseteq hosts
    /\ all_vms \in [Host -> SUBSET Vm]
    /\ props \subseteq Host \cup vm_ids
    /\ stats \subseteq (HostStats \X hosts) \cup ({"vcpus"} \X powered_on)
    /\ allocated \in [Host -> Nat \cup {NoData}]
    /\ DOMAIN metrics = (IF step = "done" THEN hosts ELSE {})
    /\ lost \subseteq Requests

\* What the metrics should be, of the VMs that are on.
RunningOn(h) == {v \in Vm : where[v] = h /\ power[v] = "on"}
Actual(h) ==
    [monster    |-> IF RunningOn(h) = {} THEN Zero
                    ELSE Ratio(100 * Max({VCpus[v] : v \in RunningOn(h)}), Cores[h] * MonsterPct),
     overcommit |-> Ratio(VCpusOf(RunningOn(h)), Cores[h]),
     imbalance  |-> host_cpu_imbalance_ratio(h, TRUE, h \in Hyperthreaded)]
Metrics == {"monster", "overcommit", "imbalance"}

(* However requests fail and stats go missing, no metric shows more risk    *)
(* than there is, while the VMs stay as they are: a failure never raises a  *)
(* false alarm.                                                             *)
FailureNeverOverstates ==
    step = "done" /\ changes = 0 =>
        \A h \in hosts, m \in Metrics :
            metrics[h][m] # NoData /\ Actual(h)[m] # NoData => AtMost(metrics[h][m], Actual(h)[m])

(* When nothing is lost and nothing moves, every metric of every host is    *)
(* exact, and the cluster shows its worst host.                             *)
CompleteReadIsExact ==
    step = "done" /\ changes = 0 /\ lost = {} =>
        /\ hosts = Host
        /\ \A h \in Host, m \in Metrics : Same(metrics[h][m], Actual(h)[m])
        /\ \A m \in Metrics : Same(ClusterMetric(m), _worst({Actual(h)[m] : h \in Host}))

(* Whatever the other VMs do between the reads, one that stays as it is     *)
(* counts on no host but its own; off, it counts nowhere; on, it counts     *)
(* unless a reply about it was lost.                                        *)
UnchangedVmIsCountedWhereItIs ==
    step \in {"hostStats", "vmStats"} =>
        \A v \in Vm \ (moved \cup switched) : \A h \in Host :
            v \in vms_by_host(h) <=> /\ where[v] = h /\ power[v] = "on"
                                     /\ {<<"vms", h>>, <<"props", v>>} \cap lost = {}

--------------------------------------------------------------------------------
(* README: "a value whose call failed has no data that cycle, never a       *)
(* guess".  A host whose VMs could not be read shows what a host with no    *)
(* powered-on VMs would.                                                    *)
NeverAGuess ==
    step = "done" /\ changes = 0 =>
        \A h \in hosts : <<"vms", h>> \in lost /\ RunningOn(h) # {} =>
            metrics[h].monster = NoData
================================================================================
