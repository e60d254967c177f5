----------------------------- MODULE ClusterMetrics ----------------------------
(***************************************************************************)
(* What the metrics of one cluster and its hosts come to when values are   *)
(* missing, in any combination: collect_cluster_and_host_metrics(), the    *)
(* derived metrics of cluster.py, and the settings they depend on.         *)
(*                                                                         *)
(* Memory is in one unit throughout; "contention" is every stat shown as   *)
(* it is.  Of the VM samples one of the four buckets is modelled, as a bag:*)
(* how often each value occurs.                                            *)
(***************************************************************************)
EXTENDS Ratios, Sequences, SequencesExt

CONSTANTS
    Hosts,          \* snap.hosts, in order
    VmsOf,          \* snap.vms_by_host
    Stored,         \* the stats and properties of each resource
    Samples,        \* the bag of samples of each host
    Default,        \* DEFAULT_MONSTER_VM_THRESHOLD_PCT, _MEMORY_PCT, _MEMORY_CAP_GB
    Settings,       \* bound: how the adapter instance may be set
    NaN, Text,      \* float("nan"), and what float() raises ValueError for
    MaxLost         \* bound: how many values are missing at a time

Host == ToSet(Hosts)
Cluster == "cluster"
SampleValue == UNION {DOMAIN Samples[h] : h \in Host}

\* The stats that are numbers when they have a value.
Number == Nat \cup {NoData}
HostNumbers == {"cores", "dram", "provisioned", "balloon", "threads", "core_util", "compressed",
                "swapout", "reserved", "capacity", "contention", "vcpus_allocated",
                "memory_allocated", "network"}
VmNumbers == {"vcpus", "memory"}
ClusterNumbers == {"vms_per_host", "vmotions", "total_imbalance", "overcommit"}

ASSUME MetricsAssumption ==
    /\ Hosts \in Seq(Host) /\ IsInjective(Hosts)
    /\ \A h \in Host : IsFiniteSet(VmsOf[h])
    /\ Host \cup {Cluster} \cup UNION {VmsOf[h] : h \in Host} \subseteq DOMAIN Stored
    /\ IsFiniteSet(SampleValue) /\ SampleValue \subseteq Nat
    /\ Samples \in [Host -> [SampleValue -> Nat]]
    /\ {"cpu_pct", "memory_pct", "memory_cap"} \subseteq DOMAIN Default
    /\ {Default.cpu_pct, Default.memory_pct} \subseteq 1..100 /\ Default.memory_cap \in Nat \ {0}
    /\ Settings \subseteq [DOMAIN Default -> Int \cup {NaN, Text}] /\ MaxLost \in Nat
    /\ \A x \in {NoData, NaN, Text} : x \notin Int /\ x \notin Int \X Int
    /\ NoData # NaN /\ NoData # Text /\ NaN # Text /\ NoData # "true"

\* The numbers of each resource; a link's speed may be no number.
ASSUME StoredAssumption ==
    /\ \A h \in Host :
           /\ HostNumbers \cup {"hyperthreaded", "linkspeed"} \subseteq DOMAIN Stored[h]
           /\ \A key \in HostNumbers : Stored[h][key] \in Number
           /\ Stored[h]["linkspeed"] = Text \/ Stored[h]["linkspeed"] \in Number
           /\ \A v \in VmsOf[h], key \in VmNumbers :
                  key \in DOMAIN Stored[v] /\ Stored[v][key] \in Number
    /\ \A key \in ClusterNumbers :
           key \in DOMAIN Stored[Cluster] /\ Stored[Cluster][key] \in Number

\* What is provisioned includes the DRAM (constants_shared.py:65-70), and what is
\* allocated is that of the powered-on VMs (constants_host.py:65-70).
ASSUME ConsistencyAssumption ==
    \A h \in Host :
        LET total(key) == MapThenSumSet(LAMBDA v : Stored[v][key],
                                        {v \in VmsOf[h] : Stored[v][key] # NoData})
        IN  /\ {Stored[h]["dram"], Stored[h]["provisioned"]} \subseteq Nat \ {0} =>
                   Stored[h]["dram"] <= Stored[h]["provisioned"]
            /\ Stored[h]["vcpus_allocated"] # NoData => total("vcpus") <= Stored[h]["vcpus_allocated"]
            /\ Stored[h]["memory_allocated"] # NoData => total("memory") <= Stored[h]["memory_allocated"]

VARIABLES
    setting,        \* the identifiers of the adapter instance, as written
    values,         \* what was read of each resource
    lost,           \* how many of them have no value in this cycle
    samples,        \* the samples read of each host
    host_records,   \* the metrics of each host, and of the cluster, computed of these
    metric_values

vars == <<setting, values, lost, samples, host_records, metric_values>>

stat(key, r) == values[r][key]
Truthy(x) == x \notin {NoData, 0}
Known(key, rs) == {r \in rs : stat(key, r) # NoData}
Sum(key, rs) == MapThenSumSet(LAMBDA r : stat(key, r), Known(key, rs))

--------------------------------------------------------------------------------
\* Settings.
NoLimit == NaN

\* Mutant: no upper limit.
_number_setting_from(key, low, high) ==
    LET raw == setting[key]
    IN  IF raw = Text \/ (raw # NaN /\ raw < low) THEN Default[key] ELSE raw

\* A comparison with NaN is false.
_number_setting(key, low, high) ==
    LET raw == setting[key]
    IN  IF raw = Text \/ (raw # NaN /\ (raw < low \/ (high # NoLimit /\ raw > high)))
        THEN Default[key] ELSE raw

cpu_pct == _number_setting("cpu_pct", 1, 100)
memory_pct == _number_setting("memory_pct", 1, 100)
memory_cap == _number_setting("memory_cap", 1, NoLimit)

\* host_cores * pct, and min(host_mem * pct, cap), in hundredths; min() keeps
\* its first argument unless the second is less.
cpu_monster_size(cores) == IF cpu_pct = NaN THEN NaN ELSE cores * cpu_pct
memory_monster(mem) ==
    IF memory_pct = NaN THEN NaN
    ELSE IF memory_cap # NaN /\ 100 * memory_cap < mem * memory_pct THEN 100 * memory_cap
    ELSE mem * memory_pct

\* A number divided by NaN is NaN, which is truthy.
MonsterRatio(sizes, size, vm_count) ==
    IF size = NaN /\ sizes # {} THEN NaN
    ELSE monster_size_ratio(sizes, IF size = NaN THEN 1 ELSE size, vm_count)

\* max() over the hosts keeps NaN if it comes first, and passes over it otherwise.
Highest(ratio) ==
    LET known == {i \in DOMAIN Hosts : ratio[Hosts[i]] # NoData}
    IN  IF known # {} /\ ratio[Hosts[Min(known)]] = NaN THEN NaN
        ELSE _worst({ratio[Hosts[i]] : i \in known} \ {NaN})

--------------------------------------------------------------------------------
\* The worst sample and the 90th percentile of a bag that is not empty.
Size(bag) == MapThenSumSet(LAMBDA v : bag[v], DOMAIN bag)
WorstSample(bag) == Max({v \in DOMAIN bag : bag[v] > 0})
AtRank(bag, rank) ==
    Min({v \in DOMAIN bag : MapThenSumSet(LAMBDA u : bag[u], {u \in DOMAIN bag : u <= v}) >= rank})

\* Mutant: the rank rounded down.
_percentile_below(bag) == AtRank(bag, Max({1, (9 * Size(bag)) \div 10}))
_percentile(bag) == AtRank(bag, (9 * Size(bag) + 9) \div 10)
cluster_vm_samples == [v \in SampleValue |-> MapThenSumSet(LAMBDA h : samples[h][v], Host)]

\* _worst_p90_into(): what the two metrics of a bag are.
WorstOf(bag) == IF Size(bag) = 0 THEN NoData ELSE Ratio(WorstSample(bag), 1)
P90Of(bag) == IF Size(bag) = 0 THEN NoData ELSE Ratio(_percentile(bag), 1)

--------------------------------------------------------------------------------
\* The metrics of a host.
AsIs(value) == IF value = NoData THEN NoData ELSE Ratio(value, 1)
Per(value, whole) == IF value = NoData \/ ~Truthy(whole) THEN NoData ELSE Ratio(value, whole)
Pct(value, whole) == Per(IF value = NoData THEN NoData ELSE 100 * value, whole)

\* Mutant: the provisioned memory first.
host_memory_capacity_provisioned(h) ==
    IF Truthy(stat("provisioned", h)) THEN stat("provisioned", h) ELSE stat("dram", h)

host_memory_capacity(h) ==
    IF Truthy(stat("dram", h)) THEN stat("dram", h) ELSE stat("provisioned", h)

host_zip_swap_pct(h) ==
    Pct(IF NoData \in {stat("compressed", h), stat("swapout", h)} THEN NoData
        ELSE stat("compressed", h) + stat("swapout", h), host_memory_capacity(h))

host_cpu_imbalance_ratio(h) ==
    LET cores == stat("cores", h)
        threads == stat("threads", h) * (IF stat("hyperthreaded", h) = "true" THEN 2 ELSE 1)
        running == stat("core_util", h)
    IN  IF NoData \in {stat("threads", h), running} \/ ~Truthy(cores) THEN NoData
        ELSE IF running = 0 THEN (IF threads = 0 THEN One ELSE NoData)
        ELSE Ratio(threads * cores, running * cores)

\* The native allocation, else the sum of the VMs that are known.
Allocated(native, key, h) ==
    IF stat(native, h) # NoData THEN stat(native, h) ELSE Sum(key, VmsOf[h])

Sizes(key, h) == {stat(key, v) : v \in Known(key, VmsOf[h])}

HostMetrics(h) ==
    LET cores == stat("cores", h)
        mem == host_memory_capacity(h)
        monster(key, size) == MonsterRatio(Sizes(key, h), size, Cardinality(VmsOf[h]))
    IN  [thread_utilization |-> AsIs(stat("threads", h)),
         contention |-> AsIs(stat("contention", h)),
         ballooned |-> Pct(stat("balloon", h), mem),
         cpu_reservation |-> Pct(stat("reserved", h), stat("capacity", h)),
         cpu_overcommit |-> Per(Allocated("vcpus_allocated", "vcpus", h), cores),
         memory_overcommit |-> Per(Allocated("memory_allocated", "memory", h), mem),
         cpu_monster |-> monster("vcpus", IF Truthy(cores) THEN cpu_monster_size(cores) ELSE 0),
         memory_monster |-> monster("memory", IF Truthy(mem) THEN memory_monster(mem) ELSE 0),
         zip_swap |-> host_zip_swap_pct(h),
         imbalance |-> host_cpu_imbalance_ratio(h),
         worst |-> WorstOf(samples[h]), p90 |-> P90Of(samples[h])]

--------------------------------------------------------------------------------
\* The metrics of the cluster.

\* Mutant: the share of what is provisioned.
_highest_host_ballooned_of_provisioned ==
    Highest([h \in Host |-> Pct(stat("balloon", h), stat("provisioned", h))])

_highest_host_ballooned_pct ==
    Highest([h \in Host |-> Pct(stat("balloon", h), host_memory_capacity(h))])
_highest_host_stat(key) == Highest([h \in Host |-> AsIs(stat(key, h))])

\* KBps, of Mbps.  A speed that is no number is skipped.
_network_throughput_pct ==
    Highest([h \in Host |->
        LET speed == IF stat("linkspeed", h) = Text THEN NoData ELSE stat("linkspeed", h)
        IN  IF stat("network", h) = NoData \/ ~Truthy(speed) THEN NoData
            ELSE Ratio(8 * stat("network", h), 10 * speed)])

_vmotion_pct ==
    IF stat("vms_per_host", Cluster) = NoData THEN NoData
    ELSE Pct(stat("vmotions", Cluster), stat("vms_per_host", Cluster) * Len(Hosts))

\* gather_metric_values() updated with the cluster_results.
ClusterMetrics(hosts) ==
    LET highest(m) == Highest([h \in Host |-> hosts[h][m]])
    IN  [thread_utilization |-> _highest_host_stat("threads"),
         ballooned |-> _highest_host_ballooned_pct,
         network |-> _network_throughput_pct,
         vmotion |-> _vmotion_pct,
         overcommit |-> AsIs(stat("overcommit", Cluster)),
         cpu_imbalance |-> Per(stat("total_imbalance", Cluster), 1000),
         contention |-> highest("contention"),
         cpu_monster |-> highest("cpu_monster"), memory_monster |-> highest("memory_monster"),
         zip_swap |-> highest("zip_swap"), imbalance |-> highest("imbalance"),
         worst |-> WorstOf(cluster_vm_samples), p90 |-> P90Of(cluster_vm_samples)]

--------------------------------------------------------------------------------
Init ==
    /\ setting \in Settings
    /\ values = Stored /\ lost = 0 /\ samples = Samples
    /\ host_records = [h \in Host |-> HostMetrics(h)]
    /\ metric_values = ClusterMetrics(host_records)

\* A request refused, a stat that is stale or not collected.
Lose ==
    /\ samples = Samples /\ lost < MaxLost /\ lost' = lost + 1
    /\ \E r \in DOMAIN Stored : \E key \in {k \in DOMAIN values[r] : stat(k, r) # NoData} :
           values' = [values EXCEPT ![r][key] = NoData]
    /\ UNCHANGED <<setting, samples>>
    /\ host_records' = [h \in Host |-> HostMetrics(h)']
    /\ metric_values' = ClusterMetrics(host_records)'

\* The same of a VM's stat that is a sample.  No metric is computed of a sample
\* and another value, so it is enough to lose one kind in a cycle.
LoseSample ==
    /\ lost = 0
    /\ \E h \in Host, v \in SampleValue : /\ samples[h][v] > 0
                                          /\ samples' = [samples EXCEPT ![h][v] = @ - 1]
    /\ UNCHANGED <<setting, values, lost>>
    /\ host_records' = [h \in Host |-> HostMetrics(h)']
    /\ metric_values' = ClusterMetrics(host_records)'

Next == Lose \/ LoseSample
Spec == Init /\ [][Next]_vars

--------------------------------------------------------------------------------
\* Between two numbers: NaN is neither above nor below.
NotRaised(before, after, bag, left) ==
    \A m \in DOMAIN before :
        \/ {before[m], after[m]} \cap {NoData, NaN} # {}
        \/ AtMost(after[m], before[m])
        \/ m = "p90" /\ \E v \in DOMAIN bag : left[v] < bag[v] /\ AtMost(Ratio(v, 1), before[m])

(* However many values go missing, and whatever is used in their place (the *)
(* provisioned memory for the DRAM, the sum of the VMs for the allocation,  *)
(* the other hosts for one), no metric is higher for it, the worst sample   *)
(* included.  The exception is the 90th percentile: without a sample at or  *)
(* below it, nine tenths of the others may reach further up.                *)
LosingNeverRaises ==
    [][/\ \A h \in Host : NotRaised(host_records[h], host_records'[h], samples[h], samples'[h])
       /\ NotRaised(metric_values, metric_values', cluster_vm_samples, cluster_vm_samples')]_vars

(* The cluster's metrics that have a path of their own through cluster.py   *)
(* are those of its worst host, whatever is missing.                        *)
ClusterIsItsWorstHost ==
    \A m \in {"thread_utilization", "ballooned"} :
        Same(metric_values[m], _worst({host_records[h][m] : h \in Host}))

(* Of a host with a VM as big as the host the monster metric is over the    *)
(* green limit of 1, or NaN, which is red; only at 100 percent, with a VM   *)
(* exactly as big, it is the limit.  The cluster's metric is no lower,      *)
(* unless the percentage is NaN.                                            *)
VmAsBigAsHostIsMonster ==
    \A h \in Host : \A v \in VmsOf[h] :
        LET big(key, whole, pct, m) ==
                LET ratio == host_records[h][m]
                IN  Truthy(whole) /\ stat(key, v) # NoData /\ stat(key, v) >= whole =>
                        /\ \/ ratio = NaN /\ pct = NaN
                           \/ pct # NaN /\ AtMost(ratio, metric_values[m])
                        /\ \/ ratio = NaN
                           \/ ~AtMost(ratio, One)
                           \/ pct = 100 /\ stat(key, v) = whole /\ AtMost(One, ratio)
        IN  /\ big("vcpus", stat("cores", h), cpu_pct, "cpu_monster")
            /\ big("memory", host_memory_capacity(h), memory_pct, "memory_monster")

(* The 90th percentile of the cluster's pooled samples lies between those   *)
(* of its hosts, and no percentile is above the worst sample.               *)
PooledPercentileIsBetween ==
    LET sampled == {h \in Host : Size(samples[h]) > 0}
        p90s == {_percentile(samples[h]) : h \in sampled}
    IN  sampled # {} =>
            /\ _percentile(cluster_vm_samples) \in Min(p90s)..Max(p90s)
            /\ Max(p90s) <= WorstSample(cluster_vm_samples)
================================================================================
