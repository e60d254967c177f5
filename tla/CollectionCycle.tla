---------------------------- MODULE CollectionCycle ----------------------------
(***************************************************************************)
(* One run of adapter.collect(): the calls it makes, the counters in       *)
(* CALL_STATS, the Collection Health handler, the per-cluster try/except   *)
(* and the error the result carries.  The adapter is single-threaded; what *)
(* varies is what every Suite API request comes to, what the inventory     *)
(* contains each time it is asked for, and where an exception is raised.   *)
(*                                                                         *)
(* Metric values are left out: a read matters here only for how many       *)
(* requests it sends, how many fail and whether it raises.                 *)
(***************************************************************************)
EXTENDS Integers, FiniteSets

CONSTANTS
    Cluster,        \* the clusters VCF Operations may list
    Host,           \* the hosts it may return as children of a cluster
    Vm,             \* the virtual machines it may return as children of a host
    Settings,       \* the adapter instance's number settings
    MaxRequests,    \* bound: most requests (pages, chunks) of one read
    NoCluster       \* the current cluster when none is being read

ASSUME ClusterHostAssumption == Cluster \cap Host = {} /\ NoCluster \notin Cluster
ASSUME FiniteAssumption == IsFiniteSet(Cluster) /\ IsFiniteSet(Host) /\ IsFiniteSet(Settings)
ASSUME RequestAssumption == MaxRequests \in Nat \ {0}

VARIABLES
    pc,             \* the statement collect() is at
    calls,          \* CALL_STATS.calls
    failures,       \* CALL_STATS.failures
    inventoryCalls, \* CALL_STATS.calls when the inventory is complete
    clusters,       \* the clusters the first inventory query listed
    clusterKeys,    \* clusters with a usable resourceKey in the second one
    hostKeys,       \* hosts with a usable resourceKey in the third one
    todo,           \* clusters the for loop has not reached
    cluster,        \* the cluster being collected
    hostsOf,        \* the hosts read for each cluster: snap.hosts
    left,           \* hosts the current loop over snap.hosts has not reached
    vms,            \* the VMs read for the cluster's hosts: vm_ids
    poweredOn,      \* those whose power state was read as powered on
    failedClusters, \* failed_clusters
    written,        \* native objects that hold attributes in the result
    exc,            \* the exception that is leaving the with block
    error,          \* the result's error message, by the statement that set it
    handlers,       \* the counting handlers on the root logger
    count,          \* CollectionHealth.count
    sent,           \* the native objects of the JSON the cycle returned
    logged,         \* history: WARNING+ records logged since collect() began
    statsReplies    \* history: what stats requests have come to

stats     == <<calls, failures>>
inventory == <<clusters, clusterKeys, hostKeys, inventoryCalls>>
snapshot  == <<hostsOf, left, vms, poweredOn>>
health    == <<handlers, count, logged>>
outcome   == <<exc, error, sent>>
vars == <<pc, stats, inventory, todo, cluster, snapshot, failedClusters,
          written, health, outcome, statsReplies>>

Exceptions == {"none", "suiteApi", "unexpected"}
Errors == Exceptions \cup {"noClient", "allClusters", "allCalls"}
CallSteps == {"children", "vms", "hostProps", "vmProps",
              "clusterStats", "hostStats", "vmStats"}
ClusterSteps == CallSteps \cup {"metrics", "projectCluster", "projectHosts"}
InventorySteps == {"clusters", "clusterKeys", "hostKeys"}
Steps == {"start", "enter"} \cup InventorySteps \cup {"loop"} \cup ClusterSteps
         \cup {"leave", "publish", "done"}

--------------------------------------------------------------------------------
(***************************************************************************)
(* What the requests of one read come to: so many answered, so many        *)
(* refused with a non-2xx status (_request returns None), and then the end *)
(* of the read, by returning, by an exception out of the last request, or  *)
(* by one raised while parsing a body that did arrive.                     *)
(***************************************************************************)
Requests(n) ==
    {b \in [answered : 0..n, refused : 0..n, ending : {"returned", "raised", "malformed"}] :
        /\ b.answered + b.refused <= n
        /\ b.ending = "returned"  => b.answered + b.refused > 0
        /\ b.ending = "raised"    => b.answered + b.refused < n
        /\ b.ending = "malformed" => b.answered > 0}

Failed(b) == IF b.ending = "raised" THEN b.refused + 1 ELSE b.refused
\* Mutant: a request is counted once its response is there.
CountOnReply(b) == calls' = calls + b.answered /\ failures' = failures + Failed(b)

Count(b) == /\ calls' = calls + b.answered + Failed(b)
            /\ failures' = failures + Failed(b)

\* n WARNING+ records: an attached handler counts them.
Log(n) == /\ logged' = logged + n
          /\ count' = IF handlers # {} THEN count + n ELSE count
          /\ UNCHANGED handlers

\* Mutants: the try is around the loop; only the exception itself is logged.
FailClusterEndsLoop(records) ==
    /\ failedClusters' = failedClusters \cup {cluster}
    /\ Log(records + 2)
    /\ pc' = "leave"
FailClusterLogsOnce(records) ==
    /\ failedClusters' = failedClusters \cup {cluster}
    /\ Log(records + 1)
    /\ pc' = "loop"

\* An exception out of the body of the for loop: two records, next cluster.
FailCluster(records) ==
    /\ failedClusters' = failedClusters \cup {cluster}
    /\ Log(records + 2)
    /\ pc' = "loop"

--------------------------------------------------------------------------------
Init ==
    /\ pc = "start"
    /\ calls = 0 /\ failures = 0 /\ inventoryCalls = 0
    /\ clusters = {} /\ clusterKeys = {} /\ hostKeys = {}
    /\ todo = {} /\ cluster = NoCluster
    /\ hostsOf = [c \in Cluster |-> {}]
    /\ left = {} /\ vms = {} /\ poweredOn = {}
    /\ failedClusters = {} /\ written = {}
    /\ exc = "none" /\ error = "none"
    /\ handlers = {} /\ count = 0
    /\ sent = {} /\ logged = 0
    /\ statsReplies = {}

\* get_suite_api_client() gave no client.
NoClient ==
    /\ pc = "start"
    /\ error' = "noClient"
    /\ pc' = "publish"
    /\ UNCHANGED <<stats, inventory, todo, cluster, snapshot, failedClusters,
                   written, health, exc, sent, statsReplies>>

\* The settings are read, each invalid one with a warning, and the counters reset.
ReadSettings ==
    /\ pc = "start"
    /\ \E invalid \in SUBSET Settings : Log(Cardinality(invalid))
    /\ calls' = 0 /\ failures' = 0
    /\ pc' = "enter"
    /\ UNCHANGED <<inventory, todo, cluster, snapshot, failedClusters,
                   written, outcome, statsReplies>>

\* `with health, client`: the handler is attached before the client is entered
\* and is off again when entering it raises.
EnterClient ==
    /\ pc = "enter"
    /\ \/ /\ handlers' = handlers \cup {"counting"}
          /\ pc' = "clusters"
          /\ UNCHANGED <<count, logged, error>>
       \/ /\ error' = "unexpected"
          /\ pc' = "publish"
          /\ Log(2)
    /\ UNCHANGED <<stats, inventory, todo, cluster, snapshot, failedClusters,
                   written, exc, sent, statsReplies>>

--------------------------------------------------------------------------------
(***************************************************************************)
(* The three inventory queries.  A refused page raises SuiteApiError, so   *)
(* it is the last one; any other exception is unexpected.                  *)
(***************************************************************************)
Pages == {b \in Requests(MaxRequests) :
             b.refused = 0 \/ (b.refused = 1 /\ b.ending = "returned")}
Complete(b) == b.refused = 0 /\ b.ending = "returned"

\* Mutant: a refused page is an empty one, as with the SDK's paged_post().
QueryAsNoData(b, nextStep) ==
    /\ Count(b)
    /\ Log(Failed(b))
    /\ IF b.ending = "returned"
       THEN pc' = nextStep /\ UNCHANGED exc
       ELSE pc' = "leave" /\ exc' = "unexpected"
    /\ UNCHANGED <<cluster, snapshot, failedClusters, written, error, sent, statsReplies>>

Query(b, nextStep) ==
    /\ Count(b)
    /\ Log(Failed(b))
    /\ IF Complete(b)
       THEN pc' = nextStep /\ UNCHANGED exc
       ELSE /\ pc' = "leave"
            /\ exc' = IF b.refused = 1 THEN "suiteApi" ELSE "unexpected"
    /\ UNCHANGED <<cluster, snapshot, failedClusters, written, error, sent, statsReplies>>

FetchClusters ==
    /\ pc = "clusters"
    /\ \E b \in Pages, list \in SUBSET Cluster :
        /\ ~Complete(b) => list = {}
        /\ clusters' = list
        /\ todo' = list
        /\ Query(b, "clusterKeys")
    /\ UNCHANGED <<clusterKeys, hostKeys, inventoryCalls>>

FetchClusterKeys ==
    /\ pc = "clusterKeys"
    /\ \E b \in Pages, keys \in SUBSET Cluster :
        /\ ~Complete(b) => keys = {}
        /\ clusterKeys' = keys
        /\ Query(b, "hostKeys")
    /\ UNCHANGED <<clusters, hostKeys, inventoryCalls, todo>>

FetchHostKeys ==
    /\ pc = "hostKeys"
    /\ \E b \in Pages, keys \in SUBSET Host :
        /\ ~Complete(b) => keys = {}
        /\ hostKeys' = keys
        /\ inventoryCalls' = IF Complete(b) THEN calls + b.answered ELSE inventoryCalls
        /\ Query(b, "loop")
    /\ UNCHANGED <<clusters, clusterKeys, todo>>

--------------------------------------------------------------------------------
(***************************************************************************)
(* fetch_cluster_snapshot(), call by call.  A refused request leaves its   *)
(* part of the snapshot empty and the read goes on.                        *)
(***************************************************************************)
\* Mutant: the power states read for the cluster before are kept.
NextClusterKeepsPower ==
    /\ pc = "loop"
    /\ \E c \in todo : cluster' = c /\ todo' = todo \ {c}
    /\ left' = {} /\ vms' = {}
    /\ pc' = "children"
    /\ UNCHANGED <<stats, inventory, hostsOf, poweredOn, failedClusters, written, health,
                   outcome, statsReplies>>

NextCluster ==
    /\ pc = "loop"
    /\ \E c \in todo :
        /\ cluster' = c
        /\ todo' = todo \ {c}
    /\ left' = {} /\ vms' = {} /\ poweredOn' = {}
    /\ pc' = "children"
    /\ UNCHANGED <<stats, inventory, hostsOf, failedClusters, written, health,
                   outcome, statsReplies>>

Read(b, nextStep) ==
    /\ Count(b)
    /\ IF b.ending = "returned"
       THEN pc' = nextStep /\ Log(Failed(b)) /\ UNCHANGED failedClusters
       ELSE FailCluster(Failed(b))
    /\ UNCHANGED <<inventory, todo, cluster, written, outcome>>

ReadChildren ==
    /\ pc = "children"
    /\ \E b \in Requests(1), hosts \in SUBSET Host :
        /\ b.answered = 0 => hosts = {}
        /\ hostsOf' = [hostsOf EXCEPT ![cluster] = hosts]
        /\ left' = hosts
        /\ Read(b, IF hosts = {} THEN "clusterStats" ELSE "vms")
    /\ UNCHANGED <<vms, poweredOn, statsReplies>>

ReadHostVms ==
    /\ pc = "vms"
    /\ \E h \in left, b \in Requests(1), children \in SUBSET Vm :
        /\ b.answered = 0 => children = {}
        /\ vms' = vms \cup children
        /\ left' = left \ {h}
        /\ Read(b, IF left = {h} THEN "hostProps" ELSE "vms")
    /\ UNCHANGED <<hostsOf, poweredOn, statsReplies>>

ReadHostProperties ==
    /\ pc = "hostProps"
    /\ \E b \in Requests(MaxRequests) :
        Read(b, IF vms # {} THEN "vmProps" ELSE "clusterStats")
    /\ UNCHANGED <<snapshot, statsReplies>>

ReadVmProperties ==
    /\ pc = "vmProps"
    /\ \E b \in Requests(MaxRequests), on \in SUBSET vms :
        /\ b.answered = 0 => on = {}
        /\ poweredOn' = on
        /\ Read(b, "clusterStats")
    /\ UNCHANGED <<hostsOf, left, vms, statsReplies>>

\* The cluster's stats, then its hosts', then its powered-on VMs', where there are any.
ReadStats ==
    /\ pc \in {"clusterStats", "hostStats", "vmStats"}
    /\ \E b \in Requests(IF pc = "clusterStats" THEN 1 ELSE MaxRequests) :
        /\ statsReplies' = statsReplies \cup (IF b.answered > 0 THEN {"answered"} ELSE {})
                                       \cup (IF Failed(b) > 0 THEN {"failed"} ELSE {})
        /\ Read(b, IF pc = "clusterStats" /\ hostsOf[cluster] # {} THEN "hostStats"
                   ELSE IF pc = "hostStats" /\ poweredOn # {} THEN "vmStats"
                   ELSE "metrics")
    /\ UNCHANGED snapshot

--------------------------------------------------------------------------------
(***************************************************************************)
(* The metrics of the snapshot, then the projection of the cluster and of  *)
(* each host.  A value of the wrong type raises wherever it is first used, *)
(* so a cluster may fail after some of its objects have been written.      *)
(***************************************************************************)
ComputeMetrics ==
    /\ pc = "metrics"
    /\ \/ /\ Log(IF hostsOf[cluster] = {} THEN 1 ELSE 0)
          /\ pc' = "projectCluster"
          /\ UNCHANGED failedClusters
       \/ FailCluster(0)
    /\ UNCHANGED <<stats, inventory, todo, cluster, snapshot, written, outcome, statsReplies>>

\* Mutant: an object that cannot be matched is skipped without a word.
ProjectSilently(object, keys) ==
    /\ written' = IF object \in keys THEN written \cup {object} ELSE written
    /\ Log(0)

\* native_projection.project(): without a usable resourceKey native_object()
\* and collect() log one warning each and nothing is written.
Project(object, keys) ==
    IF object \in keys
    THEN written' = written \cup {object} /\ Log(0)
    ELSE Log(2) /\ UNCHANGED written

ProjectCluster ==
    /\ pc = "projectCluster"
    /\ \/ /\ Project(cluster, clusterKeys)
          /\ left' = hostsOf[cluster]
          /\ pc' = "projectHosts"
          /\ UNCHANGED failedClusters
       \/ FailCluster(0) /\ UNCHANGED <<written, left>>
    /\ UNCHANGED <<stats, inventory, todo, cluster, hostsOf, vms, poweredOn,
                   outcome, statsReplies>>

\* Mutant: a host that cannot be matched is tried again.
ProjectHostAgain ==
    /\ pc = "projectHosts"
    /\ \E h \in left : IF h \in hostKeys
                       THEN Project(h, hostKeys) /\ left' = left \ {h}
                       ELSE UNCHANGED <<left, written, health>>
    /\ UNCHANGED <<pc, stats, inventory, todo, cluster, hostsOf, vms, poweredOn,
                   failedClusters, outcome, statsReplies>>

ProjectHost ==
    /\ pc = "projectHosts"
    /\ \E h \in left :
        \/ /\ Project(h, hostKeys)
           /\ left' = left \ {h}
           /\ UNCHANGED <<pc, failedClusters>>
        \/ FailCluster(0) /\ UNCHANGED <<written, left>>
    /\ UNCHANGED <<stats, inventory, todo, cluster, hostsOf, vms, poweredOn,
                   outcome, statsReplies>>

EndCluster ==
    /\ pc = "projectHosts"
    /\ left = {}
    /\ pc' = "loop"
    /\ UNCHANGED <<stats, inventory, todo, cluster, snapshot, failedClusters,
                   written, health, outcome, statsReplies>>

--------------------------------------------------------------------------------
AllClustersFailed == clusters # {} /\ failedClusters = clusters

\* Mutant: the inventory queries' calls are not taken off.
EveryCallFailed == calls > inventoryCalls /\ failures = calls

AllCallsFailed == calls > inventoryCalls /\ failures = calls - inventoryCalls

ReportFailures ==
    /\ pc = "loop"
    /\ todo = {}
    /\ \/ AllClustersFailed /\ error' = "allClusters" /\ Log(0)
       \/ ~AllClustersFailed /\ AllCallsFailed /\ error' = "allCalls" /\ Log(0)
       \/ /\ ~AllClustersFailed
          /\ ~AllCallsFailed
          /\ Log((IF failedClusters # {} THEN 1 ELSE 0) + (IF failures > 0 THEN 1 ELSE 0))
          /\ UNCHANGED error
    /\ pc' = "leave"
    /\ UNCHANGED <<stats, inventory, todo, cluster, snapshot, failedClusters,
                   written, exc, sent, statsReplies>>

\* The client and then the handler are left; leaving the client may raise, in
\* place of the exception on its way out.  The except clauses log after that.
LeaveClient ==
    /\ pc = "leave"
    /\ handlers' = handlers \ {"counting"}
    /\ \E raised \in {exc, "unexpected"} :
        /\ error' = IF raised = "none" THEN error ELSE raised
        /\ logged' = logged + IF raised = "none" THEN 0
                              ELSE IF raised = "suiteApi" THEN 1 ELSE 2
    /\ exc' = "none"
    /\ pc' = "publish"
    /\ UNCHANGED <<stats, inventory, todo, cluster, snapshot, failedClusters,
                   written, count, sent, statsReplies>>

\* Mutant: what was collected is sent along with the error.
PublishDespiteError ==
    /\ pc = "publish"
    /\ sent' = written
    /\ pc' = "done"
    /\ UNCHANGED <<stats, inventory, todo, cluster, snapshot, failedClusters,
                   written, health, exc, error, statsReplies>>

\* _publish_collection_health() and the JSON that is returned: get_json() of a
\* result with an error carries no object.
Publish ==
    /\ pc = "publish"
    /\ sent' = IF error = "none" THEN written ELSE {}
    /\ pc' = "done"
    /\ UNCHANGED <<stats, inventory, todo, cluster, snapshot, failedClusters,
                   written, health, exc, error, statsReplies>>

\* The process is gone; the next cycle is a new one, from Init.
Terminated == pc = "done" /\ UNCHANGED vars

Next ==
    \/ NoClient \/ ReadSettings \/ EnterClient
    \/ FetchClusters \/ FetchClusterKeys \/ FetchHostKeys
    \/ NextCluster \/ ReadChildren \/ ReadHostVms
    \/ ReadHostProperties \/ ReadVmProperties \/ ReadStats
    \/ ComputeMetrics \/ ProjectCluster \/ ProjectHost \/ EndCluster
    \/ ReportFailures \/ LeaveClient \/ Publish \/ Terminated

Spec == Init /\ [][Next]_vars
FairSpec == Spec /\ WF_vars(Next)

--------------------------------------------------------------------------------
\* Types, and which parts of the state go together at which statement.
TypeOK ==
    /\ pc \in Steps
    /\ calls \in Nat /\ failures \in Nat /\ inventoryCalls \in Nat
    /\ clusters \subseteq Cluster /\ clusterKeys \subseteq Cluster /\ hostKeys \subseteq Host
    /\ todo \subseteq clusters
    /\ cluster \in Cluster \cup {NoCluster}
    /\ hostsOf \in [Cluster -> SUBSET Host]
    /\ left \subseteq Host /\ vms \subseteq Vm /\ poweredOn \subseteq vms
    /\ failedClusters \subseteq clusters
    /\ written \subseteq Cluster \cup Host
    /\ exc \in Exceptions /\ error \in Errors
    /\ handlers \subseteq {"counting"} /\ count \in Nat
    /\ sent \subseteq Cluster \cup Host /\ logged \in Nat
    /\ statsReplies \subseteq {"answered", "failed"}

Healthy == pc = "done" /\ error = "none" /\ count = 0

(* The arithmetic of _report_failures(): "every failure counted from here   *)
(* on is a per-cluster call", so that failures = calls - inventoryCalls can *)
(* only mean that each of those calls failed.                               *)
FailuresAreClusterCalls ==
    pc \in ClusterSteps \cup {"loop"} => failures <= calls - inventoryCalls

(* A cycle that reports no error and no warning lost nothing: no request    *)
(* failed, every listed cluster was collected, had hosts, and is in the     *)
(* result with all of its hosts.                                            *)
HealthyMeansComplete ==
    Healthy => /\ failures = 0
               /\ failedClusters = {}
               /\ \A c \in clusters : hostsOf[c] # {} /\ {c} \cup hostsOf[c] \subseteq sent

(* "One cluster failing must never lose the others": unless the whole cycle *)
(* is an error, each cluster that did not fail is in the result with its    *)
(* hosts, those without a native resourceKey excepted.                      *)
FailureIsIsolated ==
    pc = "done" /\ error = "none" =>
        \A c \in clusters \ failedClusters :
            ({c} \cap clusterKeys) \cup (hostsOf[c] \cap hostKeys) \subseteq sent

(* Total failure is an error and nothing is sent: an inventory query that   *)
(* failed, every cluster failed, or every later request failed.             *)
TotalFailureIsError ==
    pc = "done" /\ (\/ failures > 0 /\ inventoryCalls = 0
                    \/ AllClustersFailed
                    \/ calls > inventoryCalls /\ failures = calls - inventoryCalls) =>
        error # "none" /\ sent = {}

(* Every failed request is in the published count once and every failed     *)
(* cluster twice, however the cycle ends.                                   *)
FailuresAreCounted == count >= failures + 2 * Cardinality(failedClusters)

(* Every cycle ends, whatever the calls come to.                            *)
CycleEnds == <>(pc = "done")

--------------------------------------------------------------------------------
(* README, "When collection fails": every stats call failing is a total     *)
(* failure and an error.  The code asks for every call, and the             *)
(* relationships and properties calls of the cycle count among them.        *)
NoStatsIsError == pc = "done" /\ statsReplies = {"failed"} => error # "none"
================================================================================
