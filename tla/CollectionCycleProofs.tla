------------------------- MODULE CollectionCycleProofs -------------------------
(***************************************************************************)
(* Proofs about CollectionCycle for any clusters, hosts, settings and      *)
(* MaxRequests.                                                            *)
(***************************************************************************)
EXTENDS CollectionRefinement, FiniteSetTheorems, TLAPS

\* What a batch of requests can be, in the terms the counters need.
LEMMA RequestFacts ==
    ASSUME NEW n \in Nat, NEW b \in Requests(n)
    PROVE  /\ b.answered \in Nat /\ b.refused \in Nat /\ Failed(b) \in Nat
           /\ Complete(b) => Failed(b) = 0 /\ b.answered > 0
BY DEF Requests, Failed, Complete

\* The number of invalid settings is a number of records.
LEMMA SettingsFacts == \A invalid \in SUBSET Settings : Cardinality(invalid) \in Nat
BY FiniteAssumption, FS_Subset, FS_CardinalityType

--------------------------------------------------------------------------------
(***************************************************************************)
(* What holds at each statement.  TypeOK alone is not inductive: a cluster *)
(* that fails is one of the listed ones only because the loop took it from *)
(* the list.                                                               *)
(***************************************************************************)
Before == {"start", "enter"} \cup InventorySteps
After  == {"leave", "publish", "done"}
InLoop == ClusterSteps \cup {"loop"}

Control ==
    /\ handlers = IF pc \in InventorySteps \cup InLoop \cup {"leave"} THEN {"counting"} ELSE {}
    /\ pc \notin After => error = "none"
    /\ pc # "leave" => exc = "none"
    /\ pc # "done" => sent = {}
    /\ pc = "done" => sent = IF error = "none" THEN written ELSE {}
    /\ pc \in ClusterSteps => cluster \in clusters /\ cluster \notin todo
    /\ pc \in Before => failedClusters = {} /\ written = {} /\ inventoryCalls = 0
    /\ pc \in Before /\ clusters # {} => pc \in {"clusterKeys", "hostKeys"}
    /\ pc \in Before => todo = clusters
    /\ pc = "vms" => left # {}
    /\ pc \in ClusterSteps => left \subseteq hostsOf[cluster]

Base == TypeOK /\ Control

\* Types hold at the start.
LEMMA BaseInit == Init => Base
BY DEF Init, Base, TypeOK, Control, Before, After, InLoop, Steps, InventorySteps,
   ClusterSteps, CallSteps, Exceptions, Errors

\* Every action keeps the types.
LEMMA BaseStep == Base /\ [Next]_vars => Base'
<1> SUFFICES ASSUME Base, [Next]_vars PROVE Base'
  OBVIOUS
<1> USE RequestAssumption DEF Base, TypeOK, Control, Before, After, InLoop, Steps,
        InventorySteps, ClusterSteps, CallSteps, Exceptions, Errors, stats,
        inventory, snapshot, health, outcome
<1>1. CASE NoClient  BY <1>1 DEF NoClient
<1>2. CASE ReadSettings  BY <1>2, SettingsFacts DEF ReadSettings, Log
<1>3. CASE EnterClient  BY <1>3 DEF EnterClient, Log
<1>4. CASE FetchClusters
  <2> PICK b \in Pages, list \in SUBSET Cluster :
             clusters' = list /\ todo' = list /\ Query(b, "clusterKeys")
    BY <1>4 DEF FetchClusters
  <2> QED  BY <1>4, RequestFacts DEF FetchClusters, Query, Pages, Count, Log
<1>5. CASE FetchClusterKeys
  BY <1>5, RequestFacts DEF FetchClusterKeys, Query, Pages, Count, Log
<1>6. CASE FetchHostKeys
  BY <1>6, RequestFacts DEF FetchHostKeys, Query, Pages, Count, Log
<1>7. CASE NextCluster  BY <1>7 DEF NextCluster
<1>8. CASE ReadChildren
  BY <1>8, RequestFacts DEF ReadChildren, Read, FailCluster, Count, Log
<1>9. CASE ReadHostVms
  BY <1>9, RequestFacts DEF ReadHostVms, Read, FailCluster, Count, Log
<1>10. CASE ReadHostProperties
  BY <1>10, RequestFacts DEF ReadHostProperties, Read, FailCluster, Count, Log
<1>11. CASE ReadVmProperties
  BY <1>11, RequestFacts DEF ReadVmProperties, Read, FailCluster, Count, Log
<1>12. CASE ReadStats
  BY <1>12, RequestFacts DEF ReadStats, Read, FailCluster, Count, Log
<1>13. CASE ComputeMetrics  BY <1>13 DEF ComputeMetrics, FailCluster, Log
<1>14. CASE ProjectCluster  BY <1>14 DEF ProjectCluster, Project, FailCluster, Log
<1>15. CASE ProjectHost  BY <1>15 DEF ProjectHost, Project, FailCluster, Log
<1>16. CASE EndCluster  BY <1>16 DEF EndCluster
<1>17. CASE ReportFailures  BY <1>17 DEF ReportFailures, Log
<1>18. CASE LeaveClient  BY <1>18 DEF LeaveClient
<1>19. CASE Publish  BY <1>19 DEF Publish
<1>20. CASE UNCHANGED vars  BY <1>20 DEF vars
<1> QED
  BY <1>1, <1>2, <1>3, <1>4, <1>5, <1>6, <1>7, <1>8, <1>9, <1>10, <1>11, <1>12,
     <1>13, <1>14, <1>15, <1>16, <1>17, <1>18, <1>19, <1>20 DEF Next, Terminated

(* Types, and that the parts of the state belong together: a cluster under   *)
(* way is a listed one, a failed cluster too.                               *)
THEOREM TypeCorrect == Spec => []TypeOK
<1>1. Base => TypeOK  BY DEF Base
<1> QED  BY BaseInit, BaseStep, <1>1, PTL DEF Spec

--------------------------------------------------------------------------------
(***************************************************************************)
(* The counters.  No failure precedes the loop, because a failed inventory *)
(* query leaves the with block; and whatever failed has been logged while  *)
(* the handler was attached.                                               *)
(***************************************************************************)
NoTotalFailure == /\ todo = {} /\ inventoryCalls > 0
                  /\ ~AllClustersFailed /\ ~AllCallsFailed

Counters ==
    /\ pc \in Before => failures = 0
    /\ pc \in InLoop => inventoryCalls > 0 /\ failures <= calls - inventoryCalls
    /\ count = 0 => failures = 0 /\ failedClusters = {}
    /\ pc \in After /\ error = "none" /\ exc = "none" => NoTotalFailure

\* No call has been made.
LEMMA CountersInit == Init => Counters
BY DEF Init, Counters, Before, After, InLoop, InventorySteps, ClusterSteps, CallSteps

\* A read of the current cluster, whichever it is and whatever it comes to.
LEMMA ReadCounters ==
    ASSUME Base, Counters, pc \in ClusterSteps,
           NEW n \in Nat, NEW b \in Requests(n),
           NEW nextStep \in ClusterSteps, Read(b, nextStep)
    PROVE  Counters'
BY RequestFacts DEF Read, FailCluster, Count, Log, Base, TypeOK, Control, Counters,
   Before, After, InLoop, InventorySteps, ClusterSteps, CallSteps, inventory, outcome

\* Every action keeps the arithmetic of the counters.
LEMMA CountersStep == Base /\ Counters /\ [Next]_vars => Counters'
<1> SUFFICES ASSUME Base, Counters, [Next]_vars PROVE Counters'
  OBVIOUS
<1> USE RequestAssumption DEF Base, TypeOK, Control, Counters, NoTotalFailure,
        AllClustersFailed, AllCallsFailed, Before, After, InLoop, InventorySteps,
        ClusterSteps, CallSteps, stats, inventory, snapshot, health, outcome
<1>1. CASE NoClient  BY <1>1 DEF NoClient
<1>2. CASE ReadSettings  BY <1>2, SettingsFacts DEF ReadSettings, Log
<1>3. CASE EnterClient  BY <1>3 DEF EnterClient, Log
<1>4. CASE FetchClusters
  BY <1>4, RequestFacts DEF FetchClusters, Query, Pages, Count, Log
<1>5. CASE FetchClusterKeys
  BY <1>5, RequestFacts DEF FetchClusterKeys, Query, Pages, Count, Log
<1>6. CASE FetchHostKeys
  <2>1. PICK b \in Pages :
             /\ inventoryCalls' = IF Complete(b) THEN calls + b.answered ELSE inventoryCalls
             /\ Query(b, "loop")
    BY <1>6 DEF FetchHostKeys
  <2>2. b.answered \in Nat /\ Failed(b) \in Nat
        /\ (Complete(b) => Failed(b) = 0 /\ b.answered > 0)
    BY RequestFacts DEF Pages
  <2>3. CASE Complete(b)
    BY <1>6, <2>1, <2>2, <2>3 DEF FetchHostKeys, Query, Count, Log
  <2>4. CASE ~Complete(b)
    BY <1>6, <2>1, <2>2, <2>4 DEF FetchHostKeys, Query, Count, Log
  <2> QED  BY <2>3, <2>4
<1>7. CASE NextCluster  BY <1>7 DEF NextCluster
<1>8. CASE ReadChildren  BY <1>8, ReadCounters DEF ReadChildren
<1>9. CASE ReadHostVms
  <2>1. PICK h \in left, b \in Requests(1) : Read(b, IF left = {h} THEN "hostProps" ELSE "vms")
    BY <1>9 DEF ReadHostVms
  <2> QED  BY <1>9, <2>1, ReadCounters DEF ReadHostVms
<1>10. CASE ReadHostProperties  BY <1>10, ReadCounters DEF ReadHostProperties
<1>11. CASE ReadVmProperties  BY <1>11, ReadCounters DEF ReadVmProperties
<1>12. CASE ReadStats
  <2>1. PICK b \in Requests(IF pc = "clusterStats" THEN 1 ELSE MaxRequests),
             nextStep \in {"hostStats", "vmStats", "metrics"} : Read(b, nextStep)
    BY <1>12 DEF ReadStats
  <2> QED  BY <1>12, <2>1, ReadCounters DEF ReadStats
<1>13. CASE ComputeMetrics  BY <1>13 DEF ComputeMetrics, FailCluster, Log
<1>14. CASE ProjectCluster  BY <1>14 DEF ProjectCluster, Project, FailCluster, Log
<1>15. CASE ProjectHost  BY <1>15 DEF ProjectHost, Project, FailCluster, Log
<1>16. CASE EndCluster  BY <1>16 DEF EndCluster
<1>17. CASE ReportFailures  BY <1>17 DEF ReportFailures, Log
<1>18. CASE LeaveClient  BY <1>18 DEF LeaveClient
<1>19. CASE Publish  BY <1>19 DEF Publish
<1>20. CASE UNCHANGED vars  BY <1>20 DEF vars
<1> QED
  BY <1>1, <1>2, <1>3, <1>4, <1>5, <1>6, <1>7, <1>8, <1>9, <1>10, <1>11, <1>12,
     <1>13, <1>14, <1>15, <1>16, <1>17, <1>18, <1>19, <1>20 DEF Next, Terminated

\* Types and counters together are inductive.
LEMMA CountersInvariant == Spec => [](Base /\ Counters)
BY BaseInit, BaseStep, CountersInit, CountersStep, PTL DEF Spec

(* The arithmetic _report_failures() rests on: what has failed once the      *)
(* inventory is read is among the calls made since.                         *)
THEOREM FailuresAreClusterCallsAlways == Spec => []FailuresAreClusterCalls
<1>1. Counters => FailuresAreClusterCalls  BY DEF Counters, FailuresAreClusterCalls, InLoop
<1> QED  BY CountersInvariant, <1>1, PTL

(* A total failure is never reported as a healthy collection of nothing.    *)
THEOREM TotalFailureIsErrorAlways == Spec => []TotalFailureIsError
<1>1. Base /\ Counters => TotalFailureIsError
  BY DEF Base, TypeOK, Control, Counters, NoTotalFailure, AllCallsFailed, TotalFailureIsError, After
<1> QED  BY CountersInvariant, <1>1, PTL

--------------------------------------------------------------------------------
(***************************************************************************)
(* What has become of the clusters the loop has reached.  Kept is what one *)
(* that did not fail has in the result; Whole is what it has when nothing  *)
(* has been counted so far.                                                *)
(***************************************************************************)
Kept(c) == ({c} \cap clusterKeys) \cup (hostsOf[c] \cap hostKeys) \subseteq written
Whole(c) == hostsOf[c] # {} /\ {c} \cup hostsOf[c] \subseteq written
Current(c) == c = cluster /\ pc \in ClusterSteps

Progress ==
    /\ \A c \in clusters \ (todo \cup failedClusters) : Current(c) \/ Kept(c)
    /\ pc = "projectHosts" =>
        /\ {cluster} \cap clusterKeys \subseteq written
        /\ (hostsOf[cluster] \ left) \cap hostKeys \subseteq written

Completeness ==
    count = 0 =>
        /\ \A c \in clusters \ todo : Current(c) \/ Whole(c)
        /\ pc \in {"projectCluster", "projectHosts"} => hostsOf[cluster] # {}
        /\ pc = "projectHosts" => {cluster} \cup (hostsOf[cluster] \ left) \subseteq written

Inv == Base /\ Counters /\ Progress /\ Completeness

\* No cluster has been reached.
LEMMA ProgressInit == Init => Progress /\ Completeness
BY DEF Init, Progress, Completeness

\* A read of the cluster under way, which may fail it.
LEMMA ReadProgress ==
    ASSUME Inv, pc \in CallSteps,
           NEW n \in Nat, NEW b \in Requests(n),
           NEW nextStep \in CallSteps \cup {"metrics"}, Read(b, nextStep),
           hostsOf' = hostsOf \/ \E hosts : hostsOf' = [hostsOf EXCEPT ![cluster] = hosts]
    PROVE  Progress' /\ Completeness'
<1> USE DEF Inv, Base, TypeOK, Control, Current, ClusterSteps, CallSteps, InLoop, inventory
<1>1. /\ \A c \in clusters : c # cluster => hostsOf'[c] = hostsOf[c]
      /\ Failed(b) \in Nat
      /\ inventory' = inventory /\ todo' = todo /\ cluster' = cluster /\ written' = written
  BY RequestFacts DEF Read
<1>2. CASE b.ending = "returned"
  <2>1. pc' = nextStep /\ failedClusters' = failedClusters /\ count' >= count
    BY <1>1, <1>2 DEF Read, Log
  <2>2. Progress'  BY <1>1, <2>1 DEF Progress, Kept
  <2>3. Completeness'  BY <1>1, <2>1 DEF Completeness, Whole
  <2> QED  BY <2>2, <2>3
<1>3. CASE b.ending # "returned"
  <2>1. failedClusters' = failedClusters \cup {cluster} /\ count' > 0 /\ pc' = "loop"
    BY <1>1, <1>3 DEF Read, FailCluster, Log
  <2>2. Progress'  BY <1>1, <2>1 DEF Progress, Kept
  <2>3. Completeness'  BY <2>1 DEF Completeness
  <2> QED  BY <2>2, <2>3
<1> QED  BY <1>2, <1>3

\* Every action keeps what is known of the clusters gone through.
LEMMA ProgressStep == Inv /\ [Next]_vars => Progress' /\ Completeness'
<1> SUFFICES ASSUME Inv, [Next]_vars PROVE Progress' /\ Completeness'
  OBVIOUS
<1> USE RequestAssumption DEF Inv, Base, TypeOK, Control, Progress, Completeness, Kept,
        Whole, Current, Before, InLoop, InventorySteps, ClusterSteps, CallSteps,
        stats, inventory, snapshot, health, outcome
<1>1. CASE NoClient \/ ReadSettings \/ EnterClient
  BY <1>1 DEF NoClient, ReadSettings, EnterClient
<1>2. CASE FetchClusters \/ FetchClusterKeys \/ FetchHostKeys
  BY <1>2 DEF FetchClusters, FetchClusterKeys, FetchHostKeys, Query
<1>3. CASE NextCluster  BY <1>3 DEF NextCluster
<1>4. CASE ReadChildren  BY <1>4, ReadProgress DEF ReadChildren
<1>5. CASE ReadHostVms
  <2>1. PICK h \in left, b \in Requests(1) : Read(b, IF left = {h} THEN "hostProps" ELSE "vms")
    BY <1>5 DEF ReadHostVms
  <2> QED  BY <1>5, <2>1, ReadProgress DEF ReadHostVms
<1>6. CASE ReadHostProperties  BY <1>6, ReadProgress DEF ReadHostProperties
<1>7. CASE ReadVmProperties  BY <1>7, ReadProgress DEF ReadVmProperties
<1>8. CASE ReadStats
  <2>1. PICK b \in Requests(IF pc = "clusterStats" THEN 1 ELSE MaxRequests),
             nextStep \in {"hostStats", "vmStats", "metrics"} : Read(b, nextStep)
    BY <1>8 DEF ReadStats
  <2> QED  BY <1>8, <2>1, ReadProgress DEF ReadStats
<1>9. CASE ComputeMetrics  BY <1>9 DEF ComputeMetrics, FailCluster, Log
<1>10. CASE ProjectCluster  BY <1>10 DEF ProjectCluster, Project, FailCluster, Log
<1>11. CASE ProjectHost
  <2>1. PICK h \in left :
          \/ Project(h, hostKeys) /\ left' = left \ {h} /\ UNCHANGED <<pc, failedClusters>>
          \/ FailCluster(0) /\ UNCHANGED <<written, left>>
    BY <1>11 DEF ProjectHost
  <2> QED  BY <1>11, <2>1 DEF ProjectHost, Project, FailCluster, Log
<1>12. CASE EndCluster  BY <1>12 DEF EndCluster
<1>13. CASE ReportFailures  BY <1>13 DEF ReportFailures, Log
<1>14. CASE LeaveClient \/ Publish  BY <1>14 DEF LeaveClient, Publish
<1>15. CASE UNCHANGED vars  BY <1>15 DEF vars
<1> QED
  BY <1>1, <1>2, <1>3, <1>4, <1>5, <1>6, <1>7, <1>8, <1>9, <1>10, <1>11, <1>12,
     <1>13, <1>14, <1>15 DEF Next, Terminated

\* All of it is inductive.
LEMMA Invariance == Spec => []Inv
<1>1. Init => Inv  BY BaseInit, CountersInit, ProgressInit DEF Inv
<1>2. Inv /\ [Next]_vars => Inv'  BY BaseStep, CountersStep, ProgressStep DEF Inv
<1> QED  BY <1>1, <1>2, PTL DEF Spec

(* One failing cluster never loses the others, for any number of clusters.   *)
THEOREM FailureIsIsolatedAlways == Spec => []FailureIsIsolated
<1>1. Inv => FailureIsIsolated
  BY DEF Inv, Base, TypeOK, Control, Counters, NoTotalFailure, Progress, Kept, Current,
     FailureIsIsolated, After, ClusterSteps, CallSteps
<1> QED  BY Invariance, <1>1, PTL

(* No error and no warning means that nothing was lost.                     *)
THEOREM HealthyMeansCompleteAlways == Spec => []HealthyMeansComplete
<1>1. Inv => HealthyMeansComplete
  BY DEF Inv, Base, TypeOK, Control, Counters, NoTotalFailure, Completeness, Whole, Current,
     HealthyMeansComplete, Healthy, After, ClusterSteps, CallSteps
<1> QED  BY Invariance, <1>1, PTL

--------------------------------------------------------------------------------
\* A cluster that fails adds at most one to the number that have failed.
LEMMA OneMoreCluster ==
    ASSUME Base
    PROVE  /\ Cardinality(failedClusters) \in Nat
           /\ Cardinality(failedClusters \cup {cluster}) \in Nat
           /\ Cardinality(failedClusters \cup {cluster}) <= Cardinality(failedClusters) + 1
<1>1. IsFiniteSet(failedClusters)  BY FiniteAssumption, FS_Subset DEF Base, TypeOK
<1>2. Cardinality(failedClusters) \in Nat  BY <1>1, FS_CardinalityType
<1>3. Cardinality(failedClusters \cup {cluster}) =
        IF cluster \in failedClusters THEN Cardinality(failedClusters)
                                      ELSE Cardinality(failedClusters) + 1
  BY <1>1, FS_AddElement
<1> QED  BY <1>2, <1>3

\* A failed cluster is one more, and its two records are counted.
LEMMA CountedFailure ==
    ASSUME Base, FailuresAreCounted, handlers # {},
           NEW n \in Nat, FailCluster(n), failures' = failures + n
    PROVE  FailuresAreCounted'
<1>1. count' = count + n + 2 /\ failedClusters' = failedClusters \cup {cluster}
  BY DEF Base, TypeOK, FailCluster, Log
<1>2. /\ Cardinality(failedClusters) \in Nat /\ Cardinality(failedClusters') \in Nat
      /\ Cardinality(failedClusters') <= Cardinality(failedClusters) + 1
  BY <1>1, OneMoreCluster
<1>3. count \in Nat /\ failures \in Nat  BY DEF Base, TypeOK
<1> QED  BY <1>1, <1>2, <1>3 DEF FailuresAreCounted

\* The failed requests of one read are counted as they are logged.
LEMMA CountedRead ==
    ASSUME Base, FailuresAreCounted, pc \in ClusterSteps,
           NEW n \in Nat, NEW b \in Requests(n), NEW nextStep, Read(b, nextStep)
    PROVE  FailuresAreCounted'
<1>1. handlers # {} /\ count \in Nat /\ failures \in Nat
  BY DEF Base, TypeOK, Control, InLoop
<1>2. Failed(b) \in Nat /\ failures' = failures + Failed(b)
  BY RequestFacts DEF Read, Count
<1>3. CASE b.ending = "returned"
  BY <1>1, <1>2, <1>3, OneMoreCluster DEF Read, Log, FailuresAreCounted
<1>4. CASE b.ending # "returned"
  <2>1. FailCluster(Failed(b))  BY <1>4 DEF Read
  <2> QED  BY <1>1, <1>2, <2>1, CountedFailure
<1> QED  BY <1>3, <1>4

\* Every action keeps the count up with the failures.
LEMMA CountedStep == Base /\ Counters /\ FailuresAreCounted /\ [Next]_vars => FailuresAreCounted'
<1> SUFFICES ASSUME Base, Counters, FailuresAreCounted, [Next]_vars PROVE FailuresAreCounted'
  OBVIOUS
<1> USE RequestAssumption, OneMoreCluster DEF Base, TypeOK, Control, FailuresAreCounted,
        InLoop, InventorySteps, ClusterSteps, CallSteps, stats, inventory, snapshot, health
<1>1. CASE NoClient \/ EnterClient  BY <1>1 DEF NoClient, EnterClient, Log
<1>2. CASE ReadSettings
  <2>1. failures = 0  BY <1>2 DEF ReadSettings, Counters, Before
  <2> QED  BY <1>2, <2>1, SettingsFacts DEF ReadSettings, Log
<1>3. CASE FetchClusters \/ FetchClusterKeys \/ FetchHostKeys
  <2>1. PICK b \in Pages : \E nextStep : Query(b, nextStep)
    BY <1>3 DEF FetchClusters, FetchClusterKeys, FetchHostKeys
  <2>2. Failed(b) \in Nat  BY RequestFacts DEF Pages
  <2> QED  BY <1>3, <2>1, <2>2 DEF FetchClusters, FetchClusterKeys, FetchHostKeys, Query, Count, Log
<1>4. CASE ReadChildren \/ ReadHostVms \/ ReadHostProperties \/ ReadVmProperties \/ ReadStats
  <2>1. PICK n \in {1, MaxRequests} : \E b \in Requests(n) : \E nextStep : Read(b, nextStep)
    BY <1>4 DEF ReadChildren, ReadHostVms, ReadHostProperties, ReadVmProperties, ReadStats
  <2>2. pc \in ClusterSteps
    BY <1>4 DEF ReadChildren, ReadHostVms, ReadHostProperties, ReadVmProperties, ReadStats
  <2> QED  BY <2>1, <2>2, CountedRead
<1>5. CASE ComputeMetrics \/ ProjectCluster \/ ProjectHost
  <2>1. handlers # {} /\ failures' = failures + 0
    BY <1>5 DEF ComputeMetrics, ProjectCluster, ProjectHost
  <2>2. CASE FailCluster(0)  BY <2>1, <2>2, CountedFailure
  <2>3. CASE ~FailCluster(0)
    BY <1>5, <2>3 DEF ComputeMetrics, ProjectCluster, ProjectHost, Project, Log
  <2> QED  BY <2>2, <2>3
<1>6. CASE ReportFailures  BY <1>6 DEF ReportFailures, Log
<1>7. CASE NextCluster \/ EndCluster \/ LeaveClient \/ Publish \/ UNCHANGED vars
  BY <1>7 DEF NextCluster, EndCluster, LeaveClient, Publish, vars
<1> QED  BY <1>1, <1>2, <1>3, <1>4, <1>5, <1>6, <1>7 DEF Next, Terminated

(* No failure of the cycle is missing from the count it publishes.          *)
THEOREM FailuresAreCountedAlways == Spec => []FailuresAreCounted
<1>1. Init => FailuresAreCounted  BY FS_EmptySet DEF Init, FailuresAreCounted
<1> QED  BY <1>1, CountersInvariant, CountedStep, PTL DEF Spec

--------------------------------------------------------------------------------
(***************************************************************************)
(* Refinement.  What the operator may call listed only grows: a cluster's  *)
(* hosts are read once, and nothing is written that was not found first.   *)
(***************************************************************************)
Unread == todo \cup (IF pc = "children" THEN {cluster} ELSE {})

Found ==
    /\ \A c \in Unread : hostsOf[c] = {}
    /\ pc \in {"start", "enter", "clusters"} => clusters = {}
    /\ pc \in Before => \A c \in Cluster : hostsOf[c] = {}
    /\ written \subseteq Listed

\* Nothing is listed.
LEMMA FoundInit == Init => Found
BY DEF Init, Found, Unread

\* What has been listed stays listed.
LEMMA FoundStep == Inv /\ Found /\ [Next]_vars => Found' /\ Listed \subseteq Listed'
<1> SUFFICES ASSUME Inv, Found, [Next]_vars PROVE Found' /\ Listed \subseteq Listed'
  OBVIOUS
<1> USE DEF Inv, Base, TypeOK, Control, Found, Unread, Listed, Before, InLoop, After,
        InventorySteps, ClusterSteps, CallSteps, stats, inventory, snapshot, outcome
<1>1. CASE NoClient \/ ReadSettings \/ EnterClient
  BY <1>1 DEF NoClient, ReadSettings, EnterClient
<1>2. CASE FetchClusters \/ FetchClusterKeys \/ FetchHostKeys
  BY <1>2 DEF FetchClusters, FetchClusterKeys, FetchHostKeys, Query
<1>3. CASE NextCluster  BY <1>3 DEF NextCluster
<1>4. CASE ReadChildren
  <2>1. PICK hosts \in SUBSET Host : hostsOf' = [hostsOf EXCEPT ![cluster] = hosts]
    BY <1>4 DEF ReadChildren
  <2>2. \A c \in Cluster : hostsOf[c] \subseteq hostsOf'[c]  BY <1>4, <2>1 DEF ReadChildren
  <2>3. \A c \in todo : hostsOf'[c] = hostsOf[c]  BY <1>4, <2>1 DEF ReadChildren
  <2>4. /\ pc' \in InLoop \ {"children"}
        /\ clusters' = clusters /\ todo' = todo /\ written' = written
    BY <1>4 DEF ReadChildren, Read, FailCluster
  <2>5. Listed \subseteq Listed'  BY <2>2, <2>4
  <2> QED  BY <2>3, <2>4, <2>5
<1>5. CASE ReadHostVms \/ ReadHostProperties \/ ReadVmProperties \/ ReadStats
  <2>1. /\ pc' \in InLoop \ {"children"} /\ clusters' = clusters /\ todo' = todo
        /\ written' = written /\ hostsOf' = hostsOf
    BY <1>5 DEF ReadHostVms, ReadHostProperties, ReadVmProperties, ReadStats, Read, FailCluster
  <2> QED  BY <2>1
<1>6. CASE ComputeMetrics  BY <1>6 DEF ComputeMetrics, FailCluster
<1>7. CASE ProjectCluster  BY <1>7 DEF ProjectCluster, Project, FailCluster
<1>8. CASE ProjectHost  BY <1>8 DEF ProjectHost, Project, FailCluster
<1>9. CASE EndCluster \/ ReportFailures \/ LeaveClient \/ Publish
  BY <1>9 DEF EndCluster, ReportFailures, LeaveClient, Publish
<1>10. CASE UNCHANGED vars  BY <1>10 DEF vars
<1> QED
  BY <1>1, <1>2, <1>3, <1>4, <1>5, <1>6, <1>7, <1>8, <1>9, <1>10 DEF Next, Terminated

\* The result is published once and is what the cycle ends with.
LEMMA PublishedOnce ==
    Inv /\ [Next]_vars =>
        /\ pc = "done" => UNCHANGED vars
        /\ pc # "done" /\ pc' = "done" => Publish
BY DEF Inv, Base, TypeOK, Control, InLoop, ClusterSteps, CallSteps, Next, NoClient,
   ReadSettings, EnterClient, FetchClusters, FetchClusterKeys, FetchHostKeys, Query,
   NextCluster, ReadChildren, ReadHostVms, ReadHostProperties, ReadVmProperties, ReadStats,
   Read, ComputeMetrics, ProjectCluster, ProjectHost, FailCluster, EndCluster,
   ReportFailures, LeaveClient, Publish, Terminated, vars

\* Every step is a step of the contract, or a stutter.
LEMMA ContractStep ==
    Inv /\ Inv' /\ Found /\ [Next]_vars => [Contract!Next]_(Contract!vars)
<1> SUFFICES ASSUME Inv, Inv', Found, [Next]_vars
             PROVE  [Contract!Next]_(Contract!vars)
  OBVIOUS
<1>1. Listed' \subseteq Cluster \cup Host /\ Listed \subseteq Listed'
  BY FoundStep DEF Inv, Base, TypeOK, Listed
<1>2. CASE pc = "done"
  <2>1. UNCHANGED vars  BY <1>2, PublishedOnce
  <2> QED  BY <2>1 DEF vars, inventory, snapshot, health, outcome, Contract!vars, Listed, Verdict
<1>3. CASE pc # "done" /\ pc' # "done"
  <2>1. sent = {} /\ sent' = {}  BY <1>3 DEF Inv, Base, Control
  <2>2. Verdict = "pending" /\ Verdict' = "pending"  BY <1>3 DEF Verdict
  <2> QED  BY <1>1, <2>1, <2>2 DEF Contract!Next, Contract!Discover, Contract!vars
<1>4. CASE pc # "done" /\ pc' = "done"
  <2>1. /\ Verdict = "pending" /\ Listed' = Listed
        /\ sent' = IF error' = "none" THEN written' ELSE {}
        /\ written' = written
    BY <1>4, PublishedOnce DEF Publish, Verdict, Listed, inventory, snapshot
  <2>2. Verdict' \in {"error", "warned", "healthy"}  BY <1>4 DEF Verdict
  <2>3. sent' \subseteq Listed  BY <2>1 DEF Found
  <2>4. Verdict' = "error" => sent' = {}  BY <1>4, <2>1 DEF Verdict
  <2>5. Verdict' = "healthy" => Listed \subseteq sent'
    <3> SUFFICES ASSUME Verdict' = "healthy" PROVE Listed' \subseteq sent'
      BY <2>1
    <3>1. error' = "none" /\ count' = 0
      BY <1>4 DEF Verdict, Inv, Base, TypeOK
    <3>2. \A c \in clusters' : {c} \cup hostsOf'[c] \subseteq written'
      BY <1>4, <3>1 DEF Inv, Base, Control, Counters, NoTotalFailure, Completeness, Whole,
         Current, After, ClusterSteps, CallSteps
    <3> QED  BY <2>1, <3>1, <3>2 DEF Listed
  <2> QED  BY <2>1, <2>2, <2>3, <2>4, <2>5 DEF Contract!Next, Contract!Report
<1> QED  BY <1>2, <1>3, <1>4

(* The cycle implements the operator's view of it: every step is a step of  *)
(* CollectContract or leaves what the operator sees unchanged.              *)
THEOREM CycleImplementsContract == Spec => ImplementsContract
<1>1. Init => Contract!Init  BY DEF Init, Contract!Init, Listed, Verdict
<1>2. Inv /\ Inv' /\ Found /\ [Next]_vars => [Contract!Next]_(Contract!vars)  BY ContractStep
<1>3. Inv /\ Found /\ [Next]_vars => Found'  BY FoundStep
<1> QED
  BY <1>1, <1>2, <1>3, FoundInit, Invariance, PTL DEF Spec, ImplementsContract, Contract!Spec
================================================================================
