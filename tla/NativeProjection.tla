---------------------------- MODULE NativeProjection ---------------------------
(***************************************************************************)
(* What VCF Operations shows after one collection and after the next: each *)
(* cycle lists the clusters page by page (ResourceQuery), projects what it *)
(* read of each cluster and its hosts onto their native objects, and sends *)
(* all of it at once.  VCF Operations keeps an attribute until it is       *)
(* written again.                                                          *)
(*                                                                         *)
(* The objects of the result are found by their key, so an object projected*)
(* twice in a cycle is one object with the later attributes over the       *)
(* earlier.  What is read of an object is one value, or none, for each     *)
(* key; the composite score is left out.                                   *)
(***************************************************************************)
EXTENDS ResourceQuery

CONSTANTS
    Host,
    Key,            \* the keys of CLUSTER_PROJECTION and HOST_PROJECTION
    Readings,       \* bound: what is read of each object, a value or NoData for each key
    Keyless,        \* bound: the objects whose resourceKey may be missing
    BandOf,         \* the band each value is classified in
    MaxCycles,      \* bound
    NoData          \* None

Cluster == Resource
Object == Cluster \cup Host
Value == DOMAIN BandOf
Bands == {"green", "yellow", "orange", "red"}

ASSUME ProjectionAssumption ==
    /\ IsFiniteSet(Host) /\ Host \cap Cluster = {}
    /\ BandOf \in [Value -> Bands] /\ NoData \notin Value
    /\ Readings \in [Object -> SUBSET [Key -> Value \cup {NoData}]]
    /\ Keyless \subseteq Object /\ MaxCycles \in Nat

VARIABLES
    member,         \* the cluster of each host
    moved,          \* history: the hosts that changed cluster during the cycle
    cycle,          \* the cycles begun
    pc,             \* "list", "keys", "collect"; "sent" and "error" between cycles
    keys,           \* the objects whose resourceKey is known
    todo,           \* the clusters still to collect
    failed,         \* how many failed_clusters
    result,         \* the attributes of each object in the CollectResult
    health,         \* CollectionHealth: how many warnings, and the cycle of the first
    store,          \* VCF Operations' attributes of each object
    instance,       \* its attributes of the adapter instance
    readings,       \* history: what was projected onto each object in the cycle, in order
    shown,          \* history: the last reading of each object that was sent
    sent            \* history: the last cycle sent

cycleVars == <<cycle, keys, todo, failed, result, health, readings>>
storeVars == <<store, instance, shown, sent>>
vars == <<queryVars, member, moved, pc, cycleVars, storeVars>>

--------------------------------------------------------------------------------
BAND_LEVELS == [green |-> 0, yellow |-> 1, orange |-> 2, red |-> 3]
Known(reading) == {k \in Key : reading[k] # NoData}
band(reading, k) == IF k \in Known(reading) THEN BandOf[reading[k]] ELSE "unknown"
composite_band(reading) ==
    IF Known(reading) = {} THEN "unknown"
    ELSE CHOOSE b \in {band(reading, k) : k \in Known(reading)} :
            \A k \in Known(reading) : BAND_LEVELS[band(reading, k)] <= BAND_LEVELS[b]
worst_count(reading) == Cardinality({k \in Key : band(reading, k) = composite_band(reading)})

\* The attributes project() writes: a metric and its level only if known.
Composite(reading, part) == CASE part = "band" -> composite_band(reading)
                              [] part = "level" -> BAND_LEVELS[composite_band(reading)]
                              [] part = "count" -> worst_count(reading)
Written(reading, K) ==
    {<<"metric", k>> : k \in Known(reading)} \cup {<<"band", k>> : k \in K} \cup
    {<<"composite", part>> : part \in IF Known(reading) = {} THEN {"band"} ELSE {"band", "level", "count"}}
Write(reading, K) ==
    [a \in Written(reading, K) |-> CASE a[1] = "metric" -> reading[a[2]]
                                     [] a[1] = "band" -> band(reading, a[2])
                                     [] a[1] = "composite" -> Composite(reading, a[2])]

\* Mutant: a key without data writes nothing.
AttributesOfKnown(reading) == Write(reading, Known(reading))
Attributes(reading) == Write(reading, Key)

\* Attributes written over others.
Over(new, old) ==
    [a \in DOMAIN new \cup DOMAIN old |-> IF a \in DOMAIN new THEN new[a] ELSE old[a]]

NoWarnings == [count |-> 0, first |-> NoData]
NoAttributes == [o \in Object |-> <<>>]
None == [o \in Object |-> NoData]

Init ==
    /\ QueryInit
    /\ member \in [Host -> Cluster] /\ moved = {}
    /\ cycle = 0 /\ pc = "sent" /\ keys = {} /\ todo = <<>> /\ failed = 0
    /\ result = NoAttributes /\ health = NoWarnings /\ readings = NoAttributes
    /\ store = NoAttributes /\ instance = NoWarnings
    /\ shown = None /\ sent = 0

ChangeInventory == /\ Discover \/ Forget
                   /\ UNCHANGED <<member, moved, pc, cycleVars, storeVars>>

\* A host is moved to another cluster.
MoveHost ==
    /\ pc = "collect" /\ changes < MaxChanges /\ changes' = changes + 1
    /\ \E h \in Host : /\ \E c \in Cluster \ {member[h]} : member' = [member EXCEPT ![h] = c]
                       /\ moved' = moved \cup {h}
    /\ UNCHANGED <<inventory, progress, stayed, events, pc, cycleVars, storeVars>>

BeginCycle ==
    /\ pc \in {"sent", "error"} /\ cycle < MaxCycles
    /\ StartQuery
    /\ cycle' = cycle + 1 /\ pc' = "list"
    /\ moved' = {} /\ keys' = {} /\ todo' = <<>> /\ failed' = 0
    /\ result' = NoAttributes /\ readings' = NoAttributes
    /\ UNCHANGED <<member, storeVars>>

\* Mutant: a CollectionHealth that outlives its cycle.
BeginWithOldWarnings == BeginCycle /\ UNCHANGED health
Begin == BeginCycle /\ health' = NoWarnings

\* fetch_resources() of the clusters.
ListClusters ==
    /\ pc = "list"
    /\ ReadPage \/ FailPage
    /\ pc' = CASE query' = "paging" -> "list"
               [] query' = "complete" -> "keys"
               [] query' = "failed" -> "error"
    /\ UNCHANGED <<member, moved, cycleVars, storeVars>>

\* fetch_resource_keys(): a key may be missing, its query may fail.
FetchKeys ==
    /\ pc = "keys"
    /\ \/ /\ \E missing \in SUBSET Keyless : keys' = Object \ missing
          /\ todo' = resources /\ pc' = "collect"
       \/ pc' = "error" /\ UNCHANGED <<keys, todo>>
    /\ UNCHANGED <<queryVars, member, moved, cycle, failed, result, health, readings, storeVars>>

\* native_projection.project() of every object read that has a key.
Project(reading) ==
    LET found == DOMAIN reading \cap keys
    IN  /\ result' = [o \in Object |-> IF o \in found THEN Over(Attributes(reading[o]), result[o])
                                       ELSE result[o]]
        /\ readings' = [o \in Object |-> IF o \in found THEN Append(readings[o], reading[o])
                                         ELSE readings[o]]

HostsOf(c) == {h \in Host : member[h] = c}
Reads(objects) == {r \in [objects -> UNION {Readings[o] : o \in Object}] :
                      \A o \in objects : r[o] \in Readings[o]}

\* The handler counts n records and keeps the first.
Warn(h, n) == [count |-> h.count + n, first |-> IF h.first = NoData /\ n > 0 THEN cycle ELSE h.first]

\* Mutants: a cluster that failed is not missed; it is tried again, or again after
\* it was projected.
FailQuietly ==
    /\ pc = "collect" /\ todo # <<>> /\ todo' = Tail(todo)
    /\ \/ \E reading \in Reads({Head(todo)} \cup HostsOf(Head(todo))) : Project(reading)
       \/ UNCHANGED <<result, readings>>
    /\ UNCHANGED <<queryVars, member, moved, pc, cycle, keys, failed, health, storeVars>>

RetryAfter(done) ==
    /\ pc = "collect" /\ todo # <<>>
    /\ \/ \E reading \in Reads({Head(todo)} \cup HostsOf(Head(todo))) :
              Project(reading) /\ todo' = Tail(todo)
       \/ \E reading \in Reads(done) :
              Project(reading) /\ todo' = Append(Tail(todo), Head(todo))
    /\ UNCHANGED <<queryVars, member, moved, pc, cycle, keys, failed, health, storeVars>>
RetryCluster == RetryAfter({})
RetryProjected == RetryAfter({Head(todo)})

\* A cluster collected, with a warning for each object without a key and for no
\* hosts at all, whether it has none or the request for them was refused; or one
\* that failed, before it was projected or some host was.
CollectCluster ==
    /\ pc = "collect" /\ todo # <<>> /\ todo' = Tail(todo)
    /\ \E hosts \in {HostsOf(Head(todo)), {}} :
        LET c == Head(todo)
            read == {c} \cup hosts
        IN  \/ /\ \E reading \in Reads(read) : Project(reading)
               /\ health' = Warn(health, Cardinality(read \ keys) + IF hosts = {} THEN 1 ELSE 0)
               /\ UNCHANGED failed
            \/ /\ \E done \in {{}} \cup {{c} \cup S : S \in SUBSET hosts \ {hosts}} :
                     \E reading \in Reads(done) : Project(reading)
               /\ failed' = failed + 1 /\ health' = Warn(health, 1)
    /\ UNCHANGED <<queryVars, member, moved, pc, cycle, keys, storeVars>>

all_failed == resources # <<>> /\ failed = Len(resources)

\* Every cluster failed, or every call did: get_json() is the error alone.
Fail ==
    /\ pc = "collect" /\ todo = <<>>
    /\ pc' = "error"
    /\ UNCHANGED <<queryVars, member, moved, cycleVars, storeVars>>

\* _report_failures() with the warnings of the requests that were refused, one
\* for any number of them; _publish_collection_health(); and VCF Operations storing the result.
Send ==
    /\ pc = "collect" /\ todo = <<>> /\ ~all_failed
    /\ pc' = "sent" /\ sent' = cycle
    /\ \E refused \in 0..1 : health' = Warn(health, (IF failed > 0 THEN 1 ELSE 0) + 2 * refused)
    /\ instance' = [count |-> health'.count,
                    first |-> IF health'.count > 0 THEN health'.first ELSE instance.first]
    /\ store' = [o \in Object |-> Over(result[o], store[o])]
    /\ shown' = [o \in Object |-> IF readings[o] = <<>> THEN shown[o] ELSE Last(readings[o])]
    /\ UNCHANGED <<queryVars, member, moved, cycle, keys, todo, failed, result, readings>>

Terminated == pc \in {"sent", "error"} /\ cycle = MaxCycles /\ UNCHANGED vars

Next == \/ ChangeInventory \/ MoveHost
        \/ Begin \/ ListClusters \/ FetchKeys \/ CollectCluster \/ Fail \/ Send \/ Terminated

Spec == Init /\ [][Next]_vars
Collector == ListClusters \/ FetchKeys \/ CollectCluster \/ Fail \/ Send
FairSpec == Spec /\ WF_vars(Collector)
--------------------------------------------------------------------------------
Attribute == ({"metric", "band"} \X Key) \cup ({"composite"} \X {"band", "level", "count"})

TypeOK ==
    /\ QueryTypeOK
    /\ member \in [Host -> Cluster] /\ moved \subseteq Host
    /\ cycle \in 0..MaxCycles /\ sent \in 0..cycle
    /\ pc \in {"list", "keys", "collect", "sent", "error"}
    /\ (pc = "list") = (query = "paging")
    /\ keys \subseteq Object /\ todo \in Seq(Cluster) /\ failed \in Nat
    /\ \A o \in Object : /\ DOMAIN result[o] \subseteq Attribute
                         /\ DOMAIN store[o] \subseteq Attribute
                         /\ readings[o] \in Seq(Readings[o])
                         /\ shown[o] \in Readings[o] \cup {NoData}
    /\ {health, instance} \subseteq [count : Nat, first : 1..cycle \cup {NoData}]

(* Whatever was missing, mixed up or sent before: the bands, the composite  *)
(* and the values that VCF Operations shows of what was known are all of    *)
(* one reading, the last; what was not known then has no band.  So a band   *)
(* never stands beside a value of another reading.                          *)
ReadingIsWhole ==
    \A o \in Object : shown[o] # NoData =>
        LET v == shown[o]
            Shows(a, value) == a \in DOMAIN store[o] /\ store[o][a] = value
        IN  /\ \A k \in Key : Shows(<<"band", k>>, band(v, k))
            /\ \A k \in Known(v) : Shows(<<"metric", k>>, v[k])
            /\ Shows(<<"composite", "band">>, composite_band(v))
            /\ Known(v) # {} => /\ Shows(<<"composite", "level">>, BAND_LEVELS[composite_band(v)])
                               /\ Shows(<<"composite", "count">>, worst_count(v))

(* An object is written more than once in a cycle only if a cluster was     *)
(* discovered while they were listed, or the host moved.                    *)
WrittenTwiceOnlyIfChanged ==
    /\ \A c \in Cluster : Len(readings[c]) > 1 => "added" \in events
    /\ \A h \in Host : Len(readings[h]) > 1 => "added" \in events \/ h \in moved

(* No warning on the adapter instance: then every cluster that was listed,  *)
(* and every host of it that stayed in it, was written.  Of a cluster that  *)
(* the listing missed there is no warning (PresentIsListed says when).      *)
HealthyMeansUpdated ==
    pc = "sent" /\ instance.count = 0 =>
        LET listed == ToSet(resources)
        IN  \A o \in listed \cup {h \in Host \ moved : member[h] \in listed} : readings[o] # <<>>

(* With warnings in the last cycle, First Warning is one of that cycle (in  *)
(* one without, it is whatever an earlier cycle left).                      *)
FirstWarningIsCurrent == instance.count > 0 => instance.first = sent

(* A collection comes to its end whatever appears and vanishes meanwhile.   *)
CollectionEnds == pc = "list" ~> pc \in {"sent", "error"}
================================================================================
