# Verification of the Cluster Performance Risk management pack

TLA+ models of the collection adapter in `src/app` and of the workflow that
releases it, TLC runs that check them on
small instances, and TLAPS proofs of their main properties for every value of
the constants. Paths below are relative to the repository's root, as in
`PROJECT.json`.

- [The system](#the-system)
- [Components: inventory](#components-inventory)
- [The models](#the-models)
- [What the runs check](#what-the-runs-check)
- [What is proved](#what-is-proved)
- [Where the code and its documents disagree](#where-the-code-and-its-documents-disagree)
- [What is not modelled](#what-is-not-modelled)
- [Plan](#plan)

## The system

The pack is a VCF Operations adapter. Each collection is a process of its own
(`src/commands.cfg`), which runs `collect()` once and exits. That one run

1. reads its settings, each invalid one with a warning and its default;
2. asks VCF Operations, over the Suite API, for the clusters, and for the native
   resource keys of clusters and hosts;
3. for each cluster reads its hosts, their VMs, the properties and the latest
   stats of all three, in several bulk requests (`fetch_cluster_snapshot`);
4. computes the risk metrics of the cluster and its hosts and their composite
   score and band;
5. writes these as attributes of the *native* cluster and host objects;
6. reports the failures of the cycle, and publishes *Collection Health* on the
   adapter instance.

The adapter is a single thread and keeps nothing between cycles; VCF Operations
keeps every attribute it was ever sent. What makes the adapter
hard to test is around it: every request may be refused, raise or return a
malformed body, and the code treats these three cases differently and not the
same way everywhere; the inventory and the samples change *between* the requests
of a cycle; VCF Operations' clock is not the collector's; and an operator must be
able to tell a healthy cycle from one that lost something.

Interactions inside the process are calls, and three pieces of shared state:
`CALL_STATS` (written by `suite_api`, read by `adapter` and by the staleness
test), the root logger (written by everybody, counted by `CollectionHealth`), and
the `CollectResult` (filled by `native_projection`, given up by `adapter` on an
error).

Beside the adapter, a GitHub workflow builds, checks, signs and publishes each
version. Its runs are concurrent, stop anywhere and are re-run in part.

## Components: inventory

| component | source | state | operations | what is hard | what makes it correct |
|---|---|---|---|---|---|
| Collection cycle | `adapter.py` 121-296 | `failed_clusters`, `inventory_calls`, the result and its error | `collect`, `_report_failures`, `_number_setting`, `_publish_collection_health` | exits through three `except` clauses and two context managers; a cluster may raise anywhere, after part of it was written | one cluster's failure loses no other; a total failure is an error; a cycle without error or warning lost nothing |
| Suite API requests | `suite_api.py` | `CALL_STATS.calls`, `.failures`; `page`, `pages` | `_request`, `_query_resources`, `fetch_child_hosts`, `fetch_children_of_kind`, `bulk_latest_properties`, `bulk_latest_stats` | refused, raised and malformed are three different outcomes; the pages shift while they are read | each call is counted once, each failure once; a failed inventory is never an empty one; what stays is listed |
| Staleness of stats | `suite_api.py` 81-102, 184-258 | `CALL_STATS.newest_ms` | `is_stale`, `_fresh_value`, `bulk_latest_stats` | chunks, two clocks, a reference that outlives the request | no last-known value is used; no current value is dropped; of one read the older is dropped first |
| Cluster snapshot and VM metrics | `traversal.py` | `ClusterSnapshot` | `fetch_cluster_snapshot`, `collect_cluster_and_host_metrics` and the metric functions | VMs migrate and are switched while the snapshot is read; missing input means no data, or 0, or a smaller sum, or a fallback | a complete read is exact; what is missing never raises an alarm |
| Cluster metrics | `cluster.py` | none | `gather_metric_values`, `score` | metrics computed a second time, apart from the hosts'; which of several missing inputs decides | the cluster is its worst host |
| Host scoring | `host.py` | none | `score` | as scoring | as scoring |
| Scoring | `scoring.py` | none between calls; the loop's sums | `classify_band`, `compute_composite`, `metrics_in_worst_band` | the divisor changes with exclusion while green and with missing data | the band is the worst known one; the score stays in its band's range |
| Native projection | `native_projection.py` | the objects of the result; VCF Operations' attributes | `native_object`, `project` | an object listed by one query is missing from another; a host in two clusters; attributes that are not written again stay | what is shown beside a band belongs to it; what was not written is warned about |
| Collection Health | `collection_health.py` | `count`, `first` | the handler, `__enter__`, `__exit__` | what is logged before or after it is attached is not counted; *First Warning* is not cleared | every failure is counted; the first warning is of the cycle that is counted |
| Tables | `constants_*.py`, `thresholds_*.py` | constant | none | none | parameters of the models |
| Definition, test, endpoints, main | `adapter.py` 55-118, 299-341 | none | return constants or dispatch | none | not modelled |
| Release workflow | `src/.github/workflows/build-and-publish.yml` | registry tags, artifacts, the GitHub Release | check, build, scan, pull, sign, tag, upload, release | interrupted, repeated and concurrent runs | a published version never changes and is what was checked; a run that was stopped can be completed |
| Dashboard, describe, build files | `src/content`, `src/conf`, `src/Dockerfile` | constant | none | none | not modelled |

(Python files are in `src/app`.)

The hazards of the code, each at its line with the properties that would catch
it, are listed in `PROJECT.json`.

## The models

```
CollectContract           what a cycle promises the operator
      ^ refinement (CollectionRefinement)
CollectionCycle           one run of collect(), statement by statement
  each of its "read" and "project" steps is detailed, data included, by
    ResourceQuery         a query, page by page, against a changing inventory
      ^ extended by
    NativeProjection      cycle after cycle, what VCF Operations shows
    BulkStats             the staleness verdict of bulk_latest_stats()
    ClusterSnapshot       one cluster read from a changing inventory
    ClusterMetrics        every metric, of values any of which may be missing
      both over Ratios    exact quotients, no data, the worst of several
    Scoring               the composite of one object, collection after collection
ReleaseWorkflow           how a version of all this is published
```

The detailed modules are not composed with `CollectionCycle` by `INSTANCE`: they share
no variable with it except the outcome of a request. `CollectionCycle` takes a read to
end in *any* way (`Requests(n)`) and a query to list *any* set; the other modules say
what the data then is. A product of them would multiply their states and add no
interleaving since the program is one thread. Where two components do interact, they are
composed: `NativeProjection` runs the cycle's projection on the answer of a
`ResourceQuery` that is being disturbed, and carries the result into the next cycle.

### CollectionCycle

`pc` is the statement `collect()` is at; the other variables are the code's own
(`calls`, `failures`, `failedClusters`, `handlers`, `count`, ...) plus `sent`, the objects
in the JSON it returns, and two histories (`logged`, `statsReplies`). A behaviour is one process.

| action | code |
|---|---|
| `NoClient`, `ReadSettings`, `EnterClient` | `adapter.py`: the client, `_number_setting`, `CALL_STATS.reset()`, `with health, client` |
| `FetchClusters`, `FetchClusterKeys`, `FetchHostKeys` | the three `_query_resources` calls; `inventoryCalls` is set after the last |
| `NextCluster` | the `for` loop over clusters |
| `ReadChildren` ... `ReadStats` | `fetch_cluster_snapshot`, call by call |
| `ComputeMetrics`, `ProjectCluster`, `ProjectHost`, `EndCluster` | the metrics and `native_projection.project` |
| `FailCluster` (part of those) | the `except Exception` in the loop: two log records, next cluster |
| `ReportFailures` | `_report_failures` |
| `LeaveClient` | `__exit__` of the client, then of the handler, then the outer `except` clauses |
| `Publish` | `_publish_collection_health` and the JSON returned |

A read of up to `MaxRequests` requests is one step, because nothing but the
number answered, the number refused and the way it ended (returned, raised,
malformed body) is visible to the rest of the program. Metric values are left out.
A cluster with no hosts logs one warning, an object without a native key two.

### CollectContract and CollectionRefinement

The contract has three variables, `listed`, `delivered` and `verdict`, and two
actions: discover objects, and report once. An `error` delivers nothing; `healthy`
delivers everything listed. The mapping takes `listed` to the clusters listed and
the hosts read for them, `delivered` to what is in the returned JSON, and `verdict`
to the error and the published warning count.

### Scoring

`ScoreMetric` is one pass of the loop in `compute_composite`, `Composite` what
follows the loop, and `Recollect` the next collection, in which one sub-metric takes
another value, loses its data or regains it. `before` remembers the previous
collection, so that properties can compare two of them. Weights are in quarters and
scores in tenths, which makes the formula exact integer arithmetic up to the last
rounding. That rounding is to the nearest tenth with ties up, where Python's
`round` on floats takes a tie to the even digit or wherever the float lies: the
properties hold for either, as the bounds are themselves whole tenths and both are
monotonic.

### BulkStats

| action | code |
|---|---|
| `NextRead`, `FetchChunk` | a call of `bulk_latest_stats()` and its requests; a refused chunk leaves its stats missing |
| `RaiseInChunk` | a request that raises: the call is left, what it received is gone |
| `FindNewest` | the first pass over the samples (`suite_api.py:250-252`): `newest_ms` |
| `JudgeSample` | one pass of the second loop (254-257): `_fresh_value()` and `is_stale()` of the next sample, by the clock as it is then |
| `Return` | `return fresh` |
| `Tick`, `Store` | time, and VCF Operations storing a sample stamped with its own clock, `Skew` ahead of the collector's |

A stat stands for one (resource, stat key) pair; the values are left out. `samples` is a
dictionary in the order of the chunks, so `JudgeSample` takes those of an earlier chunk first;
within a chunk they come in the order of the reply, which is any. `is_stale()` reads the clock for
every sample, so time may pass between two verdicts of one read. `clock` records when each
sample was judged, for the properties.

### ClusterSnapshot

`where` and `power` are the real inventory, changed by `Migrate` and `SwitchPower`
between any two requests; `hosts`, `all_vms`, `props`, `stats` and `allocated` are
what `fetch_cluster_snapshot` has read; `metrics` is what
`collect_cluster_and_host_metrics` makes of it. `lost` remembers what was asked for
and did not come back, whether by a refused request or by a stale sample. The metrics
are those of the CPU (monster VM size ratio, vCPU overcommit ratio, CPU imbalance
ratio): what is left to missing values alone is in `ClusterMetrics`. A ratio is a pair
of naturals, compared by cross-multiplication (`Ratios`).

### ClusterMetrics

The metrics of one cluster and its hosts as a function of what was read, and two actions
that take away one value or one VM sample more. `host_records` and `metric_values` have
the names of the code; they are computed again after every loss, so that an action property
can compare the same metric with and without a value. Every *form* of metric occurs once:
`contention` stands for the stats that are shown as they are, and one of the four buckets of VM
samples, with the `worst` and `p90` metrics that `_worst_p90_into()` computes of it for each
host and for the cluster, for all of them. The settings are those `_number_setting()` accepts or replaces,
NaN included: comparisons with NaN are false, NaN is truthy, and Python's `min` and `max`
keep their first argument unless another compares better. `StoredAssumption` is what the stats
are, numbers or none; `ConsistencyAssumption` relates those that stand in for one another.

### ResourceQuery

`ReadPage` is one pass of the `while` loop of `_query_resources()`. The server cuts its
list as it is when the request arrives into pages; `Discover` and `Forget` insert and remove
anywhere between two requests. A reply may have no `pageInfo`: then `totalCount` is what
has been read, and the query ends with that page unless the list has no more. `stayed` and `events`
are histories for the properties.

### NativeProjection

| action | code |
|---|---|
| `Begin` | a new process: `collect()` up to its `try` |
| `ListClusters` | `fetch_resources()`, one page or its failure per step |
| `FetchKeys` | both `fetch_resource_keys()`; a key may be missing, a query may raise |
| `CollectCluster` | one pass of the loop: read (the request for the hosts may be refused), project the cluster, project its hosts, or fail on the way |
| `Fail`, `Send` | `_report_failures()`, `_publish_collection_health()`, and VCF Operations storing the JSON |
| `ChangeInventory`, `MoveHost` | the outside: clusters appear and vanish, a host changes cluster |

`result` is the `CollectResult`, in which an object projected twice is one object with the
later attributes over the earlier; `store` and `instance` are what VCF Operations keeps of
each object and of the adapter instance. What is read of an object is one value or none for
each key; bands, composite band, its level and the count in the worst band are computed of
it as the code does. The score itself is left to `Scoring`. Warnings are counted as far as
the properties tell them apart: none or some.

### ReleaseWorkflow

One action for each step of the publish and release jobs that reads or changes what is
shared: the registry, the artifact, the release. `Start` is the concurrency group;
`CancelPending` its rule that a later run takes the place of a waiting one. A step may
fail or its runner stop before or after the step took effect (`Fail` leaves `tags` and
`artifact` as they are by then). `RerunFailed`, `RerunAll` and `RerunReleaseJob` are what GitHub
offers: re-run the failed jobs, all of them, or one job. The release job alone takes the artifact
there is, and may be run again even after it succeeded; the publish job with the jobs that need it
is all of them. `passed` records
every check and signature by digest.

## What the runs check

Each run's properties are in `PROJECT.json`. `MC<Module>.tla` holds the
constants that a `.cfg` cannot write.

| run | instance | what it shows |
|---|---|---|
| `MCCollectionCycle` | two clusters, two hosts, one VM, one request per read | the safety properties of the whole cycle over every outcome of every request |
| `MCCollectionRefinement` | one cluster, two hosts, two requests per read | the counters when one read has both an answered and a failed request; `CollectContract` is implemented, and every cycle ends |
| `MCScoring` | three scored sub-metrics with weights 0.75, 1 and 1.25, one excluded while green, one key without bounds | band, score and their change from one collection to the next |
| `MCBulkStats` | two reads, one in two chunks with three stats; both limits 2 units; the collector's clock ahead by one | staleness, while samples are stored between the chunks and time passes between the verdicts |
| `MCClusterSnapshot` | two hosts, two VMs, one change during the read | exactness, the direction of errors, and where a VM counts |
| `MCClusterMetrics` | three hosts, one of them idle, three VMs, up to three values or any samples missing, four settings | what missing values do to every metric, and whether the settings can switch a warning off |
| `MCNativeProjection` | pages of one, none or two clusters to begin with and a third to appear, one host, two cycles, one change, any reply uncounted | what is listed, what is shown, what is warned about, and that a collection ends |
| `MCReleaseWorkflow` | two runs, two version tags, a commit on the default branch and one off it, three publish jobs | what is published however runs are pushed, stopped and re-run |
| `MCNoStatsIsError`, `MCWorseNeverLowersScore`, `MCReferenceIsTheRequest`, `MCNeverAGuess` | an instance that has the case | one disagreement each, see below |

**Properties.**

- `FailuresAreClusterCalls`: `_report_failures` subtracts a counter taken after the
  inventory from one counted throughout. That is a count of failures *of the clusters'
  calls* only because no failed inventory request ever reaches it.
- `TotalFailureIsError`, `HealthyMeansComplete`, `FailureIsIsolated`,
  `FailuresAreCounted`: the four promises of the README's "When collection fails", each
  over every path to the end of the cycle.
- `BandIsWorstKnown`, `ScoreWithinBand`, `WorseIsNeverBetter`: the composite never
  hides a red sub-metric and is never a false green; the ranges of `docs/METRICS.md`; and
  the direction in which a change moves the composite.
- `NeverLastKnownValue`, `EverySampleIsJudgedOnce`, `CurrentSampleIsUsed`: staleness drops
  what it must and keeps what it must, by the clock at the moment of each verdict.
  `OlderIsDroppedFirst`: within a read a dropped sample is older than a used one, however the read
  is cut into chunks. One exception: the clock is read for each sample, and where it passes the
  backstop's limit in the middle of a read, a sample judged later may be dropped although one as old,
  judged earlier, was used. The order decides then, for the length of one loop.
- `LosingNeverRaises`: whatever stands in for a missing value (provisioned memory for the DRAM,
  a sum of VMs for the native allocation, the other hosts for one), no metric that is still
  there is higher than it was, the worst sample included. A 90th percentile may be, when a sample
  at or below it is missing: of nine 1s, a 2 and a 9 it is 2, without two of the 1s it is 9. `ClusterIsItsWorstHost`: two of the cluster's metrics have a path of
  their own through `cluster.py` and must agree with `traversal.py`. `VmAsBigAsHostIsMonster`:
  a host with a VM as big as itself is over the green limit or NaN, which is red; only at 100
  percent, the highest setting, a VM exactly as big is at the limit, which is green still. `PooledPercentileIsBetween`: the
  nearest-rank percentile of the pooled samples lies between those of the hosts.
- `QuietQueryIsExact`, `PresentIsListed`, `ListedOnce`: counting the pages again with every
  reply makes insertions harmless to what was there; a resource is hidden only by a removal before
  it, or by a reply that does not count the resources and so ends the query; only
  insertions can list one twice.
- `ReadingIsWhole`: VCF Operations keeps a metric that has no data, so the old value stays; the
  band, always written, is what says so. `HealthyMeansUpdated`: without a warning every cluster
  that was *listed*, and every host that stayed in it, was written, whatever appeared, vanished or was
  not counted meanwhile. That every cluster was listed is not part of it, since no warning tells of
  one that was missed. `WrittenTwiceOnlyIfChanged`, `FirstWarningIsCurrent`: the rest of what an
  operator concludes from the objects.
  `CollectionEnds`: the end of the paging loop moves only as often as the inventory grows.
- `VersionTagNeverMoves`, `ReleaseIsWhatWasChecked`, `ReleaseCanBeCompleted`: the workflow's own
  promises ("Version tags are immutable"; scan, signature and attestation "on the exact digest
  the pak names"), and that a stop in the release job is no dead end.
- `FailureNeverOverstates`, `CompleteReadIsExact`, `UnchangedVmIsCountedWhereItIs`: a
  lost reply can only make a metric smaller or no data; a complete read of a still
  inventory is exact; other VMs' moves do not disturb a VM that stays.

**Bounds, and why they are enough.** `MaxRequests` is the number of pages or chunks of
one read: 1 is every single outcome, 2 is one answered and one failed in the same
read, and more only adds to counters that are compared but never tested for a value.
Two clusters are needed for isolation (one fails, the other does not) and for the
state of one cluster that must not reach the next; two hosts for a cluster that
fails half-projected. `MaxTime` stops the clock one unit after the start: between two chunks, two
verdicts or two reads the clock either passes a limit or does not, and stored timestamps range over
everything older, so both limits are met, missed by one
and passed. The collector's clock is ahead by one of the two units tolerated: ahead by all of
them, every sample the first test drops the second drops too, and the first would go
unexercised (the theorems cover every skew within the tolerance).
`MaxChanges` is one migration or power operation per read: the properties speak of
VMs that did not change while another did, and of a VM that changed once. Four values
of a sub-metric, one per band; further values of the same band classify alike.
`Scoring` compares two consecutive collections, so histories longer than two add
nothing. Symmetry is used only
in a run with invariants alone: in `MCBulkStats` the two stats of one chunk may be exchanged, as
their order in the reply is any.
`MaxLost` is three values because no metric has more than four inputs with their fallbacks: a
property of the fall from one to the next is met with the others there or gone. Eleven samples of
one host and thirteen of another are on both sides of the rank's steps, and losing them one by
one passes every smaller size. The first host has no VMs and no core that is busy, and the last one no
thread that runs: the zeros that mean idle (a ratio of 0 or of 1) beside those that mean missing. The
four settings have each percentage at both ends of its range, out of it, and NaN. Pages of
one make every position a page boundary, and every last page full (that it need not be is left to the
theorems, which are for any page size); three clusters
and one change give an insertion before, at and after the page being read, and a removal likewise;
two cycles are one to show something and one to write over it, or not. Three publish jobs are a
run, its re-run, and another run of the same or another tag in between; the theorems cover any number.

**Deadlock** is checked in the modules whose program ends (`CollectionCycle` and
`ClusterSnapshot` have an explicit `Terminated` step) and in `Scoring`, which goes on
for ever, in `BulkStats`, where VCF Operations can always store a sample, and in
`NativeProjection`, which has a `Terminated` step. It is not in `ClusterMetrics`, which stops
when nothing more may go missing, nor in `ReleaseWorkflow`, where nobody need push or re-run
anything more.

**Fairness.** `FairSpec` of `CollectionCycle` is weak fairness of `Next`: the program
is one thread, a request is answered or raises, a timeout among the exceptions
(`suite_api.py:47`), and no statement waits for anything else. Nothing more is assumed; in particular no request need ever be
answered. Under it `CycleEnds` holds: the loops are over finite sets that shrink.
`NativeProjection` has the same, weak fairness of the `Collector`'s actions, and none of the
inventory's. `ReleaseWorkflow` assumes that runners run what is queued and that a step ends or
fails (weak fairness of each run's steps), that a maintainer re-runs a release job that failed
(weak fairness of `CompleteRelease`), and that creating a release does not fail for ever (strong
fairness of `Release`): the first is GitHub's, the other two are what `ReleaseCanBeCompleted`
asks whether it *can* be completed by. Nothing makes anybody re-run a publish job. The other
modules have no liveness property: their environment may stop.

## What is proved

`tlapm` checks every theorem; none rests on an unproved statement. Every safety
invariant and action property that a passing run checks is stated by a theorem, for every
value of the constants. The assumptions are the named `ASSUME`s of the component modules: the
constants are finite and disjoint where the code has them so, limits are naturals, bounds of a
band are ordered and weights positive (TLC evaluates each of them in a run). Two of them are
about the data VCF Operations stores, and only `LosingNeverRaises` needs them
(`ConsistencyAssumption` of `ClusterMetrics`): a host is provisioned at least its DRAM, for the
rest is the NVMe tier (`constants_shared.py:65-70`), and a native allocation is that of the
host's powered-on VMs (`constants_host.py:65-70`), so no less than the sum over those that are
stored. Where either did not hold, what stands in for a missing value could be the greater.

**FiniteSums.** What the other proofs need of finite sets and cannot take from the library, whose
induction is a theorem with an operator parameter. The strict subsets of a finite set are a
well-founded order; so for a *set* of subsets that has each one of which it has all smaller ones
(`SubsetInduction`), a subset it lacks could not be minimal. Hence `Max` and `Min` of a finite set of integers are
members that bound it, and the sum that `MapThenSumSet` defines by a `CHOOSE` of a function is
unique (`SumIsUnique`), exists (`SumExists`), takes its elements in any order (`TotalFacts`) and is
monotonic in the set and in the function (`TotalOfSubset`, `TotalOfLess`); the sum of a table by
columns is that by rows (`TotalSwap`).

**CollectionCycleProofs.** `TypeCorrect` needs `Base`: the types, and `Control`, which
says what can hold at which statement (the cluster being read is a listed one the loop has
taken; nothing has failed or been written before the loop; the handler is attached exactly
between entering and leaving). `FailuresAreClusterCalls` is not inductive alone: it
needs `Counters`, that `failures` is 0 until the loop begins, that whatever failed was
counted by the handler, and that a cycle leaving without an error had no total failure. `FailureIsIsolated` and `HealthyMeansComplete`
need `Progress` (what has been written of the cluster being projected) and
`Completeness` (of the clusters that are behind). `FailuresAreCounted` is an inequality
between a counter and a cardinality; its step lemma adds a cluster to a set it is not
in. `CycleImplementsContract` adds `Found`, that a cluster not yet read has no hosts, so
that what is listed only grows: then every step is a `Discover`, a `Report` or a
stutter.

**ScoringProofs.** `Loop` says that `weighted_scores <= F * total_weight` for every floor
`F` that bounds the bands of the sub-metrics already reached.
`ScoreWithinBand` follows by the bounds of the rounding (`NearestBounds`), for any
metrics, bounds and weights. `WorseIsNeverBetter` compares the results of two runs of the loop:
`TwoResults` says that the sums under way are those of the sub-metrics behind (`SumsSoFar`),
and of both results, the last and the one before, that they are what the sums over *all* of
their values give. The step that decides is then one on sums: that a sub-metric in the average
moves up by one band while the others stay.

**BulkStatsProofs.** `Own` (samples and verdicts belong to the read under way or to a read
judged), `Walk` (where the second loop is: what is judged and what is to come, and that `newest_ms`
bounds every sample of the read from the first verdict on), `Verdicts` (what was decided agrees with
the sample, the newest and the clock of its moment) and `Clocks` (no timestamp is ahead of VCF
Operations' clock). The four staleness properties
follow from these for any reads, chunks, limits and skew within the tolerance: for
`OlderIsDroppedFirst`, that `newest_ms` does not change during the loop leaves only the clock to make
verdicts on two samples of one age differ, and then it was later for the one that was dropped.

**ClusterSnapshotProofs.** `WalkIsRight` and `PowerIsRight` say of each VM that did not
change which of the hosts already asked list it and that its power state is as read;
`Shape` says what is empty before which step. `UnchangedVmIsCountedWhereItIs` follows,
for any hosts, VMs and number of changes. `TypeCorrect` adds `NothingYet`: what a step fills in is
empty before it. The two properties of what a failure does to the metrics rest on `QuietInv`, of an
inventory that has not changed. `HonestSoFar`: whatever was lost, what came back is so, and the
metrics are those of it; a ratio of part of the VMs is then no more than that of all of them, as
is a maximum. `CompleteSoFar`: with nothing lost, all that is so came back.

**ClusterMetricsProofs.** `RecordsInv` says that each value is the stored one or missing, and that
both records are computed of what is left; a step makes values missing and does nothing else (`Fewer`).
`LosingNeverRaises` goes metric by metric over what is proved of its form, once for
any values: a quotient falls with its dividend and as its divisor grows or is lost (`PerNeverRaised`),
a monster ratio with fewer known VMs of a host no smaller (`MonsterNeverRaised`, with the sizes of
`CpuSizeGrows` and `MemorySizeGrows` for every setting), the sum of the VMs stays below the
allocation it stands in for (`AllocatedNeverMore`), and the highest of metrics none of which
rose has not risen, wherever NaN stands among the hosts (`HighestNeverRaised`). Of the samples,
`FewerSamples` says that no value is more frequent than before; the worst of fewer is no higher
(`WorstNeverRaised`), and if all that is missing was above the 90th percentile, that is no higher either
(`P90NotRaised`), so that where it did rise a sample at or below it is missing (`P90RaisedByLower`). What is proved of a
host is more than the property: a metric that has no data never gets one by a loss.
`VmAsBigAsHostIsMonster` needs that no setting leaves a percentage above 100 (`SettingFacts`), so
that a VM as big as its host is above the monster size or, at 100 and exactly as big, equal to it;
`ClusterIsItsWorstHost` that neither metric is ever NaN. For `PooledPercentileIsBetween`,
`PercentileFacts` turns the rounded-up rank into "exactly from the percentile on, nine tenths of the
samples are reached", which adds up over the hosts.

**NativeProjectionProofs.** `QueryInv` says where every resource is that
stayed: among those read or still ahead, by position, as long as nothing was removed; that no
position read comes again, as long as nothing was inserted; and that `resources` is the part of
the list before the page, as long as neither. The lemmas on `InsertAt`, `RemoveAt` and `SubSeq`
give the positions after each change, and the one on division that the last page is the one the
list ends on. Over it, `NativeProjection` has `Progress` (the clusters still to collect are a tail of those
listed, and what is written so far is of the others), `Warnings` (there is a first warning as soon
as there is one, and it is of this cycle), `Whole` (what is stored covers the last reading sent, and
the result the last one projected), `OnceWritten` and `Updated` (as long as there is no warning, what the loop has taken is written,
of the listing and of the hosts that stayed). `Attributes` writes a band for every key, known or not:
that is why covering survives being written over. For any number of objects, cycles,
changes and any page size.

**ReleaseWorkflowProofs.** `Alone` is the concurrency group; `Built` and `Vetted` say what a run has
done by the step it is at; `Tagged` what its version tag is meanwhile, absent between the gate and
the copy because nobody else of the group can make it; `Published` the rest. `Alone` is what makes
`Tagged` inductive, and `Tagged` gives both theorems.

**Only model-checked.** `CycleEnds`, `CollectionEnds`, `ReleaseCanBeCompleted`: liveness under
fairness is out of the provers' reach. And the `violation` runs, which are counterexamples.

## Where the code and its documents disagree

| run | document | code |
|---|---|---|
| `MCNoStatsIsError` | `README.md:45-48`: every stats call failing is an error | `adapter.py:279` asks for *every* call after the inventory; one answered relationships call is enough for no error |
| `MCWorseNeverLowersScore` | `docs/METRICS.md:202-205`: a known sub-metric getting worse only ever adds to the average | `scoring.py:83`: one that was excluded while green enters the average when it turns yellow and can lower it |
| `MCReferenceIsTheRequest` | `docs/METRICS.md:26-28`: the reference is the newest sample of the same request | `suite_api.py:250`: it is the newest of the cycle so far, other clusters' included |
| `MCNeverAGuess` | `README.md:50-51`: a value whose call failed has no data | `suite_api.py:303`: a failed VM list is an empty one, which is a monster VM size ratio of 0 |

Further observations, each seen in a model and not among the runs:

- **Settings warnings are not counted.** `README.md:54-55` has the adapter instance say "how many
  warnings the cycle logged"; settings are read at `adapter.py:137`, before the handler is attached
  at 146 (`CollectionCycle`: `logged` exceeds `count`).
- **A migrated VM is on no host.** `docs/METRICS.md:72` speaks of "every powered-on VM in the
  cluster"; hosts are read one by one (`traversal.py:178`), so a VM that migrates from a host not yet
  read to one already read is on none, and the opposite way on both (`ClusterSnapshot`).
- **NaN is a valid setting.** "nan" passes both comparisons at `adapter.py:240`, although the
  docstring (233) and `docs/METRICS.md:297-298` have an invalid value replaced by the default. The hosts
  with VMs then have a monster ratio of NaN, which no bound is above, so red. The cluster's is documented
  as the highest of its hosts' (`docs/METRICS.md:68-69`); where the first host has no VMs, `max()` at
  `traversal.py:257` keeps its 0, and the cluster is green above red hosts (`ClusterMetrics`: `Highest`,
  and the last sentence of `VmAsBigAsHostIsMonster`).
- **A reply without `pageInfo` ends a query.** `_query_resources()` is to read "All pages of
  /api/resources/query" (`suite_api.py:136`); at line 156 such a reply counts what has been read so far
  as all there is. Unless it was the last page anyway, the resources behind it are not listed, nothing is raised
  and no warning is logged: their objects keep old values under a healthy adapter instance
  (`ResourceQuery`: `ReadPage`, the event "uncounted").
- **One clock for each sample.** `is_stale()` reads the clock at every call, so two samples of a read
  with one timestamp may be judged differently if the backstop's limit passes in between; the docstring
  of `bulk_latest_stats()` has the reference, not the clock, cover the whole request (`BulkStats`:
  `OlderIsDroppedFirst`). A clock read once for each call would make the verdicts agree.
- **"Re-run all jobs" of a run that published** is refused at the version tag, as is a run that
  stopped between the copy of the tag and the upload of its artifact; such a version has no release
  and needs a new patch version, as `README.md:90` has it (`ReleaseWorkflow`: `restarted`, `Fail`).
- **One dashboard id for all candidates.** The id is derived from X.Y.Z
  (workflow lines 289-301), so `vX.Y.Z-rc.N` and `vX.Y.Z` share it, where lines 15-17 and `MIGRATION.md` say
  that every release has its own. Not modelled.

## What is not modelled

- The names of attributes, log wording, URLs and JSON: no property is about them.
- The tables of metrics, thresholds and weights: they are parameters. Stats of the same form
  are one in `ClusterMetrics`.
- The adapter definition, the connection test, the endpoint list and `main()`: they keep no
  state.
- The choice among the instances of one stat (`_pick`), a function without state.
- Exceptions inside the arithmetic: a value of a wrong type is an exception of the cluster, which
  `CollectionCycle` and `NativeProjection` let happen.
- Floating point: ratios are exact.
- In the workflow the `verify` job, which publishes nothing, and the stamping of the manifest and
  the dashboard. `skopeo inspect` may fail for another reason, but never says that an existing tag does not exist.
- Dashboards, describe files, the container image: data.

## Plan

Done: every component that keeps state, as listed above, and a theorem for every safety property.
What could be added:

1. Bands instead of values: that the band of a metric never gets worse by a loss
   (`LosingNeverRaises` with `Scoring`'s `classify_band`, which is monotonic), and what of this
   the composite keeps, where a lost sub-metric changes the divisor.
2. The safety part of the liveness properties: a measure that every step of the paging loop
   decreases while the inventory is still, and one of the loops of `collect()`.
3. The real tables of thresholds and weights as constants of a run.
