------------------------------- MODULE BulkStats -------------------------------
(***************************************************************************)
(* suite_api.bulk_latest_stats() over one collection cycle: its chunked    *)
(* requests, and the staleness verdict on every sample that comes back,    *)
(* while VCF Operations keeps storing samples and time passes.             *)
(*                                                                         *)
(* A stat stands for one (resource, statkey) pair and time is in units of  *)
(* 5 minutes.  VCF Operations stamps a sample with its own clock, which is *)
(* ahead of the collector's by Skew.                                       *)
(***************************************************************************)
EXTENDS Integers, Sequences

CONSTANTS
    Reads,          \* the bulk reads of the cycle: each is a sequence of chunks,
                    \* each chunk a set of stats
    StaleAfter,     \* STALE_AFTER_MINUTES
    SkewTolerance,  \* CLOCK_SKEW_TOLERANCE_MINUTES
    Skew,           \* VCF Operations' clock minus the collector's
    StartTime,      \* the collector's clock when the cycle starts
    MaxTime,        \* bound: the latest time modelled
    NoSample,       \* no latest sample is stored
    NoTimestamp,    \* a sample without a timestamp is
    NoRead          \* no read is under way

StatsOf(r) == UNION {r[i] : i \in DOMAIN r}
Stat == UNION {StatsOf(r) : r \in Reads}
Time == 0..(MaxTime + Skew)

ASSUME TimeAssumption == /\ StaleAfter \in Nat /\ SkewTolerance \in Nat /\ Skew \in Int
                         /\ StartTime \in Nat /\ MaxTime \in Nat /\ StartTime <= MaxTime
                         /\ StartTime + Skew >= 0
\* What the tolerance is for: the collector's clock is not further ahead than that.
ASSUME SkewAssumption == -Skew <= SkewTolerance
ASSUME NoSampleAssumption == {NoSample, NoTimestamp} \cap Nat = {} /\ NoSample # NoTimestamp
ASSUME ReadsAssumption ==
    /\ Reads \subseteq Seq(SUBSET Stat) /\ NoRead \notin Reads
    /\ \A r1, r2 \in Reads : r1 # r2 => StatsOf(r1) \cap StatsOf(r2) = {}

VARIABLES
    now,            \* now_ms()
    stored,         \* the timestamp of each stat's latest sample in VCF Operations
    newest_ms,      \* CALL_STATS.newest_ms
    todo,           \* the reads not made yet
    read,           \* the one under way
    pc,             \* what it does: "fetch", "judge"; "idle" between reads
    sent,           \* how many of its chunks were sent
    samples,        \* the timestamps it has received, NoSample elsewhere
    unjudged,       \* the stats the loop over them has still to come to
    clock,          \* history: the clock when each of them was judged
    fresh,          \* the stats whose value was returned
    stale,          \* the stats whose sample was judged stale
    judged          \* history: for each completed read, its samples, newest_ms and clocks

reading == <<read, pc, sent, samples, unjudged, clock>>
collector == <<newest_ms, todo, reading, fresh, stale, judged>>
vars == <<now, stored, collector>>

NoSamples == [s \in Stat |-> NoSample]
Timed(s) == samples[s] \in Time

\* Mutants: without the backstop; without the tolerance.
is_stale_by_newest(sample, newest) == newest - sample > StaleAfter
is_stale_by_either(sample, newest) ==
    newest - sample > StaleAfter \/ now - sample > StaleAfter

\* Reads the clock: every sample is held against the time it is judged at.
is_stale(sample, newest) ==
    \/ newest - sample > StaleAfter
    \/ now - sample > StaleAfter + SkewTolerance

--------------------------------------------------------------------------------
Init ==
    /\ now = StartTime
    /\ stored \in [Stat -> 0..(StartTime + Skew) \cup {NoSample, NoTimestamp}]
    /\ newest_ms = 0
    /\ todo = Reads /\ read = NoRead /\ pc = "idle" /\ sent = 0
    /\ samples = NoSamples /\ unjudged = {} /\ clock = NoSamples
    /\ fresh = {} /\ stale = {}
    /\ judged = [r \in {} |-> {}]

Tick == now < MaxTime /\ now' = now + 1 /\ UNCHANGED <<stored, collector>>

\* VCF Operations stores a new sample; a source that stopped takes no such step.
Store ==
    /\ \E s \in Stat : stored' = [stored EXCEPT ![s] = now + Skew]
    /\ UNCHANGED <<now, collector>>

NextRead ==
    /\ pc = "idle" /\ pc' = "fetch"
    /\ \E r \in todo : read' = r /\ todo' = todo \ {r}
    /\ UNCHANGED <<now, stored, newest_ms, sent, samples, unjudged, clock, fresh, stale, judged>>

\* One request: answered, or refused and its stats stay missing.
FetchChunk ==
    /\ pc = "fetch" /\ sent < Len(read) /\ sent' = sent + 1
    /\ \/ samples' = [s \in Stat |-> IF s \in read[sent'] THEN stored[s] ELSE samples[s]]
       \/ UNCHANGED samples
    /\ UNCHANGED <<now, stored, newest_ms, todo, read, pc, unjudged, clock, fresh, stale, judged>>

\* The read ends and its dictionaries are gone.
EndOfRead == read' = NoRead /\ pc' = "idle" /\ sent' = 0 /\ unjudged' = {} /\ clock' = NoSamples

\* Mutant: what was received is left in the dictionary of the next read.
RaiseKeepingSamples ==
    /\ pc = "fetch" /\ sent < Len(read)
    /\ EndOfRead
    /\ UNCHANGED <<now, stored, newest_ms, todo, samples, fresh, stale, judged>>

\* A request raises: the cluster fails and what the read had received is dropped.
RaiseInChunk ==
    /\ pc = "fetch" /\ sent < Len(read)
    /\ EndOfRead /\ samples' = NoSamples
    /\ UNCHANGED <<now, stored, newest_ms, todo, fresh, stale, judged>>

Received == {s \in Stat : samples[s] # NoSample}

StartJudging ==
    /\ pc = "fetch" /\ sent = Len(read)
    /\ pc' = "judge" /\ unjudged' = Received
    /\ UNCHANGED <<now, stored, todo, read, sent, samples, clock, fresh, stale, judged>>

\* Mutant: no first pass, as each sample updates the newest when it is judged.
JudgeAtOnce == StartJudging /\ UNCHANGED newest_ms

\* The first pass over the samples: the newest.
FindNewest ==
    /\ StartJudging
    /\ newest_ms' \in {newest_ms} \cup {samples[s] : s \in {s \in Stat : Timed(s)}}
    /\ newest_ms' >= newest_ms
    /\ \A s \in Stat : Timed(s) => samples[s] <= newest_ms'

\* The samples are in the dictionary in the order of the chunks.
IsNext(s) ==
    /\ s \in unjudged
    /\ \A i, j \in DOMAIN read : i < j /\ s \in read[j] => read[i] \cap unjudged = {}

Verdict(s, usable, counted) ==
    /\ fresh' = IF usable THEN fresh \cup {s} ELSE fresh
    /\ stale' = IF counted THEN stale \cup {s} ELSE stale
    /\ unjudged' = unjudged \ {s} /\ clock' = [clock EXCEPT ![s] = now]
    /\ UNCHANGED <<now, stored, todo, read, pc, sent, samples, judged>>

Newer(s) == IF Timed(s) /\ samples[s] > newest_ms THEN samples[s] ELSE newest_ms

\* Mutant: what has no timestamp is not counted.
JudgeTimedOnly ==
    /\ pc = "judge"
    /\ \E s \in unjudged :
        /\ IsNext(s)
        /\ newest_ms' = Newer(s)
        /\ LET usable == Timed(s) /\ ~is_stale(samples[s], newest_ms')
           IN  Verdict(s, usable, Timed(s) /\ ~usable)

\* The second pass: _fresh_value() of one sample after the other.
JudgeSample ==
    /\ pc = "judge"
    /\ \E s \in unjudged :
        /\ IsNext(s)
        /\ newest_ms' = Newer(s)
        /\ LET usable == Timed(s) /\ ~is_stale(samples[s], newest_ms')
           IN  Verdict(s, usable, ~usable)

Return ==
    /\ pc = "judge" /\ unjudged = {}
    /\ judged' = [r \in DOMAIN judged \cup {read} |->
                    IF r = read THEN [samples |-> samples, newest |-> newest_ms, clock |-> clock]
                    ELSE judged[r]]
    /\ EndOfRead /\ samples' = NoSamples
    /\ UNCHANGED <<now, stored, newest_ms, todo, fresh, stale>>

Next == \/ Tick \/ Store
        \/ NextRead \/ FetchChunk \/ RaiseInChunk \/ FindNewest \/ JudgeSample \/ Return

Spec == Init /\ [][Next]_vars

--------------------------------------------------------------------------------
Stamp == Time \cup {NoSample, NoTimestamp}
ClockTime == StartTime..MaxTime

TypeOK ==
    /\ now \in ClockTime
    /\ stored \in [Stat -> Stamp]
    /\ newest_ms \in Time
    /\ todo \subseteq Reads /\ pc \in {"idle", "fetch", "judge"}
    /\ IF pc = "idle" THEN read = NoRead /\ sent = 0 /\ samples = NoSamples
       ELSE read \in Reads /\ sent \in 0..Len(read)
    /\ samples \in [Stat -> Stamp] /\ clock \in [Stat -> ClockTime \cup {NoSample}]
    /\ unjudged \subseteq Stat /\ fresh \subseteq Stat /\ stale \subseteq Stat
    /\ DOMAIN judged \subseteq Reads \ todo
    /\ \A r \in DOMAIN judged :
        judged[r] \in [samples : [Stat -> Stamp], newest : Time,
                       clock : [Stat -> ClockTime \cup {NoSample}]]

TimedIn(r) == {s \in StatsOf(r) : judged[r].samples[s] \in Time}
\* How old a sample was by the collector's clock when it was judged.
Age(r, s) == judged[r].clock[s] - judged[r].samples[s]

(* No value older than it may be is used: of one read, none more than       *)
(* StaleAfter older than any other sample of that read, and none that was   *)
(* more than StaleAfter + SkewTolerance behind the collector's clock, so    *)
(* that a stopped vCenter adapter cannot keep a cluster green.              *)
NeverLastKnownValue ==
    \A r \in DOMAIN judged : \A s \in fresh \cap StatsOf(r) :
        /\ s \in TimedIn(r)
        /\ Age(r, s) <= StaleAfter + SkewTolerance
        /\ \A other \in TimedIn(r) :
             judged[r].samples[other] - judged[r].samples[s] <= StaleAfter

(* "Staleness is judged after every chunk is in": within one read a dropped *)
(* sample is older than a used one, whichever was judged first.  The order  *)
(* matters only where the clock, read again for every sample, passes the    *)
(* backstop's limit in between: then the later one may be dropped although  *)
(* it is as new or newer, and never the earlier one.                        *)
OlderIsDroppedFirst ==
    \A r \in DOMAIN judged : \A s \in fresh \cap StatsOf(r), t \in stale \cap TimedIn(r) :
        \/ judged[r].samples[t] < judged[r].samples[s]
        \/ /\ judged[r].clock[s] < judged[r].clock[t]
           /\ Age(r, t) > StaleAfter + SkewTolerance

(* Every sample a completed read received is used or counted stale, once;   *)
(* a stat nobody answered for is neither.                                   *)
EverySampleIsJudgedOnce ==
    /\ fresh \cap stale = {}
    /\ \A r \in DOMAIN judged : \A s \in StatsOf(r) :
        (s \in fresh \cup stale) <=> (judged[r].samples[s] # NoSample)

(* A sample that is no older than StaleAfter by VCF Operations' own clock   *)
(* when it is judged is used, whatever was read before it and however the   *)
(* clocks differ.                                                           *)
CurrentSampleIsUsed ==
    \A r \in DOMAIN judged : \A s \in TimedIn(r) :
        Age(r, s) + Skew <= StaleAfter => s \in fresh

--------------------------------------------------------------------------------
(* METRICS.md: the reference is the newest sample "returned in the same     *)
(* request", so a sample no older than that by StaleAfter, nor too old for  *)
(* the collector's clock, is used.  CALL_STATS.newest_ms is the cycle's.    *)
ReferenceIsTheRequest ==
    \A r \in DOMAIN judged : \A s \in stale \cap TimedIn(r) :
        \/ Age(r, s) > StaleAfter + SkewTolerance
        \/ \E other \in TimedIn(r) :
             judged[r].samples[other] - judged[r].samples[s] > StaleAfter
================================================================================
