---------------------------- MODULE BulkStatsProofs ----------------------------
(***************************************************************************)
(* Proofs about BulkStats for any reads, limits and clock skew.            *)
(***************************************************************************)
EXTENDS BulkStats, TLAPS

Records == [samples : [Stat -> Stamp], newest : Time, clock : [Stat -> ClockTime \cup {NoSample}]]

\* The record of the read under way.
Current == [samples |-> samples, newest |-> newest_ms, clock |-> clock]

\* What a read's record makes of one of its samples.
Usable(rec, s) ==
    /\ rec.samples[s] \in Time
    /\ rec.newest - rec.samples[s] <= StaleAfter
    /\ rec.clock[s] - rec.samples[s] <= StaleAfter + SkewTolerance

\* A sample that was judged, at a time when the newest was not in the future.
Decided(rec, s) ==
    /\ rec.clock[s] \in ClockTime /\ rec.newest <= rec.clock[s] + Skew
    /\ s \in fresh <=> Usable(rec, s)
    /\ s \in stale <=> ~Usable(rec, s)

(***************************************************************************)
(* The inductive invariant.  Own: the reads share no stat, so a verdict    *)
(* once given is never given again.  Walk: of the read under way, the      *)
(* newest covers all samples before the first is judged, and those behind  *)
(* the loop have the verdict of the record so far.  Verdicts: so has every *)
(* completed read.  Clocks: nothing is stamped later than VCF Operations'  *)
(* clock.                                                                  *)
(***************************************************************************)
Own ==
    /\ DOMAIN judged \cap todo = {}
    /\ pc # "idle" => read \notin todo /\ read \notin DOMAIN judged /\ Received \subseteq StatsOf(read)
    /\ pc # "judge" => unjudged = {} /\ clock = NoSamples
    /\ \A s \in fresh \cup stale : \/ \E r \in DOMAIN judged : s \in StatsOf(r)
                                   \/ pc = "judge" /\ s \in Received \ unjudged

Walk ==
    pc = "judge" =>
        /\ unjudged \subseteq Received
        /\ \A s \in Stat : samples[s] \in Time => samples[s] <= newest_ms
        /\ \A s \in unjudged : s \notin fresh \cup stale
        /\ \A s \in Received \ unjudged : Decided(Current, s)

Verdicts ==
    \A r \in DOMAIN judged : \A s \in StatsOf(r) :
        /\ judged[r].samples[s] \in Time => judged[r].samples[s] <= judged[r].newest
        /\ IF judged[r].samples[s] = NoSample THEN s \notin fresh \cup stale
           ELSE Decided(judged[r], s)

Clocks ==
    /\ \A s \in Stat : stored[s] \in Time => stored[s] <= now + Skew
    /\ \A s \in Stat : samples[s] \in Time => samples[s] <= now + Skew
    /\ newest_ms <= now + Skew

Inv == TypeOK /\ Own /\ Walk /\ Verdicts /\ Clocks

\* A stat of a read is one of the stats.
LEMMA StatFacts == \A r \in Reads : StatsOf(r) \subseteq Stat
BY DEF Stat

\* A chunk that can be sent is of the read's stats.
LEMMA ChunkFacts ==
    ASSUME NEW r \in Reads, NEW i \in 0..Len(r), i < Len(r)
    PROVE  i + 1 \in 0..Len(r) /\ r[i + 1] \subseteq StatsOf(r)
<1>1. r \in Seq(SUBSET Stat)  BY ReadsAssumption
<1>2. i + 1 \in DOMAIN r /\ i + 1 \in 0..Len(r)  BY <1>1
<1> QED  BY <1>2 DEF StatsOf

\* Times are numbers, and no other mark is one.
LEMMA TimeFacts ==
    /\ Time \subseteq Nat
    /\ \A t \in ClockTime : t \in Nat
    /\ NoSample \notin Time /\ NoTimestamp \notin Time /\ NoSample \notin ClockTime
<1>1. Time \subseteq Nat  BY DEF Time
<1>2. \A t \in ClockTime : t \in Nat  BY TimeAssumption DEF ClockTime
<1> QED  BY <1>1, <1>2, NoSampleAssumption

\* VCF Operations' clock stays within the times modelled.
LEMMA ClockFacts == \A t \in ClockTime : t + Skew \in Time
BY TimeAssumption DEF Time, ClockTime

\* The types of one read's record.
LEMMA RecordFacts ==
    ASSUME TypeOK, NEW r \in DOMAIN judged
    PROVE  /\ judged[r].newest \in Nat
           /\ \A s \in Stat : judged[r].samples[s] \in Stamp
<1>1. judged[r] \in Records  BY DEF TypeOK, Records
<1>2. judged[r].newest \in Time /\ judged[r].samples \in [Stat -> Stamp]
  BY <1>1 DEF Records
<1> QED  BY <1>2, TimeFacts

\* Before the first read nothing is judged.
LEMMA InitInv == Init => Inv
<1> SUFFICES ASSUME Init PROVE Inv
  OBVIOUS
<1> USE TimeAssumption, NoSampleAssumption, ReadsAssumption, TimeFacts, ClockFacts
<1>1. TypeOK  BY DEF Init, TypeOK, NoSamples, Time, Stamp, ClockTime
<1>2. Own /\ Walk /\ Verdicts  BY DEF Init, Own, Walk, Verdicts
<1>3. Clocks  BY DEF Init, Clocks, NoSamples, Time
<1> QED  BY <1>1, <1>2, <1>3 DEF Inv

\* The steps that judge nothing and complete nothing.
LEMMA QuietStep ==
    ASSUME Inv, Tick \/ Store \/ NextRead \/ FetchChunk \/ RaiseInChunk \/ FindNewest \/ UNCHANGED vars
    PROVE  Inv'
<1> USE TimeAssumption, NoSampleAssumption, ReadsAssumption, TimeFacts, ClockFacts DEF Inv
<1> DEFINE rest == <<fresh, stale, judged>>
<1>a. rest' = rest
  BY DEF Tick, Store, NextRead, FetchChunk, RaiseInChunk, StartJudging, FindNewest, vars, collector
<1>b. Verdicts'
  BY <1>a DEF Verdicts, Decided, Usable
<1>1. CASE Tick
  <2>1. TypeOK'  BY <1>1 DEF Tick, collector, reading, TypeOK, ClockTime
  <2>2. Own' /\ Walk'
    BY <1>1 DEF Tick, collector, reading, Own, Walk, Received, Decided, Usable, Current
  <2>3. /\ \A s \in Stat : /\ stored[s] \in Time => stored[s] \in Nat
                          /\ samples[s] \in Time => samples[s] \in Nat
        /\ newest_ms \in Nat /\ now \in Nat
    BY TimeFacts DEF TypeOK
  <2>4. /\ \A s \in Stat : stored[s] \in Time => stored[s] <= (now + 1) + Skew
        /\ \A s \in Stat : samples[s] \in Time => samples[s] <= (now + 1) + Skew
        /\ newest_ms <= (now + 1) + Skew
    <3>1. now + Skew <= (now + 1) + Skew /\ now + Skew \in Int /\ (now + 1) + Skew \in Int
      BY <2>3, TimeAssumption
    <3>2. \A n \in Nat : n <= now + Skew => n <= (now + 1) + Skew
      BY <3>1
    <3> QED  BY <2>3, <3>2 DEF Clocks
  <2>5. Clocks'  BY <1>1, <2>4 DEF Tick, collector, reading, Clocks
  <2> QED  BY <1>b, <2>1, <2>2, <2>5
<1>2. CASE Store
  <2>1. TypeOK'  BY <1>2 DEF Store, collector, reading, TypeOK, Stamp
  <2>2. Own' /\ Walk'
    BY <1>2 DEF Store, collector, reading, Own, Walk, Received, Decided, Usable, Current
  <2>3. Clocks'  BY <1>2 DEF Store, collector, reading, Clocks, TypeOK
  <2> QED  BY <1>b, <2>1, <2>2, <2>3
<1>3. CASE NextRead
  <2>1. PICK r \in todo : read' = r /\ todo' = todo \ {r}
    BY <1>3 DEF NextRead
  <2>2. r \in Reads /\ 0 \in 0..Len(r)  BY <2>1 DEF TypeOK
  <2>3. TypeOK'  BY <1>3, <2>1, <2>2 DEF NextRead, TypeOK, NoSamples
  <2>4. Own' /\ Walk'
    BY <1>3, <2>1 DEF NextRead, TypeOK, Own, Walk, NoSamples, Received
  <2>5. Clocks'  BY <1>3 DEF NextRead, Clocks
  <2> QED  BY <1>b, <2>3, <2>4, <2>5
<1>4. CASE FetchChunk
  <2>1. /\ pc = "fetch" /\ sent < Len(read) /\ sent' = sent + 1 /\ read' = read /\ pc' = pc
        /\ \/ samples' = [s \in Stat |-> IF s \in read[sent + 1] THEN stored[s] ELSE samples[s]]
           \/ UNCHANGED samples
    BY <1>4 DEF FetchChunk
  <2>2. sent + 1 \in 0..Len(read) /\ read[sent + 1] \subseteq StatsOf(read)
    BY <2>1, ChunkFacts DEF TypeOK
  <2>3. TypeOK'  BY <1>4, <2>1, <2>2 DEF FetchChunk, TypeOK
  <2>4. Own' /\ Walk'
    <3>1. Received' \subseteq StatsOf(read)
      BY <2>1, <2>2 DEF Own, Received
    <3> QED  BY <1>4, <2>1, <3>1 DEF FetchChunk, Own, Walk
  <2>5. Clocks'  BY <1>4, <2>1 DEF FetchChunk, Clocks
  <2> QED  BY <1>b, <2>3, <2>4, <2>5
<1>5. CASE RaiseInChunk
  <2>1. TypeOK'  BY <1>5 DEF RaiseInChunk, EndOfRead, TypeOK, NoSamples, Stamp
  <2>2. Own' /\ Walk'  BY <1>5 DEF RaiseInChunk, EndOfRead, Own, Walk
  <2>3. Clocks'  BY <1>5 DEF RaiseInChunk, EndOfRead, Clocks, NoSamples
  <2> QED  BY <1>b, <2>1, <2>2, <2>3
<1>6. CASE FindNewest
  <2>1. /\ pc = "fetch" /\ pc' = "judge" /\ unjudged' = Received
        /\ samples' = samples /\ Received' = Received
        /\ newest_ms' \in Time /\ newest_ms' <= now + Skew
        /\ \A s \in Stat : samples[s] \in Time => samples[s] <= newest_ms'
    BY <1>6 DEF FindNewest, StartJudging, TypeOK, Clocks, Timed, Received
  <2>2. \A s \in Received : s \notin fresh \cup stale
    <3> SUFFICES ASSUME NEW s \in Received, NEW r \in DOMAIN judged, s \in StatsOf(r)  PROVE FALSE
      BY <2>1 DEF Own
    <3>1. s \in StatsOf(read) /\ r # read  BY <2>1 DEF Own
    <3> QED  BY <2>1, <3>1 DEF TypeOK
  <2>3. TypeOK'  BY <1>6, <2>1 DEF FindNewest, StartJudging, TypeOK, Received
  <2>4. Own'  BY <1>6, <2>1 DEF FindNewest, StartJudging, Own
  <2>5. Walk'  BY <1>6, <2>1, <2>2 DEF FindNewest, StartJudging, Walk
  <2>6. Clocks'  BY <1>6, <2>1 DEF FindNewest, StartJudging, Clocks
  <2> QED  BY <1>b, <2>3, <2>4, <2>5, <2>6
<1>7. CASE UNCHANGED vars
  BY <1>b, <1>7 DEF vars, collector, reading, TypeOK, Own, Walk, Received, Current, Decided, Usable, Clocks
<1> QED  BY <1>1, <1>2, <1>3, <1>4, <1>5, <1>6, <1>7

\* One sample judged: its verdict is what the record says of it, and no other
\* record has it.
LEMMA JudgeStep == ASSUME Inv, JudgeSample PROVE Inv'
<1> USE TimeAssumption, NoSampleAssumption, ReadsAssumption, TimeFacts, ClockFacts DEF Inv
<1>1. PICK s \in unjudged :
        /\ newest_ms' = Newer(s)
        /\ LET usable == Timed(s) /\ ~is_stale(samples[s], newest_ms')
           IN  Verdict(s, usable, ~usable)
  BY DEF JudgeSample
<1>2. /\ pc = "judge" /\ pc' = "judge" /\ read' = read /\ samples' = samples /\ now' = now
      /\ sent' = sent /\ todo' = todo /\ stored' = stored /\ judged' = judged /\ Received' = Received
      /\ unjudged' = unjudged \ {s} /\ clock' = [clock EXCEPT ![s] = now]
  BY <1>1 DEF JudgeSample, Verdict, Received
<1>3. s \in Stat /\ s \in Received /\ s \notin fresh \cup stale /\ s \in StatsOf(read)
  BY <1>2 DEF TypeOK, Walk, Own
<1>4. newest_ms' = newest_ms
  <2>1. samples[s] \in Time => samples[s] <= newest_ms /\ samples[s] \in Nat /\ newest_ms \in Nat
    BY <1>2, <1>3 DEF Walk, TypeOK
  <2> QED  BY <1>1, <2>1 DEF Newer, Timed
<1>5. /\ clock'[s] = now /\ now \in ClockTime
      /\ \A t \in Stat \ {s} : clock'[t] = clock[t]
  BY <1>2, <1>3 DEF TypeOK
<1>6. s \in fresh' <=> Usable(Current, s)'
  <2>1. s \in fresh' <=> Timed(s) /\ ~is_stale(samples[s], newest_ms)
    BY <1>1, <1>3, <1>4 DEF Verdict
  <2>2. CASE samples[s] \in Time
    <3>1. samples[s] \in Int /\ newest_ms \in Int /\ now \in Int
      <4>1. samples[s] \in Nat /\ newest_ms \in Nat  BY <2>2, TimeFacts DEF TypeOK
      <4>2. now \in Nat  BY <1>5, TimeFacts
      <4> QED  BY <4>1, <4>2
    <3>2. Timed(s) /\ ~is_stale(samples[s], newest_ms) <=>
              newest_ms - samples[s] <= StaleAfter /\ now - samples[s] <= StaleAfter + SkewTolerance
      BY <2>2, <3>1 DEF Timed, is_stale
    <3> QED  BY <1>2, <1>4, <1>5, <2>1, <2>2, <3>2 DEF Usable, Current
  <2>3. CASE samples[s] \notin Time
    BY <1>2, <2>1, <2>3 DEF Usable, Current, Timed
  <2> QED  BY <2>2, <2>3
<1>7. /\ s \in stale' <=> s \notin fresh'
      /\ \A t : t # s => (t \in fresh' <=> t \in fresh) /\ (t \in stale' <=> t \in stale)
      /\ fresh' \subseteq fresh \cup {s} /\ stale' \subseteq stale \cup {s}
  BY <1>1, <1>3 DEF Verdict
<1>8. Decided(Current, s)'
  <2>1. newest_ms <= now + Skew  BY DEF Clocks
  <2> QED  BY <1>4, <1>5, <1>6, <1>7, <2>1 DEF Decided, Current
<1>9. TypeOK'
  <2>1. fresh' \subseteq Stat /\ stale' \subseteq Stat  BY <1>3, <1>7 DEF TypeOK
  <2>2. clock' \in [Stat -> ClockTime \cup {NoSample}]  BY <1>2, <1>5 DEF TypeOK
  <2>3. unjudged' \subseteq Stat  BY <1>2 DEF TypeOK
  <2> QED  BY <1>2, <1>4, <2>1, <2>2, <2>3 DEF TypeOK
<1>10. Own'
  BY <1>2, <1>3, <1>7 DEF Own
<1>11. Walk'
  <2>1. \A t \in unjudged' : t \notin fresh' \cup stale'
    BY <1>2, <1>7 DEF Walk
  <2>2. ASSUME NEW t \in Received', t \notin unjudged'  PROVE Decided(Current, t)'
    <3>1. CASE t = s  BY <1>8, <3>1
    <3>2. CASE t # s
      <4>1. Decided(Current, t) /\ t \in Stat  BY <1>2, <2>2, <3>2 DEF Walk, Received
      <4>2. Usable(Current, t)' <=> Usable(Current, t)
        BY <1>2, <1>4, <1>5, <3>2, <4>1 DEF Usable, Current
      <4> QED  BY <1>4, <1>5, <1>7, <3>2, <4>1, <4>2 DEF Decided, Current
    <3> QED  BY <3>1, <3>2
  <2>3. unjudged' \subseteq Received'  BY <1>2 DEF Walk
  <2> QED  BY <1>2, <1>4, <2>1, <2>2, <2>3 DEF Walk
<1>12. Verdicts'
  <2> SUFFICES ASSUME NEW r \in DOMAIN judged, NEW t \in StatsOf(r)
               PROVE  /\ judged[r].samples[t] \in Time => judged[r].samples[t] <= judged[r].newest
                      /\ IF judged[r].samples[t] = NoSample THEN t \notin (fresh \cup stale)'
                         ELSE Decided(judged[r], t)'
    BY <1>2 DEF Verdicts, Decided, Usable
  <2>1. r \in Reads /\ read \in Reads /\ r # read  BY <1>2 DEF TypeOK, Own
  <2>2. t # s  BY <1>3, <2>1
  <2>3. Usable(judged[r], t)' <=> Usable(judged[r], t)  BY <1>2 DEF Usable
  <2> QED  BY <1>2, <1>7, <2>2, <2>3 DEF Verdicts, Decided
<1>13. Clocks'  BY <1>2, <1>4 DEF Clocks
<1> QED  BY <1>9, <1>10, <1>11, <1>12, <1>13

\* The read returns when every sample is judged: its record is complete.
LEMMA ReturnStep == ASSUME Inv, Return PROVE Inv'
<1> USE TimeAssumption, NoSampleAssumption, ReadsAssumption, TimeFacts, ClockFacts DEF Inv
<1>1. /\ pc = "judge" /\ unjudged = {} /\ pc' = "idle" /\ read' = NoRead /\ sent' = 0
      /\ unjudged' = {} /\ clock' = NoSamples /\ samples' = NoSamples
      /\ now' = now /\ stored' = stored /\ newest_ms' = newest_ms /\ todo' = todo
      /\ fresh' = fresh /\ stale' = stale
  BY DEF Return, EndOfRead
<1>2. /\ read \in Reads /\ read \notin todo /\ read \notin DOMAIN judged
      /\ \A s \in StatsOf(read) : s \in Stat
  BY <1>1, StatFacts DEF TypeOK, Own
<1>3. /\ DOMAIN judged' = DOMAIN judged \cup {read}
      /\ judged'[read] = Current
      /\ \A r \in DOMAIN judged : r # read /\ judged'[r] = judged[r]
  BY <1>2 DEF Return, Current
<1>4. Current \in Records  BY DEF TypeOK, Records, Current
<1>5. TypeOK'
  <2>1. DOMAIN judged' \subseteq Reads \ todo'  BY <1>1, <1>2, <1>3 DEF TypeOK
  <2>2. \A r \in DOMAIN judged' : judged'[r] \in Records
    BY <1>3, <1>4 DEF TypeOK, Records
  <2>3. NoSamples \in [Stat -> Stamp] /\ NoSamples \in [Stat -> ClockTime \cup {NoSample}]
    BY DEF NoSamples, Stamp
  <2> QED  BY <1>1, <2>1, <2>2, <2>3 DEF TypeOK, Records
<1>6. Own'
  <2>1. \A s \in fresh \cup stale : \E r \in DOMAIN judged' : s \in StatsOf(r)
    BY <1>1, <1>3 DEF Own
  <2> QED  BY <1>1, <1>2, <1>3, <2>1 DEF Own
<1>7. Walk' /\ Clocks'
  BY <1>1 DEF Walk, Clocks, NoSamples
<1>8. Verdicts'
  <2> SUFFICES ASSUME NEW r \in DOMAIN judged', NEW s \in StatsOf(r)
               PROVE  /\ judged'[r].samples[s] \in Time => judged'[r].samples[s] <= judged'[r].newest
                      /\ IF judged'[r].samples[s] = NoSample THEN s \notin fresh \cup stale
                         ELSE Decided(judged'[r], s)
    BY <1>1 DEF Verdicts, Decided, Usable
  <2>1. CASE r = read
    <3>1. s \in Stat /\ judged'[r] = Current  BY <1>2, <1>3, <2>1
    <3>2. CASE samples[s] = NoSample
      <4>1. \A q \in DOMAIN judged : s \notin StatsOf(q)
        BY <1>2, <2>1 DEF TypeOK
      <4>2. s \notin fresh \cup stale  BY <3>2, <4>1 DEF Own, Received
      <4> QED  BY <3>1, <3>2, <4>2 DEF Current
    <3>3. CASE samples[s] # NoSample
      <4>1. Decided(Current, s)  BY <1>1, <3>1, <3>3 DEF Walk, Received
      <4> QED  BY <1>1, <3>1, <3>3, <4>1 DEF Walk, Current
    <3> QED  BY <3>2, <3>3
  <2>2. CASE r # read
    BY <1>3, <2>2 DEF Verdicts
  <2> QED  BY <2>1, <2>2
<1> QED  BY <1>5, <1>6, <1>7, <1>8

\* Every step keeps the invariant.
LEMMA Invariance == Spec => []Inv
<1>1. Inv /\ [Next]_vars => Inv'  BY QuietStep, JudgeStep, ReturnStep DEF Next
<1> QED  BY InitInv, <1>1, PTL DEF Spec

(* Types: nothing is judged twice, nor recorded outside its range.          *)
THEOREM TypeCorrect == Spec => []TypeOK
<1>1. Inv => TypeOK  BY DEF Inv
<1> QED  BY Invariance, <1>1, PTL

\* What is known of a sample of a completed read that has a timestamp.
LEMMA TimedFacts ==
    ASSUME Inv, NEW r \in DOMAIN judged, NEW s \in TimedIn(r)
    PROVE  /\ judged[r].samples[s] \in Nat /\ judged[r].newest \in Nat
           /\ judged[r].clock[s] \in Nat /\ judged[r].newest <= judged[r].clock[s] + Skew
           /\ judged[r].samples[s] <= judged[r].newest
           /\ Decided(judged[r], s)
<1>1. s \in StatsOf(r) /\ judged[r].samples[s] \in Time  BY DEF TimedIn
<1>2. Decided(judged[r], s) /\ judged[r].samples[s] <= judged[r].newest
  BY <1>1, TimeFacts DEF Inv, Verdicts
<1> QED  BY <1>1, <1>2, RecordFacts, TimeFacts DEF Inv, Decided

(* No value that is too old is used, whatever the reads and the limits.     *)
THEOREM NeverLastKnownValueAlways == Spec => []NeverLastKnownValue
<1>1. Inv => NeverLastKnownValue
  <2> SUFFICES ASSUME Inv, NEW r \in DOMAIN judged, NEW s \in fresh \cap StatsOf(r)
               PROVE  /\ s \in TimedIn(r)
                      /\ Age(r, s) <= StaleAfter + SkewTolerance
                      /\ \A other \in TimedIn(r) :
                           judged[r].samples[other] - judged[r].samples[s] <= StaleAfter
    BY DEF NeverLastKnownValue
  <2>1. Usable(judged[r], s)  BY DEF Inv, Verdicts, Decided
  <2>2. s \in TimedIn(r)  BY <2>1 DEF Usable, TimedIn
  <2>3. StaleAfter \in Nat  BY TimeAssumption
  <2> QED  BY <2>1, <2>2, <2>3, TimedFacts DEF Usable, Age
<1> QED  BY Invariance, <1>1, PTL

(* For any reads, any order of the chunks and of the samples in them, and   *)
(* however far the clock goes while they are judged: a dropped sample is    *)
(* older than a used one of the read, or was judged later and too old.      *)
THEOREM OlderIsDroppedFirstAlways == Spec => []OlderIsDroppedFirst
<1>1. Inv => OlderIsDroppedFirst
  <2> SUFFICES ASSUME Inv, NEW r \in DOMAIN judged,
                      NEW s \in fresh \cap StatsOf(r), NEW t \in stale \cap TimedIn(r)
               PROVE  \/ judged[r].samples[t] < judged[r].samples[s]
                      \/ /\ judged[r].clock[s] < judged[r].clock[t]
                         /\ Age(r, t) > StaleAfter + SkewTolerance
    BY DEF OlderIsDroppedFirst
  <2>1. Usable(judged[r], s)  BY DEF Inv, Verdicts, Decided
  <2>2. s \in TimedIn(r)  BY <2>1 DEF Usable, TimedIn
  <2>3. ~Usable(judged[r], t) /\ judged[r].samples[t] \in Time
    BY TimedFacts DEF Decided, TimedIn
  <2>4. StaleAfter + SkewTolerance \in Nat /\ StaleAfter \in Nat  BY TimeAssumption
  <2> QED  BY <2>1, <2>2, <2>3, <2>4, TimedFacts DEF Usable, Age
<1> QED  BY Invariance, <1>1, PTL

(* The tolerance does what it is for: no current sample is lost to a        *)
(* collector whose clock is ahead by no more than that.                     *)
THEOREM CurrentSampleIsUsedAlways == Spec => []CurrentSampleIsUsed
<1>1. Inv => CurrentSampleIsUsed
  <2> SUFFICES ASSUME Inv, NEW r \in DOMAIN judged, NEW s \in TimedIn(r),
                      Age(r, s) + Skew <= StaleAfter
               PROVE  s \in fresh
    BY DEF CurrentSampleIsUsed
  <2>1. Usable(judged[r], s)
    BY TimedFacts, TimeAssumption, SkewAssumption DEF Usable, TimedIn, Age
  <2> QED  BY <2>1, TimedFacts DEF Decided
<1> QED  BY Invariance, <1>1, PTL

(* Every sample of a completed read is used or counted stale, never both.   *)
THEOREM EverySampleIsJudgedOnceAlways == Spec => []EverySampleIsJudgedOnce
<1>1. Inv => EverySampleIsJudgedOnce
  <2> SUFFICES ASSUME Inv  PROVE EverySampleIsJudgedOnce
    OBVIOUS
  <2>1. \A r \in DOMAIN judged : \A s \in StatsOf(r) :
          (s \in fresh \cup stale) <=> (judged[r].samples[s] # NoSample)
    BY DEF Inv, Verdicts, Decided
  <2>2. ASSUME NEW s \in fresh \cap stale  PROVE FALSE
    <3>1. CASE \E r \in DOMAIN judged : s \in StatsOf(r)
      BY <2>1, <3>1 DEF Inv, Verdicts, Decided
    <3>2. CASE pc = "judge" /\ s \in Received \ unjudged
      BY <3>2 DEF Inv, Walk, Decided
    <3> QED  BY <3>1, <3>2 DEF Inv, Own
  <2> QED  BY <2>1, <2>2 DEF EverySampleIsJudgedOnce
<1> QED  BY Invariance, <1>1, PTL
================================================================================
