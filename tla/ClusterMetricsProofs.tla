------------------------- MODULE ClusterMetricsProofs --------------------------
(***************************************************************************)
(* Proofs about ClusterMetrics for any hosts, VMs and samples, any stored  *)
(* values, any settings and any number of values missing.                  *)
(***************************************************************************)
EXTENDS ClusterMetrics, FiniteSums, TLAPS

\* Ratios that compare, and what a metric can be.
Proper == Nat \X (Nat \ {0})
Metric == Proper \cup {NoData, NaN}

\* What stands for a missing or an odd value is neither a number nor a ratio.
LEMMA NotNumbers ==
    /\ NoData \notin Nat /\ NaN \notin Nat /\ Text \notin Nat
    /\ NoData \notin Proper /\ NaN \notin Proper /\ Text \notin Proper
    /\ NoData # NaN /\ NoData # Text /\ NaN # Text
<1>1. \A x \in {NoData, NaN, Text} : x \notin Int /\ x \notin Int \X Int
  BY MetricsAssumption
<1>2. Proper \subseteq Int \X Int
  BY DEF Proper
<1> QED  BY <1>1, <1>2, MetricsAssumption

\* Proper ratios are ordered.
LEMMA AtMostOrder ==
    ASSUME NEW r \in Proper, NEW s \in Proper
    PROVE  AtMost(r, r) /\ (AtMost(r, s) \/ AtMost(s, r))
<1>1. r[1] * s[2] \in Int /\ s[1] * r[2] \in Int /\ r[1] * r[2] \in Int
  BY DEF Proper
<1> QED  BY <1>1 DEF AtMost

\* A factor that is not 0 can be left out.
LEMMA ProductCancels ==
    ASSUME NEW a \in Nat, NEW b \in Nat, NEW c \in Nat \ {0}, a * c <= b * c
    PROVE  a <= b
<1> SUFFICES ASSUME b + 1 <= a  PROVE FALSE
  OBVIOUS
<1>1. (b + 1) * c <= a * c
  BY ProductGrows
<1>2. (b + 1) * c = b * c + c
  OBVIOUS
<1>3. b * c \in Nat
  OBVIOUS
<1> QED  BY <1>1, <1>2, <1>3

\* The order of ratios is transitive: each is multiplied by the third's divisor.
LEMMA AtMostTransitive ==
    ASSUME NEW r \in Proper, NEW s \in Proper, NEW t \in Proper, AtMost(r, s), AtMost(s, t)
    PROVE  AtMost(r, t)
<1> DEFINE a == r[1]  b == r[2]  c == s[1]  d == s[2]  e == t[1]  f == t[2]
<1>1. /\ a \in Nat /\ c \in Nat /\ e \in Nat
      /\ b \in Nat \ {0} /\ d \in Nat \ {0} /\ f \in Nat \ {0}
      /\ a * d <= c * b /\ c * f <= e * d
  BY DEF Proper, AtMost
<1> HIDE DEF a, b, c, d, e, f
<1>2. (a * d) * f <= (c * b) * f /\ (c * f) * b <= (e * d) * b
  <2>1. a * d \in Nat /\ c * b \in Nat /\ c * f \in Nat /\ e * d \in Nat
    BY <1>1
  <2> QED  BY <1>1, <2>1, ProductGrows
<1>3. (a * f) * d = (a * d) * f /\ (c * b) * f = (c * f) * b /\ (e * d) * b = (e * b) * d
  BY <1>1
<1>4. a * f \in Nat /\ e * b \in Nat /\ (a * f) * d \in Nat /\ (e * b) * d \in Nat
      /\ (c * f) * b \in Nat
  BY <1>1
<1>5. (a * f) * d <= (e * b) * d
  BY <1>2, <1>3, <1>4
<1>6. a * f <= e * b
  BY <1>1, <1>4, <1>5, ProductCancels
<1> QED  BY <1>6 DEF AtMost, a, b, e, f

\* The worst of finitely many metrics is one of them, and none is worse.
LEMMA WorstFacts ==
    ASSUME NEW S \in SUBSET (Proper \cup {NoData}), IsFiniteSet(S)
    PROVE  /\ S \ {NoData} = {} => _worst(S) = NoData
           /\ S \ {NoData} # {} => /\ _worst(S) \in S \ {NoData}
                                   /\ \A r \in S \ {NoData} : AtMost(r, _worst(S))
<1> DEFINE K == S \ {NoData}
           Good == {s \in SUBSET K : s = {} \/ \E r \in s : \A t \in s : AtMost(t, r)}
<1>1. ASSUME NEW s \in SUBSET K, \A t \in SUBSET s : t # s => t \in Good
      PROVE  s \in Good
  <2> SUFFICES ASSUME s # {}  PROVE \E r \in s : \A t \in s : AtMost(t, r)
    OBVIOUS
  <2>1. PICK q \in s : TRUE
    OBVIOUS
  <2>2. \A t \in s : t \in Proper
    BY NotNumbers
  <2>3. CASE s = {q}
    BY <2>2, <2>3, AtMostOrder
  <2>4. CASE s # {q}
    <3>0. s \ {q} # {} /\ s \ {q} \in SUBSET s /\ s \ {q} # s
      BY <2>1, <2>4
    <3>1. s \ {q} \in Good
      BY <1>1, <3>0
    <3>2. PICK r \in s \ {q} : \A t \in s \ {q} : AtMost(t, r)
      BY <3>0, <3>1
    <3>3. CASE AtMost(q, r)
      BY <3>2, <3>3
    <3>4. CASE ~AtMost(q, r)
      <4>1. AtMost(r, q) /\ AtMost(q, q)
        BY <2>2, <3>2, <3>4, AtMostOrder
      <4>2. \A t \in s \ {q} : AtMost(t, q)
        BY <2>2, <3>2, <4>1, AtMostTransitive
      <4> QED  BY <2>1, <4>1, <4>2
    <3> QED  BY <3>3, <3>4
  <2> QED  BY <2>3, <2>4
<1>2. IsFiniteSet(K)
  BY FS_Difference
<1> HIDE DEF Good, K
<1>3. K \in Good
  BY <1>1, <1>2, SubsetInduction
<1>4. K # {} => \E r \in K : \A t \in K : AtMost(t, r)
  BY <1>3 DEF Good
<1> QED  BY <1>4 DEF _worst, K

\* No higher than before: missing, the same, or no worse.
NoHigher(before, after) ==
    \/ after = NoData
    \/ after = before
    \/ after \in Proper /\ before \in Proper /\ AtMost(after, before)

\* What is no higher is not raised, where both are known.
LEMMA NoHigherIsNotRaised ==
    ASSUME NEW before \in Metric, NEW after \in Metric, NoHigher(before, after),
           {before, after} \cap {NoData, NaN} = {}
    PROVE  AtMost(after, before)
BY AtMostOrder DEF NoHigher, Metric

--------------------------------------------------------------------------------
\* The highest of the hosts.
LEMMA HostFacts ==
    /\ IsFiniteSet(DOMAIN Hosts) /\ DOMAIN Hosts \subseteq Int
    /\ Host = {Hosts[i] : i \in DOMAIN Hosts} /\ IsFiniteSet(Host)
<1>1. DOMAIN Hosts = 1..Len(Hosts) /\ Len(Hosts) \in Nat
  BY MetricsAssumption
<1>2. IsFiniteSet(DOMAIN Hosts) /\ DOMAIN Hosts \subseteq Int
  BY <1>1, FS_Interval
<1>3. Host = {Hosts[i] : i \in DOMAIN Hosts}
  BY DEF Host, ToSet
<1> QED  BY <1>2, <1>3, ImageIsFinite

\* It is NaN, or none, or one of the known ratios that no other exceeds.
LEMMA HighestFacts ==
    ASSUME NEW ratio, \A h \in Host : ratio[h] \in Metric
    PROVE  LET known == {ratio[h] : h \in Host} \ {NoData, NaN}
           IN  /\ Highest(ratio) \in Metric
               /\ \/ Highest(ratio) = NaN /\ \E h \in Host : ratio[h] = NaN
                  \/ Highest(ratio) = NoData /\ known = {}
                  \/ /\ Highest(ratio) \in known
                     /\ \A r \in known : AtMost(r, Highest(ratio))
<1> DEFINE known == {ratio[h] : h \in Host} \ {NoData, NaN}
           places == {i \in DOMAIN Hosts : ratio[Hosts[i]] # NoData}
           S == {ratio[Hosts[i]] : i \in places} \ {NaN}
<1>1. S = known
  BY HostFacts
<1>2. IsFiniteSet(S)
  <2> DEFINE f == [i \in places |-> ratio[Hosts[i]]]
  <2>1. IsFiniteSet(places)
    BY HostFacts, FS_Subset
  <2>2. IsFiniteSet({f[i] : i \in places})
    <3> HIDE DEF places, f
    <3> QED  BY <2>1, ImageIsFinite
  <2>3. {f[i] : i \in places} = {ratio[Hosts[i]] : i \in places}
    OBVIOUS
  <2> QED  BY <2>2, <2>3, FS_Difference
<1>3. S \subseteq Proper /\ S \ {NoData} = S
  BY <1>1 DEF Metric
<1>4. /\ S = {} => _worst(S) = NoData
      /\ S # {} => _worst(S) \in S /\ \A r \in S : AtMost(r, _worst(S))
  <2> HIDE DEF S
  <2> QED  BY <1>2, <1>3, WorstFacts
<1>5. CASE places # {} /\ ratio[Hosts[Min(places)]] = NaN
  <2>1. Highest(ratio) = NaN
    BY <1>5 DEF Highest
  <2>2. IsFiniteSet(places) /\ places \in SUBSET Int
    BY HostFacts, FS_Subset
  <2>3. Min(places) \in places
    <3> HIDE DEF places
    <3> QED  BY <1>5, <2>2, MinFacts
  <2>4. Hosts[Min(places)] \in Host
    BY <2>3, HostFacts
  <2> QED  BY <1>5, <2>1, <2>4 DEF Metric
<1>6. CASE ~(places # {} /\ ratio[Hosts[Min(places)]] = NaN)
  <2>1. Highest(ratio) = _worst(S)
    BY <1>6 DEF Highest
  <2> HIDE DEF S, known, places
  <2> QED  BY <1>1, <1>3, <1>4, <2>1 DEF Metric, known
<1> QED  BY <1>5, <1>6

\* Hosts that are no higher make a cluster that is no higher, or NaN.
LEMMA HighestNeverRaised ==
    ASSUME NEW before, NEW after,
           \A h \in Host : /\ before[h] \in Metric /\ after[h] \in Metric
                           /\ NoHigher(before[h], after[h]),
           {Highest(before), Highest(after)} \cap {NoData, NaN} = {}
    PROVE  AtMost(Highest(after), Highest(before))
<1>1. PICK h \in Host : Highest(after) = after[h] /\ after[h] \notin {NoData, NaN}
  BY HighestFacts
<1>2. \A r \in {before[g] : g \in Host} \ {NoData, NaN} : AtMost(r, Highest(before))
  BY HighestFacts
<1>3. /\ after[h] \in Proper /\ before[h] \in Proper /\ AtMost(after[h], before[h])
  BY <1>1, AtMostOrder DEF NoHigher, Metric
<1>4. AtMost(before[h], Highest(before))
  BY <1>2, <1>3, NotNumbers
<1>5. Highest(before) \in Proper
  BY HighestFacts DEF Metric
<1> QED  BY <1>1, <1>3, <1>4, <1>5, AtMostTransitive

\* Of metrics that are never NaN it is the worst.
LEMMA HighestIsWorst ==
    ASSUME NEW ratio, \A h \in Host : ratio[h] \in Proper \cup {NoData}
    PROVE  Same(Highest(ratio), _worst({ratio[h] : h \in Host}))
<1> DEFINE S == {ratio[h] : h \in Host}
           known == S \ {NoData, NaN}
<1>1. \A h \in Host : ratio[h] \in Metric /\ ratio[h] # NaN
  BY NotNumbers DEF Metric
<1>2. \/ Highest(ratio) = NoData /\ known = {}
      \/ Highest(ratio) \in known /\ \A r \in known : AtMost(r, Highest(ratio))
  BY <1>1, HighestFacts
<1>3. known = S \ {NoData}
  BY <1>1
<1>4. IsFiniteSet(S) /\ S \in SUBSET (Proper \cup {NoData})
  BY HostFacts, ImageIsFinite
<1> HIDE DEF S
<1>5. /\ S \ {NoData} = {} => _worst(S) = NoData
      /\ S \ {NoData} # {} => _worst(S) \in S \ {NoData}
                              /\ \A r \in S \ {NoData} : AtMost(r, _worst(S))
  BY <1>4, WorstFacts
<1> HIDE DEF known
<1>6. Same(Highest(ratio), _worst(S))
  BY <1>2, <1>3, <1>5 DEF Same
<1> QED  BY <1>6 DEF S

--------------------------------------------------------------------------------
\* The samples of a bag up to a value, and the value at which nine tenths are.
V == SampleValue
UpTo(v) == {u \in V : u <= v}
Below(bag, v) == Total(bag, UpTo(v))
All(bag) == Total(bag, V)

\* The values are finitely many numbers, and those up to one a part of them.
LEMMA ValuesFacts ==
    /\ V \in SUBSET Nat /\ V \in SUBSET Int /\ IsFiniteSet(V) /\ IsFiniteSet(Host)
    /\ \A v : UpTo(v) \in SUBSET V /\ IsFiniteSet(UpTo(v))
<1>1. V \in SUBSET Nat /\ IsFiniteSet(V)
  BY MetricsAssumption DEF V
<1>2. \A v : UpTo(v) \in SUBSET V
  BY DEF UpTo
<1> QED  BY <1>1, <1>2, HostFacts, FS_Subset

\* How many samples are up to a value grows with it, to all of them.
LEMMA BelowFacts ==
    ASSUME NEW bag \in [V -> Nat], NEW v \in V
    PROVE  /\ Below(bag, v) \in Nat /\ All(bag) \in Nat /\ Below(bag, v) <= All(bag)
           /\ \A u \in V : u <= v => Below(bag, u) <= Below(bag, v)
           /\ (\A u \in V : u <= v) => Below(bag, v) = All(bag)
<1>1. \A x \in V : bag[x] \in Nat
  OBVIOUS
<1>2. \A u : UpTo(u) \in SUBSET V /\ IsFiniteSet(UpTo(u)) /\ IsFiniteSet(V)
  BY ValuesFacts
<1>3. Below(bag, v) \in Nat /\ All(bag) \in Nat /\ Below(bag, v) <= All(bag)
  BY <1>1, <1>2, TotalFacts, TotalOfSubset DEF Below, All
<1>4. ASSUME NEW u \in V, u <= v  PROVE Below(bag, u) <= Below(bag, v)
  <2>1. UpTo(u) \in SUBSET UpTo(v)
    <3>1. u \in Int /\ v \in Int /\ \A x \in V : x \in Int
      BY ValuesFacts
    <3>2. \A x \in V : x <= u => x <= v
      BY <1>4, <3>1
    <3> QED  BY <3>2 DEF UpTo
  <2>2. \A x \in UpTo(v) : bag[x] \in Nat
    BY <1>1, <1>2
  <2> QED  BY <1>2, <2>1, <2>2, TotalOfSubset DEF Below
<1>5. ASSUME \A u \in V : u <= v  PROVE Below(bag, v) = All(bag)
  <2>1. UpTo(v) = V
    BY <1>5 DEF UpTo
  <2> QED  BY <2>1 DEF Below, All
<1> QED  BY <1>3, <1>4, <1>5

\* Rounded up, the rank is that of nine tenths.
LEMMA RankFacts ==
    ASSUME NEW n \in Nat, NEW c \in Nat
    PROVE  /\ (9 * n + 9) \div 10 \in Nat
           /\ c >= (9 * n + 9) \div 10 <=> 10 * c >= 9 * n
           /\ n > 0 => (9 * n + 9) \div 10 \in 1..n
OBVIOUS

\* All of them is the size of the bag.
LEMMA SizeIsAll ==
    ASSUME NEW bag \in [V -> Nat]
    PROVE  Size(bag) = All(bag) /\ All(bag) \in Nat
<1>1. Size(bag) = All(bag)
  BY DEF Size, All, Total, MapThenSumSet, MapThenFoldSet
<1>2. \A x \in V : bag[x] \in Nat
  OBVIOUS
<1> QED  BY <1>1, <1>2, ValuesFacts, TotalFacts DEF All

\* The percentile occurs, and exactly from it on nine tenths are reached.
LEMMA PercentileFacts ==
    ASSUME NEW bag \in [V -> Nat], All(bag) > 0
    PROVE  LET p == _percentile(bag)
           IN  /\ p \in V /\ bag[p] > 0
               /\ \A v \in V : 10 * Below(bag, v) >= 9 * All(bag) <=> p <= v
<1> DEFINE p == _percentile(bag)
           n == All(bag)
           rank == (9 * n + 9) \div 10
           S == {v \in V : Below(bag, v) >= rank}
<1>1. \A x \in V : bag[x] \in Nat
  OBVIOUS
<1>2. \A v \in V : Below(bag, v) \in Nat /\ n \in Nat
  BY BelowFacts
<1>3. V # {} /\ n \in Nat
  <2>1. IsFiniteSet(V)
    BY ValuesFacts
  <2>2. V = {} => n = 0
    BY <2>1, <1>1, TotalFacts DEF All
  <2> QED  BY <1>1, <2>1, <2>2, TotalFacts DEF All
<1>4. rank \in 1..n
  <2> HIDE DEF n
  <2> QED  BY <1>3, RankFacts DEF n
<1>5. p = Min(S)
  <2>1. Size(bag) = n
    BY DEF Size, All, Total, MapThenSumSet, MapThenFoldSet
  <2>2. p = AtRank(bag, rank)
    BY <2>1 DEF _percentile
  <2>3. \A v \in V : MapThenSumSet(LAMBDA u : bag[u], {u \in DOMAIN bag : u <= v}) = Below(bag, v)
    BY DEF Below, UpTo, Total, MapThenSumSet, MapThenFoldSet
  <2> HIDE DEF n, rank
  <2>4. AtRank(bag, rank) = Min(S)
    BY <2>3 DEF AtRank
  <2> QED  BY <2>2, <2>4
<1> HIDE DEF p, n, rank
<1>6. S # {} /\ S \in SUBSET Int /\ IsFiniteSet(S)
  <2>1. V \in SUBSET Int /\ IsFiniteSet(V)
    BY ValuesFacts
  <2>2. Max(V) \in V /\ \A u \in V : u <= Max(V)
    BY <1>3, <2>1, MaxFacts
  <2>3. Below(bag, Max(V)) = n
    BY <2>2, BelowFacts DEF n
  <2>4. Max(V) \in S
    BY <1>3, <1>4, <2>2, <2>3
  <2>5. S \in SUBSET V
    OBVIOUS
  <2> QED  BY <2>1, <2>4, <2>5, FS_Subset
<1>7. p \in S /\ \A x \in S : p <= x
  <2> HIDE DEF S
  <2> QED  BY <1>5, <1>6, MinFacts
<1>8. bag[p] > 0
  <2> SUFFICES ASSUME bag[p] = 0  PROVE FALSE
    BY <1>1, <1>7
  <2> DEFINE T == UpTo(p) \ {p}
  <2>1. p \in UpTo(p) /\ IsFiniteSet(UpTo(p)) /\ UpTo(p) \in SUBSET V
    BY <1>7, ValuesFacts DEF UpTo
  <2>2. Below(bag, p) = bag[p] + Total(bag, T) /\ Total(bag, T) \in Nat
    BY <1>1, <2>1, TotalFacts DEF Below
  <2>3. Below(bag, p) = Total(bag, T) /\ Total(bag, T) >= rank
    BY <1>7, <2>2
  <2>4. IsFiniteSet(T) /\ T \in SUBSET V /\ T \in SUBSET Int
    BY <2>1, ValuesFacts, FS_Subset
  <2>5. T # {}
    <3>1. T = {} => Total(bag, T) = 0
      BY <1>1, <2>4, TotalFacts
    <3> QED  BY <1>4, <2>3, <3>1
  <2> DEFINE q == Max(T)
  <2>6. q \in T /\ \A u \in T : u <= q
    <3> HIDE DEF T
    <3> QED  BY <2>4, <2>5, MaxFacts
  <2>7. q \in V /\ q < p
    BY <2>4, <2>6, <1>7, ValuesFacts DEF UpTo
  <2>8. UpTo(q) = T
    <3> HIDE DEF q
    <3>1. \A u \in V : u \in T <=> u <= q
      <4> TAKE u \in V
      <4>1. u \in Int /\ q \in Int /\ p \in Int
        BY <1>7, <2>7, ValuesFacts
      <4>2. u <= q => u \in T
        BY <2>7, <4>1 DEF UpTo
      <4> QED  BY <2>6, <4>2
    <3> QED  BY <2>4, <3>1 DEF UpTo
  <2> HIDE DEF q, T
  <2>9. q \in S
    BY <2>3, <2>7, <2>8 DEF Below
  <2> QED  BY <1>7, <2>7, <2>9, ValuesFacts
<1>9. ASSUME NEW v \in V  PROVE 10 * Below(bag, v) >= 9 * n <=> p <= v
  <2>1. Below(bag, v) >= rank <=> 10 * Below(bag, v) >= 9 * n
    <3> DEFINE c == Below(bag, v)
    <3>1. c \in Nat
      BY <1>2
    <3> HIDE DEF c
    <3>2. c >= rank <=> 10 * c >= 9 * n
      BY <1>3, <3>1, RankFacts DEF rank
    <3> QED  BY <3>2 DEF c
  <2>2. Below(bag, v) >= rank => p <= v
    BY <1>7
  <2>3. p <= v => Below(bag, v) >= rank
    <3> SUFFICES ASSUME p <= v  PROVE Below(bag, v) >= rank
      OBVIOUS
    <3>1. p \in V /\ Below(bag, p) >= rank
      BY <1>7
    <3>2. Below(bag, p) <= Below(bag, v)
      BY <3>1, BelowFacts
    <3> QED  BY <1>2, <1>4, <3>1, <3>2
  <2> QED  BY <2>1, <2>2, <2>3
<1>10. p \in V
  BY <1>7
<1> QED  BY <1>8, <1>9, <1>10 DEF p, n

\* The samples of the cluster, up to a value, are those of its hosts.
PoolOf(of) == [v \in V |-> MapThenSumSet(LAMBDA h : of[h][v], Host)]

LEMMA PoolFacts ==
    ASSUME NEW of \in [Host -> [V -> Nat]]
    PROVE  LET pool == PoolOf(of)
           IN  /\ pool \in [V -> Nat] /\ \A v \in V, h \in Host : of[h][v] <= pool[v]
               /\ \A T \in SUBSET V :
                      Total(pool, T) = Total([h \in Host |-> Total(of[h], T)], Host)
<1> DEFINE pool == PoolOf(of)
           col(v) == [h \in Host |-> of[h][v]]
<1>1. IsFiniteSet(Host) /\ IsFiniteSet(V) /\ \A h \in Host : \A v \in V : of[h][v] \in Nat
  BY ValuesFacts DEF V
<1>2. ASSUME NEW v \in V
      PROVE  /\ pool[v] = Total(col(v), Host) /\ pool[v] \in Nat
             /\ \A h \in Host : of[h][v] <= pool[v]
  <2>1. pool[v] = TotalBy(of, v, Host)
    BY DEF PoolOf, TotalBy, MapThenSumSet, MapThenFoldSet
  <2>2. pool[v] = Total(col(v), Host)
    BY <1>1, <2>1, TotalByIsTotal
  <2>3. \A h \in Host : col(v)[h] \in Nat /\ col(v)[h] = of[h][v]
    BY <1>1
  <2> HIDE DEF col, pool
  <2>4. /\ Total(col(v), Host) \in Nat
        /\ \A h \in Host : /\ Total(col(v), Host) = col(v)[h] + Total(col(v), Host \ {h})
                           /\ Total(col(v), Host \ {h}) \in Nat
    BY <1>1, <2>3, TotalFacts
  <2>5. \A h \in Host : of[h][v] <= pool[v]
    <3> TAKE h \in Host
    <3> DEFINE n == of[h][v]
               rest == Total(col(v), Host \ {h})
    <3>1. n \in Nat /\ rest \in Nat /\ pool[v] = n + rest
      BY <1>1, <2>2, <2>3, <2>4
    <3> HIDE DEF n, rest
    <3>2. n <= pool[v]
      BY <3>1
    <3> QED  BY <3>2 DEF n
  <2> QED  BY <2>2, <2>4, <2>5
<1>3. pool \in [V -> Nat]
  <2>1. pool = [v \in V |-> pool[v]]
    BY DEF PoolOf
  <2> HIDE DEF pool
  <2> QED  BY <1>2, <2>1
<1>4. ASSUME NEW T \in SUBSET V
      PROVE  Total(pool, T) = Total([h \in Host |-> Total(of[h], T)], Host)
  <2> DEFINE sums == [y \in T |-> Total([h \in Host |-> of[h][y]], Host)]
  <2>1. IsFiniteSet(T) /\ \A h \in Host : \A v \in T : of[h][v] \in Nat
    BY <1>1, FS_Subset
  <2>2. Total(sums, T) = Total([h \in Host |-> Total(of[h], T)], Host)
    BY <1>1, <2>1, TotalSwap
  <2>3. \A v \in T : pool[v] = sums[v] /\ pool[v] \in Nat
    BY <1>2
  <2> HIDE DEF sums, pool, col
  <2>4. Total(pool, T) = Total(sums, T)
    <3>1. \A v \in T : pool[v] \in Nat /\ sums[v] \in Nat /\ pool[v] <= sums[v] /\ pool[v] = sums[v]
      BY <2>3
    <3> QED  BY <2>1, <3>1, TotalOfLess
  <2> QED  BY <2>2, <2>4
<1> QED  BY <1>2, <1>3, <1>4

\* Fewer samples of each host make fewer of the cluster.
LEMMA PoolOfFewer ==
    ASSUME NEW of \in [Host -> [V -> Nat]], NEW left \in [Host -> [V -> Nat]],
           \A h \in Host, v \in V : left[h][v] <= of[h][v]
    PROVE  \A v \in V : PoolOf(left)[v] <= PoolOf(of)[v]
<1> TAKE v \in V
<1> DEFINE f == [h \in Host |-> of[h][v]]
           g == [h \in Host |-> left[h][v]]
<1>1. IsFiniteSet(Host) /\ \A h \in Host : of[h][v] \in Nat /\ left[h][v] \in Nat
  BY ValuesFacts
<1>2. PoolOf(of)[v] = TotalBy(of, v, Host) /\ PoolOf(left)[v] = TotalBy(left, v, Host)
  BY DEF PoolOf, TotalBy, MapThenSumSet, MapThenFoldSet
<1>3. PoolOf(of)[v] = Total(f, Host) /\ PoolOf(left)[v] = Total(g, Host)
  BY <1>1, <1>2, TotalByIsTotal
<1>4. \A h \in Host : f[h] \in Nat /\ g[h] \in Nat /\ g[h] <= f[h]
  BY <1>1
<1> HIDE DEF f, g
<1> QED  BY <1>1, <1>3, <1>4, TotalOfLess

\* Without some of its samples a bag's worst is no higher.
LEMMA WorstNeverRaised ==
    ASSUME NEW bag \in [V -> Nat], NEW left \in [V -> Nat], \A v \in V : left[v] <= bag[v]
    PROVE  WorstOf(bag) \in Proper \cup {NoData} /\ NoHigher(WorstOf(bag), WorstOf(left))
<1> DEFINE W(b) == {v \in V : b[v] > 0}
<1>1. ASSUME NEW b \in [V -> Nat], Size(b) # 0
      PROVE  /\ WorstOf(b) = Ratio(Max(W(b)), 1) /\ Max(W(b)) \in W(b) /\ Max(W(b)) \in Nat
             /\ \A v \in W(b) : v <= Max(W(b))
  <2>1. WorstOf(b) = Ratio(Max(W(b)), 1)
    BY <1>1 DEF WorstOf, WorstSample
  <2>2. All(b) > 0
    BY <1>1, SizeIsAll
  <2>3. _percentile(b) \in W(b)
    BY <2>2, PercentileFacts
  <2>4. IsFiniteSet(W(b)) /\ W(b) \in SUBSET Int /\ W(b) \in SUBSET Nat
    BY ValuesFacts, FS_Subset
  <2> HIDE DEF W
  <2> QED  BY <2>1, <2>3, <2>4, MaxFacts
<1>2. ASSUME NEW n \in Nat  PROVE Ratio(n, 1) \in Proper
  BY DEF Ratio, Proper
<1>3. CASE Size(left) = 0
  <2>1. WorstOf(left) = NoData
    BY <1>3 DEF WorstOf
  <2>2. Size(bag) = 0 => WorstOf(bag) = NoData
    BY DEF WorstOf
  <2> HIDE DEF W
  <2> QED  BY <1>1, <1>2, <2>1, <2>2 DEF NoHigher
<1>4. CASE Size(left) # 0
  <2>1. W(left) \in SUBSET W(bag)
    <3> SUFFICES ASSUME NEW v \in V, left[v] > 0  PROVE bag[v] > 0
      OBVIOUS
    <3>1. left[v] \in Nat /\ bag[v] \in Nat /\ left[v] <= bag[v]
      OBVIOUS
    <3> QED  BY <3>1
  <2>2. Size(bag) # 0
    <3>1. Max(W(left)) \in V /\ bag[Max(W(left))] > 0
      BY <1>1, <1>4, <2>1
    <3>2. UpTo(Max(W(left))) \in SUBSET V /\ IsFiniteSet(V) /\ \A x \in V : bag[x] \in Nat
      BY ValuesFacts
    <3> DEFINE m == Max(W(left))
    <3> HIDE DEF m
    <3>3. All(bag) = bag[m] + Total(bag, V \ {m}) /\ Total(bag, V \ {m}) \in Nat
      BY <3>1, <3>2, TotalFacts DEF All, m
    <3>4. bag[m] \in Nat /\ bag[m] > 0
      BY <3>1, <3>2 DEF m
    <3> QED  BY <3>3, <3>4, SizeIsAll
  <2> HIDE DEF W
  <2>3. Max(W(left)) <= Max(W(bag))
    BY <1>1, <1>4, <2>1, <2>2
  <2>4. /\ WorstOf(left) = Ratio(Max(W(left)), 1) /\ Max(W(left)) \in Nat
        /\ WorstOf(bag) = Ratio(Max(W(bag)), 1) /\ Max(W(bag)) \in Nat
    BY <1>1, <1>4, <2>2
  <2> QED  BY <1>2, <2>3, <2>4 DEF NoHigher, AtMost, Ratio
<1> QED  BY <1>3, <1>4

\* It may be without a sample at or below it that a percentile is higher.
P90NotRaised(before, after, bag, left) ==
    \/ {before, after} \cap {NoData, NaN} # {}
    \/ AtMost(after, before)
    \/ \E v \in DOMAIN bag : left[v] < bag[v] /\ AtMost(Ratio(v, 1), before)

\* If all that are missing were above it, nine tenths are still reached there.
LEMMA P90RaisedByLower ==
    ASSUME NEW bag \in [V -> Nat], NEW left \in [V -> Nat], \A v \in V : left[v] <= bag[v]
    PROVE  P90NotRaised(P90Of(bag), P90Of(left), bag, left)
<1> DEFINE p == _percentile(bag)
           q == _percentile(left)
<1>1. CASE Size(bag) = 0 \/ Size(left) = 0
  BY <1>1 DEF P90NotRaised, P90Of
<1>2. CASE Size(bag) # 0 /\ Size(left) # 0
  <2>1. P90Of(bag) = Ratio(p, 1) /\ P90Of(left) = Ratio(q, 1)
    BY <1>2 DEF P90Of
  <2>2. All(bag) > 0 /\ All(left) > 0
    BY <1>2, SizeIsAll
  <2>3. /\ p \in V /\ q \in V
        /\ \A v \in V : 10 * Below(bag, v) >= 9 * All(bag) <=> p <= v
        /\ \A v \in V : 10 * Below(left, v) >= 9 * All(left) <=> q <= v
    BY <2>2, PercentileFacts
  <2> HIDE DEF p, q
  <2>4. p \in Nat /\ q \in Nat
    BY <2>3, ValuesFacts
  <2>5. CASE \E v \in V : left[v] < bag[v] /\ v <= p
    <3>1. PICK v \in V : left[v] < bag[v] /\ v <= p
      BY <2>5
    <3>2. v \in Nat
      BY ValuesFacts
    <3>3. AtMost(Ratio(v, 1), Ratio(p, 1))
      BY <2>4, <3>1, <3>2 DEF AtMost, Ratio
    <3> QED  BY <2>1, <3>1, <3>3 DEF P90NotRaised
  <2>6. CASE \A v \in V : v <= p => ~(left[v] < bag[v])
    <3>1. \A v \in V : left[v] \in Nat /\ bag[v] \in Nat
      OBVIOUS
    <3>2. \A v \in UpTo(p) : /\ left[v] \in Nat /\ bag[v] \in Nat
                              /\ bag[v] <= left[v] /\ left[v] <= bag[v]
      BY <2>6, <3>1 DEF UpTo
    <3>3. Below(bag, p) <= Below(left, p)
      BY <3>2, ValuesFacts, TotalOfLess DEF Below
    <3>4. All(left) <= All(bag)
      BY <3>1, ValuesFacts, TotalOfLess DEF All
    <3>5. 10 * Below(bag, p) >= 9 * All(bag)
      BY <2>3, <2>4
    <3>6. Below(bag, p) \in Nat /\ Below(left, p) \in Nat /\ All(bag) \in Nat /\ All(left) \in Nat
      BY <2>3, BelowFacts
    <3>7. 10 * Below(left, p) >= 9 * All(left)
      BY <3>3, <3>4, <3>5, <3>6
    <3>8. q <= p
      BY <2>3, <3>7
    <3>9. AtMost(Ratio(q, 1), Ratio(p, 1))
      BY <2>4, <3>8 DEF AtMost, Ratio
    <3> QED  BY <2>1, <3>9 DEF P90NotRaised
  <2> QED  BY <2>5, <2>6
<1> QED  BY <1>1, <1>2

--------------------------------------------------------------------------------
\* What one value missing does to a quotient and to a monster size.
Less(before, after) == after = NoData \/ (before # NoData /\ after <= before)
More(before, after) == Truthy(after) => Truthy(before) /\ before <= after

\* A quotient falls with its dividend, and with a divisor that grows or is lost.
LEMMA PerNeverRaised ==
    ASSUME NEW v \in Number, NEW v2 \in Number, NEW w \in Number, NEW w2 \in Number,
           Less(v, v2), More(w, w2)
    PROVE  /\ Per(v, w) \in Proper \cup {NoData} /\ NoHigher(Per(v, w), Per(v2, w2))
           /\ Pct(v, w) \in Proper \cup {NoData} /\ NoHigher(Pct(v, w), Pct(v2, w2))
<1>1. ASSUME NEW x \in Number, NEW x2 \in Number, Less(x, x2)
      PROVE  Per(x, w) \in Proper \cup {NoData} /\ NoHigher(Per(x, w), Per(x2, w2))
  <2>1. Per(x, w) \in Proper \cup {NoData}
    BY DEF Per, Ratio, Proper, Number, Truthy
  <2>2. CASE x2 = NoData \/ ~Truthy(w2)
    <3>1. Per(x2, w2) = NoData
      BY <2>2 DEF Per
    <3> QED  BY <2>1, <3>1 DEF NoHigher
  <2>3. CASE x2 # NoData /\ Truthy(w2)
    <3>1. /\ x \in Nat /\ x2 \in Nat /\ x2 <= x /\ x # NoData
          /\ w \in Nat \ {0} /\ w2 \in Nat \ {0} /\ w <= w2
      BY <1>1, <2>3, NotNumbers DEF Less, More, Truthy, Number
    <3>2. x2 * w <= x * w2
      BY <3>1, ProductGrows
    <3>3. Per(x, w) = <<x, w>> /\ Per(x2, w2) = <<x2, w2>>
      BY <2>3, <3>1, NotNumbers DEF Per, Ratio, Truthy
    <3> QED  BY <3>1, <3>2, <3>3 DEF NoHigher, AtMost, Proper
  <2> QED  BY <2>1, <2>2, <2>3
<1> DEFINE Hundred(x) == IF x = NoData THEN NoData ELSE 100 * x
<1>2. /\ Hundred(v) \in Number /\ Hundred(v2) \in Number
      /\ Less(Hundred(v), Hundred(v2))
  BY NotNumbers DEF Number, Less
<1>3. Pct(v, w) = Per(Hundred(v), w) /\ Pct(v2, w2) = Per(Hundred(v2), w2)
  BY DEF Pct
<1> HIDE DEF Hundred
<1> QED  BY <1>1, <1>2, <1>3

\* A value shown as it is can only be lost.
LEMMA AsIsNeverRaised ==
    ASSUME NEW v \in Number, NEW v2 \in {v, NoData}
    PROVE  AsIs(v) \in Proper \cup {NoData} /\ NoHigher(AsIs(v), AsIs(v2))
BY DEF AsIs, Ratio, Proper, NoHigher, Number

\* The ratio of the biggest VM, by what is known of the size and the VMs.
LEMMA MonsterRatioValue ==
    ASSUME NEW sizes, NEW size, NEW count
    PROVE  LET ratio == MonsterRatio(sizes, size, count)
           IN  /\ size = NaN /\ sizes # {} => ratio = NaN
               /\ size = 0 => ratio = NoData
               /\ size # 0 /\ sizes = {} => ratio = IF count = 0 THEN Zero ELSE NoData
               /\ size \notin {0, NaN} /\ sizes # {} => ratio = <<100 * Max(sizes), size>>
<1>1. 0 # NaN /\ 1 # 0
  BY NotNumbers
<1>2. CASE size = NaN
  <2>1. sizes # {} => MonsterRatio(sizes, size, count) = NaN
    BY <1>2 DEF MonsterRatio
  <2>2. sizes = {} => MonsterRatio(sizes, size, count) = monster_size_ratio(sizes, 1, count)
    BY <1>2 DEF MonsterRatio
  <2>3. sizes = {} => monster_size_ratio(sizes, 1, count) = IF count = 0 THEN Zero ELSE NoData
    BY <1>1 DEF monster_size_ratio
  <2> QED  BY <1>1, <1>2, <2>1, <2>2, <2>3
<1>3. CASE size # NaN
  <2>1. MonsterRatio(sizes, size, count) = monster_size_ratio(sizes, size, count)
    BY <1>3 DEF MonsterRatio
  <2> QED  BY <1>1, <1>3, <2>1 DEF monster_size_ratio, Ratio
<1> QED  BY <1>2, <1>3

\* Fewer VMs known of a host that is no smaller make no bigger monster.
LEMMA MonsterNeverRaised ==
    ASSUME NEW sizes \in SUBSET Nat, IsFiniteSet(sizes), NEW sizes2 \in SUBSET sizes,
           NEW size \in Nat \cup {NaN}, NEW size2 \in Nat \cup {NaN},
           NEW count, count = 0 => sizes = {},
           size2 # 0 => size # 0 /\ (size = NaN <=> size2 = NaN),
           size2 \notin {0, NaN} => size <= size2
    PROVE  /\ MonsterRatio(sizes, size, count) \in Metric
           /\ NoHigher(MonsterRatio(sizes, size, count), MonsterRatio(sizes2, size2, count))
<1> DEFINE before == MonsterRatio(sizes, size, count)
           after == MonsterRatio(sizes2, size2, count)
           a == Max(sizes2)
           b == Max(sizes)
<1>1. IsFiniteSet(sizes2) /\ sizes2 \in SUBSET Int /\ sizes \in SUBSET Int
  <2>1. IsFiniteSet(sizes2)
    BY FS_Subset
  <2>2. sizes2 \in SUBSET Int /\ sizes \in SUBSET Int
    OBVIOUS
  <2> QED  BY <2>1, <2>2
<1>2. sizes # {} => b \in Nat /\ \A x \in sizes : x <= b
  BY <1>1, MaxFacts
<1>3. sizes2 # {} => a \in Nat /\ a \in sizes
  BY <1>1, MaxFacts
<1>4. Zero \in Proper
  BY DEF Zero, Proper
<1>5. /\ size = NaN /\ sizes # {} => before = NaN
      /\ size = 0 => before = NoData
      /\ size # 0 /\ sizes = {} => before = IF count = 0 THEN Zero ELSE NoData
      /\ size \notin {0, NaN} /\ sizes # {} => before = <<100 * b, size>>
  BY MonsterRatioValue
<1>6. /\ size2 = NaN /\ sizes2 # {} => after = NaN
      /\ size2 = 0 => after = NoData
      /\ size2 # 0 /\ sizes2 = {} => after = IF count = 0 THEN Zero ELSE NoData
      /\ size2 \notin {0, NaN} /\ sizes2 # {} => after = <<100 * a, size2>>
  BY MonsterRatioValue
<1> HIDE DEF before, after, a, b
<1>7. before \in Metric
  <2>1. CASE size \notin {0, NaN} /\ sizes # {}
    <3>1. 100 * b \in Nat /\ size \in Nat \ {0}
      BY <1>2, <2>1
    <3>2. <<100 * b, size>> \in Proper
      BY <3>1 DEF Proper
    <3> QED  BY <1>5, <2>1, <3>2 DEF Metric
  <2>2. CASE ~(size \notin {0, NaN} /\ sizes # {})
    BY <1>4, <1>5, <2>2 DEF Metric
  <2> QED  BY <2>1, <2>2
<1> SUFFICES NoHigher(before, after)
  BY <1>7 DEF before, after
<1>8. CASE size2 = 0
  BY <1>6, <1>8 DEF NoHigher
<1>9. CASE size2 # 0 /\ sizes2 = {}
  BY <1>5, <1>6, <1>9 DEF NoHigher
<1>10. CASE size2 = NaN /\ sizes2 # {}
  BY <1>5, <1>6, <1>10, NotNumbers DEF NoHigher
<1>11. CASE size2 \notin {0, NaN} /\ sizes2 # {}
  <2>1. /\ size \in Nat \ {0} /\ size2 \in Nat \ {0} /\ size <= size2
        /\ a \in Nat /\ b \in Nat /\ a <= b /\ sizes # {} /\ size \notin {0, NaN}
    BY <1>2, <1>3, <1>11
  <2>2. before = <<100 * b, size>> /\ after = <<100 * a, size2>>
    BY <1>5, <1>6, <1>11, <2>1
  <2>3. (100 * a) * size <= (100 * b) * size2
    <3>1. 100 * a <= 100 * b /\ 100 * a \in Nat /\ 100 * b \in Nat
      BY <2>1
    <3> QED  BY <2>1, <3>1, ProductGrows
  <2>4. before \in Proper /\ after \in Proper
    BY <2>1, <2>2 DEF Proper
  <2>5. AtMost(after, before)
    BY <2>2, <2>3 DEF AtMost
  <2> QED  BY <2>4, <2>5 DEF NoHigher
<1> QED  BY <1>8, <1>9, <1>10, <1>11

--------------------------------------------------------------------------------
\* What is known of a key, summed: it is less when less is known.
LEMMA SumOfLess ==
    ASSUME NEW a, NEW b, NEW k, NEW S, IsFiniteSet(S),
           \A x \in S : a[x][k] \in Number /\ b[x][k] \in {a[x][k], NoData}
    PROVE  LET sum(c) == TotalBy(c, k, {x \in S : c[x][k] # NoData})
           IN  sum(a) \in Nat /\ sum(b) \in Nat /\ sum(b) <= sum(a)
<1> DEFINE A == {x \in S : a[x][k] # NoData}
           B == {x \in S : b[x][k] # NoData}
           w == [x \in A |-> a[x][k]]
           u == [x \in B |-> b[x][k]]
<1>1. B \in SUBSET A /\ A \in SUBSET S /\ IsFiniteSet(A) /\ IsFiniteSet(B)
  <2>1. B \in SUBSET A /\ A \in SUBSET S /\ B \in SUBSET S
    OBVIOUS
  <2> QED  BY <2>1, FS_Subset
<1>2. \A x \in A : w[x] \in Nat
  BY DEF Number
<1>3. \A x \in B : u[x] \in Nat /\ u[x] = w[x]
  BY DEF Number
<1>4. TotalBy(a, k, A) = Total(w, A) /\ TotalBy(b, k, B) = Total(u, B)
  <2> HIDE DEF A, B
  <2> QED  BY <1>1, TotalByIsTotal
<1> HIDE DEF A, B, w, u
<1>5. Total(w, A) \in Nat /\ Total(u, B) \in Nat /\ Total(w, B) \in Nat
  BY <1>1, <1>2, <1>3, TotalFacts
<1>6. Total(w, B) <= Total(w, A)
  BY <1>1, <1>2, TotalOfSubset
<1>7. Total(u, B) = Total(w, B)
  <2>1. \A x \in B : u[x] \in Nat /\ w[x] \in Nat /\ u[x] <= w[x] /\ u[x] = w[x]
    BY <1>3
  <2> QED  BY <1>1, <2>1, TotalOfLess
<1>8. TotalBy(a, k, A) \in Nat /\ TotalBy(b, k, B) \in Nat /\ TotalBy(b, k, B) <= TotalBy(a, k, A)
  BY <1>4, <1>5, <1>6, <1>7
<1> QED  BY <1>8 DEF A, B

\* The capacity, of the DRAM and of what is provisioned.
Capacity(dram, provisioned) == IF Truthy(dram) THEN dram ELSE provisioned

\* Without the DRAM it is what is provisioned, which is no less.
LEMMA CapacityNeverLess ==
    ASSUME NEW d \in Number, NEW d2 \in {d, NoData}, NEW p \in Number, NEW p2 \in {p, NoData},
           {d, p} \subseteq Nat \ {0} => d <= p
    PROVE  /\ Capacity(d, p) \in Number /\ Capacity(d2, p2) \in Number
           /\ More(Capacity(d, p), Capacity(d2, p2))
<1>1. Capacity(d, p) \in Number /\ Capacity(d2, p2) \in Number
  BY DEF Capacity, Number
<1>2. CASE d2 = d
  BY <1>1, <1>2, NotNumbers DEF Capacity, More, Truthy, Number
<1>3. CASE d2 = NoData
  BY <1>1, <1>3, NotNumbers DEF Capacity, More, Truthy, Number
<1> QED  BY <1>2, <1>3

--------------------------------------------------------------------------------
\* The monster sizes, for any setting.
CpuSize(pct, cores) ==
    IF ~Truthy(cores) THEN 0 ELSE IF pct = NaN THEN NaN ELSE cores * pct
MemorySize(pct, cap, mem) ==
    IF ~Truthy(mem) THEN 0
    ELSE IF pct = NaN THEN NaN
    ELSE IF cap # NaN /\ 100 * cap < mem * pct THEN 100 * cap ELSE mem * pct

\* A host that is no smaller has monsters that are no smaller.
Grows(size, size2) ==
    /\ size \in Nat \cup {NaN} /\ size2 \in Nat \cup {NaN}
    /\ size2 # 0 => size # 0 /\ (size = NaN <=> size2 = NaN)
    /\ size2 \notin {0, NaN} => size <= size2

\* The size in cores grows with the cores, whatever the percentage.
LEMMA CpuSizeGrows ==
    ASSUME NEW pct \in (1..100) \cup {NaN}, NEW c \in Number, NEW c2 \in Number, More(c, c2)
    PROVE  Grows(CpuSize(pct, c), CpuSize(pct, c2))
<1>1. 0 # NaN /\ 0 # NoData
  BY NotNumbers
<1>2. CASE pct = NaN
  BY <1>1, <1>2 DEF CpuSize, Grows, More
<1>3. CASE pct \in 1..100
  <2>1. pct # NaN /\ \A x \in Nat : x * pct \in Nat /\ x * pct # NaN /\ (x # 0 => x * pct # 0)
    <3>1. \A x \in Nat : x * pct \in Nat /\ (x # 0 => x * pct >= 1)
      <4>1. ASSUME NEW x \in Nat \ {0}  PROVE 1 * 1 <= x * pct
        BY <1>3, ProductGrows
      <4> QED  BY <1>3, <4>1
    <3> QED  BY <1>3, <3>1, NotNumbers
  <2>2. Truthy(c) => c \in Nat \ {0}
    BY DEF Truthy, Number
  <2>3. Truthy(c2) => c2 \in Nat \ {0} /\ c \in Nat \ {0} /\ c * pct <= c2 * pct /\ Truthy(c)
    <3>1. SUFFICES ASSUME Truthy(c2)
          PROVE  c2 \in Nat \ {0} /\ c \in Nat \ {0} /\ c * pct <= c2 * pct /\ Truthy(c)
      OBVIOUS
    <3>2. c2 \in Nat \ {0} /\ c \in Nat \ {0} /\ c <= c2 /\ Truthy(c)
      BY <2>2, <3>1 DEF More, Truthy, Number
    <3>3. c * pct <= c2 * pct
      BY <1>3, <3>2, ProductGrows
    <3> QED  BY <3>2, <3>3
  <2>4. CpuSize(pct, c) = IF Truthy(c) THEN c * pct ELSE 0
    BY <2>1 DEF CpuSize
  <2>5. CpuSize(pct, c2) = IF Truthy(c2) THEN c2 * pct ELSE 0
    BY <2>1 DEF CpuSize
  <2>6. CASE Truthy(c2)
    BY <2>1, <2>3, <2>4, <2>5, <2>6 DEF Grows
  <2>7. CASE ~Truthy(c2)
    <3>1. CpuSize(pct, c) \in Nat
      BY <2>1, <2>2, <2>4
    <3> QED  BY <2>5, <2>7, <3>1 DEF Grows
  <2> QED  BY <2>6, <2>7
<1> QED  BY <1>2, <1>3

\* The size in memory grows with the memory, whatever percentage and cap.
LEMMA MemorySizeGrows ==
    ASSUME NEW pct \in (1..100) \cup {NaN}, NEW cap \in (Nat \ {0}) \cup {NaN},
           NEW c \in Number, NEW c2 \in Number, More(c, c2)
    PROVE  Grows(MemorySize(pct, cap, c), MemorySize(pct, cap, c2))
<1> DEFINE least(n) == IF cap # NaN /\ 100 * cap < n THEN 100 * cap ELSE n
<1>1. Grows(CpuSize(pct, c), CpuSize(pct, c2))
  BY CpuSizeGrows
<1>2. CASE pct = NaN \/ ~Truthy(c2)
  <2>1. MemorySize(pct, cap, c2) = CpuSize(pct, c2)
    BY <1>2 DEF MemorySize, CpuSize
  <2>2. CASE pct = NaN \/ ~Truthy(c)
    <3>1. MemorySize(pct, cap, c) = CpuSize(pct, c)
      BY <2>2 DEF MemorySize, CpuSize
    <3> QED  BY <1>1, <2>1, <3>1
  <2>3. CASE pct # NaN /\ Truthy(c)
    <3>1. MemorySize(pct, cap, c2) = 0
      BY <1>2, <2>3 DEF MemorySize
    <3>2. c * pct \in Nat /\ MemorySize(pct, cap, c) = least(c * pct)
      BY <2>3 DEF MemorySize, Truthy, Number
    <3>3. MemorySize(pct, cap, c) \in Nat
      BY <3>2
    <3> QED  BY <3>1, <3>3, NotNumbers DEF Grows
  <2> QED  BY <2>2, <2>3
<1>3. CASE pct # NaN /\ Truthy(c2)
  <2>1. /\ Truthy(c) /\ c \in Nat \ {0} /\ c2 \in Nat \ {0}
    BY <1>3 DEF More, Truthy, Number
  <2> DEFINE m == c * pct
             n == c2 * pct
  <2>2. m \in Nat \ {0} /\ n \in Nat \ {0} /\ m <= n
    <3>1. CpuSize(pct, c) = m /\ CpuSize(pct, c2) = n
      BY <1>3, <2>1 DEF CpuSize
    <3>2. m \in Nat /\ n \in Nat /\ c <= c2
      BY <1>3, <2>1 DEF More
    <3>3. 1 * 1 <= c * pct /\ 1 * 1 <= c2 * pct /\ c * pct <= c2 * pct
      BY <1>3, <2>1, <3>2, ProductGrows
    <3> QED  BY <3>2, <3>3
  <2>3. MemorySize(pct, cap, c) = least(m) /\ MemorySize(pct, cap, c2) = least(n)
    BY <1>3, <2>1 DEF MemorySize
  <2> HIDE DEF m, n
  <2>4. least(m) \in Nat \ {0} /\ least(n) \in Nat \ {0} /\ least(m) <= least(n)
    BY <2>2
  <2> HIDE DEF least
  <2>5. least(m) # NaN /\ least(n) # NaN
    BY <2>4, NotNumbers
  <2> QED  BY <2>3, <2>4, <2>5 DEF Grows
<1> QED  BY <1>2, <1>3

(* No setting makes a percentage or a cap that is not positive.             *)
LEMMA SettingFacts ==
    ASSUME setting \in Settings
    PROVE  /\ cpu_pct \in (1..100) \cup {NaN} /\ memory_pct \in (1..100) \cup {NaN}
           /\ memory_cap \in (Nat \ {0}) \cup {NaN}
<1>1. \A key \in {"cpu_pct", "memory_pct", "memory_cap"} : setting[key] \in Int \cup {NaN, Text}
  <2>1. setting \in [DOMAIN Default -> Int \cup {NaN, Text}]
    BY MetricsAssumption
  <2> QED  BY <2>1, MetricsAssumption
<1>2. ASSUME NEW key \in {"cpu_pct", "memory_pct"}
      PROVE  _number_setting(key, 1, 100) \in (1..100) \cup {NaN}
  <2>1. Default[key] \in 1..100 /\ 100 # NaN
    BY MetricsAssumption, NotNumbers
  <2>2. CASE setting[key] \in {NaN, Text}
    BY <2>1, <2>2 DEF _number_setting
  <2>3. CASE setting[key] \in Int
    BY <2>1, <2>3 DEF _number_setting, NoLimit
  <2> QED  BY <1>1, <2>2, <2>3
<1>3. _number_setting("memory_cap", 1, NoLimit) \in (Nat \ {0}) \cup {NaN}
  <2>1. Default["memory_cap"] \in Nat \ {0}
    BY MetricsAssumption
  <2>2. CASE setting["memory_cap"] \in {NaN, Text}
    BY <2>1, <2>2 DEF _number_setting
  <2>3. CASE setting["memory_cap"] \in Int
    BY <2>1, <2>3 DEF _number_setting
  <2> QED  BY <1>1, <2>2, <2>3
<1> QED  BY <1>2, <1>3 DEF cpu_pct, memory_pct, memory_cap

--------------------------------------------------------------------------------
\* A value is what is stored or missing, and a step only makes it missing.
StoredOrLost ==
    \A r \in DOMAIN Stored : \A key \in DOMAIN Stored[r] :
        values[r][key] \in {Stored[r][key], NoData}
Fewer ==
    /\ setting' = setting
    /\ \A r \in DOMAIN Stored : \A key \in DOMAIN Stored[r] :
           values'[r][key] \in {values[r][key], NoData}

\* What is stored or missing of each resource is a number or missing.
LEMMA NumbersRead ==
    ASSUME StoredOrLost
    PROVE  /\ \A h \in Host : /\ \A key \in HostNumbers : /\ stat(key, h) \in Number
                                                          /\ stat(key, h) \in {Stored[h][key], NoData}
                              /\ stat("linkspeed", h) \in Number \cup {Text}
                              /\ \A v \in VmsOf[h], key \in VmNumbers :
                                     /\ Stored[v][key] \in Number
                                     /\ stat(key, v) \in Number
                                     /\ stat(key, v) \in {Stored[v][key], NoData}
           /\ \A key \in ClusterNumbers : stat(key, Cluster) \in Number
<1>1. ASSUME NEW h \in Host
      PROVE  /\ h \in DOMAIN Stored
             /\ \A v \in VmsOf[h] : v \in DOMAIN Stored
  BY MetricsAssumption
<1>2. Cluster \in DOMAIN Stored
  BY MetricsAssumption
<1>3. NoData \in Number
  BY DEF Number
<1>4. ASSUME NEW h \in Host
      PROVE  /\ \A key \in HostNumbers : stat(key, h) \in Number
                                         /\ stat(key, h) \in {Stored[h][key], NoData}
             /\ stat("linkspeed", h) \in Number \cup {Text}
  <2>1. /\ \A key \in HostNumbers : key \in DOMAIN Stored[h] /\ Stored[h][key] \in Number
        /\ "linkspeed" \in DOMAIN Stored[h] /\ Stored[h]["linkspeed"] \in Number \cup {Text}
    BY StoredAssumption
  <2> QED  BY <1>1, <1>3, <2>1 DEF StoredOrLost, stat
<1>5. ASSUME NEW h \in Host, NEW v \in VmsOf[h], NEW key \in VmNumbers
      PROVE  /\ Stored[v][key] \in Number /\ stat(key, v) \in Number
             /\ stat(key, v) \in {Stored[v][key], NoData}
  <2>1. key \in DOMAIN Stored[v] /\ Stored[v][key] \in Number
    BY StoredAssumption
  <2> QED  BY <1>1, <1>3, <2>1 DEF StoredOrLost, stat
<1>6. ASSUME NEW key \in ClusterNumbers  PROVE stat(key, Cluster) \in Number
  <2>1. key \in DOMAIN Stored[Cluster] /\ Stored[Cluster][key] \in Number
    BY StoredAssumption
  <2> QED  BY <1>2, <1>3, <2>1 DEF StoredOrLost, stat
<1> QED  BY <1>4, <1>5, <1>6

\* After a step each of these is what it was or missing.
LEMMA FewerRead ==
    ASSUME Fewer
    PROVE  /\ \A h \in Host :
                  /\ \A key \in HostNumbers \cup {"hyperthreaded", "linkspeed"} :
                         stat(key, h)' \in {stat(key, h), NoData}
                  /\ \A v \in VmsOf[h], key \in VmNumbers : stat(key, v)' \in {stat(key, v), NoData}
           /\ \A key \in ClusterNumbers : stat(key, Cluster)' \in {stat(key, Cluster), NoData}
<1>1. Cluster \in DOMAIN Stored
      /\ \A h \in Host : h \in DOMAIN Stored /\ \A v \in VmsOf[h] : v \in DOMAIN Stored
  BY MetricsAssumption
<1>2. ASSUME NEW h \in Host, NEW key \in HostNumbers \cup {"hyperthreaded", "linkspeed"}
      PROVE  stat(key, h)' \in {stat(key, h), NoData}
  BY <1>1, StoredAssumption DEF Fewer, stat
<1>3. ASSUME NEW h \in Host, NEW v \in VmsOf[h], NEW key \in VmNumbers
      PROVE  stat(key, v)' \in {stat(key, v), NoData}
  BY <1>1, StoredAssumption DEF Fewer, stat
<1>4. ASSUME NEW key \in ClusterNumbers
      PROVE  stat(key, Cluster)' \in {stat(key, Cluster), NoData}
  BY <1>1, StoredAssumption DEF Fewer, stat
<1> QED  BY <1>2, <1>3, <1>4

\* A step leaves a host no less memory to divide by, or none.
LEMMA CapacityKept ==
    ASSUME StoredOrLost, Fewer, NEW h \in Host
    PROVE  /\ host_memory_capacity(h) \in Number /\ host_memory_capacity(h)' \in Number
           /\ More(host_memory_capacity(h), host_memory_capacity(h)')
<1> DEFINE d == stat("dram", h)
           p == stat("provisioned", h)
<1>1. d \in Number /\ p \in Number /\ d' \in {d, NoData} /\ p' \in {p, NoData}
  BY NumbersRead, FewerRead DEF HostNumbers
<1>2. {d, p} \subseteq Nat \ {0} => d <= p
  <2>1. d \in {Stored[h]["dram"], NoData} /\ p \in {Stored[h]["provisioned"], NoData}
    BY NumbersRead DEF HostNumbers
  <2> HIDE DEF d, p
  <2> QED  BY <2>1, ConsistencyAssumption, NotNumbers
<1>3. /\ host_memory_capacity(h) = Capacity(d, p)
      /\ host_memory_capacity(h)' = Capacity(d', p')
  BY DEF host_memory_capacity, Capacity, Truthy
<1> HIDE DEF d, p
<1> QED  BY <1>1, <1>2, <1>3, CapacityNeverLess

(* Where the allocation of a host is lost, the sum of its VMs is no more.   *)
LEMMA AllocatedNeverMore ==
    ASSUME StoredOrLost, Fewer, NEW h \in Host,
           NEW native, NEW key,
           <<native, key>> \in {<<"vcpus_allocated", "vcpus">>, <<"memory_allocated", "memory">>}
    PROVE  /\ Allocated(native, key, h) \in Nat /\ Allocated(native, key, h)' \in Nat
           /\ Allocated(native, key, h)' <= Allocated(native, key, h)
<1> DEFINE all(a) == TotalBy(a, key, {v \in VmsOf[h] : a[v][key] # NoData})
<1>1. IsFiniteSet(VmsOf[h]) /\ native \in HostNumbers /\ key \in VmNumbers
  BY MetricsAssumption DEF HostNumbers, VmNumbers
<1>2. Sum(key, VmsOf[h]) = all(values) /\ Sum(key, VmsOf[h])' = all(values')
  BY DEF Sum, Known, stat, TotalBy, MapThenSumSet, MapThenFoldSet
<1>3. all(Stored) \in Nat /\ all(values) \in Nat /\ all(values) <= all(Stored)
  <2>1. \A v \in VmsOf[h] : Stored[v][key] \in Number /\ values[v][key] \in {Stored[v][key], NoData}
    BY <1>1, NumbersRead DEF stat
  <2> QED  BY <1>1, <2>1, SumOfLess
<1>4. all(values') \in Nat /\ all(values') <= all(values)
  <2>1. \A v \in VmsOf[h] : values[v][key] \in Number /\ values'[v][key] \in {values[v][key], NoData}
    BY <1>1, NumbersRead, FewerRead DEF stat
  <2> QED  BY <1>1, <2>1, SumOfLess
<1>5. Stored[h][native] # NoData => all(Stored) <= Stored[h][native]
  <2> DEFINE total(k) == TotalBy(Stored, k, {v \in VmsOf[h] : Stored[v][k] # NoData})
  <2>1. /\ Stored[h]["vcpus_allocated"] # NoData => total("vcpus") <= Stored[h]["vcpus_allocated"]
        /\ Stored[h]["memory_allocated"] # NoData => total("memory") <= Stored[h]["memory_allocated"]
    BY ConsistencyAssumption DEF TotalBy, MapThenSumSet, MapThenFoldSet
  <2>2. all(Stored) = total(key)
    OBVIOUS
  <2> HIDE DEF all, total
  <2>3. \/ native = "vcpus_allocated" /\ key = "vcpus"
        \/ native = "memory_allocated" /\ key = "memory"
    OBVIOUS
  <2> QED  BY <2>1, <2>2, <2>3
<1> HIDE DEF all
<1> DEFINE n == stat(native, h)
<1>6. n \in Number /\ n \in {Stored[h][native], NoData} /\ n' \in {n, NoData}
  BY <1>1, NumbersRead, FewerRead
<1>7. /\ Allocated(native, key, h) = IF n # NoData THEN n ELSE all(values)
      /\ Allocated(native, key, h)' = IF n' # NoData THEN n' ELSE all(values')
  BY <1>2 DEF Allocated
<1> HIDE DEF n
<1> QED  BY <1>3, <1>4, <1>5, <1>6, <1>7 DEF Number

--------------------------------------------------------------------------------
\* No metric of a host is higher for it.
LEMMA ImbalanceNeverRaised ==
    ASSUME StoredOrLost, Fewer, NEW h \in Host
    PROVE  /\ host_cpu_imbalance_ratio(h) \in Metric
           /\ NoHigher(host_cpu_imbalance_ratio(h), host_cpu_imbalance_ratio(h)')
<1> DEFINE c == stat("cores", h)
           t == stat("threads", h)
           r == stat("core_util", h)
           two == IF stat("hyperthreaded", h) = "true" THEN 2 ELSE 1
           before == host_cpu_imbalance_ratio(h)
           ratio(x, y) == IF y = 0 THEN (IF x = 0 THEN One ELSE NoData) ELSE <<x * c, y * c>>
<1>1. /\ c \in Number /\ t \in Number /\ r \in Number
      /\ c' \in {c, NoData} /\ t' \in {t, NoData} /\ r' \in {r, NoData}
      /\ two \in {1, 2} /\ two' \in {1, 2} /\ two' <= two
  <2>1. stat("hyperthreaded", h)' \in {stat("hyperthreaded", h), NoData} /\ NoData # "true"
    BY FewerRead, MetricsAssumption
  <2>2. /\ c \in Number /\ t \in Number /\ r \in Number
        /\ c' \in {c, NoData} /\ t' \in {t, NoData} /\ r' \in {r, NoData}
    BY NumbersRead, FewerRead DEF HostNumbers
  <2> QED  BY <2>1, <2>2
<1>2. /\ before = IF NoData \in {t, r} \/ ~Truthy(c) THEN NoData ELSE ratio(t * two, r)
      /\ before' = IF NoData \in {t', r'} \/ ~Truthy(c') THEN NoData
                   ELSE IF r' = 0 THEN (IF t' * two' = 0 THEN One ELSE NoData)
                   ELSE <<t' * two' * c', r' * c'>>
  BY DEF host_cpu_imbalance_ratio, Ratio, Truthy
<1> SUFFICES before \in Metric /\ NoHigher(before, before')
  OBVIOUS
<1> HIDE DEF c, t, r, two, before
<1>3. One \in Proper
  BY DEF One, Proper
<1>4. CASE NoData \in {t, r} \/ ~Truthy(c)
  <2>1. before = NoData /\ before' = NoData
    BY <1>1, <1>2, <1>4, NotNumbers DEF Truthy
  <2> QED  BY <2>1 DEF Metric, NoHigher
<1>5. CASE ~(NoData \in {t, r} \/ ~Truthy(c))
  <2>1. t \in Nat /\ r \in Nat /\ c \in Nat \ {0}
    BY <1>1, <1>5 DEF Number, Truthy
  <2>2. before = ratio(t * two, r) /\ t * two \in Nat
    BY <1>1, <1>2, <1>5, <2>1
  <2>3. before \in Metric
    <3>1. CASE r = 0
      BY <1>3, <2>2, <3>1 DEF Metric
    <3>2. CASE r # 0
      <4>1. (t * two) * c \in Nat /\ r * c \in Nat /\ 1 * 1 <= r * c
        BY <2>1, <2>2, <3>2, ProductGrows
      <4>2. before = <<(t * two) * c, r * c>> /\ r * c # 0
        BY <2>2, <3>2, <4>1
      <4> HIDE DEF ratio
      <4> QED  BY <4>1, <4>2 DEF Metric, Proper
    <3> QED  BY <3>1, <3>2
  <2>4. CASE NoData \in {t', r'} \/ ~Truthy(c')
    BY <1>2, <2>3, <2>4 DEF NoHigher
  <2>5. CASE ~(NoData \in {t', r'} \/ ~Truthy(c'))
    <3>1. t' = t /\ r' = r /\ c' = c
      BY <1>1, <2>5 DEF Truthy
    <3>0. t * two' \in Nat /\ t * two' <= t * two /\ (t * two' = 0 <=> t * two = 0)
      <4> DEFINE i == two'
                 j == two
      <4>1. i \in {1, 2} /\ j \in {1, 2} /\ i <= j
        BY <1>1
      <4> HIDE DEF i, j
      <4>2. t * i \in Nat /\ t * i <= t * j /\ (t * i = 0 <=> t * j = 0)
        <5>1. i = 1 \/ (i = 2 /\ j = 2)
          BY <4>1
        <5>2. t * 1 = t /\ t * 2 = t + t
          BY <2>1
        <5> QED  BY <2>1, <4>1, <5>1, <5>2
      <4> QED  BY <4>2 DEF i, j
    <3>2. before' = ratio(t * two', r) /\ t * two' \in Nat /\ t * two' <= t * two
      <4>1. before' = ratio(t * two', r)
        BY <1>2, <2>5, <3>1
      <4> QED  BY <3>0, <4>1
    <3>3. t * two' = 0 <=> t * two = 0
      BY <3>0
    <3>4. CASE r = 0
      BY <2>2, <2>3, <3>2, <3>3, <3>4 DEF NoHigher
    <3>5. CASE r # 0
      <4>1. r * c \in Nat /\ 1 * 1 <= r * c
        BY <2>1, <3>5, ProductGrows
      <4>2. (t * two') * c <= (t * two) * c
        BY <2>1, <2>2, <3>2, ProductGrows
      <4> DEFINE x == (t * two') * c
                 y == (t * two) * c
                 z == r * c
      <4>3. x \in Nat /\ y \in Nat /\ z \in Nat \ {0} /\ x <= y
        BY <2>1, <2>2, <3>2, <4>1, <4>2
      <4>4. before = <<y, z>> /\ before' = <<x, z>>
        BY <2>2, <3>2, <3>5
      <4> HIDE DEF x, y, z, ratio
      <4>5. x * z <= y * z
        BY <4>3, ProductGrows
      <4>6. NoHigher(before, before')
        BY <4>3, <4>4, <4>5 DEF NoHigher, Proper, AtMost
      <4> QED  BY <2>3, <4>6
    <3> QED  BY <3>4, <3>5
  <2> QED  BY <2>4, <2>5
<1> QED  BY <1>4, <1>5

\* The sizes of the VMs known are finitely many numbers.
LEMMA SizesFacts ==
    ASSUME StoredOrLost, NEW h \in Host, NEW key \in VmNumbers
    PROVE  /\ Sizes(key, h) \in SUBSET Nat /\ IsFiniteSet(Sizes(key, h))
           /\ Cardinality(VmsOf[h]) = 0 => Sizes(key, h) = {}
<1>1. IsFiniteSet(VmsOf[h]) /\ \A v \in VmsOf[h] : stat(key, v) \in Number
  BY MetricsAssumption, NumbersRead
<1>2. Sizes(key, h) \in SUBSET Nat
  BY <1>1 DEF Sizes, Known, Number
<1> DEFINE K == Known(key, VmsOf[h])
           w == [v \in K |-> stat(key, v)]
<1>3. IsFiniteSet(K)
  BY <1>1, FS_Subset DEF Known
<1>4. IsFiniteSet({w[v] : v \in K})
  <2> HIDE DEF K, w
  <2> QED  BY <1>3, ImageIsFinite
<1>5. {w[v] : v \in K} = Sizes(key, h)
  BY DEF Sizes
<1>6. Cardinality(VmsOf[h]) = 0 => VmsOf[h] = {}
  BY <1>1, FS_EmptySet
<1> QED  BY <1>2, <1>4, <1>5, <1>6 DEF Sizes, Known

\* Neither of a host's monster metrics is raised by a step.
LEMMA MonstersNeverRaised ==
    ASSUME setting \in Settings, StoredOrLost, Fewer, NEW h \in Host, NEW m \in {"cpu_monster", "memory_monster"}
    PROVE  /\ HostMetrics(h)[m] \in Metric
           /\ NoHigher(HostMetrics(h)[m], HostMetrics(h)[m]')
<1> DEFINE count == Cardinality(VmsOf[h])
           cores == stat("cores", h)
           mem == host_memory_capacity(h)
<1>1. ASSUME NEW key \in VmNumbers
      PROVE  /\ Sizes(key, h) \in SUBSET Nat /\ IsFiniteSet(Sizes(key, h))
             /\ Sizes(key, h)' \in SUBSET Sizes(key, h)
             /\ count = 0 => Sizes(key, h) = {}
  <2>1. IsFiniteSet(VmsOf[h]) /\ \A v \in VmsOf[h] : stat(key, v) \in Number
                                                     /\ stat(key, v)' \in {stat(key, v), NoData}
    BY MetricsAssumption, NumbersRead, FewerRead
  <2>2. Sizes(key, h)' \in SUBSET Sizes(key, h)
    BY <2>1 DEF Sizes, Known, Number
  <2> QED  BY <2>2, SizesFacts
<1>2. /\ cpu_pct \in (1..100) \cup {NaN} /\ memory_pct \in (1..100) \cup {NaN}
      /\ memory_cap \in (Nat \ {0}) \cup {NaN}
  BY SettingFacts
<1>3. cpu_pct' = cpu_pct /\ memory_pct' = memory_pct /\ memory_cap' = memory_cap
  BY DEF Fewer, cpu_pct, memory_pct, memory_cap, _number_setting
<1>4. ASSUME NEW key \in VmNumbers, NEW size, NEW size2, Grows(size, size2)
      PROVE  /\ MonsterRatio(Sizes(key, h), size, count) \in Metric
             /\ NoHigher(MonsterRatio(Sizes(key, h), size, count),
                         MonsterRatio(Sizes(key, h)', size2, count))
  BY <1>1, <1>4, MonsterNeverRaised DEF Grows
<1>5. CASE m = "cpu_monster"
  <2>1. cores \in Number /\ cores' \in Number /\ More(cores, cores')
    <3>1. cores \in Number /\ cores' \in {cores, NoData}
      BY NumbersRead, FewerRead DEF HostNumbers
    <3> QED  BY <3>1 DEF More, Truthy, Number
  <2>2. Grows(CpuSize(cpu_pct, cores), CpuSize(cpu_pct, cores'))
    BY <1>2, <2>1, CpuSizeGrows
  <2>3. /\ HostMetrics(h)[m] = MonsterRatio(Sizes("vcpus", h), CpuSize(cpu_pct, cores), count)
        /\ HostMetrics(h)[m]' = MonsterRatio(Sizes("vcpus", h)', CpuSize(cpu_pct, cores'), count)
    BY <1>3, <1>5 DEF HostMetrics, CpuSize, cpu_monster_size, Truthy, MonsterRatio
  <2> QED  BY <1>4, <2>2, <2>3 DEF VmNumbers
<1>6. CASE m = "memory_monster"
  <2>1. Grows(MemorySize(memory_pct, memory_cap, mem), MemorySize(memory_pct, memory_cap, mem'))
    BY <1>2, CapacityKept, MemorySizeGrows
  <2>2. /\ HostMetrics(h)[m] = MonsterRatio(Sizes("memory", h), MemorySize(memory_pct, memory_cap, mem), count)
        /\ HostMetrics(h)[m]' = MonsterRatio(Sizes("memory", h)', MemorySize(memory_pct, memory_cap, mem'), count)
    BY <1>3, <1>6 DEF HostMetrics, MemorySize, memory_monster, Truthy, MonsterRatio
  <2> QED  BY <1>4, <2>1, <2>2 DEF VmNumbers
<1> QED  BY <1>5, <1>6

\* None of a host's metrics of its stats and its VMs' sizes is raised by a step.
LEMMA HostNeverRaised ==
    ASSUME setting \in Settings, StoredOrLost, Fewer, NEW h \in Host,
           NEW m \in DOMAIN HostMetrics(h) \ {"worst", "p90"}
    PROVE  /\ HostMetrics(h)[m] \in Metric
           /\ NoHigher(HostMetrics(h)[m], HostMetrics(h)[m]')
<1> DEFINE cores == stat("cores", h)
           mem == host_memory_capacity(h)
<1>1. \A key \in HostNumbers : stat(key, h) \in Number /\ stat(key, h)' \in {stat(key, h), NoData}
  BY NumbersRead, FewerRead
<1>2. mem \in Number /\ mem' \in Number /\ More(mem, mem')
  BY CapacityKept
<1>3. \A key \in HostNumbers : /\ stat(key, h)' \in Number /\ Less(stat(key, h), stat(key, h)')
                               /\ More(stat(key, h), stat(key, h)')
  BY <1>1 DEF Less, More, Truthy, Number
<1>4. Metric = Proper \cup {NoData, NaN}
  BY DEF Metric
<1>5. CASE m \in {"thread_utilization", "contention"}
  <2> DEFINE key == IF m = "contention" THEN m ELSE "threads"
  <2>1. HostMetrics(h)[m] = AsIs(stat(key, h)) /\ HostMetrics(h)[m]' = AsIs(stat(key, h)')
    BY <1>5 DEF HostMetrics, AsIs
  <2>2. key \in HostNumbers
    BY <1>5 DEF HostNumbers
  <2> HIDE DEF key
  <2> QED  BY <1>1, <1>4, <2>1, <2>2, AsIsNeverRaised
<1>6. CASE m = "ballooned"
  <2>1. /\ HostMetrics(h)[m] = Pct(stat("balloon", h), mem)
        /\ HostMetrics(h)[m]' = Pct(stat("balloon", h)', mem')
    BY <1>6 DEF HostMetrics, Pct, Per, Truthy
  <2> DEFINE v == stat("balloon", h)
  <2>2. v \in Number /\ v' \in Number /\ Less(v, v')
    BY <1>1, <1>3 DEF HostNumbers
  <2> HIDE DEF v, mem
  <2>3. Pct(v, mem) \in Proper \cup {NoData} /\ NoHigher(Pct(v, mem), Pct(v', mem'))
    BY <1>2, <2>2, PerNeverRaised
  <2> QED  BY <1>4, <2>1, <2>3 DEF v
<1>7. CASE m = "cpu_reservation"
  <2>1. /\ HostMetrics(h)[m] = Pct(stat("reserved", h), stat("capacity", h))
        /\ HostMetrics(h)[m]' = Pct(stat("reserved", h)', stat("capacity", h)')
    BY <1>7 DEF HostMetrics, Pct, Per, Truthy
  <2> DEFINE v == stat("reserved", h)
             w == stat("capacity", h)
  <2>2. /\ v \in Number /\ v' \in Number /\ Less(v, v')
        /\ w \in Number /\ w' \in Number /\ More(w, w')
    BY <1>1, <1>3 DEF HostNumbers
  <2> HIDE DEF v, w
  <2>3. Pct(v, w) \in Proper \cup {NoData} /\ NoHigher(Pct(v, w), Pct(v', w'))
    BY <2>2, PerNeverRaised
  <2> QED  BY <1>4, <2>1, <2>3 DEF v, w
<1>8. CASE m \in {"cpu_overcommit", "memory_overcommit"}
  <2> DEFINE a == IF m = "cpu_overcommit" THEN Allocated("vcpus_allocated", "vcpus", h)
                  ELSE Allocated("memory_allocated", "memory", h)
             w == IF m = "cpu_overcommit" THEN cores ELSE mem
  <2>1. a \in Number /\ a' \in Number /\ Less(a, a')
    <3>1. a \in Nat /\ a' \in Nat /\ a' <= a
      BY AllocatedNeverMore
    <3> HIDE DEF a
    <3> QED  BY <3>1, NotNumbers DEF Number, Less
  <2>2. w \in Number /\ w' \in Number /\ More(w, w')
    BY <1>1, <1>2, <1>3 DEF HostNumbers
  <2>3. HostMetrics(h)[m] = Per(a, w) /\ HostMetrics(h)[m]' = Per(a', w')
    BY <1>8 DEF HostMetrics, Per, Truthy
  <2> HIDE DEF a, w
  <2> QED  BY <1>4, <2>1, <2>2, <2>3, PerNeverRaised
<1>9. CASE m = "zip_swap"
  <2> DEFINE c == stat("compressed", h)
             o == stat("swapout", h)
             v == IF NoData \in {c, o} THEN NoData ELSE c + o
  <2>1. v \in Number /\ v' \in Number /\ Less(v, v')
    <3>1. c \in Number /\ o \in Number /\ c' \in {c, NoData} /\ o' \in {o, NoData}
      BY <1>1 DEF HostNumbers
    <3>2. c' \in Number /\ o' \in Number
      BY <3>1 DEF Number
    <3> HIDE DEF c, o
    <3>3. v \in Number /\ v' \in Number
      <4>1. \A x, y \in Number : NoData \in {x, y} \/ x + y \in Nat
        BY DEF Number
      <4> QED  BY <3>1, <3>2, <4>1 DEF Number
    <3>4. v' = v \/ v' = NoData
      BY <3>1
    <3> HIDE DEF v
    <3> QED  BY <3>3, <3>4 DEF Less, Number
  <2>2. HostMetrics(h)[m] = Pct(v, mem) /\ HostMetrics(h)[m]' = Pct(v', mem')
    BY <1>9 DEF HostMetrics, host_zip_swap_pct, Pct, Per, Truthy
  <2> HIDE DEF v
  <2> QED  BY <1>2, <1>4, <2>1, <2>2, PerNeverRaised
<1>10. CASE m = "imbalance"
  <2>1. /\ HostMetrics(h)[m] = host_cpu_imbalance_ratio(h)
        /\ HostMetrics(h)[m]' = host_cpu_imbalance_ratio(h)'
    BY <1>10 DEF HostMetrics
  <2> QED  BY <2>1, ImbalanceNeverRaised
<1>11. CASE m \in {"cpu_monster", "memory_monster"}
  BY <1>11, MonstersNeverRaised
<1>12. m \in {"thread_utilization", "contention", "ballooned", "cpu_reservation", "cpu_overcommit",
              "memory_overcommit", "cpu_monster", "memory_monster", "zip_swap", "imbalance"}
  BY DEF HostMetrics
<1> QED  BY <1>5, <1>6, <1>7, <1>8, <1>9, <1>10, <1>11, <1>12

\* What is no higher than a metric is one.
LEMMA NoHigherIsMetric ==
    ASSUME NEW before \in Metric, NEW after, NoHigher(before, after)
    PROVE  after \in Metric
BY DEF NoHigher, Metric

--------------------------------------------------------------------------------
\* The invariant: the records are those of the values that are left.
RecordsInv ==
    /\ setting \in Settings
    /\ DOMAIN values = DOMAIN Stored
    /\ \A r \in DOMAIN Stored : DOMAIN values[r] = DOMAIN Stored[r]
    /\ StoredOrLost
    /\ host_records = [h \in Host |-> HostMetrics(h)]
    /\ metric_values = ClusterMetrics(host_records)
SamplesInv == samples \in [Host -> [V -> Nat]]

\* The metrics of a host, and of the cluster, that are those of its samples.
LEMMA SampleMetrics ==
    /\ \A h \in Host : /\ HostMetrics(h).worst = WorstOf(samples[h])
                       /\ HostMetrics(h)'.worst = WorstOf(samples'[h])
                       /\ HostMetrics(h).p90 = P90Of(samples[h])
                       /\ HostMetrics(h)'.p90 = P90Of(samples'[h])
    /\ ClusterMetrics(host_records).worst = WorstOf(PoolOf(samples))
    /\ ClusterMetrics(host_records)'.worst = WorstOf(PoolOf(samples'))
    /\ ClusterMetrics(host_records).p90 = P90Of(PoolOf(samples))
    /\ ClusterMetrics(host_records)'.p90 = P90Of(PoolOf(samples'))
    /\ cluster_vm_samples = PoolOf(samples) /\ cluster_vm_samples' = PoolOf(samples')
<1>1. cluster_vm_samples = PoolOf(samples) /\ cluster_vm_samples' = PoolOf(samples')
  BY DEF cluster_vm_samples, PoolOf, V, MapThenSumSet, MapThenFoldSet
<1>2. ASSUME NEW h \in Host
      PROVE  /\ HostMetrics(h).worst = WorstOf(samples[h]) /\ HostMetrics(h).p90 = P90Of(samples[h])
             /\ HostMetrics(h)'.worst = WorstOf(samples'[h]) /\ HostMetrics(h)'.p90 = P90Of(samples'[h])
  BY DEF HostMetrics
<1>3. /\ ClusterMetrics(host_records).worst = WorstOf(PoolOf(samples))
      /\ ClusterMetrics(host_records).p90 = P90Of(PoolOf(samples))
  BY <1>1 DEF ClusterMetrics
<1>4. /\ ClusterMetrics(host_records)'.worst = WorstOf(PoolOf(samples'))
      /\ ClusterMetrics(host_records)'.p90 = P90Of(PoolOf(samples'))
  BY <1>1 DEF ClusterMetrics
<1> QED  BY <1>1, <1>2, <1>3, <1>4

\* The metrics depend on the values, the samples and the settings only.
LEMMA MetricsOfTheSame ==
    ASSUME UNCHANGED <<setting, values, samples>>
    PROVE  /\ \A h \in Host : HostMetrics(h)' = HostMetrics(h)
           /\ host_records' = host_records => ClusterMetrics(host_records)' = ClusterMetrics(host_records)
<1>1. cluster_vm_samples' = cluster_vm_samples
  BY SampleMetrics
<1>2. ASSUME NEW h \in Host  PROVE HostMetrics(h)' = HostMetrics(h)
  BY DEF HostMetrics, stat, host_memory_capacity, Allocated, Sum, Known, Sizes, cpu_monster_size,
         memory_monster, cpu_pct, memory_pct, memory_cap, _number_setting, host_zip_swap_pct,
         host_cpu_imbalance_ratio, MapThenSumSet, MapThenFoldSet
<1>3. ASSUME host_records' = host_records
      PROVE  ClusterMetrics(host_records)' = ClusterMetrics(host_records)
  BY <1>1, <1>3 DEF ClusterMetrics, Highest, _highest_host_stat, _highest_host_ballooned_pct,
                   _network_throughput_pct, _vmotion_pct, stat, host_memory_capacity
<1> QED  BY <1>2, <1>3

\* What a step leaves of the samples.
FewerSamples == \A h \in Host, v \in V : samples'[h][v] <= samples[h][v]

\* The invariant holds at first, and every step keeps it and only loses values.
LEMMA RecordsInvInductive ==
    /\ Init => RecordsInv /\ SamplesInv
    /\ RecordsInv /\ SamplesInv /\ [Next]_vars =>
           (RecordsInv /\ SamplesInv)' /\ Fewer /\ FewerSamples
<1>1. ASSUME Init  PROVE RecordsInv /\ SamplesInv
  BY <1>1, MetricsAssumption DEF Init, RecordsInv, SamplesInv, StoredOrLost, V
<1>2. ASSUME RecordsInv, SamplesInv, [Next]_vars
      PROVE  (RecordsInv /\ SamplesInv)' /\ Fewer /\ FewerSamples
  <2>0. \A h \in Host, v \in V : samples[h][v] \in Nat
    BY <1>2 DEF SamplesInv
  <2>1. CASE Lose
    <3>1. PICK r \in DOMAIN Stored : \E key \in DOMAIN values[r] :
              values' = [values EXCEPT ![r][key] = NoData]
      BY <2>1 DEF Lose
    <3>2. /\ setting' = setting /\ samples' = samples
          /\ host_records' = [h \in Host |-> HostMetrics(h)']
          /\ metric_values' = ClusterMetrics(host_records)'
      BY <2>1 DEF Lose
    <3>3. /\ DOMAIN values' = DOMAIN Stored
          /\ \A q \in DOMAIN Stored : DOMAIN values'[q] = DOMAIN Stored[q]
          /\ \A q \in DOMAIN Stored : \A k \in DOMAIN Stored[q] :
                 values'[q][k] \in {values[q][k], NoData}
      BY <1>2, <3>1 DEF RecordsInv
    <3>4. StoredOrLost' /\ Fewer
      BY <1>2, <3>2, <3>3 DEF RecordsInv, StoredOrLost, Fewer
    <3> QED  BY <1>2, <2>0, <3>2, <3>3, <3>4 DEF RecordsInv, SamplesInv, FewerSamples
  <2>2. CASE LoseSample
    <3>1. /\ UNCHANGED <<setting, values>>
          /\ host_records' = [h \in Host |-> HostMetrics(h)']
          /\ metric_values' = ClusterMetrics(host_records)'
      BY <2>2 DEF LoseSample
    <3>2. Fewer /\ RecordsInv'
      BY <1>2, <3>1 DEF RecordsInv, Fewer, StoredOrLost
    <3>3. PICK h \in Host, v \in V : /\ samples[h][v] > 0
                                    /\ samples' = [samples EXCEPT ![h][v] = @ - 1]
      BY <2>2 DEF LoseSample, V
    <3>4. SamplesInv'
      BY <1>2, <3>3 DEF SamplesInv
    <3>5. FewerSamples
      <4> SUFFICES ASSUME NEW g \in Host, NEW u \in V  PROVE samples'[g][u] <= samples[g][u]
        BY DEF FewerSamples
      <4>1. samples'[g][u] \in {samples[g][u], samples[g][u] - 1}
        BY <1>2, <3>3 DEF SamplesInv
      <4> QED  BY <2>0, <4>1
    <3> QED  BY <3>2, <3>4, <3>5
  <2>3. CASE UNCHANGED vars
    <3>1. UNCHANGED <<setting, values, samples, host_records, metric_values>>
      BY <2>3 DEF vars
    <3>2. RecordsInv' /\ Fewer
      BY <1>2, <3>1, MetricsOfTheSame DEF RecordsInv, Fewer, StoredOrLost
    <3>3. SamplesInv' /\ FewerSamples
      BY <1>2, <2>0, <3>1 DEF SamplesInv, FewerSamples
    <3> QED  BY <3>2, <3>3
  <2> QED  BY <1>2, <2>1, <2>2, <2>3 DEF Next
<1> QED  BY <1>1, <1>2

\* So it always holds.
LEMMA RecordsInvHolds == Spec => [](RecordsInv /\ SamplesInv)
<1>1. Init => RecordsInv /\ SamplesInv
  BY RecordsInvInductive
<1>2. RecordsInv /\ SamplesInv /\ [Next]_vars => (RecordsInv /\ SamplesInv)'
  BY RecordsInvInductive
<1> QED  BY <1>1, <1>2, PTL DEF Spec

--------------------------------------------------------------------------------
\* The records of the hosts, metric by metric.
LEMMA HostsNotRaised ==
    ASSUME RecordsInv, RecordsInv', SamplesInv, SamplesInv', Fewer, FewerSamples
    PROVE  \A h \in Host : /\ \A m \in DOMAIN host_records[h] \ {"p90"} :
                                  /\ host_records[h][m] \in Metric /\ host_records'[h][m] \in Metric
                                  /\ NoHigher(host_records[h][m], host_records'[h][m])
                           /\ P90NotRaised(host_records[h].p90, host_records'[h].p90,
                                           samples[h], samples'[h])
<1> TAKE h \in Host
<1>1. host_records[h] = HostMetrics(h) /\ host_records'[h] = HostMetrics(h)'
  BY DEF RecordsInv
<1>2. ASSUME NEW m \in DOMAIN HostMetrics(h) \ {"worst", "p90"}
      PROVE  HostMetrics(h)[m] \in Metric /\ NoHigher(HostMetrics(h)[m], HostMetrics(h)[m]')
  BY HostNeverRaised DEF RecordsInv
<1>3. /\ samples[h] \in [V -> Nat] /\ samples'[h] \in [V -> Nat]
      /\ \A v \in V : samples'[h][v] <= samples[h][v]
  BY DEF SamplesInv, FewerSamples
<1>4. /\ WorstOf(samples[h]) \in Metric
      /\ NoHigher(WorstOf(samples[h]), WorstOf(samples'[h]))
      /\ P90NotRaised(P90Of(samples[h]), P90Of(samples'[h]), samples[h], samples'[h])
  BY <1>3, WorstNeverRaised, P90RaisedByLower DEF Metric
<1>5. /\ host_records[h].worst = WorstOf(samples[h]) /\ host_records'[h].worst = WorstOf(samples'[h])
      /\ host_records[h].p90 = P90Of(samples[h]) /\ host_records'[h].p90 = P90Of(samples'[h])
  BY <1>1, SampleMetrics
<1>6. ASSUME NEW m \in DOMAIN host_records[h] \ {"p90"}
      PROVE  host_records[h][m] \in Metric /\ NoHigher(host_records[h][m], host_records'[h][m])
  BY <1>1, <1>2, <1>4, <1>5
<1> QED  BY <1>4, <1>5, <1>6, NoHigherIsMetric

\* The record of the cluster, path by path through cluster.py.
LEMMA ClusterNotRaised ==
    ASSUME RecordsInv, RecordsInv', SamplesInv, SamplesInv', Fewer, FewerSamples
    PROVE  NotRaised(metric_values, metric_values', cluster_vm_samples, cluster_vm_samples')
<1> DEFINE pool == PoolOf(samples)
           left == PoolOf(samples')
<1>a. /\ pool \in [V -> Nat] /\ left \in [V -> Nat] /\ \A v \in V : left[v] <= pool[v]
      /\ cluster_vm_samples = pool /\ cluster_vm_samples' = left
  BY PoolFacts, PoolOfFewer, SampleMetrics DEF SamplesInv, FewerSamples
<1>b. /\ metric_values.worst = WorstOf(pool) /\ metric_values'.worst = WorstOf(left)
      /\ metric_values.p90 = P90Of(pool) /\ metric_values'.p90 = P90Of(left)
  BY SampleMetrics DEF RecordsInv
<1> HIDE DEF pool, left
<1>c. P90NotRaised(metric_values.p90, metric_values'.p90, pool, left)
  BY <1>a, <1>b, P90RaisedByLower
<1>1. SUFFICES ASSUME NEW m \in DOMAIN ClusterMetrics(host_records) \ {"p90"},
                      {metric_values[m], metric_values[m]'} \cap {NoData, NaN} = {}
               PROVE  AtMost(metric_values[m]', metric_values[m])
  BY <1>a, <1>c DEF NotRaised, P90NotRaised, RecordsInv
<1>2. /\ metric_values[m] = ClusterMetrics(host_records)[m]
      /\ metric_values[m]' = ClusterMetrics(host_records)[m]'
  BY DEF RecordsInv
<1>3. \A key \in ClusterNumbers : /\ stat(key, Cluster) \in Number
                                  /\ stat(key, Cluster)' \in {stat(key, Cluster), NoData}
  BY NumbersRead, FewerRead DEF RecordsInv
<1>4. \A h \in Host : /\ \A key \in HostNumbers : /\ stat(key, h) \in Number
                                                  /\ stat(key, h)' \in {stat(key, h), NoData}
                      /\ stat("linkspeed", h) \in Number \cup {Text}
                      /\ stat("linkspeed", h)' \in {stat("linkspeed", h), NoData}
  BY NumbersRead, FewerRead DEF RecordsInv
<1>5. ASSUME NEW before, NEW after, before \in Metric, NoHigher(before, after),
             metric_values[m] = before, metric_values[m]' = after
      PROVE  AtMost(metric_values[m]', metric_values[m])
  <2>1. after \in Metric
    BY <1>5, NoHigherIsMetric
  <2> QED  BY <1>1, <1>5, <2>1, NoHigherIsNotRaised
<1>6. ASSUME NEW before, NEW after,
             \A h \in Host : before[h] \in Metric /\ NoHigher(before[h], after[h]),
             metric_values[m] = Highest(before), metric_values[m]' = Highest(after)
      PROVE  AtMost(metric_values[m]', metric_values[m])
  <2>1. \A h \in Host : after[h] \in Metric
    BY <1>6, NoHigherIsMetric
  <2> QED  BY <1>1, <1>6, <2>1, HighestNeverRaised
<1>7. CASE m \in {"contention", "cpu_monster", "memory_monster", "zip_swap", "imbalance"}
  <2> DEFINE before == [h \in Host |-> host_records[h][m]]
             after == [h \in Host |-> host_records'[h][m]]
  <2>1. metric_values[m] = Highest(before) /\ metric_values[m]' = Highest(after)
    <3>1. metric_values[m] = Highest(before)
      BY <1>2, <1>7 DEF ClusterMetrics
    <3>2. metric_values[m]' = Highest(after)
      BY <1>2, <1>7 DEF ClusterMetrics
    <3> QED  BY <3>1, <3>2
  <2>2. \A h \in Host : m \in DOMAIN host_records[h] \ {"p90"}
    BY <1>7 DEF RecordsInv, HostMetrics
  <2>3. \A h \in Host : before[h] \in Metric /\ NoHigher(before[h], after[h])
    BY <2>2, HostsNotRaised
  <2> HIDE DEF before, after
  <2> QED  BY <1>6, <2>1, <2>3
<1>8. CASE m = "thread_utilization"
  <2> DEFINE before == [h \in Host |-> AsIs(stat("threads", h))]
             after == [h \in Host |-> AsIs(stat("threads", h)')]
  <2>1. metric_values[m] = Highest(before) /\ metric_values[m]' = Highest(after)
    <3>1. metric_values[m] = Highest(before)
      BY <1>2, <1>8 DEF ClusterMetrics, _highest_host_stat, AsIs
    <3>2. metric_values[m]' = Highest(after)
      BY <1>2, <1>8 DEF ClusterMetrics, _highest_host_stat, AsIs
    <3> QED  BY <3>1, <3>2
  <2>2. \A h \in Host : before[h] \in Metric /\ NoHigher(before[h], after[h])
    <3> TAKE h \in Host
    <3>1. stat("threads", h) \in Number /\ stat("threads", h)' \in {stat("threads", h), NoData}
      BY <1>4 DEF HostNumbers
    <3> QED  BY <3>1, AsIsNeverRaised DEF Metric
  <2> HIDE DEF before, after
  <2> QED  BY <1>6, <2>1, <2>2
<1>9. CASE m = "ballooned"
  <2> DEFINE before == [h \in Host |-> Pct(stat("balloon", h), host_memory_capacity(h))]
             after == [h \in Host |-> Pct(stat("balloon", h)', host_memory_capacity(h)')]
  <2>1. metric_values[m] = Highest(before) /\ metric_values[m]' = Highest(after)
    <3>1. metric_values[m] = Highest(before)
      BY <1>2, <1>9 DEF ClusterMetrics, _highest_host_ballooned_pct, Pct, Per, Truthy
    <3>2. metric_values[m]' = Highest(after)
      BY <1>2, <1>9 DEF ClusterMetrics, _highest_host_ballooned_pct, Pct, Per, Truthy
    <3> QED  BY <3>1, <3>2
  <2>2. \A h \in Host : before[h] \in Metric /\ NoHigher(before[h], after[h])
    <3> TAKE h \in Host
    <3> DEFINE v == stat("balloon", h)
               w == host_memory_capacity(h)
    <3>1. v \in Number /\ v' \in {v, NoData}
      BY <1>4 DEF HostNumbers
    <3>2. w \in Number /\ w' \in Number /\ More(w, w')
      BY CapacityKept DEF RecordsInv
    <3> HIDE DEF v, w
    <3>3. v' \in Number /\ Less(v, v')
      BY <3>1 DEF Number, Less
    <3>4. Pct(v, w) \in Proper \cup {NoData} /\ NoHigher(Pct(v, w), Pct(v', w'))
      BY <3>1, <3>2, <3>3, PerNeverRaised
    <3> QED  BY <3>4 DEF Metric, v, w
  <2> HIDE DEF before, after
  <2> QED  BY <1>6, <2>1, <2>2
<1>10. CASE m = "network"
  <2> DEFINE pct(use, link) ==
                 LET speed == IF link = Text THEN NoData ELSE link
                 IN  IF use = NoData \/ ~Truthy(speed) THEN NoData ELSE Ratio(8 * use, 10 * speed)
             before == [h \in Host |-> pct(stat("network", h), stat("linkspeed", h))]
             after == [h \in Host |-> pct(stat("network", h)', stat("linkspeed", h)')]
  <2>1. metric_values[m] = Highest(before) /\ metric_values[m]' = Highest(after)
    <3>1. metric_values[m] = Highest(before)
      BY <1>2, <1>10 DEF ClusterMetrics, _network_throughput_pct, Truthy, Ratio
    <3>2. metric_values[m]' = Highest(after)
      BY <1>2, <1>10 DEF ClusterMetrics, _network_throughput_pct, Truthy, Ratio
    <3> QED  BY <3>1, <3>2
  <2>2. \A h \in Host : before[h] \in Metric /\ NoHigher(before[h], after[h])
    <3> TAKE h \in Host
    <3> DEFINE u == stat("network", h)
               l == stat("linkspeed", h)
    <3>1. u \in Number /\ u' \in {u, NoData} /\ l \in Number \cup {Text} /\ l' \in {l, NoData}
      BY <1>4 DEF HostNumbers
    <3> SUFFICES pct(u, l) \in Metric /\ NoHigher(pct(u, l), pct(u', l'))
      OBVIOUS
    <3> HIDE DEF u, l
    <3>2. pct(u, l) \in Metric
      <4>1. \A x \in Nat, y \in Nat \ {0} : <<8 * x, 10 * y>> \in Metric
        BY DEF Metric, Proper
      <4>2. NoData \in Metric
        BY DEF Metric
      <4> QED  BY <3>1, <4>1, <4>2 DEF Truthy, Ratio, Number
    <3>3. pct(u', l') = NoData \/ pct(u', l') = pct(u, l)
      BY <3>1 DEF Truthy
    <3> QED  BY <3>2, <3>3 DEF NoHigher
  <2> HIDE DEF before, after, pct
  <2> QED  BY <1>6, <2>1, <2>2
<1>11. CASE m = "vmotion"
  <2> DEFINE n == stat("vms_per_host", Cluster)
             e == stat("vmotions", Cluster)
             before == IF n = NoData THEN NoData ELSE Pct(e, n * Len(Hosts))
             after == IF n' = NoData THEN NoData ELSE Pct(e', n' * Len(Hosts))
  <2>1. metric_values[m] = before /\ metric_values[m]' = after
    BY <1>2, <1>11 DEF ClusterMetrics, _vmotion_pct, Pct, Per, Truthy
  <2>2. n \in Number /\ n' \in {n, NoData} /\ e \in Number /\ e' \in {e, NoData}
    BY <1>3 DEF ClusterNumbers
  <2> HIDE DEF n, e
  <2>3. before \in Metric /\ NoHigher(before, after)
    <3>1. CASE n = NoData
      BY <2>2, <3>1 DEF Metric, NoHigher
    <3>2. CASE n # NoData
      <4>1. n * Len(Hosts) \in Number
        <5>1. Len(Hosts) \in Nat /\ n \in Nat
          BY <2>2, <3>2, MetricsAssumption DEF Number
        <5> QED  BY <5>1 DEF Number
      <4>2. e' \in Number /\ Less(e, e') /\ More(n * Len(Hosts), n * Len(Hosts))
        BY <2>2, <4>1 DEF Number, Less, More, Truthy
      <4> DEFINE w == n * Len(Hosts)
      <4> HIDE DEF w
      <4>3. Pct(e, w) \in Proper \cup {NoData} /\ NoHigher(Pct(e, w), Pct(e', w))
        BY <2>2, <4>1, <4>2, PerNeverRaised DEF w
      <4>4. CASE n' = NoData
        BY <3>2, <4>3, <4>4 DEF NoHigher, Metric, w
      <4>5. CASE n' = n
        BY <3>2, <4>3, <4>5 DEF Metric, w
      <4> QED  BY <2>2, <4>4, <4>5
    <3> QED  BY <3>1, <3>2
  <2> HIDE DEF before, after
  <2> QED  BY <1>5, <2>1, <2>3
<1>12. CASE m = "overcommit"
  <2> DEFINE v == stat("overcommit", Cluster)
  <2>1. metric_values[m] = AsIs(v) /\ metric_values[m]' = AsIs(v')
    BY <1>2, <1>12 DEF ClusterMetrics, AsIs
  <2>2. v \in Number /\ v' \in {v, NoData}
    BY <1>3 DEF ClusterNumbers
  <2> HIDE DEF v
  <2>3. AsIs(v) \in Metric /\ NoHigher(AsIs(v), AsIs(v'))
    BY <2>2, AsIsNeverRaised DEF Metric
  <2> QED  BY <1>5, <2>1, <2>3
<1>13. CASE m = "cpu_imbalance"
  <2> DEFINE v == stat("total_imbalance", Cluster)
  <2>1. metric_values[m] = Per(v, 1000) /\ metric_values[m]' = Per(v', 1000)
    BY <1>2, <1>13 DEF ClusterMetrics, Per, Truthy
  <2>2. v \in Number /\ v' \in {v, NoData}
    BY <1>3 DEF ClusterNumbers
  <2> HIDE DEF v
  <2>3. v' \in Number /\ Less(v, v') /\ 1000 \in Number /\ More(1000, 1000)
    BY <2>2 DEF Number, Less, More
  <2>4. Per(v, 1000) \in Metric /\ NoHigher(Per(v, 1000), Per(v', 1000))
    BY <2>2, <2>3, PerNeverRaised DEF Metric
  <2> QED  BY <1>5, <2>1, <2>4
<1>14. CASE m = "worst"
  <2>1. WorstOf(pool) \in Metric /\ NoHigher(WorstOf(pool), WorstOf(left))
    BY <1>a, WorstNeverRaised DEF Metric
  <2> QED  BY <1>5, <1>b, <1>14, <2>1
<1>15. m \in {"thread_utilization", "ballooned", "network", "vmotion", "overcommit", "cpu_imbalance",
              "contention", "cpu_monster", "memory_monster", "zip_swap", "imbalance", "worst"}
  BY DEF ClusterMetrics
<1> QED  BY <1>7, <1>8, <1>9, <1>10, <1>11, <1>12, <1>13, <1>14, <1>15

(* However many values go missing, and whatever is used in their place, no *)
(* metric is higher for it, but for a 90th percentile without a sample at  *)
(* or below it: of any hosts, VMs, samples, stored values and settings.    *)
THEOREM LosingNeverRaisesAlways == Spec => LosingNeverRaises
<1> DEFINE Step ==
        [/\ \A h \in Host : NotRaised(host_records[h], host_records'[h], samples[h], samples'[h])
         /\ NotRaised(metric_values, metric_values', cluster_vm_samples, cluster_vm_samples')]_vars
<1>1. RecordsInv /\ SamplesInv /\ [Next]_vars => Step
  <2> SUFFICES ASSUME RecordsInv, SamplesInv, [Next]_vars
               PROVE  /\ \A h \in Host : NotRaised(host_records[h], host_records'[h], samples[h], samples'[h])
                      /\ NotRaised(metric_values, metric_values', cluster_vm_samples, cluster_vm_samples')
    OBVIOUS
  <2>1. RecordsInv' /\ SamplesInv' /\ Fewer /\ FewerSamples
    BY RecordsInvInductive
  <2>2. ASSUME NEW h \in Host
        PROVE  NotRaised(host_records[h], host_records'[h], samples[h], samples'[h])
    <3>1. ASSUME NEW m \in DOMAIN host_records[h] \ {"p90"},
                 {host_records[h][m], host_records'[h][m]} \cap {NoData, NaN} = {}
          PROVE  AtMost(host_records'[h][m], host_records[h][m])
      BY <2>1, <3>1, HostsNotRaised, NoHigherIsNotRaised
    <3>2. P90NotRaised(host_records[h].p90, host_records'[h].p90, samples[h], samples'[h])
      BY <2>1, HostsNotRaised
    <3> QED  BY <3>1, <3>2 DEF NotRaised, P90NotRaised
  <2>3. NotRaised(metric_values, metric_values', cluster_vm_samples, cluster_vm_samples')
    BY <2>1, ClusterNotRaised
  <2> QED  BY <2>2, <2>3
<1> QED  BY <1>1, RecordsInvHolds, PTL DEF Spec, LosingNeverRaises

--------------------------------------------------------------------------------
(* The cluster's metrics that cluster.py takes of the hosts are those of   *)
(* its worst host: of no host is the metric NaN, so max() passes over none.*)
THEOREM ClusterIsItsWorstHostAlways == Spec => []ClusterIsItsWorstHost
<1>1. RecordsInv => ClusterIsItsWorstHost
  <2> SUFFICES ASSUME RecordsInv, NEW m \in {"thread_utilization", "ballooned"}
               PROVE  Same(metric_values[m], _worst({host_records[h][m] : h \in Host}))
    BY DEF ClusterIsItsWorstHost
  <2> DEFINE ratio == [h \in Host |-> IF m = "ballooned"
                                      THEN Pct(stat("balloon", h), host_memory_capacity(h))
                                      ELSE AsIs(stat("threads", h))]
  <2>1. metric_values[m] = Highest(ratio)
    BY DEF RecordsInv, ClusterMetrics, _highest_host_ballooned_pct, _highest_host_stat
  <2>2. \A h \in Host : host_records[h][m] = ratio[h]
    BY DEF RecordsInv, HostMetrics
  <2>3. \A h \in Host : ratio[h] \in Proper \cup {NoData}
    <3> TAKE h \in Host
    <3>1. /\ stat("balloon", h) \in Number /\ stat("threads", h) \in Number
          /\ stat("dram", h) \in Number /\ stat("provisioned", h) \in Number
      BY NumbersRead DEF RecordsInv, HostNumbers
    <3>2. host_memory_capacity(h) \in Number
      BY <3>1 DEF host_memory_capacity
    <3>3. ASSUME NEW v \in Number, NEW w \in Number
          PROVE  Pct(v, w) \in Proper \cup {NoData} /\ AsIs(v) \in Proper \cup {NoData}
      <4>1. NoData \in Number
        BY DEF Number
      <4>2. Less(v, v) /\ More(w, w)
        BY DEF Less, More, Number, Truthy
      <4> QED  BY <4>2, PerNeverRaised, AsIsNeverRaised
    <3> QED  BY <3>1, <3>2, <3>3
  <2>4. {host_records[h][m] : h \in Host} = {ratio[h] : h \in Host}
    BY <2>2
  <2> HIDE DEF ratio
  <2> QED  BY <2>1, <2>3, <2>4, HighestIsWorst
<1> QED  BY <1>1, RecordsInvHolds, PTL

\* What VmAsBigAsHostIsMonster says of one VM and one of the two metrics.
MonsterMetric(key, whole, pct, m, h, v) ==
    LET ratio == host_records[h][m]
    IN  /\ \/ ratio = NaN /\ pct = NaN
           \/ pct # NaN /\ AtMost(ratio, metric_values[m])
        /\ \/ ratio = NaN
           \/ ~AtMost(ratio, One)
           \/ pct = 100 /\ stat(key, v) = whole /\ AtMost(One, ratio)
Monster(key, whole, pct, m, h, v) ==
    Truthy(whole) /\ stat(key, v) # NoData /\ stat(key, v) >= whole =>
        MonsterMetric(key, whole, pct, m, h, v)

\* It is a metric, and NaN only of a size that is.
LEMMA MonsterRatioKind ==
    ASSUME NEW sizes \in SUBSET Nat, IsFiniteSet(sizes), NEW size \in Nat \cup {NaN}, NEW count,
           count = 0 => sizes = {}
    PROVE  /\ MonsterRatio(sizes, size, count) \in Metric
           /\ MonsterRatio(sizes, size, count) = NaN => size = NaN
<1>1. sizes # {} => Max(sizes) \in Nat
  <2>1. sizes \in SUBSET Int
    OBVIOUS
  <2> QED  BY <2>1, MaxFacts
<1> QED  BY <1>1, NotNumbers, MonsterRatioValue DEF Metric, Proper, Zero

(* Of a host with a VM as big as the host the monster metric is over the    *)
(* green limit or NaN, or, at 100 percent, at the limit with a VM exactly   *)
(* as big: the percentage is at most 100, and the cap only lowers it.  The  *)
(* cluster's metric is no lower, as no host's is NaN to be passed over.     *)
THEOREM VmAsBigAsHostIsMonsterAlways == Spec => []VmAsBigAsHostIsMonster
<1>1. ASSUME RecordsInv, NEW h \in Host, NEW v \in VmsOf[h], NEW key \in VmNumbers,
             NEW whole \in Number, Truthy(whole), stat(key, v) # NoData, stat(key, v) >= whole,
             NEW pct \in (1..100) \cup {NaN}, NEW size,
             size = NaN <=> pct = NaN,
             pct # NaN => size \in Nat /\ 1 <= size /\ size <= whole * pct,
             NEW ratio, ratio = MonsterRatio(Sizes(key, h), size, Cardinality(VmsOf[h]))
      PROVE  /\ ratio = NaN <=> pct = NaN
             /\ ratio # NaN => ratio \in Proper
             /\ \/ ratio = NaN
                \/ ~AtMost(ratio, One)
                \/ pct = 100 /\ stat(key, v) = whole /\ AtMost(One, ratio)
  <2> DEFINE sizes == Sizes(key, h)
             b == Max(sizes)
             n == stat(key, v)
  <2>1. n \in sizes
    BY <1>1 DEF Sizes, Known
  <2>2. sizes \in SUBSET Int /\ IsFiniteSet(sizes) /\ sizes \in SUBSET Nat
    BY <1>1, SizesFacts DEF RecordsInv
  <2>3. b \in Nat /\ n \in Nat /\ n <= b
    <3> HIDE DEF sizes, n
    <3> QED  BY <2>1, <2>2, MaxFacts
  <2>4. CASE pct = NaN
    BY <1>1, <2>1, <2>4, MonsterRatioValue
  <2>5. CASE pct # NaN
    <3>1. ratio = <<100 * b, size>>
      BY <1>1, <2>1, <2>5, NotNumbers, MonsterRatioValue
    <3>2. whole \in Nat \ {0} /\ pct \in 1..100 /\ size \in Nat \ {0} /\ size <= whole * pct /\ n >= whole
      BY <1>1, <2>5 DEF Number, Truthy
    <3>3. whole * pct \in Nat /\ whole * pct <= whole * 100
      BY <3>2, ProductGrows
    <3> DEFINE wp == whole * pct
    <3>4. pct # 100 => wp < 100 * whole
      <4>1. pct # 100 => pct <= 99 /\ pct \in Nat
        BY <3>2
      <4>2. pct # 100 => whole * pct <= whole * 99
        BY <3>2, <4>1, ProductGrows
      <4> QED  BY <3>2, <3>3, <4>2
    <3>5. wp \in Nat /\ size <= wp /\ wp <= 100 * whole
      BY <3>2, <3>3
    <3> HIDE DEF b, n, wp
    <3>6. ratio \in Proper
      BY <2>3, <3>1, <3>2 DEF Proper
    <3>7. CASE size < 100 * b
      BY <2>3, <3>1, <3>2, <3>6, <3>7, <2>5, NotNumbers DEF AtMost, One
    <3>8. CASE ~(size < 100 * b)
      <4>1. pct = 100 /\ n = whole /\ size <= 100 * b
        BY <2>3, <3>2, <3>4, <3>5, <3>8
      <4> QED  BY <2>3, <2>5, <3>1, <3>2, <3>6, <4>1, NotNumbers DEF AtMost, One, n
    <3> QED  BY <3>7, <3>8
  <2> QED  BY <2>4, <2>5
<1>2. ASSUME NEW pct \in 1..100, NEW cap \in (Nat \ {0}) \cup {NaN}, NEW whole \in Nat \ {0}
      PROVE  /\ whole * pct \in Nat /\ 1 <= whole * pct
             /\ MemorySize(pct, cap, whole) \in Nat /\ 1 <= MemorySize(pct, cap, whole)
             /\ MemorySize(pct, cap, whole) <= whole * pct
  <2>1. whole * pct \in Nat /\ 1 * 1 <= whole * pct
    BY ProductGrows
  <2>2. /\ pct # NaN /\ Truthy(whole)
    BY NotNumbers DEF Truthy
  <2> DEFINE n == whole * pct
  <2>3. MemorySize(pct, cap, whole) = IF cap # NaN /\ 100 * cap < n THEN 100 * cap ELSE n
    BY <2>2 DEF MemorySize
  <2>4. n \in Nat /\ 1 <= n
    BY <2>1
  <2> HIDE DEF n
  <2>5. cap # NaN => 100 * cap \in Nat /\ 1 <= 100 * cap
    OBVIOUS
  <2> QED  BY <2>3, <2>4, <2>5 DEF n
<1>3. ASSUME RecordsInv, NEW m \in {"cpu_monster", "memory_monster"}, NEW h \in Host,
             \A g \in Host : host_records[g][m] \in Proper \cup {NoData}, host_records[h][m] # NoData
      PROVE  AtMost(host_records[h][m], metric_values[m])
  <2> DEFINE ratio == [g \in Host |-> host_records[g][m]]
  <2>1. metric_values[m] = Highest(ratio)
    BY <1>3 DEF RecordsInv, ClusterMetrics
  <2>2. \A g \in Host : ratio[g] \in Metric /\ ratio[g] # NaN /\ ratio[g] = host_records[g][m]
    BY <1>3, NotNumbers DEF Metric
  <2> HIDE DEF ratio
  <2>3. ratio[h] \in {ratio[g] : g \in Host} \ {NoData, NaN}
    BY <1>3, <2>2
  <2> QED  BY <2>1, <2>2, <2>3, HighestFacts
<1>4. ASSUME RecordsInv, NEW h \in Host, NEW m \in {"cpu_monster", "memory_monster"}
      PROVE  /\ host_records[h][m] \in Metric
             /\ host_records[h][m] = NaN =>
                    (IF m = "cpu_monster" THEN cpu_pct ELSE memory_pct) = NaN
  <2>1. /\ cpu_pct \in (1..100) \cup {NaN} /\ memory_pct \in (1..100) \cup {NaN}
        /\ memory_cap \in (Nat \ {0}) \cup {NaN}
    BY <1>4, SettingFacts DEF RecordsInv
  <2>2. /\ stat("cores", h) \in Number /\ host_memory_capacity(h) \in Number
        /\ \A key \in VmNumbers : /\ Sizes(key, h) \in SUBSET Nat /\ IsFiniteSet(Sizes(key, h))
                                  /\ Cardinality(VmsOf[h]) = 0 => Sizes(key, h) = {}
    BY <1>4, NumbersRead, SizesFacts DEF RecordsInv, HostNumbers, host_memory_capacity
  <2> DEFINE size == IF m = "cpu_monster" THEN CpuSize(cpu_pct, stat("cores", h))
                     ELSE MemorySize(memory_pct, memory_cap, host_memory_capacity(h))
             key == IF m = "cpu_monster" THEN "vcpus" ELSE "memory"
  <2>3. size \in Nat \cup {NaN} /\ (size = NaN => (IF m = "cpu_monster" THEN cpu_pct ELSE memory_pct) = NaN)
    <3>1. ASSUME NEW pct \in (1..100) \cup {NaN}, NEW c \in Number
          PROVE  /\ CpuSize(pct, c) \in Nat \cup {NaN} /\ (CpuSize(pct, c) = NaN => pct = NaN)
                 /\ \A cap \in (Nat \ {0}) \cup {NaN} :
                        /\ MemorySize(pct, cap, c) \in Nat \cup {NaN}
                        /\ MemorySize(pct, cap, c) = NaN => pct = NaN
      <4>1. CASE ~Truthy(c)
        BY <4>1, NotNumbers DEF CpuSize, MemorySize
      <4>2. CASE Truthy(c) /\ pct = NaN
        BY <4>2 DEF CpuSize, MemorySize
      <4>3. CASE Truthy(c) /\ pct # NaN
        <5>1. pct \in 1..100 /\ c \in Nat \ {0}
          BY <4>3 DEF Truthy, Number
        <5>2. CpuSize(pct, c) = c * pct
          BY <4>3 DEF CpuSize
        <5>3. /\ c * pct \in Nat
              /\ \A cap \in (Nat \ {0}) \cup {NaN} : MemorySize(pct, cap, c) \in Nat
          BY <1>2, <5>1
        <5> QED  BY <5>2, <5>3, NotNumbers
      <4> QED  BY <4>1, <4>2, <4>3
    <3> QED  BY <2>1, <2>2, <3>1
  <2>4. host_records[h][m] = MonsterRatio(Sizes(key, h), size, Cardinality(VmsOf[h]))
    BY <1>4 DEF RecordsInv, HostMetrics, CpuSize, MemorySize, cpu_monster_size, memory_monster
  <2>5. key \in VmNumbers
    BY DEF VmNumbers
  <2> HIDE DEF size, key
  <2>6. /\ MonsterRatio(Sizes(key, h), size, Cardinality(VmsOf[h])) \in Metric
        /\ MonsterRatio(Sizes(key, h), size, Cardinality(VmsOf[h])) = NaN => size = NaN
    BY <2>2, <2>3, <2>5, MonsterRatioKind
  <2> QED  BY <2>3, <2>4, <2>6
<1>5. RecordsInv => VmAsBigAsHostIsMonster
  <2> SUFFICES ASSUME RecordsInv, NEW h \in Host, NEW v \in VmsOf[h]
               PROVE  /\ Monster("vcpus", stat("cores", h), cpu_pct, "cpu_monster", h, v)
                      /\ Monster("memory", host_memory_capacity(h), memory_pct, "memory_monster", h, v)
    BY DEF VmAsBigAsHostIsMonster, Monster, MonsterMetric
  <2>1. /\ cpu_pct \in (1..100) \cup {NaN} /\ memory_pct \in (1..100) \cup {NaN}
        /\ memory_cap \in (Nat \ {0}) \cup {NaN}
    BY SettingFacts DEF RecordsInv
  <2>2. stat("cores", h) \in Number /\ host_memory_capacity(h) \in Number
    BY NumbersRead DEF RecordsInv, HostNumbers, host_memory_capacity
  <2>3. ASSUME NEW m \in {"cpu_monster", "memory_monster"},
               NEW pct, pct = (IF m = "cpu_monster" THEN cpu_pct ELSE memory_pct),
               host_records[h][m] = NaN <=> pct = NaN,
               host_records[h][m] # NaN => host_records[h][m] \in Proper
        PROVE  \/ host_records[h][m] = NaN /\ pct = NaN
               \/ pct # NaN /\ AtMost(host_records[h][m], metric_values[m])
    <3>1. CASE pct = NaN
      BY <2>3, <3>1
    <3>2. CASE pct # NaN
      <4>1. \A g \in Host : host_records[g][m] \in Metric /\ host_records[g][m] # NaN
        BY <1>4, <2>3, <3>2
      <4>2. \A g \in Host : host_records[g][m] \in Proper \cup {NoData}
        BY <4>1 DEF Metric
      <4>3. host_records[h][m] # NoData
        BY <2>3, <3>2, NotNumbers
      <4> QED  BY <1>3, <3>2, <4>2, <4>3
    <3> QED  BY <3>1, <3>2
  <2>4. Monster("vcpus", stat("cores", h), cpu_pct, "cpu_monster", h, v)
    <3> DEFINE c == stat("cores", h)
               size == CpuSize(cpu_pct, c)
    <3> SUFFICES ASSUME Truthy(c), stat("vcpus", v) # NoData, stat("vcpus", v) >= c
                 PROVE  MonsterMetric("vcpus", c, cpu_pct, "cpu_monster", h, v)
      BY DEF Monster
    <3>1. host_records[h].cpu_monster = MonsterRatio(Sizes("vcpus", h), size, Cardinality(VmsOf[h]))
      BY DEF RecordsInv, HostMetrics, CpuSize, cpu_monster_size
    <3>2. c \in Nat \ {0}
      BY <2>2 DEF Truthy, Number
    <3>3. size = IF cpu_pct = NaN THEN NaN ELSE c * cpu_pct
      BY DEF CpuSize
    <3> HIDE DEF size, c
    <3>4. /\ size = NaN <=> cpu_pct = NaN
          /\ cpu_pct # NaN => size \in Nat /\ 1 <= size /\ size <= c * cpu_pct
      BY <1>2, <2>1, <3>2, <3>3, NotNumbers
    <3> DEFINE r == host_records[h].cpu_monster
    <3>5. /\ r = NaN <=> cpu_pct = NaN
          /\ r # NaN => r \in Proper
          /\ \/ r = NaN
             \/ ~AtMost(r, One)
             \/ cpu_pct = 100 /\ stat("vcpus", v) = c /\ AtMost(One, r)
      BY <1>1, <2>1, <2>2, <3>1, <3>4 DEF c, VmNumbers
    <3> QED  BY <2>3, <3>5 DEF MonsterMetric
  <2>5. Monster("memory", host_memory_capacity(h), memory_pct, "memory_monster", h, v)
    <3> DEFINE c == host_memory_capacity(h)
               size == MemorySize(memory_pct, memory_cap, c)
    <3> SUFFICES ASSUME Truthy(c), stat("memory", v) # NoData, stat("memory", v) >= c
                 PROVE  MonsterMetric("memory", c, memory_pct, "memory_monster", h, v)
      BY DEF Monster
    <3>1. host_records[h].memory_monster = MonsterRatio(Sizes("memory", h), size, Cardinality(VmsOf[h]))
      BY DEF RecordsInv, HostMetrics, MemorySize, memory_monster
    <3>2. c \in Nat \ {0}
      BY <2>2 DEF Truthy, Number
    <3>3. memory_pct = NaN => size = NaN
      BY DEF MemorySize
    <3> HIDE DEF c
    <3>4. /\ size = NaN <=> memory_pct = NaN
          /\ memory_pct # NaN => size \in Nat /\ 1 <= size /\ size <= c * memory_pct
      BY <1>2, <2>1, <3>2, <3>3, NotNumbers
    <3> HIDE DEF size
    <3> DEFINE r == host_records[h].memory_monster
    <3>5. /\ r = NaN <=> memory_pct = NaN
          /\ r # NaN => r \in Proper
          /\ \/ r = NaN
             \/ ~AtMost(r, One)
             \/ memory_pct = 100 /\ stat("memory", v) = c /\ AtMost(One, r)
      BY <1>1, <2>1, <2>2, <3>1, <3>4 DEF c, VmNumbers
    <3> QED  BY <2>3, <3>5 DEF MonsterMetric
  <2> QED  BY <2>4, <2>5
<1> QED  BY <1>5, RecordsInvHolds, PTL

--------------------------------------------------------------------------------
(* The 90th percentile of the cluster's pooled samples lies between those   *)
(* of its hosts, and no percentile is above the worst sample.               *)
THEOREM PooledPercentileIsBetweenAlways == Spec => []PooledPercentileIsBetween
<1>1. SamplesInv => PooledPercentileIsBetween
  <2> DEFINE pool == cluster_vm_samples
             sampled == {h \in Host : Size(samples[h]) > 0}
             p90s == {_percentile(samples[h]) : h \in sampled}
             p == _percentile(pool)
             lo == Min(p90s)
             hi == Max(p90s)
             below(v) == [h \in Host |-> 10 * Below(samples[h], v)]
             all == [h \in Host |-> 9 * All(samples[h])]
  <2> SUFFICES ASSUME SamplesInv, sampled # {}
               PROVE  p \in lo..hi /\ hi <= WorstSample(pool)
    BY DEF PooledPercentileIsBetween
  <2>1. \A h \in Host : samples[h] \in [V -> Nat]
    BY DEF SamplesInv, V
  <2>2. ASSUME NEW h \in Host, NEW v \in V
        PROVE  /\ Below(samples[h], v) \in Nat /\ All(samples[h]) \in Nat
               /\ Below(samples[h], v) <= All(samples[h])
    BY <2>1, BelowFacts
  <2>3. \A h \in Host : Size(samples[h]) = All(samples[h])
    BY <2>1 DEF Size, All, Total, MapThenSumSet, MapThenFoldSet
  <2>4. /\ pool \in [V -> Nat]
        /\ \A v \in V : \A h \in Host : samples[h][v] <= pool[v]
        /\ \A T \in SUBSET V : Total(pool, T) = Total([h \in Host |-> Total(samples[h], T)], Host)
    BY PoolFacts, SampleMetrics DEF SamplesInv
  <2> HIDE DEF pool
  <2>5. ASSUME NEW h \in sampled
        PROVE  LET q == _percentile(samples[h])
               IN  /\ q \in V /\ samples[h][q] > 0
                   /\ \A v \in V : 10 * Below(samples[h], v) >= 9 * All(samples[h]) <=> q <= v
    <3>1. h \in Host /\ All(samples[h]) > 0
      BY <2>3
    <3> QED  BY <2>1, <3>1, PercentileFacts
  <2>6. p90s \in SUBSET V /\ p90s \in SUBSET Int /\ p90s # {} /\ IsFiniteSet(p90s)
    <3>1. p90s \in SUBSET V
      BY <2>5
    <3>2. p90s # {}
      OBVIOUS
    <3> HIDE DEF p90s
    <3>3. p90s \in SUBSET Int /\ IsFiniteSet(p90s)
      BY <3>1, ValuesFacts, FS_Subset
    <3> QED  BY <3>1, <3>2, <3>3
  <2>7. /\ lo \in p90s /\ hi \in p90s /\ lo \in V /\ hi \in V
        /\ \A x \in p90s : lo <= x /\ x <= hi
    <3> HIDE DEF p90s
    <3> QED  BY <2>6, MinFacts, MaxFacts
  <2> HIDE DEF lo, hi
  <2>8. ASSUME NEW v \in V
        PROVE  10 * Below(pool, v) = Total(below(v), Host) /\ 9 * All(pool) = Total(all, Host)
               /\ \A h \in Host : below(v)[h] \in Nat /\ all[h] \in Nat
    <3> DEFINE b == [h \in Host |-> Below(samples[h], v)]
               a == [h \in Host |-> All(samples[h])]
    <3>1. \A h \in Host : /\ b[h] \in Nat /\ below(v)[h] = 10 * b[h]
                          /\ a[h] \in Nat /\ all[h] = 9 * a[h]
      BY <2>2
    <3>2. Below(pool, v) = Total(b, Host) /\ All(pool) = Total(a, Host)
      BY <2>4, ValuesFacts DEF Below, All
    <3>3. IsFiniteSet(Host)
      BY ValuesFacts
    <3>4. \A h \in Host : below(v)[h] \in Nat /\ all[h] \in Nat
      BY <2>2
    <3> HIDE DEF b, a, below, all
    <3>5. Total(below(v), Host) = 10 * Total(b, Host) /\ Total(all, Host) = 9 * Total(a, Host)
      BY <3>1, <3>3, TotalTimes
    <3> QED  BY <3>2, <3>4, <3>5
  <2>9. ASSUME NEW h \in Host, h \notin sampled, NEW v \in V
        PROVE  below(v)[h] = all[h] /\ all[h] = 0
    <3>1. All(samples[h]) = 0 /\ Below(samples[h], v) = 0
      BY <2>2, <2>3, <2>9
    <3> QED  BY <3>1
  <2>10. All(pool) > 0
    <3>1. PICK h \in sampled : TRUE
      OBVIOUS
    <3>2. \A g \in Host : all[g] \in Nat
      BY <2>7, <2>8
    <3>3. all[h] > 0
      BY <2>2, <2>3, <2>7
    <3> HIDE DEF all
    <3>4. Total(all, Host) = all[h] + Total(all, Host \ {h}) /\ Total(all, Host \ {h}) \in Nat
      BY <3>2, ValuesFacts, TotalFacts
    <3>5. Total(all, Host) > 0
      BY <3>2, <3>3, <3>4
    <3>6. All(pool) \in Nat /\ 9 * All(pool) = Total(all, Host)
      BY <2>4, <2>7, <2>8, BelowFacts
    <3> QED  BY <3>5, <3>6
  <2>11. p \in V /\ \A v \in V : 10 * Below(pool, v) >= 9 * All(pool) <=> p <= v
    BY <2>4, <2>10, PercentileFacts
  <2> HIDE DEF p
  <2>12. p <= hi
    <3>1. ASSUME NEW h \in Host  PROVE all[h] <= below(hi)[h]
      <4>1. CASE h \in sampled
        <5>1. _percentile(samples[h]) \in p90s
          BY <4>1
        <5>2. _percentile(samples[h]) <= hi
          BY <2>7, <5>1
        <5>3. 10 * Below(samples[h], hi) >= 9 * All(samples[h])
          BY <2>5, <2>7, <4>1, <5>2
        <5> QED  BY <5>3
      <4>2. CASE h \notin sampled
        BY <2>7, <2>9, <4>2
      <4> QED  BY <4>1, <4>2
    <3>2. \A h \in Host : all[h] \in Nat /\ below(hi)[h] \in Nat /\ all[h] <= below(hi)[h]
      BY <2>7, <2>8, <3>1
    <3> HIDE DEF all, below
    <3>3. Total(all, Host) <= Total(below(hi), Host)
      BY <3>2, ValuesFacts, TotalOfLess
    <3> QED  BY <2>7, <2>8, <2>11, <3>3
  <2>13. lo <= p
    <3> SUFFICES ASSUME p < lo  PROVE FALSE
      BY <2>7, <2>11, ValuesFacts
    <3>1. ASSUME NEW h \in sampled  PROVE below(p)[h] < all[h]
      <4>1. _percentile(samples[h]) \in p90s /\ h \in Host
        OBVIOUS
      <4>2. ~(_percentile(samples[h]) <= p)
        <5> DEFINE q == _percentile(samples[h])
        <5>1. q \in Int /\ p \in Int /\ lo \in Int /\ lo <= q
          BY <2>6, <2>7, <2>11, <4>1, ValuesFacts
        <5> HIDE DEF q
        <5>2. ~(q <= p)
          BY <5>1
        <5> QED  BY <5>2 DEF q
      <4>3. ~(10 * Below(samples[h], p) >= 9 * All(samples[h]))
        BY <2>5, <2>11, <4>2
      <4>4. Below(samples[h], p) \in Nat /\ All(samples[h]) \in Nat
        BY <2>2, <2>11, <4>1
      <4> QED  BY <4>1, <4>3, <4>4
    <3>2. \A h \in Host : below(p)[h] \in Nat /\ all[h] \in Nat /\ below(p)[h] <= all[h]
      <4> TAKE h \in Host
      <4>1. below(p)[h] \in Nat /\ all[h] \in Nat
        BY <2>8, <2>11
      <4>2. CASE h \in sampled
        <5>1. below(p)[h] < all[h]
          BY <3>1, <4>2
        <5> HIDE DEF below, all
        <5> QED  BY <4>1, <5>1
      <4>3. CASE h \notin sampled
        <5>1. below(p)[h] = all[h]
          BY <2>9, <2>11, <4>3
        <5> HIDE DEF below, all
        <5> QED  BY <4>1, <5>1
      <4> QED  BY <4>2, <4>3
    <3>3. \E h \in Host : below(p)[h] < all[h]
      BY <3>1
    <3> HIDE DEF all, below, sampled
    <3>4. Total(below(p), Host) < Total(all, Host)
      BY <3>2, <3>3, ValuesFacts, TotalOfLess
    <3>5. Total(below(p), Host) \in Nat /\ Total(all, Host) \in Nat
      BY <3>2, ValuesFacts, TotalFacts
    <3>6. 10 * Below(pool, p) >= 9 * All(pool)
      BY <2>11, ValuesFacts
    <3> QED  BY <2>8, <2>11, <3>4, <3>5, <3>6
  <2>14. hi <= WorstSample(pool)
    <3> DEFINE W == {v \in V : pool[v] > 0}
    <3>1. PICK h \in sampled : hi = _percentile(samples[h])
      BY <2>7
    <3>2. samples[h][hi] > 0 /\ hi \in V /\ samples[h][hi] \in Nat /\ pool[hi] \in Nat
      BY <2>1, <2>4, <2>5, <2>7, <3>1
    <3>3. hi \in W
      BY <2>4, <3>2
    <3>4. IsFiniteSet(W) /\ W \in SUBSET Int
      BY ValuesFacts, FS_Subset
    <3>5. WorstSample(pool) = Max(W)
      BY <2>4 DEF WorstSample
    <3> HIDE DEF W
    <3> QED  BY <3>3, <3>4, <3>5, MaxFacts
  <2> QED  BY <2>7, <2>11, <2>12, <2>13, <2>14, ValuesFacts
<1> QED  BY <1>1, RecordsInvHolds, PTL
================================================================================
