------------------------------- MODULE FiniteSums ------------------------------
(***************************************************************************)
(* Finite sets of numbers: an element that is least or greatest, and the   *)
(* sum of a function over one, which is the same in whatever order it is   *)
(* taken and grows with the set and with the function.  A proof by         *)
(* induction is one that a set of subsets has all of them, for no set that *)
(* it lacks is minimal.                                                    *)
(***************************************************************************)
EXTENDS FiniteSetsExt, FiniteSetTheorems, TLAPS

(* A set that holds every subset of a finite set of which it holds all      *)
(* smaller ones holds the set.                                              *)
LEMMA SubsetInduction ==
    ASSUME NEW S, IsFiniteSet(S), NEW Good,
           \A s \in SUBSET S : (\A t \in SUBSET s : t # s => t \in Good) => s \in Good
    PROVE  S \in Good
<1> DEFINE Bad == {s \in SUBSET S : s \notin Good}
<1>1. SUFFICES ASSUME S \notin Good  PROVE FALSE
  OBVIOUS
<1>2. IsWellFoundedOn(StrictSubsetOrdering(S), SUBSET S)
  BY FS_StrictSubsetOrderingWellFounded, FS_FiniteSubsetsOfFinite
<1>3. Bad # {} /\ Bad \subseteq SUBSET S
  BY <1>1
<1> HIDE DEF Bad
<1>4. PICK s \in Bad : \A t \in Bad : <<t, s>> \notin StrictSubsetOrdering(S)
  BY <1>2, <1>3, WFMin
<1>5. \A t \in SUBSET s : t # s => t \in Good
  <2> SUFFICES ASSUME NEW t \in SUBSET s, t # s, t \notin Good  PROVE FALSE
    OBVIOUS
  <2>1. t \in Bad
    BY <1>3 DEF Bad
  <2>2. <<t, s>> \in StrictSubsetOrdering(S)
    BY <1>3, <2>1 DEF StrictSubsetOrdering
  <2> QED  BY <1>4, <2>1, <2>2
<1> QED  BY <1>5 DEF Bad

\* A finite set of integers that is not empty has a greatest element.
LEMMA MaxFacts ==
    ASSUME NEW S \in SUBSET Int, IsFiniteSet(S), S # {}
    PROVE  Max(S) \in S /\ \A x \in S : x <= Max(S)
<1> DEFINE Good == {s \in SUBSET S : s = {} \/ \E x \in s : \A y \in s : x >= y}
<1>1. ASSUME NEW s \in SUBSET S, \A t \in SUBSET s : t # s => t \in Good
      PROVE  s \in Good
  <2> SUFFICES ASSUME s # {}  PROVE \E x \in s : \A y \in s : x >= y
    OBVIOUS
  <2>1. PICK e \in s : TRUE
    OBVIOUS
  <2>2. CASE s \ {e} = {}
    BY <2>1, <2>2
  <2>3. CASE s \ {e} # {}
    <3>1. s \ {e} \in Good
      BY <1>1, <2>1
    <3>2. PICK x \in s \ {e} : \A y \in s \ {e} : x >= y
      BY <2>3, <3>1
    <3>3. e \in Int /\ x \in Int /\ \A y \in s : y \in Int
      OBVIOUS
    <3> QED  BY <3>2, <3>3
  <2> QED  BY <2>2, <2>3
<1> HIDE DEF Good
<1>2. S \in Good
  BY <1>1, SubsetInduction
<1>3. \E x \in S : \A y \in S : x >= y
  BY <1>2 DEF Good
<1> QED  BY <1>3 DEF Max

\* And a least one.
LEMMA MinFacts ==
    ASSUME NEW S \in SUBSET Int, IsFiniteSet(S), S # {}
    PROVE  Min(S) \in S /\ \A x \in S : Min(S) <= x
<1> DEFINE Good == {s \in SUBSET S : s = {} \/ \E x \in s : \A y \in s : x <= y}
<1>1. ASSUME NEW s \in SUBSET S, \A t \in SUBSET s : t # s => t \in Good
      PROVE  s \in Good
  <2> SUFFICES ASSUME s # {}  PROVE \E x \in s : \A y \in s : x <= y
    OBVIOUS
  <2>1. PICK e \in s : TRUE
    OBVIOUS
  <2>2. CASE s \ {e} = {}
    BY <2>1, <2>2
  <2>3. CASE s \ {e} # {}
    <3>1. s \ {e} \in Good
      BY <1>1, <2>1
    <3>2. PICK x \in s \ {e} : \A y \in s \ {e} : x <= y
      BY <2>3, <3>1
    <3>3. e \in Int /\ x \in Int /\ \A y \in s : y \in Int
      OBVIOUS
    <3> QED  BY <3>2, <3>3
  <2> QED  BY <2>2, <2>3
<1> HIDE DEF Good
<1>2. S \in Good
  BY <1>1, SubsetInduction
<1>3. \E x \in S : \A y \in S : x <= y
  BY <1>2 DEF Good
<1> QED  BY <1>3 DEF Min

\* What a function takes a finite set to is finite.
LEMMA ImageIsFinite ==
    ASSUME NEW f, NEW S, IsFiniteSet(S)
    PROVE  IsFiniteSet({f[x] : x \in S})
<1> DEFINE T == {f[x] : x \in S}
           g == [x \in S |-> f[x]]
<1>1. g \in Surjection(S, T)
  BY DEF Surjection
<1> HIDE DEF g, T
<1>2. IsFiniteSet(T)
  BY <1>1, FS_Surjection
<1> QED  BY <1>2 DEF T

\* A larger factor makes a product no smaller.
LEMMA ProductGrows ==
    ASSUME NEW a \in Nat, NEW b \in Nat, NEW c \in Nat, NEW d \in Nat, a <= b, c <= d
    PROVE  a * c <= b * d
<1>1. PICK i \in Nat : b = a + i
  <2>1. b - a \in Nat /\ b = a + (b - a)
    OBVIOUS
  <2> QED  BY <2>1
<1>2. PICK j \in Nat : d = c + j
  <2>1. d - c \in Nat /\ d = c + (d - c)
    OBVIOUS
  <2> QED  BY <2>1
<1>3. b * d = a * c + (a * j + i * c + i * j)
  BY <1>1, <1>2
<1>4. a * j \in Nat /\ i * c \in Nat /\ i * j \in Nat /\ a * c \in Nat
  BY <1>1, <1>2
<1> QED  BY <1>3, <1>4

--------------------------------------------------------------------------------
\* The sum of w over S, and the function of the subsets of S it unfolds to.
Total(w, S) == MapThenSumSet(LAMBDA x : w[x], S)
Pick(s) == CHOOSE x \in s : TRUE
IsSum(f, w, S) == f = [s \in SUBSET S |-> IF s = {} THEN 0 ELSE w[Pick(s)] + f[s \ {Pick(s)}]]

\* The sum as the library defines it.
LEMMA TotalUnfold ==
    ASSUME NEW w, NEW S
    PROVE  Total(w, S) = (CHOOSE f : IsSum(f, w, S))[S]
BY DEF Total, MapThenSumSet, MapThenFoldSet, IsSum, Pick

\* Of a set that is not empty an element is picked.
LEMMA PickFacts == ASSUME NEW s, s # {}  PROVE Pick(s) \in s
BY DEF Pick

\* Whatever sets two such functions are for, they agree on one that both know.
LEMMA SumIsUnique ==
    ASSUME NEW w, NEW S, NEW T, NEW f, NEW g, IsSum(f, w, S), IsSum(g, w, T),
           NEW v \in SUBSET S, v \subseteq T, IsFiniteSet(v)
    PROVE  f[v] = g[v]
<1> DEFINE Good == {s \in SUBSET v : f[s] = g[s]}
<1>1. ASSUME NEW s \in SUBSET v, \A t \in SUBSET s : t # s => t \in Good
      PROVE  s \in Good
  <2> DEFINE u == s \ {Pick(s)}
  <2>1. /\ f[s] = IF s = {} THEN 0 ELSE w[Pick(s)] + f[u]
        /\ g[s] = IF s = {} THEN 0 ELSE w[Pick(s)] + g[u]
    BY DEF IsSum
  <2>2. s # {} => f[u] = g[u]
    BY <1>1, PickFacts
  <2> HIDE DEF u
  <2> QED  BY <2>1, <2>2
<1> HIDE DEF Good
<1>2. v \in Good
  BY <1>1, SubsetInduction
<1> QED  BY <1>2 DEF Good

\* The function exists: the one of a set is glued from those of its subsets.
LEMMA SumExists ==
    ASSUME NEW w, NEW S, IsFiniteSet(S)
    PROVE  \E f : IsSum(f, w, S)
<1> DEFINE Good == {s \in SUBSET S : \E f : IsSum(f, w, s)}
           part(s) == CHOOSE f : IsSum(f, w, s)
<1>1. ASSUME NEW s \in SUBSET S, \A t \in SUBSET s : t # s => t \in Good
      PROVE  s \in Good
  <2>1. ASSUME NEW t \in SUBSET s, t # s  PROVE IsSum(part(t), w, t)
    <3>1. \E f : IsSum(f, w, t)
      BY <1>1, <2>1
    <3> QED  BY <3>1
  <2> DEFINE rest(t) == t \ {Pick(t)}
             whole == [t \in SUBSET s |-> IF t = {} THEN 0
                                          ELSE w[Pick(t)] + part(rest(t))[rest(t)]]
  <2>2. ASSUME NEW t \in SUBSET s, t # s  PROVE whole[t] = part(t)[t]
    <3>1. part(t)[t] = IF t = {} THEN 0 ELSE w[Pick(t)] + part(t)[rest(t)]
      <4>1. IsSum(part(t), w, t)
        BY <2>1, <2>2
      <4> HIDE DEF part
      <4> QED  BY <4>1 DEF IsSum
    <3>2. CASE t # {}
      <4>1. rest(t) \in SUBSET t /\ rest(t) # s /\ rest(t) \subseteq s
        BY <3>2, PickFacts
      <4>2. IsSum(part(t), w, t) /\ IsSum(part(rest(t)), w, rest(t))
        BY <2>1, <2>2, <4>1
      <4>3. IsFiniteSet(rest(t))
        BY <4>1, FS_Subset
      <4> HIDE DEF part, rest
      <4>4. part(t)[rest(t)] = part(rest(t))[rest(t)]
        BY <4>1, <4>2, <4>3, SumIsUnique
      <4> QED  BY <3>1, <3>2, <4>4
    <3>3. CASE t = {}
      BY <3>1, <3>3
    <3> QED  BY <3>2, <3>3
  <2>3. ASSUME NEW t \in SUBSET s, t # {}  PROVE part(rest(t))[rest(t)] = whole[rest(t)]
    <3>1. rest(t) \in SUBSET s /\ rest(t) # s
      BY <2>3, PickFacts
    <3> HIDE DEF part, rest, whole
    <3> QED  BY <2>2, <3>1
  <2>4. whole = [t \in SUBSET s |-> IF t = {} THEN 0 ELSE w[Pick(t)] + whole[rest(t)]]
    <3> HIDE DEF part
    <3> QED  BY <2>3
  <2>5. IsSum(whole, w, s)
    <3> HIDE DEF whole
    <3> QED  BY <2>4 DEF IsSum
  <2> QED  BY <2>5
<1> HIDE DEF Good
<1>2. S \in Good
  BY <1>1, SubsetInduction
<1> QED  BY <1>2 DEF Good

\* Any function that unfolds like the sum is the sum.
LEMMA TotalIsTheSum ==
    ASSUME NEW w, NEW S, IsFiniteSet(S), NEW T, S \subseteq T, NEW f, IsSum(f, w, T)
    PROVE  f[S] = Total(w, S)
<1>1. IsSum(CHOOSE g : IsSum(g, w, S), w, S)
  BY SumExists
<1>2. f[S] = (CHOOSE g : IsSum(g, w, S))[S]
  BY <1>1, SumIsUnique
<1> QED  BY <1>2, TotalUnfold

\* One element first, as the definition takes it.
LEMMA TotalStep ==
    ASSUME NEW w, NEW S, IsFiniteSet(S)
    PROVE  Total(w, S) = IF S = {} THEN 0 ELSE w[Pick(S)] + Total(w, S \ {Pick(S)})
<1>1. PICK f : IsSum(f, w, S)
  BY SumExists
<1>2. f[S] = Total(w, S)
  BY <1>1, TotalIsTheSum
<1>3. f[S \ {Pick(S)}] = Total(w, S \ {Pick(S)})
  BY <1>1, TotalIsTheSum, FS_Subset
<1>4. f[S] = IF S = {} THEN 0 ELSE w[Pick(S)] + f[S \ {Pick(S)}]
  BY <1>1 DEF IsSum
<1> QED  BY <1>2, <1>3, <1>4

(* The sum is a number, and any element may be taken first.                 *)
LEMMA TotalFacts ==
    ASSUME NEW w, NEW S, IsFiniteSet(S), \A x \in S : w[x] \in Nat
    PROVE  /\ Total(w, S) \in Nat /\ (S = {} => Total(w, S) = 0)
           /\ \A x \in S : /\ Total(w, S) = w[x] + Total(w, S \ {x})
                           /\ Total(w, S \ {x}) \in Nat
<1> DEFINE Good == {s \in SUBSET S : /\ Total(w, s) \in Nat
                                     /\ \A x \in s : Total(w, s) = w[x] + Total(w, s \ {x})}
<1>1. ASSUME NEW s \in SUBSET S, \A t \in SUBSET s : t # s => t \in Good
      PROVE  s \in Good
  <2> DEFINE p == Pick(s)
  <2>1. /\ s = {} => Total(w, s) = 0
        /\ s # {} => Total(w, s) = w[p] + Total(w, s \ {p})
    BY TotalStep, FS_Subset
  <2>2. CASE s = {}
    BY <2>1, <2>2
  <2>3. CASE s # {}
    <3>1. p \in s
      BY <2>3, PickFacts
    <3>2. s \ {p} \in Good
      BY <1>1, <3>1
    <3>3. w[p] \in Nat /\ Total(w, s \ {p}) \in Nat
      BY <3>1, <3>2
    <3>4. ASSUME NEW x \in s  PROVE Total(w, s) = w[x] + Total(w, s \ {x})
      <4>1. CASE x = p
        BY <2>1, <2>3, <4>1
      <4>2. CASE x # p
        <5>1. s \ {x} \in Good /\ w[x] \in Nat
          BY <1>1
        <5> DEFINE both == (s \ {p}) \ {x}
        <5>2. both = (s \ {x}) \ {p} /\ x \in s \ {p} /\ p \in s \ {x}
          BY <3>1, <4>2
        <5> HIDE DEF both, p
        <5>3. Total(w, s \ {p}) = w[x] + Total(w, both)
          BY <3>2, <5>2 DEF both
        <5>4. Total(w, s \ {x}) = w[p] + Total(w, both)
          BY <5>1, <5>2
        <5>5. both \in Good
          BY <1>1, <5>2
        <5>6. Total(w, both) \in Nat
          BY <5>5
        <5> HIDE DEF Good
        <5> QED  BY <2>1, <2>3, <3>3, <5>1, <5>3, <5>4, <5>6
      <4> QED  BY <4>1, <4>2
    <3> HIDE DEF p
    <3>5. Total(w, s) \in Nat
      BY <2>1, <2>3, <3>3
    <3> QED  BY <3>4, <3>5
  <2> QED  BY <2>2, <2>3
<1> HIDE DEF Good
<1>2. S \in Good
  BY <1>1, SubsetInduction
<1>3. S = {} => Total(w, S) = 0
  BY TotalStep
<1>4. ASSUME NEW x \in S  PROVE Total(w, S \ {x}) \in Nat
  <2> DEFINE T == S \ {x}
  <2>1. \A s \in SUBSET T : (\A t \in SUBSET s : t # s => t \in Good) => s \in Good
    BY <1>1
  <2>2. IsFiniteSet(T)
    BY FS_Subset
  <2> HIDE DEF T
  <2>3. T \in Good
    BY <2>1, <2>2, SubsetInduction
  <2> QED  BY <2>3 DEF Good, T
<1> QED  BY <1>2, <1>3, <1>4 DEF Good

\* A part adds up to no more than the whole.
LEMMA TotalOfSubset ==
    ASSUME NEW w, NEW S, IsFiniteSet(S), \A x \in S : w[x] \in Nat, NEW T \in SUBSET S
    PROVE  Total(w, T) <= Total(w, S)
<1> DEFINE Good == {s \in SUBSET S : T \subseteq s => Total(w, T) <= Total(w, s)}
<1>1. ASSUME NEW s \in SUBSET S, \A t \in SUBSET s : t # s => t \in Good
      PROVE  s \in Good
  <2> SUFFICES ASSUME T \subseteq s  PROVE Total(w, T) <= Total(w, s)
    OBVIOUS
  <2>1. IsFiniteSet(s) /\ IsFiniteSet(T)
    BY FS_Subset
  <2>2. Total(w, T) \in Nat
    BY <2>1, TotalFacts
  <2>3. CASE T # s
    <3>1. PICK x \in s : x \notin T
      BY <2>3
    <3>2. Total(w, s) = w[x] + Total(w, s \ {x}) /\ Total(w, s \ {x}) \in Nat /\ w[x] \in Nat
      BY <2>1, TotalFacts
    <3>3. s \ {x} \in Good
      BY <1>1
    <3>4. Total(w, T) <= Total(w, s \ {x})
      BY <3>1, <3>3
    <3> QED  BY <2>2, <3>2, <3>4
  <2> QED  BY <2>2, <2>3
<1> HIDE DEF Good
<1>2. S \in Good
  BY <1>1, SubsetInduction
<1> QED  BY <1>2 DEF Good

\* What is no more anywhere adds up to no more, and what is the same to the same.
LEMMA TotalOfLess ==
    ASSUME NEW u, NEW w, NEW S, IsFiniteSet(S),
           \A x \in S : u[x] \in Nat /\ w[x] \in Nat /\ u[x] <= w[x]
    PROVE  /\ Total(u, S) <= Total(w, S)
           /\ (\E x \in S : u[x] < w[x]) => Total(u, S) < Total(w, S)
           /\ (\A x \in S : u[x] = w[x]) => Total(u, S) = Total(w, S)
<1> DEFINE Good == {s \in SUBSET S :
                       /\ Total(u, s) <= Total(w, s)
                       /\ (\E x \in s : u[x] < w[x]) => Total(u, s) < Total(w, s)
                       /\ (\A x \in s : u[x] = w[x]) => Total(u, s) = Total(w, s)}
<1>1. ASSUME NEW s \in SUBSET S, \A t \in SUBSET s : t # s => t \in Good
      PROVE  s \in Good
  <2>1. IsFiniteSet(s)
    BY FS_Subset
  <2>2. CASE s = {}
    <3>1. Total(u, s) = 0 /\ Total(w, s) = 0
      BY <2>1, <2>2, TotalStep
    <3> QED  BY <2>2, <3>1
  <2>3. CASE s # {}
    <3>1. PICK x \in s : TRUE
      BY <2>3
    <3> DEFINE rest == s \ {x}
    <3>2. /\ Total(u, s) = u[x] + Total(u, rest) /\ Total(u, rest) \in Nat
          /\ Total(w, s) = w[x] + Total(w, rest) /\ Total(w, rest) \in Nat
      BY <2>1, TotalFacts
    <3>3. /\ Total(u, rest) <= Total(w, rest)
          /\ (\E y \in rest : u[y] < w[y]) => Total(u, rest) < Total(w, rest)
          /\ (\A y \in rest : u[y] = w[y]) => Total(u, rest) = Total(w, rest)
      <4>1. rest \in Good
        BY <1>1
      <4> QED  BY <4>1
    <3>4. u[x] \in Nat /\ w[x] \in Nat /\ u[x] <= w[x]
      OBVIOUS
    <3>5. /\ (\E y \in s : u[y] < w[y]) => u[x] < w[x] \/ \E y \in rest : u[y] < w[y]
          /\ (\A y \in s : u[y] = w[y]) => u[x] = w[x] /\ \A y \in rest : u[y] = w[y]
      OBVIOUS
    <3> HIDE DEF rest, Good
    <3>6. /\ Total(u, s) <= Total(w, s)
          /\ (\E y \in s : u[y] < w[y]) => Total(u, s) < Total(w, s)
          /\ (\A y \in s : u[y] = w[y]) => Total(u, s) = Total(w, s)
      BY <3>2, <3>3, <3>4, <3>5
    <3> QED  BY <3>6 DEF Good
  <2> QED  BY <2>2, <2>3
<1> HIDE DEF Good
<1>2. S \in Good
  BY <1>1, SubsetInduction
<1> QED  BY <1>2 DEF Good

\* Sums add up point by point.
LEMMA TotalOfBoth ==
    ASSUME NEW u, NEW v, NEW w, NEW S, IsFiniteSet(S),
           \A x \in S : u[x] \in Nat /\ v[x] \in Nat /\ w[x] = u[x] + v[x]
    PROVE  Total(w, S) = Total(u, S) + Total(v, S)
<1> DEFINE Good == {s \in SUBSET S : Total(w, s) = Total(u, s) + Total(v, s)}
<1>1. ASSUME NEW s \in SUBSET S, \A t \in SUBSET s : t # s => t \in Good
      PROVE  s \in Good
  <2>1. IsFiniteSet(s) /\ \A x \in S : w[x] \in Nat
    BY FS_Subset
  <2>2. CASE s = {}
    <3>1. Total(u, s) = 0 /\ Total(v, s) = 0 /\ Total(w, s) = 0
      BY <2>1, <2>2, TotalStep
    <3> QED  BY <3>1
  <2>3. CASE s # {}
    <3>1. PICK x \in s : TRUE
      BY <2>3
    <3> DEFINE rest == s \ {x}
    <3>2. /\ Total(u, s) = u[x] + Total(u, rest) /\ Total(u, rest) \in Nat
          /\ Total(v, s) = v[x] + Total(v, rest) /\ Total(v, rest) \in Nat
          /\ Total(w, s) = w[x] + Total(w, rest)
      BY <2>1, TotalFacts
    <3>3. rest \in Good
      BY <1>1
    <3>4. Total(w, rest) = Total(u, rest) + Total(v, rest)
      BY <3>3
    <3>5. u[x] \in Nat /\ v[x] \in Nat /\ w[x] = u[x] + v[x]
      OBVIOUS
    <3> HIDE DEF rest
    <3> QED  BY <3>2, <3>4, <3>5
  <2> QED  BY <2>2, <2>3
<1> HIDE DEF Good
<1>2. S \in Good
  BY <1>1, SubsetInduction
<1> QED  BY <1>2 DEF Good

\* The sum of the multiples is that of the sum.
LEMMA TotalTimes ==
    ASSUME NEW k \in Nat, NEW u, NEW w, NEW S, IsFiniteSet(S),
           \A x \in S : w[x] \in Nat /\ u[x] = k * w[x]
    PROVE  Total(u, S) = k * Total(w, S)
<1> DEFINE Good == {s \in SUBSET S : Total(u, s) = k * Total(w, s)}
<1>1. ASSUME NEW s \in SUBSET S, \A t \in SUBSET s : t # s => t \in Good
      PROVE  s \in Good
  <2>1. IsFiniteSet(s) /\ \A x \in S : u[x] \in Nat
    BY FS_Subset
  <2>2. CASE s = {}
    <3>1. Total(u, s) = 0 /\ Total(w, s) = 0
      BY <2>1, <2>2, TotalFacts
    <3> QED  BY <3>1
  <2>3. CASE s # {}
    <3>1. PICK x \in s : TRUE
      BY <2>3
    <3>2. /\ Total(u, s) = u[x] + Total(u, s \ {x})
          /\ Total(w, s) = w[x] + Total(w, s \ {x}) /\ Total(w, s \ {x}) \in Nat
      BY <2>1, <3>1, TotalFacts
    <3>3. Total(u, s \ {x}) = k * Total(w, s \ {x})
      BY <1>1, <3>1
    <3> DEFINE m == w[x]
               n == Total(w, s \ {x})
    <3>4. m \in Nat /\ n \in Nat /\ u[x] = k * m
      BY <3>1, <3>2
    <3> HIDE DEF m, n
    <3>5. k * m + k * n = k * (m + n)
      BY <3>4
    <3> QED  BY <3>2, <3>3, <3>4, <3>5 DEF m, n
  <2> QED  BY <2>2, <2>3
<1> HIDE DEF Good
<1>2. S \in Good
  BY <1>1, SubsetInduction
<1> QED  BY <1>2 DEF Good

--------------------------------------------------------------------------------
\* The sum of a column of a table, and of the sums of its columns and its rows.
TotalBy(a, k, S) == MapThenSumSet(LAMBDA x : a[x][k], S)

\* A column's sum is that of the function of its entries.
LEMMA TotalByIsTotal ==
    ASSUME NEW a, NEW k, NEW S, IsFiniteSet(S)
    PROVE  TotalBy(a, k, S) = Total([x \in S |-> a[x][k]], S)
<1> DEFINE w == [x \in S |-> a[x][k]]
           Adds(f) == f = [s \in SUBSET S |-> IF s = {} THEN 0
                                              ELSE a[Pick(s)][k] + f[s \ {Pick(s)}]]
<1>1. TotalBy(a, k, S) = (CHOOSE f : Adds(f))[S]
  BY DEF TotalBy, MapThenSumSet, MapThenFoldSet, Pick
<1>2. \A s \in SUBSET S : s # {} => w[Pick(s)] = a[Pick(s)][k]
  BY PickFacts
<1> HIDE DEF w
<1>3. PICK f : IsSum(f, w, S)
  BY SumExists
<1>4. Adds(f)
  BY <1>2, <1>3 DEF IsSum
<1> DEFINE g == CHOOSE ff : Adds(ff)
<1>5. Adds(g)
  <2> HIDE DEF Adds
  <2> QED  BY <1>4
<1> HIDE DEF g
<1>6. IsSum(g, w, S)
  BY <1>2, <1>5 DEF IsSum
<1>7. g[S] = Total(w, S)
  BY <1>6, TotalIsTheSum
<1> QED  BY <1>1, <1>7 DEF g, w

\* Adding up the columns first or the rows first comes to the same.
LEMMA TotalSwap ==
    ASSUME NEW a, NEW S, IsFiniteSet(S), NEW T, IsFiniteSet(T),
           \A x \in S : \A y \in T : a[x][y] \in Nat
    PROVE  Total([y \in T |-> Total([x \in S |-> a[x][y]], S)], T)
               = Total([x \in S |-> Total(a[x], T)], S)
<1> DEFINE col(y) == [x \in S |-> a[x][y]]
           rows == [x \in S |-> Total(a[x], T)]
           sums(s) == [y \in T |-> Total(col(y), s)]
           Good == {s \in SUBSET S : Total(sums(s), T) = Total(rows, s)}
<1>1. \A x \in S : rows[x] \in Nat /\ rows[x] = Total(a[x], T)
  BY TotalFacts
<1>2. ASSUME NEW s \in SUBSET S, NEW y \in T
      PROVE  /\ Total(col(y), s) \in Nat /\ (s = {} => Total(col(y), s) = 0)
             /\ \A x \in s : Total(col(y), s) = a[x][y] + Total(col(y), s \ {x})
  <2>1. IsFiniteSet(s) /\ \A x \in s : col(y)[x] \in Nat /\ col(y)[x] = a[x][y]
    BY FS_Subset
  <2> HIDE DEF col
  <2>2. /\ Total(col(y), s) \in Nat /\ (s = {} => Total(col(y), s) = 0)
        /\ \A x \in s : Total(col(y), s) = col(y)[x] + Total(col(y), s \ {x})
    BY <2>1, TotalFacts
  <2> QED  BY <2>1, <2>2
<1>3. ASSUME NEW s \in SUBSET S, \A t \in SUBSET s : t # s => t \in Good
      PROVE  s \in Good
  <2>1. IsFiniteSet(s)
    BY FS_Subset
  <2>2. CASE s = {}
    <3>1. Total(rows, s) = 0
      BY <2>1, <2>2, TotalStep
    <3>2. \A y \in T : sums(s)[y] = 0
      BY <1>2, <2>2
    <3> DEFINE none == sums(s)
    <3> HIDE DEF sums, none, rows
    <3>3. \A y \in T : none[y] = 0
      BY <3>2 DEF none
    <3>4. Total(none, T) = Total(none, T) + Total(none, T) /\ Total(none, T) \in Nat
      BY <3>3, TotalOfBoth, TotalFacts
    <3> DEFINE n == Total(none, T)
    <3>5. n = n + n /\ n \in Nat
      BY <3>4
    <3> HIDE DEF n
    <3>6. n = 0
      BY <3>5
    <3> QED  BY <3>1, <3>6 DEF n, none, Good
  <2>3. CASE s # {}
    <3>1. PICK x \in s : TRUE
      BY <2>3
    <3> DEFINE rest == s \ {x}
    <3>2. Total(rows, s) = rows[x] + Total(rows, rest)
      <4>1. \A z \in s : rows[z] \in Nat
        BY <1>1
      <4> HIDE DEF rows
      <4> QED  BY <2>1, <4>1, TotalFacts
    <3>3. \A y \in T : /\ sums(s)[y] = a[x][y] + sums(rest)[y]
                       /\ a[x][y] \in Nat /\ sums(rest)[y] \in Nat
      BY <1>2
    <3>4. rest \in Good
      BY <1>3, <3>1
    <3> DEFINE u == sums(s)
               v == sums(rest)
    <3>5. Total(u, T) = Total(a[x], T) + Total(v, T)
      <4>1. \A y \in T : a[x][y] \in Nat /\ v[y] \in Nat /\ u[y] = a[x][y] + v[y]
        BY <3>3
      <4> HIDE DEF u, v
      <4> QED  BY <4>1, TotalOfBoth
    <3>6. Total(v, T) = Total(rows, rest)
      BY <3>4
    <3>7. rows[x] = Total(a[x], T)
      BY <1>1, <3>1
    <3> HIDE DEF rest, rows
    <3>8. Total(u, T) = Total(rows, s)
      BY <3>2, <3>5, <3>6, <3>7
    <3> QED  BY <3>8 DEF u
  <2> QED  BY <2>2, <2>3
<1> HIDE DEF Good
<1>4. S \in Good
  BY <1>3, SubsetInduction
<1> QED  BY <1>4 DEF Good
================================================================================
