-------------------------- MODULE NativeProjectionProofs ------------------------
(***************************************************************************)
(* What a query lists and what NativeProjection shows, for any clusters,   *)
(* hosts, keys, bands and readings, any page size and any number of cycles *)
(* and of changes.  First the query: every step of ResourceQuery keeps     *)
(* QueryInv, and QueryInv implies its properties.  Then the cycle, whose   *)
(* steps on the query are those.                                           *)
(***************************************************************************)
EXTENDS NativeProjection, SequenceTheorems, FiniteSetTheorems, TLAPS

\* How much of the inventory the pages read so far are, and what lies behind.
Read == page * PageSize
Unread == {i \in 1..Len(inventory) : i > Read}

\* Nothing happened: what was read is the beginning of the inventory.
ExactSoFar == events = {} => resources = SubSeq(inventory, 1, Least(Read, Len(inventory)))

\* Nothing was removed: what was there throughout was read or lies behind.
FoundSoFar ==
    events \subseteq {"added"} =>
        \A r \in stayed : r \in ToSet(resources) \/ \E i \in Unread : inventory[i] = r

\* Nothing was added: what lies behind was not read.
OnceSoFar ==
    "added" \notin events =>
        IsInjective(resources) /\ \A i \in Unread : inventory[i] \notin ToSet(resources)

\* A query that counted right read to the end.
ReadToTheEnd == query = "complete" /\ "uncounted" \notin events => Len(inventory) <= Read

QueryInv == /\ QueryTypeOK /\ IsInjective(inventory)
            /\ ExactSoFar /\ FoundSoFar /\ OnceSoFar /\ ReadToTheEnd

--------------------------------------------------------------------------------
\* Sequences with one element more, one less, and pages of them.
LEMMA InsertAtFacts ==
    ASSUME NEW S, NEW s \in Seq(S), NEW i \in 1..(Len(s) + 1), NEW e \in S
    PROVE  /\ InsertAt(s, i, e) \in Seq(S) /\ Len(InsertAt(s, i, e)) = Len(s) + 1
           /\ \A j \in 1..(Len(s) + 1) :
                  InsertAt(s, i, e)[j] = IF j < i THEN s[j] ELSE IF j = i THEN e ELSE s[j - 1]
<1> DEFINE front == SubSeq(s, 1, i - 1)
           back == SubSeq(s, i, Len(s))
<1>1. Len(s) \in Nat
  OBVIOUS
<1>2. front \in Seq(S) /\ Len(front) = i - 1 /\ \A j \in 1..(i - 1) : front[j] = s[j]
  BY <1>1, SubSeqProperties, ElementOfSeq
<1>3. back \in Seq(S) /\ Len(back) = Len(s) + 1 - i /\ \A j \in 1..(Len(s) + 1 - i) : back[j] = s[i + j - 1]
  BY <1>1, SubSeqProperties, ElementOfSeq
<1> DEFINE mid == front \o <<e>>
<1>4. mid \in Seq(S) /\ Len(mid) = i /\ \A j \in 1..i : mid[j] = IF j < i THEN front[j] ELSE e
  BY <1>1, <1>2, ConcatProperties
<1> HIDE DEF front, back, mid
<1> DEFINE all == mid \o back
<1>5. /\ all \in Seq(S) /\ Len(all) = Len(s) + 1
      /\ \A j \in 1..(Len(s) + 1) : all[j] = IF j <= i THEN mid[j] ELSE back[j - i]
  BY <1>1, <1>3, <1>4, ConcatProperties
<1>6. InsertAt(s, i, e) = all
  BY DEF InsertAt, front, back, mid
<1> HIDE DEF all
<1>7. QED
  BY <1>1, <1>2, <1>3, <1>4, <1>5, <1>6

\* One element less: those behind move up.
LEMMA RemoveAtFacts ==
    ASSUME NEW S, NEW s \in Seq(S), NEW i \in 1..Len(s)
    PROVE  /\ RemoveAt(s, i) \in Seq(S) /\ Len(RemoveAt(s, i)) = Len(s) - 1
           /\ \A j \in 1..(Len(s) - 1) : RemoveAt(s, i)[j] = IF j < i THEN s[j] ELSE s[j + 1]
<1> DEFINE front == SubSeq(s, 1, i - 1)
           back == SubSeq(s, i + 1, Len(s))
<1>1. Len(s) \in Nat
  OBVIOUS
<1>2. front \in Seq(S) /\ Len(front) = i - 1 /\ \A j \in 1..(i - 1) : front[j] = s[j]
  BY <1>1, SubSeqProperties, ElementOfSeq
<1>3. back \in Seq(S) /\ Len(back) = Len(s) - i /\ \A j \in 1..(Len(s) - i) : back[j] = s[i + j]
  BY <1>1, SubSeqProperties, ElementOfSeq
<1> HIDE DEF front, back
<1> DEFINE all == front \o back
<1>4. /\ all \in Seq(S) /\ Len(all) = Len(front) + Len(back)
      /\ \A j \in 1..(Len(front) + Len(back)) :
             all[j] = IF j <= Len(front) THEN front[j] ELSE back[j - Len(front)]
  BY <1>2, <1>3, ConcatProperties
<1>5. RemoveAt(s, i) = all
  BY DEF RemoveAt, front, back
<1> HIDE DEF all
<1>6. /\ Len(front) = i - 1 /\ Len(front) + Len(back) = Len(s) - 1
      /\ i \in Int /\ 1 <= i /\ i <= Len(s)
  BY <1>1, <1>2, <1>3
<1>7. ASSUME NEW j \in 1..(Len(s) - 1)
      PROVE  all[j] = IF j < i THEN s[j] ELSE s[j + 1]
  <2>1. CASE j < i
    <3>1. j \in 1..(Len(front) + Len(back)) /\ j <= Len(front) /\ j \in 1..(i - 1)
      BY <1>1, <1>2, <1>6, <2>1
    <3>2. QED
      BY <1>2, <1>4, <2>1, <3>1
  <2>2. CASE j >= i
    <3>1. /\ j \in 1..(Len(front) + Len(back)) /\ ~(j <= Len(front))
          /\ j - Len(front) = j - i + 1 /\ j - i + 1 \in 1..(Len(s) - i)
      <4>1. j \in Int /\ 1 <= j /\ j <= Len(s) - 1
        BY <1>1
      <4>2. QED
        BY <1>1, <1>6, <2>2, <4>1
    <3>2. all[j] = back[j - i + 1]
      BY <1>4, <3>1
    <3>3. back[j - i + 1] = s[i + (j - i + 1)] /\ i + (j - i + 1) = j + 1
      BY <1>3, <1>6, <3>1
    <3>4. QED
      BY <1>6, <2>2, <3>2, <3>3
  <2>3. QED
    BY <2>1, <2>2
<1>8. QED
  BY <1>6, <1>4, <1>5, <1>7

\* A page is a piece of the list.
LEMMA PageFacts ==
    ASSUME NEW S, NEW list \in Seq(S), NEW p \in Nat
    PROVE  /\ p * PageSize \in Nat /\ (p + 1) * PageSize = p * PageSize + PageSize
           /\ PageOf(list, p) \in Seq(S)
           /\ Len(PageOf(list, p)) = IF Len(list) <= p * PageSize THEN 0
                                     ELSE Least(PageSize, Len(list) - p * PageSize)
           /\ \A k \in 1..Len(PageOf(list, p)) : PageOf(list, p)[k] = list[p * PageSize + k]
<1>1. /\ PageSize \in Nat \ {0} /\ Len(list) \in Nat
      /\ p * PageSize \in Nat /\ (p + 1) * PageSize = p * PageSize + PageSize
  BY QueryAssumption
<1> DEFINE b == p * PageSize
<1> HIDE DEF b
<1>2. PageOf(list, p) = SubSeq(list, b + 1, Least(b + PageSize, Len(list))) /\ b \in Nat
  BY <1>1 DEF PageOf, b
<1>3. Least(b + PageSize, Len(list)) \in 0..Len(list)
  BY <1>1, <1>2 DEF Least
<1> DEFINE e == Least(b + PageSize, Len(list))
<1> HIDE DEF e
<1>4. e \in Nat /\ \A i \in (b + 1)..e : list[i] \in S
  BY <1>1, <1>2, <1>3 DEF e
<1>5. /\ SubSeq(list, b + 1, e) \in Seq(S)
      /\ Len(SubSeq(list, b + 1, e)) = IF b + 1 <= e THEN e - b ELSE 0
      /\ \A k \in 1..(e - b) : SubSeq(list, b + 1, e)[k] = list[b + k]
  BY <1>2, <1>4, SubSeqProperties
<1>6. Len(PageOf(list, p)) = IF Len(list) <= b THEN 0 ELSE Least(PageSize, Len(list) - b)
  BY <1>1, <1>2, <1>5 DEF e, Least
<1>7. QED
  BY <1>1, <1>2, <1>4, <1>5, <1>6 DEF b, e

\* The last page of so many is the page they end on.
LEMMA LastPage ==
    ASSUME NEW total \in Nat, NEW p \in Nat, ~(p + 1 < PagesOf(total))
    PROVE  total <= (p + 1) * PageSize
<1> DEFINE q == (total + PageSize - 1) \div PageSize
<1>1. PageSize \in Nat \ {0}
  BY QueryAssumption
<1>2. q \in Int /\ PageSize * q <= total + PageSize - 1 /\ total + PageSize - 1 < PageSize * (q + 1)
  BY <1>1
<1>3. q <= p + 1
  BY <1>2 DEF PagesOf, CeilDiv
<1>4. PageSize * q <= PageSize * (p + 1)
  BY <1>1, <1>2, <1>3
<1>5. total <= PageSize * q
  BY <1>1, <1>2
<1>6. QED
  BY <1>1, <1>2, <1>4, <1>5

--------------------------------------------------------------------------------
\* Every step keeps the invariant.
LEMMA QueryInitHolds == QueryInit => QueryInv
<1> SUFFICES ASSUME QueryInit PROVE QueryInv
  OBVIOUS
<1>1. inventory \in Seq(Resource) /\ IsInjective(inventory) /\ Len(inventory) \in Nat
  BY QueryAssumption DEF QueryInit
<1>2. QueryTypeOK
  BY <1>1, QueryAssumption DEF QueryInit, QueryTypeOK
<1>3. Read = 0 /\ Least(Read, Len(inventory)) = 0
  BY <1>1, QueryAssumption DEF QueryInit, Read, Least
<1>4. ExactSoFar
  BY <1>3, SubSeqEmpty DEF QueryInit, ExactSoFar
<1>5. FoundSoFar /\ OnceSoFar /\ ReadToTheEnd
  BY DEF QueryInit, FoundSoFar, OnceSoFar, ReadToTheEnd, IsInjective, ToSet
<1>6. QED
  BY <1>1, <1>2, <1>4, <1>5 DEF QueryInv

\* Steps of other components.
LEMMA QueryUntouched ==
    ASSUME QueryInv, UNCHANGED <<inventory, progress, stayed, events>>, changes' \in 0..MaxChanges
    PROVE  QueryInv'
BY DEF QueryInv, QueryTypeOK, ExactSoFar, FoundSoFar, OnceSoFar, ReadToTheEnd, progress, Read, Unread

\* Nothing is read, and nothing has happened yet.
LEMMA StartQueryKeeps == ASSUME QueryInv, StartQuery PROVE QueryInv'
<1>1. inventory \in Seq(Resource) /\ IsInjective(inventory) /\ Len(inventory) \in Nat
  BY DEF QueryInv, QueryTypeOK
<1>2. /\ inventory' = inventory /\ changes' = changes /\ query' = "paging" /\ page' = 0 /\ pages' = 1
      /\ resources' = <<>> /\ stayed' = ToSet(inventory) /\ events' = {}
  BY DEF StartQuery
<1>3. QueryTypeOK'
  BY <1>1, <1>2 DEF QueryInv, QueryTypeOK, ToSet
<1>4. Read' = 0 /\ Least(Read', Len(inventory')) = 0 /\ Unread' = 1..Len(inventory)
  BY <1>1, <1>2, QueryAssumption DEF Read, Least, Unread
<1>5. ExactSoFar'
  BY <1>2, <1>4, SubSeqEmpty DEF ExactSoFar
<1>6. FoundSoFar' /\ OnceSoFar' /\ ReadToTheEnd'
  BY <1>1, <1>2, <1>4 DEF FoundSoFar, OnceSoFar, ReadToTheEnd, IsInjective, ToSet
<1>7. QED
  BY <1>1, <1>2, <1>3, <1>5, <1>6 DEF QueryInv

\* A failed query promises nothing.
LEMMA FailPageKeeps == ASSUME QueryInv, FailPage PROVE QueryInv'
BY DEF FailPage, QueryInv, QueryTypeOK, ExactSoFar, FoundSoFar, OnceSoFar, ReadToTheEnd, Read, Unread

\* An insertion moves what is behind it to pages still to read.
LEMMA DiscoverKeeps == ASSUME QueryInv, Discover PROVE QueryInv'
<1>1. PICK r \in Resource \ ToSet(inventory), i \in 1..(Len(inventory) + 1) :
          /\ Change /\ inventory' = InsertAt(inventory, i, r)
          /\ events' = events \cup {"added"} /\ UNCHANGED stayed
  BY DEF Discover
<1>2. inventory \in Seq(Resource) /\ IsInjective(inventory) /\ Len(inventory) \in Nat /\ page \in Nat
  BY DEF QueryInv, QueryTypeOK
<1>3. /\ inventory' \in Seq(Resource) /\ Len(inventory') = Len(inventory) + 1
      /\ \A j \in 1..(Len(inventory) + 1) :
             inventory'[j] = IF j < i THEN inventory[j] ELSE IF j = i THEN r ELSE inventory[j - 1]
  <2>1. r \in Resource /\ inventory' = InsertAt(inventory, i, r)
    BY <1>1
  <2>2. /\ InsertAt(inventory, i, r) \in Seq(Resource)
        /\ Len(InsertAt(inventory, i, r)) = Len(inventory) + 1
        /\ \A j \in 1..(Len(inventory) + 1) :
               InsertAt(inventory, i, r)[j] = IF j < i THEN inventory[j]
                                              ELSE IF j = i THEN r ELSE inventory[j - 1]
    <3>1. inventory \in Seq(Resource) /\ r \in Resource /\ i \in 1..(Len(inventory) + 1)
      BY <1>2, <2>1
    <3>2. QED
      BY <3>1, InsertAtFacts, SMTT(60)
  <2>3. QED
    BY <2>1, <2>2
<1>4. /\ query = "paging" /\ query' = query /\ page' = page /\ pages' = pages /\ resources' = resources
      /\ stayed' = stayed /\ changes' \in 0..MaxChanges /\ Read' = Read
  BY <1>1, QueryAssumption DEF Change, progress, QueryInv, QueryTypeOK, Read
<1>5. QueryTypeOK'
  BY <1>1, <1>3, <1>4 DEF QueryInv, QueryTypeOK
<1>6. IsInjective(inventory')
  <2>1. DOMAIN inventory' = 1..(Len(inventory) + 1) /\ DOMAIN inventory = 1..Len(inventory)
    BY <1>2, <1>3
  <2>2. \A j \in 1..Len(inventory) : inventory[j] # r
    BY <1>1, <2>1 DEF ToSet
  <2>3. \A j, k \in 1..Len(inventory) : inventory[j] = inventory[k] => j = k
    BY <1>2, <2>1 DEF IsInjective
  <2>4. ASSUME NEW j \in 1..(Len(inventory) + 1), NEW k \in 1..(Len(inventory) + 1), j < k,
               inventory'[j] = inventory'[k]
        PROVE  FALSE
    <3>1. CASE j < i /\ k < i
      BY <1>3, <2>3, <2>4, <3>1
    <3>2. CASE j < i /\ k = i
      BY <1>3, <2>2, <2>4, <3>2
    <3>3. CASE j < i /\ k > i
      <4>1. k - 1 \in 1..Len(inventory) /\ j \in 1..Len(inventory) /\ j # k - 1
        BY <1>2, <2>4, <3>3
      <4>2. QED
        BY <1>3, <2>3, <2>4, <3>3, <4>1
    <3>4. CASE j = i /\ k > i
      <4>1. k - 1 \in 1..Len(inventory)
        BY <1>2, <2>4, <3>4
      <4>2. QED
        BY <1>3, <2>2, <2>4, <3>4, <4>1
    <3>5. CASE j > i /\ k > i
      <4>1. k - 1 \in 1..Len(inventory) /\ j - 1 \in 1..Len(inventory) /\ j - 1 # k - 1
        BY <1>2, <2>4, <3>5
      <4>2. QED
        BY <1>3, <2>3, <2>4, <3>5, <4>1
    <3>6. QED
      BY <1>2, <2>4, <3>1, <3>2, <3>3, <3>4, <3>5
  <2>5. QED
    BY <1>2, <2>1, <2>4 DEF IsInjective
<1>7. FoundSoFar'
  <2>1. SUFFICES ASSUME events \subseteq {"added"}, NEW q \in stayed, q \notin ToSet(resources)
                 PROVE  \E k \in Unread' : inventory'[k] = q
    BY <1>1, <1>4 DEF FoundSoFar
  <2>2. PICK k \in Unread : inventory[k] = q
    BY <2>1 DEF QueryInv, FoundSoFar
  <2>3. k \in 1..Len(inventory) /\ k > Read /\ Read \in Nat
    BY <1>2, QueryAssumption DEF Unread, Read
  <2>4. CASE k < i
    <3>1. k \in Unread' /\ inventory'[k] = q
      BY <1>2, <1>3, <1>4, <2>2, <2>3, <2>4 DEF Unread
    <3>2. QED
      BY <3>1
  <2>5. CASE k >= i
    <3>1. k + 1 \in 1..(Len(inventory) + 1) /\ k + 1 > Read /\ ~(k + 1 < i) /\ k + 1 # i /\ (k + 1) - 1 = k
      BY <1>2, <2>3, <2>5
    <3>2. k + 1 \in Unread' /\ inventory'[k + 1] = q
      BY <1>3, <1>4, <2>2, <3>1 DEF Unread
    <3>3. QED
      BY <3>2
  <2>6. QED
    BY <2>3, <2>4, <2>5
<1>8. ExactSoFar' /\ OnceSoFar' /\ ReadToTheEnd'
  BY <1>1, <1>4 DEF ExactSoFar, OnceSoFar, ReadToTheEnd
<1>9. QED
  BY <1>5, <1>6, <1>7, <1>8 DEF QueryInv

\* A removal moves what is behind it to pages already read.
LEMMA ForgetKeeps == ASSUME QueryInv, Forget PROVE QueryInv'
<1>1. PICK i \in 1..Len(inventory) :
          /\ Change /\ inventory' = RemoveAt(inventory, i)
          /\ stayed' = stayed \ {inventory[i]} /\ events' = events \cup {"removed"}
  BY DEF Forget
<1>2. inventory \in Seq(Resource) /\ IsInjective(inventory) /\ Len(inventory) \in Nat /\ page \in Nat
  BY DEF QueryInv, QueryTypeOK
<1>3. /\ inventory' \in Seq(Resource) /\ Len(inventory') = Len(inventory) - 1
      /\ \A j \in 1..(Len(inventory) - 1) :
             inventory'[j] = IF j < i THEN inventory[j] ELSE inventory[j + 1]
  BY <1>1, <1>2, RemoveAtFacts
<1>4. /\ query = "paging" /\ query' = query /\ page' = page /\ pages' = pages /\ resources' = resources
      /\ changes' \in 0..MaxChanges /\ Read' = Read
  BY <1>1, QueryAssumption DEF Change, progress, QueryInv, QueryTypeOK, Read
<1>5. QueryTypeOK'
  BY <1>1, <1>3, <1>4 DEF QueryInv, QueryTypeOK
<1>6. \A j \in 1..Len(inventory') : \E k \in 1..Len(inventory) :
          k = (IF j < i THEN j ELSE j + 1) /\ inventory'[j] = inventory[k]
  BY <1>2, <1>3
<1>7. IsInjective(inventory')
  <2>1. DOMAIN inventory' = 1..Len(inventory') /\ DOMAIN inventory = 1..Len(inventory)
    BY <1>2, <1>3
  <2>2. \A j, k \in 1..Len(inventory) : inventory[j] = inventory[k] => j = k
    BY <1>2, <2>1 DEF IsInjective
  <2>3. ASSUME NEW j \in 1..Len(inventory'), NEW k \in 1..Len(inventory'), inventory'[j] = inventory'[k]
        PROVE  j = k
    BY <1>2, <1>3, <1>6, <2>2, <2>3
  <2>4. QED
    BY <2>1, <2>3 DEF IsInjective
<1>8. OnceSoFar'
  <2>1. SUFFICES ASSUME "added" \notin events
                 PROVE  \A j \in Unread' : inventory'[j] \notin ToSet(resources)
    BY <1>1, <1>4 DEF QueryInv, OnceSoFar
  <2>2. Read \in Nat
    BY <1>2, QueryAssumption DEF Read
  <2>3. ASSUME NEW j \in Unread' PROVE \E k \in Unread : inventory'[j] = inventory[k]
    <3>1. j \in 1..Len(inventory') /\ j > Read
      BY <1>4, <2>3 DEF Unread
    <3>2. PICK k \in 1..Len(inventory) :
              k = (IF j < i THEN j ELSE j + 1) /\ inventory'[j] = inventory[k]
      BY <1>6, <3>1
    <3>3. k > Read
      BY <2>2, <3>1, <3>2
    <3>4. QED
      BY <3>2, <3>3 DEF Unread
  <2>4. QED
    BY <2>1, <2>3 DEF QueryInv, OnceSoFar
<1>9. ExactSoFar' /\ FoundSoFar' /\ ReadToTheEnd'
  BY <1>1, <1>4 DEF ExactSoFar, FoundSoFar, ReadToTheEnd
<1>10. QED
  BY <1>5, <1>7, <1>8, <1>9 DEF QueryInv

\* A page more of the list; the last one ends it.
LEMMA ReadPageKeeps == ASSUME QueryInv, ReadPage PROVE QueryInv'
<1>1. PICK total \in {Len(inventory), Len(resources \o PageOf(inventory, page))} :
          Reply(total, PagesOf(total))
  BY DEF ReadPage
<1>2. /\ inventory \in Seq(Resource) /\ IsInjective(inventory) /\ Len(inventory) \in Nat
      /\ page \in Nat /\ resources \in Seq(Resource) /\ Len(resources) \in Nat
      /\ PageSize \in Nat \ {0}
  BY QueryAssumption DEF QueryInv, QueryTypeOK
<1> DEFINE P == PageOf(inventory, page)
<1>3. /\ Read \in Nat /\ Read' = Read + PageSize
      /\ P \in Seq(Resource) /\ Len(P) \in Nat
      /\ Len(P) = IF Len(inventory) <= Read THEN 0 ELSE Least(PageSize, Len(inventory) - Read)
      /\ \A k \in 1..Len(P) : P[k] = inventory[Read + k]
  <2>1. page' = page + 1
    BY <1>1 DEF Reply
  <2>2. /\ page * PageSize \in Nat /\ (page + 1) * PageSize = page * PageSize + PageSize
        /\ P \in Seq(Resource)
        /\ Len(P) = IF Len(inventory) <= page * PageSize THEN 0
                    ELSE Least(PageSize, Len(inventory) - page * PageSize)
        /\ \A k \in 1..Len(P) : P[k] = inventory[page * PageSize + k]
    BY <1>2, PageFacts
  <2>3. Len(P) \in Nat
    BY <2>2
  <2>4. QED
    BY <2>1, <2>2, <2>3 DEF Read
<1>4. /\ query = "paging" /\ query' \in {"paging", "complete"} /\ page' = page + 1
      /\ pages' = PagesOf(total) /\ resources' = resources \o P
      /\ inventory' = inventory /\ changes' = changes /\ stayed' = stayed
      /\ events \subseteq events' /\ events' \subseteq events \cup {"uncounted"}
      /\ "uncounted" \notin events' => total = Len(inventory)
      /\ query' = "complete" => ~(page + 1 < PagesOf(total))
  BY <1>1 DEF Reply
<1> HIDE DEF P
<1>5. /\ resources' \in Seq(Resource) /\ Len(resources') = Len(resources) + Len(P)
      /\ \A j \in 1..(Len(resources) + Len(P)) :
             resources'[j] = IF j <= Len(resources) THEN resources[j] ELSE P[j - Len(resources)]
  BY <1>2, <1>3, <1>4, ConcatProperties
<1>b. ASSUME NEW j \in 1..(Len(resources) + Len(P)), ~(j <= Len(resources))
      PROVE  j - Len(resources) \in 1..Len(P) /\ resources'[j] = P[j - Len(resources)]
  <2>1. j \in Int /\ j <= Len(resources) + Len(P) /\ Len(resources) \in Int /\ Len(P) \in Int
    BY <1>2, <1>3
  <2>2. j - Len(resources) \in 1..Len(P)
    BY <1>b, <2>1
  <2>3. QED
    BY <1>5, <1>b, <2>2
<1>6. total \in Nat
  BY <1>1, <1>2, <1>4, <1>5 DEF P
<1>7. QueryTypeOK'
  <2>1. PagesOf(total) \in Nat \ {0}
    BY <1>2, <1>6 DEF PagesOf, CeilDiv
  <2>2. QED
    BY <1>2, <1>4, <1>5, <2>1 DEF QueryInv, QueryTypeOK
\* What lay behind is on the page or lies behind it.
<1>8. \A i \in Unread : \/ i - Read \in 1..Len(P) /\ P[i - Read] = inventory[i]
                        \/ i \in Unread'
  BY <1>2, <1>3, <1>4 DEF Unread, Least
<1>9. /\ Unread' \subseteq Unread
      /\ \A k \in 1..Len(P) : Read + k \in Unread /\ Read + k \notin Unread'
  BY <1>2, <1>3, <1>4 DEF Unread, Least
<1>10. \A r : r \in ToSet(resources') <=> r \in ToSet(resources) \/ \E k \in 1..Len(P) : r = P[k]
  <2>1. /\ DOMAIN resources = 1..Len(resources)
        /\ DOMAIN resources' = 1..(Len(resources) + Len(P))
    BY <1>2, <1>5
  <2>2. \A k \in 1..Len(P) : /\ Len(resources) + k \in 1..(Len(resources) + Len(P))
                             /\ resources'[Len(resources) + k] = P[k]
    <3>1. Len(resources) \in Nat /\ Len(P) \in Nat
      BY <1>2, <1>3
    <3>2. TAKE k \in 1..Len(P)
    <3>3. /\ Len(resources) + k \in 1..(Len(resources) + Len(P))
          /\ ~(Len(resources) + k <= Len(resources)) /\ (Len(resources) + k) - Len(resources) = k
      BY <3>1
    <3>4. QED
      BY <1>5, <3>3
  <2>3. \A j \in 1..(Len(resources) + Len(P)) :
            j \in 1..Len(resources) \/ j - Len(resources) \in 1..Len(P)
    BY <1>2, <1>3
  <2>4. \A j \in 1..Len(resources) : j \in 1..(Len(resources) + Len(P)) /\ resources'[j] = resources[j]
    BY <1>2, <1>3, <1>5
  <2>5. ASSUME NEW r PROVE r \in ToSet(resources) => r \in ToSet(resources')
    BY <2>1, <2>4 DEF ToSet
  <2>6. ASSUME NEW r, NEW k \in 1..Len(P), r = P[k] PROVE r \in ToSet(resources')
    BY <2>1, <2>2, <2>6 DEF ToSet
  <2>7. ASSUME NEW j \in 1..(Len(resources) + Len(P))
        PROVE  resources'[j] \in ToSet(resources) \/ \E k \in 1..Len(P) : resources'[j] = P[k]
    <3>1. CASE j <= Len(resources)
      BY <1>2, <2>1, <2>4, <3>1 DEF ToSet
    <3>2. CASE ~(j <= Len(resources))
      BY <1>b, <3>2
    <3>3. QED
      BY <3>1, <3>2
  <2>8. QED
    BY <2>1, <2>5, <2>6, <2>7 DEF ToSet
<1>11. ExactSoFar'
  <2>1. SUFFICES ASSUME events' = {} PROVE resources' = SubSeq(inventory, 1, Least(Read', Len(inventory)))
    BY <1>4 DEF ExactSoFar
  <2>2. resources = SubSeq(inventory, 1, Least(Read, Len(inventory)))
    BY <1>4, <2>1 DEF QueryInv, ExactSoFar
  <2>3. P = SubSeq(inventory, Read + 1, Least(Read', Len(inventory)))
    BY <1>2, <1>3 DEF P, PageOf, Read
  <2>4. CASE Read <= Len(inventory)
    <3>1. /\ Least(Read, Len(inventory)) = Read
          /\ 1 \in 1..(Len(inventory) + 1) /\ Read \in 0..Len(inventory)
          /\ Least(Read', Len(inventory)) \in Read..Len(inventory)
      BY <1>2, <1>3, <2>4 DEF Least
    <3>2. resources' = SubSeq(inventory, 1, Read) \o SubSeq(inventory, Read + 1, Least(Read', Len(inventory)))
      BY <1>4, <2>2, <2>3, <3>1
    <3>3. inventory \in Seq(Resource) /\ Read \in (1 - 1)..Len(inventory)
      BY <1>2, <3>1
    <3>4. SubSeq(inventory, 1, Read) \o SubSeq(inventory, Read + 1, Least(Read', Len(inventory)))
              = SubSeq(inventory, 1, Least(Read', Len(inventory)))
      BY ONLY <3>1, <3>3, ConcatAdjacentSubSeq
    <3>5. QED
      BY <3>2, <3>4
  <2>5. CASE Read > Len(inventory)
    <3>1. /\ Least(Read, Len(inventory)) = Len(inventory)
          /\ Least(Read', Len(inventory)) = Len(inventory) /\ Len(inventory) < Read + 1
      BY <1>2, <1>3, <2>5 DEF Least
    <3>2. P = <<>>
      BY <1>2, <1>3, <2>3, <3>1, SubSeqEmpty
    <3>3. resources' = resources
      BY <1>2, <1>4, <3>2, ConcatEmptySeq
    <3>4. QED
      BY <2>2, <3>1, <3>3
  <2>6. QED
    BY <1>2, <1>3, <2>4, <2>5
<1>12. FoundSoFar'
  <2>1. SUFFICES ASSUME events' \subseteq {"added"}, NEW r \in stayed, r \notin ToSet(resources')
                 PROVE  \E i \in Unread' : inventory[i] = r
    BY <1>4 DEF FoundSoFar
  <2>2. PICK i \in Unread : inventory[i] = r
    BY <1>4, <1>10, <2>1 DEF QueryInv, FoundSoFar
  <2>3. QED
    BY <1>8, <1>10, <2>1, <2>2
<1>13. OnceSoFar'
  <2>1. SUFFICES ASSUME "added" \notin events'
                 PROVE  IsInjective(resources') /\ \A i \in Unread' : inventory[i] \notin ToSet(resources')
    BY <1>4 DEF OnceSoFar
  <2>2. IsInjective(resources) /\ \A i \in Unread : inventory[i] \notin ToSet(resources)
    BY <1>4, <2>1 DEF QueryInv, OnceSoFar
  <2>3. \A i, j \in Unread : inventory[i] = inventory[j] => i = j
    <3>1. Unread \subseteq DOMAIN inventory
      BY <1>2 DEF Unread
    <3>2. QED
      BY <1>2, <3>1 DEF IsInjective
  <2>4. \A i \in Unread' : inventory[i] \notin ToSet(resources')
    BY <1>3, <1>9, <1>10, <2>2, <2>3
  <2>5. ASSUME NEW j \in 1..Len(resources'), NEW k \in 1..Len(resources'), j < k,
               resources'[j] = resources'[k]
        PROVE  FALSE
    <3>1. \A i \in 1..Len(resources) : resources[i] \in ToSet(resources)
      BY <1>2 DEF ToSet
    <3>2. CASE k <= Len(resources)
      <4>1. j \in DOMAIN resources /\ k \in DOMAIN resources /\ resources[j] = resources[k]
        BY <1>2, <1>3, <1>5, <2>5, <3>2
      <4>2. QED
        BY <2>2, <2>5, <4>1 DEF IsInjective
    <3>3. CASE j <= Len(resources) /\ ~(k <= Len(resources))
      <4>1. resources[j] \in ToSet(resources) /\ resources'[j] = resources[j]
        BY <1>2, <1>3, <1>5, <2>5, <3>1, <3>3
      <4>2. k - Len(resources) \in 1..Len(P) /\ resources'[k] = P[k - Len(resources)]
        BY <1>5, <1>b, <2>5, <3>3
      <4>3. QED
        BY <1>3, <1>9, <2>2, <2>5, <4>1, <4>2
    <3>4. CASE ~(j <= Len(resources)) /\ ~(k <= Len(resources))
      <4>1. j - Len(resources) \in 1..Len(P) /\ resources'[j] = P[j - Len(resources)]
        BY <1>5, <1>b, <2>5, <3>4
      <4>2. k - Len(resources) \in 1..Len(P) /\ resources'[k] = P[k - Len(resources)]
        BY <1>5, <1>b, <2>5, <3>4
      <4>3. Read + (j - Len(resources)) = Read + (k - Len(resources))
        <5>1. /\ Read + (j - Len(resources)) \in Unread /\ Read + (k - Len(resources)) \in Unread
              /\ inventory[Read + (j - Len(resources))] = inventory[Read + (k - Len(resources))]
          BY <1>3, <1>9, <2>5, <4>1, <4>2
        <5>2. QED
          BY <2>3, <5>1
      <4>4. QED
        BY <1>2, <1>3, <2>5, <4>3
    <3>5. QED
      BY <1>2, <2>5, <3>2, <3>3, <3>4
  <2>6. DOMAIN resources' = 1..Len(resources') /\ Len(resources') \in Nat
    BY <1>5
  <2>7. QED
    BY <2>4, <2>5, <2>6 DEF IsInjective
<1>14. ReadToTheEnd'
  <2>1. SUFFICES ASSUME query' = "complete", "uncounted" \notin events'
                 PROVE  Len(inventory) <= Read'
    BY <1>4 DEF ReadToTheEnd
  <2>2. QED
    BY <1>2, <1>4, <1>6, <2>1, LastPage DEF Read
<1>15. QED
  BY <1>2, <1>4, <1>7, <1>11, <1>12, <1>13, <1>14 DEF QueryInv

--------------------------------------------------------------------------------
\* What the invariant says of a query that is complete.
LEMMA QueryInvImplies == QueryInv => QuietQueryIsExact /\ PresentIsListed /\ ListedOnce
<1> SUFFICES ASSUME QueryInv PROVE QuietQueryIsExact /\ PresentIsListed /\ ListedOnce
  OBVIOUS
<1>1. inventory \in Seq(Resource) /\ Len(inventory) \in Nat /\ Read \in Nat
  BY QueryAssumption DEF QueryInv, QueryTypeOK, Read
<1>2. query = "complete" /\ "uncounted" \notin events => Len(inventory) <= Read /\ Unread = {}
  BY <1>1 DEF QueryInv, ReadToTheEnd, Unread
<1>3. QuietQueryIsExact
  BY <1>1, <1>2, SubSeqFull DEF QuietQueryIsExact, QueryInv, ExactSoFar, Least
<1>4. PresentIsListed
  BY <1>2 DEF PresentIsListed, QueryInv, FoundSoFar
<1>5. ListedOnce
  BY DEF ListedOnce, QueryInv, OnceSoFar
<1>6. QED
  BY <1>3, <1>4, <1>5

--------------------------------------------------------------------------------
\* Where a cycle is.
Progress ==
    /\ pc \in {"list", "keys"} => todo = <<>> /\ readings = NoAttributes /\ result = NoAttributes
    /\ pc \in {"list", "keys", "collect"} => cycle >= 1
    /\ pc \in {"keys", "collect"} => query = "complete"
    /\ pc \in {"sent", "error"} => todo = <<>>

\* The warnings so far are of this cycle, and those published of the last one sent.
Warnings ==
    /\ health.count = 0 => health.first = NoData
    /\ health.count > 0 => health.first = cycle
    /\ instance.count > 0 => instance.first = sent

\* What was written over an object has all the attributes of a reading.
Covers(attributes, reading) ==
    \A a \in DOMAIN Attributes(reading) :
        a \in DOMAIN attributes /\ attributes[a] = Attributes(reading)[a]
Whole ==
    \A o \in Object :
        /\ readings[o] = <<>> => DOMAIN result[o] = {}
        /\ readings[o] # <<>> => Covers(result[o], Last(readings[o]))
        /\ shown[o] # NoData => Covers(store[o], shown[o])

\* Nothing was added: what is still to collect was not written.
OnceWritten ==
    "added" \notin events =>
        /\ IsInjective(todo)
        /\ \A c \in Cluster : Len(readings[c]) <= IF c \in ToSet(todo) THEN 0 ELSE 1
        /\ \A h \in Host \ moved : Len(readings[h]) <= IF member[h] \in ToSet(todo) THEN 0 ELSE 1

\* No warning: what was listed was written, or is still to collect.
Listed == ToSet(resources)
Stayed(h) == h \in Host \ moved /\ member[h] \in Listed
Updated ==
    /\ pc = "collect" /\ health.count = 0 =>
           /\ \A c \in Listed : readings[c] # <<>> \/ c \in ToSet(todo)
           /\ \A h \in Host : Stayed(h) => readings[h] # <<>> \/ member[h] \in ToSet(todo)
    /\ pc = "sent" /\ instance.count = 0 =>
           /\ \A c \in Listed : readings[c] # <<>>
           /\ \A h \in Host : Stayed(h) => readings[h] # <<>>

IInv == QueryInv /\ TypeOK /\ Progress /\ Warnings /\ Whole /\ OnceWritten /\ Updated

--------------------------------------------------------------------------------
\* The attributes of a reading, by name.
LEMMA AttributesFacts ==
    ASSUME NEW v
    PROVE  /\ DOMAIN Attributes(v) \subseteq Attribute
           /\ \A k \in Key : /\ <<"band", k>> \in DOMAIN Attributes(v)
                             /\ Attributes(v)[<<"band", k>>] = band(v, k)
           /\ \A k \in Known(v) : /\ <<"metric", k>> \in DOMAIN Attributes(v)
                                  /\ Attributes(v)[<<"metric", k>>] = v[k]
           /\ <<"composite", "band">> \in DOMAIN Attributes(v)
           /\ Attributes(v)[<<"composite", "band">>] = composite_band(v)
           /\ Known(v) # {} => /\ <<"composite", "level">> \in DOMAIN Attributes(v)
                               /\ Attributes(v)[<<"composite", "level">>] = BAND_LEVELS[composite_band(v)]
                               /\ <<"composite", "count">> \in DOMAIN Attributes(v)
                               /\ Attributes(v)[<<"composite", "count">>] = worst_count(v)
<1>1. /\ Attributes(v) = Write(v, Key) /\ DOMAIN Attributes(v) = Written(v, Key)
      /\ \A a \in Written(v, Key) :
             Attributes(v)[a] = CASE a[1] = "metric" -> v[a[2]]
                                  [] a[1] = "band" -> band(v, a[2])
                                  [] a[1] = "composite" -> Composite(v, a[2])
  BY DEF Attributes, Write
<1>2. Written(v, Key) \subseteq Attribute
  BY DEF Written, Attribute, Known
<1>3. \A k \in Key : <<"band", k>> \in Written(v, Key) /\ Attributes(v)[<<"band", k>>] = band(v, k)
  BY <1>1 DEF Written
<1>4. \A k \in Known(v) : <<"metric", k>> \in Written(v, Key) /\ Attributes(v)[<<"metric", k>>] = v[k]
  BY <1>1 DEF Written
<1>5. /\ <<"composite", "band">> \in Written(v, Key)
      /\ Attributes(v)[<<"composite", "band">>] = composite_band(v)
  BY <1>1 DEF Written, Composite
<1>6. Known(v) # {} => /\ <<"composite", "level">> \in Written(v, Key)
                       /\ Attributes(v)[<<"composite", "level">>] = BAND_LEVELS[composite_band(v)]
                       /\ <<"composite", "count">> \in Written(v, Key)
                       /\ Attributes(v)[<<"composite", "count">>] = worst_count(v)
  BY <1>1 DEF Written, Composite
<1>7. QED
  BY <1>1, <1>2, <1>3, <1>4, <1>5, <1>6

\* What is written last is covered, whatever lies below.
LEMMA OverCovers ==
    ASSUME NEW v, NEW old PROVE Covers(Over(Attributes(v), old), v)
BY DEF Covers, Over

\* What is covered stays so, below what writes nothing and above anything.
LEMMA CoversOver ==
    ASSUME NEW v, NEW new, NEW old
    PROVE  /\ Covers(new, v) => Covers(Over(new, old), v)
           /\ DOMAIN new = {} /\ Covers(old, v) => Covers(Over(new, old), v)
BY DEF Covers, Over

\* The sequence of clusters still to collect, without the first.
LEMMA TailFacts ==
    ASSUME todo \in Seq(Cluster), todo # <<>>
    PROVE  /\ Head(todo) \in Cluster /\ Tail(todo) \in Seq(Cluster)
           /\ ToSet(todo) = {Head(todo)} \cup ToSet(Tail(todo))
           /\ IsInjective(todo) => IsInjective(Tail(todo)) /\ Head(todo) \notin ToSet(Tail(todo))
<1> DEFINE t == Tail(todo)
           n == Len(todo)
<1>1. /\ Head(todo) = todo[1] /\ Head(todo) \in Cluster /\ t \in Seq(Cluster)
      /\ n \in Nat \ {0} /\ Len(t) = n - 1 /\ \A i \in 1..(n - 1) : t[i] = todo[i + 1]
  BY HeadTailProperties, EmptySeq
<1>2. DOMAIN todo = 1..n /\ DOMAIN t = 1..(n - 1)
  BY <1>1
<1> HIDE DEF t, n
<1>3. ToSet(todo) = {Head(todo)} \cup ToSet(t)
  <2>1. ASSUME NEW i \in 1..n PROVE todo[i] \in {Head(todo)} \cup ToSet(t)
    <3>1. CASE i = 1
      BY <1>1, <3>1
    <3>2. CASE i # 1
      <4>1. i - 1 \in 1..(n - 1) /\ t[i - 1] = todo[i]
        BY <1>1, <3>2
      <4>2. QED
        BY <1>2, <4>1 DEF ToSet
    <3>3. QED
      BY <3>1, <3>2
  <2>2. ASSUME NEW i \in 1..(n - 1) PROVE t[i] \in ToSet(todo)
    <3>1. i + 1 \in 1..n /\ t[i] = todo[i + 1]
      BY <1>1
    <3>2. QED
      BY <1>2, <3>1 DEF ToSet
  <2>3. Head(todo) \in ToSet(todo)
    BY <1>1, <1>2 DEF ToSet
  <2>4. QED
    BY <1>2, <2>1, <2>2, <2>3 DEF ToSet
<1>4. ASSUME IsInjective(todo) PROVE IsInjective(t) /\ Head(todo) \notin ToSet(t)
  <2>1. \A i, j \in 1..n : todo[i] = todo[j] => i = j
    BY <1>2, <1>4 DEF IsInjective
  <2>2. \A i \in 1..(n - 1) : i + 1 \in 1..n /\ t[i] = todo[i + 1] /\ 1 \in 1..n /\ i + 1 # 1
    BY <1>1
  <2>3. ASSUME NEW i \in 1..(n - 1), NEW j \in 1..(n - 1), t[i] = t[j] PROVE i = j
    <3>1. i + 1 = j + 1
      BY <2>1, <2>2, <2>3
    <3>2. QED
      BY <1>1, <3>1
  <2>4. ASSUME NEW i \in 1..(n - 1) PROVE t[i] # Head(todo)
    BY <1>1, <2>1, <2>2
  <2>5. QED
    BY <1>2, <2>3, <2>4 DEF IsInjective, ToSet
<1>5. QED
  BY <1>1, <1>3, <1>4 DEF t

\* Projecting some objects, of those with a key.
LEMMA ProjectFacts ==
    ASSUME IInv, NEW objects \in SUBSET Object, NEW reading \in Reads(objects), Project(reading)
    PROVE  /\ \A o \in Object : /\ DOMAIN result'[o] \subseteq Attribute
                                /\ readings'[o] \in Seq(Readings[o])
                                /\ readings'[o] = <<>> => DOMAIN result'[o] = {}
                                /\ readings'[o] # <<>> => Covers(result'[o], Last(readings'[o]))
           /\ \A o \in Object \cap objects \cap keys :
                  readings'[o] # <<>> /\ Len(readings'[o]) = Len(readings[o]) + 1
           /\ \A o \in Object \ objects : readings'[o] = readings[o]
           /\ \A o \in Object : /\ readings[o] # <<>> => readings'[o] # <<>>
                                /\ Len(readings'[o]) <= Len(readings[o]) + 1
<1>1. \A o \in Object : /\ DOMAIN result[o] \subseteq Attribute /\ readings[o] \in Seq(Readings[o])
                        /\ readings[o] = <<>> => DOMAIN result[o] = {}
                        /\ readings[o] # <<>> => Covers(result[o], Last(readings[o]))
  BY DEF IInv, TypeOK, Whole
<1>2. DOMAIN reading = objects /\ \A o \in objects : reading[o] \in Readings[o]
  BY DEF Reads
<1>3. /\ \A o \in Object : result'[o] = IF o \in objects \cap keys
                                        THEN Over(Attributes(reading[o]), result[o]) ELSE result[o]
      /\ \A o \in Object : readings'[o] = IF o \in objects \cap keys
                                          THEN Append(readings[o], reading[o]) ELSE readings[o]
  BY <1>2 DEF Project
<1>4. ASSUME NEW o \in objects \cap keys
      PROVE  /\ readings'[o] \in Seq(Readings[o]) /\ readings'[o] # <<>>
             /\ Len(readings'[o]) = Len(readings[o]) + 1 /\ Last(readings'[o]) = reading[o]
  <2> DEFINE s == readings[o]
             e == reading[o]
             S == Readings[o]
  <2>1. s \in Seq(S) /\ e \in S /\ readings'[o] = Append(s, e)
    BY <1>1, <1>2, <1>3
  <2> HIDE DEF s, e, S
  <2>2. /\ Append(s, e) \in Seq(S) /\ Append(s, e) # <<>>
        /\ Len(Append(s, e)) = Len(s) + 1 /\ Last(Append(s, e)) = e
    <3>1. Len(Append(s, e)) = Len(s) + 1 /\ Append(s, e)[Len(s) + 1] = e
      BY <2>1, AppendProperties
    <3>2. QED
      BY <2>1, <3>1, AppendProperties DEF Last
  <2>3. QED
    BY <2>1, <2>2 DEF s, e, S
<1>5. ASSUME NEW o \in objects \cap keys
      PROVE  DOMAIN result'[o] \subseteq Attribute /\ Covers(result'[o], reading[o])
  <2>1. result'[o] = Over(Attributes(reading[o]), result[o])
    BY <1>3
  <2>2. DOMAIN result'[o] = DOMAIN Attributes(reading[o]) \cup DOMAIN result[o]
    BY <2>1 DEF Over
  <2>3. DOMAIN result'[o] \subseteq Attribute
    BY <1>1, <2>2, AttributesFacts
  <2>4. QED
    BY <2>1, <2>3, OverCovers
<1>6. \A o \in Object : Len(readings[o]) \in Nat
  BY <1>1
<1>7. QED
  BY <1>1, <1>3, <1>4, <1>5, <1>6

--------------------------------------------------------------------------------
\* Every step keeps the invariant.
LEMMA InitHolds == Init => IInv
<1> SUFFICES ASSUME Init PROVE IInv
  OBVIOUS
<1>1. QueryInv
  BY QueryInitHolds DEF Init
<1>2. /\ cycle = 0 /\ sent = 0 /\ pc = "sent" /\ todo = <<>> /\ failed = 0 /\ moved = {} /\ keys = {}
      /\ health = NoWarnings /\ instance = NoWarnings /\ member \in [Host -> Cluster]
      /\ \A o \in Object : result[o] = <<>> /\ store[o] = <<>> /\ readings[o] = <<>> /\ shown[o] = NoData
      /\ query = "idle" /\ resources = <<>> /\ stayed = {} /\ events = {}
  BY DEF Init, QueryInit, NoAttributes, None
<1>3. DOMAIN <<>> = {} /\ \A S : <<>> \in Seq(S) /\ Len(<<>>) = 0
  BY EmptySeq
<1>4. TypeOK
  <2>1. {health, instance} \subseteq [count : Nat, first : 1..cycle \cup {NoData}]
    BY <1>2 DEF NoWarnings
  <2>2. cycle \in 0..MaxCycles /\ sent \in 0..cycle
    BY <1>2, ProjectionAssumption
  <2>3. QED
    BY <1>1, <1>2, <1>3, <2>1, <2>2 DEF TypeOK, QueryInv
<1>5. Progress /\ Warnings /\ Updated
  <2>1. Listed = {}
    BY <1>2, EmptySeq DEF Listed, ToSet
  <2>2. QED
    BY <1>2, <2>1 DEF Progress, Warnings, Updated, Stayed, NoWarnings
<1>6. Whole
  BY <1>2, <1>3 DEF Whole
<1>7. OnceWritten
  BY <1>2, <1>3 DEF OnceWritten, IsInjective, Object
<1>8. QED
  BY <1>1, <1>4, <1>5, <1>6, <1>7 DEF IInv

\* Only the query sees the inventory change.
LEMMA ChangeInventoryKeeps == ASSUME IInv, ChangeInventory PROVE IInv'
<1>1. UNCHANGED <<member, moved, pc, cycle, keys, todo, failed, result, health, readings, store, instance, shown, sent>>
  BY DEF ChangeInventory, cycleVars, storeVars
<1>2. QueryInv'
  BY DiscoverKeeps, ForgetKeeps DEF IInv, ChangeInventory
<1>3. query = "paging" /\ query' = query /\ events \subseteq events'
  BY DEF ChangeInventory, Discover, Forget, Change, progress
<1>4. pc = "list"
  BY <1>3 DEF IInv, TypeOK
<1>5. TypeOK'
  BY <1>1, <1>2, <1>3 DEF IInv, TypeOK, QueryInv
<1>6. Progress' /\ Warnings' /\ Whole'
  BY <1>1, <1>4 DEF IInv, Progress, Warnings, Whole
<1>7. OnceWritten' /\ Updated'
  BY <1>1, <1>3, <1>4 DEF IInv, OnceWritten, Updated
<1>8. QED
  BY <1>2, <1>5, <1>6, <1>7 DEF IInv

\* A host that moves is on record as moved.
LEMMA MoveHostKeeps == ASSUME IInv, MoveHost PROVE IInv'
<1>1. /\ UNCHANGED <<inventory, query, page, pages, resources, stayed, events>>
      /\ UNCHANGED <<pc, cycle, keys, todo, failed, result, health, readings, store, instance, shown, sent>>
      /\ pc = "collect" /\ changes' \in 0..MaxChanges
  <2>1. changes \in 0..MaxChanges /\ MaxChanges \in Nat
    BY QueryAssumption DEF IInv, QueryInv, QueryTypeOK
  <2>2. QED
    BY <2>1 DEF MoveHost, progress, cycleVars, storeVars
<1>2. PICK h \in Host : \E c \in Cluster \ {member[h]} : member' = [member EXCEPT ![h] = c] /\ moved' = moved \cup {h}
  BY DEF MoveHost
<1>3. QueryInv'
  BY <1>1, QueryUntouched DEF IInv, progress
<1>4. /\ member' \in [Host -> Cluster] /\ moved' \subseteq Host /\ moved' # {}
      /\ \A g \in Host \ moved' : g \notin moved /\ member'[g] = member[g]
  BY <1>2 DEF IInv, TypeOK
<1>5. TypeOK'
  BY <1>1, <1>3, <1>4 DEF IInv, TypeOK, QueryInv
<1>6. Progress' /\ Warnings' /\ Whole'
  BY <1>1 DEF IInv, Progress, Warnings, Whole
<1>7. OnceWritten'
  BY <1>1, <1>4 DEF IInv, OnceWritten
<1>8. Updated'
  BY <1>1, <1>4 DEF IInv, Updated, Listed, Stayed
<1>9. QED
  BY <1>3, <1>5, <1>6, <1>7, <1>8 DEF IInv

\* A cycle begins with nothing projected and nothing counted.
LEMMA BeginKeeps == ASSUME IInv, Begin PROVE IInv'
<1>1. /\ pc \in {"sent", "error"} /\ cycle < MaxCycles /\ StartQuery /\ query' = "paging"
      /\ cycle' = cycle + 1 /\ pc' = "list" /\ moved' = {} /\ keys' = {} /\ todo' = <<>> /\ failed' = 0
      /\ result' = NoAttributes /\ readings' = NoAttributes /\ health' = NoWarnings
      /\ UNCHANGED <<member, store, instance, shown, sent>>
  BY DEF Begin, BeginCycle, StartQuery, storeVars
<1>2. QueryInv'
  BY <1>1, StartQueryKeeps DEF IInv
<1>3. DOMAIN <<>> = {} /\ \A S : <<>> \in Seq(S) /\ Len(<<>>) = 0
  BY EmptySeq
<1>4. \A o \in Object : NoAttributes[o] = <<>>
  BY DEF NoAttributes
<1>5. TypeOK'
  <2>1. cycle \in Nat /\ cycle' \in 0..MaxCycles /\ sent' \in 0..cycle' /\ 1..cycle \subseteq 1..cycle'
    BY <1>1, ProjectionAssumption DEF IInv, TypeOK
  <2>2. {health', instance'} \subseteq [count : Nat, first : 1..cycle' \cup {NoData}]
    BY <1>1, <2>1 DEF IInv, TypeOK, NoWarnings
  <2>3. \A o \in Object : /\ DOMAIN result'[o] \subseteq Attribute /\ DOMAIN store'[o] \subseteq Attribute
                          /\ readings'[o] \in Seq(Readings[o]) /\ shown'[o] \in Readings[o] \cup {NoData}
    BY <1>1, <1>3, <1>4 DEF IInv, TypeOK
  <2>4. /\ member' \in [Host -> Cluster] /\ moved' \subseteq Host /\ keys' \subseteq Object
        /\ todo' \in Seq(Cluster) /\ failed' \in Nat
    BY <1>1, <1>3 DEF IInv, TypeOK
  <2>5. QED
    BY <1>1, <1>2, <2>1, <2>2, <2>3, <2>4 DEF TypeOK, QueryInv
<1>6. Progress'
  BY <1>1 DEF IInv, TypeOK, Progress
<1>7. Warnings'
  BY <1>1 DEF IInv, Warnings, NoWarnings
<1>8. Whole'
  BY <1>1, <1>3, <1>4 DEF IInv, Whole
<1>9. OnceWritten' /\ Updated'
  BY <1>1, <1>3, <1>4 DEF OnceWritten, Updated, IsInjective, Object
<1>10. QED
  BY <1>2, <1>5, <1>6, <1>7, <1>8, <1>9 DEF IInv

\* What is listed is what the query invariant says.
LEMMA ListClustersKeeps == ASSUME IInv, ListClusters PROVE IInv'
<1>1. /\ UNCHANGED <<member, moved, cycle, keys, todo, failed, result, health, readings, store, instance, shown, sent>>
      /\ pc = "list"
  BY DEF ListClusters, cycleVars, storeVars
<1>2. QueryInv'
  BY ReadPageKeeps, FailPageKeeps DEF IInv, ListClusters
<1>3. query' \in {"paging", "complete", "failed"} /\ events \subseteq events'
  BY DEF ListClusters, ReadPage, Reply, FailPage
<1>4. \/ query' = "paging" /\ pc' = "list"
      \/ query' = "complete" /\ pc' = "keys"
      \/ query' = "failed" /\ pc' = "error"
  BY <1>3 DEF ListClusters
<1>5. TypeOK'
  BY <1>1, <1>2, <1>4 DEF IInv, TypeOK, QueryInv
<1>6. Progress' /\ Warnings' /\ Whole'
  BY <1>1, <1>4 DEF IInv, Progress, Warnings, Whole
<1>7. OnceWritten' /\ Updated'
  BY <1>1, <1>3, <1>4 DEF IInv, OnceWritten, Updated
<1>8. QED
  BY <1>2, <1>5, <1>6, <1>7 DEF IInv

\* The clusters to collect are those listed.
LEMMA FetchKeysKeeps == ASSUME IInv, FetchKeys PROVE IInv'
<1>1. /\ UNCHANGED <<member, moved, cycle, failed, result, health, readings, store, instance, shown, sent>>
      /\ UNCHANGED <<inventory, changes, query, page, pages, resources, stayed, events>>
      /\ pc = "keys"
      /\ \/ pc' = "collect" /\ todo' = resources /\ keys' \subseteq Object
         \/ pc' = "error" /\ UNCHANGED <<keys, todo>>
  BY DEF FetchKeys, queryVars, progress, storeVars
<1>2. QueryInv'
  BY <1>1, QueryUntouched DEF IInv, QueryInv, QueryTypeOK, progress
<1>3. query = "complete" /\ cycle >= 1 /\ todo = <<>> /\ \A o \in Object : readings[o] = <<>>
  BY <1>1 DEF IInv, Progress, NoAttributes
<1>4. PresentIsListed /\ ListedOnce
  BY QueryInvImplies DEF IInv
<1>5. TypeOK'
  BY <1>1, <1>2, <1>3 DEF IInv, TypeOK, QueryInv, QueryTypeOK, Cluster
<1>6. Progress' /\ Warnings' /\ Whole'
  BY <1>1, <1>3 DEF IInv, Progress, Warnings, Whole
<1>7. OnceWritten'
  <2>1. \A o \in Object : Len(readings[o]) = 0
    BY <1>3, EmptySeq
  <2>2. CASE pc' = "collect"
    BY <1>1, <1>4, <2>1, <2>2 DEF OnceWritten, ListedOnce, Object
  <2>3. CASE pc' = "error"
    BY <1>1, <2>3 DEF IInv, OnceWritten
  <2>4. QED
    BY <1>1, <2>2, <2>3
<1>8. Updated'
  BY <1>1, <1>3 DEF Updated, Listed, Stayed
<1>9. QED
  BY <1>2, <1>5, <1>6, <1>7, <1>8 DEF IInv

\* There is a first warning as soon as there is any.
LEMMA WarnFacts ==
    ASSUME IInv, cycle >= 1, NEW n \in Nat
    PROVE  /\ Warn(health, n) \in [count : Nat, first : 1..cycle \cup {NoData}]
           /\ Warn(health, n).count = health.count + n /\ health.count \in Nat
           /\ Warn(health, n).count = 0 => Warn(health, n).first = NoData
           /\ Warn(health, n).count > 0 => Warn(health, n).first = cycle
<1>1. health.count \in Nat /\ health.first \in 1..cycle \cup {NoData} /\ cycle \in Nat
  BY ProjectionAssumption DEF IInv, TypeOK
<1>2. /\ health.count = 0 => health.first = NoData
      /\ health.count > 0 => health.first = cycle
  BY DEF IInv, Warnings
<1>3. QED
  BY <1>1, <1>2 DEF Warn

\* A cluster collected is written with its hosts, or missed with a warning.
LEMMA CollectClusterKeeps == ASSUME IInv, CollectCluster PROVE IInv'
<1> DEFINE c == Head(todo)
           read == {c} \cup HostsOf(c)
           missing == Cardinality(read \ keys) + IF HostsOf(c) = {} THEN 1 ELSE 0
<1>1. /\ UNCHANGED <<member, moved, pc, cycle, keys, store, instance, shown, sent>>
      /\ UNCHANGED <<inventory, changes, query, page, pages, resources, stayed, events>>
      /\ pc = "collect" /\ todo # <<>> /\ todo' = Tail(todo)
  BY DEF CollectCluster, queryVars, progress, storeVars
<1>2. /\ todo \in Seq(Cluster) /\ c \in Cluster /\ Tail(todo) \in Seq(Cluster)
      /\ ToSet(todo) = {c} \cup ToSet(Tail(todo))
      /\ IsInjective(todo) => IsInjective(Tail(todo)) /\ c \notin ToSet(Tail(todo))
  <2>1. todo \in Seq(Cluster)
    BY DEF IInv, TypeOK
  <2>2. QED
    BY <1>1, <2>1, TailFacts
<1>3. read \subseteq Object /\ Host \cap Cluster = {}
  BY <1>2, ProjectionAssumption DEF HostsOf, Object
<1>4. IsFiniteSet(read \ keys) /\ missing \in Nat /\ (missing = 0 => read \subseteq keys)
  <2>1. IsFiniteSet(HostsOf(c))
    BY ProjectionAssumption, FS_Subset DEF HostsOf
  <2>2. IsFiniteSet(read)
    BY <2>1, FS_AddElement
  <2>3. IsFiniteSet(read \ keys)
    BY <2>2, FS_Subset
  <2>4. Cardinality(read \ keys) \in Nat /\ (Cardinality(read \ keys) = 0 <=> read \ keys = {})
    BY <2>3, FS_CardinalityType, FS_EmptySet
  <2>5. QED
    BY <2>3, <2>4
<1> DEFINE Outcome(objects, more) ==
               \/ objects = read /\ health' = Warn(health, missing) /\ failed' = failed
               \/ more > 0 /\ health' = Warn(health, more) /\ failed' \in {failed, failed + 1}
<1>5. \E objects \in SUBSET read, more \in Nat : \E reading \in Reads(objects) :
          Project(reading) /\ Outcome(objects, more)
  <2>1. PICK hosts \in {HostsOf(c), {}} :
            \/ /\ \E reading \in Reads({c} \cup hosts) : Project(reading)
               /\ health' = Warn(health, Cardinality(({c} \cup hosts) \ keys) + IF hosts = {} THEN 1 ELSE 0)
               /\ failed' = failed
            \/ /\ \E done \in {{}} \cup {{c} \cup S : S \in SUBSET hosts \ {hosts}} :
                     \E reading \in Reads(done) : Project(reading)
               /\ failed' = failed + 1 /\ health' = Warn(health, 1)
    BY DEF CollectCluster
  <2>2. CASE \E done \in {{}} \cup {{c} \cup S : S \in SUBSET hosts \ {hosts}} :
                 (\E reading \in Reads(done) : Project(reading)) /\ failed' = failed + 1 /\ health' = Warn(health, 1)
    <3>1. PICK done \in {{}} \cup {{c} \cup S : S \in SUBSET hosts \ {hosts}} :
              (\E reading \in Reads(done) : Project(reading)) /\ failed' = failed + 1 /\ health' = Warn(health, 1)
      BY <2>2
    <3>2. done \in SUBSET read /\ 1 \in Nat /\ Outcome(done, 1)
      BY <2>1, <3>1
    <3>3. QED
      BY <3>1, <3>2
  <2>3. CASE /\ \E reading \in Reads({c} \cup hosts) : Project(reading)
             /\ health' = Warn(health, Cardinality(({c} \cup hosts) \ keys) + IF hosts = {} THEN 1 ELSE 0)
             /\ failed' = failed
    <3>1. CASE hosts = HostsOf(c)
      <4>1. read \in SUBSET read /\ 1 \in Nat /\ Outcome(read, 1)
        BY <2>3, <3>1
      <4>2. QED
        BY <2>3, <3>1, <4>1
    <3>2. CASE hosts = {}
      <4> DEFINE more == Cardinality({c} \ keys) + 1
      <4>1. more \in Nat /\ more > 0
        <5>1. IsFiniteSet({c} \ keys)
          BY FS_Singleton, FS_Subset
        <5>2. Cardinality({c} \ keys) \in Nat
          BY <5>1, FS_CardinalityType
        <5>3. QED
          BY <5>2
      <4>2. {c} \cup hosts = {c} /\ health' = Warn(health, more)
        BY <2>3, <3>2
      <4> HIDE DEF more
      <4>3. {c} \in SUBSET read /\ Outcome({c}, more)
        BY <2>3, <4>1, <4>2
      <4>4. QED
        BY <2>3, <4>1, <4>2, <4>3
    <3>3. QED
      BY <2>1, <3>1, <3>2
  <2>4. QED
    BY <2>1, <2>2, <2>3
<1>6. PICK objects \in SUBSET read, more \in Nat : \E reading \in Reads(objects) :
          Project(reading) /\ Outcome(objects, more)
  BY <1>5
<1>7. /\ Outcome(objects, more)
      /\ \A o \in Object : /\ DOMAIN result'[o] \subseteq Attribute
                           /\ readings'[o] \in Seq(Readings[o])
                           /\ readings'[o] = <<>> => DOMAIN result'[o] = {}
                           /\ readings'[o] # <<>> => Covers(result'[o], Last(readings'[o]))
      /\ \A o \in Object \cap objects \cap keys : readings'[o] # <<>>
      /\ \A o \in Object \ objects : readings'[o] = readings[o]
      /\ \A o \in Object : /\ readings[o] # <<>> => readings'[o] # <<>>
                           /\ Len(readings'[o]) <= Len(readings[o]) + 1
  <2>1. objects \in SUBSET Object
    BY <1>3
  <2>2. QED
    BY <1>6, <2>1, ProjectFacts
<1> HIDE DEF c, missing
<1>8. cycle >= 1 /\ health.count \in Nat
  BY <1>1, WarnFacts DEF IInv, Progress
<1>9. /\ health' \in [count : Nat, first : 1..cycle \cup {NoData}]
      /\ health'.count = 0 => health'.first = NoData
      /\ health'.count > 0 => health'.first = cycle
      /\ health'.count = 0 => health.count = 0 /\ objects = read /\ missing = 0
  <2>1. \A n \in {missing, more} :
            /\ Warn(health, n) \in [count : Nat, first : 1..cycle \cup {NoData}]
            /\ Warn(health, n).count = health.count + n
            /\ Warn(health, n).count = 0 => Warn(health, n).first = NoData
            /\ Warn(health, n).count > 0 => Warn(health, n).first = cycle
    BY <1>4, <1>8, WarnFacts
  <2>2. CASE objects = read /\ health' = Warn(health, missing)
    BY <1>4, <1>8, <2>1, <2>2
  <2>3. CASE more > 0 /\ health' = Warn(health, more)
    BY <1>4, <1>8, <2>1, <2>3
  <2>4. QED
    BY <1>7, <2>2, <2>3
<1>10. QueryInv'
  BY <1>1, QueryUntouched DEF IInv, QueryInv, QueryTypeOK, progress
<1>11. TypeOK'
  <2>1. failed' \in Nat
    BY <1>7 DEF IInv, TypeOK
  <2>2. {health', instance'} \subseteq [count : Nat, first : 1..cycle' \cup {NoData}]
    BY <1>1, <1>9 DEF IInv, TypeOK
  <2>3. QED
    BY <1>1, <1>2, <1>7, <1>10, <2>1, <2>2 DEF IInv, TypeOK, QueryInv
<1>12. Progress' /\ Warnings' /\ Whole'
  BY <1>1, <1>7, <1>9 DEF IInv, Progress, Warnings, Whole
<1>13. OnceWritten'
  <2>1. SUFFICES ASSUME "added" \notin events
                 PROVE  /\ IsInjective(Tail(todo))
                        /\ \A d \in Cluster : Len(readings'[d]) <= IF d \in ToSet(Tail(todo)) THEN 0 ELSE 1
                        /\ \A h \in Host \ moved :
                              Len(readings'[h]) <= IF member[h] \in ToSet(Tail(todo)) THEN 0 ELSE 1
    BY <1>1 DEF OnceWritten
  <2>2. /\ IsInjective(todo) /\ c \notin ToSet(Tail(todo)) /\ IsInjective(Tail(todo))
        /\ \A d \in Cluster : Len(readings[d]) <= IF d \in ToSet(todo) THEN 0 ELSE 1
        /\ \A h \in Host \ moved : Len(readings[h]) <= IF member[h] \in ToSet(todo) THEN 0 ELSE 1
    BY <1>2, <2>1 DEF IInv, OnceWritten
  <2>3. \A o \in Object : Len(readings[o]) \in Nat /\ Len(readings'[o]) \in Nat
    BY <1>7 DEF IInv, TypeOK
  <2>4. ASSUME NEW d \in Cluster
        PROVE  Len(readings'[d]) <= IF d \in ToSet(Tail(todo)) THEN 0 ELSE 1
    <3>1. d \in Object /\ (d # c => d \notin objects)
      BY <1>3 DEF HostsOf, Object
    <3>2. QED
      BY <1>2, <1>7, <2>2, <2>3, <3>1
  <2>5. ASSUME NEW h \in Host \ moved
        PROVE  Len(readings'[h]) <= IF member[h] \in ToSet(Tail(todo)) THEN 0 ELSE 1
    <3>1. h \in Object /\ (member[h] # c => h \notin objects)
      BY <1>2, <1>3 DEF HostsOf, Object
    <3>2. QED
      BY <1>2, <1>7, <2>2, <2>3, <3>1
  <2>6. QED
    BY <2>2, <2>4, <2>5
<1>14. Updated'
  <2>1. SUFFICES ASSUME health'.count = 0
                 PROVE  /\ \A d \in Listed : readings'[d] # <<>> \/ d \in ToSet(Tail(todo))
                        /\ \A h \in Host : Stayed(h) =>
                               readings'[h] # <<>> \/ member[h] \in ToSet(Tail(todo))
    BY <1>1 DEF Updated, Listed, Stayed
  <2>2. health.count = 0 /\ objects = read /\ read \subseteq keys
    BY <1>4, <1>9, <2>1
  <2>3. /\ \A d \in Listed : readings[d] # <<>> \/ d \in ToSet(todo)
        /\ \A h \in Host : Stayed(h) => readings[h] # <<>> \/ member[h] \in ToSet(todo)
    BY <1>1, <2>1, <2>2 DEF IInv, Updated
  <2>4. Listed \subseteq Object
    BY DEF IInv, QueryInv, QueryTypeOK, Listed, ToSet, Object, Cluster
  <2>5. \A d \in Listed : readings'[d] # <<>> \/ d \in ToSet(Tail(todo))
    BY <1>2, <1>3, <1>7, <2>2, <2>3, <2>4
  <2>6. ASSUME NEW h \in Host, Stayed(h)
        PROVE  readings'[h] # <<>> \/ member[h] \in ToSet(Tail(todo))
    <3>1. h \in Object /\ (member[h] = c => h \in objects \cap keys)
      BY <2>2 DEF HostsOf, Object
    <3>2. QED
      BY <1>2, <1>7, <2>3, <2>6, <3>1
  <2>7. QED
    BY <2>5, <2>6
<1>15. QED
  BY <1>10, <1>11, <1>12, <1>13, <1>14 DEF IInv

\* An error sends nothing.
LEMMA FailKeeps == ASSUME IInv, Fail PROVE IInv'
<1>1. /\ UNCHANGED <<member, moved, cycle, keys, todo, failed, result, health, readings, store, instance, shown, sent>>
      /\ UNCHANGED <<inventory, changes, query, page, pages, resources, stayed, events>>
      /\ pc = "collect" /\ pc' = "error" /\ todo = <<>>
  BY DEF Fail, queryVars, progress, cycleVars, storeVars
<1>2. QueryInv'
  BY <1>1, QueryUntouched DEF IInv, QueryInv, QueryTypeOK, progress
<1>3. TypeOK'
  BY <1>1, <1>2 DEF IInv, TypeOK, QueryInv
<1>4. Progress' /\ Warnings' /\ Whole' /\ OnceWritten' /\ Updated'
  BY <1>1 DEF IInv, Progress, Warnings, Whole, OnceWritten, Updated
<1>5. QED
  BY <1>2, <1>3, <1>4 DEF IInv

\* What is sent was projected in this cycle, over what was shown before.
LEMMA SendKeeps == ASSUME IInv, Send PROVE IInv'
<1>1. /\ UNCHANGED <<member, moved, cycle, keys, todo, failed, result, readings>>
      /\ UNCHANGED <<inventory, changes, query, page, pages, resources, stayed, events>>
      /\ pc = "collect" /\ pc' = "sent" /\ sent' = cycle /\ todo = <<>>
      /\ instance' = [count |-> health'.count,
                      first |-> IF health'.count > 0 THEN health'.first ELSE instance.first]
      /\ \A o \in Object : store'[o] = Over(result[o], store[o])
      /\ \A o \in Object : shown'[o] = IF readings[o] = <<>> THEN shown[o] ELSE Last(readings[o])
  BY DEF Send, queryVars, progress
<1>2. PICK n \in Nat : health' = Warn(health, n)
  <2>1. \A refused \in 0..1 : (IF failed > 0 THEN 1 ELSE 0) + 2 * refused \in Nat
    OBVIOUS
  <2>2. QED
    BY <2>1 DEF Send
<1>3. cycle >= 1 /\ cycle \in Nat
  BY <1>1, ProjectionAssumption DEF IInv, TypeOK, Progress
<1>4. /\ health' \in [count : Nat, first : 1..cycle \cup {NoData}]
      /\ health'.count = health.count + n /\ health.count \in Nat
      /\ health'.count = 0 => health'.first = NoData
      /\ health'.count > 0 => health'.first = cycle
  BY <1>2, <1>3, WarnFacts
<1>5. QueryInv'
  BY <1>1, QueryUntouched DEF IInv, QueryInv, QueryTypeOK, progress
<1>6. ASSUME NEW o \in Object, readings[o] # <<>> PROVE Last(readings[o]) \in Readings[o]
  <2>1. readings[o] \in Seq(Readings[o]) /\ Len(readings[o]) \in 1..Len(readings[o])
    BY <1>6, EmptySeq DEF IInv, TypeOK
  <2>2. QED
    BY <2>1, ElementOfSeq DEF Last
<1>7. TypeOK'
  <2>1. {health', instance'} \subseteq [count : Nat, first : 1..cycle' \cup {NoData}]
    BY <1>1, <1>4 DEF IInv, TypeOK
  <2>2. ASSUME NEW o \in Object
        PROVE  /\ DOMAIN store'[o] \subseteq Attribute
               /\ shown'[o] \in Readings[o] \cup {NoData}
    <3>1. /\ DOMAIN result[o] \subseteq Attribute /\ DOMAIN store[o] \subseteq Attribute
          /\ shown[o] \in Readings[o] \cup {NoData}
      BY DEF IInv, TypeOK
    <3>2. store'[o] = Over(result[o], store[o])
      BY <1>1
    <3>3. DOMAIN store'[o] = DOMAIN result[o] \cup DOMAIN store[o]
      BY <3>2 DEF Over
    <3>4. QED
      BY <1>1, <1>6, <3>1, <3>3
  <2>3. sent' \in 0..cycle' /\ pc' \in {"list", "keys", "collect", "sent", "error"}
    BY <1>1, <1>3
  <2>4. QED
    BY <1>1, <1>5, <2>1, <2>2, <2>3 DEF IInv, TypeOK, QueryInv
<1>8. Progress' /\ Warnings'
  BY <1>1, <1>4 DEF IInv, Progress, Warnings
<1>9. Whole'
  <2>1. ASSUME NEW o \in Object, shown'[o] # NoData PROVE Covers(store'[o], shown'[o])
    <3>1. CASE readings[o] = <<>>
      BY <1>1, <2>1, <3>1, CoversOver DEF IInv, Whole
    <3>2. CASE readings[o] # <<>>
      BY <1>1, <3>2, CoversOver DEF IInv, Whole
    <3>3. QED
      BY <3>1, <3>2
  <2>2. QED
    BY <1>1, <2>1 DEF IInv, Whole
<1>10. OnceWritten'
  BY <1>1 DEF IInv, OnceWritten
<1>11. Updated'
  <2>1. SUFFICES ASSUME instance'.count = 0
                 PROVE  /\ \A c \in Listed : readings[c] # <<>>
                        /\ \A h \in Host : Stayed(h) => readings[h] # <<>>
    BY <1>1 DEF Updated, Listed, Stayed
  <2>2. health.count = 0 /\ ToSet(todo) = {}
    BY <1>1, <1>2, <1>4, <2>1, EmptySeq DEF ToSet
  <2>3. QED
    BY <1>1, <2>1, <2>2 DEF IInv, Updated
<1>12. QED
  BY <1>5, <1>7, <1>8, <1>9, <1>10, <1>11 DEF IInv

\* Nothing happens.
LEMMA StutterKeeps == ASSUME IInv, UNCHANGED vars PROVE IInv'
<1>1. /\ UNCHANGED <<member, moved, pc, cycle, keys, todo, failed, result, health, readings>>
      /\ UNCHANGED <<inventory, changes, query, page, pages, resources, stayed, events>>
      /\ UNCHANGED <<store, instance, shown, sent>>
  BY DEF vars, queryVars, progress, cycleVars, storeVars
<1>2. QueryInv'
  BY <1>1, QueryUntouched DEF IInv, QueryInv, QueryTypeOK, progress
<1>3. TypeOK'
  BY <1>1, <1>2 DEF IInv, TypeOK, QueryInv
<1>4. Progress' /\ Warnings' /\ Whole' /\ OnceWritten' /\ Updated'
  BY <1>1 DEF IInv, Progress, Warnings, Whole, OnceWritten, Updated, Listed, Stayed
<1>5. QED
  BY <1>2, <1>3, <1>4 DEF IInv

\* The invariant is inductive.
LEMMA InvariantHolds == Spec => []IInv
<1>1. IInv /\ [Next]_vars => IInv'
  BY ChangeInventoryKeeps, MoveHostKeeps, BeginKeeps, ListClustersKeeps, FetchKeysKeeps,
     CollectClusterKeeps, FailKeeps, SendKeeps, StutterKeeps DEF Next, Terminated
<1>2. QED
  BY <1>1, InitHolds, PTL DEF Spec

--------------------------------------------------------------------------------
(* Whatever appears, vanishes, moves and fails, every variable keeps its    *)
(* type: only the attributes project() writes are ever stored, and a cycle  *)
(* is listing clusters as long as its query is paging.                      *)
THEOREM TypeCorrect == Spec => []TypeOK
<1>1. IInv => TypeOK
  BY DEF IInv
<1>2. QED
  BY <1>1, InvariantHolds, PTL

(* _query_resources() during which nothing changed lists the inventory.     *)
THEOREM QuietQueryIsExactAlways == Spec => []QuietQueryIsExact
<1>1. IInv => QuietQueryIsExact
  BY QueryInvImplies DEF IInv
<1>2. QED
  BY <1>1, InvariantHolds, PTL

(* _query_resources() during which resources were only discovered lists all *)
(* that were there throughout: insertion shifts them to pages still to read.*)
THEOREM PresentIsListedAlways == Spec => []PresentIsListed
<1>1. IInv => PresentIsListed
  BY QueryInvImplies DEF IInv
<1>2. QED
  BY <1>1, InvariantHolds, PTL

(* _query_resources() during which resources were only forgotten lists none *)
(* twice: removal shifts them to pages already read.                        *)
THEOREM ListedOnceAlways == Spec => []ListedOnce
<1>1. IInv => ListedOnce
  BY QueryInvImplies DEF IInv
<1>2. QED
  BY <1>1, InvariantHolds, PTL

(* What VCF Operations shows of an object is its last reading and nothing   *)
(* of an earlier one in its place: project() writes the band of every key,  *)
(* so what is no longer known does not stay.                                *)
THEOREM ReadingIsWholeAlways == Spec => []ReadingIsWhole
<1>1. IInv => ReadingIsWhole
  <2>1. SUFFICES ASSUME IInv, NEW o \in Object, shown[o] # NoData
                 PROVE  LET v == shown[o]
                            Shows(a, value) == a \in DOMAIN store[o] /\ store[o][a] = value
                        IN  /\ \A k \in Key : Shows(<<"band", k>>, band(v, k))
                            /\ \A k \in Known(v) : Shows(<<"metric", k>>, v[k])
                            /\ Shows(<<"composite", "band">>, composite_band(v))
                            /\ Known(v) # {} =>
                                  /\ Shows(<<"composite", "level">>, BAND_LEVELS[composite_band(v)])
                                  /\ Shows(<<"composite", "count">>, worst_count(v))
    BY DEF ReadingIsWhole
  <2>2. Covers(store[o], shown[o])
    BY <2>1 DEF IInv, Whole
  <2>3. QED
    BY <2>2, AttributesFacts DEF Covers
<1>2. QED
  BY <1>1, InvariantHolds, PTL

(* The clusters are listed once and a host is in one cluster, so that a     *)
(* cycle writes nothing twice unless one appeared in the listing or moved.  *)
THEOREM WrittenTwiceOnlyIfChangedAlways == Spec => []WrittenTwiceOnlyIfChanged
<1>1. IInv => WrittenTwiceOnlyIfChanged
  <2>1. SUFFICES ASSUME IInv, "added" \notin events
                 PROVE  /\ \A c \in Cluster : ~(Len(readings[c]) > 1)
                        /\ \A h \in Host \ moved : ~(Len(readings[h]) > 1)
    BY DEF WrittenTwiceOnlyIfChanged
  <2>2. \A o \in Cluster \cup Host : Len(readings[o]) \in Nat
    BY <2>1 DEF IInv, TypeOK, Object
  <2>3. QED
    BY <2>1, <2>2 DEF IInv, OnceWritten
<1>2. QED
  BY <1>1, InvariantHolds, PTL

(* Every cluster that failed, every object without a key and every cluster  *)
(* without hosts is a warning: without one, nothing that was listed was     *)
(* left out.  Nothing is said here of what the listing missed.              *)
THEOREM HealthyMeansUpdatedAlways == Spec => []HealthyMeansUpdated
<1>1. IInv => HealthyMeansUpdated
  BY DEF IInv, Updated, Listed, Stayed, HealthyMeansUpdated
<1>2. QED
  BY <1>1, InvariantHolds, PTL

(* The CollectionHealth of a cycle knows the warnings of that cycle only,   *)
(* and what it publishes replaces what an earlier one did.                  *)
THEOREM FirstWarningIsCurrentAlways == Spec => []FirstWarningIsCurrent
<1>1. IInv => FirstWarningIsCurrent
  BY DEF IInv, Warnings, FirstWarningIsCurrent
<1>2. QED
  BY <1>1, InvariantHolds, PTL
================================================================================
