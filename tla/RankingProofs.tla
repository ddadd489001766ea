---------------------------- MODULE RankingProofs ----------------------------
(***************************************************************************)
(* What the evidence makes of the candidates, for any batches, policies    *)
(* and limits.                                                             *)
(***************************************************************************)
EXTENDS Ranking, EvidenceProofs

-----------------------------------------------------------------------------
(***************************************************************************)
(* Counting a finite set of numbers from its end.                          *)
(***************************************************************************)

From(S, i) == {j \in S : j >= i}

\* The last n of them.
LastFew(S, n) == {i \in S : Cardinality(From(S, i)) <= n}

LEMMA FromFinite ==
  ASSUME NEW S \in SUBSET Nat, IsFiniteSet(S), NEW i \in S
  PROVE  /\ IsFiniteSet(From(S, i)) /\ From(S, i) \in SUBSET S
         /\ Cardinality(From(S, i)) \in Nat \ {0}
         /\ Cardinality(From(S, i)) <= Cardinality(S) /\ Cardinality(S) \in Nat
<1>1. From(S, i) \in SUBSET S /\ i \in From(S, i)
  BY DEF From
<1>2. IsFiniteSet(From(S, i)) /\ Cardinality(From(S, i)) <= Cardinality(S)
  BY <1>1, FS_Subset
<1>3. Cardinality(From(S, i)) \in Nat /\ Cardinality(S) \in Nat
  BY <1>2, FS_CardinalityType
<1>4. Cardinality(From(S, i)) # 0
  BY <1>1, <1>2, FS_EmptySet
<1> QED
  BY <1>1, <1>2, <1>3, <1>4

LEMMA LastFewCounted ==
  ASSUME NEW n \in Nat
  PROVE  \A S \in SUBSET Nat : IsFiniteSet(S) =>
           Cardinality(LastFew(S, n)) = IF Cardinality(S) <= n THEN Cardinality(S) ELSE n
<1> DEFINE Counted(S) ==
             Cardinality(LastFew(S, n)) = IF Cardinality(S) <= n THEN Cardinality(S) ELSE n
           T == {m \in Nat : \A S \in SUBSET Nat :
                   IsFiniteSet(S) /\ Cardinality(S) = m => Counted(S)}
<1>1. 0 \in T
  <2> SUFFICES ASSUME NEW S \in SUBSET Nat, IsFiniteSet(S), Cardinality(S) = 0
               PROVE  Counted(S)
    OBVIOUS
  <2>1. S = {}
    BY FS_EmptySet
  <2>2. LastFew(S, n) = {}
    BY <2>1 DEF LastFew
  <2> QED
    BY <2>1, <2>2
<1>2. ASSUME NEW m \in Nat, m \in T PROVE m + 1 \in T
  <2> SUFFICES ASSUME NEW S \in SUBSET Nat, IsFiniteSet(S), Cardinality(S) = m + 1
               PROVE  Counted(S)
    OBVIOUS
  <2>1. S # {}
    BY FS_EmptySet
  <2>2. PICK x \in S : \A y \in S : x <= y
    BY <2>1, HasLeast
  <2> DEFINE R == S \ {x}
  <2>3. IsFiniteSet(R) /\ Cardinality(R) = m /\ R \in SUBSET Nat
    <3>1. IsFiniteSet(R) /\ Cardinality(R) = Cardinality(S) - 1
      BY FS_RemoveElement
    <3> QED
      BY <3>1
  <2>4. Counted(R)
    BY <1>2, <2>3
  <2>5. \A i \in R : From(S, i) = From(R, i)
    BY <2>2 DEF From
  <2>6. From(S, x) = S
    BY <2>2 DEF From
  <2>7. CASE m + 1 <= n
    <3>1. \A i \in S : Cardinality(From(S, i)) \in Nat /\ Cardinality(From(S, i)) <= m + 1
      BY FromFinite
    <3>2. \A i \in S : Cardinality(From(S, i)) <= n
      BY <2>7, <3>1
    <3>3. LastFew(S, n) = S
      BY <3>2 DEF LastFew
    <3> QED
      BY <2>7, <3>3
  <2>8. CASE ~(m + 1 <= n)
    <3>1. x \notin LastFew(S, n)
      BY <2>6, <2>8 DEF LastFew
    <3>2. LastFew(S, n) = LastFew(R, n)
      <4>1. \A i \in R : i \in LastFew(S, n) <=> i \in LastFew(R, n)
        BY <2>5 DEF LastFew
      <4> QED
        BY <3>1, <4>1 DEF LastFew
    <3>3. Cardinality(LastFew(R, n)) = n
      BY <2>3, <2>4, <2>8
    <3> QED
      BY <2>8, <3>2, <3>3
  <2> QED
    BY <2>7, <2>8
<1> HIDE DEF T
<1>3. \A m \in Nat : m \in T
  BY <1>1, <1>2, SetInduction
<1>4. ASSUME NEW S \in SUBSET Nat, IsFiniteSet(S) PROVE Counted(S)
  <2>1. Cardinality(S) \in Nat
    BY <1>4, FS_CardinalityType
  <2>2. Cardinality(S) \in T
    BY <1>3, <2>1
  <2> QED
    BY <1>4, <2>2 DEF T
<1> QED
  BY <1>4

LEMMA FirstOfLastFew ==
  ASSUME NEW S \in SUBSET Nat, IsFiniteSet(S), S # {}, NEW n \in Nat \ {0}
  PROVE  /\ Min(LastFew(S, n)) \in LastFew(S, n) /\ LastFew(S, n) \in SUBSET S
         /\ From(S, Min(LastFew(S, n))) = LastFew(S, n)
<1> DEFINE few == LastFew(S, n)
<1>1. few \in SUBSET S /\ IsFiniteSet(few)
  BY FS_Subset DEF LastFew
<1>2. few # {}
  <2>1. Cardinality(few) = IF Cardinality(S) <= n THEN Cardinality(S) ELSE n
    BY LastFewCounted
  <2>2. Cardinality(S) # 0
    BY FS_EmptySet
  <2>3. Cardinality(few) # 0
    BY <2>1, <2>2
  <2> QED
    BY <2>3, FS_EmptySet
<1>3. Min(few) \in few /\ \A y \in few : Min(few) <= y
  <2>1. few \in SUBSET Nat
    BY <1>1
  <2>2. \E x \in few : \A y \in few : x <= y
    BY <1>2, <2>1, HasLeast
  <2> QED
    BY <2>2 DEF Min
<1>4. Cardinality(From(S, Min(few))) <= n /\ Min(few) \in S
  BY <1>3 DEF LastFew
<1> HIDE DEF few
<1>5. ASSUME NEW j \in From(S, Min(few)) PROVE j \in few
  <2>1. j \in S /\ j >= Min(few) /\ Min(few) \in Nat
    BY <1>4 DEF From
  <2>2. From(S, j) \in SUBSET From(S, Min(few))
    <3>1. \A y \in S : y \in Nat
      OBVIOUS
    <3>2. \A y \in S : y >= j => y >= Min(few)
      BY <2>1, <3>1
    <3> QED
      BY <3>2 DEF From
  <2>3. /\ IsFiniteSet(From(S, Min(few))) /\ Cardinality(From(S, Min(few))) \in Nat
        /\ Cardinality(From(S, j)) \in Nat
    BY <1>4, <2>1, FromFinite
  <2>4. Cardinality(From(S, j)) <= Cardinality(From(S, Min(few)))
    BY <2>2, <2>3, FS_Subset
  <2>5. Cardinality(From(S, j)) <= n
    BY <1>4, <2>3, <2>4
  <2> QED
    BY <2>1, <2>5 DEF few, LastFew
<1>6. \A j \in few : j \in From(S, Min(few))
  BY <1>1, <1>3 DEF From
<1> QED
  BY <1>1, <1>3, <1>5, <1>6 DEF few, From

\* Every distance from the end occurs, and a later element is nearer to it.
LEMMA EveryPlace ==
  ASSUME NEW S \in SUBSET Nat, IsFiniteSet(S), NEW e \in 1..Cardinality(S)
  PROVE  \E i \in S : Cardinality(From(S, i)) = e
<1>1. Cardinality(S) \in Nat /\ e \in Nat \ {0} /\ e <= Cardinality(S)
  BY FS_CardinalityType
<1>2. S # {}
  BY <1>1, FS_EmptySet
<1>3. Min(LastFew(S, e)) \in S /\ From(S, Min(LastFew(S, e))) = LastFew(S, e)
  BY <1>1, <1>2, FirstOfLastFew
<1>4. Cardinality(LastFew(S, e)) = e
  BY <1>1, LastFewCounted
<1> QED
  BY <1>3, <1>4

LEMMA LaterIsNearer ==
  ASSUME NEW S \in SUBSET Nat, IsFiniteSet(S), NEW i \in S, NEW j \in S,
         Cardinality(From(S, j)) < Cardinality(From(S, i))
  PROVE  i < j
<1> SUFFICES ASSUME ~(i < j) PROVE FALSE
  OBVIOUS
<1>1. i \in Nat /\ j \in Nat /\ j <= i
  OBVIOUS
<1>2. From(S, i) \in SUBSET From(S, j)
  <2>1. \A y \in S : y \in Nat
    OBVIOUS
  <2>2. \A y \in S : y >= i => y >= j
    BY <1>1, <2>1
  <2> QED
    BY <2>2 DEF From
<1>3. IsFiniteSet(From(S, j)) /\ Cardinality(From(S, j)) \in Nat /\ Cardinality(From(S, i)) \in Nat
  BY FromFinite
<1>4. Cardinality(From(S, i)) <= Cardinality(From(S, j))
  BY <1>2, <1>3, FS_Subset
<1> QED
  BY <1>3, <1>4

LEMMA GreatestIsLast ==
  ASSUME NEW S \in SUBSET Nat, IsFiniteSet(S), S # {}
  PROVE  Max(S) \in S /\ (\A y \in S : y <= Max(S)) /\ Cardinality(From(S, Max(S))) = 1
<1>1. 1 \in 1..Cardinality(S)
  BY FS_EmptySet, FS_CardinalityType
<1>2. PICK i \in S : Cardinality(From(S, i)) = 1
  BY <1>1, EveryPlace
<1>3. IsFiniteSet(From(S, i)) /\ i \in From(S, i)
  BY FromFinite DEF From
<1>4. From(S, i) = {i}
  BY <1>2, <1>3, FS_Singleton
<1>5. \A y \in S : y <= i
  BY <1>4 DEF From
<1>6. i \in Nat
  OBVIOUS
<1>7. Max(S) \in S /\ \A y \in S : y <= Max(S)
  BY <1>5, <1>6, HasGreatest
<1>8. Max(S) = i
  <2>1. Max(S) <= i /\ i <= Max(S) /\ Max(S) \in Nat
    BY <1>5, <1>7
  <2> QED
    BY <1>6, <2>1
<1> QED
  BY <1>2, <1>7, <1>8

-----------------------------------------------------------------------------
(***************************************************************************)
(* What a series holds, in terms of the history.                           *)
(***************************************************************************)

Few(key) == LastFew(OfNewest(key), SampleLimit)

Ascending(samples) ==
  \A i, j \in 1..Len(samples) : i < j => samples[i].sequence <= samples[j].sequence

LEMMA HistoryTyped ==
  ASSUME EvidenceInv
  PROVE  /\ Len(arrivals) \in Nat /\ DOMAIN arrivals = 1..Len(arrivals)
         /\ \A i \in DOMAIN arrivals :
              /\ arrivals[i] \in ArrivalRecord
              /\ arrivals[i].generation \in Nat /\ arrivals[i].quality \in 1..4
              /\ arrivals[i].sample \in SampleRecord
              /\ arrivals[i].sample.sequence \in Nat /\ arrivals[i].sample.accepted_at \in Nat
<1>1. arrivals \in Seq(ArrivalRecord)
  BY DEF EvidenceInv
<1>2. /\ Len(arrivals) \in Nat /\ DOMAIN arrivals = 1..Len(arrivals)
      /\ \A i \in DOMAIN arrivals : arrivals[i] \in ArrivalRecord
  BY <1>1, LenProperties
<1>3. \A a \in ArrivalRecord :
        /\ a.generation \in Nat /\ a.quality \in 1..4 /\ a.sample \in SampleRecord
        /\ a.sample.sequence \in Nat /\ a.sample.accepted_at \in Nat
  BY DEF ArrivalRecord, SampleRecord
<1> QED
  BY <1>2, <1>3

LEMMA NewestPlaces ==
  ASSUME EvidenceInv, NEW key
  PROVE  /\ OfNewest(key) \in SUBSET Nat /\ OfNewest(key) \in SUBSET DOMAIN arrivals
         /\ IsFiniteSet(OfNewest(key)) /\ Cardinality(OfNewest(key)) \in Nat
         /\ \A i \in OfNewest(key) :
              arrivals[i].key = key /\ FromTheEnd(i) = Cardinality(From(OfNewest(key), i))
<1>1. Len(arrivals) \in Nat /\ DOMAIN arrivals = 1..Len(arrivals)
  BY HistoryTyped
<1>2. OfNewest(key) \in SUBSET DOMAIN arrivals /\ \A i \in OfNewest(key) : arrivals[i].key = key
  BY DEF OfNewest, Under
<1>3. IsFiniteSet(DOMAIN arrivals)
  BY <1>1, FS_Interval
<1>4. IsFiniteSet(OfNewest(key)) /\ Cardinality(OfNewest(key)) \in Nat
  BY <1>2, <1>3, FS_Subset, FS_CardinalityType
<1>5. ASSUME NEW i \in OfNewest(key) PROVE FromTheEnd(i) = Cardinality(From(OfNewest(key), i))
  <2>1. arrivals[i].key = key
    BY <1>2
  <2> QED
    BY <2>1 DEF FromTheEnd, From
<1> QED
  BY <1>1, <1>2, <1>4, <1>5

\* The last arrival under a key is of the newest incarnation.
LEMMA LastIsNewest ==
  ASSUME EvidenceInv, NEW key \in DOMAIN series
  PROVE  /\ OfNewest(key) # {} /\ Max(OfNewest(key)) \in OfNewest(key)
         /\ EndsWith(series[key], arrivals[Max(OfNewest(key))])
<1> DEFINE m == Len(arrivals)
<1>1. /\ m \in Nat /\ DOMAIN arrivals = 1..m /\ Reflects(series, arrivals, m)
      /\ \A i \in 1..m : arrivals[i].generation \in Nat
  BY HistoryTyped DEF EvidenceInv
<1> HIDE DEF m
<1>2. PICK i \in 1..m : arrivals[i].key = key
  BY <1>1 DEF Reflects
<1>3. PICK l \in i..m : arrivals[l].key = arrivals[i].key /\ LastUnder(arrivals, m, l)
  BY <1>1, LastExists, Zenon
<1>4. l \in 1..m /\ l \in DOMAIN arrivals
  BY <1>1
<1>5. EndsWith(series[key], arrivals[l])
  BY <1>1, <1>2, <1>3, <1>4 DEF Reflects
<1>6. l \in Under(key) /\ \A j \in Under(key) : j \in 1..m /\ j <= l
  BY <1>1, <1>2, <1>3, <1>4 DEF Under, LastUnder
<1>7. ASSUME NEW j \in Under(key) PROVE arrivals[j].generation <= arrivals[l].generation
  <2>1. /\ j \in 1..m /\ l \in 1..m /\ arrivals[j].key = arrivals[l].key
        /\ j = l \/ j < l
    BY <1>1, <1>4, <1>6 DEF Under
  <2>2. arrivals[j].generation \in Nat /\ arrivals[l].generation \in Nat
    BY <1>1, <2>1
  <2> QED
    BY <1>1, <2>1, <2>2 DEF EvidenceInv, AcceptedInOrder
<1>8. l \in OfNewest(key) /\ \A j \in OfNewest(key) : j <= l
  BY <1>6, <1>7 DEF OfNewest
<1>9. /\ OfNewest(key) \in SUBSET Nat /\ Max(OfNewest(key)) \in OfNewest(key)
      /\ \A j \in OfNewest(key) : j <= Max(OfNewest(key))
  BY <1>8, NewestPlaces, GreatestIsLast
<1>10. Max(OfNewest(key)) = l
  <2>1. Max(OfNewest(key)) \in Nat /\ l \in Nat /\ Max(OfNewest(key)) <= l
        /\ l <= Max(OfNewest(key))
    BY <1>8, <1>9
  <2> QED
    BY <2>1
<1> QED
  BY <1>5, <1>8, <1>10

LEMMA SeriesHolds ==
  ASSUME RetentionInv, NEW key \in DOMAIN series
  PROVE  LET samples == series[key].samples
             kept == Len(samples)
         IN  /\ samples \in Seq(SampleRecord) /\ kept \in Nat \ {0}
             /\ kept = Cardinality(Few(key)) /\ kept <= Cardinality(OfNewest(key))
             /\ \A i \in OfNewest(key) : Cardinality(From(OfNewest(key), i)) <= kept =>
                  samples[kept + 1 - Cardinality(From(OfNewest(key), i))] = arrivals[i].sample
             /\ samples[1] = arrivals[Min(Few(key))].sample
             /\ samples[kept] = arrivals[Max(OfNewest(key))].sample
             /\ Min(Few(key)) \in Few(key)
<1> DEFINE samples == series[key].samples
           kept == Len(samples)
           N == OfNewest(key)
<1>1. EvidenceInv /\ RetainsTheNewest
  BY Retention DEF RetentionInv
<1>2. /\ N \in SUBSET Nat /\ IsFiniteSet(N) /\ Cardinality(N) \in Nat
      /\ \A i \in N : FromTheEnd(i) = Cardinality(From(N, i))
  BY <1>1, NewestPlaces
<1>3. N # {} /\ Max(N) \in N /\ EndsWith(series[key], arrivals[Max(N)])
  BY <1>1, LastIsNewest
<1>4. samples \in Seq(SampleRecord) /\ samples # <<>>
  BY <1>3 DEF EndsWith
<1>5. kept \in Nat \ {0}
  BY <1>4, EmptySeq, LenProperties
<1>6. SampleLimit \in Nat \ {0}
  BY EvidenceAssumption
<1>7. /\ kept = Min({SampleLimit, Cardinality(N)})
      /\ \A i \in N : FromTheEnd(i) <= kept =>
           samples[kept + 1 - FromTheEnd(i)] = arrivals[i].sample
  BY <1>1 DEF RetainsTheNewest
<1>8. kept = IF SampleLimit <= Cardinality(N) THEN SampleLimit ELSE Cardinality(N)
  BY <1>2, <1>6, <1>7, MinOfTwo
<1>9. Cardinality(Few(key)) = IF Cardinality(N) <= SampleLimit THEN Cardinality(N) ELSE SampleLimit
  BY <1>2, <1>6, LastFewCounted DEF Few
<1> HIDE DEF kept, N, samples
<1>10. kept = Cardinality(Few(key)) /\ kept <= Cardinality(N)
  BY <1>2, <1>6, <1>8, <1>9
<1>11. \A i \in N : Cardinality(From(N, i)) <= kept =>
         samples[kept + 1 - Cardinality(From(N, i))] = arrivals[i].sample
  BY <1>2, <1>7
<1>12. /\ Min(Few(key)) \in Few(key) /\ Min(Few(key)) \in N
       /\ From(N, Min(Few(key))) = Few(key)
  BY <1>2, <1>3, <1>6, FirstOfLastFew DEF Few, N
<1>13. samples[1] = arrivals[Min(Few(key))].sample
  <2>1. Cardinality(From(N, Min(Few(key)))) = kept
    BY <1>10, <1>12
  <2>2. samples[kept + 1 - kept] = arrivals[Min(Few(key))].sample
    BY <1>5, <1>11, <1>12, <2>1
  <2>3. kept + 1 - kept = 1
    BY <1>5
  <2> QED
    BY <2>2, <2>3
<1>14. samples[kept] = arrivals[Max(N)].sample
  <2>1. Cardinality(From(N, Max(N))) = 1
    BY <1>2, <1>3, GreatestIsLast
  <2>2. samples[kept + 1 - 1] = arrivals[Max(N)].sample
    BY <1>3, <1>5, <1>11, <2>1
  <2>3. kept + 1 - 1 = kept
    BY <1>5
  <2> QED
    BY <2>2, <2>3
<1> QED
  BY <1>4, <1>5, <1>10, <1>11, <1>12, <1>13, <1>14 DEF samples, kept, N

LEMMA SeriesAscend ==
  ASSUME RetentionInv, NEW key \in DOMAIN series
  PROVE  Ascending(series[key].samples)
<1> DEFINE samples == series[key].samples
           kept == Len(samples)
           N == OfNewest(key)
<1>1. EvidenceInv
  BY DEF RetentionInv
<1>2. /\ N \in SUBSET Nat /\ N \in SUBSET DOMAIN arrivals
      /\ IsFiniteSet(N) /\ Cardinality(N) \in Nat /\ \A i \in N : arrivals[i].key = key
  BY <1>1, NewestPlaces
<1>3. /\ kept \in Nat /\ kept <= Cardinality(N)
      /\ \A i \in N : Cardinality(From(N, i)) <= kept =>
           samples[kept + 1 - Cardinality(From(N, i))] = arrivals[i].sample
  BY SeriesHolds
<1>4. \A i \in DOMAIN arrivals : arrivals[i].generation \in Nat /\ arrivals[i].sample.sequence \in Nat
  BY <1>1, HistoryTyped
<1>5. \A i, j \in N : arrivals[i].generation <= arrivals[j].generation
  BY DEF OfNewest
<1> HIDE DEF kept, N, samples
<1>6. ASSUME NEW a \in 1..kept
      PROVE  \E i \in N : /\ Cardinality(From(N, i)) = kept + 1 - a
                          /\ samples[a] = arrivals[i].sample
  <2>1. /\ kept + 1 - a \in 1..Cardinality(N) /\ kept + 1 - a <= kept
        /\ kept + 1 - (kept + 1 - a) = a
    BY <1>2, <1>3
  <2>2. PICK i \in N : Cardinality(From(N, i)) = kept + 1 - a
    BY <1>2, <2>1, EveryPlace
  <2>3. samples[kept + 1 - (kept + 1 - a)] = arrivals[i].sample
    BY <1>3, <2>1, <2>2
  <2> QED
    BY <2>1, <2>2, <2>3
<1>7. ASSUME NEW a \in 1..kept, NEW b \in 1..kept, a < b
      PROVE  samples[a].sequence <= samples[b].sequence
  <2>1. PICK i \in N : Cardinality(From(N, i)) = kept + 1 - a /\ samples[a] = arrivals[i].sample
    BY <1>6
  <2>2. PICK j \in N : Cardinality(From(N, j)) = kept + 1 - b /\ samples[b] = arrivals[j].sample
    BY <1>6
  <2>3. kept + 1 - b < kept + 1 - a
    BY <1>3, <1>7
  <2>4. i < j
    BY <1>2, <2>1, <2>2, <2>3, LaterIsNearer
  <2>5. /\ i \in DOMAIN arrivals /\ j \in DOMAIN arrivals
        /\ arrivals[i].key = arrivals[j].key
        /\ arrivals[i].generation <= arrivals[j].generation
        /\ arrivals[j].generation <= arrivals[i].generation
        /\ arrivals[i].generation \in Nat /\ arrivals[j].generation \in Nat
        /\ arrivals[i].sample.sequence \in Nat /\ arrivals[j].sample.sequence \in Nat
    BY <1>2, <1>4, <1>5
  <2>6. AcceptedInOrder
    BY <1>1 DEF EvidenceInv
  <2>7. arrivals[i].sample.sequence <= arrivals[j].sample.sequence
    BY <2>4, <2>5, <2>6 DEF AcceptedInOrder
  <2> QED
    BY <2>1, <2>2, <2>7
<1> QED
  BY <1>7 DEF Ascending, samples, kept

-----------------------------------------------------------------------------
(***************************************************************************)
(* Sorting.                                                                *)
(***************************************************************************)

NoLater(keys, i) ==
  {j \in DOMAIN keys : \/ keys[j] < keys[i]
                       \/ keys[j] = keys[i] /\ j <= i}

LEMMA StableOrderIs ==
  ASSUME NEW keys
  PROVE  /\ DOMAIN StableOrder(keys) = DOMAIN keys
         /\ \A place \in DOMAIN keys : StableOrder(keys)[place] =
              CHOOSE i \in DOMAIN keys : Cardinality(NoLater(keys, i)) = place
BY DEF StableOrder, NoLater

\* What is in order stays where it is.
LEMMA AscendingStays ==
  ASSUME NEW n \in Nat, NEW keys, DOMAIN keys = 1..n, \A i \in 1..n : keys[i] \in Nat,
         \A i, j \in 1..n : i < j => keys[i] <= keys[j]
  PROVE  \A place \in 1..n : StableOrder(keys)[place] = place
<1>1. ASSUME NEW i \in 1..n PROVE Cardinality(NoLater(keys, i)) = i
  <2>1. ASSUME NEW j \in 1..n PROVE (keys[j] < keys[i] \/ (keys[j] = keys[i] /\ j <= i)) <=> j <= i
    <3>1. keys[i] \in Nat /\ keys[j] \in Nat
      OBVIOUS
    <3>2. CASE j < i
      <4>1. keys[j] <= keys[i]
        BY <3>2
      <4> QED
        BY <3>1, <3>2, <4>1
    <3>3. CASE i < j
      <4>1. keys[i] <= keys[j]
        BY <3>3
      <4> QED
        BY <3>1, <3>3, <4>1
    <3>4. CASE i = j
      BY <3>1, <3>4
    <3> QED
      BY <3>2, <3>3, <3>4
  <2>2. NoLater(keys, i) = 1..i
    <3>1. NoLater(keys, i) = {j \in 1..n : j <= i}
      BY <2>1 DEF NoLater
    <3>2. {j \in 1..n : j <= i} = 1..i
      OBVIOUS
    <3> QED
      BY <3>1, <3>2
  <2>3. Cardinality(1..i) = i
    <3>1. Cardinality(1..i) = IF 1 > i THEN 0 ELSE i - 1 + 1
      BY FS_Interval
    <3> QED
      BY <3>1
  <2> QED
    BY <2>2, <2>3
<1>2. ASSUME NEW place \in 1..n PROVE StableOrder(keys)[place] = place
  <2>1. Cardinality(NoLater(keys, place)) = place
    BY <1>1
  <2>2. \A i \in 1..n : Cardinality(NoLater(keys, i)) = place => i = place
    BY <1>1
  <2>3. (CHOOSE i \in 1..n : Cardinality(NoLater(keys, i)) = place) = place
    BY <2>1, <2>2
  <2> QED
    BY <2>3, StableOrderIs, ZenonT(40)
<1> QED
  BY <1>2

LEMMA InOrderAlready ==
  ASSUME NEW samples \in Seq(SampleRecord), Ascending(samples)
  PROVE  InObservationOrder(samples) = samples
<1> DEFINE keys == [i \in DOMAIN samples |-> samples[i].sequence]
           n == Len(samples)
<1>1. n \in Nat /\ DOMAIN samples = 1..n /\ \A i \in 1..n : samples[i] \in SampleRecord
  BY LenProperties
<1>2. DOMAIN keys = 1..n /\ \A i \in 1..n : keys[i] = samples[i].sequence
  BY <1>1
<1>3. \A i \in 1..n : keys[i] \in Nat
  BY <1>1, <1>2 DEF SampleRecord
<1>4. \A i, j \in 1..n : i < j => keys[i] <= keys[j]
  BY <1>2 DEF Ascending
<1>5. InObservationOrder(samples) =
        [place \in DOMAIN samples |-> samples[StableOrder(keys)[place]]]
  BY DEF InObservationOrder
<1> HIDE DEF keys, n
<1>6. \A place \in 1..n : StableOrder(keys)[place] = place
  BY <1>1, <1>2, <1>3, <1>4, AscendingStays
<1>7. InObservationOrder(samples) = [place \in 1..n |-> samples[place]]
  BY <1>1, <1>5, <1>6
<1>8. samples = [place \in 1..n |-> samples[place]]
  BY <1>1 DEF n
<1> QED
  BY <1>7, <1>8

-----------------------------------------------------------------------------
(***************************************************************************)
(* What lookup_metric finds.                                               *)
(***************************************************************************)

LEMMA KeysTyped ==
  ASSUME EvidenceInv, NEW key \in DOMAIN series
  PROVE  key \in Key /\ series[key].quality \in 1..4
<1>1. OfNewest(key) # {} /\ Max(OfNewest(key)) \in OfNewest(key)
      /\ EndsWith(series[key], arrivals[Max(OfNewest(key))])
  BY LastIsNewest
<1>2. Max(OfNewest(key)) \in DOMAIN arrivals /\ arrivals[Max(OfNewest(key))].key = key
  BY <1>1, NewestPlaces
<1>3. arrivals[Max(OfNewest(key))] \in ArrivalRecord
  BY <1>2, HistoryTyped
<1> QED
  BY <1>1, <1>2, <1>3 DEF EndsWith, ArrivalRecord

\* The series that may be chosen.
Best(path, requirement) ==
  {key \in Qualified(path, requirement) :
     \A other \in Qualified(path, requirement) \ {key} :
       \/ series[key].quality > series[other].quality
       \/ /\ series[key].quality = series[other].quality
          /\ key.source < other.source}

LEMMA NothingThere == \A f : DOMAIN f = {} /\ f = [i \in DOMAIN f |-> f[i]] => f = <<>>
OBVIOUS

LEMMA ChosenIs == ASSUME NEW path, NEW r PROVE Chosen(path, r) = SetToSeq(Best(path, r))
BY DEF Chosen, Best

LEMMA BestIsOne ==
  ASSUME EvidenceInv, NEW path, NEW r, NEW a \in Best(path, r), NEW b \in Best(path, r)
  PROVE  a = b
<1> SUFFICES ASSUME a # b PROVE FALSE
  OBVIOUS
<1>1. a \in Qualified(path, r) /\ b \in Qualified(path, r)
  BY DEF Best
<1>2. a \in DOMAIN series /\ b \in DOMAIN series
  BY <1>1 DEF Qualified
<1>3. /\ series[a].quality \in Int /\ series[b].quality \in Int
      /\ a.source \in Int /\ b.source \in Int
  BY <1>2, KeysTyped DEF Key
<1>4. \/ series[a].quality > series[b].quality
      \/ series[a].quality = series[b].quality /\ a.source < b.source
  BY <1>1 DEF Best
<1>5. \/ series[b].quality > series[a].quality
      \/ series[b].quality = series[a].quality /\ b.source < a.source
  BY <1>1 DEF Best
<1> QED
  BY <1>3, <1>4, <1>5

LEMMA SequenceOfOne ==
  ASSUME NEW S
  PROVE  /\ S = {} => DOMAIN SetToSeq(S) = {}
         /\ \A x : S = {x} => DOMAIN SetToSeq(S) = {1} /\ SetToSeq(S)[1] = x
<1> DEFINE Lists(f) == f \in [1..Cardinality(S) -> S] /\ \A a, b \in DOMAIN f : f[a] = f[b] => a = b
<1>1. SetToSeq(S) = CHOOSE f : Lists(f)
  BY DEF SetToSeq, IsInjective
<1>2. CASE S = {}
  <2>1. 1..Cardinality(S) = {}
    BY <1>2, FS_EmptySet
  <2>2. Lists([i \in {} |-> i])
    BY <2>1
  <2>3. Lists(SetToSeq(S))
    BY <1>1, <2>2
  <2> QED
    BY <1>2, <2>1, <2>3
<1>3. ASSUME NEW x, S = {x} PROVE DOMAIN SetToSeq(S) = {1} /\ SetToSeq(S)[1] = x
  <2>1. 1..Cardinality(S) = {1}
    <3>1. Cardinality(S) = 1
      BY <1>3, FS_Singleton
    <3> QED
      BY <3>1
  <2>2. Lists([i \in {1} |-> x])
    BY <1>3, <2>1
  <2>3. Lists(SetToSeq(S))
    BY <1>1, <2>2
  <2> QED
    BY <1>3, <2>1, <2>3
<1> QED
  BY <1>2, <1>3

Reading(key, r) == [value |-> Aggregated(series[key].samples, r).value, quality |-> series[key].quality]

\* Nothing, or what one series good enough reads.
LEMMA LookupFinds ==
  ASSUME EvidenceInv, NEW path, NEW r
  PROVE  \/ lookup_metric(path, r) = <<>>
         \/ \E key \in Qualified(path, r) :
              /\ lookup_metric(path, r) = <<Reading(key, r)>>
              /\ Sufficient(Aggregated(series[key].samples, r), r)
<1> DEFINE chosen == Chosen(path, r)
           resolved == [i \in DOMAIN chosen |-> Aggregated(series[chosen[i]].samples, r)]
           found == {j \in DOMAIN chosen : Sufficient(resolved[j], r)}
<1>1. lookup_metric(path, r) =
        [i \in found |-> [value |-> resolved[i].value, quality |-> series[chosen[i]].quality]]
  BY DEF lookup_metric
<1> HIDE DEF found
<1>6. found = {} => lookup_metric(path, r) = <<>>
  <2>1. /\ DOMAIN lookup_metric(path, r) = found
        /\ lookup_metric(path, r) = [i \in found |-> lookup_metric(path, r)[i]]
    BY <1>1
  <2> QED
    BY <2>1, NothingThere
<1>2. chosen = SetToSeq(Best(path, r))
  BY ChosenIs
<1>3. CASE Best(path, r) = {}
  <2>1. found = {}
    BY <1>2, <1>3, SequenceOfOne DEF found
  <2> QED
    BY <1>6, <2>1
<1>4. ASSUME NEW key \in Best(path, r)
      PROVE  \/ lookup_metric(path, r) = <<>>
             \/ /\ lookup_metric(path, r) = <<Reading(key, r)>>
                /\ Sufficient(Aggregated(series[key].samples, r), r)
  <2>1. Best(path, r) = {key}
    BY BestIsOne
  <2>2. DOMAIN chosen = {1} /\ chosen[1] = key
    BY <1>2, <2>1, SequenceOfOne
  <2>3. resolved[1] = Aggregated(series[key].samples, r)
    BY <2>2
  <2> HIDE DEF chosen, resolved
  <2>4. CASE Sufficient(resolved[1], r)
    <3>1. found = {1}
      BY <2>2, <2>4 DEF found
    <3>2. lookup_metric(path, r) =
            [i \in {1} |-> [value |-> resolved[1].value, quality |-> series[key].quality]]
      BY <1>1, <2>2, <3>1
    <3>3. lookup_metric(path, r) = <<Reading(key, r)>>
      BY <2>3, <3>2 DEF Reading
    <3> QED
      BY <2>3, <2>4, <3>3
  <2>5. CASE ~Sufficient(resolved[1], r)
    <3>1. found = {}
      BY <2>2, <2>5 DEF found
    <3> QED
      BY <1>6, <3>1
  <2> QED
    BY <2>4, <2>5
<1>5. Best(path, r) \in SUBSET Qualified(path, r)
  BY DEF Best
<1> QED
  BY <1>3, <1>4, <1>5

\* An aggregate speaks of the retained samples, the first to the last.
LEMMA AggregatedSpans ==
  ASSUME RetentionInv, NEW key \in DOMAIN series, NEW r
  PROVE  LET aggregate == Aggregated(series[key].samples, r) IN
           /\ aggregate.count = Cardinality(Few(key))
           /\ aggregate.oldest = arrivals[Min(Few(key))].sample.accepted_at
           /\ aggregate.newest = arrivals[Max(OfNewest(key))].sample.accepted_at
<1> DEFINE samples == series[key].samples
           kept == Len(samples)
<1>1. /\ samples \in Seq(SampleRecord) /\ kept \in Nat \ {0}
      /\ kept = Cardinality(Few(key))
      /\ samples[1] = arrivals[Min(Few(key))].sample
      /\ samples[kept] = arrivals[Max(OfNewest(key))].sample
  BY SeriesHolds
<1>2. InObservationOrder(samples) = samples
  BY <1>1, SeriesAscend, InOrderAlready
<1> HIDE DEF samples
<1>3. /\ Aggregated(samples, r).count = Len(samples)
      /\ Aggregated(samples, r).oldest = Head(samples).accepted_at
      /\ Aggregated(samples, r).newest = Last(samples).accepted_at
  BY <1>2 DEF Aggregated
<1>4. Head(samples) = samples[1] /\ Last(samples) = samples[kept]
  BY <1>1 DEF Last
<1> QED
  BY <1>1, <1>3, <1>4 DEF samples

LEMMA SupportedBy ==
  ASSUME RetentionInv, NEW path, NEW r \in Requirements, NEW key \in Qualified(path, r),
         Sufficient(Aggregated(series[key].samples, r), r)
  PROVE  Supported(path, r)
<1> DEFINE last == Max(OfNewest(key))
           first == Min(Few(key))
<1>1. EvidenceInv
  BY DEF RetentionInv
<1>2. /\ key \in DOMAIN series /\ key.path = path /\ key.kind = r.kind
      /\ series[key].quality >= r.min_quality
  BY DEF Qualified
<1>3. last \in OfNewest(key) /\ EndsWith(series[key], arrivals[last])
  BY <1>1, <1>2, LastIsNewest
<1>4. /\ last \in DOMAIN arrivals /\ arrivals[last].key = key
      /\ \A i \in OfNewest(key) :
           i \in DOMAIN arrivals /\ FromTheEnd(i) = Cardinality(From(OfNewest(key), i))
  BY <1>1, <1>3, NewestPlaces
<1>5. arrivals[last].quality = series[key].quality
  BY <1>3 DEF EndsWith
<1>6. first \in Few(key)
  BY <1>2, SeriesHolds
<1>7. Few(key) = {i \in OfNewest(key) : FromTheEnd(i) <= SampleLimit}
  BY <1>4 DEF Few, LastFew
<1>8. first \in DOMAIN arrivals
  BY <1>4, <1>6, <1>7
<1>9. /\ arrivals[last].sample.accepted_at \in Int /\ arrivals[first].sample.accepted_at \in Int
      /\ clock \in Int
  BY <1>1, <1>4, <1>8, HistoryTyped DEF EvidenceInv
<1>10. r.max_age \in Int /\ r.min_window \in Int /\ r.min_samples \in Int
  BY EvidenceAssumption DEF EvidenceRequirement
<1>11. /\ Cardinality(Few(key)) >= r.min_samples
       /\ clock - arrivals[last].sample.accepted_at <= r.max_age
       /\ arrivals[last].sample.accepted_at - arrivals[first].sample.accepted_at >= r.min_window
  BY <1>2, AggregatedSpans DEF Sufficient
<1> HIDE DEF last, first
<1>12. /\ clock <= arrivals[last].sample.accepted_at + r.max_age
       /\ arrivals[last].sample.accepted_at >= arrivals[first].sample.accepted_at + r.min_window
  BY <1>9, <1>10, <1>11
<1>13. arrivals[last].quality >= r.min_quality
  BY <1>2, <1>5
<1> QED
  BY <1>2, <1>4, <1>7, <1>11, <1>12, <1>13 DEF Supported, last, first

-----------------------------------------------------------------------------
(***************************************************************************)
(* Eligible candidates.                                                    *)
(***************************************************************************)

\* A policy declares a metric at most once, so what it declares is what is looked up.
LEMMA DeclaredOnce ==
  ASSUME NEW policy \in Policies, NEW i \in DOMAIN policy.evidence
  PROVE  Declared(policy, policy.evidence[i].kind) = <<policy.evidence[i]>>
<1> DEFINE evidence == policy.evidence
           places == {j \in DOMAIN evidence : evidence[j].kind = evidence[i].kind}
<1>1. /\ evidence \in Seq(Requirements)
      /\ \A j, k \in DOMAIN evidence : evidence[j].kind = evidence[k].kind => j = k
  BY PoliciesAssumption DEF PolicyWellFormed
<1>2. places = {i}
  BY <1>1
<1>3. i \in Nat
  BY <1>1, LenProperties
<1>4. Min({i}) = i
  BY <1>3 DEF Min
<1> QED
  BY <1>2, <1>4 DEF Declared

LEMMA EvidenceRequired ==
  ASSUME NEW policy \in Policies, NEW r \in ToSet(policy.evidence)
  PROVE  r \in Requirements /\ Declared(policy, r.kind) = <<r>>
<1>1. PICK i \in DOMAIN policy.evidence : policy.evidence[i] = r
  BY DEF ToSet
<1>2. policy.evidence \in Seq(Requirements)
  BY PoliciesAssumption DEF PolicyWellFormed
<1>3. r \in Requirements
  BY <1>1, <1>2, LenProperties
<1> QED
  BY <1>1, <1>3, DeclaredOnce

LEMMA SupportedEligible ==
  ASSUME RetentionInv
  PROVE  EligibleIsSupported
<1> SUFFICES ASSUME NEW policy \in Policies, NEW path \in BoundPaths, Eligible(policy, path),
                    NEW r \in ToSet(policy.evidence),
                    r.required \/ \E i \in DOMAIN policy.objective.terms :
                                    policy.objective.terms[i].kind = r.kind
             PROVE  Supported(path, r)
  BY DEF EligibleIsSupported
<1>1. r \in Requirements /\ Declared(policy, r.kind) = <<r>>
  BY EvidenceRequired
<1>2. lookup_metric(path, r) # <<>>
  <2>1. CASE r.required
    BY <2>1 DEF Eligible, RequiredHold
  <2>2. CASE \E i \in DOMAIN policy.objective.terms : policy.objective.terms[i].kind = r.kind
    <3>1. PICK i \in DOMAIN policy.objective.terms : policy.objective.terms[i].kind = r.kind
      BY <2>2
    <3>2. TermValue(policy, path, i) = lookup_metric(path, r)
      BY <1>1, <3>1 DEF TermValue
    <3> QED
      BY <3>1, <3>2 DEF Eligible
  <2> QED
    BY <2>1, <2>2
<1>3. EvidenceInv
  BY DEF RetentionInv
<1>4. PICK key \in Qualified(path, r) : Sufficient(Aggregated(series[key].samples, r), r)
  BY <1>2, <1>3, LookupFinds
<1> QED
  BY <1>1, <1>4, SupportedBy

(***************************************************************************)
(* Missing required evidence fails closed (evaluate_inputs): what an       *)
(* eligible candidate was found to have, its publishers sent, enough of it *)
(* by the newest incarnation and lately enough, for any policies, batches  *)
(* and limits.                                                             *)
(***************************************************************************)
THEOREM EligibleSupported == EvidenceSpec => []EligibleIsSupported
<1>1. RetentionInv => EligibleIsSupported
  BY SupportedEligible
<1> QED
  BY <1>1, RetentionInvariant, PTL

-----------------------------------------------------------------------------
(***************************************************************************)
(* The order of a stable sort: a smaller key first, of two equal ones the  *)
(* one that stood first.                                                   *)
(***************************************************************************)

LEMMA NoLaterCounted ==
  ASSUME NEW n \in Nat, NEW keys, DOMAIN keys = 1..n, \A i \in 1..n : keys[i] \in Nat,
         NEW i \in 1..n
  PROVE  /\ IsFiniteSet(NoLater(keys, i)) /\ NoLater(keys, i) \in SUBSET (1..n)
         /\ i \in NoLater(keys, i)
         /\ Cardinality(NoLater(keys, i)) \in 1..n
<1>1. NoLater(keys, i) \in SUBSET (1..n) /\ i \in NoLater(keys, i)
  BY DEF NoLater
<1>2. IsFiniteSet(1..n) /\ Cardinality(1..n) = n
  <2>1. IsFiniteSet(1..n) /\ Cardinality(1..n) = IF 1 > n THEN 0 ELSE n - 1 + 1
    BY FS_Interval
  <2> QED
    BY <2>1
<1>3. IsFiniteSet(NoLater(keys, i)) /\ Cardinality(NoLater(keys, i)) <= n
  BY <1>1, <1>2, FS_Subset
<1>4. Cardinality(NoLater(keys, i)) \in Nat /\ Cardinality(NoLater(keys, i)) # 0
  BY <1>1, <1>3, FS_CardinalityType, FS_EmptySet
<1> QED
  BY <1>1, <1>3, <1>4

\* Two elements do not have one place.
LEMMA PlacesDiffer ==
  ASSUME NEW n \in Nat, NEW keys, DOMAIN keys = 1..n, \A i \in 1..n : keys[i] \in Nat,
         NEW i \in 1..n, NEW j \in 1..n,
         \/ keys[i] < keys[j]
         \/ keys[i] = keys[j] /\ i < j
  PROVE  Cardinality(NoLater(keys, i)) # Cardinality(NoLater(keys, j))
<1> SUFFICES ASSUME Cardinality(NoLater(keys, i)) = Cardinality(NoLater(keys, j)) PROVE FALSE
  OBVIOUS
<1>1. keys[i] \in Nat /\ keys[j] \in Nat
  OBVIOUS
<1>2. ASSUME NEW k \in NoLater(keys, i) PROVE k \in NoLater(keys, j)
  <2>1. k \in 1..n /\ (keys[k] < keys[i] \/ (keys[k] = keys[i] /\ k <= i))
    BY DEF NoLater
  <2>2. keys[k] \in Nat
    BY <2>1
  <2>3. keys[k] < keys[j] \/ (keys[k] = keys[j] /\ k <= j)
    BY <1>1, <2>1, <2>2
  <2> QED
    BY <2>1, <2>3 DEF NoLater
<1>3. NoLater(keys, i) \in SUBSET NoLater(keys, j) /\ IsFiniteSet(NoLater(keys, j))
  BY <1>2, NoLaterCounted
<1>4. NoLater(keys, i) = NoLater(keys, j)
  BY <1>3, FS_Subset
<1>5. j \in NoLater(keys, i)
  BY <1>4, NoLaterCounted
<1>6. keys[j] < keys[i] \/ (keys[j] = keys[i] /\ j <= i)
  BY <1>5 DEF NoLater
<1> QED
  BY <1>1, <1>6

\* So every place is taken.
LEMMA PlaceTaken ==
  ASSUME NEW n \in Nat, NEW keys, DOMAIN keys = 1..n, \A i \in 1..n : keys[i] \in Nat,
         NEW place \in 1..n
  PROVE  /\ StableOrder(keys)[place] \in 1..n
         /\ Cardinality(NoLater(keys, StableOrder(keys)[place])) = place
<1> DEFINE f == [i \in 1..n |-> Cardinality(NoLater(keys, i))]
<1>1. f \in [1..n -> 1..n]
  BY NoLaterCounted
<1>2. ASSUME NEW i \in 1..n, NEW j \in 1..n, f[i] = f[j] PROVE i = j
  <2>1. Cardinality(NoLater(keys, i)) = Cardinality(NoLater(keys, j))
    BY <1>2
  <2>2. ~(keys[i] < keys[j] \/ (keys[i] = keys[j] /\ i < j))
    BY <2>1, PlacesDiffer
  <2>3. ~(keys[j] < keys[i] \/ (keys[j] = keys[i] /\ j < i))
    BY <2>1, PlacesDiffer
  <2>4. keys[i] \in Nat /\ keys[j] \in Nat
    OBVIOUS
  <2> QED
    BY <2>2, <2>3, <2>4
<1> HIDE DEF f
<1>3. f \in Injection(1..n, 1..n)
  BY <1>1, <1>2 DEF Injection, IsInjective
<1>4. IsFiniteSet(1..n)
  BY FS_Interval
<1>5. f \in Surjection(1..n, 1..n)
  BY <1>3, <1>4, FS_Injection
<1>6. PICK i \in 1..n : f[i] = place
  BY <1>5 DEF Surjection
<1>7. \E k \in DOMAIN keys : Cardinality(NoLater(keys, k)) = place
  BY <1>6 DEF f
<1>8. StableOrder(keys)[place] = CHOOSE k \in DOMAIN keys : Cardinality(NoLater(keys, k)) = place
  BY StableOrderIs
<1> QED
  BY <1>7, <1>8

\* How many are at or below a value, and how many below it.
AtOrBelow(samples, v) == {i \in DOMAIN samples : samples[i] <= v}
StrictlyBelow(samples, v) == {i \in DOMAIN samples : samples[i] < v}

LEMMA RankedShare ==
  ASSUME NEW n \in Nat \ {0}, NEW samples, DOMAIN samples = 1..n,
         \A i \in 1..n : samples[i] \in Nat, NEW place \in 1..n
  PROVE  LET i == StableOrder(samples)[place] IN
           /\ i \in 1..n
           /\ Cardinality(AtOrBelow(samples, samples[i])) \in Nat
           /\ Cardinality(AtOrBelow(samples, samples[i])) >= place
           /\ Cardinality(StrictlyBelow(samples, samples[i])) \in Nat
           /\ Cardinality(StrictlyBelow(samples, samples[i])) < place
<1> DEFINE i == StableOrder(samples)[place]
           upTo == AtOrBelow(samples, samples[i])
           under == StrictlyBelow(samples, samples[i])
           first == NoLater(samples, i)
<1>1. i \in 1..n /\ Cardinality(first) = place
  BY PlaceTaken
<1> HIDE DEF i
<1>2. IsFiniteSet(first) /\ first \in SUBSET (1..n) /\ i \in first /\ samples[i] \in Nat
  BY <1>1, NoLaterCounted
<1>3. IsFiniteSet(1..n)
  BY FS_Interval
<1>4. upTo \in SUBSET (1..n) /\ IsFiniteSet(upTo)
  <2>1. upTo \in SUBSET (1..n)
    BY DEF AtOrBelow
  <2> QED
    BY <1>3, <2>1, FS_Subset
<1>5. first \in SUBSET upTo
  <2>1. ASSUME NEW k \in first PROVE k \in upTo
    <3>1. k \in 1..n /\ (samples[k] < samples[i] \/ samples[k] = samples[i])
      BY DEF NoLater
    <3>2. samples[k] \in Nat
      BY <3>1
    <3> QED
      BY <1>2, <3>1, <3>2 DEF AtOrBelow
  <2> QED
    BY <2>1
<1>6. Cardinality(first) <= Cardinality(upTo) /\ Cardinality(upTo) \in Nat
  BY <1>4, <1>5, FS_Subset, FS_CardinalityType
<1>7. under \in SUBSET (first \ {i})
  <2>1. ASSUME NEW k \in under PROVE k \in first \ {i}
    <3>1. k \in 1..n /\ samples[k] < samples[i] /\ samples[k] \in Nat
      BY DEF StrictlyBelow
    <3>2. k # i
      BY <1>2, <3>1
    <3> QED
      BY <3>1, <3>2 DEF NoLater
  <2> QED
    BY <2>1
<1>8. IsFiniteSet(first \ {i}) /\ Cardinality(first \ {i}) = place - 1
  BY <1>1, <1>2, FS_RemoveElement
<1>9. IsFiniteSet(under) /\ Cardinality(under) <= place - 1
  BY <1>7, <1>8, FS_Subset
<1>10. Cardinality(under) \in Nat
  BY <1>9, FS_CardinalityType
<1>11. Cardinality(under) < place
  BY <1>9, <1>10
<1> HIDE DEF upTo, under
<1> QED
  BY <1>1, <1>6, <1>10, <1>11 DEF upTo, under, i

LEMMA LeastOf ==
  ASSUME NEW S \in SUBSET Nat, S # {}
  PROVE  Min(S) \in S /\ \A y \in S : Min(S) <= y
BY HasLeast DEF Min

LEMMA NearestRanked ==
  ASSUME NEW n \in Nat \ {0}, NEW samples, DOMAIN samples = 1..n, Len(samples) = n,
         \A i \in 1..n : samples[i] \in Nat, NEW percent \in 1..100
  PROVE  LET value == NearestRank(samples, percent) IN
           /\ \E i \in 1..n : value = samples[i]
           /\ 100 * Cardinality(AtOrBelow(samples, value)) >= percent * n
           /\ 100 * Cardinality(StrictlyBelow(samples, value)) < percent * n
<1> DEFINE share == percent * n
           rank == (share + 99) \div 100
           index == Max({1, Min({rank, n})})
<1>1. share \in Nat \ {0} /\ share <= 100 * n
  BY SMTT(30)
<1> HIDE DEF share
<1>2. /\ rank \in Nat \ {0} /\ rank <= n
      /\ 100 * rank >= share /\ 100 * (rank - 1) < share
  BY <1>1
<1> HIDE DEF rank
<1>3. Min({rank, n}) = rank
  BY <1>2 DEF Min
<1>4. Max({1, rank}) = rank
  BY <1>2 DEF Max
<1>5. NearestRank(samples, percent) = samples[StableOrder(samples)[rank]]
  BY <1>3, <1>4 DEF NearestRank, share, rank
<1> DEFINE value == NearestRank(samples, percent)
           above == Cardinality(AtOrBelow(samples, value))
           under == Cardinality(StrictlyBelow(samples, value))
<1>6. rank \in 1..n
  BY <1>2
<1>7. /\ StableOrder(samples)[rank] \in 1..n
      /\ above \in Nat /\ above >= rank /\ under \in Nat /\ under < rank
  BY <1>5, <1>6, RankedShare
<1>8. 100 * above >= share /\ 100 * under < share
  <2> HIDE DEF above, under
  <2> QED
    BY <1>1, <1>2, <1>7
<1> QED
  BY <1>5, <1>7, <1>8 DEF share

-----------------------------------------------------------------------------
(***************************************************************************)
(* The folds.  A fold is a recursive function on the subsets of the places *)
(* of a sequence, of which those that matter are the first k.              *)
(***************************************************************************)

\* One step: a sum when alpha is 0, else an exponentially weighted mean.
Blend(alpha, mean, sample) ==
  IF alpha = 0 THEN mean + sample ELSE (alpha * sample + (Scale - alpha) * mean) \div Scale

Round(alpha, base, samples, f, s) ==
  IF s = {} THEN base ELSE Blend(alpha, f[s \ {Max(s)}], samples[Max(s)])

\* A function that folds the first m samples, and any of them.
FoldsFirst(alpha, base, samples, m, f) ==
  f = [s \in SUBSET (1..m) |-> Round(alpha, base, samples, f, s)]

LEMMA GreatestIs == \A k \in Nat : \A s \in SUBSET (1..k + 1) : k + 1 \in s => Max(s) = k + 1
<1> SUFFICES ASSUME NEW k \in Nat, NEW s \in SUBSET (1..k + 1), k + 1 \in s PROVE Max(s) = k + 1
  OBVIOUS
<1>1. \A y \in s : k + 1 >= y
  OBVIOUS
<1>2. ASSUME NEW x \in s, \A y \in s : x >= y PROVE x = k + 1
  <2>1. x \in 1..k + 1 /\ x >= k + 1
    BY <1>2
  <2> QED
    BY <2>1
<1> QED
  BY <1>1, <1>2 DEF Max

LEMMA PartiallyFolded ==
  ASSUME NEW alpha, NEW base, NEW samples
  PROVE  \A m \in Nat : \E f : FoldsFirst(alpha, base, samples, m, f)
<1> DEFINE T == {m \in Nat : \E f : f = [s \in SUBSET (1..m) |-> Round(alpha, base, samples, f, s)]}
<1>1. 0 \in T
  <2>1. 1..0 = {}
    OBVIOUS
  <2>2. [s \in SUBSET (1..0) |-> base] =
          [s \in SUBSET (1..0) |-> Round(alpha, base, samples, [t \in SUBSET (1..0) |-> base], s)]
    BY <2>1 DEF Round
  <2> QED
    BY <2>2
<1>2. ASSUME NEW m \in Nat, m \in T PROVE m + 1 \in T
  <2>1. PICK f : f = [s \in SUBSET (1..m) |-> Round(alpha, base, samples, f, s)]
    BY <1>2
  <2> DEFINE g == [s \in SUBSET (1..m + 1) |->
                     IF m + 1 \in s THEN Blend(alpha, f[s \ {m + 1}], samples[m + 1]) ELSE f[s]]
  <2>2. ASSUME NEW s \in SUBSET (1..m + 1) PROVE g[s] = Round(alpha, base, samples, g, s)
    <3>1. CASE m + 1 \in s
      <4>1. Max(s) = m + 1 /\ s # {}
        BY <3>1, GreatestIs
      <4>2. s \ {m + 1} \in SUBSET (1..m + 1) /\ m + 1 \notin s \ {m + 1}
        OBVIOUS
      <4>3. g[s \ {m + 1}] = f[s \ {m + 1}]
        BY <4>2
      <4>4. g[s] = Blend(alpha, f[s \ {m + 1}], samples[m + 1])
        BY <3>1
      <4> HIDE DEF g
      <4> QED
        BY <4>1, <4>3, <4>4 DEF Round
    <3>2. CASE m + 1 \notin s
      <4>1. s \in SUBSET (1..m)
        BY <3>2
      <4>2. g[s] = f[s] /\ f[s] = Round(alpha, base, samples, f, s)
        BY <2>1, <3>2, <4>1
      <4>3. g[s \ {Max(s)}] = f[s \ {Max(s)}]
        BY <3>2
      <4> HIDE DEF g
      <4> QED
        BY <4>2, <4>3 DEF Round
    <3> QED
      BY <3>1, <3>2
  <2>3. g = [s \in SUBSET (1..m + 1) |-> Round(alpha, base, samples, g, s)]
    BY <2>2
  <2> HIDE DEF g
  <2> QED
    BY <2>3
<1> HIDE DEF T
<1>3. \A m \in Nat : m \in T
  BY <1>1, <1>2, SetInduction
<1> QED
  BY <1>3 DEF T, FoldsFirst

\* The fold of the first k samples, for each k.
FoldOfFirst(f, n) == [k \in 0..n |-> f[1..k]]

InTurn(alpha, base, samples, n, g) ==
  /\ g[0] = base
  /\ \A k \in 1..n : g[k] = Blend(alpha, g[k - 1], samples[k])

LEMMA FoldedInTurn ==
  ASSUME NEW alpha, NEW base, NEW samples, NEW n \in Nat, NEW f,
         FoldsFirst(alpha, base, samples, n, f)
  PROVE  InTurn(alpha, base, samples, n, FoldOfFirst(f, n)) /\ FoldOfFirst(f, n)[n] = f[1..n]
<1> DEFINE g == [k \in 0..n |-> f[1..k]]
<1>1. \A s \in SUBSET (1..n) : f[s] = Round(alpha, base, samples, f, s)
  BY DEF FoldsFirst
<1>2. g[0] = base
  <2>1. 1..0 = {} /\ g[0] = f[1..0] /\ 1..0 \in SUBSET (1..n)
    OBVIOUS
  <2>2. f[1..0] = Round(alpha, base, samples, f, 1..0)
    BY <1>1, <2>1
  <2> QED
    BY <2>1, <2>2 DEF Round
<1>3. ASSUME NEW k \in 1..n PROVE g[k] = Blend(alpha, g[k - 1], samples[k])
  <2>1. 1..k \in SUBSET (1..n) /\ 1..k # {} /\ (1..k) \ {k} = 1..k - 1
    <3>1. \A x : x \in (1..k) \ {k} <=> x \in 1..k - 1
      OBVIOUS
    <3>2. k \in 1..k /\ \A x \in 1..k : x \in 1..n
      OBVIOUS
    <3> QED
      BY <3>1, <3>2, Zenon
  <2>2. Max(1..k) = k
    <3>1. k - 1 \in Nat /\ 1..k \in SUBSET (1..(k - 1) + 1) /\ (k - 1) + 1 \in 1..k
      OBVIOUS
    <3>2. Max(1..k) = (k - 1) + 1
      BY <3>1, GreatestIs
    <3> QED
      BY <3>2
  <2>3. f[1..k] = Round(alpha, base, samples, f, 1..k)
    BY <1>1, <2>1
  <2>4. f[1..k] = Blend(alpha, f[1..k - 1], samples[k])
    BY <2>1, <2>2, <2>3 DEF Round
  <2>5. g[k] = f[1..k] /\ g[k - 1] = f[1..k - 1]
    OBVIOUS
  <2> QED
    BY <2>4, <2>5
<1>4. g[n] = f[1..n] /\ g = FoldOfFirst(f, n)
  BY DEF FoldOfFirst
<1> HIDE DEF g
<1> QED
  BY <1>2, <1>3, <1>4 DEF InTurn

LEMMA SumInTurn ==
  ASSUME NEW n \in Nat, NEW samples, DOMAIN samples = 1..n
  PROVE  \E g : /\ g[0] = 0 /\ g[n] = SumOf(samples)
                /\ \A k \in 1..n : g[k] = g[k - 1] + samples[k]
<1> DEFINE Defines(f) == f = [s \in SUBSET DOMAIN samples |->
                                IF s = {} THEN 0 ELSE f[s \ {Max(s)}] + samples[Max(s)]]
<1>1. SumOf(samples) = (CHOOSE f : Defines(f))[DOMAIN samples]
  BY DEF SumOf, FoldLeft, MapThenFoldSet
<1>2. \E h : Defines(h)
  <2>1. PICK h : FoldsFirst(0, 0, samples, n, h)
    BY PartiallyFolded
  <2>2. Defines(h)
    BY <2>1 DEF FoldsFirst, Round, Blend
  <2> QED
    BY <2>2
<1>3. PICK f : Defines(f) /\ SumOf(samples) = f[DOMAIN samples]
  BY <1>1, <1>2
<1>4. FoldsFirst(0, 0, samples, n, f)
  BY <1>3 DEF FoldsFirst, Round, Blend
<1> HIDE DEF Defines
<1>5. PICK g : InTurn(0, 0, samples, n, g) /\ g[n] = f[1..n]
  BY <1>4, FoldedInTurn
<1>6. g[n] = SumOf(samples)
  BY <1>3, <1>5
<1> QED
  BY <1>5, <1>6 DEF InTurn, Blend

LEMMA EwmaInTurn ==
  ASSUME NEW alpha \in 1..Scale, NEW n \in Nat \ {0}, NEW samples \in Seq(Nat), Len(samples) = n
  PROVE  \E g : /\ g[0] = samples[1] /\ g[n - 1] = Ewma(samples, alpha)
                /\ \A k \in 1..n - 1 : g[k] = Blend(alpha, g[k - 1], samples[k + 1])
<1> DEFINE rest == Tail(samples)
           base == Head(samples)
           Defines(f) == f = [s \in SUBSET DOMAIN rest |->
                                IF s = {} THEN base
                                ELSE (alpha * rest[Max(s)] + (Scale - alpha) * f[s \ {Max(s)}])
                                       \div Scale]
<1>1. /\ base = samples[1] /\ DOMAIN rest = 1..n - 1 /\ n - 1 \in Nat
      /\ \A k \in 1..n - 1 : rest[k] = samples[k + 1]
  OBVIOUS
<1>2. Ewma(samples, alpha) = (CHOOSE f : Defines(f))[DOMAIN rest]
  BY DEF Ewma, FoldLeft, MapThenFoldSet
<1> HIDE DEF rest, base
<1>3. alpha # 0
  OBVIOUS
<1>4. \E h : Defines(h)
  <2>1. PICK h : FoldsFirst(alpha, base, rest, n - 1, h)
    BY <1>1, PartiallyFolded
  <2>2. Defines(h)
    BY <1>1, <1>3, <2>1 DEF FoldsFirst, Round, Blend
  <2> QED
    BY <2>2
<1>5. PICK f : Defines(f) /\ Ewma(samples, alpha) = f[DOMAIN rest]
  BY <1>2, <1>4
<1>6. FoldsFirst(alpha, base, rest, n - 1, f)
  BY <1>1, <1>3, <1>5 DEF FoldsFirst, Round, Blend
<1> HIDE DEF Defines
<1>7. PICK g : InTurn(alpha, base, rest, n - 1, g) /\ g[n - 1] = f[1..n - 1]
  BY <1>1, <1>6, FoldedInTurn
<1>8. g[n - 1] = Ewma(samples, alpha)
  BY <1>1, <1>5, <1>7
<1> QED
  BY <1>1, <1>7, <1>8 DEF InTurn

LEMMA SumBetween ==
  ASSUME NEW n \in Nat, NEW samples, DOMAIN samples = 1..n, NEW lo \in Nat, NEW hi \in Nat,
         \A k \in 1..n : samples[k] \in Nat /\ lo <= samples[k] /\ samples[k] <= hi
  PROVE  SumOf(samples) \in Nat /\ n * lo <= SumOf(samples) /\ SumOf(samples) <= n * hi
<1>1. PICK g : /\ g[0] = 0 /\ g[n] = SumOf(samples)
               /\ \A k \in 1..n : g[k] = g[k - 1] + samples[k]
  BY SumInTurn
<1> DEFINE Between(k) == g[k] \in Nat /\ k * lo <= g[k] /\ g[k] <= k * hi
           T == {k \in Nat : k <= n => Between(k)}
<1>2. 0 \in T
  BY <1>1
<1>3. ASSUME NEW k \in Nat, k \in T PROVE k + 1 \in T
  <2> SUFFICES ASSUME k + 1 <= n PROVE Between(k + 1)
    OBVIOUS
  <2>1. k + 1 \in 1..n /\ Between(k)
    BY <1>3
  <2>2. g[k + 1] = g[k] + samples[k + 1]
    BY <1>1, <2>1
  <2>3. samples[k + 1] \in Nat /\ lo <= samples[k + 1] /\ samples[k + 1] <= hi
    BY <2>1
  <2>4. (k + 1) * lo = k * lo + lo /\ (k + 1) * hi = k * hi + hi
        /\ k * lo \in Nat /\ k * hi \in Nat
    OBVIOUS
  <2> QED
    BY <2>1, <2>2, <2>3, <2>4
<1> HIDE DEF T
<1>4. n \in T
  BY <1>2, <1>3, SetInduction
<1> QED
  BY <1>1, <1>4 DEF T

LEMMA SumMonotone ==
  ASSUME NEW n \in Nat, NEW a, NEW b, DOMAIN a = 1..n, DOMAIN b = 1..n,
         \A k \in 1..n : a[k] \in Nat /\ b[k] \in Nat /\ a[k] <= b[k]
  PROVE  SumOf(a) \in Nat /\ SumOf(b) \in Nat /\ SumOf(a) <= SumOf(b)
<1>1. PICK f : /\ f[0] = 0 /\ f[n] = SumOf(a)
               /\ \A k \in 1..n : f[k] = f[k - 1] + a[k]
  BY SumInTurn
<1>2. PICK g : /\ g[0] = 0 /\ g[n] = SumOf(b)
               /\ \A k \in 1..n : g[k] = g[k - 1] + b[k]
  BY SumInTurn
<1> DEFINE NoMore(k) == f[k] \in Nat /\ g[k] \in Nat /\ f[k] <= g[k]
           T == {k \in Nat : k <= n => NoMore(k)}
<1>3. 0 \in T
  BY <1>1, <1>2
<1>4. ASSUME NEW k \in Nat, k \in T PROVE k + 1 \in T
  <2> SUFFICES ASSUME k + 1 <= n PROVE NoMore(k + 1)
    OBVIOUS
  <2>1. k + 1 \in 1..n /\ NoMore(k)
    BY <1>4
  <2>2. f[k + 1] = f[k] + a[k + 1] /\ g[k + 1] = g[k] + b[k + 1]
    BY <1>1, <1>2, <2>1
  <2>3. a[k + 1] \in Nat /\ b[k + 1] \in Nat /\ a[k + 1] <= b[k + 1]
    BY <2>1
  <2> QED
    BY <2>1, <2>2, <2>3
<1> HIDE DEF T
<1>5. n \in T
  BY <1>3, <1>4, SetInduction
<1> QED
  BY <1>1, <1>2, <1>5 DEF T

\* A mean of two numbers lies between them, and rounding down leaves it there.
LEMMA BlendBetween ==
  ASSUME NEW alpha \in 1..Scale, NEW mean \in Nat, NEW sample \in Nat,
         NEW lo \in Nat, NEW hi \in Nat,
         lo <= mean, mean <= hi, lo <= sample, sample <= hi
  PROVE  /\ Blend(alpha, mean, sample) \in Nat
         /\ lo <= Blend(alpha, mean, sample) /\ Blend(alpha, mean, sample) <= hi
<1> DEFINE beta == Scale - alpha
           p == alpha * sample
           q == beta * mean
<1>1. alpha \in Nat \ {0} /\ beta \in Nat /\ alpha + beta = Scale /\ Scale = 10000
  BY DEF Scale
<1>2. Blend(alpha, mean, sample) = (p + q) \div 10000
  BY <1>1 DEF Blend
<1> HIDE DEF beta
<1>3. alpha * lo <= p /\ p <= alpha * hi /\ p \in Nat
  BY <1>1, SMTT(30)
<1>4. beta * lo <= q /\ q <= beta * hi /\ q \in Nat
  BY <1>1, SMTT(30)
<1>5. alpha * lo + beta * lo = 10000 * lo /\ alpha * hi + beta * hi = 10000 * hi
      /\ alpha * lo \in Nat /\ beta * lo \in Nat /\ alpha * hi \in Nat /\ beta * hi \in Nat
  <2>1. alpha * lo + beta * lo = (alpha + beta) * lo /\ alpha * hi + beta * hi = (alpha + beta) * hi
    BY <1>1
  <2> QED
    BY <1>1, <2>1
<1> DEFINE u == alpha * lo
           v == beta * lo
           w == alpha * hi
           x == beta * hi
<1>6. /\ u \in Nat /\ v \in Nat /\ w \in Nat /\ x \in Nat /\ p \in Nat /\ q \in Nat
      /\ u <= p /\ p <= w /\ v <= q /\ q <= x /\ u + v = 10000 * lo /\ w + x = 10000 * hi
  BY <1>3, <1>4, <1>5
<1> HIDE DEF p, q, u, v, w, x
<1>7. 10000 * lo <= p + q /\ p + q <= 10000 * hi /\ p + q \in Nat
  BY <1>6
<1>8. (p + q) \div 10000 \in Nat /\ lo <= (p + q) \div 10000 /\ (p + q) \div 10000 <= hi
  BY <1>7
<1> QED
  BY <1>2, <1>8

LEMMA EwmaBetween ==
  ASSUME NEW alpha \in 1..Scale, NEW n \in Nat \ {0}, NEW samples \in Seq(Nat), Len(samples) = n,
         NEW lo \in Nat, NEW hi \in Nat,
         \A k \in 1..n : lo <= samples[k] /\ samples[k] <= hi
  PROVE  /\ Ewma(samples, alpha) \in Nat
         /\ lo <= Ewma(samples, alpha) /\ Ewma(samples, alpha) <= hi
<1>1. PICK g : /\ g[0] = samples[1] /\ g[n - 1] = Ewma(samples, alpha)
               /\ \A k \in 1..n - 1 : g[k] = Blend(alpha, g[k - 1], samples[k + 1])
  BY EwmaInTurn
<1> DEFINE Between(k) == g[k] \in Nat /\ lo <= g[k] /\ g[k] <= hi
           T == {k \in Nat : k <= n - 1 => Between(k)}
<1>2. \A k \in 1..n : samples[k] \in Nat
  BY LenProperties
<1>3. 0 \in T
  BY <1>1, <1>2
<1>4. ASSUME NEW k \in Nat, k \in T PROVE k + 1 \in T
  <2> SUFFICES ASSUME k + 1 <= n - 1 PROVE Between(k + 1)
    OBVIOUS
  <2>1. k + 1 \in 1..n - 1 /\ Between(k) /\ (k + 1) + 1 \in 1..n /\ (k + 1) - 1 = k
    BY <1>4
  <2>2. g[k + 1] = Blend(alpha, g[k], samples[(k + 1) + 1])
    BY <1>1, <2>1
  <2>3. /\ samples[(k + 1) + 1] \in Nat
        /\ lo <= samples[(k + 1) + 1] /\ samples[(k + 1) + 1] <= hi
    BY <1>2, <2>1
  <2>4. g[k] \in Nat /\ lo <= g[k] /\ g[k] <= hi
    BY <2>1
  <2> DEFINE next == Blend(alpha, g[k], samples[(k + 1) + 1])
  <2>5. next \in Nat /\ lo <= next /\ next <= hi
    BY <2>3, <2>4, BlendBetween
  <2> QED
    BY <2>2, <2>5
<1> HIDE DEF T
<1>5. n - 1 \in T
  <2>1. n - 1 \in Nat
    OBVIOUS
  <2> QED
    BY <1>3, <1>4, <2>1, SetInduction
<1> QED
  BY <1>1, <1>5 DEF T

-----------------------------------------------------------------------------
(***************************************************************************)
(* aggregate_samples.                                                      *)
(***************************************************************************)

LEMMA Extremes ==
  ASSUME NEW n \in Nat \ {0}, NEW values \in Seq(Nat), Len(values) = n
  PROVE  /\ Min(ToSet(values)) \in Nat /\ Max(ToSet(values)) \in Nat
         /\ \E i \in 1..n : values[i] = Min(ToSet(values))
         /\ \E i \in 1..n : values[i] = Max(ToSet(values))
         /\ \A i \in 1..n : Min(ToSet(values)) <= values[i] /\ values[i] <= Max(ToSet(values))
<1>1. DOMAIN values = 1..n /\ \A i \in 1..n : values[i] \in Nat
  BY LenProperties
<1>2. ToSet(values) = {values[i] : i \in 1..n}
  BY <1>1 DEF ToSet
<1>3. ToSet(values) \in SUBSET Nat /\ ToSet(values) # {}
  <2>1. values[1] \in ToSet(values)
    BY <1>2
  <2> QED
    BY <1>1, <1>2, <2>1
<1>4. IsFiniteSet(ToSet(values))
  <2>1. IsFiniteSet(1..n)
    BY FS_Interval
  <2>2. values \in Surjection(1..n, ToSet(values))
    <3>1. values \in [1..n -> ToSet(values)]
      BY <1>1, <1>2
    <3> QED
      BY <1>2, <3>1 DEF Surjection
  <2> QED
    BY <2>1, <2>2, FS_Surjection
<1>5. Max(ToSet(values)) \in ToSet(values) /\ \A y \in ToSet(values) : y <= Max(ToSet(values))
  BY <1>3, <1>4, GreatestIsLast
<1>6. Min(ToSet(values)) \in ToSet(values) /\ \A y \in ToSet(values) : Min(ToSet(values)) <= y
  BY <1>3, LeastOf
<1> QED
  BY <1>2, <1>3, <1>5, <1>6

\* Division by a positive number.
LEMMA FloorOf ==
  ASSUME NEW total \in Nat, NEW n \in Nat \ {0}
  PROVE  /\ total \div n \in Nat
         /\ (total \div n) * n <= total /\ total < (total \div n + 1) * n
BY SMTT(30)

LEMMA QuotientBetween ==
  ASSUME NEW total \in Nat, NEW n \in Nat \ {0}, NEW lo \in Nat, NEW hi \in Nat,
         n * lo <= total, total <= n * hi
  PROVE  lo <= total \div n /\ total \div n <= hi
<1> DEFINE q == total \div n
<1>1. q \in Nat /\ q * n <= total /\ total < (q + 1) * n
  BY FloorOf
<1> HIDE DEF q
<1>2. ASSUME q < lo PROVE FALSE
  <2>1. (q + 1) * n <= lo * n /\ lo * n = n * lo
    BY <1>1, <1>2, SMTT(30)
  <2> QED
    BY <1>1, <2>1
<1>3. ASSUME hi < q PROVE FALSE
  <2>1. (hi + 1) * n <= q * n /\ (hi + 1) * n = n * hi + n
    BY <1>1, <1>3, SMTT(30)
  <2> QED
    BY <1>1, <2>1
<1> QED
  BY <1>1, <1>2, <1>3 DEF q

\* What an aggregate is to the values it is of.
Exact(aggregation, values, value) ==
  LET n == Len(values)
      total == SumOf(values)
      ranked(percent) == /\ 100 * Cardinality(AtOrBelow(values, value)) >= percent * n
                         /\ 100 * Cardinality(StrictlyBelow(values, value)) < percent * n
  IN  /\ value \in Nat
      /\ \E i \in 1..n : values[i] <= value
      /\ \E i \in 1..n : values[i] >= value
      /\ aggregation = "MEDIAN" => ranked(50)
      /\ aggregation = "PERCENTILE_95" => ranked(95)
      /\ aggregation = "MEAN" => value * n <= total /\ total < (value + 1) * n
      /\ aggregation = "MINIMUM" => StrictlyBelow(values, value) = {}
      /\ aggregation = "MAXIMUM" => AtOrBelow(values, value) = 1..n

LEMMA AggregateIsExact ==
  ASSUME NEW n \in Nat \ {0}, NEW values \in Seq(Nat), Len(values) = n,
         NEW aggregation \in AggregationKind, NEW alpha \in 0..Scale,
         aggregation = "EWMA" => alpha # 0
  PROVE  Exact(aggregation, values, Aggregate(aggregation, values, alpha))
<1> DEFINE value == Aggregate(aggregation, values, alpha)
           lo == Min(ToSet(values))
           hi == Max(ToSet(values))
           total == SumOf(values)
<1>1. DOMAIN values = 1..n /\ \A i \in 1..n : values[i] \in Nat
  BY LenProperties
<1>2. /\ lo \in Nat /\ hi \in Nat
      /\ \E i \in 1..n : values[i] = lo
      /\ \E i \in 1..n : values[i] = hi
      /\ \A i \in 1..n : lo <= values[i] /\ values[i] <= hi
  BY Extremes
<1> HIDE DEF lo, hi, total
<1>3. ASSUME NEW v \in Nat, lo <= v, v <= hi
      PROVE  (\E i \in 1..n : values[i] <= v) /\ (\E i \in 1..n : values[i] >= v)
  BY <1>2, <1>3
<1>4. CASE aggregation = "MINIMUM"
  <2>1. value = lo
    BY <1>4 DEF Aggregate, lo
  <2> HIDE DEF value
  <2>2. StrictlyBelow(values, value) = {}
    BY <1>1, <1>2, <2>1 DEF StrictlyBelow
  <2>3. lo <= hi
    BY <1>1, <1>2
  <2> QED
    BY <1>2, <1>3, <1>4, <2>1, <2>2, <2>3 DEF Exact, value
<1>5. CASE aggregation = "MAXIMUM"
  <2>1. value = hi
    BY <1>5 DEF Aggregate, hi
  <2> HIDE DEF value
  <2>2. AtOrBelow(values, value) = 1..n
    BY <1>1, <1>2, <2>1 DEF AtOrBelow
  <2>3. lo <= hi
    BY <1>1, <1>2
  <2> QED
    BY <1>2, <1>3, <1>5, <2>1, <2>2, <2>3 DEF Exact, value
<1>6. CASE aggregation = "MEAN"
  <2>1. value = total \div n
    BY <1>6 DEF Aggregate, total
  <2>2. total \in Nat /\ n * lo <= total /\ total <= n * hi
    BY <1>1, <1>2, SumBetween DEF total
  <2> HIDE DEF value
  <2>3. value \in Nat /\ value * n <= total /\ total < (value + 1) * n
    BY <2>1, <2>2, FloorOf
  <2>4. lo <= value /\ value <= hi
    BY <1>2, <2>1, <2>2, QuotientBetween
  <2> QED
    BY <1>3, <1>6, <2>3, <2>4 DEF Exact, value, total
<1>7. ASSUME NEW percent \in 1..100, value = NearestRank(values, percent)
      PROVE  /\ value \in Nat /\ \E i \in 1..n : value = values[i]
             /\ 100 * Cardinality(AtOrBelow(values, value)) >= percent * n
             /\ 100 * Cardinality(StrictlyBelow(values, value)) < percent * n
  <2> DEFINE v == NearestRank(values, percent)
  <2>1. (\E i \in 1..n : v = values[i])
        /\ 100 * Cardinality(AtOrBelow(values, v)) >= percent * n
        /\ 100 * Cardinality(StrictlyBelow(values, v)) < percent * n
    BY <1>1, NearestRanked
  <2> HIDE DEF value, v
  <2>2. v \in Nat
    BY <1>1, <2>1
  <2>3. value = v
    BY <1>7 DEF v
  <2> QED
    BY <2>1, <2>2, <2>3
<1>8. CASE aggregation = "MEDIAN"
  <2>1. value = NearestRank(values, 50) /\ 50 \in 1..100
    BY <1>8 DEF Aggregate
  <2>2. /\ value \in Nat /\ \E i \in 1..n : value = values[i]
        /\ 100 * Cardinality(AtOrBelow(values, value)) >= 50 * n
        /\ 100 * Cardinality(StrictlyBelow(values, value)) < 50 * n
    BY <1>7, <2>1
  <2> HIDE DEF value
  <2> QED
    BY <1>1, <1>8, <2>2 DEF Exact, value
<1>9. CASE aggregation = "PERCENTILE_95"
  <2>1. value = NearestRank(values, 95) /\ 95 \in 1..100
    BY <1>9 DEF Aggregate
  <2>2. /\ value \in Nat /\ \E i \in 1..n : value = values[i]
        /\ 100 * Cardinality(AtOrBelow(values, value)) >= 95 * n
        /\ 100 * Cardinality(StrictlyBelow(values, value)) < 95 * n
    BY <1>7, <2>1
  <2> HIDE DEF value
  <2> QED
    BY <1>1, <1>9, <2>2 DEF Exact, value
<1>10. CASE aggregation = "EWMA"
  <2>1. value = Ewma(values, alpha) /\ alpha \in 1..Scale
    <3>1. value = Ewma(values, alpha)
      BY <1>10 DEF Aggregate
    <3>2. alpha \in 1..Scale
      BY <1>10
    <3> QED
      BY <3>1, <3>2
  <2> HIDE DEF value
  <2>2. value \in Nat /\ lo <= value /\ value <= hi
    BY <1>2, <2>1, EwmaBetween
  <2> QED
    BY <1>3, <1>10, <2>2 DEF Exact, value
<1> QED
  BY <1>4, <1>5, <1>6, <1>8, <1>9, <1>10 DEF AggregationKind

ValuesOf(samples) == [i \in DOMAIN samples |-> samples[i].value]

LEMMA ReadingIsExact ==
  ASSUME RetentionInv, NEW key \in DOMAIN series, NEW r \in Requirements
  PROVE  LET samples == series[key].samples IN
           /\ Len(samples) \in Nat \ {0} /\ DOMAIN samples = 1..Len(samples)
           /\ Len(ValuesOf(samples)) = Len(samples)
           /\ Exact(r.aggregation, ValuesOf(samples), Aggregated(samples, r).value)
<1> DEFINE samples == series[key].samples
           n == Len(samples)
           values == ValuesOf(samples)
<1>1. samples \in Seq(SampleRecord) /\ n \in Nat \ {0}
  BY SeriesHolds
<1>2. InObservationOrder(samples) = samples
  BY <1>1, SeriesAscend, InOrderAlready
<1> HIDE DEF samples
<1>3. DOMAIN samples = 1..n /\ \A i \in 1..n : samples[i].value \in Nat
  <2>1. DOMAIN samples = 1..n /\ \A i \in 1..n : samples[i] \in SampleRecord
    BY <1>1, LenProperties
  <2> QED
    BY <2>1 DEF SampleRecord
<1>4. values \in Seq(Nat) /\ Len(values) = n
  <2>1. values = [i \in 1..n |-> samples[i].value]
    BY <1>3 DEF ValuesOf
  <2> QED
    BY <1>1, <1>3, <2>1
<1>5. Aggregated(samples, r).value = Aggregate(r.aggregation, values, r.ewma_alpha_bps)
  BY <1>2 DEF Aggregated, ValuesOf
<1>6. /\ r.aggregation \in AggregationKind /\ r.ewma_alpha_bps \in 0..Scale
      /\ r.aggregation = "EWMA" => r.ewma_alpha_bps # 0
  BY EvidenceAssumption DEF EvidenceRequirement
<1> HIDE DEF values, n
<1>7. Exact(r.aggregation, values, Aggregate(r.aggregation, values, r.ewma_alpha_bps))
  BY <1>1, <1>4, <1>6, AggregateIsExact
<1> QED
  BY <1>1, <1>3, <1>4, <1>5, <1>7 DEF values, n, samples

LEMMA ExactAggregates ==
  ASSUME RetentionInv
  PROVE  AggregatesAreExact
<1> SUFFICES ASSUME NEW key \in DOMAIN series, NEW r \in Requirements
             PROVE  LET samples == series[key].samples
                        n == Len(samples)
                        value == Aggregated(samples, r).value
                        atOrBelow(v) == Cardinality({i \in DOMAIN samples : samples[i].value <= v})
                        below(v) == Cardinality({i \in DOMAIN samples : samples[i].value < v})
                        ranked(percent) == /\ 100 * atOrBelow(value) >= percent * n
                                           /\ 100 * below(value) < percent * n
                        total == SumOf([i \in DOMAIN samples |-> samples[i].value])
                    IN  /\ \E i \in DOMAIN samples : samples[i].value <= value
                        /\ \E i \in DOMAIN samples : samples[i].value >= value
                        /\ r.aggregation = "MEDIAN" => ranked(50)
                        /\ r.aggregation = "PERCENTILE_95" => ranked(95)
                        /\ r.aggregation = "MEAN" => value * n <= total /\ total < (value + 1) * n
                        /\ r.aggregation = "MINIMUM" => below(value) = 0
                        /\ r.aggregation = "MAXIMUM" => atOrBelow(value) = n
  BY DEF AggregatesAreExact
<1> DEFINE samples == series[key].samples
           n == Len(samples)
           values == ValuesOf(samples)
           value == Aggregated(samples, r).value
<1>1. /\ n \in Nat \ {0} /\ DOMAIN samples = 1..n /\ Len(values) = n
      /\ Exact(r.aggregation, values, value)
  BY ReadingIsExact
<1> HIDE DEF samples, value
<1>2. DOMAIN values = 1..n /\ \A i \in 1..n : values[i] = samples[i].value
  BY <1>1 DEF ValuesOf
<1> DEFINE upTo == {i \in DOMAIN samples : samples[i].value <= value}
           under == {i \in DOMAIN samples : samples[i].value < value}
<1>3. AtOrBelow(values, value) = upTo /\ StrictlyBelow(values, value) = under
  BY <1>1, <1>2 DEF AtOrBelow, StrictlyBelow
<1>4. values = [i \in DOMAIN samples |-> samples[i].value]
  BY DEF ValuesOf
<1> HIDE DEF values, n
<1>5. Cardinality({}) = 0 /\ Cardinality(1..n) = n
  <2>1. Cardinality(1..n) = IF 1 > n THEN 0 ELSE n - 1 + 1
    BY <1>1, FS_Interval
  <2> QED
    BY <1>1, <2>1, FS_EmptySet
<1>6. /\ \E i \in 1..n : values[i] <= value
      /\ \E i \in 1..n : values[i] >= value
      /\ r.aggregation = "MEDIAN" =>
           100 * Cardinality(upTo) >= 50 * n /\ 100 * Cardinality(under) < 50 * n
      /\ r.aggregation = "PERCENTILE_95" =>
           100 * Cardinality(upTo) >= 95 * n /\ 100 * Cardinality(under) < 95 * n
      /\ r.aggregation = "MEAN" => value * n <= SumOf(values) /\ SumOf(values) < (value + 1) * n
      /\ r.aggregation = "MINIMUM" => under = {}
      /\ r.aggregation = "MAXIMUM" => upTo = 1..n
  <2> HIDE DEF upTo, under
  <2> QED
    BY <1>1, <1>3 DEF Exact
<1>7. (\E i \in DOMAIN samples : samples[i].value <= value)
      /\ (\E i \in DOMAIN samples : samples[i].value >= value)
  BY <1>1, <1>2, <1>6
<1>8. /\ r.aggregation = "MINIMUM" => Cardinality(under) = 0
      /\ r.aggregation = "MAXIMUM" => Cardinality(upTo) = n
  <2> HIDE DEF upTo, under
  <2> QED
    BY <1>5, <1>6
<1> QED
  BY <1>4, <1>6, <1>7, <1>8 DEF samples, value, n, values

(***************************************************************************)
(* aggregate_samples, for any samples and any requirement: no aggregate    *)
(* leaves the range of the samples, however often it rounds, and each is   *)
(* what its name says of the samples a series retains.                     *)
(***************************************************************************)
THEOREM AggregatesExact == EvidenceSpec => []AggregatesAreExact
<1>1. RetentionInv => AggregatesAreExact
  BY ExactAggregates
<1> QED
  BY <1>1, RetentionInvariant, PTL

-----------------------------------------------------------------------------
(***************************************************************************)
(* Scores.                                                                 *)
(***************************************************************************)

LEMMA DivisionMonotone ==
  ASSUME NEW n \in Nat \ {0}, NEW x \in Int, NEW y \in Int, x <= y
  PROVE  x \div n \in Int /\ y \div n \in Int /\ x \div n <= y \div n
<1> DEFINE p == x \div n
           q == y \div n
<1>1. p \in Int /\ p * n <= x /\ x < (p + 1) * n
  BY SMTT(30)
<1>2. q \in Int /\ q * n <= y /\ y < (q + 1) * n
  BY SMTT(30)
<1> HIDE DEF p, q
<1>3. ASSUME q < p PROVE FALSE
  <2>1. (q + 1) * n <= p * n
    BY <1>1, <1>2, <1>3, SMTT(30)
  <2>2. (q + 1) * n \in Int /\ p * n \in Int
    BY <1>1, <1>2
  <2> DEFINE u == (q + 1) * n
             v == p * n
  <2> HIDE DEF u, v
  <2>3. u \in Int /\ v \in Int /\ u <= v /\ v <= x /\ y < u
    BY <1>1, <1>2, <2>1, <2>2 DEF u, v
  <2> QED
    BY <2>3
<1> QED
  BY <1>1, <1>2, <1>3 DEF p, q

Clamped(x) == IF x <= 0 THEN 0 ELSE IF x <= Scale THEN x ELSE Scale

Goodness(kind, value) ==
  IF metric_table[kind].lowerIsBetter THEN metric_table[kind].maximum - value ELSE value

LEMMA SpanPositive ==
  ASSUME NEW kind \in MetricKind
  PROVE  metric_table[kind].maximum \in Nat \ {0}
BY LatencyMaxAssumption, SMTT(30) DEF metric_table, Descriptor, MetricKind, Scale

LEMMA NormalizedIs ==
  ASSUME NEW kind \in MetricKind, NEW value \in Nat
  PROVE  /\ Goodness(kind, value) \in Int
         /\ Normalized(kind, value) =
              Clamped((Goodness(kind, value) * Scale) \div metric_table[kind].maximum)
<1> DEFINE span == metric_table[kind].maximum
           goodness == Goodness(kind, value)
           share == (goodness * Scale) \div span
<1>1. span \in Nat \ {0}
  BY SpanPositive
<1>2. goodness \in Int
  <2> HIDE DEF span
  <2>1. goodness = span - value \/ goodness = value
    BY DEF Goodness, span
  <2> QED
    BY <1>1, <2>1
<1>3. Normalized(kind, value) = Max({0, Min({share, Scale})})
  BY DEF Normalized, Goodness
<1> HIDE DEF goodness, span
<1>4. share \in Int
  BY <1>1, <1>2 DEF Scale
<1> HIDE DEF share
<1>5. Min({share, Scale}) = IF share <= Scale THEN share ELSE Scale
  BY <1>4 DEF Min, Scale
<1>6. \A x \in Int : Max({0, x}) = IF x <= 0 THEN 0 ELSE x
  BY DEF Max
<1>7. Max({0, Min({share, Scale})}) = Clamped(share)
  BY <1>4, <1>5, <1>6 DEF Clamped, Scale
<1> QED
  BY <1>2, <1>3, <1>7 DEF share, goodness, span

LEMMA ClampedBetween ==
  /\ \A x \in Int : Clamped(x) \in 0..Scale
  /\ \A x, y \in Int : x <= y => Clamped(x) <= Clamped(y)
BY DEF Clamped, Scale

\* What is not worse is not normalised to less.
LEMMA NormalizedMonotone ==
  ASSUME NEW kind \in MetricKind, NEW x \in Nat, NEW y \in Nat, ~Better(kind, x, y)
  PROVE  /\ Normalized(kind, x) \in 0..Scale /\ Normalized(kind, y) \in 0..Scale
         /\ Normalized(kind, x) <= Normalized(kind, y)
<1> DEFINE span == metric_table[kind].maximum
           p == Goodness(kind, x)
           q == Goodness(kind, y)
<1>1. span \in Nat \ {0} /\ p \in Int /\ q \in Int
  BY SpanPositive, NormalizedIs
<1>2. p <= q
  <2> HIDE DEF span
  <2>1. CASE metric_table[kind].lowerIsBetter
    <3>1. p = span - x /\ q = span - y /\ ~(x < y)
      BY <2>1 DEF Goodness, Better, span
    <3> HIDE DEF p, q
    <3> QED
      BY <1>1, <3>1
  <2>2. CASE ~metric_table[kind].lowerIsBetter
    <3>1. p = x /\ q = y /\ ~(x > y)
      BY <2>2 DEF Goodness, Better
    <3> HIDE DEF p, q
    <3> QED
      BY <1>1, <3>1
  <2> QED
    BY <2>1, <2>2
<1> HIDE DEF p, q, span
<1>3. p * Scale \in Int /\ q * Scale \in Int /\ p * Scale <= q * Scale
  BY <1>1, <1>2 DEF Scale
<1>4. /\ (p * Scale) \div span \in Int /\ (q * Scale) \div span \in Int
      /\ (p * Scale) \div span <= (q * Scale) \div span
  BY <1>1, <1>3, DivisionMonotone
<1>5. /\ Normalized(kind, x) = Clamped((p * Scale) \div span)
      /\ Normalized(kind, y) = Clamped((q * Scale) \div span)
  BY NormalizedIs DEF p, q, span
<1> QED
  BY <1>4, <1>5, ClampedBetween

Terms(policy) == policy.objective.terms

LEMMA TermsTyped ==
  ASSUME NEW policy \in Policies
  PROVE  /\ Len(Terms(policy)) \in Nat \ {0} /\ DOMAIN Terms(policy) = 1..Len(Terms(policy))
         /\ \A i \in DOMAIN Terms(policy) :
              Terms(policy)[i].kind \in MetricKind /\ Terms(policy)[i].weight_bps \in 0..Scale
<1> DEFINE Term == [kind : MetricKind, weight_bps : 0..Scale]
<1>1. Terms(policy) \in Seq(Term) /\ Terms(policy) # <<>>
  BY PoliciesAssumption DEF PolicyWellFormed, Terms
<1> HIDE DEF Term
<1>2. Len(Terms(policy)) \in Nat \ {0} /\ DOMAIN Terms(policy) = 1..Len(Terms(policy))
      /\ \A i \in DOMAIN Terms(policy) : Terms(policy)[i] \in Term
  BY <1>1, LenProperties, EmptySeq
<1> QED
  BY <1>2 DEF Term

Weighted(terms, values) ==
  [i \in DOMAIN terms |-> terms[i].weight_bps * Normalized(terms[i].kind, values[i])]

\* No better value for any term, no better score.
LEMMA ScoreMonotone ==
  ASSUME NEW policy \in Policies, NEW x, NEW y,
         \A i \in DOMAIN Terms(policy) :
           x[i] \in Nat /\ y[i] \in Nat /\ ~Better(Terms(policy)[i].kind, x[i], y[i])
  PROVE  /\ WeightedScore(Terms(policy), x) \in Nat /\ WeightedScore(Terms(policy), y) \in Nat
         /\ WeightedScore(Terms(policy), x) <= WeightedScore(Terms(policy), y)
<1> DEFINE terms == Terms(policy)
           n == Len(terms)
           a == Weighted(terms, x)
           b == Weighted(terms, y)
<1>1. /\ n \in Nat \ {0} /\ DOMAIN terms = 1..n
      /\ \A i \in 1..n : terms[i].kind \in MetricKind /\ terms[i].weight_bps \in 0..Scale
  BY TermsTyped
<1> HIDE DEF terms, n
<1>2. ASSUME NEW i \in 1..n PROVE a[i] \in Nat /\ b[i] \in Nat /\ a[i] <= b[i]
  <2> DEFINE w == terms[i].weight_bps
             p == Normalized(terms[i].kind, x[i])
             q == Normalized(terms[i].kind, y[i])
  <2>1. p \in 0..Scale /\ q \in 0..Scale /\ p <= q
    BY <1>1, NormalizedMonotone DEF terms
  <2>2. a[i] = w * p /\ b[i] = w * q
    BY <1>1 DEF Weighted
  <2>3. w \in Nat
    <3>1. w \in 0..Scale
      BY <1>1
    <3>2. Scale \in Nat
      BY DEF Scale
    <3> HIDE DEF w
    <3> QED
      BY <3>1, <3>2
  <2> HIDE DEF w, p, q, a, b
  <2>4. p \in Nat /\ q \in Nat
    BY <2>1 DEF Scale
  <2>5. w * p \in Nat /\ w * q \in Nat /\ w * p <= w * q
    BY <2>1, <2>3, <2>4, SMTT(30)
  <2> QED
    BY <2>2, <2>5
<1>3. DOMAIN a = 1..n /\ DOMAIN b = 1..n
  BY <1>1 DEF Weighted
<1> HIDE DEF a, b
<1>4. SumOf(a) \in Nat /\ SumOf(b) \in Nat /\ SumOf(a) <= SumOf(b)
  BY <1>1, <1>2, <1>3, SumMonotone
<1>5. /\ WeightedScore(terms, x) = (SumOf(a) + Scale \div 2) \div Scale
      /\ WeightedScore(terms, y) = (SumOf(b) + Scale \div 2) \div Scale
  BY DEF WeightedScore, Weighted, a, b
<1>6. /\ (SumOf(a) + Scale \div 2) \div Scale \in Nat /\ (SumOf(b) + Scale \div 2) \div Scale \in Nat
      /\ (SumOf(a) + Scale \div 2) \div Scale <= (SumOf(b) + Scale \div 2) \div Scale
  BY <1>4 DEF Scale
<1> QED
  BY <1>5, <1>6 DEF terms

-----------------------------------------------------------------------------
(***************************************************************************)
(* Candidates.                                                             *)
(***************************************************************************)

LEMMA BetterOrders ==
  ASSUME NEW kind, NEW x \in Int, NEW y \in Int, NEW z \in Int
  PROVE  /\ ~Better(kind, x, x)
         /\ x # y => (Better(kind, x, y) <=> ~Better(kind, y, x))
         /\ Better(kind, x, y) /\ Better(kind, y, z) => Better(kind, x, z)
<1>1. CASE metric_table[kind].lowerIsBetter
  BY <1>1 DEF Better
<1>2. CASE ~metric_table[kind].lowerIsBetter
  BY <1>2 DEF Better
<1> QED
  BY <1>1, <1>2

LEMMA LookupTyped ==
  ASSUME RetentionInv, NEW path, NEW r \in Requirements
  PROVE  \/ lookup_metric(path, r) = <<>>
         \/ \E v \in Nat, q \in 1..4 : lookup_metric(path, r) = <<[value |-> v, quality |-> q]>>
<1> SUFFICES ASSUME lookup_metric(path, r) # <<>>
             PROVE  \E v \in Nat, q \in 1..4 :
                      lookup_metric(path, r) = <<[value |-> v, quality |-> q]>>
  OBVIOUS
<1>1. EvidenceInv
  BY DEF RetentionInv
<1>2. PICK key \in Qualified(path, r) : lookup_metric(path, r) = <<Reading(key, r)>>
  BY <1>1, LookupFinds
<1>3. key \in DOMAIN series
  BY DEF Qualified
<1>4. Aggregated(series[key].samples, r).value \in Nat
  <2>1. Exact(r.aggregation, ValuesOf(series[key].samples),
              Aggregated(series[key].samples, r).value)
    BY <1>3, ReadingIsExact
  <2> QED
    BY <2>1 DEF Exact
<1>5. series[key].quality \in 1..4
  BY <1>1, <1>3, KeysTyped
<1> QED
  BY <1>2, <1>4, <1>5 DEF Reading

LEMMA TermsRead ==
  ASSUME RetentionInv, NEW policy \in Policies, NEW path, Eligible(policy, path),
         NEW i \in DOMAIN Terms(policy)
  PROVE  TermValue(policy, path, i)[1].value \in Nat
<1>1. PICK r \in ToSet(policy.evidence) : r.kind = Terms(policy)[i].kind
  BY PoliciesAssumption DEF PolicyWellFormed, Terms
<1>2. r \in Requirements /\ Declared(policy, r.kind) = <<r>>
  BY EvidenceRequired
<1>3. TermValue(policy, path, i) = lookup_metric(path, r)
  BY <1>1, <1>2 DEF TermValue, Terms
<1>4. TermValue(policy, path, i) # <<>>
  BY DEF Eligible, Terms
<1>5. PICK v \in Nat, q \in 1..4 : lookup_metric(path, r) = <<[value |-> v, quality |-> q]>>
  BY <1>2, <1>3, <1>4, LookupTyped
<1> QED
  BY <1>3, <1>5

LEMMA WeakestTyped ==
  ASSUME RetentionInv, NEW policy \in Policies, NEW path
  PROVE  WeakestQuality(policy, path) \in Nat
<1> DEFINE used == UNION {ToSet(lookup_metric(path, r)) : r \in ToSet(policy.evidence)}
           qualities == {4} \cup {metric.quality : metric \in used}
<1>1. ASSUME NEW metric \in used PROVE metric.quality \in Nat
  <2>1. PICK r \in ToSet(policy.evidence) : metric \in ToSet(lookup_metric(path, r))
    OBVIOUS
  <2>2. r \in Requirements
    BY EvidenceRequired
  <2>3. PICK i \in DOMAIN lookup_metric(path, r) : metric = lookup_metric(path, r)[i]
    BY <2>1 DEF ToSet
  <2>4. CASE lookup_metric(path, r) = <<>>
    BY <2>3, <2>4
  <2>5. CASE \E v \in Nat, q \in 1..4 : lookup_metric(path, r) = <<[value |-> v, quality |-> q]>>
    BY <2>3, <2>5
  <2> QED
    BY <2>2, <2>4, <2>5, LookupTyped
<1>2. WeakestQuality(policy, path) = IF RequiredHold(policy, path) THEN Min(qualities) ELSE 4
  BY DEF WeakestQuality
<1> HIDE DEF used
<1>3. qualities \in SUBSET Nat /\ qualities # {}
  BY <1>1
<1> HIDE DEF qualities
<1>4. Min(qualities) \in Nat
  BY <1>3, LeastOf
<1> QED
  BY <1>2, <1>4

IsCandidate(policy, e) ==
  /\ e.path \in Nat /\ e.eligible \in BOOLEAN
  /\ e.priority \in Int /\ e.quality \in Int /\ e.score \in Int
  /\ DOMAIN e.metrics = IF e.eligible THEN DOMAIN Terms(policy) ELSE {}
  /\ e.metrics \in [DOMAIN e.metrics -> Nat]
  /\ e.eligible /\ policy.objective.mode = "WEIGHTED_SCORE" =>
       e.score = WeightedScore(Terms(policy), e.metrics)

LEMMA EvaluationTyped ==
  ASSUME RetentionInv, NEW policy \in Policies, NEW path \in BoundPaths
  PROVE  IsCandidate(policy, Evaluation(policy, path)) /\ Evaluation(policy, path).path = path
<1> DEFINE e == Evaluation(policy, path)
           values == [i \in DOMAIN Terms(policy) |-> TermValue(policy, path, i)[1].value]
           weighted == policy.objective.mode = "WEIGHTED_SCORE"
<1>1. /\ e.path = path /\ e.priority = policy.priority[path]
      /\ e.quality = WeakestQuality(policy, path)
      /\ e.metrics = IF Eligible(policy, path) THEN values ELSE <<>>
      /\ e.score = IF Eligible(policy, path) /\ weighted
                   THEN WeightedScore(Terms(policy), values) ELSE 0
  BY DEF Evaluation, Terms
<1>2. e.eligible = Eligible(policy, path)
  BY DEF Evaluation
<1>3. Eligible(policy, path) \in BOOLEAN
  BY DEF Eligible
<1>4. e.eligible \in BOOLEAN /\ (e.eligible <=> Eligible(policy, path))
  BY <1>2, <1>3
<1>5. e.path \in Nat /\ e.priority \in Int /\ e.quality \in Int
  <2>1. path \in Nat /\ policy.priority \in [BoundPaths -> Int]
    BY EvidenceAssumption, PoliciesAssumption DEF PolicyWellFormed
  <2>2. WeakestQuality(policy, path) \in Nat
    BY WeakestTyped
  <2> HIDE DEF e
  <2> QED
    BY <1>1, <2>1, <2>2
<1>6. Eligible(policy, path) => \A i \in DOMAIN Terms(policy) : values[i] \in Nat
  BY TermsRead
<1>7. Eligible(policy, path) => WeightedScore(Terms(policy), values) \in Nat
  <2> SUFFICES ASSUME Eligible(policy, path) PROVE WeightedScore(Terms(policy), values) \in Nat
    OBVIOUS
  <2> HIDE DEF values
  <2>1. \A i \in DOMAIN Terms(policy) :
          values[i] \in Nat /\ ~Better(Terms(policy)[i].kind, values[i], values[i])
    BY <1>6, BetterOrders
  <2> QED
    BY <2>1, ScoreMonotone
<1>8. /\ DOMAIN values = DOMAIN Terms(policy)
      /\ Eligible(policy, path) => values \in [DOMAIN Terms(policy) -> Nat]
  BY <1>6
<1> HIDE DEF e, values, weighted
<1>9. CASE Eligible(policy, path)
  BY <1>1, <1>4, <1>5, <1>6, <1>7, <1>8, <1>9 DEF IsCandidate, weighted, e
<1>10. CASE ~Eligible(policy, path)
  BY <1>1, <1>4, <1>5, <1>10 DEF IsCandidate, e
<1> QED
  BY <1>9, <1>10

-----------------------------------------------------------------------------
(***************************************************************************)
(* ranks_ahead.                                                            *)
(***************************************************************************)

\* The first term that differs, if there is one, puts a before b.
TermsAhead(policy, a, b) == Differing(a, b) # {} /\ LeadsInTerms(policy, a, b)

\* f is the first term in which a and b differ.
FirstDiffers(a, b, f) ==
  f \in Differing(a, b) /\ \A i \in Differing(a, b) : f <= i

SameTerms(policy, a, b) ==
  /\ IsCandidate(policy, a) /\ IsCandidate(policy, b)
  /\ DOMAIN a.metrics = DOMAIN b.metrics

LEMMA FirstLeads ==
  ASSUME NEW policy \in Policies, NEW a, NEW b, SameTerms(policy, a, b)
  PROVE  /\ Differing(a, b) # {} => \E f \in DOMAIN a.metrics : FirstDiffers(a, b, f)
         /\ \A f : FirstDiffers(a, b, f) =>
              /\ f \in DOMAIN a.metrics /\ f \in Nat
              /\ a.metrics[f] \in Nat /\ b.metrics[f] \in Nat /\ a.metrics[f] # b.metrics[f]
              /\ TermsAhead(policy, a, b) <=>
                   Better(Terms(policy)[f].kind, a.metrics[f], b.metrics[f])
<1>1. DOMAIN a.metrics \in SUBSET Nat
  BY TermsTyped DEF SameTerms, IsCandidate
<1>2. Differing(a, b) \in SUBSET (DOMAIN a.metrics)
  BY DEF Differing
<1>3. ASSUME Differing(a, b) # {} PROVE \E f \in DOMAIN a.metrics : FirstDiffers(a, b, f)
  <2>1. Min(Differing(a, b)) \in Differing(a, b)
        /\ \A i \in Differing(a, b) : Min(Differing(a, b)) <= i
    BY <1>1, <1>2, <1>3, LeastOf
  <2> QED
    BY <1>2, <2>1 DEF FirstDiffers
<1>4. ASSUME NEW f, FirstDiffers(a, b, f)
      PROVE  /\ f \in DOMAIN a.metrics /\ f \in Nat
             /\ a.metrics[f] \in Nat /\ b.metrics[f] \in Nat /\ a.metrics[f] # b.metrics[f]
             /\ TermsAhead(policy, a, b) <=>
                  Better(Terms(policy)[f].kind, a.metrics[f], b.metrics[f])
  <2>1. f \in Differing(a, b) /\ \A i \in Differing(a, b) : f <= i
    BY <1>4 DEF FirstDiffers
  <2>2. f \in DOMAIN a.metrics /\ f \in Nat /\ a.metrics[f] # b.metrics[f]
    BY <1>1, <1>2, <2>1 DEF Differing
  <2>3. a.metrics[f] \in Nat /\ b.metrics[f] \in Nat
    BY <2>2 DEF SameTerms, IsCandidate
  <2>4. Min(Differing(a, b)) = f
    <3>1. Min(Differing(a, b)) \in Differing(a, b) /\ Min(Differing(a, b)) <= f
      BY <1>1, <1>2, <2>1, LeastOf
    <3>2. Min(Differing(a, b)) \in Nat /\ f <= Min(Differing(a, b))
      BY <1>1, <1>2, <2>1, <3>1
    <3> QED
      BY <2>2, <3>1, <3>2
  <2>5. TermsAhead(policy, a, b) <=> Better(Terms(policy)[f].kind, a.metrics[f], b.metrics[f])
    BY <2>1, <2>4 DEF TermsAhead, LeadsInTerms, Terms
  <2> QED
    BY <2>2, <2>3, <2>5
<1> QED
  BY <1>3, <1>4

LEMMA DifferingSymmetric ==
  ASSUME NEW a, NEW b
  PROVE  /\ Differing(a, b) = Differing(b, a) /\ Differing(a, a) = {}
         /\ \A f : FirstDiffers(a, b, f) <=> FirstDiffers(b, a, f)
<1>1. Differing(a, b) = Differing(b, a) /\ Differing(a, a) = {}
  BY DEF Differing
<1> QED
  BY <1>1 DEF FirstDiffers

LEMMA TermsTotal ==
  ASSUME NEW policy \in Policies, NEW a, NEW b, SameTerms(policy, a, b)
  PROVE  /\ ~TermsAhead(policy, a, a)
         /\ Differing(a, b) # {} => (TermsAhead(policy, a, b) <=> ~TermsAhead(policy, b, a))
<1>1. ~TermsAhead(policy, a, a)
  BY DifferingSymmetric DEF TermsAhead
<1>2. ASSUME Differing(a, b) # {}
      PROVE  TermsAhead(policy, a, b) <=> ~TermsAhead(policy, b, a)
  <2>1. PICK f : FirstDiffers(a, b, f)
    BY <1>2, FirstLeads
  <2>2. SameTerms(policy, b, a) /\ FirstDiffers(b, a, f)
    BY <2>1, DifferingSymmetric DEF SameTerms
  <2> DEFINE kind == Terms(policy)[f].kind
             x == a.metrics[f]
             y == b.metrics[f]
  <2>3. x \in Nat /\ y \in Nat /\ x # y /\ (TermsAhead(policy, a, b) <=> Better(kind, x, y))
    BY <2>1, FirstLeads
  <2>4. TermsAhead(policy, b, a) <=> Better(kind, y, x)
    BY <2>2, FirstLeads
  <2>5. Better(kind, x, y) <=> ~Better(kind, y, x)
    <3> HIDE DEF kind, x, y
    <3>1. x \in Int /\ y \in Int /\ x # y
      BY <2>3
    <3> QED
      BY <3>1, BetterOrders
  <2> QED
    BY <2>3, <2>4, <2>5
<1> QED
  BY <1>1, <1>2

LEMMA TermsTransitive ==
  ASSUME NEW policy \in Policies, NEW a, NEW b, NEW c,
         SameTerms(policy, a, b), SameTerms(policy, b, c),
         TermsAhead(policy, a, b), TermsAhead(policy, b, c)
  PROVE  TermsAhead(policy, a, c)
<1>1. SameTerms(policy, a, c)
  BY DEF SameTerms
<1>2. PICK f : FirstDiffers(a, b, f)
  BY FirstLeads DEF TermsAhead
<1>3. PICK g : FirstDiffers(b, c, g)
  BY FirstLeads DEF TermsAhead
<1>4. /\ f \in DOMAIN a.metrics /\ f \in Nat /\ a.metrics[f] \in Nat /\ b.metrics[f] \in Nat
      /\ a.metrics[f] # b.metrics[f]
      /\ Better(Terms(policy)[f].kind, a.metrics[f], b.metrics[f])
  BY <1>2, FirstLeads
<1>5. /\ g \in DOMAIN b.metrics /\ g \in Nat /\ b.metrics[g] \in Nat /\ c.metrics[g] \in Nat
      /\ b.metrics[g] # c.metrics[g]
      /\ Better(Terms(policy)[g].kind, b.metrics[g], c.metrics[g])
  BY <1>3, FirstLeads
<1>6. /\ DOMAIN a.metrics = DOMAIN b.metrics /\ DOMAIN c.metrics = DOMAIN b.metrics
      /\ DOMAIN a.metrics \in SUBSET Nat
  BY TermsTyped DEF SameTerms, IsCandidate
<1>7. \A i \in DOMAIN a.metrics :
        /\ i < f => a.metrics[i] = b.metrics[i]
        /\ i < g => b.metrics[i] = c.metrics[i]
  <2>1. \A i \in DOMAIN a.metrics : a.metrics[i] # b.metrics[i] => f <= i
    BY <1>2, <1>6 DEF FirstDiffers, Differing
  <2>2. \A i \in DOMAIN a.metrics : b.metrics[i] # c.metrics[i] => g <= i
    BY <1>3, <1>6 DEF FirstDiffers, Differing
  <2> QED
    BY <1>4, <1>5, <1>6, <2>1, <2>2
<1>8. ASSUME NEW h \in DOMAIN a.metrics, h \in Nat, h <= f, h <= g,
             a.metrics[h] \in Nat, c.metrics[h] \in Nat,
             Better(Terms(policy)[h].kind, a.metrics[h], c.metrics[h])
      PROVE  TermsAhead(policy, a, c)
  <2>1. a.metrics[h] # c.metrics[h]
    BY <1>8, BetterOrders
  <2>2. \A i \in DOMAIN a.metrics : i < h => a.metrics[i] = c.metrics[i]
    BY <1>4, <1>5, <1>6, <1>7, <1>8
  <2>3. FirstDiffers(a, c, h)
    <3>1. h \in Differing(a, c)
      BY <1>6, <2>1 DEF Differing
    <3>2. ASSUME NEW i \in Differing(a, c) PROVE h <= i
      <4>1. i \in DOMAIN a.metrics /\ a.metrics[i] # c.metrics[i]
        BY DEF Differing
      <4>2. i \in Nat /\ ~(i < h)
        BY <1>6, <2>2, <4>1
      <4> QED
        BY <1>8, <4>2
    <3> QED
      BY <3>1, <3>2 DEF FirstDiffers
  <2> QED
    BY <1>1, <1>8, <2>3, FirstLeads
<1>9. CASE f < g
  <2>1. b.metrics[f] = c.metrics[f] /\ f <= g /\ f <= f
    BY <1>4, <1>5, <1>7, <1>9
  <2> QED
    BY <1>4, <1>8, <2>1
<1>10. CASE g < f
  <2>1. a.metrics[g] = b.metrics[g] /\ g <= f /\ g <= g /\ g \in DOMAIN a.metrics
    BY <1>4, <1>5, <1>6, <1>7, <1>10
  <2> QED
    BY <1>5, <1>8, <2>1
<1>11. CASE f = g
  <2>1. Better(Terms(policy)[f].kind, a.metrics[f], c.metrics[f])
    <3>1. a.metrics[f] \in Int /\ b.metrics[f] \in Int /\ c.metrics[f] \in Int
      BY <1>4, <1>5, <1>11
    <3> QED
      BY <1>4, <1>5, <1>11, <3>1, BetterOrders
  <2>2. f <= f /\ f <= g /\ c.metrics[f] \in Nat
    BY <1>4, <1>5, <1>11
  <2> QED
    BY <1>4, <1>8, <2>1, <2>2
<1> QED
  BY <1>4, <1>5, <1>9, <1>10, <1>11

\* What decides between candidates of one eligibility, priority and quality.
Tie(policy, a, b) ==
  IF policy.objective.mode = "WEIGHTED_SCORE"
  THEN a.score > b.score \/ (a.score = b.score /\ a.path < b.path)
  ELSE IF Differing(a, b) # {} THEN TermsAhead(policy, a, b) ELSE a.path < b.path

LEMMA RanksAheadIs ==
  ASSUME NEW policy, NEW a, NEW b, IsCandidate(policy, a), IsCandidate(policy, b)
  PROVE  RanksAhead(policy, a, b) <=>
           \/ a.eligible # b.eligible /\ a.eligible
           \/ /\ a.eligible = b.eligible
              /\ \/ a.priority > b.priority
                 \/ /\ a.priority = b.priority
                    /\ \/ a.quality > b.quality
                       \/ a.quality = b.quality /\ Tie(policy, a, b)
<1>1. /\ a.eligible \in BOOLEAN /\ b.eligible \in BOOLEAN
      /\ a.priority \in Int /\ b.priority \in Int /\ a.quality \in Int /\ b.quality \in Int
      /\ a.score \in Int /\ b.score \in Int
  BY DEF IsCandidate
<1>2. Tie(policy, a, b) <=>
        IF policy.objective.mode = "WEIGHTED_SCORE" /\ a.score # b.score THEN a.score > b.score
        ELSE IF policy.objective.mode # "WEIGHTED_SCORE" /\ Differing(a, b) # {}
        THEN LeadsInTerms(policy, a, b) ELSE a.path < b.path
  BY <1>1 DEF Tie, TermsAhead
<1>3. RanksAhead(policy, a, b) <=>
        IF a.eligible # b.eligible THEN a.eligible
        ELSE IF a.priority # b.priority THEN a.priority > b.priority
        ELSE IF a.quality # b.quality THEN a.quality > b.quality
        ELSE Tie(policy, a, b)
  BY <1>2 DEF RanksAhead, ByPath
<1>4. CASE a.eligible # b.eligible
  BY <1>1, <1>3, <1>4
<1>5. CASE a.eligible = b.eligible
  BY <1>1, <1>3, <1>5
<1> QED
  BY <1>4, <1>5

LEMMA SameMetrics ==
  ASSUME NEW policy, NEW b, NEW c, SameTerms(policy, b, c), Differing(b, c) = {}
  PROVE  b.metrics = c.metrics
<1>1. /\ b.metrics = [i \in DOMAIN b.metrics |-> b.metrics[i]]
      /\ c.metrics = [i \in DOMAIN c.metrics |-> c.metrics[i]]
      /\ DOMAIN b.metrics = DOMAIN c.metrics
  BY DEF SameTerms, IsCandidate
<1>2. \A i \in DOMAIN b.metrics : b.metrics[i] = c.metrics[i]
  BY <1>1 DEF Differing
<1> QED
  BY <1>1, <1>2

LEMMA TieStrict ==
  ASSUME NEW policy \in Policies, NEW a, NEW b, SameTerms(policy, a, b)
  PROVE  /\ ~Tie(policy, a, a)
         /\ a.path # b.path => (Tie(policy, a, b) <=> ~Tie(policy, b, a))
<1>1. /\ a.score \in Int /\ b.score \in Int /\ a.path \in Nat /\ b.path \in Nat
  BY DEF SameTerms, IsCandidate
<1>2. CASE policy.objective.mode = "WEIGHTED_SCORE"
  BY <1>1, <1>2 DEF Tie
<1>3. CASE policy.objective.mode # "WEIGHTED_SCORE"
  <2>1. Differing(a, b) = Differing(b, a) /\ Differing(a, a) = {}
    BY DifferingSymmetric
  <2>2. Differing(a, b) # {} => (TermsAhead(policy, a, b) <=> ~TermsAhead(policy, b, a))
    BY TermsTotal
  <2> QED
    BY <1>1, <1>3, <2>1, <2>2 DEF Tie
<1> QED
  BY <1>2, <1>3

LEMMA TieTransitive ==
  ASSUME NEW policy \in Policies, NEW a, NEW b, NEW c,
         SameTerms(policy, a, b), SameTerms(policy, b, c),
         Tie(policy, a, b), Tie(policy, b, c)
  PROVE  Tie(policy, a, c)
<1>1. /\ a.score \in Int /\ b.score \in Int /\ c.score \in Int
      /\ a.path \in Nat /\ b.path \in Nat /\ c.path \in Nat
  BY DEF SameTerms, IsCandidate
<1>2. CASE policy.objective.mode = "WEIGHTED_SCORE"
  BY <1>1, <1>2 DEF Tie
<1>3. CASE policy.objective.mode # "WEIGHTED_SCORE"
  <2>1. CASE Differing(a, b) = {}
    <3>1. a.metrics = b.metrics
      BY <2>1, SameMetrics
    <3>2. Differing(a, c) = Differing(b, c)
          /\ (TermsAhead(policy, a, c) <=> TermsAhead(policy, b, c))
      BY <3>1 DEF Differing, TermsAhead, LeadsInTerms
    <3> QED
      BY <1>1, <1>3, <2>1, <3>2 DEF Tie
  <2>2. CASE Differing(b, c) = {}
    <3>1. b.metrics = c.metrics
      BY <2>2, SameMetrics
    <3>2. Differing(a, b) = Differing(a, c)
          /\ (TermsAhead(policy, a, b) <=> TermsAhead(policy, a, c))
      BY <3>1 DEF Differing, TermsAhead, LeadsInTerms
    <3> QED
      BY <1>1, <1>3, <2>2, <3>2 DEF Tie
  <2>3. CASE Differing(a, b) # {} /\ Differing(b, c) # {}
    <3>1. TermsAhead(policy, a, b) /\ TermsAhead(policy, b, c)
      BY <1>3, <2>3 DEF Tie
    <3>2. TermsAhead(policy, a, c)
      BY <3>1, TermsTransitive
    <3> QED
      BY <1>3, <3>2 DEF Tie, TermsAhead
  <2> QED
    BY <2>1, <2>2, <2>3
<1> QED
  BY <1>2, <1>3

LEMMA SameEligibility ==
  ASSUME NEW policy, NEW a, NEW b, IsCandidate(policy, a), IsCandidate(policy, b),
         a.eligible = b.eligible
  PROVE  SameTerms(policy, a, b)
BY DEF SameTerms, IsCandidate

LEMMA RanksStrict ==
  ASSUME NEW policy \in Policies, NEW a, NEW b, IsCandidate(policy, a), IsCandidate(policy, b)
  PROVE  /\ ~RanksAhead(policy, a, a)
         /\ a.path # b.path => (RanksAhead(policy, a, b) <=> ~RanksAhead(policy, b, a))
<1>1. /\ a.eligible \in BOOLEAN /\ b.eligible \in BOOLEAN
      /\ a.priority \in Int /\ b.priority \in Int /\ a.quality \in Int /\ b.quality \in Int
  BY DEF IsCandidate
<1>2. ~RanksAhead(policy, a, a)
  <2>1. SameTerms(policy, a, a)
    BY SameEligibility
  <2>2. ~Tie(policy, a, a)
    BY <2>1, TieStrict
  <2> QED
    BY <1>1, <2>2, RanksAheadIs
<1>3. CASE a.eligible = b.eligible
  <2>1. a.path # b.path => (Tie(policy, a, b) <=> ~Tie(policy, b, a))
    BY <1>3, SameEligibility, TieStrict
  <2>2. RanksAhead(policy, a, b) <=>
          \/ a.priority > b.priority
          \/ /\ a.priority = b.priority
             /\ \/ a.quality > b.quality
                \/ a.quality = b.quality /\ Tie(policy, a, b)
    BY <1>3, RanksAheadIs
  <2>3. RanksAhead(policy, b, a) <=>
          \/ b.priority > a.priority
          \/ /\ b.priority = a.priority
             /\ \/ b.quality > a.quality
                \/ b.quality = a.quality /\ Tie(policy, b, a)
    BY <1>3, RanksAheadIs
  <2>4. a.path # b.path => (RanksAhead(policy, a, b) <=> ~RanksAhead(policy, b, a))
    BY <1>1, <2>1, <2>2, <2>3
  <2> QED
    BY <1>2, <2>4
<1>4. CASE a.eligible # b.eligible
  <2>1. RanksAhead(policy, a, b) <=> a.eligible
    BY <1>4, RanksAheadIs
  <2>2. RanksAhead(policy, b, a) <=> b.eligible
    BY <1>4, RanksAheadIs
  <2>3. a.eligible <=> ~b.eligible
    BY <1>1, <1>4
  <2> QED
    BY <1>2, <2>1, <2>2, <2>3
<1> QED
  BY <1>3, <1>4

LEMMA RanksTransitive ==
  ASSUME NEW policy \in Policies, NEW a, NEW b, NEW c,
         IsCandidate(policy, a), IsCandidate(policy, b), IsCandidate(policy, c),
         RanksAhead(policy, a, b), RanksAhead(policy, b, c)
  PROVE  RanksAhead(policy, a, c)
<1>1. /\ a.eligible \in BOOLEAN /\ b.eligible \in BOOLEAN /\ c.eligible \in BOOLEAN
      /\ a.priority \in Int /\ b.priority \in Int /\ c.priority \in Int
      /\ a.quality \in Int /\ b.quality \in Int /\ c.quality \in Int
  BY DEF IsCandidate
<1>2. CASE a.eligible = b.eligible /\ b.eligible = c.eligible
  <2>1. Tie(policy, a, b) /\ Tie(policy, b, c) => Tie(policy, a, c)
    BY <1>2, SameEligibility, TieTransitive
  <2>2. \/ a.priority > b.priority
        \/ /\ a.priority = b.priority
           /\ \/ a.quality > b.quality
              \/ a.quality = b.quality /\ Tie(policy, a, b)
    BY <1>2, RanksAheadIs
  <2>3. \/ b.priority > c.priority
        \/ /\ b.priority = c.priority
           /\ \/ b.quality > c.quality
              \/ b.quality = c.quality /\ Tie(policy, b, c)
    BY <1>2, RanksAheadIs
  <2>4. \/ a.priority > c.priority
        \/ /\ a.priority = c.priority
           /\ \/ a.quality > c.quality
              \/ a.quality = c.quality /\ Tie(policy, a, c)
    BY <1>1, <2>1, <2>2, <2>3
  <2> QED
    BY <1>2, <2>4, RanksAheadIs
<1>3. CASE ~(a.eligible = b.eligible /\ b.eligible = c.eligible)
  <2>1. a.eligible # b.eligible => a.eligible
    BY RanksAheadIs
  <2>2. b.eligible # c.eligible => b.eligible
    BY RanksAheadIs
  <2>3. a.eligible /\ ~c.eligible
    BY <1>1, <1>3, <2>1, <2>2
  <2> QED
    BY <2>3, RanksAheadIs
<1> QED
  BY <1>2, <1>3

LEMMA StrictRanking ==
  ASSUME RetentionInv
  PROVE  RankingIsStrict
<1>1. ASSUME NEW policy \in Policies, NEW e \in Evaluations(policy)
      PROVE  \E path \in BoundPaths : e = Evaluation(policy, path) /\ e.path = path
  BY EvaluationTyped DEF Evaluations
<1>2. ASSUME NEW policy \in Policies, NEW e \in Evaluations(policy)
      PROVE  IsCandidate(policy, e)
  BY EvaluationTyped DEF Evaluations
<1> SUFFICES ASSUME NEW policy \in Policies,
                    NEW a \in Evaluations(policy), NEW b \in Evaluations(policy)
             PROVE  /\ ~RanksAhead(policy, a, a)
                    /\ a # b => (RanksAhead(policy, a, b) <=> ~RanksAhead(policy, b, a))
                    /\ \A c \in Evaluations(policy) :
                         RanksAhead(policy, a, b) /\ RanksAhead(policy, b, c)
                         => RanksAhead(policy, a, c)
  BY DEF RankingIsStrict
<1>3. IsCandidate(policy, a) /\ IsCandidate(policy, b)
  BY <1>2
<1>4. a # b => a.path # b.path
  BY <1>1
<1>5. /\ ~RanksAhead(policy, a, a)
      /\ a # b => (RanksAhead(policy, a, b) <=> ~RanksAhead(policy, b, a))
  BY <1>3, <1>4, RanksStrict
<1>6. ASSUME NEW c \in Evaluations(policy), RanksAhead(policy, a, b), RanksAhead(policy, b, c)
      PROVE  RanksAhead(policy, a, c)
  BY <1>2, <1>3, <1>6, RanksTransitive
<1> QED
  BY <1>5, <1>6

(***************************************************************************)
(* ranks_ahead is a strict total order of the candidates of every policy,  *)
(* for any objective, any evidence and any mixture of eligible and         *)
(* ineligible candidates: the sort of evaluate_inputs has one result.      *)
(***************************************************************************)
THEOREM StrictlyRanked == EvidenceSpec => []RankingIsStrict
<1>1. RetentionInv => RankingIsStrict
  BY StrictRanking
<1> QED
  BY <1>1, RetentionInvariant, PTL

LEMMA NeverLeads ==
  ASSUME RetentionInv
  PROVE  DominatedNeverLeads
<1> SUFFICES ASSUME NEW policy \in Policies, NEW a \in Evaluations(policy),
                    NEW b \in Evaluations(policy), Dominates(policy, a, b)
             PROVE  /\ policy.objective.mode = "WEIGHTED_SCORE" => a.score >= b.score
                    /\ policy.objective.mode = "LEXICOGRAPHIC" => RanksAhead(policy, a, b)
  BY DEF DominatedNeverLeads
<1> DEFINE terms == Terms(policy)
<1>1. IsCandidate(policy, a) /\ IsCandidate(policy, b)
  BY EvaluationTyped DEF Evaluations
<1>2. /\ a.eligible /\ b.eligible /\ a.priority = b.priority /\ a.quality = b.quality
      /\ \A i \in DOMAIN terms : ~Better(terms[i].kind, b.metrics[i], a.metrics[i])
      /\ \E i \in DOMAIN terms : Better(terms[i].kind, a.metrics[i], b.metrics[i])
  BY DEF Dominates, Terms
<1>3. a.eligible = b.eligible
  BY <1>1, <1>2 DEF IsCandidate
<1>4. /\ DOMAIN a.metrics = DOMAIN terms /\ DOMAIN b.metrics = DOMAIN terms
      /\ \A i \in DOMAIN terms : a.metrics[i] \in Nat /\ b.metrics[i] \in Nat
  BY <1>1, <1>2 DEF IsCandidate
<1>5. ASSUME policy.objective.mode = "WEIGHTED_SCORE" PROVE a.score >= b.score
  <2>1. a.score = WeightedScore(terms, a.metrics) /\ b.score = WeightedScore(terms, b.metrics)
    BY <1>1, <1>2, <1>5 DEF IsCandidate
  <2>2. /\ WeightedScore(terms, a.metrics) \in Nat /\ WeightedScore(terms, b.metrics) \in Nat
        /\ WeightedScore(terms, b.metrics) <= WeightedScore(terms, a.metrics)
    BY <1>2, <1>4, ScoreMonotone
  <2> HIDE DEF terms
  <2> QED
    BY <2>1, <2>2
<1>6. ASSUME policy.objective.mode = "LEXICOGRAPHIC" PROVE RanksAhead(policy, a, b)
  <2>1. SameTerms(policy, a, b)
    BY <1>1, <1>3, SameEligibility
  <2>2. PICK i \in DOMAIN terms : Better(terms[i].kind, a.metrics[i], b.metrics[i])
    BY <1>2
  <2>3. a.metrics[i] # b.metrics[i]
    <3> DEFINE x == a.metrics[i]
               y == b.metrics[i]
    <3>1. x \in Int /\ y \in Int /\ Better(terms[i].kind, x, y)
      BY <1>4, <2>2
    <3> HIDE DEF x, y
    <3>2. x # y
      BY <3>1, BetterOrders
    <3> QED
      BY <3>2 DEF x, y
  <2>4. Differing(a, b) # {}
    BY <1>4, <2>2, <2>3 DEF Differing
  <2>5. PICK f : FirstDiffers(b, a, f)
    BY <2>1, <2>4, FirstLeads, DifferingSymmetric
  <2>6. SameTerms(policy, b, a)
    BY <2>1 DEF SameTerms
  <2>7. /\ f \in DOMAIN terms
        /\ TermsAhead(policy, b, a) <=> Better(terms[f].kind, b.metrics[f], a.metrics[f])
    BY <1>4, <2>5, <2>6, FirstLeads
  <2>8. ~TermsAhead(policy, b, a)
    BY <1>2, <2>7
  <2>9. TermsAhead(policy, a, b)
    BY <2>1, <2>4, <2>8, TermsTotal
  <2>10. policy.objective.mode # "WEIGHTED_SCORE"
    BY <1>6
  <2>11. Tie(policy, a, b)
    BY <2>4, <2>9, <2>10 DEF Tie
  <2> QED
    BY <1>1, <1>2, <1>3, <2>11, RanksAheadIs
<1> QED
  BY <1>5, <1>6

(***************************************************************************)
(* weighted_score, normalize_to_basis_points and ranks_ahead, for any      *)
(* terms and weights: of two candidates of one priority and quality, the   *)
(* one that is nowhere better and somewhere worse does not score higher,   *)
(* and comes second where the terms are taken one after the other.         *)
(***************************************************************************)
THEOREM DominatedFollows == EvidenceSpec => []DominatedNeverLeads
<1>1. RetentionInv => DominatedNeverLeads
  BY NeverLeads
<1> QED
  BY <1>1, RetentionInvariant, PTL
=============================================================================
