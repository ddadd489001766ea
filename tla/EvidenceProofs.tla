--------------------------- MODULE EvidenceProofs ---------------------------
(***************************************************************************)
(* What publish_evidence makes of its batches, for any batches and limits: *)
(* what is accepted under one key follows on what was accepted before, a   *)
(* batch is its parts, nothing is counted twice, and the newest samples    *)
(* are retained.                                                           *)
(***************************************************************************)
EXTENDS Evidence, FiniteSetTheorems, SequenceTheorems, NaturalsInduction, TLAPS

-----------------------------------------------------------------------------
(***************************************************************************)
(* Induction over a set of numbers, and least and greatest elements.       *)
(***************************************************************************)

Below == {pair \in Nat \X Nat : pair[1] < pair[2]}

LEMMA BelowWellFounded == IsWellFoundedOn(Below, Nat)
<1>1. IsWellFoundedOn(OpToRel(<, Nat), Nat)
  BY NatLessThanWellFounded
<1>2. OpToRel(<, Nat) = Below
  BY DEF OpToRel, Below
<1> QED
  BY <1>1, <1>2

LEMMA HasLeast ==
  ASSUME NEW S \in SUBSET Nat, S # {}
  PROVE  \E x \in S : \A y \in S : x <= y
<1>1. PICK x \in S : \A y \in S : <<y, x>> \notin Below
  BY BelowWellFounded, WFMin
<1>2. ASSUME NEW y \in S PROVE x <= y
  <2>1. x \in Nat /\ y \in Nat /\ <<y, x>> \notin Below
    BY <1>1
  <2>2. ~(y < x)
    BY <2>1 DEF Below
  <2> QED
    BY <2>1, <2>2
<1> QED
  BY <1>1, <1>2

LEMMA SetInduction ==
  ASSUME NEW T, 0 \in T, \A n \in Nat : n \in T => n + 1 \in T
  PROVE  \A n \in Nat : n \in T
<1> SUFFICES ASSUME Nat \ T # {} PROVE FALSE
  OBVIOUS
<1>1. PICK x \in Nat \ T : \A y \in Nat \ T : x <= y
  BY HasLeast
<1>2. x # 0 /\ x - 1 \in Nat /\ (x - 1) + 1 = x
  BY <1>1
<1> QED
  BY <1>1, <1>2

LEMMA HasGreatest ==
  ASSUME NEW S \in SUBSET Nat, S # {}, NEW n \in Nat, \A x \in S : x <= n
  PROVE  Max(S) \in S /\ \A y \in S : y <= Max(S)
<1> DEFINE gaps == {g \in Nat : n - g \in S}
<1>1. gaps # {}
  <2>1. PICK x \in S : TRUE
    OBVIOUS
  <2>2. n - x \in Nat /\ n - (n - x) = x
    BY <2>1
  <2> QED
    BY <2>1, <2>2
<1>2. PICK g \in gaps : \A h \in gaps : g <= h
  BY <1>1, HasLeast
<1>3. n - g \in S /\ \A y \in S : y <= n - g
  <2>1. ASSUME NEW y \in S PROVE y <= n - g
    <3>1. n - y \in gaps
      <4>1. y \in Nat /\ y <= n
        BY <2>1
      <4>2. n - y \in Nat /\ n - (n - y) = y
        BY <4>1
      <4> QED
        BY <2>1, <4>2
    <3>2. g \in Nat /\ y \in Nat /\ g <= n - y
      BY <1>2, <2>1, <3>1
    <3> QED
      BY <3>2
  <2> QED
    BY <1>2, <2>1
<1> HIDE DEF gaps
<1>4. \E x \in S : \A y \in S : x >= y
  BY <1>3
<1> QED
  BY <1>4 DEF Max

-----------------------------------------------------------------------------
(***************************************************************************)
(* The recursive function that applies a batch.                            *)
(***************************************************************************)

\* One step of it.
Turn(known, batch, f, n) == IF n = 0 THEN known ELSE Applied(f[n - 1], batch[n])

LEMMA PartiallyApplied ==
  ASSUME NEW known, NEW batch
  PROVE  \A m \in Nat : \E f : f = [n \in 0..m |-> Turn(known, batch, f, n)]
<1> DEFINE T == {m \in Nat : \E f : f = [n \in 0..m |-> Turn(known, batch, f, n)]}
<1>1. 0 \in T
  <2>1. [n \in 0..0 |-> known] = [n \in 0..0 |-> Turn(known, batch, [k \in 0..0 |-> known], n)]
    BY DEF Turn
  <2> QED
    BY <2>1
<1>2. ASSUME NEW m \in Nat, m \in T PROVE m + 1 \in T
  <2>1. PICK f : f = [n \in 0..m |-> Turn(known, batch, f, n)]
    BY <1>2
  <2> DEFINE g == [n \in 0..m + 1 |-> IF n <= m THEN f[n] ELSE Applied(f[m], batch[m + 1])]
  <2>2. ASSUME NEW n \in 0..m + 1 PROVE g[n] = Turn(known, batch, g, n)
    <3>1. CASE n = 0
      <4>1. g[n] = f[0] /\ f[0] = Turn(known, batch, f, 0)
        BY <2>1, <3>1
      <4> QED
        BY <3>1, <4>1 DEF Turn
    <3>2. CASE n # 0 /\ n <= m
      <4>1. g[n] = f[n] /\ f[n] = Turn(known, batch, f, n)
        BY <2>1, <3>2
      <4>2. g[n - 1] = f[n - 1]
        BY <3>2
      <4> QED
        BY <3>2, <4>1, <4>2 DEF Turn
    <3>3. CASE n = m + 1
      <4>1. g[n] = Applied(f[m], batch[m + 1]) /\ g[n - 1] = f[m] /\ n # 0 /\ n - 1 = m
        BY <3>3
      <4> QED
        BY <3>3, <4>1 DEF Turn
    <3> QED
      BY <3>1, <3>2, <3>3
  <2>3. g = [n \in 0..m + 1 |-> Turn(known, batch, g, n)]
    BY <2>2
  <2> HIDE DEF g
  <2> QED
    BY <2>3
<1> HIDE DEF T
<1>3. \A m \in Nat : m \in T
  BY <1>1, <1>2, SetInduction
<1> QED
  BY <1>3 DEF T

LEMMA AppliedInTurn ==
  ASSUME NEW known, NEW batch, Len(batch) \in Nat
  PROVE  /\ AppliedAll(known, batch)[0] = known
         /\ \A n \in 1..Len(batch) :
              AppliedAll(known, batch)[n] = Applied(AppliedAll(known, batch)[n - 1], batch[n])
<1> DEFINE Defines(f) == f = [n \in 0..Len(batch) |-> Turn(known, batch, f, n)]
           all == AppliedAll(known, batch)
<1>1. \E f : Defines(f)
  BY PartiallyApplied
<1>2. all = CHOOSE f : Defines(f)
  BY DEF AppliedAll, Turn
<1>3. Defines(all)
  BY <1>1, <1>2
<1> HIDE DEF all
<1>4. \A n \in 0..Len(batch) : all[n] = Turn(known, batch, all, n)
  BY <1>3
<1>5. all[0] = known /\ \A n \in 1..Len(batch) : all[n] = Applied(all[n - 1], batch[n])
  BY <1>4 DEF Turn
<1> QED
  BY <1>5 DEF all

-----------------------------------------------------------------------------
(***************************************************************************)
(* The series and the history.  The history is a log and how much of it    *)
(* has been applied, since the series change by one publication at a time. *)
(***************************************************************************)

SampleRecord == [value : Nat, accepted_at : Nat, sequence : Nat]

Key == [source : Nat, path : Nat, kind : MetricKind]

ArrivalRecord ==
  [key : Key, generation : Nat \ {0}, quality : 1..4, sample : SampleRecord]

\* The first m entries of the log are arrivals.
Logged(log, m) == \A i \in 1..m : log[i] \in ArrivalRecord

LastUnder(log, m, i) == \A j \in 1..m : log[j].key = log[i].key => j <= i

\* A series is as the last arrival under its key left it.
EndsWith(s, a) ==
  /\ s.generation = a.generation /\ s.quality = a.quality
  /\ s.samples \in Seq(SampleRecord) /\ s.samples # <<>> /\ Last(s.samples) = a.sample

Reflects(known, log, m) ==
  /\ DOMAIN known = {log[i].key : i \in 1..m}
  /\ \A i \in 1..m : LastUnder(log, m, i) => EndsWith(known[log[i].key], log[i])

LEMMA ArrivalTyped ==
  ASSUME NEW publication \in Publication, clock \in Nat
  PROVE  /\ Arrival(publication) \in ArrivalRecord
         /\ KeyOf(publication) \in Key
         /\ Sample(publication) \in SampleRecord
         /\ Arrival(publication).key = KeyOf(publication)
         /\ Arrival(publication).generation = publication.generation
         /\ Arrival(publication).quality = publication.quality
         /\ Arrival(publication).sample = Sample(publication)
         /\ Sample(publication).sequence = publication.sequence
<1>1. KeyOf(publication) \in Key
  BY DEF Publication, KeyOf, Key
<1>2. Sample(publication) \in SampleRecord /\ Sample(publication).sequence = publication.sequence
  BY DEF Publication, Sample, SampleRecord
<1>3. publication.generation \in Nat \ {0} /\ publication.quality \in 1..4
  BY DEF Publication
<1> QED
  BY <1>1, <1>2, <1>3 DEF Arrival, ArrivalRecord

\* Where a key was used, it was used a last time.
LEMMA LastExists ==
  ASSUME NEW log, NEW m \in Nat, NEW i \in 1..m
  PROVE  \E l \in i..m : log[l].key = log[i].key /\ LastUnder(log, m, l)
<1> DEFINE uses == {j \in 1..m : log[j].key = log[i].key}
<1>1. uses \in SUBSET Nat /\ i \in uses /\ \A j \in uses : j <= m
  OBVIOUS
<1>2. Max(uses) \in uses /\ \A j \in uses : j <= Max(uses)
  BY <1>1, HasGreatest
<1>3. Max(uses) \in i..m
  BY <1>1, <1>2
<1>4. LastUnder(log, m, Max(uses)) /\ log[Max(uses)].key = log[i].key
  BY <1>2 DEF LastUnder
<1> QED
  BY <1>3, <1>4

LEMMA RetainedEnds ==
  ASSUME NEW samples \in Seq(SampleRecord), NEW s \in SampleRecord
  PROVE  LET kept == Retained(Append(samples, s)) IN
         kept \in Seq(SampleRecord) /\ kept # <<>> /\ Last(kept) = s
<1> DEFINE longer == Append(samples, s)
<1>1. /\ longer \in Seq(SampleRecord) /\ longer # <<>> /\ Len(longer) = Len(samples) + 1
      /\ longer[Len(longer)] = s /\ Len(samples) \in Nat
  BY AppendProperties, LenProperties
<1> HIDE DEF longer
<1>2. /\ Tail(longer) \in Seq(SampleRecord) /\ Len(Tail(longer)) = Len(longer) - 1
      /\ \A i \in 1..Len(Tail(longer)) : Tail(longer)[i] = longer[i + 1]
  BY <1>1, HeadTailProperties
<1>3. SampleLimit \in Nat \ {0}
  BY EvidenceAssumption
<1>4. CASE Len(longer) > SampleLimit
  <2>1. Retained(longer) = Tail(longer)
    BY <1>4 DEF Retained
  <2>2. Len(Tail(longer)) \in 1..Len(Tail(longer)) /\ Len(Tail(longer)) + 1 = Len(longer)
    BY <1>1, <1>2, <1>3, <1>4
  <2>3. Tail(longer)[Len(Tail(longer))] = s
    BY <1>1, <1>2, <2>2
  <2>4. Tail(longer) # <<>>
    <3>1. Len(Tail(longer)) # 0
      BY <1>2, <2>2
    <3> QED
      BY <3>1, EmptySeq, Zenon
  <2> QED
    BY <1>2, <2>1, <2>3, <2>4 DEF Last, longer
<1>5. CASE ~(Len(longer) > SampleLimit)
  <2>1. Retained(longer) = longer
    BY <1>5 DEF Retained
  <2> QED
    BY <1>1, <2>1 DEF Last, longer
<1> QED
  BY <1>4, <1>5

LEMMA StoredKnown ==
  ASSUME NEW known, NEW key
  PROVE  /\ key \in DOMAIN known => StoredIn(known, key) = <<known[key]>>
         /\ key \notin DOMAIN known => StoredIn(known, key) = <<>>
         /\ StoredIn(known, key) = <<>> <=> key \notin DOMAIN known
BY DEF StoredIn

LEMMA AppliedHolds ==
  ASSUME NEW known, NEW publication
  PROVE  LET key == KeyOf(publication)
             old == IF key \notin DOMAIN known \/ publication.generation > known[key].generation
                    THEN <<>> ELSE known[key].samples
             after == Applied(known, publication)
         IN  /\ DOMAIN after = DOMAIN known \cup {key}
             /\ after[key].generation = publication.generation
             /\ after[key].quality = publication.quality
             /\ after[key].samples = Retained(Append(old, Sample(publication)))
             /\ \A other \in DOMAIN known : other # key => after[other] = known[other]
<1> DEFINE key == KeyOf(publication)
           old == IF key \notin DOMAIN known \/ publication.generation > known[key].generation
                  THEN <<>> ELSE known[key].samples
<1>1. Applied(known, publication) =
        [other \in DOMAIN known \cup {key} |->
           IF other = key THEN Lengthened(publication, old) ELSE known[other]]
  <2>1. key \in DOMAIN known =>
          (IsNewer(known, publication) <=> publication.generation > known[key].generation)
    BY StoredKnown DEF IsNewer
  <2> QED
    BY <2>1 DEF Applied
<1> HIDE DEF key, old
<1>2. Applied(known, publication)[key] = Lengthened(publication, old)
  BY <1>1
<1>3. /\ DOMAIN Applied(known, publication) = DOMAIN known \cup {key}
      /\ \A other \in DOMAIN known : other # key =>
           Applied(known, publication)[other] = known[other]
  BY <1>1
<1> QED
  BY <1>2, <1>3 DEF key, old, Lengthened

\* One publication more, whether it is acceptable or not.
LEMMA ReflectsOneMore ==
  ASSUME NEW known, NEW log, NEW m \in Nat, NEW publication \in Publication, clock \in Nat,
         Reflects(known, log, m), log[m + 1] = Arrival(publication)
  PROVE  Reflects(Applied(known, publication), log, m + 1)
<1> DEFINE key == KeyOf(publication)
           after == Applied(known, publication)
           old == IF key \notin DOMAIN known \/ publication.generation > known[key].generation
                  THEN <<>> ELSE known[key].samples
<1>1. log[m + 1].key = key /\ log[m + 1].generation = publication.generation
      /\ log[m + 1].quality = publication.quality /\ log[m + 1].sample = Sample(publication)
      /\ Sample(publication) \in SampleRecord
  BY ArrivalTyped
<1>2. /\ DOMAIN after = DOMAIN known \cup {key}
      /\ after[key].generation = publication.generation
      /\ after[key].quality = publication.quality
      /\ after[key].samples = Retained(Append(old, Sample(publication)))
      /\ \A other \in DOMAIN known : other # key => after[other] = known[other]
  BY AppliedHolds
<1> HIDE DEF after
<1>3. old \in Seq(SampleRecord)
  <2>1. CASE key \in DOMAIN known
    <3>1. PICK i \in 1..m : log[i].key = key
      BY <2>1 DEF Reflects
    <3>2. PICK l \in i..m : log[l].key = log[i].key /\ LastUnder(log, m, l)
      BY LastExists, Zenon
    <3>3. l \in 1..m
      OBVIOUS
    <3>4. EndsWith(known[key], log[l])
      BY <3>1, <3>2, <3>3 DEF Reflects
    <3> QED
      BY <2>1, <3>4 DEF EndsWith
  <2>2. CASE key \notin DOMAIN known
    BY <2>2
  <2> QED
    BY <2>1, <2>2
<1> HIDE DEF old, key
<1>4. EndsWith(after[key], log[m + 1])
  BY <1>1, <1>2, <1>3, RetainedEnds DEF EndsWith
<1>5. DOMAIN after = {log[i].key : i \in 1..m + 1}
  <2>1. 1..m + 1 = 1..m \cup {m + 1}
    OBVIOUS
  <2> QED
    BY <1>1, <1>2, <2>1 DEF Reflects
<1>6. ASSUME NEW i \in 1..m + 1, LastUnder(log, m + 1, i)
      PROVE  EndsWith(after[log[i].key], log[i])
  <2>1. CASE i = m + 1
    BY <1>1, <1>4, <2>1
  <2>2. CASE i # m + 1
    <3>1. i \in 1..m /\ m + 1 \in 1..m + 1 /\ ~(m + 1 <= i)
      BY <2>2
    <3>2. log[i].key # key
      BY <1>1, <1>6, <3>1 DEF LastUnder
    <3>3. LastUnder(log, m, i)
      BY <1>6 DEF LastUnder
    <3>4. EndsWith(known[log[i].key], log[i]) /\ log[i].key \in DOMAIN known
      BY <3>1, <3>3 DEF Reflects
    <3> QED
      BY <1>2, <3>2, <3>4
  <2> QED
    BY <2>1, <2>2
<1>7. Reflects(after, log, m + 1)
  BY <1>5, <1>6 DEF Reflects
<1> QED
  BY <1>7 DEF after

-----------------------------------------------------------------------------
(***************************************************************************)
(* What validation asks of a publication: that it succeeds the last one    *)
(* under its key, be that stored or in the batch before it.                *)
(***************************************************************************)

Succeeds(publication, a) ==
  \/ publication.generation > a.generation
  \/ /\ publication.generation = a.generation /\ publication.quality = a.quality
     /\ Follows(publication.sequence, a.sample.sequence)

LEMMA EffectiveOf ==
  /\ EffectiveGeneration(<<>>, <<>>) = 0
  /\ \A s : s.generation \in Nat =>
       /\ EffectiveGeneration(<<s>>, <<>>) = s.generation
       /\ EffectiveGeneration(<<>>, <<s>>) = s.generation
       /\ \A t : t.generation \in Nat /\ s.generation <= t.generation =>
            EffectiveGeneration(<<s>>, <<t>>) = t.generation
<1>1. ToSet(<<>>) = {} /\ \A s : ToSet(<<s>>) = {s}
  BY DEF ToSet
<1>2. ASSUME NEW S \in SUBSET Nat, NEW n \in S, \A x \in S : x <= n
      PROVE  Max(S) = n
  <2>1. Max(S) \in S /\ n <= Max(S)
    BY <1>2, HasGreatest
  <2>2. Max(S) \in Nat /\ Max(S) <= n /\ n \in Nat
    BY <1>2, <2>1
  <2> QED
    BY <2>1, <2>2
<1>3. EffectiveGeneration(<<>>, <<>>) = Max({0})
  <2>1. {0} \cup {s.generation : s \in ToSet(<<>>) \cup ToSet(<<>>)} = {0}
    BY <1>1
  <2> QED
    BY <2>1 DEF EffectiveGeneration
<1>4. ASSUME NEW s
      PROVE  /\ EffectiveGeneration(<<s>>, <<>>) = Max({0, s.generation})
             /\ EffectiveGeneration(<<>>, <<s>>) = Max({0, s.generation})
  <2>1. /\ {0} \cup {r.generation : r \in ToSet(<<s>>) \cup ToSet(<<>>)} = {0, s.generation}
        /\ {0} \cup {r.generation : r \in ToSet(<<>>) \cup ToSet(<<s>>)} = {0, s.generation}
    BY <1>1
  <2> QED
    BY <2>1 DEF EffectiveGeneration
<1>5. ASSUME NEW s, NEW t
      PROVE  EffectiveGeneration(<<s>>, <<t>>) = Max({0, s.generation, t.generation})
  <2>1. {0} \cup {r.generation : r \in ToSet(<<s>>) \cup ToSet(<<t>>)}
          = {0, s.generation, t.generation}
    BY <1>1
  <2> QED
    BY <2>1 DEF EffectiveGeneration
<1>6. Max({0}) = 0
  BY <1>2
<1>7. ASSUME NEW s, s.generation \in Nat
      PROVE  Max({0, s.generation}) = s.generation
  BY <1>2, <1>7
<1>8. ASSUME NEW s, NEW t, s.generation \in Nat, t.generation \in Nat,
             s.generation <= t.generation
      PROVE  Max({0, s.generation, t.generation}) = t.generation
  <2> DEFINE S == {0, s.generation, t.generation}
  <2>1. S \in SUBSET Nat /\ t.generation \in S /\ \A x \in S : x <= t.generation
    BY <1>8
  <2> HIDE DEF S
  <2>2. Max(S) = t.generation
    BY <1>2, <2>1
  <2> QED
    BY <2>2 DEF S
<1>9. ASSUME NEW s, s.generation \in Nat
      PROVE  /\ EffectiveGeneration(<<s>>, <<>>) = s.generation
             /\ EffectiveGeneration(<<>>, <<s>>) = s.generation
  BY <1>4, <1>7, <1>9
<1>10. ASSUME NEW s, NEW t, s.generation \in Nat, t.generation \in Nat,
              s.generation <= t.generation
       PROVE  EffectiveGeneration(<<s>>, <<t>>) = t.generation
  BY <1>5, <1>8, <1>10
<1> QED
  BY <1>3, <1>6, <1>9, <1>10

LEMMA BeforeIs ==
  ASSUME NEW batch, NEW i \in Nat
  PROVE  \/ /\ \A j \in 1..i - 1 : KeyOf(batch[j]) # KeyOf(batch[i])
            /\ Before(batch, i) = <<>>
         \/ \E j \in 1..i - 1 :
              /\ KeyOf(batch[j]) = KeyOf(batch[i])
              /\ \A k \in 1..i - 1 : KeyOf(batch[k]) = KeyOf(batch[i]) => k <= j
              /\ Before(batch, i) = <<batch[j]>>
<1> DEFINE touching == {j \in 1..i - 1 : KeyOf(batch[j]) = KeyOf(batch[i])}
<1>1. CASE touching = {}
  BY <1>1 DEF Before
<1>2. CASE touching # {}
  <2>1. touching \in SUBSET Nat /\ \A j \in touching : j <= i
    OBVIOUS
  <2>2. Max(touching) \in touching /\ \A k \in touching : k <= Max(touching)
    BY <1>2, <2>1, HasGreatest
  <2>3. Before(batch, i) = <<batch[Max(touching)]>>
    BY <1>2 DEF Before
  <2> QED
    BY <2>2, <2>3
<1> QED
  BY <1>1, <1>2

\* The first publication of a batch under a key that nobody has used.
LEMMA AcceptNew ==
  ASSUME NEW known, NEW batch, NEW i, batch[i] \in Publication,
         Before(batch, i) = <<>>, KeyOf(batch[i]) \notin DOMAIN known
  PROVE  Acceptable(known, batch, i) <=>
           batch[i].path \in BoundPaths /\ SourceAdmitted(known, batch, i)
<1>1. StoredIn(known, KeyOf(batch[i])) = <<>>
  BY StoredKnown
<1>2. EffectiveGeneration(<<>>, <<>>) = 0
  BY EffectiveOf
<1>3. batch[i].generation \in Nat
  BY DEF Publication
<1> QED
  BY <1>1, <1>2, <1>3 DEF Acceptable

\* Under a key that is known, a batch not having used it.
LEMMA AcceptStored ==
  ASSUME NEW known, NEW batch, NEW i, batch[i] \in Publication,
         Before(batch, i) = <<>>, KeyOf(batch[i]) \in DOMAIN known,
         NEW a \in ArrivalRecord, EndsWith(known[KeyOf(batch[i])], a)
  PROVE  Acceptable(known, batch, i) <=> batch[i].path \in BoundPaths /\ Succeeds(batch[i], a)
<1> DEFINE s == known[KeyOf(batch[i])]
<1>1. StoredIn(known, KeyOf(batch[i])) = <<s>>
  BY StoredKnown
<1>2. s.generation = a.generation /\ s.quality = a.quality /\ Last(s.samples) = a.sample
      /\ a.generation \in Nat \ {0}
  BY DEF EndsWith, ArrivalRecord
<1> HIDE DEF s
<1>3. EffectiveGeneration(<<s>>, <<>>) = a.generation
  BY <1>2, EffectiveOf
<1>4. batch[i].generation = a.generation =>
        KnownQuality(<<s>>, <<>>, batch[i].generation) = a.quality
  BY <1>2 DEF KnownQuality
<1>5. LastSequence(<<s>>, <<>>) = a.sample.sequence
  BY <1>2 DEF LastSequence
<1>6. batch[i].generation \in Nat
  BY DEF Publication
<1>7. Acceptable(known, batch, i) <=>
        /\ batch[i].path \in BoundPaths
        /\ batch[i].generation >= a.generation
        /\ batch[i].generation = a.generation =>
             batch[i].quality = a.quality /\ Follows(batch[i].sequence, a.sample.sequence)
  BY <1>1, <1>2, <1>3, <1>4, <1>5 DEF Acceptable
<1> QED
  BY <1>2, <1>6, <1>7 DEF Succeeds

\* What was accepted at b was of a newer incarnation than a, or of a's and its quality.
Continued(a, b) ==
  \/ a.generation < b.generation
  \/ a.generation = b.generation /\ a.quality = b.quality

\* Under a key that the batch has used already.
LEMMA AcceptTouched ==
  ASSUME NEW known, NEW batch, NEW i, batch[i] \in Publication, clock \in Nat,
         NEW b \in Publication, Before(batch, i) = <<b>>,
         KeyOf(batch[i]) \in DOMAIN known =>
           \E a \in ArrivalRecord :
             /\ EndsWith(known[KeyOf(batch[i])], a)
             /\ Continued(a, b)
  PROVE  Acceptable(known, batch, i) <=>
           batch[i].path \in BoundPaths /\ Succeeds(batch[i], Arrival(b))
<1> DEFINE stored == StoredIn(known, KeyOf(batch[i]))
<1>1. /\ b.generation \in Nat \ {0} /\ b.quality \in 1..4 /\ batch[i].generation \in Nat
      /\ Arrival(b).generation = b.generation /\ Arrival(b).quality = b.quality
      /\ Arrival(b).sample.sequence = b.sequence
  <2>1. b.generation \in Nat \ {0} /\ b.quality \in 1..4 /\ batch[i].generation \in Nat
    BY DEF Publication
  <2> QED
    BY <2>1, ArrivalTyped
<1>2. LastSequence(stored, <<b>>) = b.sequence
  BY DEF LastSequence
<1>3. /\ EffectiveGeneration(stored, <<b>>) = b.generation
      /\ KnownQuality(stored, <<b>>, b.generation) = b.quality
  <2>1. CASE KeyOf(batch[i]) \in DOMAIN known
    <3> DEFINE s == known[KeyOf(batch[i])]
    <3>1. PICK a \in ArrivalRecord :
            /\ EndsWith(s, a)
            /\ Continued(a, b)
      BY <2>1
    <3>2. stored = <<s>>
      BY <2>1, StoredKnown
    <3>3. s.generation = a.generation /\ s.quality = a.quality /\ a.generation \in Nat
      BY <3>1 DEF EndsWith, ArrivalRecord
    <3> HIDE DEF s, stored
    <3>4. s.generation <= b.generation
      BY <1>1, <3>1, <3>3 DEF Continued
    <3>5. EffectiveGeneration(stored, <<b>>) = b.generation
      BY <1>1, <3>2, <3>3, <3>4, EffectiveOf
    <3>6. KnownQuality(stored, <<b>>, b.generation) = b.quality
      BY <1>1, <3>1, <3>2, <3>3 DEF KnownQuality, Continued
    <3> QED
      BY <3>5, <3>6
  <2>2. CASE KeyOf(batch[i]) \notin DOMAIN known
    <3>1. stored = <<>>
      BY <2>2, StoredKnown
    <3> HIDE DEF stored
    <3> QED
      BY <1>1, <3>1, EffectiveOf DEF KnownQuality
  <2> QED
    BY <2>1, <2>2
<1> HIDE DEF stored
<1>4. Acceptable(known, batch, i) <=>
        /\ batch[i].path \in BoundPaths
        /\ batch[i].generation >= b.generation
        /\ batch[i].generation = b.generation =>
             batch[i].quality = b.quality /\ Follows(batch[i].sequence, b.sequence)
  BY <1>1, <1>2, <1>3 DEF Acceptable, stored
<1> QED
  BY <1>1, <1>4 DEF Succeeds

-----------------------------------------------------------------------------
(***************************************************************************)
(* A batch, publication by publication.  The log holds what the series     *)
(* come from, m entries, and after it the batch.                           *)
(***************************************************************************)

LogOfBatch(log, m, batch) == \A n \in 1..Len(batch) : log[m + n] = Arrival(batch[n])

LEMMA ReflectsBatch ==
  ASSUME NEW known, NEW log, NEW m \in Nat, NEW batch \in Seq(Publication), clock \in Nat,
         Reflects(known, log, m), LogOfBatch(log, m, batch)
  PROVE  \A n \in 0..Len(batch) : Reflects(AppliedAll(known, batch)[n], log, m + n)
<1> DEFINE T == {n \in Nat : n <= Len(batch) =>
                   Reflects(AppliedAll(known, batch)[n], log, m + n)}
<1>1. Len(batch) \in Nat /\ \A n \in 1..Len(batch) : batch[n] \in Publication
  BY LenProperties
<1>2. /\ AppliedAll(known, batch)[0] = known
      /\ \A n \in 1..Len(batch) :
           AppliedAll(known, batch)[n] = Applied(AppliedAll(known, batch)[n - 1], batch[n])
  BY <1>1, AppliedInTurn
<1>3. 0 \in T
  BY <1>2
<1>4. ASSUME NEW n \in Nat, n \in T PROVE n + 1 \in T
  <2> SUFFICES ASSUME n + 1 <= Len(batch)
               PROVE  Reflects(AppliedAll(known, batch)[n + 1], log, m + (n + 1))
    OBVIOUS
  <2>1. n + 1 \in 1..Len(batch) /\ (n + 1) - 1 = n /\ m + n \in Nat
        /\ m + (n + 1) = (m + n) + 1
    BY <1>1
  <2>2. Reflects(AppliedAll(known, batch)[n], log, m + n)
    BY <1>1, <1>4
  <2>3. log[(m + n) + 1] = Arrival(batch[n + 1]) /\ batch[n + 1] \in Publication
    BY <1>1, <2>1 DEF LogOfBatch
  <2>4. Reflects(Applied(AppliedAll(known, batch)[n], batch[n + 1]), log, (m + n) + 1)
    BY <2>1, <2>2, <2>3, ReflectsOneMore
  <2> QED
    BY <1>2, <2>1, <2>4
<1> HIDE DEF T
<1>5. \A n \in Nat : n \in T
  BY <1>3, <1>4, SetInduction
<1> QED
  BY <1>1, <1>5 DEF T

LEMMA LogOfBatchTyped ==
  ASSUME NEW log, NEW m \in Nat, NEW batch \in Seq(Publication), clock \in Nat,
         Logged(log, m), LogOfBatch(log, m, batch)
  PROVE  /\ Logged(log, m + Len(batch))
         /\ \A n \in 1..Len(batch) :
              /\ batch[n] \in Publication /\ log[m + n] = Arrival(batch[n])
              /\ log[m + n].key = KeyOf(batch[n])
<1>1. Len(batch) \in Nat /\ \A n \in 1..Len(batch) : batch[n] \in Publication
  BY LenProperties
<1>2. ASSUME NEW n \in 1..Len(batch)
      PROVE  /\ batch[n] \in Publication /\ log[m + n] = Arrival(batch[n])
             /\ log[m + n].key = KeyOf(batch[n]) /\ log[m + n] \in ArrivalRecord
  BY <1>1, ArrivalTyped DEF LogOfBatch
<1>3. ASSUME NEW i \in 1..m + Len(batch) PROVE log[i] \in ArrivalRecord
  <2>1. CASE i <= m
    BY <2>1 DEF Logged
  <2>2. CASE i > m
    <3>1. i - m \in 1..Len(batch) /\ m + (i - m) = i
      BY <1>1, <2>2
    <3> QED
      BY <1>2, <3>1
  <2> QED
    BY <2>1, <2>2
<1> QED
  BY <1>2, <1>3 DEF Logged

LEMMA AcceptedContinues ==
  ASSUME NEW known, NEW batch \in Seq(Publication), NEW i \in 1..Len(batch),
         Acceptable(known, batch, i), KeyOf(batch[i]) \in DOMAIN known,
         NEW a \in ArrivalRecord, EndsWith(known[KeyOf(batch[i])], a)
  PROVE  Continued(a, batch[i])
<1> DEFINE s == known[KeyOf(batch[i])]
           effective == EffectiveGeneration(<<s>>, Before(batch, i))
<1>1. Len(batch) \in Nat /\ \A n \in 1..Len(batch) : batch[n] \in Publication
  BY LenProperties
<1>2. StoredIn(known, KeyOf(batch[i])) = <<s>>
  BY StoredKnown
<1>3. s.generation = a.generation /\ s.quality = a.quality /\ a.generation \in Nat \ {0}
      /\ batch[i].generation \in Nat
  BY <1>1 DEF EndsWith, ArrivalRecord, Publication
<1>4. effective \in Nat /\ effective >= a.generation
  <2>1. CASE Before(batch, i) = <<>>
    <3>1. s.generation \in Nat
      BY <1>3
    <3> HIDE DEF s
    <3>2. effective = s.generation
      BY <2>1, <3>1, EffectiveOf
    <3> QED
      BY <1>3, <3>2
  <2>2. CASE Before(batch, i) # <<>>
    <3>1. PICK j \in 1..i - 1 : Before(batch, i) = <<batch[j]>>
      BY <2>2, BeforeIs
    <3>2. batch[j].generation \in Nat
      <4>1. batch[j] \in Publication
        BY <1>1, <3>1
      <4> QED
        BY <4>1 DEF Publication
    <3> DEFINE S == {0, s.generation, batch[j].generation}
    <3>3. effective = Max(S)
      <4>1. ToSet(<<s>>) = {s} /\ ToSet(<<batch[j]>>) = {batch[j]}
        BY DEF ToSet
      <4>2. {0} \cup {r.generation : r \in ToSet(<<s>>) \cup ToSet(<<batch[j]>>)} = S
        BY <4>1
      <4> QED
        BY <3>1, <4>2 DEF EffectiveGeneration
    <3>4. /\ S \in SUBSET Nat /\ S # {} /\ s.generation \in S
          /\ \A x \in S : x <= s.generation + batch[j].generation
          /\ s.generation + batch[j].generation \in Nat
      BY <1>3, <3>2
    <3> HIDE DEF S
    <3>5. Max(S) \in S /\ s.generation <= Max(S)
      BY <3>4, HasGreatest
    <3> QED
      BY <1>3, <3>3, <3>4, <3>5
  <2> QED
    BY <2>1, <2>2
<1> HIDE DEF s
<1>5. /\ batch[i].generation >= effective
      /\ batch[i].generation = effective /\ effective # 0 =>
           batch[i].quality = KnownQuality(<<s>>, Before(batch, i), batch[i].generation)
  BY <1>2 DEF Acceptable
<1>6. s.generation = batch[i].generation =>
        KnownQuality(<<s>>, Before(batch, i), batch[i].generation) = s.quality
  BY DEF KnownQuality
<1> HIDE DEF effective
<1> QED
  BY <1>3, <1>4, <1>5, <1>6 DEF Continued

\* Of two greatest uses of a key only one.
LEMMA MemberAccepted ==
  ASSUME NEW known, NEW log, NEW m \in Nat, NEW batch \in Seq(Publication), clock \in Nat,
         Reflects(known, log, m), Logged(log, m), LogOfBatch(log, m, batch),
         NEW n \in 1..Len(batch), \A j \in 1..n - 1 : Acceptable(known, batch, j),
         NEW l \in 1..m + n - 1, log[l].key = KeyOf(batch[n]), LastUnder(log, m + n - 1, l)
  PROVE  Acceptable(known, batch, n) <=>
           batch[n].path \in BoundPaths /\ Succeeds(batch[n], log[l])
<1> DEFINE key == KeyOf(batch[n])
<1>1. Len(batch) \in Nat
  BY LenProperties
<1>2. /\ Logged(log, m + Len(batch))
      /\ \A k \in 1..Len(batch) :
           /\ batch[k] \in Publication /\ log[m + k] = Arrival(batch[k])
           /\ log[m + k].key = KeyOf(batch[k])
  BY LogOfBatchTyped
<1>3. \A k \in 1..n - 1 : KeyOf(batch[k]) = key => m + k <= l
  <2>1. ASSUME NEW k \in 1..n - 1, KeyOf(batch[k]) = key PROVE m + k <= l
    <3>1. k \in 1..Len(batch) /\ m + k \in 1..m + n - 1
      BY <1>1
    <3>2. log[m + k].key = log[l].key
      BY <1>2, <2>1, <3>1
    <3> QED
      BY <3>1, <3>2 DEF LastUnder
  <2> QED
    BY <2>1
<1>4. batch[n] \in Publication /\ log[l] \in ArrivalRecord
  BY <1>1, <1>2 DEF Logged
<1>5. CASE l <= m
  <2>1. Before(batch, n) = <<>>
    <3>1. \A j \in 1..n - 1 : KeyOf(batch[j]) # key
      BY <1>3, <1>5
    <3> QED
      BY <3>1, BeforeIs
  <2>2. LastUnder(log, m, l) /\ l \in 1..m
    BY <1>5 DEF LastUnder
  <2>3. key \in DOMAIN known /\ EndsWith(known[key], log[l])
    BY <2>2 DEF Reflects
  <2> QED
    BY <1>4, <2>1, <2>3, AcceptStored
<1>6. CASE l > m
  <2> DEFINE j == l - m
  <2>1. j \in 1..n - 1 /\ m + j = l
    BY <1>6
  <2>2. KeyOf(batch[j]) = key /\ batch[j] \in Publication /\ log[l] = Arrival(batch[j])
    BY <1>1, <1>2, <2>1
  <2>3. Before(batch, n) = <<batch[j]>>
    <3>1. PICK k \in 1..n - 1 :
            /\ KeyOf(batch[k]) = KeyOf(batch[n])
            /\ \A h \in 1..n - 1 : KeyOf(batch[h]) = KeyOf(batch[n]) => h <= k
            /\ Before(batch, n) = <<batch[k]>>
      BY <2>1, <2>2, BeforeIs
    <3>2. k = j
      BY <1>3, <2>1, <2>2, <3>1
    <3> QED
      BY <3>1, <3>2
  <2> HIDE DEF j
  <2>4. ASSUME key \in DOMAIN known
        PROVE  \E a \in ArrivalRecord : EndsWith(known[key], a) /\ Continued(a, batch[j])
    <3>1. PICK i \in 1..m : log[i].key = key
      BY <2>4 DEF Reflects
    <3>2. PICK h \in i..m : log[h].key = log[i].key /\ LastUnder(log, m, h)
      BY LastExists, Zenon
    <3>3. h \in 1..m
      OBVIOUS
    <3>4. EndsWith(known[key], log[h])
      BY <3>1, <3>2, <3>3 DEF Reflects
    <3>5. log[h] \in ArrivalRecord
      BY <3>3 DEF Logged
    <3>6. Acceptable(known, batch, j) /\ j \in 1..Len(batch)
      BY <1>1, <2>1
    <3>7. Continued(log[h], batch[j])
      BY <2>2, <2>4, <3>4, <3>5, <3>6, AcceptedContinues
    <3> QED
      BY <3>4, <3>5, <3>7
  <2> QED
    BY <1>4, <2>2, <2>3, <2>4, AcceptTouched
<1> QED
  BY <1>5, <1>6

LEMMA MemberNew ==
  ASSUME NEW known, NEW log, NEW m \in Nat, NEW batch \in Seq(Publication), clock \in Nat,
         Reflects(known, log, m), Logged(log, m), LogOfBatch(log, m, batch),
         NEW n \in 1..Len(batch),
         \A l \in 1..m + n - 1 : log[l].key # KeyOf(batch[n])
  PROVE  Acceptable(known, batch, n) <=>
           batch[n].path \in BoundPaths /\ SourceAdmitted(known, batch, n)
<1>1. Len(batch) \in Nat /\ \A k \in 1..Len(batch) :
        batch[k] \in Publication /\ log[m + k].key = KeyOf(batch[k])
  BY LenProperties, LogOfBatchTyped
<1>2. KeyOf(batch[n]) \notin DOMAIN known
  BY <1>1 DEF Reflects
<1>3. Before(batch, n) = <<>>
  <2>1. ASSUME NEW j \in 1..n - 1 PROVE KeyOf(batch[j]) # KeyOf(batch[n])
    <3>1. j \in 1..Len(batch) /\ m + j \in 1..m + n - 1
      BY <1>1
    <3> QED
      BY <1>1, <3>1
  <2> QED
    BY <2>1, BeforeIs
<1> QED
  BY <1>1, <1>2, <1>3, AcceptNew

\* The sources that the limit counts before the n-th publication is admitted.
SourcesBefore(known, batch, n) ==
  {key.source : key \in DOMAIN known} \cup {batch[j].source : j \in 1..n - 1}

SourcesIn(log, m) == {log[i].key.source : i \in 1..m}

LEMMA SourcesOfLog ==
  ASSUME NEW known, NEW log, NEW m \in Nat, NEW batch \in Seq(Publication), clock \in Nat,
         Reflects(known, log, m), Logged(log, m), LogOfBatch(log, m, batch),
         NEW n \in 1..Len(batch)
  PROVE  SourcesBefore(known, batch, n) = SourcesIn(log, m + n - 1)
<1>1. Len(batch) \in Nat /\ \A k \in 1..Len(batch) : log[m + k].key = KeyOf(batch[k])
  BY LenProperties, LogOfBatchTyped
<1>2. {key.source : key \in DOMAIN known} = {log[i].key.source : i \in 1..m}
  BY DEF Reflects
<1>3. {batch[j].source : j \in 1..n - 1} = {log[i].key.source : i \in m + 1..m + n - 1}
  <2>1. ASSUME NEW j \in 1..n - 1
        PROVE  m + j \in m + 1..m + n - 1 /\ batch[j].source = log[m + j].key.source
    <3>1. j \in 1..Len(batch) /\ m + j \in m + 1..m + n - 1
      BY <1>1
    <3>2. log[m + j].key = KeyOf(batch[j])
      BY <1>1, <3>1
    <3> QED
      BY <3>1, <3>2 DEF KeyOf
  <2>2. ASSUME NEW i \in m + 1..m + n - 1
        PROVE  i - m \in 1..n - 1 /\ batch[i - m].source = log[i].key.source
    <3>1. i - m \in 1..n - 1 /\ m + (i - m) = i
      OBVIOUS
    <3> QED
      BY <2>1, <3>1
  <2> QED
    BY <2>1, <2>2
<1>4. 1..m + n - 1 = (1..m) \cup (m + 1..m + n - 1)
  BY <1>1
<1> QED
  BY <1>2, <1>3, <1>4 DEF SourcesBefore, SourcesIn

\* Validation of the whole batch says of each publication what validation of that
\* publication alone would say when its turn came.
LEMMA PartAccepted ==
  ASSUME NEW known, NEW log, NEW m \in Nat, NEW batch \in Seq(Publication), clock \in Nat,
         Reflects(known, log, m), Logged(log, m), LogOfBatch(log, m, batch),
         NEW n \in 1..Len(batch), \A j \in 1..n - 1 : Acceptable(known, batch, j)
  PROVE  Acceptable(known, batch, n) <=> Valid(AppliedAll(known, batch)[n - 1], <<batch[n]>>)
<1> DEFINE after == AppliedAll(known, batch)[n - 1]
           turn == m + n - 1
           alone == <<batch[n]>>
<1>1. Len(batch) \in Nat
  BY LenProperties
<1>2. /\ Logged(log, m + Len(batch))
      /\ \A k \in 1..Len(batch) :
           /\ batch[k] \in Publication /\ log[m + k] = Arrival(batch[k])
           /\ log[m + k].key = KeyOf(batch[k])
  BY LogOfBatchTyped
<1>3. /\ turn \in Nat /\ turn + 1 = m + n /\ n - 1 \in 0..Len(batch) /\ m + (n - 1) = turn
      /\ alone \in Seq(Publication) /\ Len(alone) = 1 /\ DOMAIN alone = {1}
      /\ alone[1] = batch[n] /\ turn + 1 - 1 = turn
  BY <1>1, <1>2
<1>4. Reflects(after, log, turn)
  BY <1>3, ReflectsBatch
<1>5. Logged(log, turn)
  BY <1>1, <1>2 DEF Logged
<1>6. LogOfBatch(log, turn, alone)
  <2>1. log[turn + 1] = Arrival(alone[1])
    BY <1>2, <1>3
  <2> HIDE DEF turn, alone
  <2> QED
    BY <1>3, <2>1 DEF LogOfBatch
<1>7. Valid(after, alone) <=> Acceptable(after, alone, 1)
  BY <1>3 DEF Valid
<1>8. CASE \E i \in 1..turn : log[i].key = KeyOf(batch[n])
  <2>1. PICK i \in 1..turn : log[i].key = KeyOf(batch[n])
    BY <1>8
  <2> HIDE DEF turn, alone, after
  <2>2. PICK l \in i..turn : log[l].key = log[i].key /\ LastUnder(log, turn, l)
    BY <1>3, LastExists, Zenon
  <2>3. l \in 1..turn /\ log[l].key = KeyOf(batch[n])
    BY <2>1, <2>2
  <2>4. Acceptable(known, batch, n) <=>
          batch[n].path \in BoundPaths /\ Succeeds(batch[n], log[l])
    BY <2>2, <2>3, MemberAccepted DEF turn
  <2>5. Acceptable(after, alone, 1) <=>
          batch[n].path \in BoundPaths /\ Succeeds(batch[n], log[l])
    <3>1. 1 \in 1..Len(alone) /\ \A j \in 1..1 - 1 : Acceptable(after, alone, j)
      BY <1>3
    <3>2. l \in 1..turn + 1 - 1 /\ log[l].key = KeyOf(alone[1])
          /\ LastUnder(log, turn + 1 - 1, l)
      BY <1>3, <2>2, <2>3
    <3>3. Acceptable(after, alone, 1) <=>
            alone[1].path \in BoundPaths /\ Succeeds(alone[1], log[l])
      BY <1>3, <1>4, <1>5, <1>6, <3>1, <3>2, MemberAccepted
    <3> QED
      BY <1>3, <3>3
  <2> QED
    BY <1>7, <2>4, <2>5 DEF after, alone
<1>9. CASE \A i \in 1..turn : log[i].key # KeyOf(batch[n])
  <2>1. Acceptable(known, batch, n) <=>
          batch[n].path \in BoundPaths /\ SourceAdmitted(known, batch, n)
    BY <1>9, MemberNew
  <2>2. SourcesBefore(known, batch, n) = SourcesIn(log, turn)
    BY SourcesOfLog
  <2> HIDE DEF turn, alone, after
  <2>3. 1 \in 1..Len(alone) /\ \A i \in 1..turn + 1 - 1 : log[i].key # KeyOf(alone[1])
    BY <1>3, <1>9
  <2>4. Acceptable(after, alone, 1) <=>
          alone[1].path \in BoundPaths /\ SourceAdmitted(after, alone, 1)
    BY <1>3, <1>4, <1>5, <1>6, <2>3, MemberNew
  <2>5. SourcesBefore(after, alone, 1) = SourcesIn(log, turn)
    <3>1. turn \in Nat /\ alone \in Seq(Publication) /\ 1 \in 1..Len(alone)
      BY <1>3
    <3>2. SourcesBefore(after, alone, 1) = SourcesIn(log, turn + 1 - 1)
      BY <1>4, <1>5, <1>6, <3>1, SourcesOfLog
    <3> QED
      BY <1>3, <3>2
  <2>6. SourceAdmitted(known, batch, n) <=> SourceAdmitted(after, alone, 1)
    BY <1>3, <2>2, <2>5 DEF SourceAdmitted, SourcesBefore
  <2> QED
    BY <1>3, <1>7, <2>1, <2>4, <2>6 DEF after, alone
<1> QED
  BY <1>8, <1>9

-----------------------------------------------------------------------------
(***************************************************************************)
(* The order of what was accepted.                                         *)
(***************************************************************************)

InOrderPair(a, b) ==
  \/ a.generation < b.generation
  \/ /\ a.generation = b.generation
     /\ a.quality = b.quality
     /\ a.sample.sequence < b.sample.sequence \/ a.sample.sequence = 0

InOrder(log, m) ==
  \A i, j \in 1..m : i < j /\ log[i].key = log[j].key => InOrderPair(log[i], log[j])

LEMMA SucceedsInOrder ==
  ASSUME NEW publication \in Publication, clock \in Nat,
         NEW l \in ArrivalRecord, Succeeds(publication, l)
  PROVE  /\ InOrderPair(l, Arrival(publication))
         /\ \A a \in ArrivalRecord : InOrderPair(a, l) => InOrderPair(a, Arrival(publication))
<1> DEFINE b == Arrival(publication)
<1>1. /\ b.generation = publication.generation /\ b.quality = publication.quality
      /\ b.sample.sequence = publication.sequence
      /\ publication.generation \in Nat /\ publication.sequence \in Nat
  <2>1. publication.generation \in Nat /\ publication.sequence \in Nat
    BY DEF Publication
  <2> QED
    BY <2>1, ArrivalTyped
<1>2. \A a \in ArrivalRecord : a.generation \in Nat /\ a.sample.sequence \in Nat
  BY DEF ArrivalRecord, SampleRecord
<1> HIDE DEF b
<1>3. InOrderPair(l, b)
  BY <1>1, <1>2 DEF Succeeds, InOrderPair, Follows
<1>4. ASSUME NEW a \in ArrivalRecord, InOrderPair(a, l) PROVE InOrderPair(a, b)
  <2>1. a.generation \in Nat /\ a.sample.sequence \in Nat /\ l.generation \in Nat
        /\ l.sample.sequence \in Nat
    BY <1>2
  <2> QED
    BY <1>1, <1>4, <2>1 DEF Succeeds, InOrderPair, Follows
<1> QED
  BY <1>3, <1>4 DEF b

LEMMA InOrderBatch ==
  ASSUME NEW known, NEW log, NEW m \in Nat, NEW batch \in Seq(Publication), clock \in Nat,
         Reflects(known, log, m), Logged(log, m), LogOfBatch(log, m, batch),
         InOrder(log, m), \A n \in 1..Len(batch) : Acceptable(known, batch, n)
  PROVE  InOrder(log, m + Len(batch))
<1> DEFINE T == {n \in Nat : n <= Len(batch) => InOrder(log, m + n)}
<1>1. Len(batch) \in Nat
  BY LenProperties
<1>2. /\ Logged(log, m + Len(batch))
      /\ \A k \in 1..Len(batch) :
           /\ batch[k] \in Publication /\ log[m + k] = Arrival(batch[k])
           /\ log[m + k].key = KeyOf(batch[k])
  BY LogOfBatchTyped
<1>3. 0 \in T
  OBVIOUS
<1>4. ASSUME NEW n \in Nat, n \in T PROVE n + 1 \in T
  <2> SUFFICES ASSUME n + 1 <= Len(batch) PROVE InOrder(log, m + (n + 1))
    OBVIOUS
  <2>1. /\ n + 1 \in 1..Len(batch) /\ m + (n + 1) - 1 = m + n /\ m + n \in Nat
        /\ InOrder(log, m + n)
    BY <1>1, <1>4
  <2> DEFINE b == log[m + (n + 1)]
  <2>2. /\ b = Arrival(batch[n + 1]) /\ b.key = KeyOf(batch[n + 1])
        /\ batch[n + 1] \in Publication
    BY <1>2, <2>1
  <2>3. ASSUME NEW i \in 1..m + n, log[i].key = b.key PROVE InOrderPair(log[i], b)
    <3>1. PICK l \in i..m + n : log[l].key = log[i].key /\ LastUnder(log, m + n, l)
      BY <2>1, LastExists, Zenon
    <3>2. /\ l \in 1..m + (n + 1) - 1 /\ log[l].key = KeyOf(batch[n + 1])
          /\ LastUnder(log, m + (n + 1) - 1, l)
      BY <2>1, <2>2, <2>3, <3>1
    <3>3. \A j \in 1..(n + 1) - 1 : Acceptable(known, batch, j)
      BY <2>1
    <3>4. Succeeds(batch[n + 1], log[l])
      <4>1. Acceptable(known, batch, n + 1)
        BY <2>1
      <4> QED
        BY <2>1, <3>2, <3>3, <4>1, MemberAccepted
    <3>5. log[i] \in ArrivalRecord /\ log[l] \in ArrivalRecord
      BY <1>1, <1>2, <2>1, <3>2 DEF Logged
    <3>6. i = l \/ InOrderPair(log[i], log[l])
      BY <2>1, <3>1 DEF InOrder
    <3> QED
      BY <2>2, <3>4, <3>5, <3>6, SucceedsInOrder
  <2>4. ASSUME NEW i \in 1..m + (n + 1), NEW j \in 1..m + (n + 1), i < j,
               log[i].key = log[j].key
        PROVE  InOrderPair(log[i], log[j])
    <3>1. CASE j = m + (n + 1)
      BY <2>3, <2>4, <3>1
    <3>2. CASE j # m + (n + 1)
      BY <2>1, <2>4, <3>2 DEF InOrder
    <3> QED
      BY <3>1, <3>2
  <2> QED
    BY <2>4 DEF InOrder
<1> HIDE DEF T
<1>5. \A n \in Nat : n \in T
  BY <1>3, <1>4, SetInduction
<1> QED
  BY <1>1, <1>5 DEF T

-----------------------------------------------------------------------------
(***************************************************************************)
(* The inductive invariant.                                                *)
(***************************************************************************)

EvidenceInv ==
  /\ clock \in Nat
  /\ arrivals \in Seq(ArrivalRecord)
  /\ Reflects(series, arrivals, Len(arrivals))
  /\ AcceptedInOrder

LEMMA AcceptedIsOrder ==
  ASSUME arrivals \in Seq(ArrivalRecord)
  PROVE  AcceptedInOrder <=> InOrder(arrivals, Len(arrivals))
<1>1. DOMAIN arrivals = 1..Len(arrivals)
  BY LenProperties
<1> QED
  BY <1>1 DEF AcceptedInOrder, InOrder, InOrderPair

\* The history after a batch: the same, and then the batch.
LEMMA HistoryExtended ==
  ASSUME arrivals \in Seq(ArrivalRecord), clock \in Nat, NEW batch \in Seq(Publication)
  PROVE  LET log == arrivals \o [i \in DOMAIN batch |-> Arrival(batch[i])]
         IN  /\ log \in Seq(ArrivalRecord) /\ Len(log) = Len(arrivals) + Len(batch)
             /\ \A i \in 1..Len(arrivals) : log[i] = arrivals[i]
             /\ LogOfBatch(log, Len(arrivals), batch)
<1> DEFINE added == [i \in DOMAIN batch |-> Arrival(batch[i])]
<1>1. Len(batch) \in Nat /\ DOMAIN batch = 1..Len(batch) /\ Len(arrivals) \in Nat
      /\ \A i \in 1..Len(batch) : batch[i] \in Publication
  BY LenProperties
<1>2. \A i \in 1..Len(batch) : Arrival(batch[i]) \in ArrivalRecord
  BY <1>1, ArrivalTyped
<1>3. added \in Seq(ArrivalRecord) /\ Len(added) = Len(batch)
      /\ \A i \in 1..Len(batch) : added[i] = Arrival(batch[i])
  BY <1>1, <1>2
<1> HIDE DEF added
<1>4. /\ arrivals \o added \in Seq(ArrivalRecord)
      /\ Len(arrivals \o added) = Len(arrivals) + Len(batch)
      /\ \A i \in 1..Len(arrivals) + Len(added) : (arrivals \o added)[i] =
           IF i <= Len(arrivals) THEN arrivals[i] ELSE added[i - Len(arrivals)]
  <2>1. added \in Seq(ArrivalRecord)
    BY <1>3
  <2>2. /\ arrivals \o added \in Seq(ArrivalRecord)
        /\ Len(arrivals \o added) = Len(arrivals) + Len(added)
        /\ \A i \in 1..Len(arrivals) + Len(added) : (arrivals \o added)[i] =
             IF i <= Len(arrivals) THEN arrivals[i] ELSE added[i - Len(arrivals)]
    BY <2>1, ConcatProperties, Zenon
  <2> QED
    BY <1>3, <2>2
<1>5. \A n \in 1..Len(batch) : (arrivals \o added)[Len(arrivals) + n] = Arrival(batch[n])
  BY <1>1, <1>3, <1>4
<1> QED
  BY <1>1, <1>3, <1>4, <1>5 DEF LogOfBatch, added

LEMMA ReflectsSame ==
  ASSUME NEW known, NEW log, NEW other, NEW m \in Nat, Reflects(known, log, m),
         \A i \in 1..m : other[i] = log[i]
  PROVE  Reflects(known, other, m)
<1>1. DOMAIN known = {other[i].key : i \in 1..m}
  BY DEF Reflects
<1>2. \A i \in 1..m : LastUnder(other, m, i) => LastUnder(log, m, i)
  BY DEF LastUnder
<1> QED
  BY <1>1, <1>2 DEF Reflects

\* What a step has to know of the batch it applies.
LEMMA BatchesTyped ==
  ASSUME NEW batch \in Batches
  PROVE  /\ batch \in Seq(Publication) /\ Len(batch) \in Nat \ {0}
         /\ DOMAIN batch = 1..Len(batch)
         /\ \A n \in 1..Len(batch) : batch[n] \in Publication
<1>1. batch \in Seq(Publication) /\ batch # <<>>
  BY EvidenceAssumption
<1> QED
  BY <1>1, LenProperties, EmptySeq

\* The log that a batch applied now would leave.
LogAfter(batch) == arrivals \o [i \in DOMAIN batch |-> Arrival(batch[i])]

LEMMA LogAfterBatch ==
  ASSUME EvidenceInv, NEW batch \in Batches
  PROVE  /\ Len(arrivals) \in Nat
         /\ LogAfter(batch) \in Seq(ArrivalRecord)
         /\ Len(LogAfter(batch)) = Len(arrivals) + Len(batch)
         /\ \A i \in 1..Len(arrivals) : LogAfter(batch)[i] = arrivals[i]
         /\ LogOfBatch(LogAfter(batch), Len(arrivals), batch)
         /\ Logged(LogAfter(batch), Len(arrivals))
         /\ Reflects(series, LogAfter(batch), Len(arrivals))
         /\ InOrder(LogAfter(batch), Len(arrivals))
<1> DEFINE log == LogAfter(batch)
           m == Len(arrivals)
<1>1. /\ m \in Nat /\ arrivals \in Seq(ArrivalRecord) /\ clock \in Nat
      /\ \A i \in 1..m : arrivals[i] \in ArrivalRecord
  BY LenProperties DEF EvidenceInv
<1>2. batch \in Seq(Publication)
  BY BatchesTyped
<1>3. /\ log \in Seq(ArrivalRecord) /\ Len(log) = m + Len(batch)
      /\ \A i \in 1..m : log[i] = arrivals[i]
      /\ LogOfBatch(log, m, batch)
  BY <1>1, <1>2, HistoryExtended DEF LogAfter
<1>4. Reflects(series, arrivals, m) /\ InOrder(arrivals, m)
  BY <1>1, AcceptedIsOrder DEF EvidenceInv
<1> HIDE DEF log
<1>5. Reflects(series, log, m)
  BY <1>1, <1>3, <1>4, ReflectsSame
<1>6. InOrder(log, m)
  BY <1>3, <1>4 DEF InOrder
<1>7. Logged(log, m)
  BY <1>1, <1>3 DEF Logged
<1> QED
  BY <1>1, <1>3, <1>5, <1>6, <1>7 DEF log

LEMMA EvidenceStart == EvidenceInit => EvidenceInv
<1> SUFFICES ASSUME EvidenceInit PROVE EvidenceInv
  OBVIOUS
<1>1. clock = 0 /\ series = <<>> /\ arrivals = <<>>
  BY DEF EvidenceInit
<1>2. arrivals \in Seq(ArrivalRecord) /\ Len(arrivals) = 0 /\ DOMAIN arrivals = {} /\ DOMAIN series = {}
  BY <1>1
<1>3. AcceptedInOrder
  BY <1>2 DEF AcceptedInOrder
<1>4. Reflects(series, arrivals, Len(arrivals))
  BY <1>2 DEF Reflects
<1> QED
  BY <1>1, <1>2, <1>3, <1>4 DEF EvidenceInv

LEMMA PublishKeeps ==
  ASSUME EvidenceInv, NEW batch \in Batches, publish_evidence(batch)
  PROVE  EvidenceInv'
<1> DEFINE log == LogAfter(batch)
           m == Len(arrivals)
           N == Len(batch)
<1>1. /\ m \in Nat /\ log \in Seq(ArrivalRecord) /\ Len(log) = m + N
      /\ LogOfBatch(log, m, batch) /\ Logged(log, m)
      /\ Reflects(series, log, m) /\ InOrder(log, m)
  BY LogAfterBatch
<1>2. /\ batch \in Seq(Publication) /\ N \in Nat \ {0} /\ DOMAIN batch = 1..N
  BY BatchesTyped
<1>3. clock \in Nat /\ clock' = clock
  BY DEF EvidenceInv, publish_evidence
<1>4. /\ arrivals' = log /\ series' = AppliedAll(series, batch)[N]
      /\ Valid(series, batch)
  BY DEF publish_evidence, LogAfter
<1> HIDE DEF log
<1>5. \A n \in 1..N : Acceptable(series, batch, n)
  BY <1>2, <1>4 DEF Valid
<1>6. InOrder(log, m + N)
  BY <1>1, <1>2, <1>3, <1>5, InOrderBatch
<1>7. Reflects(series', log, m + N)
  <2>1. N \in 0..N
    BY <1>2
  <2> QED
    BY <1>1, <1>2, <1>3, <1>4, <2>1, ReflectsBatch
<1>8. AcceptedInOrder'
  <2>1. DOMAIN arrivals' = 1..m + N
    BY <1>1, <1>4, LenProperties
  <2> QED
    BY <1>4, <1>6, <2>1 DEF AcceptedInOrder, InOrder, InOrderPair
<1> QED
  BY <1>1, <1>3, <1>4, <1>7, <1>8 DEF EvidenceInv

LEMMA EvidenceInvariant == EvidenceSpec => []EvidenceInv
<1>1. EvidenceInv /\ [EvidenceNext]_evidenceVars => EvidenceInv'
  <2> SUFFICES ASSUME EvidenceInv, [EvidenceNext]_evidenceVars PROVE EvidenceInv'
    OBVIOUS
  <2>1. CASE EvidenceTick \/ UNCHANGED evidenceVars
    <3>1. clock' \in Nat /\ series' = series /\ arrivals' = arrivals
      BY <2>1 DEF EvidenceInv, EvidenceTick, evidenceVars
    <3> QED
      BY <3>1 DEF EvidenceInv, AcceptedInOrder
  <2>2. CASE \E batch \in Batches : publish_evidence(batch)
    BY <2>2, PublishKeeps
  <2> QED
    BY <2>1, <2>2 DEF EvidenceNext
<1> QED
  BY <1>1, EvidenceStart, PTL DEF EvidenceSpec

(***************************************************************************)
(* What is accepted under a key follows on what was accepted before, in    *)
(* the batch or long ago: an incarnation never comes back, keeps its       *)
(* quality class and counts upwards, for any batches and whatever the      *)
(* series have dropped since (publish_evidence).                           *)
(***************************************************************************)
THEOREM AcceptedOrder == EvidenceSpec => []AcceptedInOrder
<1>1. EvidenceInv => AcceptedInOrder
  BY DEF EvidenceInv
<1> QED
  BY <1>1, EvidenceInvariant, PTL

LEMMA BatchParts ==
  ASSUME EvidenceInv, NEW batch \in Batches
  PROVE  Valid(series, batch) <=>
           \A i \in DOMAIN batch : Valid(AppliedAll(series, batch)[i - 1], <<batch[i]>>)
<1> DEFINE log == LogAfter(batch)
           m == Len(arrivals)
           N == Len(batch)
           Alone(i) == Valid(AppliedAll(series, batch)[i - 1], <<batch[i]>>)
           refused == {i \in 1..N : ~Acceptable(series, batch, i)}
<1>1. /\ m \in Nat /\ LogOfBatch(log, m, batch) /\ Logged(log, m) /\ Reflects(series, log, m)
      /\ batch \in Seq(Publication) /\ N \in Nat /\ DOMAIN batch = 1..N /\ clock \in Nat
  BY LogAfterBatch, BatchesTyped DEF EvidenceInv
<1> HIDE DEF log
<1>2. ASSUME NEW i \in 1..N, \A j \in 1..i - 1 : Acceptable(series, batch, j)
      PROVE  Acceptable(series, batch, i) <=> Alone(i)
  BY <1>1, <1>2, PartAccepted
<1> HIDE DEF Alone
<1>3. ASSUME Valid(series, batch) PROVE \A i \in 1..N : Alone(i)
  <2>1. \A i \in 1..N : Acceptable(series, batch, i)
    BY <1>1, <1>3 DEF Valid
  <2>2. \A i \in 1..N : \A j \in 1..i - 1 : Acceptable(series, batch, j)
    BY <1>1, <2>1
  <2> QED
    BY <1>2, <2>1, <2>2
<1>4. ASSUME \A i \in 1..N : Alone(i) PROVE Valid(series, batch)
  <2> SUFFICES ASSUME refused # {} PROVE FALSE
    BY <1>1 DEF Valid
  <2>1. refused \in SUBSET Nat
    OBVIOUS
  <2>2. PICK i \in refused : \A j \in refused : i <= j
    BY <2>1, HasLeast
  <2>3. i \in 1..N /\ \A j \in 1..i - 1 : Acceptable(series, batch, j)
    BY <1>1, <2>2
  <2>4. Acceptable(series, batch, i)
    BY <1>2, <1>4, <2>3
  <2> QED
    BY <2>2, <2>4
<1> QED
  BY <1>1, <1>3, <1>4 DEF Alone

(***************************************************************************)
(* A batch is accepted exactly when its publications would be accepted one *)
(* after the other, for any batches, sources and limits: the validation of *)
(* publish_evidence, which holds a batch against itself before anything is *)
(* applied, foresees what the application does.                            *)
(***************************************************************************)
THEOREM BatchesAreTheirParts == EvidenceSpec => []BatchIsItsParts
<1>1. EvidenceInv => BatchIsItsParts
  BY BatchParts DEF BatchIsItsParts
<1> QED
  BY <1>1, EvidenceInvariant, PTL

LEMMA RefusedAgain ==
  ASSUME EvidenceInv, NEW batch \in Batches, publish_evidence(batch),
         \A i \in DOMAIN batch : batch[i].sequence # 0
  PROVE  ~Valid(series', batch)
<1> DEFINE log == LogAfter(batch)
           m == Len(arrivals)
           N == Len(batch)
           key == KeyOf(batch[N])
           uses == {i \in 1..N : KeyOf(batch[i]) = key}
<1>1. /\ m \in Nat /\ LogOfBatch(log, m, batch) /\ Logged(log, m) /\ Len(log) = m + N
      /\ batch \in Seq(Publication) /\ N \in Nat \ {0} /\ DOMAIN batch = 1..N /\ clock \in Nat
  BY LogAfterBatch, BatchesTyped DEF EvidenceInv
<1>2. /\ Logged(log, m + N)
      /\ \A n \in 1..N : /\ batch[n] \in Publication /\ log[m + n] = Arrival(batch[n])
                         /\ log[m + n].key = KeyOf(batch[n])
  BY <1>1, LogOfBatchTyped
<1>3. arrivals' = log
  BY DEF publish_evidence, LogAfter
<1>4. EvidenceInv'
  BY PublishKeeps
<1> HIDE DEF log
<1>5. InOrder(log, m + N) /\ Reflects(series', log, m + N)
  <2>1. arrivals' \in Seq(ArrivalRecord) /\ AcceptedInOrder' /\ Len(arrivals') = m + N
        /\ Reflects(series', log, m + N) /\ DOMAIN arrivals' = 1..m + N
    BY <1>1, <1>3, <1>4, LenProperties DEF EvidenceInv
  <2>2. InOrder(log, m + N)
    BY <1>3, <2>1 DEF AcceptedInOrder, InOrder, InOrderPair
  <2> QED
    BY <2>1, <2>2
<1>6. PICK f \in uses : \A i \in uses : f <= i
  <2>1. uses \in SUBSET Nat /\ N \in uses
    BY <1>1
  <2> QED
    BY <2>1, HasLeast
<1>7. f \in 1..N /\ KeyOf(batch[f]) = key /\ \A j \in 1..f - 1 : KeyOf(batch[j]) # key
  BY <1>1, <1>6
<1>8. Before(batch, f) = <<>>
  BY <1>7, BeforeIs
<1>9. LastUnder(log, m + N, m + N) /\ m + N \in 1..m + N /\ log[m + N].key = key
  BY <1>1, <1>2 DEF LastUnder
<1>10. /\ key \in DOMAIN series' /\ EndsWith(series'[key], log[m + N])
       /\ log[m + N] \in ArrivalRecord
  BY <1>2, <1>5, <1>9 DEF Reflects, Logged
<1>11. Acceptable(series', batch, f) => Succeeds(batch[f], log[m + N])
  BY <1>2, <1>7, <1>8, <1>10, AcceptStored
<1>12. /\ batch[f].generation \in Nat /\ batch[f].sequence \in Nat \ {0}
       /\ batch[N].generation \in Nat /\ batch[N].sequence \in Nat \ {0}
       /\ log[m + f].generation = batch[f].generation
       /\ log[m + f].sample.sequence = batch[f].sequence
       /\ log[m + N].generation = batch[N].generation
       /\ log[m + N].sample.sequence = batch[N].sequence
  <2>1. ASSUME NEW n \in 1..N
        PROVE  /\ batch[n].generation \in Nat /\ batch[n].sequence \in Nat \ {0}
               /\ log[m + n].generation = batch[n].generation
               /\ log[m + n].sample.sequence = batch[n].sequence
    <3>1. batch[n].generation \in Nat /\ batch[n].sequence \in Nat /\ batch[n].sequence # 0
      BY <1>1, <1>2 DEF Publication
    <3> QED
      BY <1>1, <1>2, <3>1, ArrivalTyped
  <2> QED
    BY <1>1, <1>7, <2>1
<1>13. f = N \/ InOrderPair(log[m + f], log[m + N])
  <2> SUFFICES ASSUME f # N PROVE InOrderPair(log[m + f], log[m + N])
    OBVIOUS
  <2>1. m + f \in 1..m + N /\ m + f < m + N
    <3>1. f \in 1..N
      BY <1>7
    <3>2. N \in Nat /\ m \in Nat
      BY <1>1
    <3> HIDE DEF N, m
    <3> QED
      BY <3>1, <3>2
  <2>2. log[m + f].key = log[m + N].key
    BY <1>2, <1>7, <1>9
  <2> QED
    BY <1>5, <1>9, <2>1, <2>2 DEF InOrder
<1>14. ~Succeeds(batch[f], log[m + N])
  BY <1>12, <1>13 DEF Succeeds, InOrderPair, Follows
<1> QED
  BY <1>1, <1>7, <1>11, <1>14 DEF Valid

(***************************************************************************)
(* A batch that was applied and is sent again, under a new attempt id or   *)
(* to a coordinator that has forgotten the attempt, is refused: no         *)
(* numbered observation is counted twice (publish_evidence).               *)
(***************************************************************************)
THEOREM CountedOnce == EvidenceSpec => NothingIsCountedTwice
<1>1. EvidenceInv /\ [EvidenceNext]_evidenceVars =>
        [\A batch \in Batches :
           /\ publish_evidence(batch)
           /\ \A i \in DOMAIN batch : batch[i].sequence # 0
           => ~Valid(series', batch)]_evidenceVars
  BY RefusedAgain
<1> QED
  BY <1>1, EvidenceInvariant, PTL DEF EvidenceSpec, NothingIsCountedTwice

-----------------------------------------------------------------------------
(***************************************************************************)
(* What the series retain.                                                 *)
(***************************************************************************)

UnderIn(log, m, key) == {i \in 1..m : log[i].key = key}

NewestIn(log, m, key) ==
  {i \in UnderIn(log, m, key) :
     \A j \in UnderIn(log, m, key) : log[j].generation <= log[i].generation}

FromIn(log, m, key, i) == {j \in NewestIn(log, m, key) : j >= i}

\* A series holds the last of the newest incarnation under its key.
KeepsKey(s, log, m, key) ==
  LET newest == NewestIn(log, m, key)
      kept == Len(s.samples)
  IN  /\ kept = Min({SampleLimit, Cardinality(newest)})
      /\ \A i \in newest :
           LET end == Cardinality(FromIn(log, m, key, i)) IN
             end <= kept => s.samples[kept + 1 - end] = log[i].sample

Keeps(known, log, m) == \A key \in DOMAIN known : KeepsKey(known[key], log, m, key)

LEMMA RetainedPlaces ==
  ASSUME NEW old \in Seq(SampleRecord), NEW s \in SampleRecord, Len(old) <= SampleLimit
  PROVE  LET new == Retained(Append(old, s)) IN
           /\ Len(new) = IF Len(old) < SampleLimit THEN Len(old) + 1 ELSE SampleLimit
           /\ new[Len(new)] = s
           /\ \A e \in 1..Len(new) - 1 : new[Len(new) - e] = old[Len(old) + 1 - e]
<1> DEFINE longer == Append(old, s)
<1>1. /\ longer \in Seq(SampleRecord) /\ longer # <<>> /\ Len(longer) = Len(old) + 1
      /\ \A i \in 1..Len(old) : longer[i] = old[i]
      /\ longer[Len(old) + 1] = s /\ Len(old) \in Nat
  BY AppendProperties, LenProperties
<1> HIDE DEF longer
<1>2. /\ Len(Tail(longer)) = Len(longer) - 1
      /\ \A i \in 1..Len(Tail(longer)) : Tail(longer)[i] = longer[i + 1]
  BY <1>1, HeadTailProperties
<1>3. SampleLimit \in Nat \ {0}
  BY EvidenceAssumption
<1>4. CASE Len(old) < SampleLimit
  <2>1. Retained(longer) = longer
    BY <1>1, <1>3, <1>4 DEF Retained
  <2> QED
    BY <1>1, <1>4, <2>1 DEF longer
<1>5. CASE ~(Len(old) < SampleLimit)
  <2>1. Retained(longer) = Tail(longer) /\ Len(old) = SampleLimit
    BY <1>1, <1>3, <1>5 DEF Retained
  <2>2. Len(Tail(longer)) = SampleLimit /\ Tail(longer)[SampleLimit] = s
    BY <1>1, <1>2, <1>3, <2>1
  <2>3. \A e \in 1..SampleLimit - 1 : Tail(longer)[SampleLimit - e] = old[Len(old) + 1 - e]
    BY <1>1, <1>2, <1>3, <2>1, <2>2
  <2> QED
    BY <1>5, <2>1, <2>2, <2>3 DEF longer
<1> QED
  BY <1>4, <1>5

LEMMA SetsOfPlaces ==
  ASSUME NEW log, NEW m \in Nat, NEW key
  PROVE  /\ IsFiniteSet(NewestIn(log, m, key)) /\ Cardinality(NewestIn(log, m, key)) \in Nat
         /\ \A i \in NewestIn(log, m, key) :
              /\ IsFiniteSet(FromIn(log, m, key, i))
              /\ Cardinality(FromIn(log, m, key, i)) \in Nat \ {0}
<1>1. IsFiniteSet(1..m)
  BY FS_Interval
<1>2. NewestIn(log, m, key) \in SUBSET (1..m)
  BY DEF NewestIn, UnderIn
<1>3. \A i \in NewestIn(log, m, key) :
        FromIn(log, m, key, i) \in SUBSET (1..m) /\ i \in FromIn(log, m, key, i)
  BY <1>2 DEF FromIn
<1>4. \A S \in SUBSET (1..m) : IsFiniteSet(S) /\ Cardinality(S) \in Nat
  BY <1>1, FS_Subset, FS_CardinalityType
<1>5. \A S \in SUBSET (1..m) : S # {} => Cardinality(S) # 0
  BY <1>4, FS_EmptySet
<1> QED
  BY <1>2, <1>3, <1>4, <1>5

\* A publication under another key.
LEMMA PlacesOfOthers ==
  ASSUME NEW log, NEW m \in Nat, NEW key, log[m + 1].key # key
  PROVE  /\ NewestIn(log, m + 1, key) = NewestIn(log, m, key)
         /\ \A i : FromIn(log, m + 1, key, i) = FromIn(log, m, key, i)
<1>1. UnderIn(log, m + 1, key) = UnderIn(log, m, key)
  BY DEF UnderIn
<1> QED
  BY <1>1 DEF NewestIn, FromIn

\* A publication of an incarnation that is newer than any before it.
LEMMA PlacesOfNewer ==
  ASSUME NEW log, NEW m \in Nat, NEW key, log[m + 1].key = key, Logged(log, m + 1),
         \A i \in UnderIn(log, m, key) : log[i].generation < log[m + 1].generation
  PROVE  /\ NewestIn(log, m + 1, key) = {m + 1}
         /\ FromIn(log, m + 1, key, m + 1) = {m + 1}
<1>1. UnderIn(log, m + 1, key) = UnderIn(log, m, key) \cup {m + 1}
  BY DEF UnderIn
<1>2. \A i \in UnderIn(log, m + 1, key) : log[i].generation \in Nat
  BY DEF UnderIn, Logged, ArrivalRecord
<1>3. m + 1 \in NewestIn(log, m + 1, key)
  BY <1>1, <1>2 DEF NewestIn
<1>4. \A i \in NewestIn(log, m + 1, key) : i = m + 1
  BY <1>1, <1>2 DEF NewestIn
<1> QED
  BY <1>3, <1>4 DEF FromIn

\* The arrival at m + 1 joins the newest incarnation.
Joins(log, m, key) ==
  /\ NewestIn(log, m + 1, key) = NewestIn(log, m, key) \cup {m + 1}
  /\ FromIn(log, m + 1, key, m + 1) = {m + 1}
  /\ \A i \in NewestIn(log, m, key) :
       FromIn(log, m + 1, key, i) = FromIn(log, m, key, i) \cup {m + 1}
  /\ m + 1 \notin NewestIn(log, m, key)

\* One more of the newest incarnation.
LEMMA PlacesOfSame ==
  ASSUME NEW log, NEW m \in Nat, NEW key, log[m + 1].key = key, Logged(log, m + 1),
         \E l \in UnderIn(log, m, key) : log[l].generation = log[m + 1].generation,
         \A i \in UnderIn(log, m, key) : log[i].generation <= log[m + 1].generation
  PROVE  Joins(log, m, key)
<1>1. UnderIn(log, m + 1, key) = UnderIn(log, m, key) \cup {m + 1}
      /\ UnderIn(log, m, key) \in SUBSET (1..m)
  BY DEF UnderIn
<1>2. \A i \in UnderIn(log, m + 1, key) : log[i].generation \in Nat
  BY DEF UnderIn, Logged, ArrivalRecord
<1>3. NewestIn(log, m, key) =
        {i \in UnderIn(log, m, key) : log[i].generation = log[m + 1].generation}
  BY <1>1, <1>2 DEF NewestIn
<1>4. NewestIn(log, m + 1, key) =
        {i \in UnderIn(log, m + 1, key) : log[i].generation = log[m + 1].generation}
  BY <1>1, <1>2 DEF NewestIn
<1>5. NewestIn(log, m + 1, key) = NewestIn(log, m, key) \cup {m + 1}
      /\ NewestIn(log, m, key) \in SUBSET (1..m)
  BY <1>1, <1>3, <1>4
<1>6. FromIn(log, m + 1, key, m + 1) = {m + 1}
  BY <1>5 DEF FromIn
<1>7. \A i \in NewestIn(log, m, key) :
        FromIn(log, m + 1, key, i) = FromIn(log, m, key, i) \cup {m + 1}
  BY <1>5 DEF FromIn
<1> QED
  BY <1>5, <1>6, <1>7 DEF Joins

LEMMA MinOfTwo ==
  ASSUME NEW a \in Nat, NEW b \in Nat
  PROVE  Min({a, b}) = IF a <= b THEN a ELSE b
<1>1. Min({a, b}) \in {a, b} /\ \A y \in {a, b} : Min({a, b}) <= y
  <2>1. \E x \in {a, b} : \A y \in {a, b} : x <= y
    OBVIOUS
  <2> QED
    BY <2>1 DEF Min
<1>2. Min({a, b}) <= a /\ Min({a, b}) <= b
  BY <1>1
<1> QED
  BY <1>1, <1>2

LEMMA RetainedFirst ==
  ASSUME NEW x
  PROVE  Len(Retained(Append(<<>>, x))) = 1 /\ Retained(Append(<<>>, x))[1] = x
<1>1. Append(<<>>, x) = <<x>>
  OBVIOUS
<1>2. Len(<<x>>) = 1 /\ <<x>>[1] = x
  OBVIOUS
<1>3. ~(1 > SampleLimit)
  BY EvidenceAssumption
<1>4. Retained(<<x>>) = <<x>>
  BY <1>2, <1>3 DEF Retained
<1> QED
  BY <1>1, <1>2, <1>4

\* The first sample of an incarnation.
LEMMA KeepsFirst ==
  ASSUME NEW s, NEW log, NEW m \in Nat, NEW key, log[m + 1].sample \in SampleRecord,
         s.samples = Retained(Append(<<>>, log[m + 1].sample)),
         NewestIn(log, m + 1, key) = {m + 1}, FromIn(log, m + 1, key, m + 1) = {m + 1}
  PROVE  KeepsKey(s, log, m + 1, key)
<1>1. SampleLimit \in Nat \ {0}
  BY EvidenceAssumption
<1>2. Cardinality({m + 1}) = 1
  BY FS_Singleton
<1>3. Len(s.samples) = 1 /\ s.samples[1] = log[m + 1].sample
  BY RetainedFirst
<1>4. Min({SampleLimit, 1}) = 1
  BY <1>1, MinOfTwo
<1>5. Len(s.samples) = Min({SampleLimit, Cardinality(NewestIn(log, m + 1, key))})
  BY <1>2, <1>3, <1>4
<1>6. ASSUME NEW i \in NewestIn(log, m + 1, key)
      PROVE  /\ Cardinality(FromIn(log, m + 1, key, i)) = 1
             /\ s.samples[Len(s.samples) + 1 - 1] = log[i].sample
  <2>1. i = m + 1
    BY <1>6
  <2>2. Len(s.samples) + 1 - 1 = 1
    BY <1>3
  <2> QED
    BY <1>2, <1>3, <2>1, <2>2
<1> QED
  BY <1>5, <1>6 DEF KeepsKey

\* One more sample of an incarnation.
LEMMA KeepsAnother ==
  ASSUME NEW o, NEW s, NEW log, NEW m \in Nat, NEW key, log[m + 1].sample \in SampleRecord,
         o.samples \in Seq(SampleRecord), KeepsKey(o, log, m, key),
         s.samples = Retained(Append(o.samples, log[m + 1].sample)),
         Joins(log, m, key)
  PROVE  KeepsKey(s, log, m + 1, key)
<1> DEFINE before == Cardinality(NewestIn(log, m, key))
           had == Len(o.samples)
           has == Len(s.samples)
           End(i) == Cardinality(FromIn(log, m, key, i))
<1>1. SampleLimit \in Nat \ {0}
  BY EvidenceAssumption
<1>2. /\ before \in Nat /\ Cardinality(NewestIn(log, m + 1, key)) = before + 1
      /\ Cardinality(FromIn(log, m + 1, key, m + 1)) = 1
  <2>1. IsFiniteSet(NewestIn(log, m, key)) /\ before \in Nat
    BY SetsOfPlaces
  <2>2. Cardinality(NewestIn(log, m, key) \cup {m + 1}) = before + 1
    BY <2>1, FS_AddElement DEF Joins
  <2>3. Cardinality({m + 1}) = 1
    BY FS_Singleton
  <2> QED
    BY <2>1, <2>2, <2>3 DEF Joins
<1>3. ASSUME NEW i \in NewestIn(log, m, key)
      PROVE  /\ End(i) \in Nat \ {0}
             /\ Cardinality(FromIn(log, m + 1, key, i)) = End(i) + 1
  <2>1. m + 1 \notin FromIn(log, m, key, i)
    BY DEF FromIn, Joins
  <2>2. IsFiniteSet(FromIn(log, m, key, i)) /\ End(i) \in Nat \ {0}
    BY SetsOfPlaces
  <2> QED
    BY <2>1, <2>2, FS_AddElement DEF Joins
<1>4. had = IF SampleLimit <= before THEN SampleLimit ELSE before
  BY <1>1, <1>2, MinOfTwo DEF KeepsKey
<1>5. /\ has = IF had < SampleLimit THEN had + 1 ELSE SampleLimit
      /\ s.samples[has] = log[m + 1].sample
      /\ \A e \in 1..has - 1 : s.samples[has - e] = o.samples[had + 1 - e]
  <2>1. had <= SampleLimit
    BY <1>1, <1>2, <1>4
  <2> DEFINE x == log[m + 1].sample
             new == Retained(Append(o.samples, x))
  <2>2. x \in SampleRecord
    OBVIOUS
  <2> HIDE DEF x
  <2>3. /\ Len(new) = IF had < SampleLimit THEN had + 1 ELSE SampleLimit
        /\ new[Len(new)] = x
        /\ \A e \in 1..Len(new) - 1 : new[Len(new) - e] = o.samples[had + 1 - e]
    BY <2>1, <2>2, RetainedPlaces
  <2>4. s.samples = new
    BY DEF x
  <2> HIDE DEF new
  <2> QED
    BY <2>3, <2>4 DEF x
<1>6. \A i \in NewestIn(log, m, key) : End(i) <= had => o.samples[had + 1 - End(i)] = log[i].sample
  BY DEF KeepsKey
<1> HIDE DEF before, had, has, End
<1>7. has = Min({SampleLimit, before + 1})
  <2>1. before + 1 \in Nat
    BY <1>2
  <2> QED
    BY <1>1, <1>2, <1>4, <1>5, <2>1, MinOfTwo
<1>8. ASSUME NEW i \in NewestIn(log, m, key), End(i) + 1 <= has
      PROVE  s.samples[has + 1 - (End(i) + 1)] = log[i].sample
  <2>1. had \in Nat /\ has \in Nat /\ has <= had + 1 /\ End(i) \in Nat \ {0}
    BY <1>1, <1>2, <1>3, <1>4, <1>5
  <2>2. /\ End(i) \in 1..has - 1 /\ End(i) <= had
        /\ has + 1 - (End(i) + 1) = has - End(i)
    BY <1>8, <2>1
  <2> QED
    BY <1>5, <1>6, <2>2
<1>9. s.samples[has + 1 - 1] = log[m + 1].sample
  BY <1>1, <1>2, <1>4, <1>5
<1> QED
  <2>1. ASSUME NEW i \in NewestIn(log, m + 1, key)
        PROVE  LET end == Cardinality(FromIn(log, m + 1, key, i)) IN
               end <= has => s.samples[has + 1 - end] = log[i].sample
    <3>1. CASE i = m + 1
      BY <1>2, <1>9, <3>1
    <3>2. CASE i \in NewestIn(log, m, key)
      BY <1>3, <1>8, <3>2
    <3> QED
      BY <3>1, <3>2 DEF Joins
  <2> QED
    BY <1>2, <1>7, <2>1 DEF KeepsKey, has

\* One publication more, if it comes in order.
LEMMA KeepsOneMore ==
  ASSUME NEW known, NEW log, NEW m \in Nat, NEW publication \in Publication, clock \in Nat,
         Reflects(known, log, m), Keeps(known, log, m), log[m + 1] = Arrival(publication),
         Logged(log, m + 1), InOrder(log, m + 1)
  PROVE  Keeps(Applied(known, publication), log, m + 1)
<1> DEFINE key == KeyOf(publication)
           after == Applied(known, publication)
           b == log[m + 1]
           old == IF key \notin DOMAIN known \/ publication.generation > known[key].generation
                  THEN <<>> ELSE known[key].samples
<1>1. /\ b.key = key /\ b.generation = publication.generation
      /\ b.sample = Sample(publication) /\ b.sample \in SampleRecord
  BY ArrivalTyped
<1>2. /\ DOMAIN after = DOMAIN known \cup {key}
      /\ after[key].samples = Retained(Append(old, Sample(publication)))
      /\ \A other \in DOMAIN known : other # key => after[other] = known[other]
  BY AppliedHolds
<1>3. b.generation \in Nat /\ \A i \in 1..m : log[i].generation \in Nat
  BY DEF Logged, ArrivalRecord
<1>4. ASSUME NEW i \in 1..m, log[i].key = key
      PROVE  \E l \in i..m : /\ log[l].key = key /\ l \in 1..m /\ key \in DOMAIN known
                             /\ EndsWith(known[key], log[l])
  <2>1. PICK l \in i..m : log[l].key = log[i].key /\ LastUnder(log, m, l)
    BY LastExists, Zenon
  <2>2. l \in 1..m
    OBVIOUS
  <2>3. EndsWith(known[log[l].key], log[l]) /\ log[l].key \in DOMAIN known
    BY <2>1, <2>2 DEF Reflects
  <2> QED
    BY <1>4, <2>1, <2>2, <2>3
<1> HIDE DEF after, old, key, b
<1>5. ASSUME NEW i \in 1..m, NEW l \in i..m, log[i].key = key, log[l].key = key
      PROVE  log[i].generation <= log[l].generation /\ log[l].generation <= b.generation
  <2>1. /\ i \in 1..m + 1 /\ l \in 1..m + 1 /\ m + 1 \in 1..m + 1 /\ l < m + 1
        /\ i < l \/ i = l
    OBVIOUS
  <2>2. InOrderPair(log[l], b)
    BY <1>1, <1>5, <2>1 DEF InOrder, b
  <2>3. i = l \/ InOrderPair(log[i], log[l])
    BY <1>5, <2>1 DEF InOrder
  <2> QED
    BY <1>3, <2>1, <2>2, <2>3 DEF InOrderPair
<1>6. ASSUME NEW other \in DOMAIN known, other # key
      PROVE  KeepsKey(after[other], log, m + 1, other)
  <2>1. KeepsKey(known[other], log, m, other)
    BY DEF Keeps
  <2>2. /\ NewestIn(log, m + 1, other) = NewestIn(log, m, other)
        /\ \A i : FromIn(log, m + 1, other, i) = FromIn(log, m, other, i)
    BY <1>1, <1>6, PlacesOfOthers DEF b
  <2>3. after[other] = known[other]
    BY <1>2, <1>6
  <2> QED
    BY <2>1, <2>2, <2>3 DEF KeepsKey
<1>7. KeepsKey(after[key], log, m + 1, key)
  <2>1. CASE \A i \in UnderIn(log, m, key) : log[i].generation < b.generation
    <3>1. old = <<>>
      <4>1. CASE key \notin DOMAIN known
        BY <4>1 DEF old
      <4>2. CASE key \in DOMAIN known
        <5>1. PICK i \in 1..m : log[i].key = key
          BY <4>2 DEF Reflects
        <5>2. PICK l \in i..m : /\ log[l].key = key /\ l \in 1..m
                                /\ EndsWith(known[key], log[l])
          BY <1>4, <5>1
        <5>3. known[key].generation = log[l].generation /\ l \in UnderIn(log, m, key)
          BY <5>2 DEF EndsWith, UnderIn
        <5>4. publication.generation > known[key].generation
          BY <1>1, <1>3, <2>1, <5>2, <5>3
        <5> QED
          BY <5>4 DEF old
      <4> QED
        BY <4>1, <4>2
    <3>2. /\ NewestIn(log, m + 1, key) = {m + 1}
          /\ FromIn(log, m + 1, key, m + 1) = {m + 1}
      BY <1>1, <2>1, PlacesOfNewer DEF b
    <3>3. /\ after[key].samples = Retained(Append(<<>>, log[m + 1].sample))
          /\ log[m + 1].sample \in SampleRecord
      BY <1>1, <1>2, <3>1 DEF b
    <3> QED
      BY <3>2, <3>3, KeepsFirst
  <2>2. CASE \E i \in UnderIn(log, m, key) : ~(log[i].generation < b.generation)
    <3>1. PICK i \in UnderIn(log, m, key) : ~(log[i].generation < b.generation)
      BY <2>2
    <3>2. i \in 1..m /\ log[i].key = key
      BY <3>1 DEF UnderIn
    <3>3. PICK l \in i..m : /\ log[l].key = key /\ l \in 1..m /\ key \in DOMAIN known
                            /\ EndsWith(known[key], log[l])
      BY <1>4, <3>2
    <3>4. log[l].generation = b.generation /\ l \in UnderIn(log, m, key)
      BY <1>3, <1>5, <3>1, <3>2, <3>3 DEF UnderIn
    <3>5. known[key].generation = b.generation /\ known[key].samples \in Seq(SampleRecord)
      BY <3>3, <3>4 DEF EndsWith
    <3>6. old = known[key].samples
      <4>1. ~(publication.generation > known[key].generation)
        BY <1>1, <1>3, <3>5
      <4> QED
        BY <3>3, <4>1 DEF old
    <3>7. \A j \in UnderIn(log, m, key) : log[j].generation <= b.generation
      <4>1. ASSUME NEW j \in UnderIn(log, m, key) PROVE log[j].generation <= b.generation
        <5>1. j \in 1..m /\ j \in j..m /\ log[j].key = key
          BY DEF UnderIn
        <5> QED
          BY <1>5, <5>1
      <4> QED
        BY <4>1
    <3>8. Joins(log, m, key)
      <4>1. /\ log[m + 1].key = key
            /\ \E j \in UnderIn(log, m, key) : log[j].generation = log[m + 1].generation
            /\ \A j \in UnderIn(log, m, key) : log[j].generation <= log[m + 1].generation
        BY <1>1, <3>4, <3>7 DEF b
      <4> QED
        BY <4>1, PlacesOfSame
    <3>9. KeepsKey(known[key], log, m, key)
      BY <3>3 DEF Keeps
    <3>10. /\ after[key].samples = Retained(Append(known[key].samples, log[m + 1].sample))
           /\ log[m + 1].sample \in SampleRecord
      BY <1>1, <1>2, <3>6 DEF b
    <3> QED
      BY <3>5, <3>8, <3>9, <3>10, KeepsAnother
  <2> QED
    BY <2>1, <2>2
<1>8. Keeps(after, log, m + 1)
  BY <1>2, <1>6, <1>7 DEF Keeps
<1> QED
  BY <1>8 DEF after

LEMMA InOrderPart ==
  ASSUME NEW log, NEW m \in Nat, NEW k \in Nat, k <= m, InOrder(log, m), Logged(log, m)
  PROVE  InOrder(log, k) /\ Logged(log, k)
<1>1. \A i \in 1..k : i \in 1..m
  OBVIOUS
<1> QED
  BY <1>1 DEF InOrder, Logged

LEMMA KeepsBatch ==
  ASSUME NEW known, NEW log, NEW m \in Nat, NEW batch \in Seq(Publication), clock \in Nat,
         Reflects(known, log, m), LogOfBatch(log, m, batch), Keeps(known, log, m),
         Logged(log, m + Len(batch)), InOrder(log, m + Len(batch))
  PROVE  Keeps(AppliedAll(known, batch)[Len(batch)], log, m + Len(batch))
<1> DEFINE T == {n \in Nat : n <= Len(batch) =>
                   Keeps(AppliedAll(known, batch)[n], log, m + n)}
<1>1. Len(batch) \in Nat /\ \A n \in 1..Len(batch) : batch[n] \in Publication
  BY LenProperties
<1>2. /\ AppliedAll(known, batch)[0] = known
      /\ \A n \in 1..Len(batch) :
           AppliedAll(known, batch)[n] = Applied(AppliedAll(known, batch)[n - 1], batch[n])
  BY <1>1, AppliedInTurn
<1>3. 0 \in T
  BY <1>2
<1>4. ASSUME NEW n \in Nat, n \in T PROVE n + 1 \in T
  <2> SUFFICES ASSUME n + 1 <= Len(batch)
               PROVE  Keeps(AppliedAll(known, batch)[n + 1], log, m + (n + 1))
    OBVIOUS
  <2>1. n + 1 \in 1..Len(batch) /\ n \in 0..Len(batch) /\ (n + 1) - 1 = n /\ m + n \in Nat
        /\ m + (n + 1) = (m + n) + 1 /\ (m + n) + 1 <= m + Len(batch)
        /\ (m + n) + 1 \in Nat /\ m + Len(batch) \in Nat
    BY <1>1
  <2>2. Keeps(AppliedAll(known, batch)[n], log, m + n)
    BY <1>1, <1>4
  <2>3. log[(m + n) + 1] = Arrival(batch[n + 1]) /\ batch[n + 1] \in Publication
    BY <1>1, <2>1 DEF LogOfBatch
  <2>4. Reflects(AppliedAll(known, batch)[n], log, m + n)
    BY <2>1, ReflectsBatch
  <2>5. InOrder(log, (m + n) + 1) /\ Logged(log, (m + n) + 1)
    BY <2>1, InOrderPart
  <2>6. Keeps(Applied(AppliedAll(known, batch)[n], batch[n + 1]), log, (m + n) + 1)
    BY <2>1, <2>2, <2>3, <2>4, <2>5, KeepsOneMore
  <2> QED
    BY <1>2, <2>1, <2>6
<1> HIDE DEF T
<1>5. \A n \in Nat : n \in T
  BY <1>3, <1>4, SetInduction
<1> QED
  BY <1>1, <1>5 DEF T

RetentionInv == EvidenceInv /\ Keeps(series, arrivals, Len(arrivals))

LEMMA KeepsSame ==
  ASSUME NEW known, NEW log, NEW other, NEW m \in Nat, Keeps(known, log, m),
         \A i \in 1..m : other[i] = log[i]
  PROVE  Keeps(known, other, m)
<1>1. ASSUME NEW key PROVE UnderIn(other, m, key) = UnderIn(log, m, key)
  BY DEF UnderIn
<1>2. ASSUME NEW key PROVE NewestIn(other, m, key) = NewestIn(log, m, key)
  <2>1. \A i \in UnderIn(log, m, key) : other[i] = log[i]
    BY DEF UnderIn
  <2>2. UnderIn(other, m, key) = UnderIn(log, m, key)
    BY <1>1
  <2> QED
    BY <2>1, <2>2 DEF NewestIn
<1>3. ASSUME NEW key, NEW i
      PROVE  FromIn(other, m, key, i) = FromIn(log, m, key, i)
  <2>1. NewestIn(other, m, key) = NewestIn(log, m, key)
    BY <1>2
  <2> QED
    BY <2>1 DEF FromIn
<1>4. ASSUME NEW key \in DOMAIN known PROVE KeepsKey(known[key], other, m, key)
  <2>1. KeepsKey(known[key], log, m, key)
    BY DEF Keeps
  <2>2. \A i \in NewestIn(log, m, key) : other[i] = log[i]
    BY DEF NewestIn, UnderIn
  <2>3. NewestIn(other, m, key) = NewestIn(log, m, key)
    BY <1>2
  <2>4. \A i : FromIn(other, m, key, i) = FromIn(log, m, key, i)
    BY <1>3
  <2> QED
    BY <2>1, <2>2, <2>3, <2>4 DEF KeepsKey
<1> QED
  BY <1>4 DEF Keeps

LEMMA PublishRetains ==
  ASSUME RetentionInv, NEW batch \in Batches, publish_evidence(batch)
  PROVE  RetentionInv'
<1> DEFINE log == LogAfter(batch)
           m == Len(arrivals)
           N == Len(batch)
<1>1. /\ m \in Nat /\ log \in Seq(ArrivalRecord) /\ Len(log) = m + N
      /\ LogOfBatch(log, m, batch) /\ Reflects(series, log, m)
      /\ \A i \in 1..m : log[i] = arrivals[i]
  BY LogAfterBatch DEF RetentionInv
<1>2. /\ batch \in Seq(Publication) /\ N \in Nat \ {0}
  BY BatchesTyped
<1>3. clock \in Nat /\ Keeps(series, arrivals, m)
  BY DEF RetentionInv, EvidenceInv
<1>4. arrivals' = log /\ series' = AppliedAll(series, batch)[N]
  BY DEF publish_evidence, LogAfter
<1>5. EvidenceInv'
  BY PublishKeeps DEF RetentionInv
<1> HIDE DEF log
<1>6. Keeps(series, log, m)
  BY <1>1, <1>3, KeepsSame
<1>7. InOrder(log, m + N) /\ Logged(log, m + N)
  <2>1. arrivals' \in Seq(ArrivalRecord) /\ AcceptedInOrder' /\ DOMAIN arrivals' = 1..m + N
    BY <1>1, <1>4, <1>5, LenProperties DEF EvidenceInv
  <2>2. InOrder(log, m + N)
    BY <1>4, <2>1 DEF AcceptedInOrder, InOrder, InOrderPair
  <2>3. Logged(log, m + N)
    BY <1>4, <2>1 DEF Logged
  <2> QED
    BY <2>2, <2>3
<1>8. Keeps(series', log, m + N)
  BY <1>1, <1>2, <1>3, <1>4, <1>6, <1>7, KeepsBatch
<1> QED
  BY <1>1, <1>4, <1>5, <1>8 DEF RetentionInv

LEMMA RetentionInvariant == EvidenceSpec => []RetentionInv
<1>1. EvidenceInit => RetentionInv
  <2> SUFFICES ASSUME EvidenceInit PROVE RetentionInv
    OBVIOUS
  <2>1. series = <<>> /\ DOMAIN series = {}
    BY DEF EvidenceInit
  <2>2. Keeps(series, arrivals, Len(arrivals))
    BY <2>1 DEF Keeps
  <2> QED
    BY <2>2, EvidenceStart DEF RetentionInv
<1>2. RetentionInv /\ [EvidenceNext]_evidenceVars => RetentionInv'
  <2> SUFFICES ASSUME RetentionInv, [EvidenceNext]_evidenceVars PROVE RetentionInv'
    OBVIOUS
  <2>1. CASE EvidenceTick \/ UNCHANGED evidenceVars
    <3>1. clock' \in Nat /\ series' = series /\ arrivals' = arrivals
      BY <2>1 DEF RetentionInv, EvidenceInv, EvidenceTick, evidenceVars
    <3>2. EvidenceInv'
      BY <3>1 DEF RetentionInv, EvidenceInv, AcceptedInOrder
    <3> QED
      BY <3>1, <3>2 DEF RetentionInv
  <2>2. CASE \E batch \in Batches : publish_evidence(batch)
    BY <2>2, PublishRetains
  <2> QED
    BY <2>1, <2>2 DEF EvidenceNext
<1> QED
  BY <1>1, <1>2, PTL DEF EvidenceSpec

LEMMA Retention == RetentionInv => RetainsTheNewest
<1> SUFFICES ASSUME RetentionInv PROVE RetainsTheNewest
  OBVIOUS
<1> DEFINE m == Len(arrivals)
<1>1. /\ m \in Nat /\ DOMAIN arrivals = 1..m /\ Logged(arrivals, m)
      /\ Reflects(series, arrivals, m) /\ InOrder(arrivals, m)
  <2>1. arrivals \in Seq(ArrivalRecord)
    BY DEF RetentionInv, EvidenceInv
  <2>2. m \in Nat /\ DOMAIN arrivals = 1..m /\ \A i \in 1..m : arrivals[i] \in ArrivalRecord
    BY <2>1, LenProperties
  <2>3. InOrder(arrivals, m)
    BY <2>1, AcceptedIsOrder DEF RetentionInv, EvidenceInv
  <2> QED
    BY <2>2, <2>3 DEF RetentionInv, EvidenceInv, Logged
<1>2. Keeps(series, arrivals, m)
  BY DEF RetentionInv
<1> HIDE DEF m
<1>3. \A key : /\ Under(key) = UnderIn(arrivals, m, key)
               /\ OfNewest(key) = NewestIn(arrivals, m, key)
  BY <1>1 DEF Under, UnderIn, OfNewest, NewestIn
<1>4. \A key : \A i \in OfNewest(key) :
        arrivals[i].key = key /\ FromTheEnd(i) = Cardinality(FromIn(arrivals, m, key, i))
  <2> SUFFICES ASSUME NEW key, NEW i \in OfNewest(key)
               PROVE  arrivals[i].key = key
                      /\ FromTheEnd(i) = Cardinality(FromIn(arrivals, m, key, i))
    OBVIOUS
  <2>1. arrivals[i].key = key
    BY DEF OfNewest, Under
  <2>2. FromIn(arrivals, m, key, i) = {j \in OfNewest(key) : j >= i}
    BY <1>3 DEF FromIn
  <2> QED
    BY <2>1, <2>2 DEF FromTheEnd
<1>5. DOMAIN series = {a.key : a \in ToSet(arrivals)}
  <2>1. ToSet(arrivals) = {arrivals[i] : i \in 1..m}
    BY <1>1 DEF ToSet
  <2> QED
    BY <1>1, <2>1 DEF Reflects
<1>6. ASSUME NEW key \in DOMAIN series, NEW i \in OfNewest(key)
      PROVE  series[key].generation = arrivals[i].generation
  <2>1. i \in 1..m /\ arrivals[i].key = key
        /\ \A j \in 1..m : arrivals[j].key = key => arrivals[j].generation <= arrivals[i].generation
    BY <1>1 DEF OfNewest, Under
  <2>2. PICK l \in i..m : arrivals[l].key = arrivals[i].key /\ LastUnder(arrivals, m, l)
    BY <1>1, <2>1, LastExists, Zenon
  <2>3. l \in 1..m /\ i \in 1..m /\ (i = l \/ i < l)
    BY <1>1, <2>1
  <2>4. series[key].generation = arrivals[l].generation
    BY <1>1, <2>1, <2>2, <2>3 DEF Reflects, EndsWith
  <2>5. i = l \/ InOrderPair(arrivals[i], arrivals[l])
    BY <1>1, <2>2, <2>3 DEF InOrder
  <2>6. arrivals[l].generation \in Nat /\ arrivals[i].generation \in Nat
    BY <1>1, <2>3 DEF Logged, ArrivalRecord
  <2>7. arrivals[l].generation <= arrivals[i].generation
    BY <2>1, <2>2, <2>3
  <2>8. arrivals[l].generation = arrivals[i].generation
    BY <2>5, <2>6, <2>7 DEF InOrderPair
  <2> QED
    BY <2>4, <2>8
<1>7. ASSUME NEW key \in DOMAIN series
      PROVE  LET kept == Len(series[key].samples) IN
             /\ kept = Min({SampleLimit, Cardinality(OfNewest(key))})
             /\ \A i \in OfNewest(key) : FromTheEnd(i) <= kept =>
                  series[key].samples[kept + 1 - FromTheEnd(i)] = arrivals[i].sample
  <2>1. KeepsKey(series[key], arrivals, m, key)
    BY <1>2 DEF Keeps
  <2>2. OfNewest(key) = NewestIn(arrivals, m, key)
    BY <1>3
  <2> QED
    BY <1>4, <2>1, <2>2 DEF KeepsKey
<1> QED
  BY <1>5, <1>6, <1>7 DEF RetainsTheNewest

(***************************************************************************)
(* Each series holds the newest samples of the newest incarnation that     *)
(* published under its key, as many as are retained and in their order, and*)
(* no other: for any batches and limits, however incarnations follow each  *)
(* other between and inside batches (publish_evidence).                    *)
(***************************************************************************)
THEOREM NewestRetained == EvidenceSpec => []RetainsTheNewest
BY RetentionInvariant, Retention, PTL
=============================================================================
