------------------------------ MODULE Evidence -------------------------------
(***************************************************************************)
(* The evidence the engine keeps: a series of samples for each source,     *)
(* path and metric, filled by publish_evidence and read by aggregate_for   *)
(* and lookup_metric.  A publication arrives in a batch, which is          *)
(* validated against itself and against the series before anything is      *)
(* applied.                                                                *)
(*                                                                         *)
(* The caller is authorised and its attempt is new (module Authority).     *)
(* The index by source, the count of samples ever published and the ids of *)
(* snapshots serve queries and are left out.                               *)
(***************************************************************************)
EXTENDS Metrics

CONSTANTS
  Batches,        \* the batches publishers send, sequences of publications
  BoundPaths,     \* the paths that a policy in the scope of the caller binds
  Requirements,   \* the requirements of policies
  SampleLimit,    \* Limits: max_evidence_samples_per_series
  SourceLimit,    \* Limits: max_evidence_sources
  MaxTime,        \* bound: the clock
  MaxPublished    \* bound: the accepted batches

\* EvidencePublication::well_formed.  A source and a path are numbered in the order of
\* their names; a quality class is its rank, 4 for PRIMARY.
Publication ==
  [source : Nat, path : Nat, generation : Nat \ {0}, quality : 1..4, sequence : Nat,
   metric : [kind : MetricKind, unit : Nat, version : Nat, value : Nat]]

\* EvidenceRequirement::valid
EvidenceRequirement ==
  {r \in [kind : MetricKind, aggregation : AggregationKind, ewma_alpha_bps : 0..Scale,
          min_samples : Nat \ {0}, max_age : Nat \ {0}, min_window : Nat,
          min_quality : 1..4, required : BOOLEAN] :
     /\ r.min_window <= r.max_age
     /\ r.ewma_alpha_bps # 0 <=> r.aggregation = "EWMA"}

ASSUME EvidenceAssumption ==
  /\ BoundPaths \subseteq Nat
  /\ \A r \in Requirements : r \in EvidenceRequirement
  /\ SampleLimit \in Nat \ {0} /\ SourceLimit \in Nat \ {0}
  /\ MaxTime \in Nat /\ MaxPublished \in Nat
  /\ \A batch \in Batches :
       /\ batch \in Seq(Publication) /\ batch # <<>>
       /\ \A i \in DOMAIN batch : MetricWellFormed(batch[i].metric)

VARIABLES
  clock,
  series,               \* State::evidence, a function of the keys that exist
  evidence_generation,
  evidence_watermark,
  arrivals              \* history: every publication applied, in order

evidenceVars == <<clock, series, evidence_generation, evidence_watermark, arrivals>>

\* EvidenceKey
KeyOf(publication) ==
  [source |-> publication.source, path |-> publication.path, kind |-> publication.metric.kind]

EvidenceInit ==
  /\ clock = 0
  /\ series = <<>>
  /\ evidence_generation = 1 /\ evidence_watermark = 0
  /\ arrivals = <<>>

-----------------------------------------------------------------------------
(* publish_evidence *)

\* Seeded fault: a batch is not held against itself.
BeforeIgnored(batch, i) == <<>>

\* BatchKeyState: the publication of the batch that last touched the series of the
\* i-th, if one did.
Before(batch, i) ==
  LET touching == {j \in 1..i - 1 : KeyOf(batch[j]) = KeyOf(batch[i])}
  IN  IF touching = {} THEN <<>> ELSE <<batch[Max(touching)]>>

StoredIn(known, key) == IF key \in DOMAIN known THEN <<known[key]>> ELSE <<>>

\* The incarnation a publication must not fall behind; zero when there is none.
EffectiveGeneration(stored, before) ==
  Max({0} \cup {s.generation : s \in ToSet(stored) \cup ToSet(before)})

\* The quality class of the incarnation the publication continues.
KnownQuality(stored, before, generation) ==
  IF stored # <<>> /\ stored[1].generation = generation THEN stored[1].quality
  ELSE before[1].quality

LastSequence(stored, before) ==
  CASE before # <<>> -> before[1].sequence
    [] before = <<>> /\ stored # <<>> -> Last(stored[1].samples).sequence
    [] OTHER -> 0

\* A source nobody has heard of needs a free place.
SourceAdmitted(known, batch, i) ==
  LET sources == {key.source : key \in DOMAIN known} \cup {batch[j].source : j \in 1..i - 1}
  IN  batch[i].source \in sources \/ Cardinality(sources) < SourceLimit

\* Seeded fault: the sample that was accepted last is accepted again.
FollowsOrRepeats(sequence, last) == last # 0 => sequence >= last

\* A sequence of zero is not compared with a zero before it.
Follows(sequence, last) == last # 0 => sequence > last

\* The i-th publication of a batch passes validation against the series known and
\* the publications before it.
Acceptable(known, batch, i) ==
  LET publication == batch[i]
      stored == StoredIn(known, KeyOf(publication))
      before == Before(batch, i)
      effective == EffectiveGeneration(stored, before)
      last == LastSequence(stored, before)
  IN  /\ publication.path \in BoundPaths
      /\ publication.generation >= effective
      /\ publication.generation = effective /\ effective # 0 =>
           /\ publication.quality = KnownQuality(stored, before, publication.generation)
           /\ Follows(publication.sequence, last)
      /\ stored = <<>> /\ before = <<>> => SourceAdmitted(known, batch, i)

Valid(known, batch) == \A i \in DOMAIN batch : Acceptable(known, batch, i)

\* The newest samples, as many as are retained.
Retained(samples) ==
  IF Len(samples) > SampleLimit THEN Tail(samples) ELSE samples

Sample(publication) ==
  [value |-> publication.metric.value, accepted_at |-> clock, sequence |-> publication.sequence]

\* A source incarnation that the series has not seen.
IsNewer(known, publication) ==
  LET stored == StoredIn(known, KeyOf(publication))
  IN  stored # <<>> /\ publication.generation > stored[1].generation

\* The series of the publication's key, which had the samples old before it.
Lengthened(publication, old) ==
  [generation |-> publication.generation, quality |-> publication.quality,
   samples |-> Retained(Append(old, Sample(publication)))]

\* Seeded fault: the samples of the old incarnation stay.
AppliedMixed(known, publication) ==
  LET key == KeyOf(publication)
      old == IF key \in DOMAIN known THEN known[key].samples ELSE <<>>
  IN  [other \in DOMAIN known \cup {key} |->
         IF other = key THEN Lengthened(publication, old) ELSE known[other]]

\* The series after one publication.  One of the same incarnation has its generation
\* and quality, so both may be written again.
Applied(known, publication) ==
  LET key == KeyOf(publication)
      old == IF key \notin DOMAIN known \/ IsNewer(known, publication) THEN <<>>
             ELSE known[key].samples
  IN  [other \in DOMAIN known \cup {key} |->
         IF other = key THEN Lengthened(publication, old) ELSE known[other]]

\* The series after the first n publications of a batch.
AppliedAll(known, batch) ==
  LET after[n \in 0..Len(batch)] ==
        IF n = 0 THEN known ELSE Applied(after[n - 1], batch[n])
  IN  after

\* What the history records of a publication.
Arrival(publication) ==
  [key |-> KeyOf(publication), generation |-> publication.generation,
   quality |-> publication.quality, sample |-> Sample(publication)]

publish_evidence(batch) ==
  LET after == AppliedAll(series, batch)
      superseding == {i \in DOMAIN batch : IsNewer(after[i - 1], batch[i])}
  IN  /\ Valid(series, batch)
      /\ evidence_generation <= MaxPublished
      /\ series' = after[Len(batch)]
      /\ evidence_watermark' = evidence_watermark + Cardinality(superseding)
      /\ evidence_generation' = evidence_generation + 1
      /\ arrivals' = arrivals \o [i \in DOMAIN batch |-> Arrival(batch[i])]
      /\ UNCHANGED clock

EvidenceTick ==
  /\ clock < MaxTime
  /\ clock' = clock + 1
  /\ UNCHANGED <<series, evidence_generation, evidence_watermark, arrivals>>

EvidenceNext == EvidenceTick \/ \E batch \in Batches : publish_evidence(batch)

EvidenceSpec == EvidenceInit /\ [][EvidenceNext]_evidenceVars

-----------------------------------------------------------------------------
(* aggregate_for and lookup_metric.  A read that may find nothing is a      *)
(* sequence of at most one element.                                         *)

Qualified(path, requirement) ==
  {key \in DOMAIN series :
     /\ key.path = path /\ key.kind = requirement.kind
     /\ series[key].quality >= requirement.min_quality}

\* The series that is aggregated: the best quality, then the first source.
Chosen(path, requirement) ==
  LET best == {key \in Qualified(path, requirement) :
                 \A other \in Qualified(path, requirement) \ {key} :
                   \/ series[key].quality > series[other].quality
                   \/ /\ series[key].quality = series[other].quality
                      /\ key.source < other.source}
  IN  SetToSeq(best)

\* stable_sort by observation sequence
InObservationOrder(samples) ==
  LET order == StableOrder([i \in DOMAIN samples |-> samples[i].sequence])
  IN  [place \in DOMAIN samples |-> samples[order[place]]]

Aggregated(samples, requirement) ==
  LET ordered == InObservationOrder(samples)
      values == [i \in DOMAIN ordered |-> ordered[i].value]
  IN  [value |-> Aggregate(requirement.aggregation, values, requirement.ewma_alpha_bps),
       count |-> Len(ordered),
       oldest |-> Head(ordered).accepted_at,
       newest |-> Last(ordered).accepted_at]

\* Seeded fault: the window ends now and not with the newest sample.
SufficientUntilNow(aggregate, requirement) ==
  /\ aggregate.count >= requirement.min_samples
  /\ clock - aggregate.newest <= requirement.max_age
  /\ clock - aggregate.oldest >= requirement.min_window

\* Enough samples, the newest of them fresh, over a long enough time.
Sufficient(aggregate, requirement) ==
  /\ aggregate.count >= requirement.min_samples
  /\ clock - aggregate.newest <= requirement.max_age
  /\ aggregate.newest - aggregate.oldest >= requirement.min_window

lookup_metric(path, requirement) ==
  LET chosen == Chosen(path, requirement)
      resolved == [i \in DOMAIN chosen |-> Aggregated(series[chosen[i]].samples, requirement)]
  IN  [i \in {j \in DOMAIN chosen : Sufficient(resolved[j], requirement)} |->
         [value |-> resolved[i].value, quality |-> series[chosen[i]].quality]]

-----------------------------------------------------------------------------
(* Properties                                                               *)

\* The arrivals under a key, by their place in the history.
Under(key) == {i \in DOMAIN arrivals : arrivals[i].key = key}

\* Those of the newest incarnation that published under it.
OfNewest(key) ==
  {i \in Under(key) : \A j \in Under(key) : arrivals[j].generation <= arrivals[i].generation}

\* How far the arrival at i is from the end of its incarnation: 1 for the last.
FromTheEnd(i) == Cardinality({j \in OfNewest(arrivals[i].key) : j >= i})

(***************************************************************************)
(* README, "Evidence model": samples of two incarnations are never mixed,  *)
(* the oldest go first, and nothing a source published is lost otherwise,  *)
(* however incarnations follow each other between and inside batches       *)
(* (publish_evidence).                                                     *)
(***************************************************************************)
RetainsTheNewest ==
  /\ DOMAIN series = {a.key : a \in ToSet(arrivals)}
  /\ \A key \in DOMAIN series :
       LET kept == Len(series[key].samples) IN
         /\ kept = Min({SampleLimit, Cardinality(OfNewest(key))})
         /\ \A i \in OfNewest(key) :
              /\ series[key].generation = arrivals[i].generation
              /\ FromTheEnd(i) <= kept =>
                   series[key].samples[kept + 1 - FromTheEnd(i)] = arrivals[i].sample

(***************************************************************************)
(* Under one key, what is accepted follows on what was accepted before,    *)
(* long gone samples included: an incarnation never comes back, keeps its  *)
(* quality class and counts its observations upwards.  Observations        *)
(* numbered zero, which are not counted, come before the others.           *)
(***************************************************************************)
AcceptedInOrder ==
  \A i, j \in DOMAIN arrivals : i < j /\ arrivals[i].key = arrivals[j].key =>
    LET a == arrivals[i]
        b == arrivals[j]
    IN  \/ a.generation < b.generation
        \/ /\ a.generation = b.generation
           /\ a.quality = b.quality
           /\ a.sample.sequence < b.sample.sequence \/ a.sample.sequence = 0

(***************************************************************************)
(* A batch is accepted exactly when its publications would be accepted one *)
(* after the other: validation, which runs over the whole batch before     *)
(* anything is applied, foresees what application does.  So nothing that   *)
(* would be refused alone gets in with a batch, and a refused batch was    *)
(* not refused for being one.                                              *)
(***************************************************************************)
BatchIsItsParts ==
  \A batch \in Batches :
    Valid(series, batch) <=>
      \A i \in DOMAIN batch :
        Valid(AppliedAll(series, batch)[i - 1], <<batch[i]>>)

(***************************************************************************)
(* A batch that is sent again after a lost answer, under another attempt   *)
(* id or from a coordinator that has forgotten the attempt, is refused: no *)
(* numbered sample is counted twice.                                       *)
(***************************************************************************)
NothingIsCountedTwice ==
  [][\A batch \in Batches :
       /\ publish_evidence(batch)
       /\ \A i \in DOMAIN batch : batch[i].sequence # 0
       => ~Valid(series', batch)]_evidenceVars
=============================================================================
