------------------------------ MODULE Ranking --------------------------------
(***************************************************************************)
(* How evaluate_inputs turns the evidence into an order of the candidates: *)
(* eligibility by evidence, the objective of several metrics, and          *)
(* ranks_ahead.  The candidates of a policy are the bound paths, all legal,*)
(* current and available; module Adaptation has what else makes a          *)
(* candidate ineligible, and one metric instead of these.                  *)
(***************************************************************************)
EXTENDS Evidence

CONSTANT Policies   \* what policies declare: evidence, objective, priorities

\* PolicySemantics::valid and ObjectiveSpec::valid, of what is read here.
PolicyWellFormed(policy) ==
  LET evidence == policy.evidence
      mode == policy.objective.mode
      terms == policy.objective.terms
      weights == [i \in DOMAIN terms |-> terms[i].weight_bps]
  IN  /\ evidence \in Seq(Requirements)
      /\ \A i, j \in DOMAIN evidence : evidence[i].kind = evidence[j].kind => i = j
      /\ terms \in Seq([kind : MetricKind, weight_bps : 0..Scale]) /\ terms # <<>>
      /\ \A i, j \in DOMAIN terms : terms[i].kind = terms[j].kind => i = j
      /\ \A i \in DOMAIN terms : \E r \in ToSet(evidence) : r.kind = terms[i].kind
      /\ \/ mode = "LEXICOGRAPHIC" /\ ToSet(weights) = {0}
         \/ mode = "WEIGHTED_SCORE" /\ 0 \notin ToSet(weights) /\ SumOf(weights) = Scale
      /\ policy.priority \in [BoundPaths -> Int]

ASSUME PoliciesAssumption == \A policy \in Policies : PolicyWellFormed(policy)

\* The first requirement a policy declares for a metric, if it does.
Declared(policy, kind) ==
  LET places == {i \in DOMAIN policy.evidence : policy.evidence[i].kind = kind}
  IN  IF places = {} THEN <<>> ELSE <<policy.evidence[Min(places)]>>

\* The value of the i-th objective term for a path, if there is one.
TermValue(policy, path, i) ==
  LET declared == Declared(policy, policy.objective.terms[i].kind)
  IN  IF declared = <<>> THEN <<>> ELSE lookup_metric(path, declared[1])

RequiredHold(policy, path) ==
  \A r \in ToSet(policy.evidence) : r.required => lookup_metric(path, r) # <<>>

\* Every required metric is there, and every term can be computed.
Eligible(policy, path) ==
  /\ RequiredHold(policy, path)
  /\ \A i \in DOMAIN policy.objective.terms : TermValue(policy, path, i) # <<>>

\* The weakest quality that was used; 4, the best, when a required metric is missing.
WeakestQuality(policy, path) ==
  LET used == UNION {ToSet(lookup_metric(path, r)) : r \in ToSet(policy.evidence)}
  IN  IF RequiredHold(policy, path) THEN Min({4} \cup {metric.quality : metric \in used}) ELSE 4

\* CandidateEvaluation; an ineligible candidate has neither metrics nor a score.
Evaluation(policy, path) ==
  LET terms == policy.objective.terms
      eligible == Eligible(policy, path)
      values == [i \in DOMAIN terms |-> TermValue(policy, path, i)[1].value]
  IN  [path |-> path, eligible |-> eligible, priority |-> policy.priority[path],
       quality |-> WeakestQuality(policy, path),
       metrics |-> IF eligible THEN values ELSE <<>>,
       score |-> IF eligible /\ policy.objective.mode = "WEIGHTED_SCORE"
                 THEN WeightedScore(terms, values) ELSE 0]

\* The objective terms on which two candidates differ.
Differing(a, b) ==
  {i \in DOMAIN a.metrics \cap DOMAIN b.metrics : a.metrics[i] # b.metrics[i]}

\* Seeded fault: less is better, whatever the metric.
LeadsInTermsByValue(policy, a, b) ==
  LET first == Min(Differing(a, b))
  IN  a.metrics[first] < b.metrics[first]

\* The first term that differs decides.
LeadsInTerms(policy, a, b) ==
  LET first == Min(Differing(a, b))
  IN  Better(policy.objective.terms[first].kind, a.metrics[first], b.metrics[first])

\* Seeded fault: a candidate comes before itself.
ByPathOrSame(a, b) == a.path <= b.path

\* The order of the names of paths, which are numbers here.
ByPath(a, b) == a.path < b.path

\* ranks_ahead: the first of these on which two candidates differ decides.
RanksAhead(policy, a, b) ==
  LET weighted == policy.objective.mode = "WEIGHTED_SCORE"
  IN  IF a.eligible # b.eligible THEN a.eligible
      ELSE IF a.priority # b.priority THEN a.priority > b.priority
      ELSE IF a.quality # b.quality THEN a.quality > b.quality
      ELSE IF weighted /\ a.score # b.score THEN a.score > b.score
      ELSE IF ~weighted /\ Differing(a, b) # {} THEN LeadsInTerms(policy, a, b)
      ELSE ByPath(a, b)

-----------------------------------------------------------------------------
(* Properties                                                               *)

Evaluations(policy) == {Evaluation(policy, path) : path \in BoundPaths}

\* What the publishers of a metric have sent supports a reading under r: some series
\* is good enough, its newest incarnation has sent enough, and lately.
Supported(path, r) ==
  \E last \in DOMAIN arrivals :
    LET a == arrivals[last]
        retained == {i \in OfNewest(a.key) : FromTheEnd(i) <= SampleLimit}
    IN  /\ a.key.path = path /\ a.key.kind = r.kind /\ last = Max(OfNewest(a.key))
        /\ a.quality >= r.min_quality
        /\ Cardinality(retained) >= r.min_samples
        /\ clock <= a.sample.accepted_at + r.max_age
        /\ a.sample.accepted_at >= arrivals[Min(retained)].sample.accepted_at + r.min_window

(***************************************************************************)
(* README, "Evidence currentness": missing required evidence fails closed. *)
(* An eligible candidate has, for everything its policy requires and for   *)
(* every term of the objective, publications of a current incarnation that *)
(* are good, many and fresh enough, whatever was dropped or superseded.    *)
(***************************************************************************)
EligibleIsSupported ==
  \A policy \in Policies, path \in BoundPaths :
    Eligible(policy, path) =>
      \A r \in ToSet(policy.evidence) :
        r.required \/ (\E i \in DOMAIN policy.objective.terms :
                         policy.objective.terms[i].kind = r.kind)
        => Supported(path, r)

(***************************************************************************)
(* A reading lies between the smallest and the largest retained sample,    *)
(* and a nearest-rank statistic is a sample with the right share of the    *)
(* others at or below it; the mean is the floor of the exact mean.         *)
(***************************************************************************)
AggregatesAreExact ==
  \A key \in DOMAIN series, r \in Requirements :
    LET samples == series[key].samples
        n == Len(samples)
        value == Aggregated(samples, r).value
        atOrBelow(v) == Cardinality({i \in DOMAIN samples : samples[i].value <= v})
        below(v) == Cardinality({i \in DOMAIN samples : samples[i].value < v})
        ranked(percent) == /\ 100 * atOrBelow(value) >= percent * n
                           /\ 100 * below(value) < percent * n
        total == SumOf([i \in DOMAIN samples |-> samples[i].value])
    IN  /\ \E i \in DOMAIN samples : samples[i].value <= value
        /\ \E i \in DOMAIN samples : samples[i].value >= value
        /\ r.aggregation = "MEDIAN" => ranked(50)
        /\ r.aggregation = "PERCENTILE_95" => ranked(95)
        /\ r.aggregation = "MEAN" => value * n <= total /\ total < (value + 1) * n
        /\ r.aggregation = "MINIMUM" => below(value) = 0
        /\ r.aggregation = "MAXIMUM" => atOrBelow(value) = n

(***************************************************************************)
(* ranks_ahead is a strict total order of the candidates of every policy,  *)
(* as the sort needs it and as "the same evidence, the same ranking"       *)
(* needs it, for any mixture of eligible and ineligible candidates.        *)
(***************************************************************************)
RankingIsStrict ==
  \A policy \in Policies : LET candidates == Evaluations(policy) IN
    \A a, b \in candidates :
      /\ ~RanksAhead(policy, a, a)
      /\ a # b => (RanksAhead(policy, a, b) <=> ~RanksAhead(policy, b, a))
      /\ \A c \in candidates :
           RanksAhead(policy, a, b) /\ RanksAhead(policy, b, c) => RanksAhead(policy, a, c)

\* In no term of the objective is b better than a, and in one it is worse.
Dominates(policy, a, b) ==
  LET terms == policy.objective.terms
      better(x, y) == {i \in DOMAIN terms : Better(terms[i].kind, x.metrics[i], y.metrics[i])}
  IN  /\ a.eligible /\ b.eligible
      /\ a.priority = b.priority /\ a.quality = b.quality
      /\ better(b, a) = {} /\ better(a, b) # {}

(***************************************************************************)
(* Between two candidates of one priority and quality, the one that is     *)
(* worse on every term that differs never leads: not by the order of the   *)
(* terms, not by the direction of a metric, and not by the rounding of the *)
(* score, which may only tie (weighted_score, normalize_to_basis_points).  *)
(***************************************************************************)
DominatedNeverLeads ==
  \A policy \in Policies : \A a, b \in Evaluations(policy) :
    Dominates(policy, a, b) =>
      /\ policy.objective.mode = "WEIGHTED_SCORE" => a.score >= b.score
      /\ policy.objective.mode = "LEXICOGRAPHIC" => RanksAhead(policy, a, b)
=============================================================================
