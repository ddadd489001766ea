------------------------------- MODULE Metrics -------------------------------
(***************************************************************************)
(* The integer arithmetic of metrics.cpp: what a metric value is, which of *)
(* two is better, how samples become one aggregate and how normalised      *)
(* values become one score.  Division truncates, as it does in the code.   *)
(* The 64-bit checks of add_ok and multiply_ok are left out: with the      *)
(* declared ranges below no product reaches 2^63.                          *)
(***************************************************************************)
EXTENDS Integers, Sequences, FiniteSetsExt, SequencesExt

CONSTANT LatencyMax   \* the largest latency, 4 000 000 000 in the code

ASSUME LatencyMaxAssumption == LatencyMax \in Nat \ {0}

\* basis_points_scale
Scale == 10000

MetricKind == 1..10

\* An entry of metric_table: unit, orientation and range; every minimum is 0
\* and every semantics version is 1.
Descriptor(unit, orientation, maximum) ==
  [unit |-> unit, lowerIsBetter |-> orientation = "LOWER_IS_BETTER", maximum |-> maximum]

\* metric_table: 3 is PATH_LATENCY, 5 PACKET_LOSS, 6 ERROR_RATE, 9 PATH_QUALITY
\* and 10 OPERATOR_POLICY_SIGNAL; the others are shares in basis points.
metric_table ==
  [kind \in MetricKind |->
     CASE kind = 3      -> Descriptor(2, "LOWER_IS_BETTER", LatencyMax)
       [] kind \in 5..6 -> Descriptor(3, "LOWER_IS_BETTER", 1000000)
       [] kind = 9      -> Descriptor(1, "HIGHER_IS_BETTER", Scale)
       [] kind = 10     -> Descriptor(5, "HIGHER_IS_BETTER", 1)
       [] OTHER         -> Descriptor(1, "LOWER_IS_BETTER", Scale)]

\* MetricValue::decode: unit and version are those of the kind, and the value
\* lies in its declared range.
MetricWellFormed(m) ==
  /\ m.kind \in MetricKind
  /\ m.unit = metric_table[m.kind].unit
  /\ m.version = 1
  /\ m.value \in 0..metric_table[m.kind].maximum

Better(kind, a, b) == IF metric_table[kind].lowerIsBetter THEN a < b ELSE a > b

\* normalize_to_basis_points: 0 is the worst value of the kind, Scale the best.
Normalized(kind, value) ==
  LET span == metric_table[kind].maximum
      goodness == IF metric_table[kind].lowerIsBetter THEN span - value ELSE value
  IN  Max({0, Min({(goodness * Scale) \div span, Scale})})

\* A stable sort: where the elements come from, the first of them first.  The place of
\* an element is the number of those that go no later.
StableOrder(keys) ==
  LET NoLater(i) == {j \in DOMAIN keys : \/ keys[j] < keys[i]
                                         \/ keys[j] = keys[i] /\ j <= i}
  IN  [place \in DOMAIN keys |->
         CHOOSE i \in DOMAIN keys : Cardinality(NoLater(i)) = place]

\* Seeded fault: the rank is rounded down.
NearestRankFloor(samples, percent) ==
  samples[StableOrder(samples)[Max({1, (percent * Len(samples)) \div 100})]]

\* nearest_rank: the sample at rank ceil(percent * count / 100) when sorted.
NearestRank(samples, percent) ==
  LET rank == (percent * Len(samples) + 99) \div 100
      index == Max({1, Min({rank, Len(samples)})})
  IN  samples[StableOrder(samples)[index]]

\* The exponentially weighted mean, oldest sample first, rounded at each step.
Ewma(samples, alpha) ==
  FoldLeft(LAMBDA mean, sample : (alpha * sample + (Scale - alpha) * mean) \div Scale,
           Head(samples), Tail(samples))

SumOf(samples) == FoldLeft(LAMBDA a, b : a + b, 0, samples)

AggregationKind == {"MINIMUM", "MAXIMUM", "MEAN", "MEDIAN", "PERCENTILE_95", "EWMA"}

\* aggregate_samples, for at least one sample.
Aggregate(aggregation, samples, alpha) ==
  CASE aggregation = "MINIMUM"       -> Min(ToSet(samples))
    [] aggregation = "MAXIMUM"       -> Max(ToSet(samples))
    [] aggregation = "MEAN"          -> SumOf(samples) \div Len(samples)
    [] aggregation = "MEDIAN"        -> NearestRank(samples, 50)
    [] aggregation = "PERCENTILE_95" -> NearestRank(samples, 95)
    [] aggregation = "EWMA"          -> Ewma(samples, alpha)

\* weighted_score: terms is a sequence of kinds and weights, values one value
\* for each.  The sum is rounded once, half up.
WeightedScore(terms, values) ==
  LET numerator == SumOf([i \in DOMAIN terms |->
                            terms[i].weight_bps * Normalized(terms[i].kind, values[i])])
  IN  (numerator + Scale \div 2) \div Scale
=============================================================================
