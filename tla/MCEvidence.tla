----------------------------- MODULE MCEvidence ------------------------------
(***************************************************************************)
(* The values of Evidence and Ranking for TLC.  Three paths are bound, a   *)
(* fourth is not; kind 3 is a latency, kind 9 a quality, where higher is   *)
(* better; quality class 4 is PRIMARY and 3 AGGREGATED.                    *)
(***************************************************************************)
EXTENDS Ranking

Pub(source, generation, quality, path, kind, value, sequence) ==
  [source |-> source, generation |-> generation, quality |-> quality, path |-> path,
   metric |-> [kind |-> kind, unit |-> metric_table[kind].unit, version |-> 1, value |-> value],
   sequence |-> sequence]

\* One series under every order of incarnations, quality classes and sequences.
Contested ==
  {Pub(1, generation, quality, 1, 3, 20 + 13 * sequence, sequence) :
     generation \in 1..2, quality \in 3..4, sequence \in 0..2}

\* Other series: a better and a worse source of the same metric, a third source,
\* a path nobody binds, and the next sample of the other metric.
Others ==
  {Pub(2, 1, 3, 1, 3, 60, 2), Pub(2, 1, 4, 1, 3, 10, 2), Pub(3, 1, 3, 3, 3, 60, 1),
   Pub(1, 1, 3, 4, 3, 60, 1), Pub(1, 1, 3, 2, 9, 0, 2)}

\* Both metrics of both paths at once; neighbouring values, whose scores may tie.
Survey ==
  {<<Pub(1, 1, 3, 1, 3, a, 1), Pub(1, 1, IF a = 20 THEN 4 ELSE 3, 2, 3, b, 1),
     Pub(1, 1, 3, 1, 9, c, 1), Pub(1, 1, 3, 2, 9, d, 1)>> :
     a \in {20, 60}, b \in {20, 60}, c \in {5000, 5001}, d \in {5000, 5001}}

MCBatches ==
  {<<p>> : p \in Contested \cup Others} \cup (Contested \X Contested) \cup Survey
    \cup {<<Pub(s, 1, 3, 1, 3, 30, 1), Pub(t, 1, 3, 1, 3, 50, 1)>> : s \in 2..3, t \in 1..3}

Requirement(kind, aggregation, min_samples, max_age, min_window, min_quality, required) ==
  [kind |-> kind, aggregation |-> aggregation,
   ewma_alpha_bps |-> IF aggregation = "EWMA" THEN 2500 ELSE 0,
   min_samples |-> min_samples, max_age |-> max_age, min_window |-> min_window,
   min_quality |-> min_quality, required |-> required]

Typical == Requirement(3, "EWMA", 1, 1, 0, 3, TRUE)
Strict  == Requirement(3, "MEDIAN", 2, 1, 1, 3, TRUE)
Signal  == Requirement(9, "MEAN", 1, 2, 0, 3, FALSE)

MCRequirements ==
  {Typical, Strict, Signal}
    \cup {Requirement(3, a, 1, 1, 0, 4, TRUE) : a \in {"MINIMUM", "MAXIMUM", "PERCENTILE_95"}}

Term(kind, weight_bps) == [kind |-> kind, weight_bps |-> weight_bps]

PolicyOf(evidence, mode, terms, second) ==
  [evidence |-> evidence, objective |-> [mode |-> mode, terms |-> terms],
   priority |-> [path \in BoundPaths |-> IF path = 2 THEN second ELSE 0]]

MCPolicies ==
  {PolicyOf(<<Typical, Signal>>, "WEIGHTED_SCORE", <<Term(9, 6000), Term(3, 4000)>>, second) :
     second \in 0..1}
  \cup {PolicyOf(<<Typical, Signal>>, "LEXICOGRAPHIC", <<Term(9, 0), Term(3, 0)>>, second) :
          second \in 0..1}
  \cup {PolicyOf(<<Typical, Signal>>, "WEIGHTED_SCORE", <<Term(3, 10000)>>, 1),
        PolicyOf(<<Strict, Signal>>, "LEXICOGRAPHIC", <<Term(9, 0)>>, 0)}
=============================================================================
