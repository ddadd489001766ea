----------------------------- MODULE MCTransfer ------------------------------
(***************************************************************************)
(* The values of Transfer for TLC.  A sample value of every message and a  *)
(* sample store are made from their layouts: every list has two elements,  *)
(* every optional member is there, neighbours differ.  From a sample come  *)
(* its variations: each differs in one member, which takes the values at   *)
(* both ends of its range and one step outside.                            *)
(***************************************************************************)
EXTENDS Transfer

MCLimits ==
  [max_scope_routes |-> 3, max_scope_multipath_sets |-> 2, max_thresholds_per_policy |-> 1,
   max_objective_terms |-> 2, max_evidence_requirements_per_policy |-> 3,
   max_candidates_per_policy |-> 2, max_policies |-> 2, max_revocations |-> 3,
   max_dampening_penalty |-> 10, max_adaptations_per_window |-> 3, max_decision_history |-> 3,
   max_persistence_record_bytes |-> 505, max_store_bytes |-> 2380]

MetricOf(kind, value) ==
  [kind |-> kind, unit |-> metric_table[kind].unit, version |-> 1, value |-> value]

RequirementOf(kind) ==
  [kind |-> kind, aggregation |-> 6, ewma_alpha_bps |-> 2500, min_samples |-> 3, max_age |-> 80,
   min_window |-> 40, min_quality |-> 2, required |-> 1]

ExampleSemantics ==
  [semantics_version |-> 1,
   target |-> [route |-> <<3, 20>>, multipath_set |-> << <<3, 21>> >>],
   thresholds |-> << [kind |-> 3, switch_value |-> << MetricOf(3, 9) >>,
                      clear_value |-> << MetricOf(3, 5) >>] >>,
   improvements |-> << [kind |-> 3, switch_improvement_bps |-> 500, reverse_improvement_bps |-> 700],
                       [kind |-> 5, switch_improvement_bps |-> 600, reverse_improvement_bps |-> 0] >>,
   evidence |-> << RequirementOf(3), RequirementOf(5) >>,
   hold_down |-> 10, cooldown |-> 20,
   dampening |-> [enabled |-> 1, penalty_increment |-> 2, max_penalty |-> 8,
                  penalty_decay_interval |-> 30, penalty_decay_step |-> 1,
                  hold_down_escalation_step |-> 5, max_effective_hold_down |-> 60],
   churn |-> [max_adaptations_per_window |-> 4, window |-> 90],
   objective |-> [mode |-> 2, scoring_version |-> 1,
                  terms |-> << [kind |-> 3, weight_bps |-> 4000], [kind |-> 5, weight_bps |-> 6000] >>],
   emergency |-> [enabled |-> 1, on_current_path_unauthorized |-> 1,
                  on_current_path_unavailable |-> 0, on_hard_failure_signal |-> 1],
   priorities |-> << [path |-> <<3, 30>>, priority |-> 6], [path |-> <<3, 31>>, priority |-> 7] >>]

RECURSIVE Example(_, _)

\* The members of a structure, each at its own place.
ExampleStruct(layout, place) ==
  [name \in {layout[i].name : i \in DOMAIN layout} |->
     LET i == CHOOSE j \in DOMAIN layout : layout[j].name = name
     IN  Example(layout[i], place + i)]

ExampleStore ==
  LET policy(i) == [Example(StorePolicy, i) EXCEPT !.id = <<3, i>>]
      owned(layout, i) == [Example(layout, i) EXCEPT !.policy = <<3, i>>]
      preference(i) == [owned(StorePreference, i) EXCEPT !.route = ExampleSemantics.target.route]
  IN  [epoch |-> 1, authority_generation |-> 2, evidence_generation |-> 3,
       evidence_watermark |-> 4, upstream_watermark |-> 5,
       policies |-> <<policy(1), policy(2)>>,
       revocations |-> <<owned(StoreRevocation, 1), owned(StoreRevocation, 7)>>,
       preferences |-> <<preference(1), preference(2)>>,
       stable_states |-> <<owned(StoreStable, 1), owned(StoreStable, 2)>>,
       timings |-> <<owned(StoreTiming, 1), owned(StoreTiming, 2)>>,
       history |-> <<owned(StoreHistory, 1), owned(StoreHistory, 2)>>]

Example(field, place) ==
  CASE field.kind = "int" ->
         IF field.high = 1 THEN 1 ELSE field.low + (place % (field.high - field.low + 1))
    [] field.kind = "text"  -> <<3, place>>
    [] field.kind = "maybe" -> << Example(field.of, place) >>
    [] field.kind = "list"  -> << Example(field.of, place), Example(field.of, place + 1) >>
    [] field.kind \in {"struct", "record"} ->
         CASE field.check = "metric"      -> MetricOf(3, place)
           [] field.check = "requirement" -> RequirementOf(3)
           [] field.check = "semantics"   -> ExampleSemantics
           [] field.check = "store"       -> ExampleStore
           [] OTHER                       -> ExampleStruct(field.layout, place)

\* A list of n elements like those of the sample; identifiers stay distinct.
Extended(field, value, n) ==
  [i \in 1..n |-> IF i <= Len(value) THEN value[i]
                  ELSE IF field.kind = "text" THEN <<3, 40 + i>>
                  ELSE value[Len(value)]]

RECURSIVE Variations(_, _)
Variations(field, value) ==
  CASE field.kind = "int" ->
         {n \in {field.low - 1, field.low, field.high, field.high + 1} :
            n >= 0 /\ (field.high \in {1, Top} => n <= field.high)}
    [] field.kind = "text" ->
         {<<0, 0>>} \cup {<<n, value[2]>> : n \in {3, field.high, field.high + 1}}
    [] field.kind = "maybe" ->
         {<<>>} \cup {<<v>> : v \in Variations(field.of, Head(value))}
    [] field.kind = "list" ->
         {SubSeq(value, 1, n) : n \in 0..Len(value)}
           \cup {Extended(field.of, value, n) : n \in 3..4}
           \cup {[value EXCEPT ![1] = v] : v \in Variations(field.of, value[1])}
    [] field.kind \in {"struct", "record"} ->
         UNION {LET part == field.layout[i]
                IN  {[value EXCEPT ![part.name] = v] : v \in Variations(part, value[part.name])} :
                  i \in DOMAIN field.layout}

ExampleOf == [name \in DOMAIN MessageId |-> Example(MessageId[name].put, 0)]

MCMessages ==
  [name \in DOMAIN MessageId |->
     {ExampleOf[name]} \cup Variations(MessageId[name].put, ExampleOf[name])]

\* Stores within every limit on a count that reach a limit on bytes: a policy with a
\* third route and a third requirement, as long as a record may be, and with a longer
\* name; and a store with a third element in several lists, as long as a store may be,
\* and with one age of a commit more.
ThirdRoute(policy) == [policy EXCEPT !.scope.routes = Append(@, <<3, 43>>)]

Broad(name) ==
  [ExampleStore EXCEPT !.policies[1] =
     [ThirdRoute(@) EXCEPT !.name = name, !.semantics.evidence = Append(@, RequirementOf(1))]]

Full(ages) ==
  LET third(list) == Append(list, list[2])
  IN  [ExampleStore EXCEPT !.policies = <<ThirdRoute(@[1]), ThirdRoute(@[2])>>,
                           !.revocations = third(@), !.history = third(@),
                           !.timings[1].churn_ages = third(@),
                           !.timings[2].churn_ages = ages]

LargeStores ==
  {Broad(name) : name \in {<<3, 1>>, <<5, 1>>}} \cup {Full(ages) : ages \in {<<1, 2>>, <<1, 2, 3>>}}

MCStores == {ExampleStore} \cup Variations(StoreState, ExampleStore) \cup LargeStores

\* A frame is damaged, and follows another, in the same way whatever it carries; the
\* three longest bodies are left out.
MCCommon ==
  [messages |-> [name \in DOMAIN MessageId |->
                   IF name \in {"CREATE_POLICY", "UPDATE_POLICY", "COMMIT_DECISION"} THEN {}
                   ELSE {ExampleOf[name]}],
   stores |-> {ExampleStore}]
=============================================================================
