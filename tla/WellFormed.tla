----------------------------- MODULE WellFormed ------------------------------
(***************************************************************************)
(* What the declarations of this engine accept as well formed: policy      *)
(* rules, scopes, bindings, proposals.  The decoders of the wire and of    *)
(* the store apply these predicates, and so do the engine operations.      *)
(*                                                                         *)
(* A value is a record with the field names of the code.  A text or an     *)
(* identifier is a pair of its length and a number that tells it from      *)
(* others; an identifier of length zero is the invalid one.  A boolean is  *)
(* 0 or 1, an enumerator its number, an optional value a sequence of at    *)
(* most one value.                                                         *)
(***************************************************************************)
EXTENDS Metrics, Functions

\* StrongId::valid
Present(id) == id[1] > 0

KindsOf(rules) == [i \in DOMAIN rules |-> rules[i].kind]

PathsOf(entries) == [i \in DOMAIN entries |-> entries[i].path]

\* PolicyScope::well_formed; AuthorityScope::well_formed says the same.
ScopeWellFormed(scope) ==
  /\ Present(scope.fabric) /\ Present(scope.name_space)
  /\ IsInjective(scope.routes) /\ IsInjective(scope.multipath_sets)

\* ThresholdRule::valid: two values of the kind, the clearing one strictly better.
ThresholdValid(rule) ==
  /\ rule.switch_value # <<>> /\ rule.clear_value # <<>>
  /\ LET switch == Head(rule.switch_value)
         clear == Head(rule.clear_value)
     IN  /\ switch.kind = rule.kind /\ clear.kind = rule.kind
         /\ Better(rule.kind, clear.value, switch.value)

\* ImprovementRule::valid
ImprovementValid(rule) ==
  /\ rule.switch_improvement_bps <= Scale /\ rule.reverse_improvement_bps <= Scale
  /\ rule.switch_improvement_bps # 0 \/ rule.reverse_improvement_bps # 0

\* EvidenceRequirement::valid; aggregation 6 is EWMA.
RequirementValid(r) ==
  /\ r.kind \in MetricKind /\ r.aggregation \in 1..6 /\ r.min_quality \in 1..4
  /\ r.min_samples # 0 /\ r.max_age # 0 /\ r.min_window <= r.max_age
  /\ IF r.aggregation = 6 THEN r.ewma_alpha_bps \in 1..Scale ELSE r.ewma_alpha_bps = 0

\* DampeningRule::valid: all of it is given, or none of it is.
DampeningValid(d) ==
  LET parameters == <<d.penalty_increment, d.max_penalty, d.penalty_decay_interval,
                      d.penalty_decay_step, d.hold_down_escalation_step, d.max_effective_hold_down>>
  IN  IF d.enabled = 0
      THEN \A i \in DOMAIN parameters : parameters[i] = 0
      ELSE (\A i \in DOMAIN parameters : parameters[i] # 0) /\ d.max_penalty >= d.penalty_increment

\* ObjectiveSpec::valid; mode 1 is LEXICOGRAPHIC and carries no weights, the
\* weights of mode 2 sum up to the whole.
ObjectiveValid(o) ==
  LET weights == [i \in DOMAIN o.terms |-> o.terms[i].weight_bps]
  IN  /\ o.terms # <<>> /\ o.scoring_version = 1 /\ IsInjective(KindsOf(o.terms))
      /\ IF o.mode = 1
         THEN \A i \in DOMAIN weights : weights[i] = 0
         ELSE (\A i \in DOMAIN weights : weights[i] \in 1..Scale) /\ SumOf(weights) = Scale

\* PolicySemantics::valid
SemanticsValid(s) ==
  /\ s.semantics_version = 1 /\ Present(s.target.route)
  /\ s.thresholds # <<>> \/ s.improvements # <<>>
  /\ \A i \in DOMAIN s.thresholds : ThresholdValid(s.thresholds[i])
  /\ \A i \in DOMAIN s.improvements : ImprovementValid(s.improvements[i])
  /\ s.evidence # <<>> /\ \A i \in DOMAIN s.evidence : RequirementValid(s.evidence[i])
  /\ \A rules \in {s.thresholds, s.improvements, s.evidence} : IsInjective(KindsOf(rules))
  /\ DampeningValid(s.dampening)
  /\ s.dampening.enabled = 1 =>
       s.hold_down # 0 /\ s.dampening.max_effective_hold_down >= s.hold_down
  /\ s.churn.max_adaptations_per_window # 0 => s.churn.window # 0
  /\ ObjectiveValid(s.objective)
  /\ s.emergency.enabled = 1 =>
       1 \in {s.emergency.on_current_path_unauthorized, s.emergency.on_current_path_unavailable,
              s.emergency.on_hard_failure_signal}
  /\ IsInjective(PathsOf(s.priorities))
  /\ \A i \in DOMAIN s.priorities : Present(s.priorities[i].path)
  /\ \A rules \in {s.thresholds, s.improvements, s.objective.terms} :
       Range(KindsOf(rules)) \subseteq Range(KindsOf(s.evidence))

\* CandidateBinding::well_formed
BindingWellFormed(b) ==
  /\ Present(b.path)
  /\ Present(b.path_authority.path) /\ b.path_authority.generation # 0
  /\ Present(b.route.route) /\ b.route.generation # 0

\* EvidencePublication::well_formed
PublicationWellFormed(p) ==
  /\ Present(p.source) /\ p.source_generation # 0 /\ Present(p.path) /\ p.value # <<>>

\* WeightProposal::well_formed
ProposalWellFormed(w) ==
  /\ Present(w.set) /\ w.base_generation # 0 /\ w.weights # <<>>
  /\ \A i \in DOMAIN w.weights :
       Present(w.weights[i].path) /\ w.weights[i].weight_bps <= Scale

-----------------------------------------------------------------------------
(* What decode_durable_state asks of its records beyond their fields.       *)

\* An established preference names a path and its generation.
PreferenceDecodable(p) ==
  p.established = 1 => Present(p.preferred_path) /\ p.path_authority_generation # 0

StableDecodable(s) == s.established = 1 => s.path_authority_generation # 0

\* A timer that is not active has nothing left to run.
TimingDecodable(t) ==
  /\ t.hold_down_active = 0 => t.hold_down_remaining = 0
  /\ t.cooldown_active = 0 => t.cooldown_remaining = 0

\* No policy twice; every other record but a revocation belongs to a policy of the
\* store, and a preference is one for the route that policy targets.
StoreConsistent(store) ==
  LET ids == [i \in DOMAIN store.policies |-> store.policies[i].id]
  IN  /\ IsInjective(ids)
      /\ \A records \in {store.preferences, store.stable_states, store.timings, store.history} :
           \A i \in DOMAIN records : records[i].policy \in Range(ids)
      /\ \A i \in DOMAIN store.preferences, j \in DOMAIN store.policies :
           store.preferences[i].policy = store.policies[j].id =>
             store.preferences[i].route = store.policies[j].semantics.target.route
=============================================================================
