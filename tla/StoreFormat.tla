----------------------------- MODULE StoreFormat -----------------------------
(***************************************************************************)
(* The store of persistence.cpp: what encode_durable_state writes and what *)
(* decode_durable_state reads, each taken from its own lines.  The decoder *)
(* tests the size of the store, every count and the length of every record *)
(* against the default limits, whatever limits the engine was given, and   *)
(* every record against its length.                                        *)
(*                                                                         *)
(* The status of a refusal names the first test that failed; the many that  *)
(* follow the integrity test are one status here.                          *)
(***************************************************************************)
EXTENDS Codec

CONSTANT Limits   \* limits.hpp: the default limits

ASSUME LimitsAssumption ==
  \A name \in {"max_scope_routes", "max_scope_multipath_sets", "max_thresholds_per_policy",
               "max_objective_terms", "max_evidence_requirements_per_policy",
               "max_candidates_per_policy", "max_policies", "max_revocations",
               "max_dampening_penalty", "max_adaptations_per_window", "max_decision_history",
               "max_persistence_record_bytes", "max_store_bytes"} :
    Limits[name] \in Nat

Part(name, layout) == Struct(name, layout, "none")

AnyKind(name) == Enum(name, 1, 10)

\* get_maybe_id: empty means absent; a generation that may be zero.
MaybeEmpty(name) == [name |-> name, kind |-> "text", low |-> 0, high |-> MaxId]

\* The limits of an encoder are those of the types: no list and no record is too long
\* for it.
Unbounded(name, field) == ListOf(name, field, Top)

WrittenRecord(layout, check) == Record(layout, Top, check)

\* get_bytes(limits.max_persistence_record_bytes)
ReadRecord(layout, check) == Record(layout, Limits.max_persistence_record_bytes, check)

-----------------------------------------------------------------------------
(* Parts                                                                    *)

StoreMetric(name) ==
  Maybe(Struct(name, << AnyKind("kind"), Enum("unit", 1, 5), U32("version"), U64("value") >>,
               "metric"))

LoadMetric(name) ==
  Maybe(Struct(name, << AnyKind("kind"), Enum("unit", 1, 5), U32("version"), U64("value") >>,
               "metric"))

StoreScope ==
  Struct("scope", << Id("fabric"), Id("name_space"), Maybe(Id("site")), Maybe(Id("path_class")),
                     Unbounded("routes", Id("")), Unbounded("multipath_sets", Id("")) >>, "scope")

LoadScope ==
  Struct("scope", << Id("fabric"), Id("name_space"), Maybe(Id("site")), Maybe(Id("path_class")),
                     ListOf("routes", Id(""), Limits.max_scope_routes),
                     ListOf("multipath_sets", Id(""), Limits.max_scope_multipath_sets) >>, "scope")

StoreRequirement ==
  Struct("", << AnyKind("kind"), Enum("aggregation", 1, 6), U32("ewma_alpha_bps"),
                U32("min_samples"), U64("max_age"), U64("min_window"), Enum("min_quality", 1, 4),
                Flag("required") >>, "requirement")

LoadRequirement ==
  Struct("", << AnyKind("kind"), Enum("aggregation", 1, 6), U32("ewma_alpha_bps"),
                U32("min_samples"), U64("max_age"), U64("min_window"), Enum("min_quality", 1, 4),
                Flag("required") >>, "requirement")

StoreSemantics ==
  Struct("semantics",
    << U32("semantics_version"), Part("target", << Id("route"), Maybe(Id("multipath_set")) >>),
       Unbounded("thresholds", Part("", << AnyKind("kind"), StoreMetric("switch_value"),
                                           StoreMetric("clear_value") >>)),
       Unbounded("improvements", Part("", << AnyKind("kind"), U32("switch_improvement_bps"),
                                             U32("reverse_improvement_bps") >>)),
       Unbounded("evidence", StoreRequirement),
       U64("hold_down"), U64("cooldown"),
       Part("dampening", << Flag("enabled"), U32("penalty_increment"), U32("max_penalty"),
                            U64("penalty_decay_interval"), U32("penalty_decay_step"),
                            U64("hold_down_escalation_step"), U64("max_effective_hold_down") >>),
       Part("churn", << U32("max_adaptations_per_window"), U64("window") >>),
       Part("objective", << Enum("mode", 1, 2), U32("scoring_version"),
                            Unbounded("terms", Part("", << AnyKind("kind"), U32("weight_bps") >>)) >>),
       Part("emergency", << Flag("enabled"), Flag("on_current_path_unauthorized"),
                            Flag("on_current_path_unavailable"), Flag("on_hard_failure_signal") >>),
       Unbounded("priorities", Part("", << Id("path"), U32("priority") >>)) >>,
    "semantics")

\* get_semantics; the limit on objective terms is the one on improvements as well.
LoadSemantics ==
  Struct("semantics",
    << U32("semantics_version"), Part("target", << Id("route"), Maybe(Id("multipath_set")) >>),
       ListOf("thresholds", Part("", << AnyKind("kind"), LoadMetric("switch_value"),
                                        LoadMetric("clear_value") >>),
              Limits.max_thresholds_per_policy),
       ListOf("improvements", Part("", << AnyKind("kind"), U32("switch_improvement_bps"),
                                          U32("reverse_improvement_bps") >>),
              Limits.max_objective_terms),
       ListOf("evidence", LoadRequirement, Limits.max_evidence_requirements_per_policy),
       U64("hold_down"), U64("cooldown"),
       Part("dampening", << Flag("enabled"), U32("penalty_increment"), U32("max_penalty"),
                            U64("penalty_decay_interval"), U32("penalty_decay_step"),
                            U64("hold_down_escalation_step"), U64("max_effective_hold_down") >>),
       Part("churn", << U32("max_adaptations_per_window"), U64("window") >>),
       Part("objective", << Enum("mode", 1, 2), U32("scoring_version"),
                            ListOf("terms", Part("", << AnyKind("kind"), U32("weight_bps") >>),
                                   Limits.max_objective_terms) >>),
       Part("emergency", << Flag("enabled"), Flag("on_current_path_unauthorized"),
                            Flag("on_current_path_unavailable"), Flag("on_hard_failure_signal") >>),
       ListOf("priorities", Part("", << Id("path"), U32("priority") >>),
              Limits.max_candidates_per_policy) >>,
    "semantics")

\* What a preference that was never committed has no value for may be empty or zero.
StoreProvenance ==
  Part("provenance", << MaybeEmpty("publisher"), MaybeEmpty("worker_boot"), U64("epoch"),
                        MaybeEmpty("attempt"), U64("policy_generation"), Enum("cause", 1, 14) >>)

LoadProvenance ==
  Part("provenance", << MaybeEmpty("publisher"), MaybeEmpty("worker_boot"), U64("epoch"),
                        MaybeEmpty("attempt"), U64("policy_generation"), Enum("cause", 1, 14) >>)

-----------------------------------------------------------------------------
(* Records                                                                  *)

StorePolicy ==
  WrittenRecord(<< Id("id"), Id("name"), StoreScope, StoreSemantics, Gen("generation"),
                   Enum("lifecycle", 1, 7), Gen("epoch"), Id("owner"), Gen("authority_generation"),
                   U64("declared_at"), U64("updated_at") >>, "none")

LoadPolicy ==
  ReadRecord(<< Id("id"), Id("name"), LoadScope, LoadSemantics, Gen("generation"),
                Enum("lifecycle", 1, 7), Gen("epoch"), Id("owner"), Gen("authority_generation"),
                U64("declared_at"), U64("updated_at") >>, "none")

StoreRevocation ==
  WrittenRecord(<< Id("policy"), Gen("generation"), Gen("authority_generation"), Gen("epoch"),
                   Id("publisher"), Enum("reason", 1, 5), Str("detail") >>, "none")

LoadRevocation ==
  ReadRecord(<< Id("policy"), Gen("generation"), Gen("authority_generation"), Gen("epoch"),
                Id("publisher"), Enum("reason", 1, 5), Str("detail") >>, "none")

StorePreference ==
  WrittenRecord(
    << Id("policy"), Id("route"), Maybe(Id("multipath_set")), U64("multipath_set_generation"),
       Flag("established"), MaybeEmpty("preferred_path"), U64("path_authority_generation"),
       Maybe(Id("previous_path")), U64("route_generation"), Gen("adaptation_generation"),
       Gen("transition_generation"), MaybeEmpty("transition"),
       Maybe(Struct("weight_proposal",
                    << Id("set"), Gen("base_generation"),
                       Unbounded("weights", Part("", << Id("path"), U32("weight_bps") >>)) >>,
                    "proposal")),
       Maybe(Id("decision")), StoreProvenance, U64("committed_at") >>, "preference")

LoadPreference ==
  ReadRecord(
    << Id("policy"), Id("route"), Maybe(Id("multipath_set")), U64("multipath_set_generation"),
       Flag("established"), MaybeEmpty("preferred_path"), U64("path_authority_generation"),
       Maybe(Id("previous_path")), U64("route_generation"), Gen("adaptation_generation"),
       Gen("transition_generation"), MaybeEmpty("transition"),
       Maybe(Struct("weight_proposal",
                    << Id("set"), Gen("base_generation"),
                       ListOf("weights", Part("", << Id("path"), U32("weight_bps") >>),
                              Limits.max_candidates_per_policy) >>,
                    "proposal")),
       Maybe(Id("decision")), LoadProvenance, U64("committed_at") >>, "preference")

StoreStable ==
  WrittenRecord(<< Id("policy"), Flag("established"), MaybeEmpty("path"),
                   U64("path_authority_generation"), U64("route_generation"),
                   U64("multipath_set_generation"), U64("adaptation_generation"),
                   U64("stabilized_at") >>, "stable")

LoadStable ==
  ReadRecord(<< Id("policy"), Flag("established"), MaybeEmpty("path"),
                U64("path_authority_generation"), U64("route_generation"),
                U64("multipath_set_generation"), U64("adaptation_generation"),
                U64("stabilized_at") >>, "stable")

StoreTiming ==
  WrittenRecord(<< Id("policy"), Flag("hold_down_active"), U64("hold_down_remaining"),
                   U64("hold_down_policy_generation"), Maybe(Id("hold_down_locked_path")),
                   Flag("cooldown_active"), U64("cooldown_remaining"), U32("dampening_penalty"),
                   U64("dampening_decay_remaining"), Unbounded("churn_ages", U64("")) >>, "timing")

\* Seeded fault: a timer record may hold fewer ages of commits than the limit.
LoadTimingTight ==
  ReadRecord(<< Id("policy"), Flag("hold_down_active"), U64("hold_down_remaining"),
                U64("hold_down_policy_generation"), Maybe(Id("hold_down_locked_path")),
                Flag("cooldown_active"), U64("cooldown_remaining"),
                Number("dampening_penalty", 4, 0, Limits.max_dampening_penalty),
                U64("dampening_decay_remaining"),
                ListOf("churn_ages", U64(""), Limits.max_adaptations_per_window - 1) >>, "timing")

LoadTiming ==
  ReadRecord(<< Id("policy"), Flag("hold_down_active"), U64("hold_down_remaining"),
                U64("hold_down_policy_generation"), Maybe(Id("hold_down_locked_path")),
                Flag("cooldown_active"), U64("cooldown_remaining"),
                Number("dampening_penalty", 4, 0, Limits.max_dampening_penalty),
                U64("dampening_decay_remaining"),
                ListOf("churn_ages", U64(""), Limits.max_adaptations_per_window) >>, "timing")

StoreHistory ==
  WrittenRecord(<< Id("policy"), Id("decision"), Enum("lifecycle", 1, 9), Number("outcome", 2, 1, 46),
                   Enum("suppression", 0, 20), Enum("cause", 1, 14), Maybe(Id("from_path")),
                   Maybe(Id("to_path")), U64("adaptation_generation"), U64("evidence_generation"),
                   U64("epoch"), Str("digest") >>, "none")

LoadHistory ==
  ReadRecord(<< Id("policy"), Id("decision"), Enum("lifecycle", 1, 9), Number("outcome", 2, 1, 46),
                Enum("suppression", 0, 20), Enum("cause", 1, 14), Maybe(Id("from_path")),
                Maybe(Id("to_path")), U64("adaptation_generation"), U64("evidence_generation"),
                U64("epoch"), Str("digest") >>, "none")

-----------------------------------------------------------------------------
(* The store                                                                *)

\* encode_durable_state
StoreState ==
  Struct("",
    << Gen("epoch"), Gen("authority_generation"), Gen("evidence_generation"),
       U64("evidence_watermark"), U64("upstream_watermark"), Unbounded("policies", StorePolicy),
       Unbounded("revocations", StoreRevocation), Unbounded("preferences", StorePreference),
       Unbounded("stable_states", StoreStable), Unbounded("timings", StoreTiming),
       Unbounded("history", StoreHistory) >>, "store")

\* decode_durable_state
LoadState ==
  Struct("",
    << Gen("epoch"), Gen("authority_generation"), Gen("evidence_generation"),
       U64("evidence_watermark"), U64("upstream_watermark"),
       ListOf("policies", LoadPolicy, Limits.max_policies),
       ListOf("revocations", LoadRevocation, Limits.max_revocations),
       ListOf("preferences", LoadPreference, Limits.max_policies),
       ListOf("stable_states", LoadStable, Limits.max_policies),
       ListOf("timings", LoadTiming, Limits.max_policies),
       ListOf("history", LoadHistory, Limits.max_decision_history) >>, "store")

StoreMagic == 2
StoreVersion == 1

EncodeStore(state) ==
  LET covered == << <<4, StoreMagic>>, <<4, StoreVersion>> >> \o Put(StoreState, state)
  IN  Append(covered, Digest(covered))

Unread(status) == [status |-> status, state |-> <<>>]

\* decode_durable_state, in the order of its tests.
DecodeStore(cells) ==
  IF cells = <<>> THEN Unread("EMPTY")
  ELSE IF Bytes(cells) > Limits.max_store_bytes THEN Unread("TOO_LARGE")
  ELSE IF Bytes(cells) < 16 THEN Unread("TRUNCATED")
  ELSE IF cells[1][2] # StoreMagic THEN Unread("BAD_MAGIC")
  ELSE IF cells[2][2] # StoreVersion THEN Unread("BAD_VERSION")
  ELSE IF ~Sealed(cells) THEN Unread("INTEGRITY")
  ELSE LET read == Decode(LoadState, SubSeq(cells, 3, Len(cells) - 1))
       IN  IF read.ok THEN [status |-> "OK", state |-> read.value] ELSE Unread("REFUSED")
=============================================================================
