----------------------------- MODULE WireFormat ------------------------------
(***************************************************************************)
(* The messages of wire.cpp and the frame around them.  Every Put... is    *)
(* the layout of an encoder, every Get... that of the decoder which reads  *)
(* what the encoder wrote; each is taken from its own lines of the code.   *)
(* MessageLayout pairs them.  The bounds in a Put... are the domain of the *)
(* member's type; an encoder tests none of them.                           *)
(***************************************************************************)
EXTENDS Codec

Kind(name)        == Enum(name, 1, 10)
Quality(name)     == Enum(name, 1, 4)
Suppression(name) == Enum(name, 0, 20)
Outcome(name)     == Number(name, 2, 1, 46)

\* The members of an embedded structure, under a name of its own.
Nested(name, layout) == Struct(name, layout, "none")

-----------------------------------------------------------------------------
(* Elements                                                                 *)

PutContext == << Gen("epoch"), Id("publisher"), Id("worker_boot"), Id("session"), Id("attempt"),
                 Maybe(Gen("expected_policy_generation")),
                 Maybe(Gen("expected_evidence_generation")) >>
GetContext == << Gen("epoch"), Id("publisher"), Id("worker_boot"), Id("session"), Id("attempt"),
                 Maybe(Gen("expected_policy_generation")),
                 Maybe(Gen("expected_evidence_generation")) >>

PutScope(name) == Struct(name, << Id("fabric"), Id("name_space"), Maybe(Id("site")),
                                  Maybe(Id("path_class")), Ids("routes"), Ids("multipath_sets") >>,
                         "scope")
GetScope(name) == Struct(name, << Id("fabric"), Id("name_space"), Maybe(Id("site")),
                                  Maybe(Id("path_class")), Ids("routes"), Ids("multipath_sets") >>,
                         "scope")

PutAuthorityScope(name) ==
  Struct(name, << Id("fabric"), Id("name_space"), Ids("routes"), Ids("multipath_sets") >>, "scope")
GetAuthorityScope(name) ==
  Struct(name, << Id("fabric"), Id("name_space"), Ids("routes"), Ids("multipath_sets") >>, "scope")

\* An invalid metric value is written as a single absent flag.
PutMetric(name) ==
  Maybe(Struct(name, << Kind("kind"), Enum("unit", 1, 5), U32("version"), U64("value") >>, "metric"))
GetMetric(name) ==
  Maybe(Struct(name, << Kind("kind"), Enum("unit", 1, 5), U32("version"), U64("value") >>, "metric"))

PutRequirement ==
  Struct("", << Kind("kind"), Enum("aggregation", 1, 6), U32("ewma_alpha_bps"), U32("min_samples"),
                U64("max_age"), U64("min_window"), Quality("min_quality"), Flag("required") >>,
         "requirement")
GetRequirement ==
  Struct("", << Kind("kind"), Enum("aggregation", 1, 6), U32("ewma_alpha_bps"), U32("min_samples"),
                U64("max_age"), U64("min_window"), Quality("min_quality"), Flag("required") >>,
         "requirement")

PutDampening ==
  Nested("dampening", << Flag("enabled"), U32("penalty_increment"), U32("max_penalty"),
                         U64("penalty_decay_interval"), U32("penalty_decay_step"),
                         U64("hold_down_escalation_step"), U64("max_effective_hold_down") >>)

PutEmergency ==
  Nested("emergency", << Flag("enabled"), Flag("on_current_path_unauthorized"),
                         Flag("on_current_path_unavailable"), Flag("on_hard_failure_signal") >>)

PutSemantics ==
  Struct("semantics",
    << U32("semantics_version"),
       Nested("target", << Id("route"), Maybe(Id("multipath_set")) >>),
       Several("thresholds", Nested("", << Kind("kind"), PutMetric("switch_value"),
                                           PutMetric("clear_value") >>)),
       Several("improvements", Nested("", << Kind("kind"), U32("switch_improvement_bps"),
                                             U32("reverse_improvement_bps") >>)),
       Several("evidence", PutRequirement),
       U64("hold_down"), U64("cooldown"), PutDampening,
       Nested("churn", << U32("max_adaptations_per_window"), U64("window") >>),
       Nested("objective", << Enum("mode", 1, 2), U32("scoring_version"),
                              Several("terms", Nested("", << Kind("kind"), U32("weight_bps") >>)) >>),
       PutEmergency,
       Several("priorities", Nested("", << Id("path"), U32("priority") >>)) >>,
    "semantics")

\* decode_semantics_body reads the same members one by one, and decode_semantics
\* tests the version and valid() once all are read.
GetSemantics ==
  Struct("semantics",
    << U32("semantics_version"),
       Nested("target", << Id("route"), Maybe(Id("multipath_set")) >>),
       Several("thresholds", Nested("", << Kind("kind"), GetMetric("switch_value"),
                                           GetMetric("clear_value") >>)),
       Several("improvements", Nested("", << Kind("kind"), U32("switch_improvement_bps"),
                                             U32("reverse_improvement_bps") >>)),
       Several("evidence", GetRequirement),
       U64("hold_down"), U64("cooldown"),
       Nested("dampening", << Flag("enabled"), U32("penalty_increment"), U32("max_penalty"),
                              U64("penalty_decay_interval"), U32("penalty_decay_step"),
                              U64("hold_down_escalation_step"), U64("max_effective_hold_down") >>),
       Nested("churn", << U32("max_adaptations_per_window"), U64("window") >>),
       Nested("objective", << Enum("mode", 1, 2), U32("scoring_version"),
                              Several("terms", Nested("", << Kind("kind"), U32("weight_bps") >>)) >>),
       Nested("emergency", << Flag("enabled"), Flag("on_current_path_unauthorized"),
                              Flag("on_current_path_unavailable"), Flag("on_hard_failure_signal") >>),
       Several("priorities", Nested("", << Id("path"), U32("priority") >>)) >>,
    "semantics")

PutPathAuthority ==
  Nested("path_authority", << Id("path"), Gen("generation"), Flag("legal"), Str("denial_reason") >>)
GetPathAuthority ==
  Nested("path_authority", << Id("path"), Gen("generation"), Flag("legal"), Str("denial_reason") >>)

PutBinding ==
  Struct("binding",
    << Id("path"), PutPathAuthority,
       Maybe(Nested("multipath", << Id("set"), Gen("generation"), Flag("current"), Ids("members") >>)),
       Nested("route", << Id("route"), Gen("generation"), Maybe(Id("site")), Flag("current"),
                          Str("state") >>),
       Maybe(Nested("weighted", << Id("set"), Gen("generation"), Flag("current") >>)),
       Maybe(Id("path_class")), Flag("available"), Flag("hard_failure") >>,
    "binding")

GetBinding ==
  Struct("binding",
    << Id("path"), GetPathAuthority,
       Maybe(Nested("multipath", << Id("set"), Gen("generation"), Flag("current"), Ids("members") >>)),
       Nested("route", << Id("route"), Gen("generation"), Maybe(Id("site")), Flag("current"),
                          Str("state") >>),
       Maybe(Nested("weighted", << Id("set"), Gen("generation"), Flag("current") >>)),
       Maybe(Id("path_class")), Flag("available"), Flag("hard_failure") >>,
    "binding")

PutPublication ==
  Struct("", << Id("source"), Gen("source_generation"), Quality("quality"), Id("path"),
                PutMetric("value"), U64("observation_sequence") >>, "publication")
GetPublication ==
  Struct("", << Id("source"), Gen("source_generation"), Quality("quality"), Id("path"),
                GetMetric("value"), U64("observation_sequence") >>, "publication")

PutNotification ==
  Nested("", << Enum("event", 1, 12), Id("policy"), PutBinding,
                Nested("provenance", << Id("publisher"), Id("worker_boot"), Gen("epoch"),
                                        Id("attempt"), Str("origin") >>),
                Maybe(U64("expected_previous_generation")) >>)
GetNotification ==
  Nested("", << Enum("event", 1, 12), Id("policy"), GetBinding,
                Nested("provenance", << Id("publisher"), Id("worker_boot"), Gen("epoch"),
                                        Id("attempt"), Str("origin") >>),
                Maybe(U64("expected_previous_generation")) >>)

PutCandidateEvaluation ==
  Nested("", << Id("path"), Flag("eligible"), Suppression("rejection"), Outcome("rejection_outcome"),
                Quality("quality"), Maybe(U64("score")), Several("metrics", PutMetric("")),
                U32("priority"), Flag("current_preference"), Flag("previous_preference"),
                U32("required_improvement_bps"), Maybe(U32("observed_improvement_bps")),
                Maybe(Gen("path_authority_generation")), Maybe(Gen("route_generation")),
                Maybe(Gen("multipath_set_generation")) >>)
GetCandidateEvaluation ==
  Nested("", << Id("path"), Flag("eligible"), Suppression("rejection"), Outcome("rejection_outcome"),
                Quality("quality"), Maybe(U64("score")), Several("metrics", GetMetric("")),
                U32("priority"), Flag("current_preference"), Flag("previous_preference"),
                U32("required_improvement_bps"), Maybe(U32("observed_improvement_bps")),
                Maybe(Gen("path_authority_generation")), Maybe(Gen("route_generation")),
                Maybe(Gen("multipath_set_generation")) >>)

PutWeightProposal ==
  Struct("weight_proposal",
         << Id("set"), Gen("base_generation"),
            Several("weights", Nested("", << Id("path"), U32("weight_bps") >>)) >>, "proposal")

PutDependencies ==
  << Id("evaluation"), Id("policy"), Gen("policy_generation"), Gen("evidence_generation"),
     U64("evidence_watermark"), U64("upstream_watermark"), Gen("epoch"), Gen("authority_generation"),
     Maybe(Gen("route_generation")), Maybe(Id("multipath_set")),
     Maybe(Gen("multipath_set_generation")), Several("candidate_path_authority", PutPathAuthority),
     Several("candidate_path_watermarks", U64("")), Ids("candidates"), U64("captured_at") >>

PutTicket ==
  PutDependencies \o
  << Enum("lifecycle", 1, 9), Maybe(Id("decision")), Maybe(Id("evidence_snapshot")),
     Outcome("outcome"), Suppression("suppression"), Str("detail"), Maybe(Id("current_preference")),
     Maybe(Id("target_preference")), Maybe(Gen("target_path_authority_generation")),
     Maybe(Gen("adaptation_generation")), Maybe(Gen("transition_generation")),
     Maybe(U64("target_score")), Maybe(U32("improvement_bps")), U32("required_improvement_bps"),
     Maybe(PutWeightProposal), Flag("rollback"), Flag("emergency"),
     Several("ranking", PutCandidateEvaluation), U64("evaluated_at") >>

GetTicket ==
  << Id("evaluation"), Id("policy"), Gen("policy_generation"), Gen("evidence_generation"),
     U64("evidence_watermark"), U64("upstream_watermark"), Gen("epoch"), Gen("authority_generation"),
     Maybe(Gen("route_generation")), Maybe(Id("multipath_set")),
     Maybe(Gen("multipath_set_generation")), Several("candidate_path_authority", GetPathAuthority),
     Several("candidate_path_watermarks", U64("")), Ids("candidates"), U64("captured_at"),
     Enum("lifecycle", 1, 9), Maybe(Id("decision")), Maybe(Id("evidence_snapshot")),
     Outcome("outcome"), Suppression("suppression"), Str("detail"), Maybe(Id("current_preference")),
     Maybe(Id("target_preference")), Maybe(Gen("target_path_authority_generation")),
     Maybe(Gen("adaptation_generation")), Maybe(Gen("transition_generation")),
     Maybe(U64("target_score")), Maybe(U32("improvement_bps")), U32("required_improvement_bps"),
     Maybe(Struct("weight_proposal",
                  << Id("set"), Gen("base_generation"),
                     Several("weights", Nested("", << Id("path"), U32("weight_bps") >>)) >>,
                  "proposal")),
     Flag("rollback"), Flag("emergency"), Several("ranking", GetCandidateEvaluation),
     U64("evaluated_at") >>

-----------------------------------------------------------------------------
(* Messages                                                                 *)

PutHello == << U16("wire_version"), Str("product"), Gen("epoch"), Gen("authority_generation") >>
GetHello == << U16("wire_version"), Str("product"), Gen("epoch"), Gen("authority_generation") >>

PutRegisterPublisher == << Id("publisher"), Id("worker_boot"), PutAuthorityScope("scope") >>
GetRegisterPublisher == << Id("publisher"), Id("worker_boot"), GetAuthorityScope("scope") >>

PutFenceNotice == << Id("publisher"), Id("worker_boot"), Str("cause") >>
GetFenceNotice == << Id("publisher"), Id("worker_boot"), Str("cause") >>

PutCreatePolicy == << Id("name"), PutScope("scope"), PutSemantics >>
GetCreatePolicy == << Id("name"), GetScope("scope"), GetSemantics >>

PutUpdatePolicy == << Id("policy"), PutScope("scope"), PutSemantics >>
GetUpdatePolicy == << Id("policy"), GetScope("scope"), GetSemantics >>

PutPolicyLifecycle == << Id("policy"), Enum("event", 1, 8), Str("detail") >>
GetPolicyLifecycle == << Id("policy"), Enum("event", 1, 8), Str("detail") >>

PutRevokePolicy == << Id("policy"), Enum("reason", 1, 5), Str("detail") >>
GetRevokePolicy == << Id("policy"), Enum("reason", 1, 5), Str("detail") >>

PutUpstreamNotify == << Several("notifications", PutNotification) >>
GetUpstreamNotify == << Several("notifications", GetNotification) >>

PutPublishEvidence == << Several("publications", PutPublication) >>
GetPublishEvidence == << Several("publications", GetPublication) >>

PutEvaluate == << Id("policy"), Flag("defer_commit") >>
GetEvaluate == << Id("policy"), Flag("defer_commit") >>

PutRevalidate == << Id("policy"), Id("attempt") >>
GetRevalidate == << Id("policy"), Id("attempt") >>

PutRollback == << Id("policy"), Str("reason") >>
GetRollback == << Id("policy"), Str("reason") >>

PutQueryState == << Maybe(Id("policy")), U64("limit") >>
GetQueryState == << Maybe(Id("policy")), U64("limit") >>

PutSnapshotRequest == << Id("policy") >>
GetSnapshotRequest == << Id("policy") >>

PutSnapshotResponse == << Id("snapshot"), Id("policy"), Str("digest"), Str("rendered") >>
GetSnapshotResponse == << Id("snapshot"), Id("policy"), Str("digest"), Str("rendered") >>

PutExplainRequest == << Enum("topic", 1, 12), Id("policy") >>
GetExplainRequest == << Enum("topic", 1, 12), Id("policy") >>

PutDiffRequest == << Id("policy"), Id("from"), Id("to") >>

\* Seeded fault: the two snapshots are read in each other's place.
GetDiffRequestSwapped == << Id("policy"), Id("to"), Id("from") >>

GetDiffRequest == << Id("policy"), Id("from"), Id("to") >>

PutAdvanceEpoch == << Str("reason") >>
GetAdvanceEpoch == << Str("reason") >>

PutResult ==
  << Outcome("outcome"), Suppression("suppression"), Str("detail"), Maybe(Id("policy")),
     Maybe(Gen("policy_generation")), Maybe(Id("decision")), Maybe(Gen("adaptation_generation")),
     Maybe(Gen("transition_generation")), Maybe(Gen("evidence_generation")), Maybe(Gen("epoch")),
     Str("rendered") >>
GetResult ==
  << Outcome("outcome"), Suppression("suppression"), Str("detail"), Maybe(Id("policy")),
     Maybe(Gen("policy_generation")), Maybe(Id("decision")), Maybe(Gen("adaptation_generation")),
     Maybe(Gen("transition_generation")), Maybe(Gen("evidence_generation")), Maybe(Gen("epoch")),
     Str("rendered") >>

PutError == << Outcome("outcome"), Str("detail") >>
GetError == << Outcome("outcome"), Str("detail") >>

\* A message identifier with the layouts of its payload; BYE has none.
Message(id, put, get) == [id |-> id, put |-> Nested("", put), get |-> Nested("", get)]

MessageId ==
  [HELLO              |-> Message(1, PutHello, GetHello),
   HELLO_ACK          |-> Message(2, PutHello, GetHello),
   REGISTER_PUBLISHER |-> Message(3, PutRegisterPublisher, GetRegisterPublisher),
   FENCE_NOTICE       |-> Message(4, PutFenceNotice, GetFenceNotice),
   CREATE_POLICY      |-> Message(5, PutCreatePolicy, GetCreatePolicy),
   UPDATE_POLICY      |-> Message(6, PutUpdatePolicy, GetUpdatePolicy),
   POLICY_LIFECYCLE   |-> Message(7, PutPolicyLifecycle, GetPolicyLifecycle),
   REVOKE_POLICY      |-> Message(8, PutRevokePolicy, GetRevokePolicy),
   UPSTREAM_NOTIFY    |-> Message(9, PutUpstreamNotify, GetUpstreamNotify),
   PUBLISH_EVIDENCE   |-> Message(10, PutPublishEvidence, GetPublishEvidence),
   EVALUATE           |-> Message(11, PutEvaluate, GetEvaluate),
   COMMIT_DECISION    |-> Message(12, PutTicket, GetTicket),
   REVALIDATE         |-> Message(13, PutRevalidate, GetRevalidate),
   ROLLBACK           |-> Message(14, PutRollback, GetRollback),
   QUERY_STATE        |-> Message(15, PutQueryState, GetQueryState),
   SNAPSHOT_REQUEST   |-> Message(16, PutSnapshotRequest, GetSnapshotRequest),
   SNAPSHOT_RESPONSE  |-> Message(17, PutSnapshotResponse, GetSnapshotResponse),
   EXPLAIN_REQUEST    |-> Message(18, PutExplainRequest, GetExplainRequest),
   DIFF_REQUEST       |-> Message(19, PutDiffRequest, GetDiffRequest),
   ADVANCE_EPOCH      |-> Message(20, PutAdvanceEpoch, GetAdvanceEpoch),
   RESULT             |-> Message(21, PutResult, GetResult),
   ERROR              |-> Message(22, PutError, GetError),
   BYE                |-> Message(23, <<>>, <<>>)]

-----------------------------------------------------------------------------
(* Frames: seven cells of header (32 bytes), the payload, 8 bytes of        *)
(* integrity.                                                               *)

CONSTANT MaxFrame   \* max_frame_bytes

ASSUME MaxFrameAssumption == MaxFrame \in Nat

FrameHeader == 32
FrameTrailer == 8
Magic == 1
WireVersion == 1

Header(id, length, sequence, epoch) ==
  << <<4, Magic>>, <<2, WireVersion>>, <<2, id>>, <<4, 0>>, <<4, length>>, <<8, sequence>>,
     <<8, epoch>> >>

\* encode_frame; <<>> when it refuses.
EncodeFrame(id, sequence, epoch, payload) ==
  LET covered == Header(id, Bytes(payload), sequence, epoch) \o payload
  IN  IF id \in 1..23 /\ epoch > 0 /\ FrameHeader + Bytes(payload) + FrameTrailer <= MaxFrame
      THEN Append(covered, Digest(covered))
      ELSE <<>>

NoFrame(status) == [status |-> status, id |-> 0, sequence |-> 0, epoch |-> 0, payload |-> <<>>,
                    consumed |-> 0]

MaximumPayload == Max({0, MaxFrame - (FrameHeader + FrameTrailer)})

HeaderField(buffer, i) == buffer[i][2]

\* Seeded fault: a frame is tested before it is there as a whole.
DecodeFrameEagerly(buffer) ==
  IF Bytes(buffer) >= FrameHeader /\ ~Sealed(buffer) THEN NoFrame("INTEGRITY")
  ELSE NoFrame("INCOMPLETE")

\* decode_frame, in the order of its tests.
DecodeFrame(buffer) ==
  LET length == HeaderField(buffer, 5)
      end == EndOf(buffer, 1, FrameHeader + length)
  IN  IF Bytes(buffer) < FrameHeader THEN NoFrame("INCOMPLETE")
      ELSE IF HeaderField(buffer, 1) # Magic THEN NoFrame("BAD_MAGIC")
      ELSE IF HeaderField(buffer, 2) # WireVersion THEN NoFrame("BAD_VERSION")
      ELSE IF HeaderField(buffer, 3) \notin 1..23 THEN NoFrame("BAD_MESSAGE_ID")
      ELSE IF length > MaximumPayload THEN NoFrame("TOO_LARGE")
      ELSE IF Bytes(buffer) < FrameHeader + length + FrameTrailer THEN NoFrame("INCOMPLETE")
      ELSE IF end = 0 \/ ~Sealed(SubSeq(buffer, 1, end)) THEN NoFrame("INTEGRITY")
      ELSE IF HeaderField(buffer, 7) = 0 THEN NoFrame("MALFORMED")
      ELSE [status |-> "OK", id |-> HeaderField(buffer, 3), sequence |-> HeaderField(buffer, 6),
            epoch |-> HeaderField(buffer, 7), payload |-> SubSeq(buffer, 8, end - 1),
            consumed |-> end]
=============================================================================
