-------------------------- MODULE AdaptationProofs --------------------------
(***************************************************************************)
(* Theorems about the decision engine, for every value of its constants.   *)
(***************************************************************************)
EXTENDS AdaptationProperties, TLAPS, FiniteSetTheorems, SequenceTheorems

-----------------------------------------------------------------------------
(* Operators *)

\* Pruning a deque from the front keeps the type of its elements.
LEMMA CappedType ==
  ASSUME NEW S, NEW seq \in Seq(S), NEW limit \in Nat
  PROVE  Capped(seq, limit) \in Seq(S)
<1>1. CASE Len(seq) <= limit
  BY <1>1 DEF Capped
<1>2. CASE ~(Len(seq) <= limit)
  <2>1. Len(seq) \in Nat /\ Len(seq) - limit + 1 \in 1 .. Len(seq) + 1
    BY <1>2, LenProperties
  <2>2. SubSeq(seq, Len(seq) - limit + 1, Len(seq)) \in Seq(S)
    BY <2>1, SubSeqProperties
  <2> QED
    BY <1>2, <2>2 DEF Capped
<1> QED
  BY <1>1, <1>2

\* Every policy carries semantics that PolicySemantics::valid accepts.
LEMMA SemanticsType ==
  ASSUME TypeOK, NEW p \in Policies
  PROVE  semantics[p] \in PolicySemantics /\ ValidSemantics(semantics[p])
BY SemanticsAssumption DEF TypeOK

\* The best candidate is an eligible path, or there is none.
LEMMA BestType ==
  ASSUME NEW p \in Policies
  PROVE  Best(p) \in EligiblePaths(p) \union {NoPath}
BY DEF Best

LEMMA EligibleType ==
  ASSUME NEW p \in Policies
  PROVE  EligiblePaths(p) \subseteq Paths
BY DEF EligiblePaths

\* The effective hold-down is a number of ticks.
LEMMA EffectiveHoldDownType ==
  ASSUME NEW s \in PolicySemantics, NEW penalty \in Nat
  PROVE  EffectiveHoldDown(s, penalty) \in Nat
<1>1. s.holdDown \in Nat /\ s.step \in Nat /\ s.cap \in Nat
  BY DEF PolicySemantics
<1>2. penalty * s.step \in Nat
  BY <1>1
<1> QED
  BY <1>1, <1>2 DEF EffectiveHoldDown, Lesser

-----------------------------------------------------------------------------
(* Types: every action preserves them *)

LEMMA InitType == Init => TypeOK
<1> SUFFICES ASSUME Init PROVE TypeOK
  OBVIOUS
<1>1. (CHOOSE s \in Semantics : TRUE) \in Semantics
  BY SemanticsAssumption
<1>2. NoEvidence \in EvidenceRecord
  BY DEF NoEvidence, EvidenceRecord
<1>3. NoCandidate \in CandidateRecord
  BY DEF NoCandidate, NoBinding, CandidateRecord, CandidateBinding
<1>4. NoPreference \in RoutingPreference
  BY DEF NoPreference, RoutingPreference, Causes
<1>5. NoStable \in StableState
  BY DEF NoStable, StableState
<1>6. NoTiming \in TimingState
  BY EmptySeq DEF NoTiming, TimingState
<1>7. <<>> \in Seq(AdaptationRecord)
  BY EmptySeq
<1>8. Absent \in PolicyLifecycle \union {Absent}
  OBVIOUS
<1> QED
  BY <1>1, <1>2, <1>3, <1>4, <1>5, <1>6, <1>7, <1>8 DEF Init, TypeOK

LEMMA EvaluationTicketType ==
  ASSUME TypeOK, NEW p \in Policies
  PROVE  /\ EvaluationTicket(p) \in Ticket
         /\ EvaluationTicket(p).eligible => EvaluationTicket(p).target \in Paths
<1> DEFINE x == Best(p)
<1>1. x \in Paths \union {NoPath}
  BY BestType, EligibleType
<1>2. Committable(p, x) \in BOOLEAN /\ (Committable(p, x) => x # NoPath)
  BY DEF Committable
<1>3. (x # NoPath /\ EmergencyHolds(p)) \in BOOLEAN
  OBVIOUS
<1>4. WeightProposal(p, x) \in Paths \union {NoPath}
  BY <1>1 DEF WeightProposal
<1>5. generation[p] \in Nat /\ candidates[p] \in [Paths -> CandidateRecord]
  BY DEF TypeOK
<1>6. /\ preference[p].path \in Paths \union {NoPath}
      /\ preference[p].adaptation \in Nat
  BY DEF TypeOK, RoutingPreference
<1>7. /\ evidenceGeneration \in Nat /\ evidenceWatermark \in Nat
      /\ epoch \in Nat /\ authority \in Nat
      /\ evidence \in [Paths -> EvidenceRecord]
  BY DEF TypeOK
<1> HIDE DEF x
<1>8. [policy |-> p, policyGeneration |-> generation[p],
       evidenceGeneration |-> evidenceGeneration,
       evidenceWatermark |-> evidenceWatermark,
       epoch |-> epoch, authority |-> authority,
       candidates |-> candidates[p], evidence |-> evidence,
       eligible |-> Committable(p, x),
       emergency |-> x # NoPath /\ EmergencyHolds(p),
       current |-> preference[p].path,
       target |-> IF preference[p].established \/ Committable(p, x) THEN x ELSE NoPath,
       adaptation |-> preference[p].adaptation,
       weighted |-> WeightProposal(p, x)] \in Ticket
  BY <1>1, <1>2, <1>3, <1>4, <1>5, <1>6, <1>7 DEF Ticket
<1> QED
  BY <1>1, <1>2, <1>8 DEF EvaluationTicket, x

LEMMA BeginEvaluationType ==
  ASSUME TypeOK, NEW p \in Policies, BeginEvaluation(p)
  PROVE  TypeOK'
<1>1. tickets' = tickets \union {EvaluationTicket(p)}
  BY DEF BeginEvaluation
<1>2. /\ tickets' \subseteq Ticket
      /\ \A t \in tickets' : t.eligible => t.target \in Paths
  BY <1>1, EvaluationTicketType DEF TypeOK
<1> QED
  BY <1>2 DEF BeginEvaluation, TypeOK, evidenceVars, policyVars, bindingVars,
              recordVars

LEMMA DropTicketType ==
  ASSUME TypeOK, NEW t \in tickets, DropTicket(t)
  PROVE  TypeOK'
BY DEF DropTicket, TypeOK, evidenceVars, policyVars, bindingVars, recordVars

LEMMA InstalledType ==
  ASSUME TypeOK, NEW p \in Policies, NEW x \in Paths, NEW cause \in Causes,
         NEW weighted \in Paths \union {NoPath}
  PROVE  Installed(p, x, cause, weighted) \in RoutingPreference
<1>1. preference[p] \in RoutingPreference /\ generation[p] \in Nat
  BY DEF TypeOK
<1>2. candidates[p][x].binding.generation \in Nat
  BY DEF TypeOK, CandidateRecord, CandidateBinding
<1>3. epoch \in Nat /\ now \in Nat
  BY DEF TypeOK
<1>4. (IF preference[p].established THEN preference[p].path ELSE NoPath)
        \in Paths \union {NoPath}
  BY <1>1 DEF RoutingPreference
<1>5. preference[p].adaptation + 1 \in Nat /\ preference[p].transition + 1 \in Nat
  BY <1>1 DEF RoutingPreference
<1> QED
  BY <1>1, <1>2, <1>3, <1>4, <1>5 DEF Installed, RoutingPreference

LEMMA AnchorType ==
  ASSUME TypeOK, NEW p \in Policies
  PROVE  Anchor(p) \in StableState
<1>1. preference[p] \in RoutingPreference
  BY DEF TypeOK
<1> QED
  BY <1>1 DEF Anchor, RoutingPreference, StableState, NoStable

LEMMA ArmedTimingType ==
  ASSUME TypeOK, NEW p \in Policies
  PROVE  ArmedTiming(p) \in TimingState
<1> DEFINE s == semantics[p]
           penalty == IF s.dampening
                      THEN Lesser(s.maxPenalty, timing[p].penalty + s.increment)
                      ELSE timing[p].penalty
           holdDown == EffectiveHoldDown(s, penalty)
<1>1. s \in PolicySemantics
  BY SemanticsType
<1>2. timing[p] \in TimingState /\ now \in Nat
  BY DEF TypeOK
<1>3. penalty \in Nat
  <2>1. s.maxPenalty \in Nat /\ s.increment \in Nat
    BY <1>1 DEF PolicySemantics
  <2>2. timing[p].penalty \in Nat
    BY <1>2 DEF TimingState
  <2>3. timing[p].penalty + s.increment \in Nat
    BY <2>1, <2>2
  <2> QED
    BY <2>1, <2>2, <2>3 DEF Lesser
<1>4. holdDown \in Nat
  BY <1>1, <1>3, EffectiveHoldDownType
<1>5. Capped(Append(timing[p].churn, now), ChurnLimit) \in Seq(Nat)
  BY <1>2, CappedType, AppendProperties, LimitsAssumption DEF TimingState
<1>6. s.cooldown \in Nat
  BY <1>1 DEF PolicySemantics
<1> HIDE DEF s, penalty, holdDown
<1>7. [holdDownActive |-> holdDown # 0,
       holdDownDeadline |-> now + holdDown,
       cooldownActive |-> s.cooldown # 0,
       cooldownDeadline |-> now + s.cooldown,
       penalty |-> penalty,
       lastDecay |-> IF s.dampening THEN now ELSE timing[p].lastDecay,
       churn |-> Capped(Append(timing[p].churn, now), ChurnLimit)] \in TimingState
  BY <1>2, <1>3, <1>4, <1>5, <1>6 DEF TimingState
<1> QED
  BY <1>2, <1>7 DEF ArmedTiming, s, penalty, holdDown

LEMMA RollbackTimingType ==
  ASSUME TypeOK, NEW p \in Policies
  PROVE  RollbackTiming(p) \in TimingState
<1>1. /\ semantics[p].holdDown \in Nat
      /\ semantics[p].cooldown \in Nat
  BY SemanticsType DEF PolicySemantics
<1>2. timing[p] \in TimingState /\ now \in Nat
  BY DEF TypeOK
<1>3. Append(timing[p].churn, now) \in Seq(Nat)
  BY <1>2, AppendProperties DEF TimingState
<1>4. /\ (semantics[p].holdDown # 0) \in BOOLEAN
      /\ (semantics[p].cooldown # 0) \in BOOLEAN
      /\ now + semantics[p].holdDown \in Nat
      /\ now + semantics[p].cooldown \in Nat
  BY <1>1, <1>2
<1> QED
  BY <1>2, <1>3, <1>4 DEF RollbackTiming, TimingState

LEMMA RecordedType ==
  ASSUME TypeOK, NEW p \in Policies,
         NEW kind \in {"COMMITTED", "SUPPRESSED", "ROLLED_BACK"},
         NEW cause \in Causes, NEW from \in Paths \union {NoPath},
         NEW to \in Paths \union {NoPath}, NEW adaptation \in Nat
  PROVE  Recorded(p, kind, cause, from, to, adaptation) \in Seq(AdaptationRecord)
<1> DEFINE r == [kind |-> kind, cause |-> cause, from |-> from, to |-> to,
                 adaptation |-> adaptation, epoch |-> epoch, at |-> now]
<1>1. r \in AdaptationRecord
  BY DEF AdaptationRecord, TypeOK
<1>2. history[p] \in Seq(AdaptationRecord)
  BY DEF TypeOK
<1> HIDE DEF r
<1>3. Append(history[p], r) \in Seq(AdaptationRecord)
  BY <1>1, <1>2, AppendProperties
<1>4. Capped(Append(history[p], r), HistoryLimit) \in Seq(AdaptationRecord)
  BY <1>3, CappedType, LimitsAssumption
<1> QED
  BY <1>4 DEF Recorded, r

\* A function updated at p with a value of its range type keeps its type.
LEMMA UpdateType ==
  ASSUME NEW D, NEW R, NEW f \in [D -> R], NEW p \in D, NEW v \in R
  PROVE  [f EXCEPT ![p] = v] \in [D -> R]
OBVIOUS

LEMMA CommitEvaluationType ==
  ASSUME TypeOK, NEW t \in tickets, CommitEvaluation(t)
  PROVE  TypeOK'
<1> DEFINE p == t.policy
           cause == IF t.emergency THEN "EMERGENCY_OVERRIDE" ELSE "TRIGGER_SATISFIED"
<1>1. p \in Policies /\ t.target \in Paths /\ t.weighted \in Paths \union {NoPath}
  <2>1. t \in Ticket /\ (t.eligible => t.target \in Paths) /\ t.eligible
    BY DEF TypeOK, CommitEvaluation
  <2> QED
    BY <2>1 DEF Ticket
<1>2. cause \in Causes
  BY DEF Causes
<1>3. preference[p].path \in Paths \union {NoPath} /\ preference[p].adaptation + 1 \in Nat
  BY <1>1 DEF TypeOK, RoutingPreference
<1> HIDE DEF p, cause
<1>4. Installed(p, t.target, cause, t.weighted) \in RoutingPreference
  BY <1>1, <1>2, InstalledType
<1>5. Anchor(p) \in StableState /\ ArmedTiming(p) \in TimingState
  BY <1>1, AnchorType, ArmedTimingType
<1>6. Recorded(p, "COMMITTED", cause, preference[p].path, t.target,
               preference[p].adaptation + 1) \in Seq(AdaptationRecord)
  BY <1>1, <1>2, <1>3, RecordedType
<1>7. /\ preference' = [preference EXCEPT ![p] = Installed(p, t.target, cause, t.weighted)]
      /\ stable' = [stable EXCEPT ![p] = Anchor(p)]
      /\ timing' = [timing EXCEPT ![p] = ArmedTiming(p)]
      /\ history' = [history EXCEPT ![p] =
           Recorded(p, "COMMITTED", cause, preference[p].path, t.target,
                    preference[p].adaptation + 1)]
      /\ UNCHANGED <<now, epoch, authority, evidenceVars, policyVars, bindingVars,
                     tickets>>
  BY DEF CommitEvaluation, p, cause
<1>8. /\ preference' \in [Policies -> RoutingPreference]
      /\ stable' \in [Policies -> StableState]
      /\ timing' \in [Policies -> TimingState]
      /\ history' \in [Policies -> Seq(AdaptationRecord)]
  BY <1>1, <1>4, <1>5, <1>6, <1>7, UpdateType DEF TypeOK
<1> QED
  BY <1>7, <1>8 DEF TypeOK, evidenceVars, policyVars, bindingVars

LEMMA CommitSuppressedType ==
  ASSUME TypeOK, NEW t \in tickets, CommitSuppressed(t)
  PROVE  TypeOK'
<1> DEFINE p == t.policy
           r == Recorded(p, "SUPPRESSED", "TRIGGER_SATISFIED", preference[p].path,
                         t.target, preference[p].adaptation)
<1>1. p \in Policies /\ t.target \in Paths \union {NoPath}
  BY DEF TypeOK, Ticket
<1>2. preference[p].path \in Paths \union {NoPath} /\ preference[p].adaptation \in Nat
  BY <1>1 DEF TypeOK, RoutingPreference
<1>3. history' = [history EXCEPT ![p] = r]
  BY DEF CommitSuppressed
<1> HIDE DEF p
<1>4. r \in Seq(AdaptationRecord)
  BY <1>1, <1>2, RecordedType DEF Causes
<1> HIDE DEF r
<1>5. history' \in [Policies -> Seq(AdaptationRecord)]
  BY <1>1, <1>3, <1>4, UpdateType DEF TypeOK
<1> QED
  BY <1>5 DEF CommitSuppressed, TypeOK, evidenceVars, policyVars, bindingVars

LEMMA RollbackType ==
  ASSUME TypeOK, NEW p \in Policies, Rollback(p), stable[p].path \in Paths
  PROVE  TypeOK'
<1> DEFINE x == stable[p].path
           r == Recorded(p, "ROLLED_BACK", "ROLLBACK_REQUESTED", preference[p].path, x,
                         preference[p].adaptation + 1)
<1>1. /\ preference[p].path \in Paths \union {NoPath}
      /\ preference[p].weighted \in Paths \union {NoPath}
      /\ preference[p].adaptation + 1 \in Nat
  BY DEF TypeOK, RoutingPreference
<1>2. Installed(p, x, "ROLLBACK_REQUESTED", preference[p].weighted) \in RoutingPreference
  BY <1>1, InstalledType DEF Causes
<1>3. Anchor(p) \in StableState /\ RollbackTiming(p) \in TimingState
  BY AnchorType, RollbackTimingType
<1>4. r \in Seq(AdaptationRecord)
  BY <1>1, RecordedType DEF Causes
<1>5. /\ preference' = [preference EXCEPT ![p] =
           Installed(p, x, "ROLLBACK_REQUESTED", preference[p].weighted)]
      /\ stable' = [stable EXCEPT ![p] = Anchor(p)]
      /\ timing' = [timing EXCEPT ![p] = RollbackTiming(p)]
      /\ history' = [history EXCEPT ![p] = r]
      /\ UNCHANGED <<now, epoch, authority, evidenceVars, policyVars, bindingVars,
                     tickets>>
  BY DEF Rollback
<1> HIDE DEF x, r
<1>6. /\ preference' \in [Policies -> RoutingPreference]
      /\ stable' \in [Policies -> StableState]
      /\ timing' \in [Policies -> TimingState]
      /\ history' \in [Policies -> Seq(AdaptationRecord)]
  BY <1>2, <1>3, <1>4, <1>5, UpdateType DEF TypeOK
<1> QED
  BY <1>5, <1>6 DEF TypeOK, evidenceVars, policyVars, bindingVars

LEMMA IndexType ==
  ASSUME NEW index \in [Paths -> SUBSET Policies], NEW p \in Policies,
         NEW declared \in SUBSET Paths
  PROVE  /\ Unindexed(index, p, declared) \in [Paths -> SUBSET Policies]
         /\ Reindexed(index, p, declared) \in [Paths -> SUBSET Policies]
BY DEF Unindexed, Reindexed

LEMMA CreatePolicyType ==
  ASSUME TypeOK, NEW p \in Policies, NEW s \in Semantics, CreatePolicy(p, s)
  PROVE  TypeOK'
<1>1. /\ lifecycle' \in [Policies -> PolicyLifecycle \union {Absent}]
      /\ generation' \in [Policies -> Nat]
      /\ semantics' \in [Policies -> Semantics]
  BY UpdateType DEF CreatePolicy, TypeOK, PolicyLifecycle
<1> QED
  BY <1>1 DEF CreatePolicy, TypeOK, evidenceVars, bindingVars, recordVars

LEMMA UpdatePolicyType ==
  ASSUME TypeOK, NEW p \in Policies, NEW s \in Semantics, UpdatePolicy(p, s)
  PROVE  TypeOK'
<1>1. /\ NoPreference \in RoutingPreference
      /\ NoStable \in StableState
      /\ NoTiming \in TimingState
      /\ [x \in Paths |-> NoCandidate] \in [Paths -> CandidateRecord]
  BY EmptySeq DEF NoPreference, RoutingPreference, Causes, NoStable, StableState, NoTiming,
         TimingState, NoCandidate, NoBinding, CandidateRecord, CandidateBinding
<1>2. /\ generation' \in [Policies -> Nat]
      /\ semantics' \in [Policies -> Semantics]
  BY DEF UpdatePolicy, TypeOK
<1>3. candidates' \in [Policies -> [Paths -> CandidateRecord]]
  BY <1>1 DEF UpdatePolicy, TypeOK
<1>4. policiesByPath' \in [Paths -> SUBSET Policies]
  <2>1. DeclaredPaths(candidates[p]) \subseteq Paths
    BY DEF DeclaredPaths
  <2>2. PICK kept \in SUBSET Paths :
          policiesByPath' = Reindexed(Unindexed(policiesByPath, p,
                                        DeclaredPaths(candidates[p])), p, kept)
    BY <2>1 DEF UpdatePolicy
  <2> QED
    BY <2>1, <2>2, IndexType DEF TypeOK
<1>5. /\ preference' \in [Policies -> RoutingPreference]
      /\ stable' \in [Policies -> StableState]
      /\ timing' \in [Policies -> TimingState]
  BY <1>1 DEF UpdatePolicy, TypeOK
<1> QED
  BY <1>2, <1>3, <1>4, <1>5 DEF UpdatePolicy, TypeOK, evidenceVars

LEMMA TransitionPolicyType ==
  ASSUME TypeOK, NEW p \in Policies, NEW event, TransitionPolicy(p, event)
  PROVE  TypeOK'
<1>1. PICK next \in PolicyTransition(lifecycle[p], event) :
        lifecycle' = [lifecycle EXCEPT ![p] = next]
  BY DEF TransitionPolicy
<1>2. next \in PolicyLifecycle
  BY <1>1 DEF PolicyTransition, PolicyLifecycle
<1>3. lifecycle' \in [Policies -> PolicyLifecycle \union {Absent}]
  BY <1>1, <1>2, UpdateType DEF TypeOK
<1> QED
  BY <1>3 DEF TransitionPolicy, TypeOK, evidenceVars, bindingVars, recordVars

LEMMA RevokePolicyType ==
  ASSUME TypeOK, NEW p \in Policies, RevokePolicy(p)
  PROVE  TypeOK'
BY DEF RevokePolicy, TypeOK, PolicyLifecycle, evidenceVars, bindingVars, recordVars

LEMMA PublishEvidenceType ==
  ASSUME TypeOK, NEW x \in Paths, NEW value \in Values, NEW quality \in Qualities,
         NEW newIncarnation \in BOOLEAN, PublishEvidence(x, value, quality, newIncarnation)
  PROVE  TypeOK'
<1>1. [known |-> TRUE, value |-> value, quality |-> quality, at |-> now] \in EvidenceRecord
  BY EvidenceAssumption DEF EvidenceRecord, TypeOK
<1>2. evidence' \in [Paths -> EvidenceRecord]
  BY <1>1, UpdateType DEF PublishEvidence, TypeOK
<1> QED
  BY <1>2 DEF PublishEvidence, TypeOK, policyVars, bindingVars, recordVars

LEMMA AdvanceEpochType ==
  ASSUME TypeOK, AdvanceEpoch
  PROVE  TypeOK'
<1>1. timing' \in [Policies -> TimingState]
  BY EmptySeq DEF AdvanceEpoch, TypeOK, TimingState
<1>2. lifecycle' \in [Policies -> PolicyLifecycle \union {Absent}]
  BY DEF AdvanceEpoch, TypeOK, PolicyLifecycle
<1>3. /\ epoch' \in Nat /\ authority' \in Nat
      /\ UNCHANGED <<now, evidenceVars, generation, semantics, revocations,
                     bindingVars, preference, stable, history, tickets>>
  <2>1. epoch \in Nat /\ authority \in Nat
    BY DEF TypeOK
  <2>2. /\ epoch' = epoch + 1 /\ authority' = authority + 1
        /\ UNCHANGED <<now, evidenceVars, generation, semantics, revocations,
                       bindingVars, preference, stable, history, tickets>>
    BY DEF AdvanceEpoch
  <2> QED
    BY <2>1, <2>2
<1> QED
  BY <1>1, <1>2, <1>3 DEF TypeOK, evidenceVars, bindingVars

LEMMA TickType ==
  ASSUME TypeOK, Tick
  PROVE  TypeOK'
BY DEF Tick, TypeOK, evidenceVars, policyVars, bindingVars, recordVars

LEMMA NotifiedCandidateType ==
  ASSUME NEW c \in CandidateRecord, NEW event \in AllEvents, NEW b \in CandidateBinding
  PROVE  NotifiedCandidate(c, event, b) \in CandidateRecord
<1>1. Rebound(c, event, b) \in CandidateBinding
  <2>1. c.binding \in CandidateBinding
    BY DEF CandidateRecord
  <2>2. CASE event \in {"DECLARE_CANDIDATE", "REDECLARE_CANDIDATE"}
    BY <2>2 DEF Rebound
  <2>3. CASE event = "ADVANCE_PATH_AUTHORITY"
    BY <2>1, <2>3 DEF Rebound, CandidateBinding
  <2>4. CASE event = "INVALIDATE_PATH"
    BY <2>1, <2>4 DEF Rebound, CandidateBinding
  <2>5. CASE event = "SET_MEMBERSHIP"
    BY <2>1, <2>5 DEF Rebound, CandidateBinding
  <2>6. CASE event = "INVALIDATE_MULTIPATH_SET"
    BY <2>1, <2>6 DEF Rebound, CandidateBinding
  <2>7. CASE event = "ADVANCE_ROUTE"
    BY <2>1, <2>7 DEF Rebound, CandidateBinding
  <2>8. CASE event = "INVALIDATE_ROUTE"
    BY <2>1, <2>8 DEF Rebound, CandidateBinding
  <2>9. CASE event = "ADVANCE_WEIGHT_POLICY"
    BY <2>1, <2>9 DEF Rebound, CandidateBinding
  <2>10. CASE event = "MARK_UNAVAILABLE"
    BY <2>1, <2>10 DEF Rebound, CandidateBinding
  <2>11. CASE event = "MARK_AVAILABLE"
    BY <2>1, <2>11 DEF Rebound, CandidateBinding
  <2>12. CASE event = "HARD_FAILURE_SIGNAL"
    BY <2>1, <2>12 DEF Rebound, CandidateBinding
  <2>13. CASE event = "CLEAR_HARD_FAILURE_SIGNAL"
    BY <2>1, <2>13 DEF Rebound, CandidateBinding
  <2> QED
    BY <2>2, <2>3, <2>4, <2>5, <2>6, <2>7, <2>8, <2>9, <2>10, <2>11, <2>12, <2>13 DEF AllEvents
<1> QED
  BY <1>1 DEF NotifiedCandidate, CandidateRecord

LEMMA InvalidatedType ==
  ASSUME NEW c \in [Policies -> [Paths -> CandidateRecord]], NEW x \in Paths
  PROVE  Invalidated(c, x) \in [Policies -> [Paths -> CandidateRecord]]
<1> SUFFICES ASSUME NEW p \in Policies
             PROVE  [c[p] EXCEPT ![x].watermark = @ + 1] \in [Paths -> CandidateRecord]
  BY DEF Invalidated
<1> QED
  BY DEF CandidateRecord

LEMMA ApplyUpstreamType ==
  ASSUME TypeOK, NEW p \in Policies, NEW x \in Paths, NEW event \in Events,
         NEW b \in Bindings, ApplyUpstream(p, x, event, b)
  PROVE  TypeOK'
<1> DEFINE notified == [candidates EXCEPT ![p][x] =
                          NotifiedCandidate(candidates[p][x], event, b)]
<1>1. NotifiedCandidate(candidates[p][x], event, b) \in CandidateRecord
  BY NotifiedCandidateType, EventsAssumption, BindingsAssumption DEF TypeOK
<1>2. notified \in [Policies -> [Paths -> CandidateRecord]]
  BY <1>1 DEF TypeOK
<1>3. candidates' = Invalidated(notified, x) \/ candidates' = notified
  BY DEF ApplyUpstream
<1>4. \/ policiesByPath' = policiesByPath
      \/ policiesByPath' = Reindexed(policiesByPath, p, DeclaredPaths(notified[p]))
  BY DEF ApplyUpstream
<1> HIDE DEF notified
<1>5. candidates' \in [Policies -> [Paths -> CandidateRecord]]
  BY <1>2, <1>3, InvalidatedType
<1>6. policiesByPath' \in [Paths -> SUBSET Policies]
  <2>1. DeclaredPaths(notified[p]) \in SUBSET Paths
    BY DEF DeclaredPaths
  <2>2. policiesByPath \in [Paths -> SUBSET Policies]
    BY DEF TypeOK
  <2>3. Reindexed(policiesByPath, p, DeclaredPaths(notified[p]))
          \in [Paths -> SUBSET Policies]
    BY <2>1, <2>2, IndexType
  <2> QED
    BY <1>4, <2>2, <2>3
<1> QED
  BY <1>5, <1>6 DEF ApplyUpstream, TypeOK, evidenceVars, policyVars, recordVars

-----------------------------------------------------------------------------
(* The rollback anchor *)

\* A preference is established exactly when it names a path.
EstablishedHasPath ==
  \A p \in Policies : preference[p].established <=> preference[p].path # NoPath

\* Inductive: a rollback is well typed only because its anchor is a path, and
\* the anchor is a path only because the preference it displaced named one.
CoreInv == TypeOK /\ AnchorIsDisplaced /\ EstablishedHasPath

\* A move to another path keeps the anchor one step behind the preference.
LEMMA MoveKeepsAnchor ==
  ASSUME CoreInv, NEW p \in Policies, NEW x \in Paths, NEW cause, NEW weighted,
         ~(preference[p].established /\ preference[p].path = x),
         preference' = [preference EXCEPT ![p] = Installed(p, x, cause, weighted)],
         stable' = [stable EXCEPT ![p] = Anchor(p)]
  PROVE  AnchorIsDisplaced' /\ EstablishedHasPath'
<1>1. /\ preference[p] \in RoutingPreference
      /\ preference \in [Policies -> RoutingPreference]
      /\ stable \in [Policies -> StableState]
  BY DEF CoreInv, TypeOK
<1>2. x # NoPath
  BY PathsAssumption
<1> SUFFICES ASSUME NEW q \in Policies
             PROVE  /\ stable'[q].established <=> preference'[q].previous # NoPath
                    /\ stable'[q].established =>
                         /\ preference'[q].established
                         /\ stable'[q].path = preference'[q].previous
                         /\ stable'[q].path # preference'[q].path
                         /\ stable'[q].adaptation + 1 = preference'[q].adaptation
                    /\ preference'[q].transition = preference'[q].adaptation
                    /\ preference'[q].established <=> preference'[q].path # NoPath
  BY DEF AnchorIsDisplaced, EstablishedHasPath
<1>3. CASE q # p
  BY <1>1, <1>3 DEF CoreInv, AnchorIsDisplaced, EstablishedHasPath
<1>4. CASE q = p
  <2>1. /\ preference'[q] = Installed(p, x, cause, weighted)
        /\ stable'[q] = Anchor(p)
    BY <1>1, <1>4
  <2>2. /\ preference[p].established <=> preference[p].path # NoPath
        /\ preference[p].transition = preference[p].adaptation
    BY DEF CoreInv, AnchorIsDisplaced, EstablishedHasPath
  <2>3. CASE preference[p].established
    BY <1>2, <2>1, <2>2, <2>3 DEF Installed, Anchor
  <2>4. CASE ~preference[p].established
    BY <1>2, <2>1, <2>2, <2>4 DEF Installed, Anchor, NoStable
  <2> QED
    BY <2>3, <2>4
<1> QED
  BY <1>3, <1>4

LEMMA CoreInit == Init => CoreInv
BY InitType DEF Init, CoreInv, AnchorIsDisplaced, EstablishedHasPath, NoPreference,
                NoStable

\* A commit names an eligible target, which is a path other than the current one.
LEMMA CommitCore ==
  ASSUME CoreInv, NEW t \in tickets, CommitEvaluation(t)
  PROVE  CoreInv'
<1>1. t.policy \in Policies /\ t.target \in Paths
  <2>1. t \in Ticket /\ (t.eligible => t.target \in Paths) /\ t.eligible
    BY DEF CoreInv, TypeOK, CommitEvaluation
  <2> QED
    BY <2>1 DEF Ticket
<1>2. TypeOK'
  BY CommitEvaluationType DEF CoreInv
<1>3. PICK cause :
        /\ preference' = [preference EXCEPT ![t.policy] =
                            Installed(t.policy, t.target, cause, t.weighted)]
        /\ stable' = [stable EXCEPT ![t.policy] = Anchor(t.policy)]
        /\ ~(preference[t.policy].established
               /\ preference[t.policy].path = t.target)
  BY DEF CommitEvaluation
<1> QED
  BY <1>1, <1>2, <1>3, MoveKeepsAnchor DEF CoreInv

LEMMA RollbackCore ==
  ASSUME CoreInv, NEW p \in Policies, Rollback(p)
  PROVE  CoreInv'
<1>1. stable[p].path \in Paths
  <2>1. stable[p].established /\ preference[p].previous \in Paths \union {NoPath}
    BY DEF CoreInv, Rollback, TypeOK, RoutingPreference
  <2> QED
    BY <2>1 DEF CoreInv, AnchorIsDisplaced
<1>2. TypeOK'
  BY <1>1, RollbackType DEF CoreInv
<1>3. /\ preference' = [preference EXCEPT ![p] =
           Installed(p, stable[p].path, "ROLLBACK_REQUESTED", preference[p].weighted)]
      /\ stable' = [stable EXCEPT ![p] = Anchor(p)]
      /\ ~(preference[p].established /\ preference[p].path = stable[p].path)
  BY DEF Rollback
<1> QED
  BY <1>1, <1>2, <1>3, MoveKeepsAnchor DEF CoreInv

LEMMA UpdatePolicyCore ==
  ASSUME CoreInv, NEW p \in Policies, NEW s \in Semantics, UpdatePolicy(p, s)
  PROVE  CoreInv'
<1>1. TypeOK'
  BY UpdatePolicyType DEF CoreInv
<1>2. \/ UNCHANGED <<preference, stable>>
      \/ /\ preference' = [preference EXCEPT ![p] = NoPreference]
         /\ stable' = [stable EXCEPT ![p] = NoStable]
  BY DEF UpdatePolicy
<1>3. /\ preference \in [Policies -> RoutingPreference]
      /\ stable \in [Policies -> StableState]
  BY DEF CoreInv, TypeOK
<1>4. AnchorIsDisplaced' /\ EstablishedHasPath'
  BY <1>2, <1>3 DEF CoreInv, AnchorIsDisplaced, EstablishedHasPath, NoPreference, NoStable
<1> QED
  BY <1>1, <1>4 DEF CoreInv

\* Every other action leaves preference and anchor alone.
LEMMA CoreFrame ==
  ASSUME CoreInv, TypeOK', UNCHANGED <<preference, stable>>
  PROVE  CoreInv'
BY DEF CoreInv, AnchorIsDisplaced, EstablishedHasPath

LEMMA CoreStep == CoreInv /\ [Next]_vars => CoreInv'
<1> SUFFICES ASSUME CoreInv, [Next]_vars PROVE CoreInv'
  OBVIOUS
<1> USE DEF CoreInv
<1>1. ASSUME NEW p \in Policies, NEW s \in Semantics, CreatePolicy(p, s)
      PROVE  CoreInv'
  BY <1>1, CreatePolicyType, CoreFrame DEF CreatePolicy, recordVars
<1>2. ASSUME NEW p \in Policies, NEW s \in Semantics, UpdatePolicy(p, s)
      PROVE  CoreInv'
  BY <1>2, UpdatePolicyCore
<1>3. ASSUME NEW p \in Policies, NEW event \in Operations, TransitionPolicy(p, event)
      PROVE  CoreInv'
  BY <1>3, TransitionPolicyType, CoreFrame DEF TransitionPolicy, recordVars
<1>4. ASSUME NEW p \in Policies, RevokePolicy(p)
      PROVE  CoreInv'
  BY <1>4, RevokePolicyType, CoreFrame DEF RevokePolicy, recordVars
<1>5. ASSUME NEW p \in Policies, BeginEvaluation(p)
      PROVE  CoreInv'
  BY <1>5, BeginEvaluationType, CoreFrame DEF BeginEvaluation, recordVars
<1>6. ASSUME NEW p \in Policies, Rollback(p)
      PROVE  CoreInv'
  BY <1>6, RollbackCore
<1>7. ASSUME NEW p \in Policies, NEW x \in Paths, NEW event \in Events,
             NEW b \in Bindings, ApplyUpstream(p, x, event, b)
      PROVE  CoreInv'
  BY <1>7, ApplyUpstreamType, CoreFrame DEF ApplyUpstream, recordVars
<1>8. ASSUME NEW x \in Paths, NEW value \in Values, NEW quality \in Qualities,
             NEW newIncarnation \in BOOLEAN,
             PublishEvidence(x, value, quality, newIncarnation)
      PROVE  CoreInv'
  BY <1>8, PublishEvidenceType, CoreFrame DEF PublishEvidence, recordVars
<1>9. ASSUME NEW t \in tickets, CommitEvaluation(t)
      PROVE  CoreInv'
  BY <1>9, CommitCore
<1>10. ASSUME NEW t \in tickets, CommitSuppressed(t)
       PROVE  CoreInv'
  BY <1>10, CommitSuppressedType, CoreFrame DEF CommitSuppressed
<1>11. ASSUME NEW t \in tickets, DropTicket(t)
       PROVE  CoreInv'
  BY <1>11, DropTicketType, CoreFrame DEF DropTicket, recordVars
<1>12. CASE AdvanceEpoch
  BY <1>12, AdvanceEpochType, CoreFrame DEF AdvanceEpoch
<1>13. CASE Tick
  BY <1>13, TickType, CoreFrame DEF Tick, recordVars
<1>14. CASE UNCHANGED vars
  BY <1>14 DEF vars, evidenceVars, policyVars, bindingVars, recordVars, TypeOK,
               AnchorIsDisplaced, EstablishedHasPath
<1> QED
  BY <1>1, <1>2, <1>3, <1>4, <1>5, <1>6, <1>7, <1>8, <1>9, <1>10, <1>11, <1>12,
     <1>13, <1>14 DEF Next

LEMMA CoreInvariant == Spec => []CoreInv
<1>1. Init => CoreInv
  BY CoreInit
<1>2. CoreInv /\ [Next]_vars => CoreInv'
  BY CoreStep
<1> QED
  BY <1>1, <1>2, PTL DEF Spec

(***************************************************************************)
(* Every variable has its type in every reachable state of the engine.     *)
(***************************************************************************)
THEOREM TypeCorrect == Spec => []TypeOK
<1>1. CoreInv => TypeOK
  BY DEF CoreInv
<1> QED
  BY <1>1, CoreInvariant, PTL

(***************************************************************************)
(* The rollback anchor is always exactly the preference the current one    *)
(* displaced, through commits, rollbacks and policy updates.               *)
(***************************************************************************)
THEOREM AnchorCorrect == Spec => []AnchorIsDisplaced
<1>1. CoreInv => AnchorIsDisplaced
  BY DEF CoreInv
<1> QED
  BY <1>1, CoreInvariant, PTL

-----------------------------------------------------------------------------
(***************************************************************************)
(* Timers.  Hold-down and cooldown hold for every number of paths and      *)
(* policies, for every valid policy and every interleaving.                *)
(***************************************************************************)

\* What a policy has recorded lies in the past, and a policy that was never
\* created has recorded nothing.  Ticks of another epoch may be ticks of another
\* process, whose clock says nothing about this one.
RecordsThePast ==
  \A p \in Policies :
    /\ preference[p].epoch <= epoch
    /\ preference[p].policyGeneration <= generation[p]
    /\ preference[p].epoch = epoch => preference[p].committedAt <= now
    /\ lifecycle[p] = Absent => preference[p] = NoPreference

\* The timers of a policy that has moved are the ones the commit of its current
\* preference armed, as long as the rules that armed them are in force.
TimersArmed ==
  \A p \in Policies : SameRules(p) /\ preference[p].previous # NoPath =>
    /\ timing[p].holdDownDeadline = preference[p].committedAt + ArmedHoldDown(p)
    /\ timing[p].holdDownActive <=> ArmedHoldDown(p) # 0
    /\ timing[p].cooldownDeadline = preference[p].committedAt + semantics[p].cooldown
    /\ timing[p].cooldownActive <=> semantics[p].cooldown # 0

TimingInv == CoreInv /\ RecordsThePast /\ TimersArmed

\* Dampening only ever extends the hold-down.
LEMMA DampeningExtends ==
  ASSUME NEW s \in PolicySemantics, ValidSemantics(s), NEW penalty \in Nat
  PROVE  EffectiveHoldDown(s, penalty) >= s.holdDown
<1>1. s.holdDown \in Nat /\ s.step \in Nat /\ s.cap \in Nat
  BY DEF PolicySemantics
<1>2. s.dampening => s.cap >= s.holdDown
  BY DEF ValidSemantics
<1>3. penalty * s.step \in Nat
  BY <1>1
<1> QED
  BY <1>1, <1>2, <1>3 DEF EffectiveHoldDown, Lesser

\* The armed hold-down is a number of ticks and no longer than the effective one.
LEMMA ArmedHoldDownBound ==
  ASSUME TypeOK, NEW p \in Policies
  PROVE  /\ ArmedHoldDown(p) \in Nat
         /\ EffectiveHoldDown(semantics[p], timing[p].penalty) \in Nat
         /\ EffectiveHoldDown(semantics[p], timing[p].penalty) >= ArmedHoldDown(p)
<1>1. semantics[p] \in PolicySemantics /\ ValidSemantics(semantics[p])
  BY SemanticsType
<1>2. timing[p].penalty \in Nat
  BY DEF TypeOK, TimingState
<1>3. EffectiveHoldDown(semantics[p], timing[p].penalty) \in Nat
  BY <1>1, <1>2, EffectiveHoldDownType
<1>4. EffectiveHoldDown(semantics[p], timing[p].penalty) >= semantics[p].holdDown
  BY <1>1, <1>2, DampeningExtends
<1>5. semantics[p].holdDown \in Nat
  BY <1>1 DEF PolicySemantics
<1> QED
  BY <1>3, <1>4, <1>5 DEF ArmedHoldDown

LEMMA TimingInit == Init => TimingInv
BY CoreInit DEF Init, TimingInv, RecordsThePast, TimersArmed, NoPreference

\* A step that touches neither preferences, timers nor rules, and sets no clock
\* back, keeps the timing invariant.
LEMMA TimingFrame ==
  ASSUME TimingInv, CoreInv', now' >= now,
         UNCHANGED <<preference, timing, semantics, generation, epoch>>,
         \A p \in Policies : lifecycle'[p] = Absent => lifecycle[p] = Absent
  PROVE  TimingInv'
<1>1. now \in Nat /\ now' \in Nat
  BY DEF TimingInv, CoreInv, TypeOK
<1>2. \A p \in Policies : preference[p].committedAt \in Nat
  BY DEF TimingInv, CoreInv, TypeOK, RoutingPreference
<1>3. RecordsThePast'
  BY <1>1, <1>2 DEF TimingInv, RecordsThePast
<1>4. TimersArmed'
  BY DEF TimingInv, TimersArmed, SameRules, ArmedHoldDown
<1> QED
  BY <1>3, <1>4 DEF TimingInv

\* A policy that a step of another policy leaves alone keeps its part.
LEMMA TimingOther ==
  ASSUME TimingInv, NEW q \in Policies, UNCHANGED <<now, epoch>>,
         preference'[q] = preference[q], timing'[q] = timing[q],
         semantics'[q] = semantics[q], generation'[q] = generation[q],
         lifecycle'[q] = lifecycle[q]
  PROVE  /\ preference'[q].epoch <= epoch'
         /\ preference'[q].policyGeneration <= generation'[q]
         /\ preference'[q].epoch = epoch' => preference'[q].committedAt <= now'
         /\ lifecycle'[q] = Absent => preference'[q] = NoPreference
         /\ SameRules(q)' /\ preference'[q].previous # NoPath =>
              /\ timing'[q].holdDownDeadline
                   = preference'[q].committedAt + ArmedHoldDown(q)'
              /\ timing'[q].holdDownActive <=> ArmedHoldDown(q)' # 0
              /\ timing'[q].cooldownDeadline
                   = preference'[q].committedAt + semantics'[q].cooldown
              /\ timing'[q].cooldownActive <=> semantics'[q].cooldown # 0
BY DEF TimingInv, RecordsThePast, TimersArmed, SameRules, ArmedHoldDown

LEMMA CommitTiming ==
  ASSUME TimingInv, NEW t \in tickets, CommitEvaluation(t)
  PROVE  TimingInv'
<1> DEFINE p == t.policy
<1>1. CoreInv' /\ TypeOK
  BY CommitCore DEF TimingInv, CoreInv
<1>2. p \in Policies
  BY <1>1 DEF TypeOK, Ticket
<1>3. PICK cause \in {"EMERGENCY_OVERRIDE", "TRIGGER_SATISFIED"} :
        preference' = [preference EXCEPT ![p] =
                         Installed(p, t.target, cause, t.weighted)]
  BY DEF CommitEvaluation
<1>4. /\ timing' = [timing EXCEPT ![p] = ArmedTiming(p)]
      /\ lifecycle[p] # Absent
      /\ UNCHANGED <<now, epoch, semantics, generation, lifecycle>>
  BY DEF CommitEvaluation, TicketCurrent, policyVars
<1> HIDE DEF p
<1>5. /\ preference'[p] = Installed(p, t.target, cause, t.weighted)
      /\ timing'[p] = ArmedTiming(p)
      /\ \A q \in Policies \ {p} : preference'[q] = preference[q] /\ timing'[q] = timing[q]
  BY <1>1, <1>2, <1>3, <1>4 DEF TypeOK
<1>6. now \in Nat /\ epoch \in Nat /\ generation[p] \in Nat
  BY <1>1, <1>2 DEF TypeOK
<1>7. RecordsThePast'
  <2> SUFFICES ASSUME NEW q \in Policies
               PROVE  /\ preference'[q].epoch <= epoch'
                      /\ preference'[q].policyGeneration <= generation'[q]
                      /\ preference'[q].epoch = epoch' => preference'[q].committedAt <= now'
                      /\ lifecycle'[q] = Absent => preference'[q] = NoPreference
    BY DEF RecordsThePast
  <2>1. CASE q # p
    BY <1>4, <1>5, <2>1, TimingOther
  <2>2. CASE q = p
    BY <1>4, <1>5, <1>6, <2>2 DEF Installed
  <2> QED
    BY <2>1, <2>2
<1>8. TimersArmed'
  <2> SUFFICES ASSUME NEW q \in Policies, SameRules(q)',
                      preference'[q].previous # NoPath
               PROVE  /\ timing'[q].holdDownDeadline
                           = preference'[q].committedAt + ArmedHoldDown(q)'
                      /\ timing'[q].holdDownActive <=> ArmedHoldDown(q)' # 0
                      /\ timing'[q].cooldownDeadline
                           = preference'[q].committedAt + semantics'[q].cooldown
                      /\ timing'[q].cooldownActive <=> semantics'[q].cooldown # 0
    BY DEF TimersArmed
  <2>1. CASE q # p
    BY <1>4, <1>5, <2>1, TimingOther
  <2>2. CASE q = p
    <3>1. /\ preference'[p].previous =
               IF preference[p].established THEN preference[p].path ELSE NoPath
          /\ preference'[p].committedAt = now
          /\ preference'[p].cause = cause
      BY <1>5 DEF Installed
    <3>2. preference[p].established
      BY <2>2, <3>1
    <3>3. PICK penalty :
            /\ timing'[p].penalty = penalty
            /\ timing'[p].holdDownActive
                 = (EffectiveHoldDown(semantics[p], penalty) # 0)
            /\ timing'[p].holdDownDeadline
                 = now + EffectiveHoldDown(semantics[p], penalty)
            /\ timing'[p].cooldownActive = (semantics[p].cooldown # 0)
            /\ timing'[p].cooldownDeadline = now + semantics[p].cooldown
      BY <1>5, <3>2 DEF ArmedTiming
    <3>4. ArmedHoldDown(p)' = EffectiveHoldDown(semantics[p], penalty)
      BY <1>3, <1>4, <3>1, <3>3 DEF ArmedHoldDown
    <3> QED
      BY <1>4, <2>2, <3>1, <3>3, <3>4
  <2> QED
    BY <2>1, <2>2
<1> QED
  BY <1>1, <1>7, <1>8 DEF TimingInv

LEMMA RollbackTimers ==
  ASSUME TimingInv, NEW p \in Policies, Rollback(p)
  PROVE  TimingInv'
<1> DEFINE x == stable[p].path
<1>1. CoreInv' /\ TypeOK
  BY RollbackCore DEF TimingInv, CoreInv
<1>2. /\ preference' = [preference EXCEPT ![p] =
           Installed(p, x, "ROLLBACK_REQUESTED", preference[p].weighted)]
      /\ timing' = [timing EXCEPT ![p] = RollbackTiming(p)]
      /\ lifecycle[p] # Absent
      /\ UNCHANGED <<now, epoch, semantics, generation, lifecycle>>
  BY DEF Rollback, policyVars, Absent
<1> HIDE DEF x
<1>3. /\ preference'[p] = Installed(p, x, "ROLLBACK_REQUESTED", preference[p].weighted)
      /\ timing'[p] = RollbackTiming(p)
      /\ \A q \in Policies \ {p} : preference'[q] = preference[q] /\ timing'[q] = timing[q]
  BY <1>1, <1>2 DEF TypeOK
<1>4. now \in Nat /\ epoch \in Nat /\ generation[p] \in Nat /\ timing[p] \in TimingState
  BY <1>1 DEF TypeOK
<1>5. RecordsThePast'
  <2> SUFFICES ASSUME NEW q \in Policies
               PROVE  /\ preference'[q].epoch <= epoch'
                      /\ preference'[q].policyGeneration <= generation'[q]
                      /\ preference'[q].epoch = epoch' => preference'[q].committedAt <= now'
                      /\ lifecycle'[q] = Absent => preference'[q] = NoPreference
    BY DEF RecordsThePast
  <2>1. CASE q # p
    BY <1>2, <1>3, <2>1, TimingOther
  <2>2. CASE q = p
    BY <1>2, <1>3, <1>4, <2>2 DEF Installed
  <2> QED
    BY <2>1, <2>2
<1>6. TimersArmed'
  <2> SUFFICES ASSUME NEW q \in Policies, SameRules(q)',
                      preference'[q].previous # NoPath
               PROVE  /\ timing'[q].holdDownDeadline
                           = preference'[q].committedAt + ArmedHoldDown(q)'
                      /\ timing'[q].holdDownActive <=> ArmedHoldDown(q)' # 0
                      /\ timing'[q].cooldownDeadline
                           = preference'[q].committedAt + semantics'[q].cooldown
                      /\ timing'[q].cooldownActive <=> semantics'[q].cooldown # 0
    BY DEF TimersArmed
  <2>1. CASE q # p
    BY <1>2, <1>3, <2>1, TimingOther
  <2>2. CASE q = p
    <3>1. /\ preference'[p].committedAt = now
          /\ preference'[p].cause = "ROLLBACK_REQUESTED"
      BY <1>3 DEF Installed
    <3>2. /\ timing'[p].holdDownActive = (semantics[p].holdDown # 0)
          /\ timing'[p].holdDownDeadline = now + semantics[p].holdDown
          /\ timing'[p].cooldownActive = (semantics[p].cooldown # 0)
          /\ timing'[p].cooldownDeadline = now + semantics[p].cooldown
      BY <1>3, <1>4 DEF RollbackTiming, TimingState
    <3>3. ArmedHoldDown(p)' = semantics[p].holdDown
      BY <1>2, <3>1 DEF ArmedHoldDown
    <3> QED
      BY <1>2, <2>2, <3>1, <3>2, <3>3
  <2> QED
    BY <2>1, <2>2
<1> QED
  BY <1>1, <1>5, <1>6 DEF TimingInv

\* An update changes the rules of p, so it says nothing about the timers that
\* run, or it discards preference and timers.
LEMMA UpdatePolicyTiming ==
  ASSUME TimingInv, NEW p \in Policies, NEW s \in Semantics, UpdatePolicy(p, s)
  PROVE  TimingInv'
<1>1. CoreInv' /\ TypeOK
  BY UpdatePolicyCore DEF TimingInv, CoreInv
<1>2. /\ lifecycle[p] # Absent
      /\ UNCHANGED <<now, epoch, lifecycle>>
      /\ generation' = [generation EXCEPT ![p] = @ + 1]
      /\ semantics' = [semantics EXCEPT ![p] = s]
      /\ \/ UNCHANGED <<preference, timing>>
         \/ /\ preference' = [preference EXCEPT ![p] = NoPreference]
            /\ timing' = [timing EXCEPT ![p] = NoTiming]
  BY DEF UpdatePolicy
<1>3. /\ generation'[p] = generation[p] + 1
      /\ preference'[p] \in {preference[p], NoPreference}
      /\ \A q \in Policies \ {p} :
           /\ preference'[q] = preference[q] /\ timing'[q] = timing[q]
           /\ generation'[q] = generation[q] /\ semantics'[q] = semantics[q]
  BY <1>1, <1>2 DEF TypeOK
<1>4. /\ now \in Nat /\ epoch \in Nat /\ generation[p] \in Nat
      /\ preference[p].policyGeneration \in Nat
  BY <1>1 DEF TypeOK, RoutingPreference
<1>5. /\ preference[p].policyGeneration < generation'[p]
      /\ preference[p].epoch <= epoch
      /\ preference[p].epoch = epoch => preference[p].committedAt <= now
  BY <1>3, <1>4 DEF TimingInv, RecordsThePast
<1>6. RecordsThePast'
  <2> SUFFICES ASSUME NEW q \in Policies
               PROVE  /\ preference'[q].epoch <= epoch'
                      /\ preference'[q].policyGeneration <= generation'[q]
                      /\ preference'[q].epoch = epoch' => preference'[q].committedAt <= now'
                      /\ lifecycle'[q] = Absent => preference'[q] = NoPreference
    BY DEF RecordsThePast
  <2>1. CASE q # p
    BY <1>2, <1>3, <2>1, TimingOther
  <2>2. CASE q = p /\ preference'[p] = preference[p]
    BY <1>2, <1>3, <1>4, <1>5, <2>2
  <2>3. CASE q = p /\ preference'[p] = NoPreference
    BY <1>2, <1>3, <1>4, <2>3 DEF NoPreference
  <2> QED
    BY <1>3, <2>1, <2>2, <2>3
<1>7. TimersArmed'
  <2> SUFFICES ASSUME NEW q \in Policies, SameRules(q)',
                      preference'[q].previous # NoPath
               PROVE  /\ timing'[q].holdDownDeadline
                           = preference'[q].committedAt + ArmedHoldDown(q)'
                      /\ timing'[q].holdDownActive <=> ArmedHoldDown(q)' # 0
                      /\ timing'[q].cooldownDeadline
                           = preference'[q].committedAt + semantics'[q].cooldown
                      /\ timing'[q].cooldownActive <=> semantics'[q].cooldown # 0
    BY DEF TimersArmed
  <2>1. q # p
    BY <1>3, <1>4, <1>5 DEF SameRules, NoPreference
  <2> QED
    BY <1>2, <1>3, <2>1, TimingOther
<1> QED
  BY <1>1, <1>6, <1>7 DEF TimingInv

LEMMA CreatePolicyTiming ==
  ASSUME TimingInv, NEW p \in Policies, NEW s \in Semantics, CreatePolicy(p, s)
  PROVE  TimingInv'
<1>1. CoreInv' /\ TypeOK
  BY CreatePolicyType, CoreFrame DEF TimingInv, CoreInv, CreatePolicy, recordVars
<1>2. /\ lifecycle' = [lifecycle EXCEPT ![p] = "DECLARED"]
      /\ generation' = [generation EXCEPT ![p] = 1]
      /\ semantics' = [semantics EXCEPT ![p] = s]
      /\ UNCHANGED <<now, epoch, preference, timing>>
  BY DEF CreatePolicy, recordVars
<1>3. preference[p] = NoPreference
  BY DEF CreatePolicy, TimingInv, RecordsThePast
<1>4. /\ generation'[p] = 1 /\ lifecycle'[p] # Absent
      /\ \A q \in Policies \ {p} :
           /\ lifecycle'[q] = lifecycle[q]
           /\ generation'[q] = generation[q] /\ semantics'[q] = semantics[q]
  BY <1>1, <1>2 DEF TypeOK, Absent
<1>5. now \in Nat /\ epoch \in Nat
  BY <1>1 DEF TypeOK
<1>6. RecordsThePast'
  <2> SUFFICES ASSUME NEW q \in Policies
               PROVE  /\ preference'[q].epoch <= epoch'
                      /\ preference'[q].policyGeneration <= generation'[q]
                      /\ preference'[q].epoch = epoch' => preference'[q].committedAt <= now'
                      /\ lifecycle'[q] = Absent => preference'[q] = NoPreference
    BY DEF RecordsThePast
  <2>1. CASE q # p
    BY <1>2, <1>4, <2>1, TimingOther
  <2>2. CASE q = p
    BY <1>2, <1>3, <1>4, <1>5, <2>2 DEF NoPreference
  <2> QED
    BY <2>1, <2>2
<1>7. TimersArmed'
  <2> SUFFICES ASSUME NEW q \in Policies, SameRules(q)',
                      preference'[q].previous # NoPath
               PROVE  /\ timing'[q].holdDownDeadline
                           = preference'[q].committedAt + ArmedHoldDown(q)'
                      /\ timing'[q].holdDownActive <=> ArmedHoldDown(q)' # 0
                      /\ timing'[q].cooldownDeadline
                           = preference'[q].committedAt + semantics'[q].cooldown
                      /\ timing'[q].cooldownActive <=> semantics'[q].cooldown # 0
    BY DEF TimersArmed
  <2>1. q # p
    BY <1>2, <1>3 DEF NoPreference
  <2> QED
    BY <1>2, <1>4, <2>1, TimingOther
<1> QED
  BY <1>1, <1>6, <1>7 DEF TimingInv

\* After an epoch advance no timer runs under the rules that armed it.
LEMMA AdvanceEpochTiming ==
  ASSUME TimingInv, AdvanceEpoch
  PROVE  TimingInv'
<1>1. CoreInv' /\ TypeOK
  BY AdvanceEpochType, CoreFrame DEF TimingInv, CoreInv, AdvanceEpoch
<1>2. /\ epoch' = epoch + 1
      /\ UNCHANGED <<now, preference, generation, semantics>>
      /\ \A q \in Policies : lifecycle'[q] = Absent => lifecycle[q] = Absent
  BY DEF AdvanceEpoch, Absent
<1>3. epoch \in Nat /\ \A q \in Policies : preference[q].epoch \in Nat
  BY <1>1 DEF TypeOK, RoutingPreference
<1>4. RecordsThePast'
  BY <1>2, <1>3 DEF TimingInv, RecordsThePast
<1>5. \A q \in Policies : ~SameRules(q)'
  BY <1>2, <1>3 DEF TimingInv, RecordsThePast, SameRules
<1> QED
  BY <1>1, <1>4, <1>5 DEF TimingInv, TimersArmed

LEMMA TransitionKeepsPolicy ==
  ASSUME TypeOK, NEW p \in Policies, NEW event, TransitionPolicy(p, event)
  PROVE  \A q \in Policies : lifecycle'[q] = Absent => lifecycle[q] = Absent
<1>1. PICK next \in PolicyTransition(lifecycle[p], event) :
        lifecycle' = [lifecycle EXCEPT ![p] = next]
  BY DEF TransitionPolicy
<1>2. next # Absent
  BY <1>1 DEF PolicyTransition, Absent
<1> QED
  BY <1>1, <1>2 DEF TypeOK

LEMMA TimingStep == TimingInv /\ [Next]_vars => TimingInv'
<1> SUFFICES ASSUME TimingInv, [Next]_vars PROVE TimingInv'
  OBVIOUS
<1>0. CoreInv' /\ TypeOK /\ now \in Nat
  BY CoreStep DEF TimingInv, CoreInv, TypeOK
<1>1. ASSUME NEW p \in Policies, NEW s \in Semantics, CreatePolicy(p, s)
      PROVE  TimingInv'
  BY <1>1, CreatePolicyTiming
<1>2. ASSUME NEW p \in Policies, NEW s \in Semantics, UpdatePolicy(p, s)
      PROVE  TimingInv'
  BY <1>2, UpdatePolicyTiming
<1>3. ASSUME NEW p \in Policies, NEW event \in Operations, TransitionPolicy(p, event)
      PROVE  TimingInv'
  <2>1. \A q \in Policies : lifecycle'[q] = Absent => lifecycle[q] = Absent
    BY <1>0, <1>3, TransitionKeepsPolicy
  <2>2. UNCHANGED <<now, epoch, generation, semantics, preference, timing>>
    BY <1>3 DEF TransitionPolicy, recordVars
  <2> QED
    BY <1>0, <2>1, <2>2, TimingFrame
<1>4. ASSUME NEW p \in Policies, RevokePolicy(p)
      PROVE  TimingInv'
  <2>1. \A q \in Policies : lifecycle'[q] = Absent => lifecycle[q] = Absent
    BY <1>0, <1>4 DEF RevokePolicy, TypeOK, Absent
  <2> QED
    BY <1>0, <1>4, <2>1, TimingFrame DEF RevokePolicy, recordVars
<1>5. ASSUME NEW p \in Policies, BeginEvaluation(p)
      PROVE  TimingInv'
  BY <1>0, <1>5, TimingFrame DEF BeginEvaluation, recordVars, policyVars
<1>6. ASSUME NEW p \in Policies, Rollback(p)
      PROVE  TimingInv'
  BY <1>6, RollbackTimers
<1>7. ASSUME NEW p \in Policies, NEW x \in Paths, NEW event \in Events,
             NEW b \in Bindings, ApplyUpstream(p, x, event, b)
      PROVE  TimingInv'
  BY <1>0, <1>7, TimingFrame DEF ApplyUpstream, recordVars, policyVars
<1>8. ASSUME NEW x \in Paths, NEW value \in Values, NEW quality \in Qualities,
             NEW newIncarnation \in BOOLEAN,
             PublishEvidence(x, value, quality, newIncarnation)
      PROVE  TimingInv'
  BY <1>0, <1>8, TimingFrame DEF PublishEvidence, recordVars, policyVars
<1>9. ASSUME NEW t \in tickets, CommitEvaluation(t)
      PROVE  TimingInv'
  BY <1>9, CommitTiming
<1>10. ASSUME NEW t \in tickets, CommitSuppressed(t)
       PROVE  TimingInv'
  <2>1. UNCHANGED <<now, epoch, policyVars, preference, timing>>
    BY <1>10 DEF CommitSuppressed
  <2> QED
    BY <1>0, <2>1, TimingFrame DEF policyVars
<1>11. ASSUME NEW t \in tickets, DropTicket(t)
       PROVE  TimingInv'
  BY <1>0, <1>11, TimingFrame DEF DropTicket, recordVars, policyVars
<1>12. CASE AdvanceEpoch
  BY <1>12, AdvanceEpochTiming
<1>13. CASE Tick
  BY <1>0, <1>13, TimingFrame DEF Tick, recordVars, policyVars
<1>14. CASE UNCHANGED vars
  BY <1>0, <1>14, TimingFrame DEF vars, recordVars, policyVars
<1> QED
  BY <1>1, <1>2, <1>3, <1>4, <1>5, <1>6, <1>7, <1>8, <1>9, <1>10, <1>11, <1>12,
     <1>13, <1>14 DEF Next

LEMMA TimingInvariant == Spec => []TimingInv
<1>1. Init => TimingInv
  BY TimingInit
<1>2. TimingInv /\ [Next]_vars => TimingInv'
  BY TimingStep
<1> QED
  BY <1>1, <1>2, PTL DEF Spec

\* Only the commit of an ordinary ticket of p, past every suppression predicate,
\* is an ordinary move of p.
LEMMA OrdinaryMove ==
  ASSUME TypeOK, [Next]_vars, NEW p \in Policies, preference'[p] # preference[p],
         preference'[p].cause = "TRIGGER_SATISFIED"
  PROVE  /\ ~Suppressed(p, preference'[p].path)
         /\ \E t \in tickets : t.policy = p /\ CommitEvaluation(t)
<1>0. preference \in [Policies -> RoutingPreference]
  BY DEF TypeOK
<1>1. ASSUME NEW t \in tickets, CommitEvaluation(t)
      PROVE  t.policy = p /\ ~Suppressed(p, preference'[p].path)
  <2>1. PICK cause :
          /\ preference' = [preference EXCEPT ![t.policy] =
                              Installed(t.policy, t.target, cause, t.weighted)]
          /\ t.emergency => cause = "EMERGENCY_OVERRIDE"
    BY <1>1 DEF CommitEvaluation
  <2>2. t.policy = p
    BY <1>0, <2>1
  <2>3. preference'[p] = Installed(p, t.target, cause, t.weighted)
    BY <1>0, <2>1, <2>2
  <2>4. preference'[p].path = t.target /\ preference'[p].cause = cause
    BY <2>3 DEF Installed
  <2>5. ~t.emergency
    BY <2>1, <2>4
  <2> QED
    BY <1>1, <2>2, <2>4, <2>5 DEF CommitEvaluation
<1>2. ASSUME NEW q \in Policies, Rollback(q)
      PROVE  FALSE
  <2>1. preference' = [preference EXCEPT ![q] =
          Installed(q, stable[q].path, "ROLLBACK_REQUESTED", preference[q].weighted)]
    BY <1>2 DEF Rollback
  <2>2. q = p
    BY <1>0, <2>1
  <2> QED
    BY <1>0, <2>1, <2>2 DEF Installed
<1>3. ASSUME NEW q \in Policies, NEW s \in Semantics, UpdatePolicy(q, s)
      PROVE  FALSE
  <2>1. \/ preference' = preference
        \/ preference' = [preference EXCEPT ![q] = NoPreference]
    BY <1>3 DEF UpdatePolicy
  <2> QED
    BY <1>0, <2>1 DEF NoPreference
<1>4. ASSUME UNCHANGED preference PROVE FALSE
  BY <1>4
<1> QED
  BY <1>1, <1>2, <1>3, <1>4, ZenonT(40)
  DEF Next, vars, recordVars, CreatePolicy, TransitionPolicy, RevokePolicy,
      BeginEvaluation, ApplyUpstream, PublishEvidence, CommitSuppressed, DropTicket,
      AdvanceEpoch, Tick

LEMMA HoldDownStep ==
  ASSUME TimingInv, [Next]_vars, NEW p \in Policies
  PROVE  WaitsForHoldDown(p)
<1> SUFFICES ASSUME Moves(p), SameRules(p),
                    preference'[p].cause = "TRIGGER_SATISFIED",
                    preference'[p].path = preference[p].previous
             PROVE  now >= preference[p].committedAt + ArmedHoldDown(p)
  BY DEF WaitsForHoldDown
<1>1. CoreInv' /\ TypeOK
  BY CoreStep DEF TimingInv, CoreInv
<1>2. preference[p].previous # NoPath
  BY <1>1 DEF CoreInv, EstablishedHasPath, Moves
<1>3. /\ timing[p].holdDownDeadline = preference[p].committedAt + ArmedHoldDown(p)
      /\ timing[p].holdDownActive <=> ArmedHoldDown(p) # 0
  BY <1>2 DEF TimingInv, TimersArmed
<1>4. ~HeldDown(p, preference'[p].path)
  BY <1>1, OrdinaryMove DEF Suppressed, Moves
<1>5. \/ ~timing[p].holdDownActive
      \/ EffectiveHoldDown(semantics[p], timing[p].penalty) = 0
      \/ ~(now < timing[p].holdDownDeadline)
  BY <1>2, <1>4 DEF HeldDown, Reverse
<1>6. /\ now \in Nat /\ preference[p].committedAt \in Nat
      /\ preference[p].committedAt <= now
  BY <1>1 DEF TimingInv, RecordsThePast, TypeOK, RoutingPreference, SameRules
<1>7. /\ ArmedHoldDown(p) \in Nat
      /\ EffectiveHoldDown(semantics[p], timing[p].penalty) \in Nat
      /\ EffectiveHoldDown(semantics[p], timing[p].penalty) >= ArmedHoldDown(p)
  BY <1>1, ArmedHoldDownBound
<1> QED
  BY <1>3, <1>5, <1>6, <1>7

LEMMA CooldownStep ==
  ASSUME TimingInv, [Next]_vars, NEW p \in Policies
  PROVE  WaitsForCooldown(p)
<1> SUFFICES ASSUME Moves(p), SameRules(p),
                    preference'[p].cause = "TRIGGER_SATISFIED",
                    preference[p].previous # NoPath
             PROVE  now >= preference[p].committedAt + semantics[p].cooldown
  BY DEF WaitsForCooldown
<1>1. TypeOK
  BY DEF TimingInv, CoreInv
<1>2. /\ timing[p].cooldownDeadline = preference[p].committedAt + semantics[p].cooldown
      /\ timing[p].cooldownActive <=> semantics[p].cooldown # 0
  BY DEF TimingInv, TimersArmed
<1>3. ~(timing[p].cooldownActive /\ now < timing[p].cooldownDeadline)
  BY <1>1, OrdinaryMove DEF Suppressed, CoolingDown, Moves
<1>4. /\ now \in Nat /\ preference[p].committedAt \in Nat
      /\ preference[p].committedAt <= now
  BY <1>1 DEF TimingInv, RecordsThePast, TypeOK, RoutingPreference, SameRules
<1>5. semantics[p].cooldown \in Nat
  BY <1>1, SemanticsType DEF PolicySemantics
<1> QED
  BY <1>2, <1>3, <1>4, <1>5

(***************************************************************************)
(* An ordinary adaptation back to the displaced path waits for the whole   *)
(* armed hold-down: for every policy, number of paths and interleaving of  *)
(* tickets, rollbacks, emergencies, updates and epochs.                    *)
(***************************************************************************)
THEOREM HoldDownCorrect == Spec => HoldDownRespected
<1>1. TimingInv /\ [Next]_vars => [\A p \in Policies : WaitsForHoldDown(p)]_vars
  BY HoldDownStep
<1> QED
  BY <1>1, TimingInvariant, PTL DEF Spec, HoldDownRespected

(***************************************************************************)
(* After a move no ordinary adaptation is committed before the cooldown    *)
(* has passed.                                                             *)
(***************************************************************************)
THEOREM CooldownCorrect == Spec => CooldownRespected
<1>1. TimingInv /\ [Next]_vars => [\A p \in Policies : WaitsForCooldown(p)]_vars
  BY CooldownStep
<1> QED
  BY <1>1, TimingInvariant, PTL DEF Spec, CooldownRespected

-----------------------------------------------------------------------------
(* The churn bound *)

\* next is seq with e appended, less the first entries that were lost.
Shifted(next, seq, e, lost) ==
  /\ Len(next) = Len(seq) + 1 - lost
  /\ \A i \in DOMAIN next :
       /\ i \in Nat /\ 1 <= i /\ i <= Len(next)
       /\ i + lost = Len(seq) + 1 => next[i] = e
       /\ i + lost # Len(seq) + 1 => i + lost \in DOMAIN seq /\ next[i] = seq[i + lost]

\* A deque that is pruned from the front loses entries only when it is full.
LEMMA CappedAppend ==
  ASSUME NEW S, NEW seq \in Seq(S), NEW e \in S, NEW limit \in Nat
  PROVE  \E lost \in Nat :
           /\ Shifted(Capped(Append(seq, e), limit), seq, e, lost)
           /\ lost > 0 => Len(Capped(Append(seq, e), limit)) >= limit
<1> DEFINE longer == Append(seq, e)
           next == Capped(longer, limit)
<1>1. /\ longer \in Seq(S) /\ Len(longer) = Len(seq) + 1 /\ Len(seq) \in Nat
      /\ \A i \in 1 .. Len(seq) : longer[i] = seq[i]
      /\ longer[Len(seq) + 1] = e
      /\ DOMAIN seq = 1 .. Len(seq) /\ DOMAIN longer = 1 .. Len(longer)
  BY AppendProperties, LenProperties
<1> HIDE DEF longer
<1>2. CASE Len(longer) <= limit
  <2>1. next = longer
    BY <1>2 DEF Capped
  <2>2. \A i \in DOMAIN next : /\ i \in Nat /\ 1 <= i /\ i <= Len(next)
                               /\ i + 0 = Len(seq) + 1 => next[i] = e
                               /\ i + 0 # Len(seq) + 1 =>
                                    i + 0 \in DOMAIN seq /\ next[i] = seq[i + 0]
    BY <1>1, <2>1
  <2>3. Len(next) \in Nat /\ Len(next) = Len(seq) + 1 - 0 /\ ~(0 > 0) /\ 0 \in Nat
    BY <1>1, <2>1
  <2> HIDE DEF next
  <2>4. next = Capped(Append(seq, e), limit)
    BY DEF next, longer
  <2> QED
    BY <2>2, <2>3, <2>4 DEF Shifted
<1>3. CASE ~(Len(longer) <= limit)
  <2> DEFINE lost == Len(longer) - limit
  <2>1. lost \in Nat /\ lost + 1 \in 1 .. Len(longer) + 1 /\ lost > 0
    BY <1>1, <1>3
  <2>2. next = SubSeq(longer, lost + 1, Len(longer))
    BY <1>3 DEF Capped
  <2>3. /\ Len(next) = limit /\ DOMAIN next = 1 .. limit
        /\ \A i \in 1 .. limit : next[i] = longer[i + lost]
    BY <1>1, <1>3, <2>1, <2>2, SubSeqProperties
  <2> HIDE DEF lost, next
  <2>4. Len(longer) = limit + lost
    BY <1>1, <2>1 DEF lost
  <2>5. ASSUME NEW i \in DOMAIN next
        PROVE  /\ i \in Nat /\ 1 <= i /\ i <= Len(next)
               /\ i + lost = Len(seq) + 1 => next[i] = e
               /\ i + lost # Len(seq) + 1 =>
                    i + lost \in DOMAIN seq /\ next[i] = seq[i + lost]
    <3>1. i \in Nat /\ 1 <= i /\ i <= limit /\ next[i] = longer[i + lost]
      BY <2>3
    <3>2. i + lost \in 1 .. Len(longer)
      BY <2>1, <2>4, <3>1
    <3> QED
      BY <1>1, <2>3, <3>1, <3>2
  <2>6. Len(next) \in Nat /\ Len(next) = Len(seq) + 1 - lost /\ Len(next) >= limit
    BY <1>1, <2>1, <2>3, <2>4
  <2> HIDE DEF longer
  <2>7. next = Capped(Append(seq, e), limit)
    BY DEF next, longer
  <2> QED
    BY <2>1, <2>5, <2>6, <2>7 DEF Shifted
<1> QED
  BY <1>2, <1>3 DEF longer

\* Move i of history h belongs to epoch e and to the preference that stands.
Counts(h, i, e) ==
  /\ h[i].kind \in {"COMMITTED", "ROLLED_BACK"}
  /\ h[i].epoch = e
  /\ \A j \in DOMAIN h : j >= i => h[j].kind = "SUPPRESSED" \/ h[j].from # NoPath

\* Where churn_commits of length n holds the move with adaptation generation a,
\* when the generation of the newest one is newest.
Slot(n, a, newest) == n - (newest - a)

\* churn_commits holds the tick of the move with adaptation generation a that was
\* made at tick at, or is full of later ones.
Covers(churn, a, at, newest) ==
  LET slot == Slot(Len(churn), a, newest) IN
  /\ slot < 1 => Len(churn) >= ChurnLimit
  /\ \A k \in DOMAIN churn : k >= slot => churn[k] >= at

\* No two moves that count have the same adaptation generation.
Distinct(h, e) ==
  \A i, j \in DOMAIN h : Counts(h, i, e) /\ Counts(h, j, e)
    /\ h[i].adaptation = h[j].adaptation => i = j

\* churn_commits remembers the moves of the history that count, or is full.
Remembered(h, churn, last, e, t) ==
  /\ \A i \in DOMAIN h : Counts(h, i, e) =>
       /\ h[i].adaptation <= last /\ h[i].at <= t
       /\ Covers(churn, h[i].adaptation, h[i].at, last)
  /\ Distinct(h, e)

ChurnRemembered ==
  \A p \in Policies : preference[p].established =>
    Remembered(history[p], timing[p].churn, preference[p].adaptation, epoch, now)

\* No record of the history is of a later epoch.
HistoryIsPast ==
  \A p \in Policies : \A i \in DOMAIN history[p] : history[p][i].epoch <= epoch

\* What churn_commits is after one more move at tick t: the list with t appended,
\* less its first entries when that makes it too long.
Extends(next, churn, t) ==
  \E lost \in Nat :
    Shifted(next, churn, t, lost) /\ (lost > 0 => Len(next) >= ChurnLimit)

\* One more move and the entries it drops move every slot by as many.
LEMMA SlotShifts ==
  ASSUME NEW n \in Nat, NEW a \in Nat, NEW newest \in Nat, NEW lost \in Nat
  PROVE  /\ Slot(n, a, newest) \in Int
         /\ Slot(n + 1 - lost, a, newest + 1) = Slot(n, a, newest) - lost
BY DEF Slot

\* A record appended to the history hides none behind it, and what counts after it
\* counted before.
LEMMA CountsBefore ==
  ASSUME NEW h \in Seq(AdaptationRecord), NEW r \in AdaptationRecord, NEW e \in Nat,
         NEW lost \in Nat, NEW next \in Seq(AdaptationRecord),
         Shifted(next, h, r, lost), NEW i \in DOMAIN next, Counts(next, i, e)
  PROVE  /\ i + lost = Len(h) + 1 => next[i] = r
         /\ i + lost # Len(h) + 1 =>
              i + lost \in DOMAIN h /\ next[i] = h[i + lost] /\ Counts(h, i + lost, e)
<1> USE DEF Shifted
<1>1. DOMAIN next = 1 .. Len(next) /\ DOMAIN h = 1 .. Len(h) /\ Len(h) \in Nat
      /\ Len(next) \in Nat
  BY LenProperties
<1>2. ASSUME i + lost # Len(h) + 1 PROVE Counts(h, i + lost, e)
  <2>1. i + lost \in DOMAIN h /\ next[i] = h[i + lost]
    BY <1>2
  <2>2. ASSUME NEW j \in DOMAIN h, j >= i + lost
        PROVE  h[j].kind = "SUPPRESSED" \/ h[j].from # NoPath
    <3> DEFINE k == j - lost
    <3>1. k \in DOMAIN next /\ k >= i /\ k + lost = j /\ j # Len(h) + 1
      BY <1>1, <2>2
    <3>2. next[k] = h[j]
      BY <3>1
    <3>3. next[k].kind = "SUPPRESSED" \/ next[k].from # NoPath
      BY <3>1 DEF Counts
    <3> QED
      BY <3>2, <3>3
  <2> QED
    BY <2>1, <2>2 DEF Counts
<1> QED
  BY <1>2

\* The newest move is in the last slot.
LEMMA NewestCovered ==
  ASSUME NEW churn \in Seq(Nat), NEW longer \in Seq(Nat), NEW t \in Nat,
         NEW newest \in Nat, NEW lost \in Nat, Shifted(longer, churn, t, lost),
         lost > 0 => Len(longer) >= ChurnLimit
  PROVE  Covers(longer, newest, t, newest)
<1>1. Len(churn) \in Nat /\ Len(longer) \in Nat /\ ChurnLimit \in Nat
  BY LenProperties, LimitsAssumption
<1>2. Slot(Len(longer), newest, newest) = Len(longer)
  BY <1>1 DEF Slot
<1>3. Len(longer) < 1 => Len(longer) >= ChurnLimit
  BY <1>1 DEF Shifted
<1>4. ASSUME NEW k \in DOMAIN longer, k >= Len(longer) PROVE longer[k] >= t
  <2>1. k + lost = Len(churn) + 1
    BY <1>1, <1>4 DEF Shifted
  <2> QED
    BY <2>1 DEF Shifted
<1> QED
  BY <1>2, <1>3, <1>4 DEF Covers

\* A move that is covered stays so when another one is appended.
LEMMA StaysCovered ==
  ASSUME NEW churn \in Seq(Nat), NEW longer \in Seq(Nat), NEW t \in Nat,
         NEW newest \in Nat, NEW lost \in Nat, Shifted(longer, churn, t, lost),
         lost > 0 => Len(longer) >= ChurnLimit,
         NEW a \in Nat, NEW at \in Nat, at <= t, Covers(churn, a, at, newest)
  PROVE  Covers(longer, a, at, newest + 1)
<1> DEFINE slot == Slot(Len(churn), a, newest)
<1>1. Len(churn) \in Nat /\ Len(longer) \in Nat /\ ChurnLimit \in Nat
  BY LenProperties, LimitsAssumption
<1>2. Len(longer) = Len(churn) + 1 - lost
  BY DEF Shifted
<1>3. slot \in Int /\ Slot(Len(longer), a, newest + 1) = slot - lost
  BY <1>1, <1>2, SlotShifts
<1>4. /\ slot < 1 => Len(churn) >= ChurnLimit
      /\ \A k \in DOMAIN churn : k >= slot => churn[k] >= at
  BY DEF Covers
<1> HIDE DEF slot
<1>5. slot - lost < 1 => Len(longer) >= ChurnLimit
  BY <1>1, <1>2, <1>3, <1>4
<1>6. ASSUME NEW k \in DOMAIN longer, k >= slot - lost PROVE longer[k] >= at
  <2>1. CASE k + lost = Len(churn) + 1
    BY <2>1 DEF Shifted
  <2>2. CASE k + lost # Len(churn) + 1
    <3>1. k \in Nat /\ k + lost \in DOMAIN churn /\ longer[k] = churn[k + lost]
      BY <2>2 DEF Shifted
    <3>2. k + lost >= slot
      BY <1>3, <1>6, <3>1
    <3> QED
      BY <1>4, <3>1, <3>2
  <2> QED
    BY <2>1, <2>2
<1> QED
  BY <1>3, <1>5, <1>6 DEF Covers

\* One more move is remembered, whatever the two deques lose.
LEMMA MoveRemembered ==
  ASSUME NEW h \in Seq(AdaptationRecord), NEW churn \in Seq(Nat), NEW last \in Nat,
         NEW e \in Nat, NEW t \in Nat, Remembered(h, churn, last, e, t),
         NEW r \in AdaptationRecord, r.adaptation = last + 1, r.at = t,
         NEW longer \in Seq(Nat), Extends(longer, churn, t)
  PROVE  Remembered(Capped(Append(h, r), HistoryLimit), longer, last + 1, e, t)
<1> DEFINE next == Capped(Append(h, r), HistoryLimit)
<1>1. next \in Seq(AdaptationRecord)
  BY CappedType, AppendProperties, LimitsAssumption
<1>2. PICK lost \in Nat : Shifted(next, h, r, lost)
  BY CappedAppend, LimitsAssumption
<1>3. PICK gone \in Nat :
        Shifted(longer, churn, t, gone) /\ (gone > 0 => Len(longer) >= ChurnLimit)
  BY DEF Extends
<1>4. Len(churn) \in Nat /\ Len(longer) \in Nat /\ ChurnLimit \in Nat /\ Len(h) \in Nat
  BY LenProperties, LimitsAssumption
<1>5. ASSUME NEW i \in DOMAIN h PROVE h[i].adaptation \in Nat /\ h[i].at \in Nat
  <2>1. h[i] \in AdaptationRecord
    BY LenProperties
  <2> QED
    BY <2>1 DEF AdaptationRecord
<1>6. \A k \in DOMAIN churn : churn[k] \in Nat
  OBVIOUS
<1> HIDE DEF next
<1> USE DEF Shifted
<1>7. ASSUME NEW i \in DOMAIN next, Counts(next, i, e)
      PROVE  /\ i + lost = Len(h) + 1 => next[i] = r
             /\ i + lost # Len(h) + 1 =>
                  i + lost \in DOMAIN h /\ next[i] = h[i + lost] /\ Counts(h, i + lost, e)
  BY <1>1, <1>2, <1>7, CountsBefore
<1>8. ASSUME NEW i \in DOMAIN next, Counts(next, i, e)
      PROVE  /\ next[i].adaptation <= last + 1 /\ next[i].at <= t
             /\ Covers(longer, next[i].adaptation, next[i].at, last + 1)
  <2>1. CASE i + lost = Len(h) + 1
    <3>1. next[i].adaptation = last + 1 /\ next[i].at = t
      BY <1>7, <1>8, <2>1
    <3>2. Covers(longer, last + 1, t, last + 1)
      <4>1. last + 1 \in Nat
        OBVIOUS
      <4> QED
        BY <1>3, <4>1, NewestCovered
    <3> QED
      BY <3>1, <3>2
  <2>2. CASE i + lost # Len(h) + 1
    <3>1. i + lost \in DOMAIN h /\ next[i] = h[i + lost] /\ Counts(h, i + lost, e)
      BY <1>7, <1>8, <2>2
    <3>2. next[i].adaptation \in Nat /\ next[i].at \in Nat
      BY <1>5, <3>1
    <3>3. /\ next[i].adaptation <= last /\ next[i].at <= t
          /\ Covers(churn, next[i].adaptation, next[i].at, last)
      BY <3>1 DEF Remembered
    <3>4. Covers(longer, next[i].adaptation, next[i].at, last + 1)
      BY <1>3, <3>2, <3>3, StaysCovered
    <3> QED
      BY <3>2, <3>3, <3>4
  <2> QED
    BY <2>1, <2>2
<1>9. ASSUME NEW i \in DOMAIN next, NEW j \in DOMAIN next, Counts(next, i, e),
             Counts(next, j, e), next[i].adaptation = next[j].adaptation
      PROVE  i = j
  <2>1. ASSUME NEW m \in DOMAIN next, Counts(next, m, e)
        PROVE  m + lost = Len(h) + 1 <=> next[m].adaptation = last + 1
    <3>1. CASE m + lost = Len(h) + 1
      BY <1>7, <2>1, <3>1
    <3>2. CASE m + lost # Len(h) + 1
      <4>1. m + lost \in DOMAIN h /\ next[m] = h[m + lost] /\ Counts(h, m + lost, e)
        BY <1>7, <2>1, <3>2
      <4>2. h[m + lost].adaptation <= last /\ h[m + lost].adaptation \in Nat
        BY <1>5, <4>1 DEF Remembered
      <4> QED
        BY <3>2, <4>1, <4>2
    <3> QED
      BY <3>1, <3>2
  <2>2. i \in Nat /\ j \in Nat
    BY <1>2
  <2>3. CASE i + lost = Len(h) + 1
    <3>1. j + lost = Len(h) + 1
      BY <1>9, <2>1, <2>3
    <3> QED
      BY <1>4, <2>2, <2>3, <3>1
  <2>4. CASE i + lost # Len(h) + 1
    <3>1. j + lost # Len(h) + 1
      BY <1>9, <2>1, <2>4
    <3>2. /\ i + lost \in DOMAIN h /\ next[i] = h[i + lost] /\ Counts(h, i + lost, e)
          /\ j + lost \in DOMAIN h /\ next[j] = h[j + lost] /\ Counts(h, j + lost, e)
      BY <1>7, <1>9, <2>4, <3>1
    <3>3. i + lost = j + lost
      BY <1>9, <3>2 DEF Remembered, Distinct
    <3> QED
      BY <2>2, <3>3
  <2> QED
    BY <2>3, <2>4
<1> QED
  BY <1>8, <1>9 DEF Remembered, Distinct, next

\* A suppressed evaluation is recorded and counts for nothing.
LEMMA SuppressedRemembered ==
  ASSUME NEW h \in Seq(AdaptationRecord), NEW churn, NEW last, NEW e \in Nat, NEW t,
         Remembered(h, churn, last, e, t),
         NEW r \in AdaptationRecord, r.kind = "SUPPRESSED"
  PROVE  Remembered(Capped(Append(h, r), HistoryLimit), churn, last, e, t)
<1> DEFINE next == Capped(Append(h, r), HistoryLimit)
<1>1. next \in Seq(AdaptationRecord) /\ Len(h) \in Nat
  BY CappedType, AppendProperties, LenProperties, LimitsAssumption
<1>2. PICK lost \in Nat : Shifted(next, h, r, lost)
  BY CappedAppend, LimitsAssumption
<1> HIDE DEF next
<1> USE DEF Shifted
<1>3. ASSUME NEW i \in DOMAIN next, Counts(next, i, e)
      PROVE  i + lost \in DOMAIN h /\ next[i] = h[i + lost] /\ Counts(h, i + lost, e)
  <2>1. i + lost # Len(h) + 1
    BY <1>2, <1>3 DEF Counts
  <2> QED
    BY <1>1, <1>2, <1>3, <2>1, CountsBefore
<1>4. \A i, j \in DOMAIN next : i + lost = j + lost => i = j
  BY <1>2
<1> QED
  BY <1>3, <1>4 DEF Remembered, Distinct, next

\* The first move of a preference counts for nothing and hides all before it.
LEMMA FirstRemembered ==
  ASSUME NEW h \in Seq(AdaptationRecord), NEW churn, NEW last, NEW e, NEW t,
         NEW r \in AdaptationRecord, r.kind # "SUPPRESSED", r.from = NoPath
  PROVE  Remembered(Capped(Append(h, r), HistoryLimit), churn, last, e, t)
<1> DEFINE next == Capped(Append(h, r), HistoryLimit)
<1>1. next \in Seq(AdaptationRecord) /\ Len(h) \in Nat
  BY CappedType, AppendProperties, LenProperties, LimitsAssumption
<1>2. PICK lost \in Nat : Shifted(next, h, r, lost)
  BY CappedAppend, LimitsAssumption
<1> HIDE DEF next
<1> USE DEF Shifted
<1>3. ASSUME NEW i \in DOMAIN next PROVE ~Counts(next, i, e)
  <2>1. Len(next) \in DOMAIN next /\ Len(next) >= i /\ Len(next) + lost = Len(h) + 1
    BY <1>1, <1>2, LenProperties
  <2>2. next[Len(next)] = r
    BY <1>2, <2>1
  <2> QED
    BY <2>1, <2>2 DEF Counts
<1> QED
  BY <1>3 DEF Remembered, Distinct, next

LEMMA FirstNaturals ==
  ASSUME NEW n \in Nat
  PROVE  IsFiniteSet(1 .. n) /\ Cardinality(1 .. n) = n
<1>1. Cardinality(1 .. n) = IF 1 > n THEN 0 ELSE n - 1 + 1
  BY FS_Interval
<1> QED
  BY <1>1, FS_Interval

\* The ticks of churn that lie in a window ending at tick t.
Recent(churn, t, window) == {k \in DOMAIN churn : t - churn[k] <= window}

\* The moves of h that count and lie in that window.
Made(h, e, t, window) == {i \in DOMAIN h : Counts(h, i, e) /\ t - h[i].at <= window}

\* A move of the window whose slot is lost proves the bound exhausted.
LEMMA LostSlot ==
  ASSUME NEW churn \in Seq(Nat), NEW t \in Nat, NEW window \in Nat,
         NEW at \in Nat, t - at <= window, NEW a \in Nat, NEW newest \in Nat,
         Covers(churn, a, at, newest), Slot(Len(churn), a, newest) < 1
  PROVE  Cardinality(Recent(churn, t, window)) >= ChurnLimit
<1>1. DOMAIN churn = 1 .. Len(churn) /\ Len(churn) \in Nat
  BY LenProperties
<1>2. Len(churn) >= ChurnLimit /\ Slot(Len(churn), a, newest) \in Int
  BY <1>1, SlotShifts DEF Covers
<1>3. ASSUME NEW k \in DOMAIN churn PROVE t - churn[k] <= window
  <2>1. churn[k] >= at
    BY <1>1, <1>2 DEF Covers
  <2>2. churn[k] \in Nat
    OBVIOUS
  <2> QED
    BY <2>1, <2>2
<1>4. Recent(churn, t, window) = 1 .. Len(churn)
  BY <1>1, <1>3 DEF Recent
<1>5. Cardinality(1 .. Len(churn)) = Len(churn)
  BY <1>1, FirstNaturals
<1> QED
  BY <1>2, <1>4, <1>5

\* A move made while churn_commits shows fewer than most moves in the window leaves
\* no more than most of them in the history.
LEMMA ChurnAllows ==
  ASSUME NEW h \in Seq(AdaptationRecord), NEW churn \in Seq(Nat), NEW last \in Nat,
         NEW e \in Nat, NEW t \in Nat, Remembered(h, churn, last, e, t),
         NEW window \in Nat, NEW most \in Nat, most <= ChurnLimit,
         Cardinality(Recent(churn, t, window)) < most,
         NEW r \in AdaptationRecord, r.adaptation = last + 1,
         NEW next, next = Capped(Append(h, r), HistoryLimit),
         Distinct(next, e)
  PROVE  Cardinality(Made(next, e, t, window)) <= most
<1> DEFINE recent == Recent(churn, t, window)
           moves == Made(next, e, t, window)
           slots == recent \union {Len(churn) + 1}
           f == [i \in moves |-> Slot(Len(churn), next[i].adaptation, last)]
<1>1. next \in Seq(AdaptationRecord)
  BY CappedType, AppendProperties, LimitsAssumption
<1>2. PICK lost \in Nat : Shifted(next, h, r, lost)
  BY CappedAppend, LimitsAssumption
<1>3. DOMAIN churn = 1 .. Len(churn) /\ Len(churn) \in Nat /\ ChurnLimit \in Nat
  BY LenProperties, LimitsAssumption
<1>4. IsFiniteSet(recent) /\ Cardinality(recent) \in Nat
  <2>1. IsFiniteSet(1 .. Len(churn)) /\ recent \subseteq 1 .. Len(churn)
    BY <1>3, FS_Interval DEF Recent
  <2> QED
    BY <2>1, FS_Subset, FS_CardinalityType
<1>5. ASSUME NEW i \in moves
      PROVE  next[i].adaptation \in Nat /\ f[i] \in slots
  <2>1. i \in DOMAIN next /\ Counts(next, i, e) /\ t - next[i].at <= window
    BY DEF Made
  <2>2. next[i] \in AdaptationRecord
    BY <1>1, <2>1
  <2>3. next[i].adaptation \in Nat /\ next[i].at \in Nat
    BY <2>2 DEF AdaptationRecord
  <2>4. CASE i + lost = Len(h) + 1
    <3>1. next[i] = r
      BY <1>2, <2>1, <2>4 DEF Shifted
    <3>2. Slot(Len(churn), last + 1, last) = Len(churn) + 1
      BY <1>3 DEF Slot
    <3> QED
      BY <2>3, <3>1, <3>2
  <2>5. CASE i + lost # Len(h) + 1
    <3>1. i + lost \in DOMAIN h /\ next[i] = h[i + lost] /\ Counts(h, i + lost, e)
      BY <1>1, <1>2, <2>1, <2>5, CountsBefore
    <3>2. /\ next[i].adaptation <= last
          /\ Covers(churn, next[i].adaptation, next[i].at, last)
      BY <3>1 DEF Remembered
    <3>3. ~(f[i] < 1)
      <4>1. f[i] < 1 => Cardinality(recent) >= ChurnLimit
        BY <2>1, <2>3, <3>2, LostSlot
      <4> QED
        BY <1>3, <1>4, <4>1
    <3>4. f[i] = Len(churn) - (last - next[i].adaptation)
      BY DEF Slot
    <3>5. f[i] \in 1 .. Len(churn)
      BY <1>3, <2>3, <3>2, <3>3, <3>4
    <3>6. churn[f[i]] >= next[i].at
      BY <1>3, <3>2, <3>5 DEF Covers
    <3>7. churn[f[i]] \in Nat
      BY <1>3, <3>5
    <3>8. t - churn[f[i]] <= window
      BY <2>1, <2>3, <3>6, <3>7, SMTT(30)
    <3> QED
      BY <1>3, <2>3, <3>5, <3>8 DEF Recent
  <2> QED
    BY <2>4, <2>5
<1>6. f \in Injection(moves, slots)
  <2>1. f \in [moves -> slots]
    BY <1>5
  <2>2. ASSUME NEW i \in moves, NEW j \in moves, f[i] = f[j] PROVE i = j
    <3>1. /\ f[i] = Len(churn) - (last - next[i].adaptation)
          /\ f[j] = Len(churn) - (last - next[j].adaptation)
      BY DEF Slot
    <3>2. next[i].adaptation \in Nat /\ next[j].adaptation \in Nat
      BY <1>5
    <3>3. next[i].adaptation = next[j].adaptation
      <4> DEFINE a == next[i].adaptation
                 b == next[j].adaptation
      <4>1. Len(churn) - (last - a) = Len(churn) - (last - b)
        BY <2>2, <3>1
      <4>2. a \in Nat /\ b \in Nat
        BY <3>2
      <4> HIDE DEF a, b
      <4>3. a = b
        BY <1>3, <4>1, <4>2
      <4> QED
        BY <4>3 DEF a, b
    <3> QED
      BY <3>3 DEF Made, Distinct
  <2> QED
    BY <2>1, <2>2 DEF Injection, IsInjective
<1>7. /\ IsFiniteSet(slots) /\ Cardinality(slots) <= Cardinality(recent) + 1
      /\ Cardinality(slots) \in Nat
  <2>1. IsFiniteSet(slots)
    BY <1>4, FS_AddElement
  <2>2. Cardinality(slots) =
          IF Len(churn) + 1 \in recent THEN Cardinality(recent) ELSE Cardinality(recent) + 1
    BY <1>4, FS_AddElement
  <2> QED
    BY <1>4, <2>1, <2>2, FS_CardinalityType
<1> HIDE DEF moves, slots, recent, f
<1>8. IsFiniteSet(moves) /\ Cardinality(moves) <= Cardinality(slots)
  BY <1>6, <1>7, FS_Injection
<1>9. Cardinality(moves) \in Nat
  BY <1>8, FS_CardinalityType
<1>10. Cardinality(recent) < most
  BY DEF recent
<1>11. Cardinality(moves) <= most
  BY <1>4, <1>7, <1>8, <1>9, <1>10
<1> QED
  BY <1>11 DEF moves

\* A deque appended to without pruning loses nothing.
LEMMA AppendExtends ==
  ASSUME NEW churn \in Seq(Nat), NEW t \in Nat
  PROVE  Append(churn, t) \in Seq(Nat) /\ Extends(Append(churn, t), churn, t)
<1> DEFINE next == Append(churn, t)
<1>1. /\ next \in Seq(Nat) /\ Len(next) = Len(churn) + 1 /\ Len(churn) \in Nat
      /\ \A i \in 1 .. Len(churn) : next[i] = churn[i]
      /\ next[Len(churn) + 1] = t
      /\ DOMAIN churn = 1 .. Len(churn) /\ DOMAIN next = 1 .. Len(next)
  BY AppendProperties, LenProperties
<1> HIDE DEF next
<1>2. Shifted(next, churn, t, 0)
  BY <1>1 DEF Shifted
<1>3. 0 \in Nat /\ ~(0 > 0)
  OBVIOUS
<1>4. Extends(next, churn, t)
  BY <1>2, <1>3 DEF Extends
<1> QED
  BY <1>1, <1>4 DEF next

LEMMA CappedExtends ==
  ASSUME NEW churn \in Seq(Nat), NEW t \in Nat
  PROVE  /\ Capped(Append(churn, t), ChurnLimit) \in Seq(Nat)
         /\ Extends(Capped(Append(churn, t), ChurnLimit), churn, t)
<1>1. Capped(Append(churn, t), ChurnLimit) \in Seq(Nat)
  BY CappedType, AppendProperties, LimitsAssumption
<1>2. \E lost \in Nat :
        /\ Shifted(Capped(Append(churn, t), ChurnLimit), churn, t, lost)
        /\ lost > 0 => Len(Capped(Append(churn, t), ChurnLimit)) >= ChurnLimit
  BY CappedAppend, LimitsAssumption
<1> QED
  BY <1>1, <1>2 DEF Extends

\* A record of this epoch leaves no record of a later one.
LEMMA RecordedPast ==
  ASSUME NEW h \in Seq(AdaptationRecord), NEW r \in AdaptationRecord,
         \A i \in DOMAIN h : h[i].epoch <= epoch, r.epoch = epoch, epoch \in Nat
  PROVE  LET next == Capped(Append(h, r), HistoryLimit)
         IN  \A i \in DOMAIN next : next[i].epoch <= epoch
<1> DEFINE next == Capped(Append(h, r), HistoryLimit)
<1>1. PICK lost \in Nat : Shifted(next, h, r, lost)
  BY CappedAppend, LimitsAssumption
<1> HIDE DEF next
<1>2. \A i \in DOMAIN next : next[i].epoch <= epoch
  BY <1>1 DEF Shifted
<1> QED
  BY <1>2 DEF next

-----------------------------------------------------------------------------
(* The churn bound: every action keeps the list and the history in step *)

ChurnInv == TimingInv /\ HistoryIsPast /\ ChurnRemembered

\* The part of one policy.
ChurnPart(p) ==
  /\ \A i \in DOMAIN history[p] : history[p][i].epoch <= epoch
  /\ preference[p].established =>
       Remembered(history[p], timing[p].churn, preference[p].adaptation, epoch, now)

LEMMA ChurnParts == ChurnInv <=> TimingInv /\ \A p \in Policies : ChurnPart(p)
BY DEF ChurnInv, HistoryIsPast, ChurnRemembered, ChurnPart

LEMMA ChurnTypes ==
  ASSUME TypeOK, NEW p \in Policies
  PROVE  /\ history[p] \in Seq(AdaptationRecord) /\ timing[p].churn \in Seq(Nat)
         /\ preference[p].adaptation \in Nat /\ epoch \in Nat /\ now \in Nat
         /\ preference[p].path \in Paths \union {NoPath}
BY DEF TypeOK, TimingState, RoutingPreference

\* Time passes, and what is remembered stays so.
LEMMA RememberedLater ==
  ASSUME NEW h \in Seq(AdaptationRecord), NEW churn, NEW last, NEW e,
         NEW t \in Nat, NEW later \in Nat, t <= later, Remembered(h, churn, last, e, t)
  PROVE  Remembered(h, churn, last, e, later)
<1>1. ASSUME NEW i \in DOMAIN h, h[i].at <= t PROVE h[i].at <= later
  <2>1. h[i] \in AdaptationRecord
    BY LenProperties
  <2>2. h[i].at \in Nat
    BY <2>1 DEF AdaptationRecord
  <2> QED
    BY <1>1, <2>2
<1> QED
  BY <1>1 DEF Remembered

\* A policy whose records the step leaves alone.
LEMMA ChurnOther ==
  ASSUME TypeOK, TypeOK', NEW p \in Policies, ChurnPart(p), now <= now', epoch' = epoch,
         history'[p] = history[p],
         \/ preference'[p] = preference[p] /\ timing'[p] = timing[p]
         \/ ~preference'[p].established
  PROVE  ChurnPart(p)'
<1>1. now \in Nat /\ now' \in Nat /\ history[p] \in Seq(AdaptationRecord)
  BY DEF TypeOK
<1> QED
  BY <1>1, RememberedLater DEF ChurnPart

LEMMA CommitChurn ==
  ASSUME ChurnInv, CoreInv', NEW t \in tickets, CommitEvaluation(t), NEW q \in Policies
  PROVE  ChurnPart(q)'
<1> DEFINE p == t.policy
           cause == IF t.emergency THEN "EMERGENCY_OVERRIDE" ELSE "TRIGGER_SATISFIED"
           r == [kind |-> "COMMITTED", cause |-> cause, from |-> preference[p].path,
                 to |-> t.target, adaptation |-> preference[p].adaptation + 1,
                 epoch |-> epoch, at |-> now]
<1>1. TypeOK /\ TypeOK' /\ EstablishedHasPath /\ ChurnPart(q)
  BY ChurnParts DEF ChurnInv, TimingInv, CoreInv
<1>2. p \in Policies /\ t.target \in Paths
  BY <1>1 DEF TypeOK, Ticket, CommitEvaluation
<1>3. /\ preference' = [preference EXCEPT ![p] = Installed(p, t.target, cause, t.weighted)]
      /\ timing' = [timing EXCEPT ![p] = ArmedTiming(p)]
      /\ history' = [history EXCEPT ![p] = Capped(Append(history[p], r), HistoryLimit)]
      /\ UNCHANGED <<now, epoch>>
  BY DEF CommitEvaluation, Recorded
<1>4. r \in AdaptationRecord
  BY <1>1, <1>2, ChurnTypes DEF AdaptationRecord, Causes
<1>5. r.epoch = epoch /\ r.adaptation = preference[p].adaptation + 1 /\ r.at = now
      /\ r.kind = "COMMITTED" /\ r.from = preference[p].path
  OBVIOUS
<1> HIDE DEF p, cause, r
<1>6. CASE q # p
  <2>1. /\ history'[q] = history[q] /\ preference'[q] = preference[q]
        /\ timing'[q] = timing[q]
    BY <1>1, <1>3, <1>6 DEF TypeOK
  <2>2. now <= now'
    BY <1>1, <1>3 DEF TypeOK
  <2> QED
    BY <1>1, <1>3, <2>1, <2>2, ChurnOther
<1>7. CASE q = p
  <2>1. /\ history'[p] = Capped(Append(history[p], r), HistoryLimit)
        /\ preference'[p] = Installed(p, t.target, cause, t.weighted)
        /\ timing'[p] = ArmedTiming(p)
    BY <1>1, <1>2, <1>3 DEF TypeOK
  <2>2. preference'[p].adaptation = preference[p].adaptation + 1
    BY <2>1 DEF Installed
  <2>3. \A i \in DOMAIN history'[p] : history'[p][i].epoch <= epoch
    BY <1>1, <1>4, <1>5, <1>7, <2>1, RecordedPast, ChurnTypes DEF ChurnPart
  <2>4. Remembered(history'[p], timing'[p].churn, preference[p].adaptation + 1, epoch, now)
    <3>1. CASE ~preference[p].established
      <4>1. r.from = NoPath
        BY <1>1, <1>2, <1>5, <3>1 DEF EstablishedHasPath
      <4> QED
        BY <1>1, <1>2, <1>4, <1>5, <2>1, <4>1, FirstRemembered, ChurnTypes
    <3>2. CASE preference[p].established
      <4>1. timing'[p].churn = Capped(Append(timing[p].churn, now), ChurnLimit)
        BY <2>1, <3>2 DEF ArmedTiming
      <4>2. timing'[p].churn \in Seq(Nat) /\ Extends(timing'[p].churn, timing[p].churn, now)
        BY <1>1, <1>2, <4>1, CappedExtends, ChurnTypes
      <4>3. Remembered(history[p], timing[p].churn, preference[p].adaptation, epoch, now)
        BY <1>1, <1>7, <3>2 DEF ChurnPart
      <4> QED
        BY <1>1, <1>2, <1>4, <1>5, <2>1, <4>2, <4>3, MoveRemembered, ChurnTypes
    <3> QED
      BY <3>1, <3>2
  <2> QED
    BY <1>3, <1>7, <2>2, <2>3, <2>4 DEF ChurnPart
<1> QED
  BY <1>6, <1>7

LEMMA RollbackChurn ==
  ASSUME ChurnInv, CoreInv', NEW p \in Policies, Rollback(p), NEW q \in Policies
  PROVE  ChurnPart(q)'
<1> DEFINE r == [kind |-> "ROLLED_BACK", cause |-> "ROLLBACK_REQUESTED",
                 from |-> preference[p].path, to |-> stable[p].path,
                 adaptation |-> preference[p].adaptation + 1,
                 epoch |-> epoch, at |-> now]
<1>1. TypeOK /\ TypeOK' /\ AnchorIsDisplaced /\ ChurnPart(q)
  BY ChurnParts DEF ChurnInv, TimingInv, CoreInv
<1>2. preference[p].established /\ stable[p].path \in Paths \union {NoPath}
  BY <1>1 DEF AnchorIsDisplaced, Rollback, TypeOK, StableState
<1>3. /\ preference' = [preference EXCEPT ![p] =
           Installed(p, stable[p].path, "ROLLBACK_REQUESTED", preference[p].weighted)]
      /\ timing' = [timing EXCEPT ![p] = RollbackTiming(p)]
      /\ history' = [history EXCEPT ![p] = Capped(Append(history[p], r), HistoryLimit)]
      /\ UNCHANGED <<now, epoch>>
  BY DEF Rollback, Recorded
<1>4. r \in AdaptationRecord
  BY <1>1, <1>2, ChurnTypes DEF AdaptationRecord, Causes
<1>5. r.epoch = epoch /\ r.adaptation = preference[p].adaptation + 1 /\ r.at = now
  OBVIOUS
<1> HIDE DEF r
<1>6. CASE q # p
  <2>1. /\ history'[q] = history[q] /\ preference'[q] = preference[q]
        /\ timing'[q] = timing[q]
    BY <1>1, <1>3, <1>6 DEF TypeOK
  <2>2. now <= now'
    BY <1>1, <1>3 DEF TypeOK
  <2> QED
    BY <1>1, <1>3, <2>1, <2>2, ChurnOther
<1>7. CASE q = p
  <2>1. /\ history'[p] = Capped(Append(history[p], r), HistoryLimit)
        /\ timing'[p] = RollbackTiming(p)
        /\ preference'[p] =
             Installed(p, stable[p].path, "ROLLBACK_REQUESTED", preference[p].weighted)
    BY <1>1, <1>3 DEF TypeOK
  <2>2. preference'[p].adaptation = preference[p].adaptation + 1
    BY <2>1 DEF Installed
  <2>3. \A i \in DOMAIN history'[p] : history'[p][i].epoch <= epoch
    BY <1>1, <1>4, <1>5, <1>7, <2>1, RecordedPast, ChurnTypes DEF ChurnPart
  <2>4. timing'[p].churn = Append(timing[p].churn, now)
    <3>1. timing[p] \in TimingState
      BY <1>1 DEF TypeOK
    <3> QED
      BY <2>1, <3>1 DEF RollbackTiming, TimingState
  <2>5. timing'[p].churn \in Seq(Nat) /\ Extends(timing'[p].churn, timing[p].churn, now)
    BY <1>1, <2>4, AppendExtends, ChurnTypes
  <2>6. Remembered(history[p], timing[p].churn, preference[p].adaptation, epoch, now)
    BY <1>1, <1>2, <1>7 DEF ChurnPart
  <2>7. Remembered(history'[p], timing'[p].churn, preference[p].adaptation + 1, epoch, now)
    BY <1>1, <1>4, <1>5, <2>1, <2>5, <2>6, MoveRemembered, ChurnTypes
  <2> QED
    BY <1>3, <1>7, <2>2, <2>3, <2>7 DEF ChurnPart
<1> QED
  BY <1>6, <1>7

LEMMA SuppressedChurn ==
  ASSUME ChurnInv, CoreInv', NEW t \in tickets, CommitSuppressed(t), NEW q \in Policies
  PROVE  ChurnPart(q)'
<1> DEFINE p == t.policy
           r == [kind |-> "SUPPRESSED", cause |-> "TRIGGER_SATISFIED",
                 from |-> preference[p].path, to |-> t.target,
                 adaptation |-> preference[p].adaptation, epoch |-> epoch, at |-> now]
<1>1. TypeOK /\ TypeOK' /\ ChurnPart(q)
  BY ChurnParts DEF ChurnInv, TimingInv, CoreInv
<1>2. p \in Policies /\ t.target \in Paths \union {NoPath}
  BY <1>1 DEF TypeOK, Ticket
<1>3. /\ history' = [history EXCEPT ![p] = Capped(Append(history[p], r), HistoryLimit)]
      /\ UNCHANGED <<now, epoch, preference, timing>>
  BY DEF CommitSuppressed, Recorded
<1>4. r \in AdaptationRecord
  BY <1>1, <1>2, ChurnTypes DEF AdaptationRecord, Causes
<1>5. r.epoch = epoch /\ r.kind = "SUPPRESSED"
  OBVIOUS
<1> HIDE DEF p, r
<1>6. CASE q # p
  <2>1. history'[q] = history[q] /\ now <= now'
    BY <1>1, <1>3, <1>6 DEF TypeOK
  <2> QED
    BY <1>1, <1>3, <2>1, ChurnOther
<1>7. CASE q = p
  <2>1. history'[p] = Capped(Append(history[p], r), HistoryLimit)
    BY <1>1, <1>2, <1>3 DEF TypeOK
  <2>2. \A i \in DOMAIN history'[p] : history'[p][i].epoch <= epoch
    BY <1>1, <1>4, <1>5, <1>7, <2>1, RecordedPast, ChurnTypes DEF ChurnPart
  <2>3. preference[p].established =>
          Remembered(history'[p], timing[p].churn, preference[p].adaptation, epoch, now)
    BY <1>1, <1>4, <1>5, <1>7, <2>1, SuppressedRemembered, ChurnTypes DEF ChurnPart
  <2> QED
    BY <1>3, <1>7, <2>2, <2>3 DEF ChurnPart
<1> QED
  BY <1>6, <1>7

\* After an epoch advance no move of the history counts any more.
LEMMA AdvanceChurn ==
  ASSUME ChurnInv, AdvanceEpoch, NEW q \in Policies
  PROVE  ChurnPart(q)'
<1>1. TypeOK /\ ChurnPart(q) /\ epoch' = epoch + 1 /\ history' = history
  BY ChurnParts DEF ChurnInv, TimingInv, CoreInv, AdvanceEpoch
<1>2. epoch \in Nat /\ history[q] \in Seq(AdaptationRecord)
  BY <1>1 DEF TypeOK
<1>3. ASSUME NEW i \in DOMAIN history[q]
      PROVE  history[q][i].epoch <= epoch' /\ history[q][i].epoch # epoch'
  <2>1. history[q][i] \in AdaptationRecord /\ history[q][i].epoch <= epoch
    BY <1>1, <1>2 DEF ChurnPart
  <2>2. history[q][i].epoch \in Nat
    BY <2>1 DEF AdaptationRecord
  <2> QED
    BY <1>1, <1>2, <2>1, <2>2
<1> QED
  BY <1>1, <1>3 DEF ChurnPart, Remembered, Distinct, Counts

LEMMA ChurnStep == ChurnInv /\ [Next]_vars => ChurnInv'
<1> SUFFICES ASSUME ChurnInv, [Next]_vars, NEW q \in Policies PROVE ChurnPart(q)'
  <2>1. ChurnInv /\ [Next]_vars => TimingInv'
    BY TimingStep DEF ChurnInv
  <2>2. ChurnInv' <=> TimingInv' /\ \A p \in Policies : ChurnPart(p)'
    BY DEF ChurnInv, HistoryIsPast, ChurnRemembered, ChurnPart
  <2> QED
    BY <2>1, <2>2
<1>0. CoreInv' /\ TypeOK /\ TypeOK' /\ ChurnPart(q) /\ now \in Nat
  BY CoreStep, ChurnParts DEF ChurnInv, TimingInv, CoreInv, TypeOK
<1>1. ASSUME now <= now', UNCHANGED <<epoch, preference, timing, history>>
      PROVE  ChurnPart(q)'
  BY <1>0, <1>1, ChurnOther
<1>2. ASSUME NEW p \in Policies, NEW s \in Semantics, UpdatePolicy(p, s)
      PROVE  ChurnPart(q)'
  <2>1. /\ UNCHANGED <<now, epoch, history>>
        /\ \/ UNCHANGED <<preference, timing>>
           \/ /\ preference' = [preference EXCEPT ![p] = NoPreference]
              /\ timing' = [timing EXCEPT ![p] = NoTiming]
    BY <1>2 DEF UpdatePolicy
  <2>2. \/ preference'[q] = preference[q] /\ timing'[q] = timing[q]
        \/ preference'[q] = NoPreference
    BY <1>0, <2>1 DEF TypeOK
  <2>3. preference'[q] = NoPreference => ~preference'[q].established
    BY DEF NoPreference
  <2> QED
    BY <1>0, <2>1, <2>2, <2>3, ChurnOther
<1>3. ASSUME NEW t \in tickets, CommitEvaluation(t) PROVE ChurnPart(q)'
  BY <1>0, <1>3, CommitChurn
<1>4. ASSUME NEW t \in tickets, CommitSuppressed(t) PROVE ChurnPart(q)'
  BY <1>0, <1>4, SuppressedChurn
<1>5. ASSUME NEW p \in Policies, Rollback(p) PROVE ChurnPart(q)'
  BY <1>0, <1>5, RollbackChurn
<1>6. CASE AdvanceEpoch
  BY <1>6, AdvanceChurn
<1>7. ASSUME NEW p \in Policies,
             \/ \E s \in Semantics : CreatePolicy(p, s)
             \/ \E event \in Operations : TransitionPolicy(p, event)
             \/ RevokePolicy(p) \/ BeginEvaluation(p)
             \/ \E x \in Paths, event \in Events, b \in Bindings : ApplyUpstream(p, x, event, b)
      PROVE  ChurnPart(q)'
  <2>1. UNCHANGED <<now, epoch, preference, timing, history>>
    BY <1>7 DEF CreatePolicy, TransitionPolicy, RevokePolicy, BeginEvaluation,
                ApplyUpstream, recordVars
  <2> QED
    BY <1>0, <1>1, <2>1
<1>8. ASSUME NEW x \in Paths, NEW value \in Values, NEW quality \in Qualities,
             NEW newIncarnation \in BOOLEAN,
             PublishEvidence(x, value, quality, newIncarnation)
      PROVE  ChurnPart(q)'
  BY <1>0, <1>1, <1>8 DEF PublishEvidence, recordVars
<1>9. ASSUME NEW t \in tickets, DropTicket(t) PROVE ChurnPart(q)'
  BY <1>0, <1>1, <1>9 DEF DropTicket, recordVars
<1>10. CASE Tick \/ UNCHANGED vars
  <2>1. (now' = now + 1 \/ now' = now) /\ UNCHANGED <<epoch, preference, timing, history>>
    BY <1>10 DEF Tick, vars, recordVars
  <2> QED
    BY <1>0, <1>1, <2>1
<1> QED
  BY <1>2, <1>3, <1>4, <1>5, <1>6, <1>7, <1>8, <1>9, <1>10 DEF Next

LEMMA ChurnInvariant == Spec => []ChurnInv
<1>1. Init => ChurnInv
  BY TimingInit DEF Init, ChurnInv, HistoryIsPast, ChurnRemembered, NoPreference
<1> QED
  BY <1>1, ChurnStep, PTL DEF Spec

(***************************************************************************)
(* create_policy refuses a churn bound above max_adaptations_per_window,   *)
(* the number of commits the engine remembers; update_policy does not.     *)
(***************************************************************************)
UpdatesFit ==
  \A p \in Policies, s \in Semantics : UpdatePolicy(p, s) => s.churnMax <= ChurnLimit

RulesFit ==
  \A p \in Policies : lifecycle[p] # Absent => semantics[p].churnMax <= ChurnLimit

LEMMA RulesFitStep == TypeOK /\ RulesFit /\ [UpdatesFit]_vars /\ [Next]_vars => RulesFit'
<1> SUFFICES ASSUME TypeOK, RulesFit, [UpdatesFit]_vars, [Next]_vars, NEW q \in Policies,
                    lifecycle'[q] # Absent
             PROVE  semantics'[q].churnMax <= ChurnLimit
  BY DEF RulesFit
<1>0. semantics \in [Policies -> Semantics] /\ lifecycle \in [Policies -> PolicyLifecycle \union {Absent}]
  BY DEF TypeOK
<1>1. ASSUME semantics'[q] = semantics[q], lifecycle[q] # Absent
      PROVE  semantics'[q].churnMax <= ChurnLimit
  BY <1>1 DEF RulesFit
<1>2. ASSUME NEW p \in Policies, NEW s \in Semantics, CreatePolicy(p, s)
      PROVE  semantics'[q].churnMax <= ChurnLimit
  <2>1. CASE q = p
    <3>1. semantics'[q] = s /\ (s.churnMax # 0 => s.churnMax <= ChurnLimit)
      BY <1>0, <1>2, <2>1 DEF CreatePolicy
    <3> QED
      BY <3>1, LimitsAssumption
  <2>2. CASE q # p
    BY <1>0, <1>1, <1>2, <2>2 DEF CreatePolicy
  <2> QED
    BY <2>1, <2>2
<1>3. ASSUME NEW p \in Policies, NEW s \in Semantics, UpdatePolicy(p, s)
      PROVE  semantics'[q].churnMax <= ChurnLimit
  <2>1. /\ semantics' = [semantics EXCEPT ![p] = s] /\ lifecycle' = lifecycle
        /\ generation' = [generation EXCEPT ![p] = @ + 1]
    BY <1>3 DEF UpdatePolicy
  <2>2. CASE q = p
    <3>1. generation'[p] = generation[p] + 1 /\ generation[p] \in Nat
      BY <2>1 DEF TypeOK
    <3>2. vars' # vars
      BY <3>1 DEF vars, policyVars
    <3>3. s.churnMax <= ChurnLimit
      BY <1>3, <3>2 DEF UpdatesFit
    <3> QED
      BY <1>0, <2>1, <2>2, <3>3
  <2>3. CASE q # p
    BY <1>0, <1>1, <2>1, <2>3
  <2> QED
    BY <2>2, <2>3
<1>4. ASSUME NEW p \in Policies, NEW event \in Operations, TransitionPolicy(p, event)
      PROVE  semantics'[q].churnMax <= ChurnLimit
  <2>1. PICK next \in PolicyTransition(lifecycle[p], event) :
          lifecycle' = [lifecycle EXCEPT ![p] = next]
    BY <1>4 DEF TransitionPolicy
  <2>2. lifecycle[p] # Absent
    BY <2>1 DEF PolicyTransition, Absent
  <2> QED
    BY <1>0, <1>1, <1>4, <2>1, <2>2 DEF TransitionPolicy
<1>5. ASSUME NEW p \in Policies, RevokePolicy(p)
      PROVE  semantics'[q].churnMax <= ChurnLimit
  BY <1>0, <1>1, <1>5 DEF RevokePolicy
<1>6. CASE AdvanceEpoch
  BY <1>0, <1>1, <1>6 DEF AdvanceEpoch
<1>7. ASSUME UNCHANGED policyVars
      PROVE  semantics'[q].churnMax <= ChurnLimit
  BY <1>1, <1>7 DEF policyVars
<1>8. ASSUME NEW p \in Policies,
             \/ BeginEvaluation(p) \/ Rollback(p)
             \/ \E x \in Paths, event \in Events, b \in Bindings : ApplyUpstream(p, x, event, b)
      PROVE  semantics'[q].churnMax <= ChurnLimit
  BY <1>7, <1>8 DEF BeginEvaluation, Rollback, ApplyUpstream
<1>9. ASSUME NEW x \in Paths, NEW value \in Values, NEW quality \in Qualities,
             NEW newIncarnation \in BOOLEAN,
             PublishEvidence(x, value, quality, newIncarnation)
      PROVE  semantics'[q].churnMax <= ChurnLimit
  BY <1>7, <1>9 DEF PublishEvidence
<1>10. ASSUME NEW t \in tickets, CommitEvaluation(t) \/ CommitSuppressed(t) \/ DropTicket(t)
       PROVE  semantics'[q].churnMax <= ChurnLimit
  BY <1>7, <1>10 DEF CommitEvaluation, CommitSuppressed, DropTicket
<1>11. CASE Tick \/ UNCHANGED vars
  BY <1>7, <1>11 DEF Tick, vars
<1> QED
  BY <1>2, <1>3, <1>4, <1>5, <1>6, <1>8, <1>9, <1>10, <1>11 DEF Next

LEMMA ChurnBoundStep ==
  ASSUME ChurnInv, RulesFit, [Next]_vars, NEW p \in Policies
  PROVE  StaysInChurnBound(p)
<1> SUFFICES ASSUME Moves(p), preference'[p].cause = "TRIGGER_SATISFIED",
                    semantics[p].churnMax # 0
             PROVE  Cardinality(RecentMoves(p, history'[p])) <= semantics[p].churnMax
  BY DEF StaysInChurnBound
<1>1. TypeOK /\ ChurnInv' /\ ChurnPart(p)
  BY ChurnStep, ChurnParts DEF ChurnInv, TimingInv, CoreInv
<1>2. PICK t \in tickets : t.policy = p /\ CommitEvaluation(t) /\ ~ChurnExhausted(p)
  BY <1>1, OrdinaryMove DEF Suppressed, Moves
<1> DEFINE cause == IF t.emergency THEN "EMERGENCY_OVERRIDE" ELSE "TRIGGER_SATISFIED"
           r == [kind |-> "COMMITTED", cause |-> cause, from |-> preference[p].path,
                 to |-> t.target, adaptation |-> preference[p].adaptation + 1,
                 epoch |-> epoch, at |-> now]
           next == history'[p]
           window == semantics[p].churnWindow
           most == semantics[p].churnMax
<1>3. /\ history' = [history EXCEPT ![p] = Capped(Append(history[p], r), HistoryLimit)]
      /\ UNCHANGED <<now, epoch>> /\ lifecycle[p] = "ACTIVE"
  BY <1>2 DEF CommitEvaluation, Recorded, TicketCurrent
<1>4. t.target \in Paths
  BY <1>1, <1>2 DEF TypeOK, CommitEvaluation
<1>5. r \in AdaptationRecord /\ r.adaptation = preference[p].adaptation + 1
  BY <1>1, <1>4, ChurnTypes DEF AdaptationRecord, Causes
<1> HIDE DEF cause, r
<1>6. next = Capped(Append(history[p], r), HistoryLimit)
  BY <1>1, <1>3 DEF TypeOK
<1>7. window \in Nat /\ most \in Nat /\ most <= ChurnLimit
  <2>1. semantics[p] \in PolicySemantics
    BY <1>1, SemanticsType
  <2>2. lifecycle[p] # Absent
    BY <1>3 DEF Absent
  <2> QED
    BY <2>1, <2>2 DEF PolicySemantics, RulesFit
<1>8. Cardinality(Recent(timing[p].churn, now, window)) < most
  <2>1. RecentCommits(p) = Recent(timing[p].churn, now, window)
    BY DEF RecentCommits, Recent
  <2>2. ~(Cardinality(RecentCommits(p)) >= most)
    BY <1>2 DEF ChurnExhausted
  <2>3. Cardinality(RecentCommits(p)) \in Nat
    <3>1. timing[p].churn \in Seq(Nat)
      BY <1>1, ChurnTypes
    <3>2. DOMAIN timing[p].churn = 1 .. Len(timing[p].churn) /\ Len(timing[p].churn) \in Nat
      BY <3>1, LenProperties
    <3>3. IsFiniteSet(DOMAIN timing[p].churn)
      BY <3>2, FirstNaturals
    <3>4. RecentCommits(p) \subseteq DOMAIN timing[p].churn
      BY DEF RecentCommits
    <3> QED
      BY <3>3, <3>4, FS_Subset, FS_CardinalityType
  <2> QED
    BY <1>7, <2>1, <2>2, <2>3
<1>9. Remembered(history[p], timing[p].churn, preference[p].adaptation, epoch, now)
  BY <1>1 DEF ChurnPart, Moves
<1>10. Distinct(next, epoch)
  BY <1>1, <1>3 DEF ChurnInv, ChurnRemembered, Remembered, Moves
<1>11. RecentMoves(p, next) = Made(next, epoch, now, window)
  BY DEF RecentMoves, Counts, Made
<1> HIDE DEF next, window, most
<1>12. Cardinality(Made(next, epoch, now, window)) <= most
  <2> DEFINE h == history[p]
             churn == timing[p].churn
             last == preference[p].adaptation
  <2>1. /\ h \in Seq(AdaptationRecord) /\ churn \in Seq(Nat) /\ last \in Nat
        /\ epoch \in Nat /\ now \in Nat
    BY <1>1, ChurnTypes
  <2>2. /\ Remembered(h, churn, last, epoch, now)
        /\ Cardinality(Recent(churn, now, window)) < most
        /\ r.adaptation = last + 1 /\ next = Capped(Append(h, r), HistoryLimit)
    BY <1>5, <1>6, <1>8, <1>9
  <2> HIDE DEF h, churn, last
  <2> QED
    BY <1>5, <1>7, <1>10, <2>1, <2>2, ChurnAllows
<1> QED
  BY <1>11, <1>12 DEF next, most

(***************************************************************************)
(* An ordinary adaptation never makes the moves inside the declared window *)
(* exceed the churn bound, however the pruned churn list and the pruned    *)
(* history drift apart, unless an update carries a churn bound above the   *)
(* number of commits the engine remembers (verify_and_commit, rollback).   *)
(***************************************************************************)
THEOREM ChurnCorrect == Spec /\ [][UpdatesFit]_vars => ChurnBounded
<1>1. Init => RulesFit
  BY DEF Init, RulesFit
<1>2. ChurnInv => TypeOK
  BY DEF ChurnInv, TimingInv, CoreInv
<1>3. ChurnInv /\ RulesFit /\ [Next]_vars => [\A p \in Policies : StaysInChurnBound(p)]_vars
  BY ChurnBoundStep
<1> QED
  BY <1>1, <1>2, <1>3, RulesFitStep, ChurnInvariant, PTL DEF Spec, ChurnBounded
=============================================================================
