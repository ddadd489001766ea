----------------------------- MODULE Adaptation -----------------------------
(***************************************************************************)
(* The decision engine of Adaptive Routing Fabric: policies, the upstream  *)
(* bindings of their candidate paths, two-phase evaluation, atomic commit, *)
(* rollback, policy lifecycle and the epoch advance.                       *)
(*                                                                         *)
(* Every engine operation runs under one lock (Impl::mutex_), so one       *)
(* operation is one action.  The exception is evaluation: phase one copies *)
(* its inputs under the shared lock and decides without it, phase two      *)
(* (commit_evaluation) runs later under the exclusive lock.  What happens  *)
(* between the two phases is what this module is about.                    *)
(*                                                                         *)
(* An operation that the code refuses changes none of the state kept here  *)
(* and is no step.  Callers are taken to pass check_caller, with an attempt*)
(* id of their own.  A batch of upstream notifications is applied one      *)
(* notification after the other by the code, so one notification is one    *)
(* action.                                                                 *)
(***************************************************************************)
EXTENDS Integers, Sequences, FiniteSets

CONSTANTS
  Policies,       \* AdaptivePolicyId values
  Paths,          \* PathId values, numbered in canonical PathId order
  Semantics,      \* the PolicySemantics a create or an update may carry
  Bindings,       \* the CandidateBinding values a notification may carry
  Events,         \* the upstream events that happen
  Operations,     \* the lifecycle events operators request
  Values,         \* aggregated metric values; the metric is a latency
  Qualities,      \* evidence quality ranks
  IndexCap,       \* Limits: 16 * max_policies_per_path
  PendingLimit,   \* Limits: max_pending_transitions
  HistoryLimit,   \* Limits: max_history_per_policy
  ChurnLimit,     \* Limits: max_adaptations_per_window
  PenaltyLimit,   \* Limits: max_dampening_penalty
  RevocationLimit,\* Limits: max_revocations
  CandidateLimit, \* Limits: max_candidates_per_policy
  TicketBound,    \* bound: tickets callers hold at one time
  MaxNow, MaxEpoch, MaxGeneration, MaxEvidence, MaxWatermark,
  MaxAdaptation   \* bounds: the clock and the counters

NoPath == 0
BasisPointsScale == 10000

EmergencyConditions == {"UNAUTHORIZED", "UNAVAILABLE", "HARD_FAILURE"}

(***************************************************************************)
(* DECLARE_CANDIDATE has two branches in the code: it creates a candidate, *)
(* or replaces the whole binding of one that exists.  The second is named  *)
(* REDECLARE_CANDIDATE here.                                               *)
(***************************************************************************)
AllEvents ==
  {"DECLARE_CANDIDATE", "REDECLARE_CANDIDATE", "ADVANCE_PATH_AUTHORITY",
   "INVALIDATE_PATH", "SET_MEMBERSHIP", "INVALIDATE_MULTIPATH_SET",
   "ADVANCE_ROUTE", "INVALIDATE_ROUTE", "ADVANCE_WEIGHT_POLICY",
   "MARK_UNAVAILABLE", "MARK_AVAILABLE", "HARD_FAILURE_SIGNAL",
   "CLEAR_HARD_FAILURE_SIGNAL"}

PolicyLifecycle ==
  {"DECLARED", "ACTIVE", "SUSPENDED", "REVALIDATION_REQUIRED", "REVOKED",
   "SUPERSEDED", "RETIRED"}

PolicyEvent ==
  {"ACTIVATE", "SUSPEND", "RESUME", "REQUIRE_REVALIDATION", "REVALIDATE",
   "REVOKE", "SUPERSEDE", "RETIRE"}

Terminal == {"REVOKED", "SUPERSEDED", "RETIRED"}
Absent == "ABSENT"

(***************************************************************************)
(* PolicySemantics, for one metric that is both objective and trigger.     *)
(* thresholds and improvements are the rule lists, emergency is the set of *)
(* enabled conditions (empty: the rule is disabled).                       *)
(***************************************************************************)
PolicySemantics ==
  [target : Nat, set : BOOLEAN, priority : [Paths -> Nat], maxAge : Nat,
   thresholds : SUBSET [switch : Nat, clear : Nat],
   improvements : SUBSET [switch : Nat, reverse : Nat],
   holdDown : Nat, cooldown : Nat,
   dampening : BOOLEAN, increment : Nat, maxPenalty : Nat, step : Nat,
   cap : Nat, decayInterval : Nat, decayStep : Nat,
   churnMax : Nat, churnWindow : Nat,
   emergency : SUBSET EmergencyConditions]

\* What PolicySemantics::valid demands of the dampening and churn rules.
ValidSemantics(s) ==
  /\ s.dampening => /\ s.holdDown # 0 /\ s.cap >= s.holdDown
                    /\ s.increment # 0 /\ s.maxPenalty >= s.increment
                    /\ s.decayInterval # 0 /\ s.decayStep # 0 /\ s.step # 0
  /\ s.churnMax # 0 => s.churnWindow # 0
  /\ s.thresholds # {} \/ s.improvements # {}
  /\ \A r \in s.thresholds : r.clear < r.switch

(***************************************************************************)
(* CandidateBinding: the Path Authority verdict and its generation, whether*)
(* the route binding and the multipath membership are current, the upstream*)
(* availability, the hard-failure signal, and whether a weight policy is   *)
(* bound.                                                                  *)
(***************************************************************************)
CandidateBinding ==
  [generation : Nat, legal : BOOLEAN, current : BOOLEAN, member : BOOLEAN,
   available : BOOLEAN, hardFailure : BOOLEAN, weighted : BOOLEAN]

ASSUME PathsAssumption == Paths \subseteq Nat \ {NoPath}
ASSUME SemanticsAssumption ==
  /\ Semantics # {}
  /\ \A s \in Semantics : s \in PolicySemantics /\ ValidSemantics(s)
ASSUME BindingsAssumption ==
  \A b \in Bindings : b \in CandidateBinding /\ b.generation # 0
ASSUME EvidenceAssumption == Values \subseteq Nat /\ Qualities \subseteq Nat
ASSUME EventsAssumption == Events \subseteq AllEvents /\ Operations \subseteq PolicyEvent
ASSUME LimitsAssumption ==
  /\ IndexCap \in Nat /\ PendingLimit \in Nat /\ HistoryLimit \in Nat
  /\ ChurnLimit \in Nat /\ PenaltyLimit \in Nat /\ RevocationLimit \in Nat
  /\ CandidateLimit \in Nat /\ TicketBound \in Nat

VARIABLES
  now,            \* the monotonic clock
  epoch, authority, \* State::epoch, State::authority_generation
  evidenceGeneration, evidenceWatermark,
  evidence,       \* path -> the aggregate a lookup finds
  lifecycle, generation, semantics,  \* PolicyRecord::policy
  candidates,     \* policy -> path -> CandidateRecord
  policiesByPath, \* the reverse index State::policies_by_path
  preference, stable, timing, history, \* PolicyRecord
  revocations,    \* policies with a RevocationRecord
  tickets         \* evaluation tickets in the hands of callers

evidenceVars == <<evidenceGeneration, evidenceWatermark, evidence>>
policyVars == <<lifecycle, generation, semantics, revocations>>
bindingVars == <<candidates, policiesByPath>>
recordVars == <<preference, stable, timing, history>>
vars == <<now, epoch, authority, evidenceVars, policyVars, bindingVars,
          recordVars, tickets>>

-----------------------------------------------------------------------------
(* Records and their initial values *)

NoBinding ==
  [generation |-> 0, legal |-> FALSE, current |-> FALSE, member |-> FALSE,
   available |-> FALSE, hardFailure |-> FALSE, weighted |-> FALSE]

NoCandidate == [declared |-> FALSE, binding |-> NoBinding, watermark |-> 0]

\* RoutingPreference, with adaptation and transition generation at first().
NoPreference ==
  [established |-> FALSE, path |-> NoPath, previous |-> NoPath,
   pathGeneration |-> 0, adaptation |-> 1, transition |-> 1,
   weighted |-> NoPath, committedAt |-> 0, cause |-> "DECLARED",
   epoch |-> 0, policyGeneration |-> 0]

NoStable == [established |-> FALSE, path |-> NoPath, pathGeneration |-> 0,
             adaptation |-> 0]

NoTiming ==
  [holdDownActive |-> FALSE, holdDownDeadline |-> 0, cooldownActive |-> FALSE,
   cooldownDeadline |-> 0, penalty |-> 0, lastDecay |-> 0, churn |-> <<>>]

NoEvidence == [known |-> FALSE, value |-> 0, quality |-> 0, at |-> 0]

Init ==
  /\ now = 0
  /\ epoch = 1 /\ authority = 1
  /\ evidenceGeneration = 1 /\ evidenceWatermark = 0
  /\ evidence = [x \in Paths |-> NoEvidence]
  /\ lifecycle = [p \in Policies |-> Absent]
  /\ generation = [p \in Policies |-> 0]
  /\ semantics = [p \in Policies |-> CHOOSE s \in Semantics : TRUE]
  /\ candidates = [p \in Policies |-> [x \in Paths |-> NoCandidate]]
  /\ policiesByPath = [x \in Paths |-> {}]
  /\ preference = [p \in Policies |-> NoPreference]
  /\ stable = [p \in Policies |-> NoStable]
  /\ timing = [p \in Policies |-> NoTiming]
  /\ history = [p \in Policies |-> <<>>]
  /\ revocations = {}
  /\ tickets = {}

-----------------------------------------------------------------------------
(* Phase one: evaluate_inputs *)

Lesser(a, b) == IF a <= b THEN a ELSE b

\* lookup_metric: the aggregate exists and is not older than the policy allows.
Fresh(p, x) ==
  /\ evidence[x].known
  /\ now - evidence[x].at <= semantics[p].maxAge

\* A candidate that may be bound to traffic, whatever its evidence says.
Usable(p, x) ==
  LET c == candidates[p][x] IN
  /\ c.declared /\ c.binding.legal /\ c.binding.current /\ c.binding.available
  /\ semantics[p].set => c.binding.member

EligiblePaths(p) == {x \in Paths : Usable(p, x) /\ Fresh(p, x)}

\* ranks_ahead, between two eligible candidates.
RanksAhead(p, a, b) ==
  LET pa == semantics[p].priority[a]
      pb == semantics[p].priority[b]
  IN \/ pa > pb
     \/ /\ pa = pb
        /\ \/ evidence[a].quality > evidence[b].quality
           \/ /\ evidence[a].quality = evidence[b].quality
              /\ \/ evidence[a].value < evidence[b].value
                 \/ evidence[a].value = evidence[b].value /\ a < b

\* The first eligible candidate of the ranking: ranks_ahead is a strict total
\* order, so at most one candidate is ahead of all others.
Best(p) ==
  LET first == {a \in EligiblePaths(p) :
                  \A b \in EligiblePaths(p) \ {a} : RanksAhead(p, a, b)}
  IN IF first = {} THEN NoPath ELSE CHOOSE a \in first : TRUE

\* relative_improvement_bps for a metric where lower is better.
Improvement(current, candidate) ==
  IF candidate >= current THEN 0
  ELSE ((current - candidate) * BasisPointsScale) \div current

\* The conditions under which a configured emergency rule fires.
EmergencyHolds(p) ==
  LET c == candidates[p][preference[p].path] IN
  /\ preference[p].established
  /\ \/ "UNAUTHORIZED" \in semantics[p].emergency
        /\ (~c.declared \/ ~c.binding.legal)
     \/ "UNAVAILABLE" \in semantics[p].emergency
        /\ (~c.declared \/ ~c.binding.available)
     \/ "HARD_FAILURE" \in semantics[p].emergency
        /\ c.declared /\ c.binding.hardFailure

\* A move to x goes back to the path the current preference displaced.
Reverse(p, x) == x # NoPath /\ preference[p].previous = x

EffectiveHoldDown(s, penalty) ==
  IF s.dampening THEN Lesser(s.holdDown + penalty * s.step, s.cap)
                 ELSE s.holdDown

HeldDown(p, x) ==
  /\ timing[p].holdDownActive
  /\ Reverse(p, x)
  /\ EffectiveHoldDown(semantics[p], timing[p].penalty) # 0
  /\ now < timing[p].holdDownDeadline

\* Seeded fault: the last tick of the cooldown is lost.
CoolingDownShort(p) ==
  timing[p].cooldownActive /\ now + 1 < timing[p].cooldownDeadline

CoolingDown(p) ==
  timing[p].cooldownActive /\ now < timing[p].cooldownDeadline

\* churn_commits inside the window ending now.
RecentCommits(p) ==
  {i \in DOMAIN timing[p].churn :
     now - timing[p].churn[i] <= semantics[p].churnWindow}

\* Seeded fault: one adaptation too many.
ChurnExhaustedLate(p) ==
  /\ semantics[p].churnMax # 0
  /\ Cardinality(RecentCommits(p)) > semantics[p].churnMax

ChurnExhausted(p) ==
  /\ semantics[p].churnMax # 0
  /\ Cardinality(RecentCommits(p)) >= semantics[p].churnMax

\* The suppression predicates that both phases apply to an ordinary move.
Suppressed(p, x) == HeldDown(p, x) \/ CoolingDown(p) \/ ChurnExhausted(p)

EntryPermitted(p, x) ==
  \A r \in semantics[p].thresholds : evidence[x].value <= r.clear

DeparturePermitted(p, x) ==
  \A r \in semantics[p].thresholds : evidence[x].value >= r.switch

ImprovementMet(p, from, to) ==
  \A r \in semantics[p].improvements :
    Improvement(evidence[from].value, evidence[to].value)
      >= IF Reverse(p, to) THEN r.reverse ELSE r.switch

\* The trigger of an ordinary move from the current preference to x.
Triggered(p, x) ==
  LET from == preference[p].path IN
  /\ from \in EligiblePaths(p)
  /\ ~Suppressed(p, x)
  /\ DeparturePermitted(p, from)
  /\ EntryPermitted(p, x)
  /\ ImprovementMet(p, from, x)

\* Seeded fault: the evaluation does not look whether anything is eligible.
CommittableUnchecked(p, x) ==
  \/ ~preference[p].established /\ EntryPermitted(p, x)
  \/ /\ preference[p].established
     /\ x # preference[p].path
     /\ EmergencyHolds(p) \/ Triggered(p, x)

\* The evaluation is ELIGIBLE: x is to become the preference.
Committable(p, x) ==
  /\ x # NoPath
  /\ \/ ~preference[p].established /\ EntryPermitted(p, x)
     \/ /\ preference[p].established
        /\ x # preference[p].path
        /\ EmergencyHolds(p) \/ Triggered(p, x)

\* A weight proposal accompanies a move inside a multipath set when the target
\* has a weight binding, and never the first preference.
WeightProposal(p, x) ==
  IF /\ Committable(p, x) /\ preference[p].established /\ semantics[p].set
     /\ candidates[p][x].binding.weighted
  THEN x ELSE NoPath

(***************************************************************************)
(* EvaluationTicket with its DependencySnapshot.  candidates and evidence  *)
(* are everything phase one read; the commit compares only part of them    *)
(* (DependencyDrift).                                                      *)
(***************************************************************************)
EvaluationTicket(p) ==
  LET x == Best(p) IN
  [policy |-> p, policyGeneration |-> generation[p],
   evidenceGeneration |-> evidenceGeneration,
   evidenceWatermark |-> evidenceWatermark,
   epoch |-> epoch, authority |-> authority,
   candidates |-> candidates[p], evidence |-> evidence,
   eligible |-> Committable(p, x), emergency |-> x # NoPath /\ EmergencyHolds(p),
   current |-> preference[p].path,
   target |-> IF preference[p].established \/ Committable(p, x) THEN x ELSE NoPath,
   adaptation |-> preference[p].adaptation,
   weighted |-> WeightProposal(p, x)]

BeginEvaluation(p) ==
  /\ lifecycle[p] = "ACTIVE"
  /\ Cardinality(tickets) < TicketBound
  /\ tickets' = tickets \union {EvaluationTicket(p)}
  /\ UNCHANGED <<now, epoch, authority, evidenceVars, policyVars, bindingVars,
                 recordVars>>

\* A caller drops a ticket: a deferred evaluation is never settled.
DropTicket(t) ==
  /\ tickets' = tickets \ {t}
  /\ UNCHANGED <<now, epoch, authority, evidenceVars, policyVars, bindingVars,
                 recordVars>>

-----------------------------------------------------------------------------
(* Phase two: commit_evaluation and verify_and_commit *)

Capped(seq, limit) ==
  IF Len(seq) <= limit THEN seq ELSE SubSeq(seq, Len(seq) - limit + 1, Len(seq))

\* Seeded fault: phase two does not look at the lifecycle again.
TicketCurrentAnyLifecycle(t) ==
  /\ lifecycle[t.policy] # Absent
  /\ epoch = t.epoch
  /\ authority = t.authority
  /\ generation[t.policy] = t.policyGeneration

\* The checks every ticket passes, in the code's order.
TicketCurrent(t) ==
  /\ lifecycle[t.policy] # Absent
  /\ epoch = t.epoch
  /\ authority = t.authority
  /\ lifecycle[t.policy] = "ACTIVE"
  /\ generation[t.policy] = t.policyGeneration

\* Seeded fault: only a new source incarnation makes a ticket stale.
EvidenceCurrentByWatermark(t) == evidenceWatermark = t.evidenceWatermark

EvidenceCurrent(t) ==
  /\ evidenceGeneration = t.evidenceGeneration
  /\ evidenceWatermark = t.evidenceWatermark

\* dependency_drift: candidate set, watermarks, Path Authority verdicts.
DependencyDrift(t) ==
  \E x \in Paths :
    LET c == candidates[t.policy][x]
        seen == t.candidates[x]
    IN \/ c.declared # seen.declared
       \/ /\ c.declared
          /\ \/ c.watermark # seen.watermark
             \/ c.binding.generation # seen.binding.generation
             \/ c.binding.legal # seen.binding.legal

\* Seeded fault: a hold-down that ends at the next tick is not counted.
PendingTransitionsShort ==
  {p \in Policies : timing[p].holdDownActive /\ now + 1 < timing[p].holdDownDeadline}

PendingTransitions ==
  {p \in Policies : timing[p].holdDownActive /\ now < timing[p].holdDownDeadline}

\* Target checks of verify_and_commit, made again after dependency_drift.
TargetVerified(t) ==
  LET c == candidates[t.policy][t.target] IN
  /\ c.declared /\ c.binding.legal
  /\ c.binding.generation = t.candidates[t.target].binding.generation

\* The preference that takes over when p moves to x.
Installed(p, x, cause, weighted) ==
  [established |-> TRUE, path |-> x,
   previous |-> IF preference[p].established THEN preference[p].path ELSE NoPath,
   pathGeneration |-> candidates[p][x].binding.generation,
   adaptation |-> preference[p].adaptation + 1,
   transition |-> preference[p].transition + 1,
   weighted |-> weighted, committedAt |-> now, cause |-> cause,
   epoch |-> epoch, policyGeneration |-> generation[p]]

\* Seeded fault: an anchor that exists is never replaced.
AnchorKept(p) ==
  IF stable[p].established THEN stable[p]
  ELSE IF preference[p].established
  THEN [established |-> TRUE, path |-> preference[p].path,
        pathGeneration |-> preference[p].pathGeneration,
        adaptation |-> preference[p].adaptation]
  ELSE NoStable

\* The rollback anchor a move leaves: the preference it displaces.
Anchor(p) ==
  IF preference[p].established
  THEN [established |-> TRUE, path |-> preference[p].path,
        pathGeneration |-> preference[p].pathGeneration,
        adaptation |-> preference[p].adaptation]
  ELSE NoStable

\* Seeded fault: the hold-down is armed without its dampening extension.
ArmedTimingUnextended(p) ==
  LET s == semantics[p]
      penalty == IF s.dampening
                 THEN Lesser(s.maxPenalty, timing[p].penalty + s.increment)
                 ELSE timing[p].penalty
  IN IF ~preference[p].established THEN timing[p]
     ELSE [holdDownActive |-> s.holdDown # 0,
           holdDownDeadline |-> now + s.holdDown,
           cooldownActive |-> s.cooldown # 0,
           cooldownDeadline |-> now + s.cooldown,
           penalty |-> penalty,
           lastDecay |-> IF s.dampening THEN now ELSE timing[p].lastDecay,
           churn |-> Capped(Append(timing[p].churn, now), ChurnLimit)]

\* The first preference arms nothing; every later commit arms all three.
ArmedTiming(p) ==
  LET s == semantics[p]
      penalty == IF s.dampening
                 THEN Lesser(s.maxPenalty, timing[p].penalty + s.increment)
                 ELSE timing[p].penalty
      holdDown == EffectiveHoldDown(s, penalty)
  IN IF ~preference[p].established THEN timing[p]
     ELSE [holdDownActive |-> holdDown # 0,
           holdDownDeadline |-> now + holdDown,
           cooldownActive |-> s.cooldown # 0,
           cooldownDeadline |-> now + s.cooldown,
           penalty |-> penalty,
           lastDecay |-> IF s.dampening THEN now ELSE timing[p].lastDecay,
           churn |-> Capped(Append(timing[p].churn, now), ChurnLimit)]

\* AdaptationRecord, appended to the bounded history of the policy.
Recorded(p, kind, cause, from, to, adaptation) ==
  Capped(Append(history[p],
           [kind |-> kind, cause |-> cause, from |-> from, to |-> to,
            adaptation |-> adaptation, epoch |-> epoch, at |-> now]),
         HistoryLimit)

CommitEvaluation(t) ==
  LET p == t.policy
      cause == IF t.emergency THEN "EMERGENCY_OVERRIDE" ELSE "TRIGGER_SATISFIED"
  IN
  /\ TicketCurrent(t)
  /\ t.eligible
  /\ EvidenceCurrent(t)
  /\ ~DependencyDrift(t)
  /\ ~(preference[p].established /\ preference[p].path = t.target)
  /\ t.emergency \/ ~Suppressed(p, t.target)
  /\ TargetVerified(t)
  /\ Cardinality(PendingTransitions) < PendingLimit
  /\ preference[p].adaptation < MaxAdaptation
  /\ preference' = [preference EXCEPT ![p] = Installed(p, t.target, cause, t.weighted)]
  /\ stable' = [stable EXCEPT ![p] = Anchor(p)]
  /\ timing' = [timing EXCEPT ![p] = ArmedTiming(p)]
  /\ history' = [history EXCEPT ![p] =
       Recorded(p, "COMMITTED", cause, preference[p].path, t.target,
                preference[p].adaptation + 1)]
  /\ UNCHANGED <<now, epoch, authority, evidenceVars, policyVars, bindingVars,
                 tickets>>

\* A suppressed evaluation is recorded as a decision and moves nothing.
CommitSuppressed(t) ==
  LET p == t.policy IN
  /\ TicketCurrent(t)
  /\ ~t.eligible
  /\ history' = [history EXCEPT ![p] =
       Recorded(p, "SUPPRESSED", "TRIGGER_SATISFIED", preference[p].path,
                t.target, preference[p].adaptation)]
  /\ UNCHANGED <<now, epoch, authority, evidenceVars, policyVars, bindingVars,
                 preference, stable, timing, tickets>>

-----------------------------------------------------------------------------
(* Rollback *)

\* rollback arms the plain durations, leaves the penalty, and does not prune
\* churn_commits.
RollbackTiming(p) ==
  LET s == semantics[p] IN
  [timing[p] EXCEPT
     !.holdDownActive = s.holdDown # 0,
     !.holdDownDeadline = now + s.holdDown,
     !.cooldownActive = s.cooldown # 0,
     !.cooldownDeadline = now + s.cooldown,
     !.churn = Append(@, now)]

Rollback(p) ==
  LET x == stable[p].path IN
  /\ lifecycle[p] = "ACTIVE"
  /\ stable[p].established
  /\ Usable(p, x)
  /\ ~(preference[p].established /\ preference[p].path = x)
  /\ preference[p].adaptation < MaxAdaptation
  /\ preference' = [preference EXCEPT ![p] =
       Installed(p, x, "ROLLBACK_REQUESTED", preference[p].weighted)]
  /\ stable' = [stable EXCEPT ![p] = Anchor(p)]
  /\ timing' = [timing EXCEPT ![p] = RollbackTiming(p)]
  /\ history' = [history EXCEPT ![p] =
       Recorded(p, "ROLLED_BACK", "ROLLBACK_REQUESTED", preference[p].path, x,
                preference[p].adaptation + 1)]
  /\ UNCHANGED <<now, epoch, authority, evidenceVars, policyVars, bindingVars,
                 tickets>>

-----------------------------------------------------------------------------
(* Reverse index *)

DeclaredPaths(c) == {x \in Paths : c[x].declared}

\* Seeded fault: discarded candidates stay in the index.
UnindexedNothing(index, p, declared) == index

Unindexed(index, p, declared) ==
  [x \in Paths |-> IF x \in declared THEN index[x] \ {p} ELSE index[x]]

\* reindex_policy inserts the candidates in PathId order and stops for good
\* once the index holds IndexCap paths.
Reindexed(index, p, declared) ==
  [x \in Paths |->
     IF /\ x \in declared
        /\ Cardinality({y \in Paths : index[y] # {}}
                         \union {y \in declared : y < x}) < IndexCap
     THEN index[x] \union {p} ELSE index[x]]

\* Seeded fault: only the policy the notification names is invalidated.
InvalidatedNamed(c, x) ==
  [p \in Policies |->
     IF p \in policiesByPath[x] /\ c[p][x].declared /\ c[p] # candidates[p]
     THEN [c[p] EXCEPT ![x].watermark = @ + 1] ELSE c[p]]

\* apply_invalidation: every indexed policy that binds x sees its watermark move.
Invalidated(c, x) ==
  [p \in Policies |->
     IF p \in policiesByPath[x] /\ c[p][x].declared
     THEN [c[p] EXCEPT ![x].watermark = @ + 1] ELSE c[p]]

-----------------------------------------------------------------------------
(* Policies and their lifecycle *)

CreatePolicy(p, s) ==
  /\ lifecycle[p] = Absent
  /\ s.churnMax # 0 => s.churnMax <= ChurnLimit
  /\ s.dampening => s.maxPenalty <= PenaltyLimit
  /\ lifecycle' = [lifecycle EXCEPT ![p] = "DECLARED"]
  /\ generation' = [generation EXCEPT ![p] = 1]
  /\ semantics' = [semantics EXCEPT ![p] = s]
  /\ UNCHANGED <<now, epoch, authority, evidenceVars, revocations, bindingVars,
                 recordVars, tickets>>

\* A new target discards the bindings, the preference, the anchor and the
\* timing.  The limits that create_policy puts on the churn and dampening rules
\* are not applied here.
UpdatePolicy(p, s) ==
  LET retarget == s.target # semantics[p].target \/ s.set # semantics[p].set
      old == DeclaredPaths(candidates[p])
      kept == IF retarget THEN {} ELSE old
  IN
  /\ lifecycle[p] \notin Terminal \union {Absent}
  /\ generation[p] < MaxGeneration
  /\ generation' = [generation EXCEPT ![p] = @ + 1]
  /\ semantics' = [semantics EXCEPT ![p] = s]
  /\ candidates' = IF retarget
                   THEN [candidates EXCEPT ![p] = [x \in Paths |-> NoCandidate]]
                   ELSE candidates
  /\ policiesByPath' = Reindexed(Unindexed(policiesByPath, p, old), p, kept)
  /\ preference' = IF retarget THEN [preference EXCEPT ![p] = NoPreference]
                               ELSE preference
  /\ stable' = IF retarget THEN [stable EXCEPT ![p] = NoStable] ELSE stable
  /\ timing' = IF retarget THEN [timing EXCEPT ![p] = NoTiming] ELSE timing
  /\ UNCHANGED <<now, epoch, authority, evidenceVars, lifecycle, revocations,
                 history, tickets>>

\* apply_policy_event: the states an event leads to from a state, if defined.
PolicyTransition(state, event) ==
  CASE event = "ACTIVATE" /\ state = "DECLARED" -> {"ACTIVE"}
    [] event = "RESUME" /\ state = "SUSPENDED" -> {"ACTIVE"}
    [] event = "REVALIDATE" /\ state = "REVALIDATION_REQUIRED" -> {"ACTIVE"}
    [] event = "SUSPEND" /\ state \in {"ACTIVE", "REVALIDATION_REQUIRED"} ->
         {"SUSPENDED"}
    [] event = "REQUIRE_REVALIDATION"
         /\ state \in {"DECLARED", "ACTIVE", "SUSPENDED"} ->
         {"REVALIDATION_REQUIRED"}
    [] event = "REVOKE" /\ state \notin Terminal \union {Absent} -> {"REVOKED"}
    [] event = "SUPERSEDE" /\ state \notin Terminal \union {Absent} ->
         {"SUPERSEDED"}
    [] event = "RETIRE" /\ state \notin Terminal \union {Absent} -> {"RETIRED"}
    [] OTHER -> {}

\* REVALIDATE is earned: some binding is legal, route-current and available.
Revalidates(p) ==
  \E x \in Paths : LET c == candidates[p][x] IN
    c.declared /\ c.binding.legal /\ c.binding.current /\ c.binding.available

TransitionPolicy(p, event) ==
  /\ event = "REVALIDATE" => Revalidates(p)
  /\ \E next \in PolicyTransition(lifecycle[p], event) :
       lifecycle' = [lifecycle EXCEPT ![p] = next]
  /\ UNCHANGED <<now, epoch, authority, evidenceVars, generation, semantics,
                 revocations, bindingVars, recordVars, tickets>>

RevokePolicy(p) ==
  /\ p \notin revocations
  /\ lifecycle[p] \notin Terminal \union {Absent}
  /\ Cardinality(revocations) < RevocationLimit
  /\ revocations' = revocations \union {p}
  /\ lifecycle' = [lifecycle EXCEPT ![p] = "REVOKED"]
  /\ UNCHANGED <<now, epoch, authority, evidenceVars, generation, semantics,
                 bindingVars, recordVars, tickets>>

-----------------------------------------------------------------------------
(* Upstream notifications: apply_upstream *)

\* Events that are refused for a path that is not a candidate.
NeedsCandidate ==
  {"REDECLARE_CANDIDATE", "ADVANCE_PATH_AUTHORITY", "SET_MEMBERSHIP",
   "ADVANCE_ROUTE", "ADVANCE_WEIGHT_POLICY"}

\* Seeded fault: MARK_UNAVAILABLE is taken for a mere status change.
InvalidatingButUnavailable ==
  AllEvents \ {"DECLARE_CANDIDATE", "REDECLARE_CANDIDATE", "MARK_UNAVAILABLE",
               "ADVANCE_WEIGHT_POLICY", "CLEAR_HARD_FAILURE_SIGNAL"}

\* Events that advance the path watermark of the policies that bind the path.
Invalidating ==
  AllEvents \ {"DECLARE_CANDIDATE", "REDECLARE_CANDIDATE",
               "ADVANCE_WEIGHT_POLICY", "CLEAR_HARD_FAILURE_SIGNAL"}

\* The notification (event, b) is applied to candidate record c.
Accepted(c, event, b) ==
  /\ event = "DECLARE_CANDIDATE" => ~c.declared /\ b.legal
  /\ event \in NeedsCandidate => c.declared
  /\ event = "ADVANCE_PATH_AUTHORITY" => b.generation > c.binding.generation

\* The binding of candidate c after the notification (event, b).
Rebound(c, event, b) ==
  LET old == c.binding IN
  CASE event \in {"DECLARE_CANDIDATE", "REDECLARE_CANDIDATE"} -> b
    [] event = "ADVANCE_PATH_AUTHORITY" ->
         [old EXCEPT !.generation = b.generation, !.legal = b.legal]
    [] event = "INVALIDATE_PATH" ->
         [old EXCEPT !.generation = b.generation, !.legal = FALSE]
    [] event = "SET_MEMBERSHIP" -> [old EXCEPT !.member = b.member]
    [] event = "INVALIDATE_MULTIPATH_SET" -> [old EXCEPT !.member = FALSE]
    [] event = "ADVANCE_ROUTE" -> [old EXCEPT !.current = b.current]
    [] event = "INVALIDATE_ROUTE" -> [old EXCEPT !.current = FALSE]
    [] event = "ADVANCE_WEIGHT_POLICY" -> [old EXCEPT !.weighted = b.weighted]
    [] event = "MARK_UNAVAILABLE" -> [old EXCEPT !.available = FALSE]
    [] event = "MARK_AVAILABLE" -> [old EXCEPT !.available = TRUE]
    [] event = "HARD_FAILURE_SIGNAL" -> [old EXCEPT !.hardFailure = TRUE]
    [] event = "CLEAR_HARD_FAILURE_SIGNAL" -> [old EXCEPT !.hardFailure = FALSE]

NotifiedCandidate(c, event, b) ==
  CASE event = "DECLARE_CANDIDATE" ->
         [declared |-> TRUE, binding |-> b, watermark |-> 0]
    [] event # "DECLARE_CANDIDATE" /\ c.declared ->
         [c EXCEPT !.binding = Rebound(c, event, b)]
    [] OTHER -> c

ApplyUpstream(p, x, event, b) ==
  LET notified == [candidates EXCEPT ![p][x] =
                     NotifiedCandidate(candidates[p][x], event, b)]
  IN
  /\ lifecycle[p] \notin Terminal \union {Absent}
  /\ Accepted(candidates[p][x], event, b)
  /\ event = "DECLARE_CANDIDATE" =>
       Cardinality(DeclaredPaths(candidates[p])) < CandidateLimit
  /\ candidates' = IF event \in Invalidating THEN Invalidated(notified, x)
                                             ELSE notified
  /\ policiesByPath' = IF event = "DECLARE_CANDIDATE"
                       THEN Reindexed(policiesByPath, p, DeclaredPaths(notified[p]))
                       ELSE policiesByPath
  /\ \A q \in Policies : candidates'[q][x].watermark <= MaxWatermark
  /\ UNCHANGED <<now, epoch, authority, evidenceVars, policyVars, recordVars,
                 tickets>>

-----------------------------------------------------------------------------
(* Evidence, time and epochs *)

\* publish_evidence, one publication of the one source of path x, aggregated by
\* its latest sample: accepted only for a path in the index, and with the quality
\* class of its incarnation.  A new source incarnation drops the samples of the
\* old one and advances the evidence watermark.
PublishEvidence(x, value, quality, newIncarnation) ==
  /\ policiesByPath[x] # {}
  /\ evidenceGeneration < MaxEvidence
  /\ newIncarnation => evidence[x].known
  /\ evidence[x].known /\ ~newIncarnation => quality = evidence[x].quality
  /\ evidence' = [evidence EXCEPT ![x] =
       [known |-> TRUE, value |-> value, quality |-> quality, at |-> now]]
  /\ evidenceGeneration' = evidenceGeneration + 1
  /\ evidenceWatermark' = evidenceWatermark + (IF newIncarnation THEN 1 ELSE 0)
  /\ UNCHANGED <<now, epoch, authority, policyVars, bindingVars, recordVars,
                 tickets>>

\* advance_epoch: timers and churn are cleared, the penalty is kept, and every
\* policy that is not terminal must be revalidated.
AdvanceEpoch ==
  /\ epoch < MaxEpoch
  /\ epoch' = epoch + 1
  /\ authority' = authority + 1
  /\ timing' = [p \in Policies |->
       [timing[p] EXCEPT !.holdDownActive = FALSE, !.holdDownDeadline = 0,
                         !.cooldownActive = FALSE, !.cooldownDeadline = 0,
                         !.churn = <<>>]]
  /\ lifecycle' = [p \in Policies |->
       IF lifecycle[p] \in Terminal \union {Absent} THEN lifecycle[p]
       ELSE "REVALIDATION_REQUIRED"]
  /\ UNCHANGED <<now, evidenceVars, generation, semantics, revocations,
                 bindingVars, preference, stable, history, tickets>>

Tick ==
  /\ now < MaxNow
  /\ now' = now + 1
  /\ UNCHANGED <<epoch, authority, evidenceVars, policyVars, bindingVars,
                 recordVars, tickets>>

-----------------------------------------------------------------------------
Next ==
  \/ \E p \in Policies, s \in Semantics : CreatePolicy(p, s) \/ UpdatePolicy(p, s)
  \/ \E p \in Policies, event \in Operations : TransitionPolicy(p, event)
  \/ \E p \in Policies : RevokePolicy(p) \/ BeginEvaluation(p) \/ Rollback(p)
  \/ \E p \in Policies, x \in Paths, event \in Events, b \in Bindings :
       ApplyUpstream(p, x, event, b)
  \/ \E x \in Paths, value \in Values, quality \in Qualities,
        newIncarnation \in BOOLEAN :
       PublishEvidence(x, value, quality, newIncarnation)
  \/ \E t \in tickets : CommitEvaluation(t) \/ CommitSuppressed(t) \/ DropTicket(t)
  \/ AdvanceEpoch
  \/ Tick

Spec == Init /\ [][Next]_vars

-----------------------------------------------------------------------------
(* Types *)

CandidateRecord ==
  [declared : BOOLEAN, binding : CandidateBinding, watermark : Nat]

EvidenceRecord == [known : BOOLEAN, value : Nat, quality : Nat, at : Nat]

\* RECOVERED is what a restart makes of any of them (module Recovery).
Causes == {"DECLARED", "TRIGGER_SATISFIED", "EMERGENCY_OVERRIDE",
           "ROLLBACK_REQUESTED", "RECOVERED"}

RoutingPreference ==
  [established : BOOLEAN, path : Paths \union {NoPath},
   previous : Paths \union {NoPath}, pathGeneration : Nat, adaptation : Nat,
   transition : Nat, weighted : Paths \union {NoPath}, committedAt : Nat,
   cause : Causes, epoch : Nat, policyGeneration : Nat]

StableState == [established : BOOLEAN, path : Paths \union {NoPath},
                pathGeneration : Nat, adaptation : Nat]

TimingState ==
  [holdDownActive : BOOLEAN, holdDownDeadline : Nat, cooldownActive : BOOLEAN,
   cooldownDeadline : Nat, penalty : Nat, lastDecay : Nat, churn : Seq(Nat)]

AdaptationRecord ==
  [kind : {"COMMITTED", "SUPPRESSED", "ROLLED_BACK"}, cause : Causes,
   from : Paths \union {NoPath}, to : Paths \union {NoPath}, adaptation : Nat,
   epoch : Nat, at : Nat]

Ticket ==
  [policy : Policies, policyGeneration : Nat, evidenceGeneration : Nat,
   evidenceWatermark : Nat, epoch : Nat, authority : Nat,
   candidates : [Paths -> CandidateRecord], evidence : [Paths -> EvidenceRecord],
   eligible : BOOLEAN, emergency : BOOLEAN, current : Paths \union {NoPath},
   target : Paths \union {NoPath}, adaptation : Nat,
   weighted : Paths \union {NoPath}]

\* Every variable has its type, and an eligible ticket names a target.
TypeOK ==
  /\ now \in Nat /\ epoch \in Nat /\ authority \in Nat
  /\ evidenceGeneration \in Nat /\ evidenceWatermark \in Nat
  /\ evidence \in [Paths -> EvidenceRecord]
  /\ lifecycle \in [Policies -> PolicyLifecycle \union {Absent}]
  /\ generation \in [Policies -> Nat]
  /\ semantics \in [Policies -> Semantics]
  /\ candidates \in [Policies -> [Paths -> CandidateRecord]]
  /\ policiesByPath \in [Paths -> SUBSET Policies]
  /\ preference \in [Policies -> RoutingPreference]
  /\ stable \in [Policies -> StableState]
  /\ timing \in [Policies -> TimingState]
  /\ history \in [Policies -> Seq(AdaptationRecord)]
  /\ revocations \subseteq Policies
  /\ tickets \subseteq Ticket
  /\ \A t \in tickets : t.eligible => t.target \in Paths
=============================================================================
