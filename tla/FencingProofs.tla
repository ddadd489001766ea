--------------------------- MODULE FencingProofs -----------------------------
(***************************************************************************)
(* Theorems about what a late ticket, an invalidation and the limit on     *)
(* pending transitions may do, for every value of the constants.           *)
(***************************************************************************)
EXTENDS AdaptationProofs

-----------------------------------------------------------------------------
(* Terminal policies *)

\* The step leaves the record of p alone.
Untouched(p) ==
  /\ lifecycle'[p] = lifecycle[p] /\ generation'[p] = generation[p]
  /\ preference'[p] = preference[p] /\ stable'[p] = stable[p]
  /\ history'[p] = history[p]

\* The policy of a ticket that passes the first checks is in service.
LEMMA TicketPolicy ==
  ASSUME TypeOK, NEW t \in tickets, TicketCurrent(t)
  PROVE  t.policy \in Policies /\ lifecycle[t.policy] = "ACTIVE"
BY DEF TypeOK, Ticket, TicketCurrent

\* No transition leads out of a terminal state, or to no state at all.
LEMMA TransitionLeaves ==
  ASSUME NEW state, NEW event, NEW next \in PolicyTransition(state, event)
  PROVE  state \notin Terminal /\ next # Absent
BY DEF PolicyTransition, Terminal, Absent

\* Every operation that changes the record of a policy asks for its lifecycle.
LEMMA TerminalStep ==
  ASSUME TypeOK, [Next]_vars, NEW q \in Policies, lifecycle[q] \in Terminal
  PROVE  Untouched(q)
<1> USE DEF Untouched
<1>0. /\ lifecycle \in [Policies -> PolicyLifecycle \union {Absent}]
      /\ generation \in [Policies -> Nat]
      /\ preference \in [Policies -> RoutingPreference]
      /\ stable \in [Policies -> StableState]
      /\ history \in [Policies -> Seq(AdaptationRecord)]
      /\ Absent \notin Terminal /\ "ACTIVE" \notin Terminal
  BY DEF TypeOK, Absent, Terminal
<1>1. ASSUME NEW p \in Policies, NEW s \in Semantics, CreatePolicy(p, s)
      PROVE  Untouched(q)
  BY <1>0, <1>1 DEF CreatePolicy, recordVars
<1>2. ASSUME NEW p \in Policies, NEW s \in Semantics, UpdatePolicy(p, s)
      PROVE  Untouched(q)
  <2>1. p # q
    BY <1>2 DEF UpdatePolicy
  <2> QED
    BY <1>0, <1>2, <2>1 DEF UpdatePolicy
<1>3. ASSUME NEW p \in Policies, NEW event \in Operations, TransitionPolicy(p, event)
      PROVE  Untouched(q)
  <2>1. PICK next \in PolicyTransition(lifecycle[p], event) :
          lifecycle' = [lifecycle EXCEPT ![p] = next]
    BY <1>3 DEF TransitionPolicy
  <2>2. p # q
    BY <2>1, TransitionLeaves
  <2> QED
    BY <1>0, <1>3, <2>1, <2>2 DEF TransitionPolicy, recordVars
<1>4. ASSUME NEW p \in Policies, RevokePolicy(p)
      PROVE  Untouched(q)
  BY <1>0, <1>4 DEF RevokePolicy, recordVars
<1>5. ASSUME NEW p \in Policies, BeginEvaluation(p)
      PROVE  Untouched(q)
  BY <1>5 DEF BeginEvaluation, policyVars, recordVars
<1>6. ASSUME NEW p \in Policies, Rollback(p)
      PROVE  Untouched(q)
  <2>1. p # q
    BY <1>0, <1>6 DEF Rollback
  <2> QED
    BY <1>0, <1>6, <2>1 DEF Rollback, policyVars
<1>7. ASSUME NEW p \in Policies, NEW x \in Paths, NEW event \in Events,
             NEW b \in Bindings, ApplyUpstream(p, x, event, b)
      PROVE  Untouched(q)
  BY <1>7 DEF ApplyUpstream, policyVars, recordVars
<1>8. ASSUME NEW x \in Paths, NEW value \in Values, NEW quality \in Qualities,
             NEW newIncarnation \in BOOLEAN,
             PublishEvidence(x, value, quality, newIncarnation)
      PROVE  Untouched(q)
  BY <1>8 DEF PublishEvidence, policyVars, recordVars
<1>9. ASSUME NEW t \in tickets, CommitEvaluation(t)
      PROVE  Untouched(q)
  <2>1. t.policy # q
    BY <1>0, <1>9, TicketPolicy DEF CommitEvaluation
  <2> QED
    BY <1>0, <1>9, <2>1 DEF CommitEvaluation, policyVars
<1>10. ASSUME NEW t \in tickets, CommitSuppressed(t)
       PROVE  Untouched(q)
  <2>1. t.policy # q
    BY <1>0, <1>10, TicketPolicy DEF CommitSuppressed
  <2> QED
    BY <1>0, <1>10, <2>1 DEF CommitSuppressed, policyVars
<1>11. ASSUME NEW t \in tickets, DropTicket(t)
       PROVE  Untouched(q)
  BY <1>11 DEF DropTicket, policyVars, recordVars
<1>12. CASE AdvanceEpoch
  BY <1>0, <1>12 DEF AdvanceEpoch
<1>13. CASE Tick
  BY <1>13 DEF Tick, policyVars, recordVars
<1>14. CASE UNCHANGED vars
  BY <1>14 DEF vars, policyVars, recordVars
<1> HIDE DEF Untouched
<1> QED
  BY <1>1, <1>2, <1>3, <1>4, <1>5, <1>6, <1>7, <1>8, <1>9, <1>10, <1>11, <1>12,
     <1>13, <1>14 DEF Next

(***************************************************************************)
(* A revoked, superseded or retired policy keeps its lifecycle, its        *)
(* preference, its anchor and its history for good, whatever ticket is     *)
(* still in flight (apply_policy_event, commit_evaluation, rollback).      *)
(***************************************************************************)
THEOREM TerminalFinal == Spec => TerminalIsFinal
<1>1. CoreInv /\ [Next]_vars =>
        [\A p \in Policies : lifecycle[p] \in Terminal =>
           /\ lifecycle'[p] = lifecycle[p]
           /\ generation'[p] = generation[p]
           /\ preference'[p] = preference[p]
           /\ stable'[p] = stable[p]
           /\ history'[p] = history[p]]_vars
  BY TerminalStep DEF CoreInv, Untouched
<1> QED
  BY <1>1, CoreInvariant, PTL DEF Spec, TerminalIsFinal

-----------------------------------------------------------------------------
(* Pending transitions *)

\* The hold-down that an adaptation of p armed is running.
HeldBack(p) ==
  /\ timing[p].holdDownActive /\ now < timing[p].holdDownDeadline
  /\ preference[p].cause # "ROLLBACK_REQUESTED"
Held == {p \in Policies : HeldBack(p)}

\* A step that moves no policy but p starts no hold-down of another.
LEMMA HeldOthers ==
  ASSUME now' = now, NEW p \in Policies,
         \A q \in Policies \ {p} :
           timing'[q] = timing[q] /\ preference'[q] = preference[q]
  PROVE  Held' \subseteq Held \union {p}
BY DEF Held, HeldBack

\* No step but a commit starts the hold-down of an adaptation.
LEMMA HeldStep ==
  ASSUME TypeOK, [Next]_vars, \A t \in tickets : ~CommitEvaluation(t)
  PROVE  Held' \subseteq Held
<1>0. /\ timing \in [Policies -> TimingState]
      /\ preference \in [Policies -> RoutingPreference]
      /\ now \in Nat
      /\ \A p \in Policies : timing[p].holdDownDeadline \in Nat
  BY DEF TypeOK, TimingState
<1>1. ASSUME UNCHANGED <<now, timing, preference>> PROVE Held' \subseteq Held
  BY <1>1 DEF Held, HeldBack
<1>2. ASSUME NEW p \in Policies, NEW s \in Semantics, UpdatePolicy(p, s)
      PROVE  Held' \subseteq Held
  <2>1. \/ UNCHANGED <<now, timing, preference>>
        \/ /\ now' = now
           /\ timing' = [timing EXCEPT ![p] = NoTiming]
           /\ preference' = [preference EXCEPT ![p] = NoPreference]
    BY <1>2 DEF UpdatePolicy
  <2>2. CASE /\ now' = now
             /\ timing' = [timing EXCEPT ![p] = NoTiming]
             /\ preference' = [preference EXCEPT ![p] = NoPreference]
    <3>1. Held' \subseteq Held \union {p}
      BY <1>0, <2>2, HeldOthers
    <3>2. ~timing'[p].holdDownActive
      BY <1>0, <2>2 DEF NoTiming
    <3> QED
      BY <3>1, <3>2 DEF Held, HeldBack
  <2> QED
    BY <1>1, <2>1, <2>2
<1>3. ASSUME NEW p \in Policies, Rollback(p)
      PROVE  Held' \subseteq Held
  <2>1. Held' \subseteq Held \union {p}
    BY <1>0, <1>3, HeldOthers DEF Rollback
  <2>2. preference'[p].cause = "ROLLBACK_REQUESTED"
    BY <1>0, <1>3 DEF Rollback, Installed
  <2> QED
    BY <2>1, <2>2 DEF Held, HeldBack
<1>4. CASE AdvanceEpoch
  <2>1. \A p \in Policies : ~timing'[p].holdDownActive
    BY <1>0, <1>4 DEF AdvanceEpoch, TimingState
  <2> QED
    BY <2>1 DEF Held, HeldBack
<1>5. CASE Tick
  <2>1. now' = now + 1 /\ UNCHANGED <<timing, preference>>
    BY <1>5 DEF Tick, recordVars
  <2> QED
    BY <1>0, <2>1 DEF Held, HeldBack
<1>6. ASSUME NEW p \in Policies,
             \/ \E s \in Semantics : CreatePolicy(p, s)
             \/ \E event \in Operations : TransitionPolicy(p, event)
             \/ RevokePolicy(p) \/ BeginEvaluation(p)
             \/ \E x \in Paths, event \in Events, b \in Bindings : ApplyUpstream(p, x, event, b)
      PROVE  Held' \subseteq Held
  BY <1>1, <1>6 DEF CreatePolicy, TransitionPolicy, RevokePolicy, BeginEvaluation,
                    ApplyUpstream, recordVars
<1>7. ASSUME NEW x \in Paths, NEW value \in Values, NEW quality \in Qualities,
             NEW newIncarnation \in BOOLEAN,
             PublishEvidence(x, value, quality, newIncarnation)
      PROVE  Held' \subseteq Held
  BY <1>1, <1>7 DEF PublishEvidence, recordVars
<1>8. ASSUME NEW t \in tickets, CommitSuppressed(t) \/ DropTicket(t)
      PROVE  Held' \subseteq Held
  BY <1>1, <1>8 DEF CommitSuppressed, DropTicket, recordVars
<1>9. CASE UNCHANGED vars
  BY <1>1, <1>9 DEF vars, recordVars
<1> QED
  BY <1>2, <1>3, <1>4, <1>5, <1>6, <1>7, <1>8, <1>9 DEF Next

\* A commit counts every running hold-down before it starts one more.
LEMMA CommitHeld ==
  ASSUME TypeOK, IsFiniteSet(Policies), NEW t \in tickets, CommitEvaluation(t)
  PROVE  Cardinality(Held') <= PendingLimit
<1> DEFINE p == t.policy
<1>1. p \in Policies
  BY TicketPolicy DEF CommitEvaluation
<1>2. Held' \subseteq Held \union {p}
  <2>1. /\ timing \in [Policies -> TimingState]
        /\ preference \in [Policies -> RoutingPreference]
    BY DEF TypeOK
  <2> QED
    BY <1>1, <2>1, HeldOthers DEF CommitEvaluation
<1>3. Held' \subseteq PendingTransitions \union {p}
  BY <1>2 DEF Held, HeldBack, PendingTransitions
<1>4. Cardinality(PendingTransitions) < PendingLimit
  BY DEF CommitEvaluation
<1>5. IsFiniteSet(PendingTransitions)
  <2>1. PendingTransitions \subseteq Policies
    BY DEF PendingTransitions
  <2> QED
    BY <2>1, FS_Subset
<1> HIDE DEF p
<1>6. /\ IsFiniteSet(PendingTransitions \union {p})
      /\ Cardinality(PendingTransitions \union {p}) =
           IF p \in PendingTransitions THEN Cardinality(PendingTransitions)
           ELSE Cardinality(PendingTransitions) + 1
  BY <1>5, FS_AddElement
<1>7. IsFiniteSet(Held') /\ Cardinality(Held') <= Cardinality(PendingTransitions \union {p})
  BY <1>3, <1>6, FS_Subset
<1>8. /\ Cardinality(PendingTransitions) \in Nat /\ Cardinality(Held') \in Nat
      /\ PendingLimit \in Nat
  BY <1>5, <1>7, FS_CardinalityType, LimitsAssumption
<1> QED
  BY <1>4, <1>6, <1>7, <1>8

LEMMA PendingStep ==
  ASSUME TypeOK, IsFiniteSet(Policies), PendingBounded, [Next]_vars
  PROVE  PendingBounded'
<1> USE DEF Held, HeldBack
<1>1. IsFiniteSet(Held) /\ Cardinality(Held) <= PendingLimit
  <2>1. Held \subseteq Policies
    OBVIOUS
  <2> QED
    BY <2>1, FS_Subset DEF PendingBounded
<1>2. Cardinality(Held') <= PendingLimit
  <2>1. CASE \E t \in tickets : CommitEvaluation(t)
    BY <2>1, CommitHeld
  <2>2. CASE \A t \in tickets : ~CommitEvaluation(t)
    <3>1. Held' \subseteq Held
      BY <2>2, HeldStep
    <3>2. IsFiniteSet(Held') /\ Cardinality(Held') <= Cardinality(Held)
      BY <1>1, <3>1, FS_Subset
    <3>3. Cardinality(Held) \in Nat /\ Cardinality(Held') \in Nat /\ PendingLimit \in Nat
      BY <1>1, <3>2, FS_CardinalityType, LimitsAssumption
    <3> QED
      BY <1>1, <3>2, <3>3
  <2> QED
    BY <2>1, <2>2
<1> QED
  BY <1>2 DEF PendingBounded

(***************************************************************************)
(* The adaptations whose hold-down is still running never exceed           *)
(* max_pending_transitions, for any finite number of policies: only a      *)
(* commit starts such a hold-down, and it counts those of all policies     *)
(* under the same lock (verify_and_commit).                                *)
(***************************************************************************)
THEOREM PendingCorrect ==
  ASSUME IsFiniteSet(Policies) PROVE Spec => []PendingBounded
<1>1. Init => PendingBounded
  <2> SUFFICES ASSUME Init PROVE PendingBounded
    OBVIOUS
  <2>1. {p \in Policies : /\ timing[p].holdDownActive
                          /\ now < timing[p].holdDownDeadline
                          /\ preference[p].cause # "ROLLBACK_REQUESTED"} = {}
    BY DEF Init, NoTiming
  <2>2. Cardinality({}) = 0 /\ 0 <= PendingLimit
    BY FS_EmptySet, LimitsAssumption
  <2> QED
    BY <2>1, <2>2 DEF PendingBounded
<1>2. CoreInv /\ PendingBounded /\ [Next]_vars => PendingBounded'
  BY PendingStep DEF CoreInv
<1> QED
  BY <1>1, <1>2, CoreInvariant, PTL DEF Spec

-----------------------------------------------------------------------------
(* The reverse index *)

\* As long as there are fewer paths than the index takes, it takes every path.
SmallIndex == IsFiniteSet(Paths) /\ Cardinality(Paths) < IndexCap

LEMMA ReindexedWhole ==
  ASSUME SmallIndex, NEW index \in [Paths -> SUBSET Policies], NEW p \in Policies,
         NEW declared \in SUBSET Paths
  PROVE  Reindexed(index, p, declared) =
           [x \in Paths |-> IF x \in declared THEN index[x] \union {p} ELSE index[x]]
<1> SUFFICES ASSUME NEW x \in Paths
             PROVE  Cardinality({y \in Paths : index[y] # {}}
                                  \union {y \in declared : y < x}) < IndexCap
  BY DEF Reindexed
<1> DEFINE before == {y \in Paths : index[y] # {}} \union {y \in declared : y < x}
<1>1. before \subseteq Paths
  OBVIOUS
<1> HIDE DEF before
<1>2. IsFiniteSet(before) /\ Cardinality(before) <= Cardinality(Paths)
  BY <1>1, FS_Subset DEF SmallIndex
<1>3. Cardinality(before) \in Nat /\ Cardinality(Paths) \in Nat /\ IndexCap \in Nat
  BY <1>2, FS_CardinalityType, LimitsAssumption DEF SmallIndex
<1>4. Cardinality(before) < IndexCap
  BY <1>2, <1>3 DEF SmallIndex
<1> QED
  BY <1>4 DEF before

\* A notification to a candidate declares it, or keeps its watermark.
LEMMA NotifiedKeeps ==
  ASSUME NEW c \in CandidateRecord, NEW event, NEW b
  PROVE  LET next == NotifiedCandidate(c, event, b) IN
           /\ next.declared <=> c.declared \/ event = "DECLARE_CANDIDATE"
           /\ event # "DECLARE_CANDIDATE" => next.watermark = c.watermark
           /\ event # "DECLARE_CANDIDATE" /\ c.declared => next.binding = Rebound(c, event, b)
           /\ event # "DECLARE_CANDIDATE" /\ ~c.declared => next = c
BY DEF NotifiedCandidate, CandidateRecord

\* The candidate of q on y after the notification reached p and x, and before the
\* invalidation.
Named(p, x, event, b, q, y) ==
  IF q = p /\ y = x THEN NotifiedCandidate(candidates[q][y], event, b)
  ELSE candidates[q][y]

\* What apply_upstream does to one candidate of one policy.
LEMMA NotifiedRecord ==
  ASSUME TypeOK, NEW p \in Policies, NEW x \in Paths, NEW event \in Events,
         NEW b \in Bindings, ApplyUpstream(p, x, event, b),
         NEW q \in Policies, NEW y \in Paths
  PROVE  candidates'[q][y] =
           IF /\ event \in Invalidating /\ y = x /\ q \in policiesByPath[x]
              /\ Named(p, x, event, b, q, y).declared
           THEN [Named(p, x, event, b, q, y) EXCEPT !.watermark = @ + 1]
           ELSE Named(p, x, event, b, q, y)
<1> DEFINE notified == [candidates EXCEPT ![p][x] =
                          NotifiedCandidate(candidates[p][x], event, b)]
           next == Named(p, x, event, b, q, y)
<1>1. candidates \in [Policies -> [Paths -> CandidateRecord]]
  BY DEF TypeOK
<1>2. notified[q][y] = next /\ (y = x => notified[q][x] = next)
  BY <1>1 DEF Named
<1>3. NotifiedCandidate(candidates[p][x], event, b) \in CandidateRecord
  BY <1>1, NotifiedCandidateType, EventsAssumption, BindingsAssumption
<1>4. notified \in [Policies -> [Paths -> CandidateRecord]]
  BY <1>1, <1>3
<1>5. candidates' = IF event \in Invalidating THEN Invalidated(notified, x) ELSE notified
  BY DEF ApplyUpstream
<1> HIDE DEF notified, next
<1>6. CASE event \notin Invalidating
  BY <1>2, <1>5, <1>6 DEF next
<1>7. CASE event \in Invalidating
  <2>1. candidates'[q] = IF q \in policiesByPath[x] /\ notified[q][x].declared
                         THEN [notified[q] EXCEPT ![x].watermark = @ + 1] ELSE notified[q]
    BY <1>5, <1>7 DEF Invalidated
  <2>2. CASE y = x
    BY <1>2, <1>4, <1>7, <2>1, <2>2 DEF next
  <2>3. CASE y # x
    BY <1>2, <1>4, <1>7, <2>1, <2>3 DEF next
  <2> QED
    BY <2>2, <2>3
<1> QED
  BY <1>6, <1>7 DEF next

\* Declaring is the only notification that changes what a policy binds.
LEMMA DeclaredAfter ==
  ASSUME TypeOK, NEW p \in Policies, NEW x \in Paths, NEW event \in Events,
         NEW b \in Bindings, ApplyUpstream(p, x, event, b),
         NEW q \in Policies, NEW y \in Paths
  PROVE  candidates'[q][y].declared <=>
           \/ candidates[q][y].declared
           \/ event = "DECLARE_CANDIDATE" /\ q = p /\ y = x
<1> DEFINE c == candidates[q][y]
           next == Named(p, x, event, b, q, y)
<1>1. c \in CandidateRecord /\ NotifiedCandidate(c, event, b) \in CandidateRecord
  BY NotifiedCandidateType, EventsAssumption, BindingsAssumption DEF TypeOK
<1>2. next.declared <=> c.declared \/ (event = "DECLARE_CANDIDATE" /\ q = p /\ y = x)
  BY <1>1, NotifiedKeeps DEF Named
<1>3. next \in CandidateRecord
  BY <1>1 DEF Named
<1>4. candidates'[q][y] = next \/ candidates'[q][y] = [next EXCEPT !.watermark = @ + 1]
  BY NotifiedRecord
<1> HIDE DEF next
<1>5. candidates'[q][y].declared = next.declared
  BY <1>3, <1>4 DEF CandidateRecord
<1> QED
  BY <1>2, <1>5

LEMMA UpstreamIndex ==
  ASSUME TypeOK, SmallIndex, IndexMatchesScan, NEW p \in Policies, NEW x \in Paths,
         NEW event \in Events, NEW b \in Bindings, ApplyUpstream(p, x, event, b)
  PROVE  IndexMatchesScan'
<1> SUFFICES ASSUME NEW y \in Paths
             PROVE  policiesByPath'[y] = {q \in Policies : candidates'[q][y].declared}
  BY DEF IndexMatchesScan
<1>1. policiesByPath[y] = {q \in Policies : candidates[q][y].declared}
  BY DEF IndexMatchesScan
<1>2. CASE event # "DECLARE_CANDIDATE"
  <2>1. policiesByPath' = policiesByPath
    BY <1>2 DEF ApplyUpstream
  <2> QED
    BY <1>1, <1>2, <2>1, DeclaredAfter
<1>3. CASE event = "DECLARE_CANDIDATE"
  <2> DEFINE notified == [candidates EXCEPT ![p][x] =
                            NotifiedCandidate(candidates[p][x], event, b)]
  <2>1. policiesByPath' = Reindexed(policiesByPath, p, DeclaredPaths(notified[p]))
    BY <1>3 DEF ApplyUpstream
  <2>2. event \notin Invalidating
    BY <1>3 DEF Invalidating
  <2>3. candidates' = notified
    BY <2>2 DEF ApplyUpstream
  <2> HIDE DEF notified
  <2>4. DeclaredPaths(notified[p]) = {z \in Paths : candidates'[p][z].declared}
    BY <2>3 DEF DeclaredPaths
  <2>5. /\ policiesByPath \in [Paths -> SUBSET Policies]
        /\ DeclaredPaths(notified[p]) \in SUBSET Paths
    BY <2>4 DEF TypeOK
  <2>6. policiesByPath' = [z \in Paths |-> IF z \in DeclaredPaths(notified[p])
                                          THEN policiesByPath[z] \union {p}
                                          ELSE policiesByPath[z]]
    <3> DEFINE declared == DeclaredPaths(notified[p])
    <3>1. declared \in SUBSET Paths /\ policiesByPath' = Reindexed(policiesByPath, p, declared)
      BY <2>1, <2>5
    <3> HIDE DEF declared
    <3>2. Reindexed(policiesByPath, p, declared) =
            [z \in Paths |-> IF z \in declared THEN policiesByPath[z] \union {p}
                            ELSE policiesByPath[z]]
      BY <2>5, <3>1, ReindexedWhole
    <3> QED
      BY <3>1, <3>2 DEF declared
  <2>7. policiesByPath'[y] = IF candidates'[p][y].declared
                             THEN policiesByPath[y] \union {p} ELSE policiesByPath[y]
    BY <2>4, <2>6
  <2>8. \A q \in Policies : candidates'[q][y].declared <=>
          candidates[q][y].declared \/ (q = p /\ y = x)
    BY <1>3, DeclaredAfter
  <2>9. candidates'[p][x].declared
    BY <2>8, DeclaredAfter, <1>3
  <2>10. policiesByPath'[y] = {q \in Policies : candidates[q][y].declared \/ (q = p /\ y = x)}
    BY <1>1, <2>7, <2>8
  <2> QED
    BY <2>8, <2>10
<1> QED
  BY <1>2, <1>3

LEMMA UpdateIndex ==
  ASSUME TypeOK, SmallIndex, IndexMatchesScan, NEW p \in Policies, NEW s \in Semantics,
         UpdatePolicy(p, s)
  PROVE  IndexMatchesScan'
<1> DEFINE old == DeclaredPaths(candidates[p])
           index == Unindexed(policiesByPath, p, old)
<1>1. /\ candidates \in [Policies -> [Paths -> CandidateRecord]]
      /\ policiesByPath \in [Paths -> SUBSET Policies]
  BY DEF TypeOK
<1>2. \/ /\ candidates' = candidates
         /\ policiesByPath' = Reindexed(index, p, old)
      \/ /\ candidates' = [candidates EXCEPT ![p] = [x \in Paths |-> NoCandidate]]
         /\ policiesByPath' = Reindexed(index, p, {})
  BY DEF UpdatePolicy
<1>3. old = {x \in Paths : candidates[p][x].declared}
  BY DEF DeclaredPaths
<1>4. index = [x \in Paths |-> IF x \in old THEN policiesByPath[x] \ {p} ELSE policiesByPath[x]]
  BY DEF Unindexed
<1>5. index \in [Paths -> SUBSET Policies]
  BY <1>1, <1>4
<1> HIDE DEF old, index
<1> SUFFICES ASSUME NEW x \in Paths
             PROVE  policiesByPath'[x] = {q \in Policies : candidates'[q][x].declared}
  BY DEF IndexMatchesScan
<1>6. policiesByPath[x] = {q \in Policies : candidates[q][x].declared}
  BY DEF IndexMatchesScan
<1>7. CASE /\ candidates' = candidates
           /\ policiesByPath' = Reindexed(index, p, old)
  <2>1. old \in SUBSET Paths
    BY <1>3
  <2>2. Reindexed(index, p, old) =
          [y \in Paths |-> IF y \in old THEN index[y] \union {p} ELSE index[y]]
    BY <1>5, <2>1, ReindexedWhole
  <2>3. policiesByPath'[x] = IF x \in old THEN index[x] \union {p} ELSE index[x]
    BY <1>7, <2>2
  <2> QED
    BY <1>3, <1>4, <1>6, <1>7, <2>3
<1>8. CASE /\ candidates' = [candidates EXCEPT ![p] = [y \in Paths |-> NoCandidate]]
           /\ policiesByPath' = Reindexed(index, p, {})
  <2>1. policiesByPath'[x] = index[x]
    BY <1>5, <1>8, ReindexedWhole
  <2>2. ~candidates'[p][x].declared /\ \A q \in Policies \ {p} : candidates'[q] = candidates[q]
    BY <1>1, <1>8 DEF NoCandidate
  <2>3. index[x] = {q \in Policies \ {p} : candidates[q][x].declared}
    BY <1>3, <1>4, <1>6
  <2> QED
    BY <2>1, <2>2, <2>3
<1> QED
  BY <1>2, <1>7, <1>8

LEMMA IndexStep ==
  ASSUME TypeOK, SmallIndex, IndexMatchesScan, [Next]_vars
  PROVE  IndexMatchesScan'
<1>1. ASSUME UNCHANGED bindingVars PROVE IndexMatchesScan'
  BY <1>1 DEF bindingVars, IndexMatchesScan
<1>2. ASSUME NEW p \in Policies, NEW s \in Semantics, UpdatePolicy(p, s)
      PROVE  IndexMatchesScan'
  BY <1>2, UpdateIndex
<1>3. ASSUME NEW p \in Policies, NEW x \in Paths, NEW event \in Events,
             NEW b \in Bindings, ApplyUpstream(p, x, event, b)
      PROVE  IndexMatchesScan'
  BY <1>3, UpstreamIndex
<1>4. ASSUME NEW p \in Policies,
             \/ \E s \in Semantics : CreatePolicy(p, s)
             \/ \E event \in Operations : TransitionPolicy(p, event)
             \/ RevokePolicy(p) \/ BeginEvaluation(p) \/ Rollback(p)
      PROVE  IndexMatchesScan'
  BY <1>1, <1>4 DEF CreatePolicy, TransitionPolicy, RevokePolicy, BeginEvaluation, Rollback
<1>5. ASSUME NEW x \in Paths, NEW value \in Values, NEW quality \in Qualities,
             NEW newIncarnation \in BOOLEAN,
             PublishEvidence(x, value, quality, newIncarnation)
      PROVE  IndexMatchesScan'
  BY <1>1, <1>5 DEF PublishEvidence
<1>6. ASSUME NEW t \in tickets, CommitEvaluation(t) \/ CommitSuppressed(t) \/ DropTicket(t)
      PROVE  IndexMatchesScan'
  BY <1>1, <1>6 DEF CommitEvaluation, CommitSuppressed, DropTicket
<1>7. CASE AdvanceEpoch \/ Tick \/ UNCHANGED vars
  BY <1>1, <1>7 DEF AdvanceEpoch, Tick, vars
<1> QED
  BY <1>2, <1>3, <1>4, <1>5, <1>6, <1>7 DEF Next

(***************************************************************************)
(* The reverse index finds every policy that binds a path, and no other,   *)
(* for any number of paths below the one at which reindex_policy stops     *)
(* inserting: an invalidation misses no policy.                            *)
(***************************************************************************)
THEOREM IndexCorrect ==
  ASSUME SmallIndex PROVE Spec => []IndexMatchesScan
<1>1. Init => IndexMatchesScan
  BY DEF Init, IndexMatchesScan, NoCandidate
<1>2. CoreInv /\ IndexMatchesScan /\ [Next]_vars => IndexMatchesScan'
  BY IndexStep DEF CoreInv
<1> QED
  BY <1>1, <1>2, CoreInvariant, PTL DEF Spec

-----------------------------------------------------------------------------
(* Tickets in flight *)

\* A candidate is never declared twice, and the index takes every path.
Fenced == SmallIndex /\ "REDECLARE_CANDIDATE" \notin Events

\* Two bindings that differ at most in what no watermark guards.
Agree(a, b) ==
  /\ a.generation = b.generation /\ a.legal = b.legal /\ a.current = b.current
  /\ a.member = b.member /\ a.available = b.available
  /\ "ADVANCE_WEIGHT_POLICY" \notin Events => a.weighted = b.weighted
  /\ "CLEAR_HARD_FAILURE_SIGNAL" \notin Events => a.hardFailure = b.hardFailure

\* The candidate a ticket saw is still declared, and its binding still holds unless
\* its watermark has moved on.
Follows(seen, c) ==
  seen.declared =>
    /\ c.declared /\ seen.watermark <= c.watermark
    /\ seen.watermark = c.watermark => Agree(seen.binding, c.binding)

\* Usable, by what the ticket saw.
SeenUsable(t) ==
  LET seen == t.candidates[t.target] IN
  /\ seen.declared /\ seen.binding.legal /\ seen.binding.current /\ seen.binding.available
  /\ semantics[t.policy].set => seen.binding.member

\* What a ticket remembers of the state it was taken from.
Remembers(t) ==
  /\ lifecycle[t.policy] # Absent
  /\ t.policyGeneration <= generation[t.policy]
  /\ t.evidenceGeneration <= evidenceGeneration
  /\ t.evidenceGeneration = evidenceGeneration => t.evidence = evidence
  /\ \A x \in Paths : ~t.candidates[x].declared => t.candidates[x] = NoCandidate
  /\ t.policyGeneration = generation[t.policy] =>
       /\ \A x \in Paths : Follows(t.candidates[x], candidates[t.policy][x])
       /\ t.eligible => SeenUsable(t)

\* A ticket of an earlier epoch is of no use; one of this epoch remembers.
Tracked(t) == t.epoch <= epoch /\ (t.epoch = epoch => Remembers(t))

UndeclaredIsNothing ==
  \A p \in Policies, x \in Paths : ~candidates[p][x].declared => candidates[p][x] = NoCandidate

\* Inductive: a watermark moves whenever a binding does, because the index names
\* every policy that binds the path.
FenceInv ==
  /\ CoreInv /\ IndexMatchesScan /\ UndeclaredIsNothing
  /\ \A t \in tickets : Tracked(t)

LEMMA FollowsItself ==
  ASSUME NEW c \in CandidateRecord
  PROVE  Follows(c, c)
BY DEF Follows, Agree, CandidateRecord

LEMMA FollowsOn ==
  ASSUME NEW a \in CandidateRecord, NEW b \in CandidateRecord, NEW c \in CandidateRecord,
         Follows(a, b), Follows(b, c)
  PROVE  Follows(a, c)
<1>1. a.watermark \in Nat /\ b.watermark \in Nat /\ c.watermark \in Nat
  BY DEF CandidateRecord
<1> QED
  BY <1>1 DEF Follows, Agree

\* A notification that moves no watermark changes only what none guards.
LEMMA UnguardedAgrees ==
  ASSUME Fenced, NEW c \in CandidateRecord, NEW b, NEW event \in Events,
         event \notin Invalidating, event # "DECLARE_CANDIDATE"
  PROVE  Agree(c.binding, Rebound(c, event, b))
<1>1. event \in {"ADVANCE_WEIGHT_POLICY", "CLEAR_HARD_FAILURE_SIGNAL"}
  BY EventsAssumption DEF Fenced, Invalidating
<1>2. c.binding \in CandidateBinding
  BY DEF CandidateRecord
<1>3. CASE event = "ADVANCE_WEIGHT_POLICY"
  <2>1. Rebound(c, event, b) = [c.binding EXCEPT !.weighted = b.weighted]
    BY <1>3 DEF Rebound
  <2> QED
    BY <1>2, <1>3, <2>1 DEF Agree, CandidateBinding
<1>4. CASE event = "CLEAR_HARD_FAILURE_SIGNAL"
  <2>1. Rebound(c, event, b) = [c.binding EXCEPT !.hardFailure = FALSE]
    BY <1>4 DEF Rebound
  <2> QED
    BY <1>2, <1>4, <2>1 DEF Agree, CandidateBinding
<1> QED
  BY <1>1, <1>3, <1>4

\* Every candidate follows itself through a notification.
LEMMA UpstreamFollows ==
  ASSUME TypeOK, IndexMatchesScan, Fenced, NEW p \in Policies, NEW x \in Paths,
         NEW event \in Events, NEW b \in Bindings, ApplyUpstream(p, x, event, b),
         NEW q \in Policies, NEW y \in Paths
  PROVE  Follows(candidates[q][y], candidates'[q][y])
<1> DEFINE c == candidates[q][y]
           next == Named(p, x, event, b, q, y)
<1>1. c \in CandidateRecord /\ NotifiedCandidate(c, event, b) \in CandidateRecord
  BY NotifiedCandidateType, EventsAssumption, BindingsAssumption DEF TypeOK
<1>2. next \in CandidateRecord
  BY <1>1 DEF Named
<1> SUFFICES ASSUME c.declared PROVE Follows(c, candidates'[q][y])
  BY DEF Follows
<1>3. event = "DECLARE_CANDIDATE" => next = c
  BY DEF Named, ApplyUpstream, Accepted
<1>4. event # "DECLARE_CANDIDATE" =>
        /\ next.declared /\ next.watermark = c.watermark
        /\ next = c \/ (q = p /\ y = x /\ next.binding = Rebound(c, event, b))
  BY <1>1, NotifiedKeeps DEF Named
<1>5. next.declared /\ next.watermark = c.watermark
  BY <1>3, <1>4
<1>6. CASE event \in Invalidating /\ y = x
  <2>1. q \in policiesByPath[x]
    BY <1>6 DEF IndexMatchesScan
  <2>2. candidates'[q][y] = [next EXCEPT !.watermark = @ + 1]
    BY <1>5, <1>6, <2>1, NotifiedRecord
  <2> HIDE DEF next
  <2>3. candidates'[q][y].declared /\ candidates'[q][y].watermark = c.watermark + 1
    BY <1>2, <1>5, <2>2 DEF CandidateRecord
  <2>4. c.watermark \in Nat
    BY <1>1 DEF CandidateRecord
  <2> QED
    BY <2>3, <2>4 DEF Follows
<1>7. CASE ~(event \in Invalidating /\ y = x)
  <2>1. candidates'[q][y] = next
    <3>1. candidates'[q][y] =
            IF event \in Invalidating /\ y = x /\ q \in policiesByPath[x] /\ next.declared
            THEN [next EXCEPT !.watermark = @ + 1] ELSE next
      BY NotifiedRecord
    <3> HIDE DEF next
    <3> QED
      BY <1>7, <3>1
  <2>2. CASE next = c
    BY <1>1, <2>1, <2>2, FollowsItself
  <2>3. CASE next # c
    <3>1. event # "DECLARE_CANDIDATE" /\ event \notin Invalidating
          /\ next.binding = Rebound(c, event, b)
      BY <1>3, <1>4, <1>7, <2>3
    <3>2. Agree(c.binding, next.binding)
      BY <1>1, <3>1, UnguardedAgrees
    <3> QED
      BY <1>5, <2>1, <3>2, <1>1 DEF Follows, CandidateRecord
  <2> QED
    BY <2>2, <2>3
<1> QED
  BY <1>6, <1>7

LEMMA UpstreamUndeclared ==
  ASSUME TypeOK, UndeclaredIsNothing, NEW p \in Policies, NEW x \in Paths,
         NEW event \in Events, NEW b \in Bindings, ApplyUpstream(p, x, event, b)
  PROVE  UndeclaredIsNothing'
<1> SUFFICES ASSUME NEW q \in Policies, NEW y \in Paths, ~candidates'[q][y].declared
             PROVE  candidates'[q][y] = NoCandidate
  BY DEF UndeclaredIsNothing
<1> DEFINE c == candidates[q][y]
           next == Named(p, x, event, b, q, y)
<1>1. c \in CandidateRecord
  BY DEF TypeOK
<1>2. ~c.declared /\ ~(event = "DECLARE_CANDIDATE" /\ q = p /\ y = x)
  BY DeclaredAfter
<1>3. next = c
  BY <1>1, <1>2, NotifiedKeeps DEF Named
<1>4. candidates'[q][y] = c
  <2>1. candidates'[q][y] =
          IF event \in Invalidating /\ y = x /\ q \in policiesByPath[x] /\ next.declared
          THEN [next EXCEPT !.watermark = @ + 1] ELSE next
    BY NotifiedRecord
  <2> HIDE DEF next
  <2> QED
    BY <1>2, <1>3, <2>1
<1> QED
  BY <1>2, <1>4 DEF UndeclaredIsNothing

\* The numbers and records of a ticket have their types.
LEMMA TicketType ==
  ASSUME TypeOK, NEW t \in tickets
  PROVE  /\ t.policy \in Policies /\ t.policyGeneration \in Nat
         /\ t.evidenceGeneration \in Nat
         /\ t.candidates \in [Paths -> CandidateRecord]
         /\ t.eligible => t.target \in Paths
BY DEF TypeOK, Ticket

\* A step that keeps what a ticket depends on keeps what it remembers.
LEMMA RememberFrame ==
  ASSUME FenceInv, tickets' \subseteq tickets,
         UNCHANGED <<epoch, evidenceVars, generation, semantics, candidates>>,
         \A p \in Policies : lifecycle'[p] = Absent => lifecycle[p] = Absent
  PROVE  UndeclaredIsNothing' /\ \A t \in tickets' : Tracked(t)'
<1>1. UndeclaredIsNothing'
  BY DEF FenceInv, UndeclaredIsNothing
<1>2. ASSUME NEW t \in tickets', t.epoch = epoch PROVE Remembers(t)'
  <2>1. t \in tickets /\ Remembers(t) /\ t.policy \in Policies
    BY <1>2, TicketType DEF FenceInv, CoreInv, Tracked
  <2> QED
    BY <2>1 DEF Remembers, SeenUsable, evidenceVars
<1> QED
  BY <1>1, <1>2 DEF FenceInv, Tracked

LEMMA BeginRemembers ==
  ASSUME FenceInv, NEW p \in Policies, BeginEvaluation(p)
  PROVE  UndeclaredIsNothing' /\ \A t \in tickets' : Tracked(t)'
<1>0. PICK e : e = EvaluationTicket(p)
  OBVIOUS
<1>1. UNCHANGED <<epoch, evidenceVars, lifecycle, generation, semantics, candidates>>
  BY DEF BeginEvaluation, policyVars, bindingVars
<1>2. UndeclaredIsNothing'
  BY <1>1 DEF FenceInv, UndeclaredIsNothing
<1>3. \A t \in tickets : Tracked(t)'
  BY <1>1 DEF FenceInv, Tracked, Remembers, SeenUsable, evidenceVars
<1>4. /\ e.policy = p /\ e.epoch = epoch /\ e.policyGeneration = generation[p]
      /\ e.evidenceGeneration = evidenceGeneration /\ e.evidence = evidence
      /\ e.candidates = candidates[p]
      /\ e.eligible => e.target \in EligiblePaths(p)
  <2>1. e.eligible => e.target = Best(p) /\ Best(p) # NoPath
    BY <1>0 DEF EvaluationTicket, Committable
  <2> QED
    BY <1>0, <2>1, BestType DEF EvaluationTicket
<1>5. e.eligible => SeenUsable(e)
  BY <1>4 DEF EligiblePaths, Usable, SeenUsable
<1>6. /\ lifecycle[p] # Absent /\ generation[p] \in Nat /\ evidenceGeneration \in Nat
      /\ candidates[p] \in [Paths -> CandidateRecord]
  BY DEF BeginEvaluation, Absent, FenceInv, CoreInv, TypeOK
<1>7. \A x \in Paths : Follows(candidates[p][x], candidates[p][x])
  BY <1>6, FollowsItself
<1>8. Remembers(e)
  <2>1. \A x \in Paths : ~candidates[p][x].declared => candidates[p][x] = NoCandidate
    BY DEF FenceInv, UndeclaredIsNothing
  <2>2. e.policyGeneration <= generation[e.policy] /\ e.evidenceGeneration <= evidenceGeneration
    BY <1>4, <1>6
  <2> QED
    BY <1>4, <1>5, <1>6, <1>7, <2>1, <2>2 DEF Remembers
<1>9. Remembers(e)'
  BY <1>1, <1>8 DEF Remembers, SeenUsable, evidenceVars
<1>10. tickets' = tickets \union {e}
  BY <1>0 DEF BeginEvaluation
<1>11. Tracked(e)'
  <2>1. epoch \in Nat
    BY DEF FenceInv, CoreInv, TypeOK
  <2> QED
    BY <1>1, <1>4, <1>9, <2>1 DEF Tracked
<1> QED
  BY <1>2, <1>3, <1>10, <1>11

\* A policy update leaves every ticket of the policy a generation behind.
LEMMA PolicyRemembers ==
  ASSUME FenceInv, NEW p \in Policies, NEW s \in Semantics,
         CreatePolicy(p, s) \/ UpdatePolicy(p, s)
  PROVE  UndeclaredIsNothing' /\ \A t \in tickets' : Tracked(t)'
<1>1. /\ generation \in [Policies -> Nat] /\ lifecycle \in [Policies -> PolicyLifecycle \union {Absent}]
      /\ semantics \in [Policies -> Semantics]
      /\ candidates \in [Policies -> [Paths -> CandidateRecord]]
  BY DEF FenceInv, CoreInv, TypeOK
<1>2. /\ tickets' = tickets /\ epoch' = epoch /\ UNCHANGED evidenceVars
      /\ \A q \in Policies \ {p} :
           /\ lifecycle'[q] = lifecycle[q] /\ generation'[q] = generation[q]
           /\ semantics'[q] = semantics[q] /\ candidates'[q] = candidates[q]
      /\ candidates'[p] = candidates[p] \/ candidates'[p] = [x \in Paths |-> NoCandidate]
      /\ lifecycle'[p] # Absent
  <2>1. CASE CreatePolicy(p, s)
    BY <1>1, <2>1 DEF CreatePolicy, bindingVars, Absent
  <2>2. CASE UpdatePolicy(p, s)
    BY <1>1, <2>2 DEF UpdatePolicy, Absent
  <2> QED
    BY <2>1, <2>2
<1>3. UndeclaredIsNothing'
  BY <1>2 DEF FenceInv, UndeclaredIsNothing
<1>4. ASSUME NEW t \in tickets', t.epoch = epoch PROVE Remembers(t)'
  <2>1. t \in tickets /\ Remembers(t)
    BY <1>2, <1>4 DEF FenceInv, Tracked
  <2>2. t.policy \in Policies /\ t.policyGeneration \in Nat
    BY <2>1, TicketType DEF FenceInv, CoreInv
  <2>3. CASE t.policy # p
    BY <1>2, <2>1, <2>2, <2>3 DEF Remembers, SeenUsable, evidenceVars
  <2>4. CASE t.policy = p
    <3>1. UpdatePolicy(p, s)
      BY <2>1, <2>4 DEF Remembers, CreatePolicy
    <3>2. generation'[p] = generation[p] + 1
      BY <1>1, <3>1 DEF UpdatePolicy
    <3>3. t.policyGeneration < generation'[t.policy]
      BY <1>1, <2>1, <2>2, <2>4, <3>2 DEF Remembers
    <3>4. t.policyGeneration <= generation'[t.policy] /\ t.policyGeneration # generation'[t.policy]
      BY <1>1, <2>2, <2>4, <3>2, <3>3
    <3> QED
      BY <1>2, <2>1, <2>4, <3>4 DEF Remembers, evidenceVars
  <2> QED
    BY <2>3, <2>4
<1> QED
  BY <1>2, <1>3, <1>4 DEF FenceInv, Tracked

LEMMA UpstreamRemembers ==
  ASSUME FenceInv, Fenced, NEW p \in Policies, NEW x \in Paths, NEW event \in Events,
         NEW b \in Bindings, ApplyUpstream(p, x, event, b)
  PROVE  UndeclaredIsNothing' /\ \A t \in tickets' : Tracked(t)'
<1>1. TypeOK /\ IndexMatchesScan /\ UndeclaredIsNothing /\ TypeOK'
  BY ApplyUpstreamType DEF FenceInv, CoreInv
<1>2. UndeclaredIsNothing'
  BY <1>1, UpstreamUndeclared
<1>3. UNCHANGED <<epoch, evidenceVars, lifecycle, generation, semantics, tickets>>
  BY DEF ApplyUpstream, policyVars
<1>4. ASSUME NEW t \in tickets', t.epoch = epoch PROVE Remembers(t)'
  <2>1. t \in tickets /\ Remembers(t)
    BY <1>3, <1>4 DEF FenceInv, Tracked
  <2>2. t.policy \in Policies /\ t.candidates \in [Paths -> CandidateRecord]
    BY <1>1, <2>1, TicketType
  <2>3. \A y \in Paths : /\ candidates[t.policy][y] \in CandidateRecord
                         /\ candidates'[t.policy][y] \in CandidateRecord
                         /\ Follows(candidates[t.policy][y], candidates'[t.policy][y])
    BY <1>1, <2>2, UpstreamFollows DEF TypeOK
  <2>4. \A y \in Paths : Follows(t.candidates[y], candidates[t.policy][y])
                           => Follows(t.candidates[y], candidates'[t.policy][y])
    BY <2>2, <2>3, FollowsOn
  <2> QED
    BY <1>3, <2>1, <2>4 DEF Remembers, SeenUsable, evidenceVars
<1> QED
  BY <1>2, <1>3, <1>4 DEF FenceInv, Tracked

LEMMA PublishRemembers ==
  ASSUME FenceInv, NEW x \in Paths, NEW value \in Values, NEW quality \in Qualities,
         NEW newIncarnation \in BOOLEAN, PublishEvidence(x, value, quality, newIncarnation)
  PROVE  UndeclaredIsNothing' /\ \A t \in tickets' : Tracked(t)'
<1>1. /\ UNCHANGED <<epoch, lifecycle, generation, semantics, candidates, tickets>>
      /\ evidenceGeneration' = evidenceGeneration + 1 /\ evidenceGeneration \in Nat
  BY DEF PublishEvidence, policyVars, bindingVars, FenceInv, CoreInv, TypeOK
<1>2. UndeclaredIsNothing'
  BY <1>1 DEF FenceInv, UndeclaredIsNothing
<1>3. ASSUME NEW t \in tickets', t.epoch = epoch PROVE Remembers(t)'
  <2>1. t \in tickets /\ Remembers(t) /\ t.evidenceGeneration \in Nat
    BY <1>1, <1>3, TicketType DEF FenceInv, CoreInv, Tracked
  <2>2. t.evidenceGeneration <= evidenceGeneration' /\ t.evidenceGeneration # evidenceGeneration'
    BY <1>1, <2>1 DEF Remembers
  <2> QED
    BY <1>1, <2>1, <2>2 DEF Remembers, SeenUsable
<1> QED
  BY <1>1, <1>2, <1>3 DEF FenceInv, Tracked

LEMMA FenceStep == Fenced /\ FenceInv /\ [Next]_vars => FenceInv'
<1> SUFFICES ASSUME Fenced, FenceInv, [Next]_vars PROVE FenceInv'
  OBVIOUS
<1>0. CoreInv' /\ IndexMatchesScan'
  BY CoreStep, IndexStep DEF FenceInv, CoreInv, Fenced
<1> DEFINE Kept == UndeclaredIsNothing' /\ \A t \in tickets' : Tracked(t)'
<1> SUFFICES Kept
  BY <1>0 DEF FenceInv
<1>1. ASSUME NEW p \in Policies, NEW s \in Semantics, CreatePolicy(p, s) \/ UpdatePolicy(p, s)
      PROVE  Kept
  BY <1>1, PolicyRemembers
<1>2. ASSUME NEW p \in Policies, NEW event \in Operations, TransitionPolicy(p, event)
      PROVE  Kept
  <2>1. PICK next \in PolicyTransition(lifecycle[p], event) :
          lifecycle' = [lifecycle EXCEPT ![p] = next]
    BY <1>2 DEF TransitionPolicy
  <2>2. \A q \in Policies : lifecycle'[q] = Absent => lifecycle[q] = Absent
    BY <2>1, TransitionLeaves DEF FenceInv, CoreInv, TypeOK
  <2> QED
    BY <1>2, <2>2, RememberFrame DEF TransitionPolicy, bindingVars
<1>3. ASSUME NEW p \in Policies, RevokePolicy(p)
      PROVE  Kept
  <2>1. \A q \in Policies : lifecycle'[q] = Absent => lifecycle[q] = Absent
    BY <1>3 DEF RevokePolicy, FenceInv, CoreInv, TypeOK, Absent
  <2> QED
    BY <1>3, <2>1, RememberFrame DEF RevokePolicy, bindingVars
<1>4. ASSUME NEW p \in Policies, BeginEvaluation(p)
      PROVE  Kept
  BY <1>4, BeginRemembers
<1>5. ASSUME NEW p \in Policies, Rollback(p)
      PROVE  Kept
  BY <1>5, RememberFrame DEF Rollback, policyVars, bindingVars
<1>6. ASSUME NEW p \in Policies, NEW x \in Paths, NEW event \in Events,
             NEW b \in Bindings, ApplyUpstream(p, x, event, b)
      PROVE  Kept
  BY <1>6, UpstreamRemembers
<1>7. ASSUME NEW x \in Paths, NEW value \in Values, NEW quality \in Qualities,
             NEW newIncarnation \in BOOLEAN,
             PublishEvidence(x, value, quality, newIncarnation)
      PROVE  Kept
  BY <1>7, PublishRemembers
<1>8. ASSUME NEW t \in tickets, CommitEvaluation(t) \/ CommitSuppressed(t) \/ DropTicket(t)
      PROVE  Kept
  BY <1>8, RememberFrame DEF CommitEvaluation, CommitSuppressed, DropTicket, policyVars,
                             bindingVars
<1>9. CASE AdvanceEpoch
  <2>1. tickets' = tickets /\ candidates' = candidates /\ epoch' = epoch + 1
    BY <1>9 DEF AdvanceEpoch, bindingVars
  <2>2. epoch \in Nat /\ \A t \in tickets : t.epoch \in Nat
    BY DEF FenceInv, CoreInv, TypeOK, Ticket
  <2>3. \A t \in tickets : t.epoch <= epoch + 1 /\ t.epoch # epoch + 1
    BY <2>2 DEF FenceInv, Tracked
  <2> QED
    BY <2>1, <2>3 DEF FenceInv, UndeclaredIsNothing, Tracked
<1>10. CASE Tick \/ UNCHANGED vars
  BY <1>10, RememberFrame DEF Tick, vars, policyVars, bindingVars
<1> QED
  BY <1>1, <1>2, <1>3, <1>4, <1>5, <1>6, <1>7, <1>8, <1>9, <1>10 DEF Next

LEMMA FenceInit == Init => FenceInv
BY CoreInit DEF Init, FenceInv, IndexMatchesScan, UndeclaredIsNothing, NoCandidate

LEMMA FenceInvariant ==
  ASSUME Fenced PROVE Spec => []FenceInv
<1>1. FenceInv /\ [Next]_vars => FenceInv'
  BY FenceStep
<1> QED
  BY <1>1, FenceInit, PTL DEF Spec

\* What a ticket saw of a candidate that did not drift still holds.
LEMMA UndriftedAgrees ==
  ASSUME FenceInv, NEW t \in tickets, TicketCurrent(t), ~DependencyDrift(t), NEW x \in Paths
  PROVE  LET c == candidates[t.policy][x]
             seen == t.candidates[x]
         IN  /\ c.declared <=> seen.declared
             /\ c.declared => c.watermark = seen.watermark /\ Agree(seen.binding, c.binding)
<1>1. Follows(t.candidates[x], candidates[t.policy][x])
  BY DEF FenceInv, Tracked, Remembers, TicketCurrent
<1>2. t.candidates[x] \in CandidateRecord /\ candidates[t.policy][x] \in CandidateRecord
  BY TicketType DEF FenceInv, CoreInv, TypeOK
<1>3. candidates[t.policy][x].declared <=> t.candidates[x].declared
  BY <1>2 DEF DependencyDrift, CandidateRecord
<1>4. candidates[t.policy][x].declared =>
        candidates[t.policy][x].watermark = t.candidates[x].watermark
  BY DEF DependencyDrift
<1> QED
  BY <1>1, <1>3, <1>4 DEF Follows

\* The target of a ticket that may be committed is usable.
LEMMA CommitUsable ==
  ASSUME FenceInv, NEW t \in tickets, CommitEvaluation(t)
  PROVE  Usable(t.policy, t.target)
<1>1. TicketCurrent(t) /\ ~DependencyDrift(t) /\ t.eligible
  BY DEF CommitEvaluation
<1>2. t.target \in Paths
  BY <1>1, TicketType DEF FenceInv, CoreInv
<1>3. SeenUsable(t)
  BY <1>1 DEF FenceInv, Tracked, Remembers, TicketCurrent
<1>4. /\ candidates[t.policy][t.target].declared
      /\ Agree(t.candidates[t.target].binding, candidates[t.policy][t.target].binding)
  BY <1>1, <1>2, <1>3, UndriftedAgrees DEF SeenUsable
<1> QED
  BY <1>3, <1>4 DEF SeenUsable, Agree, Usable

\* The steps that change a preference.
LEMMA PreferenceStep ==
  ASSUME CoreInv, [Next]_vars, NEW q \in Policies
  PROVE  \/ preference'[q] = preference[q]
         \/ preference'[q] = NoPreference
         \/ /\ Rollback(q)
            /\ preference'[q] =
                 Installed(q, stable[q].path, "ROLLBACK_REQUESTED", preference[q].weighted)
         \/ \E t \in tickets, cause \in Causes :
              /\ CommitEvaluation(t) /\ t.policy = q
              /\ preference'[q] = Installed(q, t.target, cause, t.weighted)
<1>0. preference \in [Policies -> RoutingPreference]
  BY DEF CoreInv, TypeOK
<1> DEFINE Goal ==
         \/ preference'[q] = preference[q]
         \/ preference'[q] = NoPreference
         \/ /\ Rollback(q)
            /\ preference'[q] =
                 Installed(q, stable[q].path, "ROLLBACK_REQUESTED", preference[q].weighted)
         \/ \E t \in tickets, cause \in Causes :
              /\ CommitEvaluation(t) /\ t.policy = q
              /\ preference'[q] = Installed(q, t.target, cause, t.weighted)
<1>1. ASSUME NEW p \in Policies, NEW s \in Semantics, UpdatePolicy(p, s) PROVE Goal
  <2>1. preference' = preference \/ preference' = [preference EXCEPT ![p] = NoPreference]
    BY <1>1 DEF UpdatePolicy
  <2> QED
    BY <1>0, <2>1
<1>2. ASSUME NEW p \in Policies, Rollback(p) PROVE Goal
  <2>1. preference' = [preference EXCEPT ![p] =
          Installed(p, stable[p].path, "ROLLBACK_REQUESTED", preference[p].weighted)]
    BY <1>2 DEF Rollback
  <2> QED
    BY <1>0, <1>2, <2>1
<1>3. ASSUME NEW t \in tickets, CommitEvaluation(t) PROVE Goal
  <2>1. PICK cause \in Causes :
          preference' = [preference EXCEPT ![t.policy] =
                           Installed(t.policy, t.target, cause, t.weighted)]
    BY <1>3 DEF CommitEvaluation, Causes
  <2> QED
    BY <1>0, <1>3, <2>1
<1>4. ASSUME UNCHANGED preference PROVE Goal
  BY <1>4
<1> HIDE DEF Goal
<1>5. ASSUME NEW p \in Policies,
             \/ \E s \in Semantics : CreatePolicy(p, s)
             \/ \E event \in Operations : TransitionPolicy(p, event)
             \/ RevokePolicy(p) \/ BeginEvaluation(p)
             \/ \E x \in Paths, event \in Events, b \in Bindings : ApplyUpstream(p, x, event, b)
      PROVE  Goal
  BY <1>4, <1>5 DEF CreatePolicy, TransitionPolicy, RevokePolicy, BeginEvaluation,
                    ApplyUpstream, recordVars
<1>6. ASSUME NEW x \in Paths, NEW value \in Values, NEW quality \in Qualities,
             NEW newIncarnation \in BOOLEAN,
             PublishEvidence(x, value, quality, newIncarnation)
      PROVE  Goal
  BY <1>4, <1>6 DEF PublishEvidence, recordVars
<1>7. ASSUME NEW t \in tickets, CommitSuppressed(t) \/ DropTicket(t) PROVE Goal
  BY <1>4, <1>7 DEF CommitSuppressed, DropTicket, recordVars
<1>8. ASSUME AdvanceEpoch \/ Tick \/ UNCHANGED vars PROVE Goal
  BY <1>4, <1>8 DEF AdvanceEpoch, Tick, vars, recordVars
<1>9. Goal
  BY <1>1, <1>2, <1>3, <1>5, <1>6, <1>7, <1>8 DEF Next
<1> QED
  BY <1>9 DEF Goal

\* The adaptation generation starts at first().
Started == \A p \in Policies : preference[p].adaptation # 0

LEMMA StartedStep == CoreInv /\ Started /\ [Next]_vars => Started'
<1> SUFFICES ASSUME CoreInv, Started, [Next]_vars, NEW q \in Policies
             PROVE  preference'[q].adaptation # 0
  BY DEF Started
<1>1. preference[q].adaptation \in Nat /\ preference[q].adaptation # 0
  BY DEF Started, CoreInv, TypeOK, RoutingPreference
<1>2. CASE preference'[q] = preference[q] \/ preference'[q] = NoPreference
  BY <1>1, <1>2 DEF NoPreference
<1>3. ASSUME NEW x, NEW cause, NEW weighted, preference'[q] = Installed(q, x, cause, weighted)
      PROVE  preference'[q].adaptation # 0
  <2>1. preference'[q].adaptation = preference[q].adaptation + 1
    BY <1>3 DEF Installed
  <2> QED
    BY <1>1, <2>1
<1> QED
  BY <1>2, <1>3, PreferenceStep

LEMMA UsableStep ==
  ASSUME FenceInv, Started, [Next]_vars, NEW q \in Policies,
         preference'[q].adaptation > preference[q].adaptation
  PROVE  Usable(q, preference'[q].path)
<1>1. preference[q].adaptation \in Nat /\ preference[q].adaptation # 0
  BY DEF Started, FenceInv, CoreInv, TypeOK, RoutingPreference
<1>2. CASE preference'[q] = preference[q] \/ preference'[q] = NoPreference
  BY <1>1, <1>2 DEF NoPreference
<1>3. CASE /\ Rollback(q)
           /\ preference'[q] =
                Installed(q, stable[q].path, "ROLLBACK_REQUESTED", preference[q].weighted)
  BY <1>3 DEF Rollback, Installed
<1>4. ASSUME NEW t \in tickets, NEW cause, CommitEvaluation(t), t.policy = q,
             preference'[q] = Installed(q, t.target, cause, t.weighted)
      PROVE  Usable(q, preference'[q].path)
  <2>1. preference'[q].path = t.target
    BY <1>4 DEF Installed
  <2> QED
    BY <1>4, <2>1, CommitUsable
<1> QED
  BY <1>2, <1>3, <1>4, PreferenceStep DEF FenceInv

(***************************************************************************)
(* However old its ticket, an adaptation installs a path that is legal,    *)
(* route-current, available and a member of the set at that moment, in     *)
(* every engine whose upstream declares no candidate twice and whose index *)
(* holds every path: the two conditions under which the watermarks that    *)
(* dependency_drift compares move with whatever they guard.                *)
(***************************************************************************)
THEOREM AdaptsUsably ==
  ASSUME Fenced PROVE Spec => AdaptsToUsablePath
<1>1. Init => Started
  BY DEF Init, Started, NoPreference
<1>2. CoreInv /\ Started /\ [Next]_vars => Started'
  BY StartedStep
<1>3. FenceInv /\ Started /\ [Next]_vars =>
        [\A p \in Policies :
           preference'[p].adaptation > preference[p].adaptation
           => Usable(p, preference'[p].path)]_vars
  BY UsableStep
<1> QED
  BY <1>1, <1>2, <1>3, CoreInvariant, FenceInvariant, PTL DEF Spec, AdaptsToUsablePath

\* What the fence tracks and the checks compare is all a ticket copied.
LEMMA FencePresent ==
  ASSUME Fenced, "ADVANCE_WEIGHT_POLICY" \notin Events,
         "CLEAR_HARD_FAILURE_SIGNAL" \notin Events
  PROVE  FenceInv => SnapshotIsPresent
<1> SUFFICES ASSUME FenceInv, NEW t \in tickets, TicketCurrent(t), EvidenceCurrent(t),
                    ~DependencyDrift(t)
             PROVE  t.candidates = candidates[t.policy] /\ t.evidence = evidence
  BY DEF SnapshotIsPresent
<1>1. t.evidence = evidence
  BY DEF FenceInv, Tracked, Remembers, EvidenceCurrent, TicketCurrent
<1>2. /\ t.candidates \in [Paths -> CandidateRecord]
      /\ candidates[t.policy] \in [Paths -> CandidateRecord]
  BY TicketType DEF FenceInv, CoreInv, TypeOK
<1>3. ASSUME NEW x \in Paths PROVE t.candidates[x] = candidates[t.policy][x]
  <2>1. t.candidates[x] \in CandidateRecord /\ candidates[t.policy][x] \in CandidateRecord
    BY <1>2
  <2>2. CASE candidates[t.policy][x].declared
    <3>1. /\ t.candidates[x].declared
          /\ candidates[t.policy][x].watermark = t.candidates[x].watermark
          /\ Agree(t.candidates[x].binding, candidates[t.policy][x].binding)
      BY <2>2, UndriftedAgrees
    <3>2. t.candidates[x].binding = candidates[t.policy][x].binding
      <4>1. /\ t.candidates[x].binding \in CandidateBinding
            /\ candidates[t.policy][x].binding \in CandidateBinding
        BY <2>1 DEF CandidateRecord
      <4> QED
        BY <3>1, <4>1 DEF Agree, CandidateBinding
    <3>3. t.candidates[x].declared = candidates[t.policy][x].declared
      BY <2>1, <2>2, <3>1 DEF CandidateRecord
    <3> QED
      BY <2>1, <3>1, <3>2, <3>3 DEF CandidateRecord
  <2>3. CASE ~candidates[t.policy][x].declared
    <3>1. ~t.candidates[x].declared
      BY <2>3, UndriftedAgrees
    <3>2. t.policy \in Policies
      BY TicketType DEF FenceInv, CoreInv
    <3> QED
      BY <2>3, <3>1, <3>2 DEF FenceInv, Tracked, TicketCurrent, Remembers, UndeclaredIsNothing
  <2> QED
    BY <2>2, <2>3
<1> QED
  BY <1>1, <1>2, <1>3

(***************************************************************************)
(* A ticket that passes the checks of commit_evaluation describes the      *)
(* present, bindings and evidence, unless the upstream declares a candidate*)
(* twice, advances a weight policy or clears a hard failure: the three     *)
(* notifications that change a binding and move no watermark.              *)
(***************************************************************************)
THEOREM SnapshotPresent ==
  ASSUME Fenced, "ADVANCE_WEIGHT_POLICY" \notin Events,
         "CLEAR_HARD_FAILURE_SIGNAL" \notin Events
  PROVE  Spec => []SnapshotIsPresent
BY FencePresent, FenceInvariant, PTL

-----------------------------------------------------------------------------
(* Targeted invalidation *)

SameVerdicts(a, b) ==
  /\ a.legal = b.legal /\ a.current = b.current
  /\ a.available = b.available /\ a.member = b.member

\* A notification that changes a verdict of a candidate invalidates.
LEMMA VerdictInvalidates ==
  ASSUME NEW c \in CandidateRecord, NEW event \in AllEvents, NEW b \in Bindings,
         c.declared, Accepted(c, event, b), event # "REDECLARE_CANDIDATE",
         ~SameVerdicts(c.binding, NotifiedCandidate(c, event, b).binding)
  PROVE  event \in Invalidating
<1>1. event # "DECLARE_CANDIDATE"
  BY DEF Accepted
<1>2. NotifiedCandidate(c, event, b).binding = Rebound(c, event, b)
  BY <1>1, NotifiedKeeps
<1>3. c.binding \in CandidateBinding
  BY DEF CandidateRecord
<1>4. event \notin {"ADVANCE_WEIGHT_POLICY", "CLEAR_HARD_FAILURE_SIGNAL"}
  BY <1>2, <1>3 DEF Rebound, SameVerdicts, CandidateBinding
<1> QED
  BY <1>1, <1>4 DEF Invalidating

\* Only a notification changes a verdict of a candidate that stays declared.
LEMMA VerdictStep ==
  ASSUME TypeOK, [Next]_vars, NEW q \in Policies, NEW y \in Paths,
         candidates'[q][y].declared, candidates'[q][y] # candidates[q][y]
  PROVE  \E p \in Policies, x \in Paths, event \in Events, b \in Bindings :
           ApplyUpstream(p, x, event, b)
<1>0. candidates \in [Policies -> [Paths -> CandidateRecord]]
  BY DEF TypeOK
<1>1. UNCHANGED candidates => FALSE
  OBVIOUS
<1>2. ASSUME NEW p \in Policies, NEW s \in Semantics, UpdatePolicy(p, s) PROVE FALSE
  <2>1. candidates' = [candidates EXCEPT ![p] = [z \in Paths |-> NoCandidate]]
    BY <1>1, <1>2 DEF UpdatePolicy
  <2> QED
    BY <1>0, <2>1 DEF NoCandidate
<1>3. ASSUME NEW p \in Policies,
             \/ \E s \in Semantics : CreatePolicy(p, s)
             \/ \E event \in Operations : TransitionPolicy(p, event)
             \/ RevokePolicy(p) \/ BeginEvaluation(p) \/ Rollback(p)
      PROVE  FALSE
  BY <1>1, <1>3 DEF CreatePolicy, TransitionPolicy, RevokePolicy, BeginEvaluation,
                    Rollback, bindingVars
<1>4. ASSUME NEW x \in Paths, NEW value \in Values, NEW quality \in Qualities,
             NEW newIncarnation \in BOOLEAN,
             PublishEvidence(x, value, quality, newIncarnation)
      PROVE  FALSE
  BY <1>1, <1>4 DEF PublishEvidence, bindingVars
<1>5. ASSUME NEW t \in tickets, CommitEvaluation(t) \/ CommitSuppressed(t) \/ DropTicket(t)
      PROVE  FALSE
  BY <1>1, <1>5 DEF CommitEvaluation, CommitSuppressed, DropTicket, bindingVars
<1>6. ASSUME AdvanceEpoch \/ Tick \/ UNCHANGED vars PROVE FALSE
  BY <1>1, <1>6 DEF AdvanceEpoch, Tick, vars, bindingVars
<1> QED
  BY <1>2, <1>3, <1>4, <1>5, <1>6 DEF Next

\* An invalidating notification moves the watermarks of those that bind the path.
LEMMA InvalidationMoves ==
  ASSUME TypeOK, IndexMatchesScan, NEW p \in Policies, NEW x \in Paths,
         NEW event \in Invalidating, event \in Events, NEW b \in Bindings,
         ApplyUpstream(p, x, event, b), NEW q \in Policies, NEW y \in Paths
  PROVE  candidates'[q][y].watermark # candidates[q][y].watermark
           <=> y = x /\ candidates[q][x].declared
<1> DEFINE c == candidates[q][y]
           next == Named(p, x, event, b, q, y)
<1>1. event # "DECLARE_CANDIDATE"
  BY DEF Invalidating
<1>2. c \in CandidateRecord /\ NotifiedCandidate(c, event, b) \in CandidateRecord
  BY NotifiedCandidateType, EventsAssumption, BindingsAssumption DEF TypeOK
<1>3. next \in CandidateRecord /\ next.watermark = c.watermark /\ (next.declared <=> c.declared)
  BY <1>1, <1>2, NotifiedKeeps DEF Named
<1>4. q \in policiesByPath[x] <=> candidates[q][x].declared
  BY DEF IndexMatchesScan
<1>5. candidates'[q][y] = IF y = x /\ q \in policiesByPath[x] /\ next.declared
                          THEN [next EXCEPT !.watermark = @ + 1] ELSE next
  BY NotifiedRecord
<1> HIDE DEF next
<1>6. CASE y = x /\ candidates[q][x].declared
  <2>1. candidates'[q][y] = [next EXCEPT !.watermark = @ + 1]
    BY <1>3, <1>4, <1>5, <1>6
  <2>2. candidates'[q][y].watermark = next.watermark + 1 /\ next.watermark \in Nat
    BY <1>3, <2>1 DEF CandidateRecord
  <2> QED
    BY <1>3, <1>6, <2>2
<1>7. CASE ~(y = x /\ candidates[q][x].declared)
  BY <1>3, <1>4, <1>5, <1>7
<1> QED
  BY <1>6, <1>7

\* A withdrawn verdict is one notification, which moves the watermarks the index names.
LEMMA TargetedStep ==
  ASSUME Fenced
  PROVE  TypeOK /\ IndexMatchesScan /\ [Next]_vars =>
           [\A p \in Policies, x \in Paths : Withdraws(p, x) =>
              \A q \in Policies, y \in Paths :
                candidates'[q][y].watermark # candidates[q][y].watermark
                  <=> y = x /\ candidates[q][x].declared]_vars
<1> SUFFICES ASSUME TypeOK, IndexMatchesScan, [Next]_vars, NEW p \in Policies, NEW x \in Paths,
                    Withdraws(p, x), NEW q \in Policies, NEW y \in Paths
             PROVE  candidates'[q][y].watermark # candidates[q][y].watermark
                      <=> y = x /\ candidates[q][x].declared
  OBVIOUS
<1>1. /\ candidates[p][x].declared /\ candidates'[p][x].declared
      /\ ~SameVerdicts(candidates[p][x].binding, candidates'[p][x].binding)
  BY DEF Withdraws, SameVerdicts
<1>2. candidates'[p][x] # candidates[p][x]
  BY <1>1 DEF SameVerdicts
<1>3. PICK p0 \in Policies, x0 \in Paths, event \in Events, b \in Bindings :
        ApplyUpstream(p0, x0, event, b)
  BY <1>1, <1>2, VerdictStep
<1> DEFINE next == Named(p0, x0, event, b, p, x)
<1>4. candidates[p][x] \in CandidateRecord
  BY DEF TypeOK
<1>5. next \in CandidateRecord
  BY <1>4, NotifiedCandidateType, EventsAssumption, BindingsAssumption DEF Named
<1>6. candidates'[p][x] = next \/ candidates'[p][x] = [next EXCEPT !.watermark = @ + 1]
  BY <1>3, NotifiedRecord
<1>7. candidates'[p][x].binding = next.binding
  <2> HIDE DEF next
  <2> QED
    BY <1>5, <1>6 DEF CandidateRecord
<1>8. p = p0 /\ x = x0 /\ next = NotifiedCandidate(candidates[p][x], event, b)
  <2>1. next # candidates[p][x]
    BY <1>1, <1>7 DEF SameVerdicts
  <2> QED
    BY <2>1 DEF Named
<1>9. Accepted(candidates[p][x], event, b)
  BY <1>3, <1>8 DEF ApplyUpstream
<1>10. event \in AllEvents /\ event # "REDECLARE_CANDIDATE"
  BY EventsAssumption DEF Fenced
<1>11. event \in Invalidating
  <2>1. ~SameVerdicts(candidates[p][x].binding,
                      NotifiedCandidate(candidates[p][x], event, b).binding)
    BY <1>1, <1>7, <1>8
  <2> QED
    BY <1>1, <1>4, <1>9, <1>10, <2>1, VerdictInvalidates
<1> QED
  BY <1>3, <1>8, <1>11, InvalidationMoves

(***************************************************************************)
(* A verdict withdrawn for one policy moves the path watermark of every    *)
(* policy that binds the path and of no other, in every engine whose       *)
(* upstream declares no candidate twice and whose index holds every path   *)
(* (apply_invalidation visits the policies the reverse index names).       *)
(***************************************************************************)
THEOREM InvalidationTargeted ==
  ASSUME Fenced PROVE Spec => InvalidationIsTargeted
<1>1. FenceInv => TypeOK /\ IndexMatchesScan
  BY DEF FenceInv, CoreInv
<1> QED
  BY <1>1, TargetedStep, FenceInvariant, PTL DEF Spec, InvalidationIsTargeted

-----------------------------------------------------------------------------
(* The two phases are one decision *)

\* The grounds of the decision t, but for the timers, which the commit tests anew.
Grounds(t, clock) ==
  LET p == t.policy
      from == preference[p].path
  IN IF ~preference[p].established THEN EntryPermitted(p, t.target)
     ELSE IF t.emergency THEN EmergencyHolds(p)
     ELSE /\ from \in EligibleAt(p, clock)
          /\ DeparturePermitted(p, from)
          /\ EntryPermitted(p, t.target)
          /\ ImprovementMet(p, from, t.target)

\* Nothing that the ticket depends on has changed.
Undisturbed(t) ==
  /\ t.epoch = epoch /\ t.policyGeneration = generation[t.policy]
  /\ EvidenceCurrent(t) /\ ~DependencyDrift(t)

\* At some tick since the ticket was taken the present led to its decision.
DecidedAt(t, clock) ==
  /\ LeadsAt(t.policy, t.target, clock)
  /\ t.adaptation = preference[t.policy].adaptation
       /\ "CLEAR_HARD_FAILURE_SIGNAL" \notin Events
     => Grounds(t, clock)

Stands(t) ==
  t.epoch = epoch /\ t.policyGeneration = generation[t.policy] =>
    /\ t.adaptation <= preference[t.policy].adaptation
    /\ Undisturbed(t) /\ t.eligible => \E clock \in 0..now : DecidedAt(t, clock)

EvidenceIsPast == \A x \in Paths : evidence[x].known => evidence[x].at <= now

DecisionInv == FenceInv /\ EvidenceIsPast /\ \A t \in tickets : Stands(t)

\* The candidate x of p keeps whatever a ranking or an emergency looks at.
Keeps(p, x) ==
  /\ candidates'[p][x].declared <=> candidates[p][x].declared
  /\ candidates[p][x].declared =>
       Agree(candidates[p][x].binding, candidates'[p][x].binding)

LEMMA AgreeItself ==
  ASSUME NEW b
  PROVE  Agree(b, b)
BY DEF Agree

\* A ranking depends on the candidates, the evidence and the policy alone.
LEMMA LeadsAlike ==
  ASSUME NEW p \in Policies, semantics'[p] = semantics[p], evidence' = evidence,
         \A x \in Paths : Keeps(p, x), NEW clock
  PROVE  /\ EligibleAt(p, clock)' = EligibleAt(p, clock)
         /\ \A x : LeadsAt(p, x, clock) => LeadsAt(p, x, clock)'
<1>1. \A x \in Paths : Usable(p, x)' <=> Usable(p, x)
  BY DEF Keeps, Agree, Usable
<1>2. EligibleAt(p, clock)' = EligibleAt(p, clock)
  BY <1>1 DEF EligibleAt
<1>3. \A x, y : RanksAhead(p, x, y)' <=> RanksAhead(p, x, y)
  BY DEF RanksAhead
<1> QED
  BY <1>2, <1>3 DEF LeadsAt

LEMMA GroundsAlike ==
  ASSUME CoreInv, NEW t \in tickets, semantics'[t.policy] = semantics[t.policy],
         evidence' = evidence, \A x \in Paths : Keeps(t.policy, x),
         preference'[t.policy] = preference[t.policy],
         "CLEAR_HARD_FAILURE_SIGNAL" \notin Events,
         NEW clock, Grounds(t, clock)
  PROVE  Grounds(t, clock)'
<1> DEFINE p == t.policy
           from == preference[p].path
<1>1. p \in Policies
  BY TicketType DEF CoreInv
<1>2. preference[p].established => from \in Paths
  BY <1>1 DEF CoreInv, TypeOK, RoutingPreference, EstablishedHasPath
<1>3. EligibleAt(p, clock)' = EligibleAt(p, clock)
  BY <1>1, LeadsAlike
<1>4. EmergencyHolds(p) => EmergencyHolds(p)'
  <2>1. preference[p].established => Keeps(p, from)
    BY <1>2
  <2> QED
    BY <2>1 DEF EmergencyHolds, Keeps, Agree
<1>5. \A x : /\ EntryPermitted(p, x)' <=> EntryPermitted(p, x)
             /\ DeparturePermitted(p, x)' <=> DeparturePermitted(p, x)
             /\ ImprovementMet(p, from, x) <=> ImprovementMet(p, from, x)'
  BY DEF EntryPermitted, DeparturePermitted, ImprovementMet, Reverse, Improvement
<1> QED
  BY <1>3, <1>4, <1>5 DEF Grounds

\* A step that leaves an undisturbed ticket undisturbed keeps its decision standing.
LEMMA StandsFrame ==
  ASSUME CoreInv, CoreInv', NEW t \in tickets, Stands(t), epoch' = epoch,
         generation'[t.policy] = generation[t.policy],
         semantics'[t.policy] = semantics[t.policy],
         EvidenceCurrent(t)' => EvidenceCurrent(t) /\ evidence' = evidence,
         Undisturbed(t)' => ~DependencyDrift(t) /\ \A x \in Paths : Keeps(t.policy, x),
         \/ preference'[t.policy] = preference[t.policy]
         \/ preference'[t.policy].adaptation > preference[t.policy].adaptation,
         now <= now'
  PROVE  Stands(t)'
<1> SUFFICES ASSUME t.epoch = epoch, t.policyGeneration = generation'[t.policy]
             PROVE  /\ t.adaptation <= preference'[t.policy].adaptation
                    /\ Undisturbed(t)' /\ t.eligible =>
                         \E clock \in 0..now' : DecidedAt(t, clock)'
  BY DEF Stands
<1>1. /\ t.policy \in Policies /\ t.adaptation \in Nat /\ now \in Nat /\ now' \in Nat
      /\ preference[t.policy].adaptation \in Nat /\ preference'[t.policy].adaptation \in Nat
  BY DEF CoreInv, TypeOK, Ticket, RoutingPreference
<1>2. t.adaptation <= preference[t.policy].adaptation
  BY DEF Stands
<1>3. t.adaptation <= preference'[t.policy].adaptation
  BY <1>1, <1>2
<1>4. ASSUME Undisturbed(t)', t.eligible
      PROVE  \E clock \in 0..now' : DecidedAt(t, clock)'
  <2>1. evidence' = evidence /\ Undisturbed(t) /\ \A x \in Paths : Keeps(t.policy, x)
    BY <1>4 DEF Undisturbed
  <2>2. PICK clock \in 0..now : DecidedAt(t, clock)
    BY <1>4, <2>1 DEF Stands
  <2>3. LeadsAt(t.policy, t.target, clock)'
    BY <1>1, <2>1, <2>2, LeadsAlike DEF DecidedAt
  <2>4. ASSUME t.adaptation = preference'[t.policy].adaptation,
               "CLEAR_HARD_FAILURE_SIGNAL" \notin Events
        PROVE  Grounds(t, clock)'
    <3>1. preference'[t.policy] = preference[t.policy]
      BY <1>1, <1>2, <2>4
    <3>2. Grounds(t, clock)
      BY <2>2, <2>4, <3>1 DEF DecidedAt
    <3> QED
      BY <2>1, <2>4, <3>1, <3>2, GroundsAlike
  <2>5. clock \in 0..now'
    BY <1>1
  <2> QED
    BY <2>3, <2>4, <2>5 DEF DecidedAt
<1> QED
  BY <1>3, <1>4

\* The common case: neither the candidates nor the evidence move.
LEMMA StandsStill ==
  ASSUME DecisionInv, CoreInv',
         UNCHANGED <<epoch, evidenceVars, generation, semantics, candidates>>,
         \A p \in Policies : \/ preference'[p] = preference[p]
                             \/ preference'[p].adaptation > preference[p].adaptation,
         now <= now'
  PROVE  \A t \in tickets : Stands(t)'
<1> SUFFICES ASSUME NEW t \in tickets PROVE Stands(t)'
  OBVIOUS
<1>1. CoreInv /\ Stands(t) /\ t.policy \in Policies
  BY TicketType DEF DecisionInv, FenceInv, CoreInv
<1>2. EvidenceCurrent(t)' => EvidenceCurrent(t) /\ evidence' = evidence
  BY DEF EvidenceCurrent, evidenceVars
<1>3. Undisturbed(t)' => ~DependencyDrift(t)
  BY DEF Undisturbed, DependencyDrift
<1>4. \A x \in Paths : Keeps(t.policy, x)
  BY AgreeItself DEF Keeps
<1> QED
  BY <1>1, <1>2, <1>3, <1>4, StandsFrame

\* A new ticket stands on the tick it is taken at.
LEMMA BeginStands ==
  ASSUME DecisionInv, CoreInv', NEW p \in Policies, BeginEvaluation(p)
  PROVE  \A t \in tickets' : Stands(t)'
<1>0. PICK e : e = EvaluationTicket(p)
  OBVIOUS
<1>1. /\ UNCHANGED <<epoch, evidenceVars, generation, semantics, candidates, preference, now>>
      /\ tickets' = tickets \union {e}
  BY <1>0 DEF BeginEvaluation, policyVars, bindingVars, recordVars
<1>2. now \in Nat /\ preference[p].adaptation \in Nat
  BY DEF DecisionInv, FenceInv, CoreInv, TypeOK, RoutingPreference
<1>3. \A t \in tickets : Stands(t)'
  BY <1>1, <1>2, StandsStill
<1>4. /\ e.policy = p /\ e.adaptation = preference[p].adaptation
      /\ e.eligible => /\ e.target = Best(p) /\ Committable(p, e.target)
                       /\ e.emergency <=> EmergencyHolds(p)
  <2>1. /\ e.policy = p /\ e.adaptation = preference[p].adaptation
        /\ e.eligible = Committable(p, Best(p))
        /\ e.emergency = (Best(p) # NoPath /\ EmergencyHolds(p))
        /\ Committable(p, Best(p)) => e.target = Best(p)
    BY <1>0 DEF EvaluationTicket
  <2>2. Committable(p, Best(p)) => Best(p) # NoPath
    BY DEF Committable
  <2> QED
    BY <2>1, <2>2
<1>5. ASSUME e.eligible PROVE LeadsAt(p, e.target, now)
  <2>1. EligibleAt(p, now) = EligiblePaths(p)
    BY DEF EligibleAt, EligiblePaths, Fresh
  <2>2. e.target # NoPath
    BY <1>4, <1>5 DEF Committable
  <2>3. e.target \in {a \in EligiblePaths(p) :
                        \A b \in EligiblePaths(p) \ {a} : RanksAhead(p, a, b)}
    BY <1>4, <1>5, <2>2 DEF Best
  <2> QED
    BY <2>1, <2>3 DEF LeadsAt, DecisionInv, EvidenceIsPast
<1>6. ASSUME e.eligible PROVE Grounds(e, now)
  <2>1. EligibleAt(p, now) = EligiblePaths(p)
    BY DEF EligibleAt, EligiblePaths, Fresh
  <2> QED
    BY <1>4, <1>6, <2>1 DEF Committable, Triggered, Grounds
<1>7. Stands(e)
  BY <1>2, <1>4, <1>5, <1>6 DEF Stands, DecidedAt
<1>8. Stands(e)'
  <2>1. \A clock : /\ LeadsAt(e.policy, e.target, clock)' <=> LeadsAt(e.policy, e.target, clock)
                   /\ Grounds(e, clock)' <=> Grounds(e, clock)
    BY <1>1 DEF LeadsAt, EligibleAt, Usable, RanksAhead, Grounds, EntryPermitted,
                EmergencyHolds, DeparturePermitted, ImprovementMet, Reverse, Improvement,
                evidenceVars
  <2>2. Undisturbed(e)' <=> Undisturbed(e)
    BY <1>1 DEF Undisturbed, EvidenceCurrent, DependencyDrift, evidenceVars
  <2> QED
    BY <1>1, <1>7, <2>1, <2>2 DEF Stands, DecidedAt
<1> QED
  BY <1>1, <1>3, <1>8

LEMMA PolicyStands ==
  ASSUME DecisionInv, CoreInv', NEW p \in Policies, NEW s \in Semantics,
         CreatePolicy(p, s) \/ UpdatePolicy(p, s)
  PROVE  \A t \in tickets' : Stands(t)'
<1>0. /\ generation \in [Policies -> Nat] /\ semantics \in [Policies -> Semantics]
      /\ candidates \in [Policies -> [Paths -> CandidateRecord]]
      /\ preference \in [Policies -> RoutingPreference] /\ now \in Nat
  BY DEF DecisionInv, FenceInv, CoreInv, TypeOK
<1>1. tickets' = tickets /\ now' = now /\ epoch' = epoch /\ UNCHANGED evidenceVars
  BY DEF CreatePolicy, UpdatePolicy
<1> SUFFICES ASSUME NEW t \in tickets, t.epoch = epoch PROVE Stands(t)'
  BY <1>1 DEF Stands
<1>2. CoreInv /\ Stands(t) /\ Remembers(t) /\ t.policy \in Policies /\ t.policyGeneration \in Nat
  BY TicketType DEF DecisionInv, FenceInv, CoreInv, Tracked
<1>3. CASE t.policy # p
  <2>1. /\ generation'[t.policy] = generation[t.policy]
        /\ semantics'[t.policy] = semantics[t.policy]
        /\ candidates'[t.policy] = candidates[t.policy]
        /\ preference'[t.policy] = preference[t.policy]
    <3>1. CASE CreatePolicy(p, s)
      BY <1>0, <1>2, <1>3, <3>1 DEF CreatePolicy, bindingVars, recordVars
    <3>2. CASE UpdatePolicy(p, s)
      BY <1>0, <1>2, <1>3, <3>2 DEF UpdatePolicy
    <3> QED
      BY <3>1, <3>2
  <2>2. EvidenceCurrent(t)' => EvidenceCurrent(t) /\ evidence' = evidence
    BY <1>1 DEF EvidenceCurrent, evidenceVars
  <2>3. Undisturbed(t)' => ~DependencyDrift(t)
    BY <2>1 DEF Undisturbed, DependencyDrift
  <2>4. \A x \in Paths : Keeps(t.policy, x)
    BY <2>1, AgreeItself DEF Keeps
  <2> QED
    BY <1>0, <1>1, <1>2, <2>1, <2>2, <2>3, <2>4, StandsFrame
<1>4. CASE t.policy = p
  <2>1. UpdatePolicy(p, s)
    BY <1>2, <1>4 DEF Remembers, CreatePolicy
  <2>2. generation'[p] = generation[p] + 1 /\ generation[p] \in Nat
    BY <1>0, <2>1 DEF UpdatePolicy
  <2>3. t.policyGeneration <= generation[p]
    BY <1>2, <1>4 DEF Remembers
  <2>4. t.policyGeneration # generation'[t.policy]
    BY <1>2, <1>4, <2>2, <2>3
  <2> QED
    BY <2>4 DEF Stands
<1> QED
  BY <1>3, <1>4

\* A candidate that shows no drift after a notification showed none before it.
LEMMA UpstreamKeeps ==
  ASSUME FenceInv, Fenced, NEW p \in Policies, NEW x \in Paths, NEW event \in Events,
         NEW b \in Bindings, ApplyUpstream(p, x, event, b),
         NEW t \in tickets, Undisturbed(t)'
  PROVE  ~DependencyDrift(t) /\ \A y \in Paths : Keeps(t.policy, y)
<1>1. TypeOK /\ IndexMatchesScan /\ TypeOK' /\ Remembers(t) /\ t.policy \in Policies
  <2>1. t.epoch = epoch
    BY DEF Undisturbed, ApplyUpstream
  <2> QED
    BY <2>1, ApplyUpstreamType, TicketType DEF FenceInv, CoreInv, Tracked
<1>2. t.policyGeneration = generation[t.policy] /\ ~DependencyDrift(t)'
  BY DEF Undisturbed, ApplyUpstream, policyVars
<1>3. ASSUME NEW y \in Paths
      PROVE  LET c == candidates[t.policy][y]
                 seen == t.candidates[y]
             IN  /\ Keeps(t.policy, y)
                 /\ c.declared = seen.declared
                 /\ c.declared => /\ c.watermark = seen.watermark
                                  /\ c.binding.generation = seen.binding.generation
                                  /\ c.binding.legal = seen.binding.legal
  <2> DEFINE c == candidates[t.policy][y]
             d == candidates'[t.policy][y]
             seen == t.candidates[y]
  <2>1. c \in CandidateRecord /\ d \in CandidateRecord /\ seen \in CandidateRecord
    BY <1>1, TicketType DEF TypeOK
  <2>2. Follows(seen, c) /\ Follows(c, d)
    BY <1>1, <1>2, UpstreamFollows DEF Remembers
  <2>3. /\ d.declared = seen.declared
        /\ d.declared => d.watermark = seen.watermark
    BY <1>2 DEF DependencyDrift
  <2>4. c.declared => d.declared
    BY <1>1, DeclaredAfter
  <2>5. c.watermark \in Nat /\ d.watermark \in Nat /\ seen.watermark \in Nat
        /\ c.declared \in BOOLEAN /\ seen.declared \in BOOLEAN
    BY <2>1 DEF CandidateRecord
  <2> HIDE DEF c, d, seen
  <2>6. CASE seen.declared
    <3>1. c.declared /\ c.watermark = seen.watermark /\ c.watermark = d.watermark
      BY <2>2, <2>3, <2>5, <2>6 DEF Follows
    <3>2. Agree(seen.binding, c.binding) /\ Agree(c.binding, d.binding)
      BY <2>2, <2>6, <3>1 DEF Follows
    <3> QED
      BY <2>3, <2>6, <3>1, <3>2 DEF Keeps, Agree, c, d, seen
  <2>7. CASE ~seen.declared
    BY <2>3, <2>4, <2>5, <2>7 DEF Keeps, c, d, seen
  <2> QED
    BY <2>6, <2>7 DEF c, seen
<1> QED
  BY <1>3 DEF DependencyDrift

LEMMA UpstreamStands ==
  ASSUME DecisionInv, Fenced, CoreInv', NEW p \in Policies, NEW x \in Paths,
         NEW event \in Events, NEW b \in Bindings, ApplyUpstream(p, x, event, b)
  PROVE  \A t \in tickets' : Stands(t)'
<1>1. UNCHANGED <<now, epoch, evidenceVars, generation, semantics, preference, tickets>>
  BY DEF ApplyUpstream, policyVars, recordVars
<1> SUFFICES ASSUME NEW t \in tickets PROVE Stands(t)'
  BY <1>1
<1>2. CoreInv /\ Stands(t) /\ now \in Nat
  BY DEF DecisionInv, FenceInv, CoreInv, TypeOK
<1>3. EvidenceCurrent(t)' => EvidenceCurrent(t) /\ evidence' = evidence
  BY <1>1 DEF EvidenceCurrent, evidenceVars
<1>4. Undisturbed(t)' => ~DependencyDrift(t) /\ \A y \in Paths : Keeps(t.policy, y)
  BY UpstreamKeeps DEF DecisionInv
<1> QED
  BY <1>1, <1>2, <1>3, <1>4, StandsFrame

\* A publication disturbs every ticket.
LEMMA PublishStands ==
  ASSUME DecisionInv, CoreInv', NEW x \in Paths, NEW value \in Values,
         NEW quality \in Qualities, NEW newIncarnation \in BOOLEAN,
         PublishEvidence(x, value, quality, newIncarnation)
  PROVE  \A t \in tickets' : Stands(t)'
<1>1. /\ UNCHANGED <<now, epoch, generation, semantics, preference, tickets>>
      /\ evidenceGeneration' = evidenceGeneration + 1 /\ evidenceGeneration \in Nat /\ now \in Nat
  BY DEF PublishEvidence, policyVars, recordVars, DecisionInv, FenceInv, CoreInv, TypeOK
<1> SUFFICES ASSUME NEW t \in tickets, t.epoch = epoch PROVE Stands(t)'
  BY <1>1 DEF Stands
<1>2. CoreInv /\ Stands(t) /\ Remembers(t) /\ t.evidenceGeneration \in Nat
  BY TicketType DEF DecisionInv, FenceInv, CoreInv, Tracked
<1>3. ~EvidenceCurrent(t)'
  BY <1>1, <1>2 DEF Remembers, EvidenceCurrent
<1> QED
  BY <1>1, <1>2, <1>3, StandsFrame DEF Undisturbed

\* A commit or a rollback moves the preference of one policy a generation on.
LEMMA MoveStands ==
  ASSUME DecisionInv, CoreInv', NEW p \in Policies, NEW x, NEW cause, NEW weighted,
         preference' = [preference EXCEPT ![p] = Installed(p, x, cause, weighted)],
         UNCHANGED <<now, epoch, evidenceVars, generation, semantics, candidates, tickets>>
  PROVE  \A t \in tickets' : Stands(t)'
<1>1. preference \in [Policies -> RoutingPreference] /\ now \in Nat
  BY DEF DecisionInv, FenceInv, CoreInv, TypeOK
<1>2. ASSUME NEW q \in Policies
      PROVE  \/ preference'[q] = preference[q]
             \/ preference'[q].adaptation > preference[q].adaptation
  <2>1. CASE q # p
    BY <1>1, <2>1
  <2>2. CASE q = p
    <3>1. preference'[q].adaptation = preference[q].adaptation + 1
      BY <1>1, <2>2 DEF Installed
    <3>2. preference[q].adaptation \in Nat
      BY <1>1 DEF RoutingPreference
    <3> QED
      BY <3>1, <3>2
  <2> QED
    BY <2>1, <2>2
<1> QED
  BY <1>1, <1>2, StandsStill

\* Samples carry the tick at which they are published, and the clock goes forward.
LEMMA EvidencePastStep ==
  ASSUME TypeOK, EvidenceIsPast, [Next]_vars
  PROVE  EvidenceIsPast'
<1>0. now \in Nat /\ evidence \in [Paths -> EvidenceRecord]
  BY DEF TypeOK
<1>1. ASSUME evidence' = evidence, now <= now', now' \in Nat
      PROVE  EvidenceIsPast'
  <2> SUFFICES ASSUME NEW x \in Paths, evidence[x].known PROVE evidence[x].at <= now'
    BY <1>1 DEF EvidenceIsPast
  <2>1. evidence[x].at <= now /\ evidence[x].at \in Nat
    BY <1>0 DEF EvidenceIsPast, EvidenceRecord
  <2> QED
    BY <1>0, <1>1, <2>1
<1>2. ASSUME NEW x \in Paths, NEW value \in Values, NEW quality \in Qualities,
             NEW newIncarnation \in BOOLEAN,
             PublishEvidence(x, value, quality, newIncarnation)
      PROVE  EvidenceIsPast'
  <2>1. \A y \in Paths : \/ evidence'[y] = evidence[y]
                         \/ evidence'[y].at = now
    BY <1>0, <1>2 DEF PublishEvidence
  <2>2. now' = now
    BY <1>2 DEF PublishEvidence
  <2> QED
    BY <1>0, <2>1, <2>2 DEF EvidenceIsPast
<1>3. CASE ~\E x \in Paths, value \in Values, quality \in Qualities,
              newIncarnation \in BOOLEAN :
              PublishEvidence(x, value, quality, newIncarnation)
  <2>1. evidence' = evidence
    BY <1>3, ZenonT(40) DEF Next, vars, CreatePolicy, UpdatePolicy, TransitionPolicy, RevokePolicy,
                ApplyUpstream, BeginEvaluation, CommitEvaluation, CommitSuppressed, Rollback,
                AdvanceEpoch, Tick, DropTicket, evidenceVars
  <2>2. now' = now \/ now' = now + 1
    BY <1>3, ZenonT(40) DEF Next, vars, CreatePolicy, UpdatePolicy, TransitionPolicy, RevokePolicy,
                ApplyUpstream, BeginEvaluation, CommitEvaluation, CommitSuppressed, Rollback,
                AdvanceEpoch, Tick, DropTicket
  <2> QED
    BY <1>0, <1>1, <2>1, <2>2
<1> QED
  BY <1>2, <1>3

LEMMA DecisionStep == Fenced /\ DecisionInv /\ [Next]_vars => DecisionInv'
<1> SUFFICES ASSUME Fenced, DecisionInv, [Next]_vars PROVE DecisionInv'
  OBVIOUS
<1>0. FenceInv' /\ CoreInv' /\ EvidenceIsPast' /\ now \in Nat
  BY FenceStep, EvidencePastStep DEF DecisionInv, FenceInv, CoreInv, TypeOK
<1> DEFINE Kept == \A t \in tickets' : Stands(t)'
<1> SUFFICES Kept
  BY <1>0 DEF DecisionInv
<1>1. ASSUME tickets' \subseteq tickets, now <= now',
             UNCHANGED <<epoch, evidenceVars, generation, semantics, candidates, preference>>
      PROVE  Kept
  BY <1>0, <1>1, StandsStill
<1>2. ASSUME NEW p \in Policies, NEW s \in Semantics, CreatePolicy(p, s) \/ UpdatePolicy(p, s)
      PROVE  Kept
  BY <1>0, <1>2, PolicyStands
<1>3. ASSUME NEW p \in Policies,
             (\E event \in Operations : TransitionPolicy(p, event)) \/ RevokePolicy(p)
      PROVE  Kept
  BY <1>0, <1>1, <1>3 DEF TransitionPolicy, RevokePolicy, bindingVars, recordVars
<1>4. ASSUME NEW p \in Policies, BeginEvaluation(p)
      PROVE  Kept
  BY <1>0, <1>4, BeginStands
<1>5. ASSUME NEW p \in Policies, Rollback(p)
      PROVE  Kept
  BY <1>0, <1>5, MoveStands DEF Rollback, policyVars, bindingVars
<1>6. ASSUME NEW p \in Policies, NEW x \in Paths, NEW event \in Events,
             NEW b \in Bindings, ApplyUpstream(p, x, event, b)
      PROVE  Kept
  BY <1>0, <1>6, UpstreamStands
<1>7. ASSUME NEW x \in Paths, NEW value \in Values, NEW quality \in Qualities,
             NEW newIncarnation \in BOOLEAN,
             PublishEvidence(x, value, quality, newIncarnation)
      PROVE  Kept
  BY <1>0, <1>7, PublishStands
<1>8. ASSUME NEW t \in tickets, CommitEvaluation(t)
      PROVE  Kept
  <2>1. t.policy \in Policies
    BY TicketType DEF DecisionInv, FenceInv, CoreInv
  <2> QED
    BY <1>0, <1>8, <2>1, MoveStands DEF CommitEvaluation, policyVars, bindingVars
<1>9. ASSUME NEW t \in tickets, CommitSuppressed(t) \/ DropTicket(t)
      PROVE  Kept
  BY <1>0, <1>1, <1>9 DEF CommitSuppressed, DropTicket, policyVars, bindingVars, recordVars
<1>10. CASE AdvanceEpoch
  <2>1. tickets' = tickets /\ epoch' = epoch + 1
    BY <1>10 DEF AdvanceEpoch
  <2>2. epoch \in Nat /\ \A t \in tickets : t.epoch \in Nat /\ t.epoch <= epoch
    BY DEF DecisionInv, FenceInv, CoreInv, TypeOK, Ticket, Tracked
  <2>3. \A t \in tickets : t.epoch # epoch'
    BY <2>1, <2>2
  <2> QED
    BY <2>1, <2>3 DEF Stands
<1>11. CASE Tick \/ UNCHANGED vars
  BY <1>0, <1>1, <1>11 DEF Tick, vars, policyVars, bindingVars, recordVars
<1> QED
  BY <1>2, <1>3, <1>4, <1>5, <1>6, <1>7, <1>8, <1>9, <1>10, <1>11 DEF Next

LEMMA DecisionInvariant ==
  ASSUME Fenced PROVE Spec => []DecisionInv
<1>1. Init => DecisionInv
  BY FenceInit DEF Init, DecisionInv, EvidenceIsPast, NoEvidence
<1>2. DecisionInv /\ [Next]_vars => DecisionInv'
  BY DecisionStep
<1> QED
  BY <1>1, <1>2, PTL DEF Spec

\* A commit carries out a decision that stands.
LEMMA CommitDecided ==
  ASSUME DecisionInv, NEW t \in tickets, CommitEvaluation(t)
  PROVE  \E clock \in 0..now : DecidedAt(t, clock)
BY DEF DecisionInv, Stands, Undisturbed, CommitEvaluation, TicketCurrent

(***************************************************************************)
(* However old its ticket, a commit installs the path that leads the       *)
(* ranking of the bindings and the evidence the engine holds at that       *)
(* moment, by the age the evidence had at some tick not after it           *)
(* (evaluate_inputs ranks, commit_evaluation compares), in every engine    *)
(* whose upstream declares no candidate twice and whose index holds every  *)
(* path.                                                                   *)
(***************************************************************************)
THEOREM CommitsTheLeader ==
  ASSUME Fenced
  PROVE  Spec => [][\A t \in tickets : CommitEvaluation(t) =>
                      \E clock \in 0..now : LeadsAt(t.policy, t.target, clock)]_vars
<1>1. DecisionInv => [\A t \in tickets : CommitEvaluation(t) =>
                        \E clock \in 0..now : LeadsAt(t.policy, t.target, clock)]_vars
  BY CommitDecided DEF DecidedAt
<1> QED
  BY <1>1, DecisionInvariant, PTL DEF Spec

\* A commit installs the leader, for the reason the policy gives.
LEMMA CommitReasoned ==
  ASSUME Fenced, "CLEAR_HARD_FAILURE_SIGNAL" \notin Events
  PROVE  DecisionInv =>
           [\A t \in tickets : CommitEvaluation(t) =>
              \E clock \in 0..now :
                /\ LeadsAt(t.policy, t.target, clock)
                /\ t.adaptation = preference[t.policy].adaptation
                   => ReasonAt(t.policy, t.target, clock)]_vars
<1> SUFFICES ASSUME DecisionInv, NEW t \in tickets, CommitEvaluation(t)
             PROVE  \E clock \in 0..now :
                      /\ LeadsAt(t.policy, t.target, clock)
                      /\ t.adaptation = preference[t.policy].adaptation
                         => ReasonAt(t.policy, t.target, clock)
  OBVIOUS
<1>1. PICK clock \in 0..now : DecidedAt(t, clock)
  BY CommitDecided
<1>2. Grounds(t, clock) => ReasonAt(t.policy, t.target, clock)
  <2>1. t.emergency \/ ~Suppressed(t.policy, t.target)
    BY DEF CommitEvaluation
  <2> QED
    BY <2>1 DEF Grounds, ReasonAt
<1> QED
  BY <1>1, <1>2 DEF DecidedAt

(***************************************************************************)
(* The two phases are one decision: as long as no other move came between  *)
(* them, the policy gives the reason for the move at the commit as it did  *)
(* when the ticket was taken, where a hard failure is not cleared while a  *)
(* ticket is out (the notification moves no watermark).                    *)
(***************************************************************************)
THEOREM DecisionCommitted ==
  ASSUME Fenced, "CLEAR_HARD_FAILURE_SIGNAL" \notin Events
  PROVE  Spec => CommitsTheDecision
BY CommitReasoned, DecisionInvariant, PTL DEF Spec, CommitsTheDecision
=============================================================================
