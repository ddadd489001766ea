--------------------------- MODULE RecoveryProofs ---------------------------
(***************************************************************************)
(* Theorems about saving and loading the engine, for any policies, limits, *)
(* clocks and number of restarts.                                          *)
(***************************************************************************)
EXTENDS FencingProofs, Recovery

-----------------------------------------------------------------------------
(* Sequences *)

LEMMA FunctionIsSeq ==
  ASSUME NEW S, NEW n \in Nat, NEW f \in [1 .. n -> S]
  PROVE  f \in Seq(S) /\ Len(f) = n /\ DOMAIN f = 1 .. n
<1>1. f \in Seq(S)
  BY SeqDef
<1>2. DOMAIN f = 1 .. n /\ DOMAIN f = 1 .. Len(f) /\ Len(f) \in Nat
  BY <1>1, LenProperties
<1> QED
  BY <1>1, <1>2

\* Two lists of one length that are extended to one length lose the same entries.
LEMMA ExtendedAlike ==
  ASSUME NEW a \in Seq(Nat), NEW b \in Seq(Nat), Len(a) = Len(b),
         NEW s \in Nat, NEW t \in Nat, NEW a1 \in Seq(Nat), NEW b1 \in Seq(Nat),
         NEW lost \in Nat, Shifted(a1, a, s, lost),
         b1 = Capped(Append(b, t), Len(a1))
  PROVE  Len(b1) = Len(a1) /\ Shifted(b1, b, t, lost)
<1>1. /\ Len(a) \in Nat /\ Len(a1) \in Nat /\ Len(b) \in Nat /\ Len(b1) \in Nat
  BY LenProperties
<1>2. PICK gone \in Nat : Shifted(b1, b, t, gone) /\ (gone > 0 => Len(b1) >= Len(a1))
  BY <1>1, CappedAppend
<1>3. Len(a1) = Len(a) + 1 - lost /\ Len(b1) = Len(b) + 1 - gone
  BY <1>2 DEF Shifted
<1>4. Len(b1) <= Len(a1)
  <2>1. Append(b, t) \in Seq(Nat) /\ Len(Append(b, t)) = Len(b) + 1
    BY AppendProperties
  <2>2. CASE Len(Append(b, t)) <= Len(a1)
    BY <2>2 DEF Capped
  <2>3. CASE ~(Len(Append(b, t)) <= Len(a1))
    <3>1. b1 = SubSeq(Append(b, t), Len(Append(b, t)) - Len(a1) + 1, Len(Append(b, t)))
      BY <2>3 DEF Capped
    <3>2. Len(b1) = Len(a1)
      BY <1>1, <2>1, <2>3, <3>1, SubSeqProperties
    <3> QED
      BY <1>1, <3>2
  <2> QED
    BY <2>2, <2>3
<1>5. gone = lost
  BY <1>1, <1>2, <1>3, <1>4
<1> QED
  BY <1>1, <1>2, <1>3, <1>5

-----------------------------------------------------------------------------
(* Types of what is saved *)

Armed == [holdDown : Int, cooldown : Int, churn : Seq(Nat)]

DurableTimings ==
  [holdDownActive : BOOLEAN, holdDownRemaining : Nat, cooldownActive : BOOLEAN,
   cooldownRemaining : Nat, penalty : Nat, decayRemaining : Nat, churnAges : Seq(Nat)]

StoreTyped ==
  /\ store.epoch \in Nat /\ store.authority \in Nat
  /\ store.evidenceGeneration \in Nat /\ store.evidenceWatermark \in Nat
  /\ store.lifecycle \in [Policies -> PolicyLifecycle \union {Absent}]
  /\ store.generation \in [Policies -> Nat]
  /\ store.semantics \in [Policies -> Semantics]
  /\ store.preference \in [Policies -> RoutingPreference]
  /\ store.stable \in [Policies -> StableState]
  /\ store.history \in [Policies -> Seq(AdaptationRecord)]
  /\ store.timing \in [Policies -> DurableTimings]
  /\ store.revocations \subseteq Policies
  /\ store.armed \in [Policies -> Armed]

\* A duration is never negative.
LEMMA RemainingType ==
  ASSUME now \in Nat, NEW active \in BOOLEAN, NEW deadline \in Nat
  PROVE  Remaining(active, deadline) \in Nat
BY DEF Remaining

LEMMA DurableTimingType ==
  ASSUME now \in Nat, NEW t \in TimingState
  PROVE  /\ DurableTiming(t) \in DurableTimings
         /\ Len(DurableTiming(t).churnAges) = Len(t.churn)
         /\ DOMAIN DurableTiming(t).churnAges = DOMAIN t.churn
<1> DEFINE ages == [i \in DOMAIN t.churn |-> IF now >= t.churn[i] THEN now - t.churn[i] ELSE 0]
<1>1. /\ t.holdDownActive \in BOOLEAN /\ t.holdDownDeadline \in Nat
      /\ t.cooldownActive \in BOOLEAN /\ t.cooldownDeadline \in Nat
      /\ t.penalty \in Nat /\ t.lastDecay \in Nat /\ t.churn \in Seq(Nat)
  BY DEF TimingState
<1>2. DOMAIN t.churn = 1 .. Len(t.churn) /\ Len(t.churn) \in Nat
      /\ \A i \in DOMAIN t.churn : t.churn[i] \in Nat
  BY <1>1, LenProperties
<1>3. ages \in [1 .. Len(t.churn) -> Nat]
  <2>1. ASSUME NEW i \in DOMAIN t.churn
        PROVE  (IF now >= t.churn[i] THEN now - t.churn[i] ELSE 0) \in Nat
    <3>1. t.churn[i] \in Nat
      BY <1>2
    <3> QED
      BY <3>1
  <2> QED
    BY <1>2, <2>1
<1> HIDE DEF ages
<1>4. ages \in Seq(Nat) /\ Len(ages) = Len(t.churn) /\ DOMAIN ages = DOMAIN t.churn
  BY <1>2, <1>3, FunctionIsSeq
<1>5. DurableTiming(t) =
        [holdDownActive |-> t.holdDownActive /\ t.holdDownDeadline > now,
         holdDownRemaining |-> Remaining(t.holdDownActive, t.holdDownDeadline),
         cooldownActive |-> t.cooldownActive /\ t.cooldownDeadline > now,
         cooldownRemaining |-> Remaining(t.cooldownActive, t.cooldownDeadline),
         penalty |-> t.penalty, decayRemaining |-> Remaining(TRUE, t.lastDecay),
         churnAges |-> ages]
  BY DEF DurableTiming, ages
<1>6. /\ Remaining(t.holdDownActive, t.holdDownDeadline) \in Nat
      /\ Remaining(t.cooldownActive, t.cooldownDeadline) \in Nat
      /\ Remaining(TRUE, t.lastDecay) \in Nat
  BY <1>1, RemainingType
<1> DEFINE held == t.holdDownActive /\ t.holdDownDeadline > now
           cooling == t.cooldownActive /\ t.cooldownDeadline > now
           left == Remaining(t.holdDownActive, t.holdDownDeadline)
           cool == Remaining(t.cooldownActive, t.cooldownDeadline)
           decay == Remaining(TRUE, t.lastDecay)
<1>8. /\ DurableTiming(t) =
           [holdDownActive |-> held, holdDownRemaining |-> left,
            cooldownActive |-> cooling, cooldownRemaining |-> cool,
            penalty |-> t.penalty, decayRemaining |-> decay, churnAges |-> ages]
      /\ left \in Nat /\ cool \in Nat /\ decay \in Nat
  BY <1>5, <1>6
<1>9. held \in BOOLEAN /\ cooling \in BOOLEAN
  OBVIOUS
<1> HIDE DEF held, cooling, left, cool, decay
<1>7. DurableTiming(t) \in DurableTimings
  BY <1>1, <1>4, <1>8, <1>9 DEF DurableTimings
<1> QED
  BY <1>4, <1>5, <1>7

LEMMA SaveType ==
  ASSUME TypeOK, armed \in [Policies -> Armed], Save
  PROVE  StoreTyped'
<1> USE DEF TypeOK
<1>1. [p \in Policies |-> DurableTiming(timing[p])] \in [Policies -> DurableTimings]
  BY DurableTimingType
<1>2. /\ store'.epoch = epoch /\ store'.authority = authority
      /\ store'.evidenceGeneration = evidenceGeneration
      /\ store'.evidenceWatermark = evidenceWatermark
      /\ store'.lifecycle = lifecycle /\ store'.generation = generation
      /\ store'.semantics = semantics /\ store'.preference = preference
      /\ store'.stable = stable /\ store'.history = history
      /\ store'.timing = [p \in Policies |-> DurableTiming(timing[p])]
      /\ store'.revocations = revocations /\ store'.armed = armed
  BY DEF Save, DurableState
<1> QED
  BY <1>1, <1>2 DEF StoreTyped

LEMMA RearmedType ==
  ASSUME NEW t \in DurableTimings, NEW clock \in Nat
  PROVE  /\ Rearmed(t, clock) \in TimingState
         /\ Len(Rearmed(t, clock).churn) = Len(t.churnAges)
         /\ DOMAIN Rearmed(t, clock).churn = DOMAIN t.churnAges
<1> DEFINE churn == [i \in DOMAIN t.churnAges |->
                       IF clock >= t.churnAges[i] THEN clock - t.churnAges[i] ELSE 0]
<1>1. /\ t.holdDownActive \in BOOLEAN /\ t.holdDownRemaining \in Nat
      /\ t.cooldownActive \in BOOLEAN /\ t.cooldownRemaining \in Nat
      /\ t.penalty \in Nat /\ t.decayRemaining \in Nat /\ t.churnAges \in Seq(Nat)
  BY DEF DurableTimings
<1>2. DOMAIN t.churnAges = 1 .. Len(t.churnAges) /\ Len(t.churnAges) \in Nat
      /\ \A i \in DOMAIN t.churnAges : t.churnAges[i] \in Nat
  BY <1>1, LenProperties
<1>3. churn \in [1 .. Len(t.churnAges) -> Nat]
  <2>1. ASSUME NEW i \in DOMAIN t.churnAges
        PROVE  (IF clock >= t.churnAges[i] THEN clock - t.churnAges[i] ELSE 0) \in Nat
    <3>1. t.churnAges[i] \in Nat
      BY <1>2
    <3> QED
      BY <3>1
  <2> QED
    BY <1>2, <2>1
<1> HIDE DEF churn
<1>4. churn \in Seq(Nat) /\ Len(churn) = Len(t.churnAges) /\ DOMAIN churn = DOMAIN t.churnAges
  BY <1>2, <1>3, FunctionIsSeq
<1>5. Rearmed(t, clock) =
        [holdDownActive |-> t.holdDownActive,
         holdDownDeadline |-> clock + t.holdDownRemaining,
         cooldownActive |-> t.cooldownActive,
         cooldownDeadline |-> clock + t.cooldownRemaining,
         penalty |-> t.penalty, lastDecay |-> clock + t.decayRemaining,
         churn |-> churn]
  BY DEF Rearmed, churn
<1>6. Rearmed(t, clock) \in TimingState
  BY <1>1, <1>4, <1>5 DEF TimingState
<1> QED
  BY <1>4, <1>5, <1>6

LEMMA RecoveredHistoryType ==
  ASSUME StoreTyped, NEW p \in Policies
  PROVE  RecoveredHistory(store, p) \in Seq(AdaptationRecord)
<1> DEFINE h == store.history[p]
           g == [i \in DOMAIN h |-> [h[i] EXCEPT !.at = 0]]
<1>1. h \in Seq(AdaptationRecord)
  BY DEF StoreTyped
<1>2. DOMAIN h = 1 .. Len(h) /\ Len(h) \in Nat /\ \A i \in DOMAIN h : h[i] \in AdaptationRecord
  BY <1>1, LenProperties
<1>3. g \in [1 .. Len(h) -> AdaptationRecord]
  <2>1. ASSUME NEW i \in DOMAIN h PROVE [h[i] EXCEPT !.at = 0] \in AdaptationRecord
    <3>1. h[i] \in AdaptationRecord
      BY <1>2
    <3> HIDE DEF h
    <3> QED
      BY <3>1 DEF AdaptationRecord
  <2> HIDE DEF h
  <2> QED
    BY <1>2, <2>1
<1> HIDE DEF g
<1>4. g \in Seq(AdaptationRecord)
  BY <1>2, <1>3, FunctionIsSeq
<1>5. Capped(g, HistoryLimit) \in Seq(AdaptationRecord)
  BY <1>4, CappedType, LimitsAssumption
<1> QED
  BY <1>5 DEF RecoveredHistory, g

-----------------------------------------------------------------------------
(* What a step of the engine does to the records of one policy *)

\* The step replaces the established preference of p or changes its timers.
Rearms(p) ==
  \/ preference[p].established /\ preference'[p] # preference[p]
  \/ timing'[p] # timing[p]

\* churn_commits after a step that touches it: nothing, or one commit more.
ChurnMoves(p) ==
  \/ timing'[p].churn = <<>>
  \/ \E lost \in Nat : Shifted(timing'[p].churn, timing[p].churn, now, lost)

\* Only a step that takes no time touches a timer.
LEMMA EngineTimers ==
  ASSUME TypeOK, TypeOK', Next, NEW p \in Policies
  PROVE  /\ now' = now \/ now' = now + 1
         /\ Rearms(p) => now' = now /\ ChurnMoves(p)
<1>0. /\ preference \in [Policies -> RoutingPreference]
      /\ timing \in [Policies -> TimingState] /\ now \in Nat
      /\ timing[p].churn \in Seq(Nat)
  BY DEF TypeOK, TimingState
<1>1. ASSUME NEW t \in tickets, CommitEvaluation(t)
      PROVE  now' = now /\ (Rearms(p) => ChurnMoves(p))
  <2>1. PICK cause :
          /\ preference' = [preference EXCEPT ![t.policy] =
                              Installed(t.policy, t.target, cause, t.weighted)]
          /\ timing' = [timing EXCEPT ![t.policy] = ArmedTiming(t.policy)]
          /\ now' = now
    BY <1>1 DEF CommitEvaluation
  <2>2. CASE t.policy # p
    BY <1>0, <2>1, <2>2 DEF Rearms
  <2>3. CASE t.policy = p /\ ~preference[p].established
    <3>1. timing'[p] = timing[p]
      BY <1>0, <2>1, <2>3 DEF ArmedTiming
    <3> QED
      BY <2>1, <2>3, <3>1 DEF Rearms
  <2>4. CASE t.policy = p /\ preference[p].established
    <3>1. timing'[p].churn = Capped(Append(timing[p].churn, now), ChurnLimit)
      BY <1>0, <2>1, <2>4 DEF ArmedTiming
    <3>2. \E lost \in Nat : Shifted(timing'[p].churn, timing[p].churn, now, lost)
      BY <1>0, <3>1, CappedExtends DEF Extends
    <3> QED
      BY <2>1, <3>2 DEF ChurnMoves
  <2> QED
    BY <2>2, <2>3, <2>4
<1>2. ASSUME NEW q \in Policies, Rollback(q)
      PROVE  now' = now /\ (Rearms(p) => ChurnMoves(p))
  <2>1. /\ preference' = [preference EXCEPT ![q] =
             Installed(q, stable[q].path, "ROLLBACK_REQUESTED", preference[q].weighted)]
        /\ timing' = [timing EXCEPT ![q] = RollbackTiming(q)]
        /\ now' = now
    BY <1>2 DEF Rollback
  <2>2. CASE q # p
    BY <1>0, <2>1, <2>2 DEF Rearms
  <2>3. CASE q = p
    <3>1. timing'[p] = RollbackTiming(p) /\ timing[p] \in TimingState
      BY <1>0, <2>1, <2>3
    <3>2. timing'[p].churn = Append(timing[p].churn, now)
      BY <3>1 DEF RollbackTiming, TimingState
    <3>3. \E lost \in Nat : Shifted(timing'[p].churn, timing[p].churn, now, lost)
      BY <1>0, <3>2, AppendExtends DEF Extends
    <3> QED
      BY <2>1, <3>3 DEF ChurnMoves
  <2> QED
    BY <2>2, <2>3
<1>3. ASSUME NEW q \in Policies, NEW s \in Semantics, UpdatePolicy(q, s)
      PROVE  now' = now /\ (Rearms(p) => ChurnMoves(p))
  <2>1. /\ now' = now
        /\ \/ UNCHANGED <<preference, timing>>
           \/ /\ preference' = [preference EXCEPT ![q] = NoPreference]
              /\ timing' = [timing EXCEPT ![q] = NoTiming]
    BY <1>3 DEF UpdatePolicy
  <2>2. \/ preference'[p] = preference[p] /\ timing'[p] = timing[p]
        \/ timing'[p] = NoTiming
    BY <1>0, <2>1
  <2> QED
    BY <2>1, <2>2 DEF Rearms, ChurnMoves, NoTiming
<1>4. CASE AdvanceEpoch
  <2>1. /\ now' = now
        /\ timing'[p] = [timing[p] EXCEPT !.holdDownActive = FALSE, !.holdDownDeadline = 0,
                                          !.cooldownActive = FALSE, !.cooldownDeadline = 0,
                                          !.churn = <<>>]
    BY <1>4 DEF AdvanceEpoch
  <2>2. timing[p] \in TimingState
    BY <1>0
  <2>3. timing'[p].churn = <<>>
    BY <2>1, <2>2 DEF TimingState
  <2> QED
    BY <2>1, <2>3 DEF ChurnMoves
<1>5. ASSUME now' = now \/ now' = now + 1, UNCHANGED <<preference, timing>>
      PROVE  (now' = now \/ now' = now + 1) /\ ~Rearms(p)
  BY <1>5 DEF Rearms
<1>6. ASSUME NEW q \in Policies,
             \/ \E s \in Semantics : CreatePolicy(q, s)
             \/ \E event \in Operations : TransitionPolicy(q, event)
             \/ RevokePolicy(q) \/ BeginEvaluation(q)
             \/ \E x \in Paths, event \in Events, b \in Bindings : ApplyUpstream(q, x, event, b)
      PROVE  now' = now /\ ~Rearms(p)
  <2>1. now' = now /\ UNCHANGED <<preference, timing>>
    BY <1>6 DEF CreatePolicy, TransitionPolicy, RevokePolicy, BeginEvaluation,
                ApplyUpstream, recordVars
  <2> QED
    BY <2>1 DEF Rearms
<1>7. ASSUME NEW x \in Paths, NEW value \in Values, NEW quality \in Qualities,
             NEW newIncarnation \in BOOLEAN,
             PublishEvidence(x, value, quality, newIncarnation)
      PROVE  now' = now /\ ~Rearms(p)
  BY <1>7 DEF PublishEvidence, recordVars, Rearms
<1>8. ASSUME NEW t \in tickets, CommitSuppressed(t) \/ DropTicket(t)
      PROVE  now' = now /\ ~Rearms(p)
  BY <1>8 DEF CommitSuppressed, DropTicket, recordVars, Rearms
<1>9. CASE Tick
  BY <1>5, <1>9 DEF Tick, recordVars
<1> QED
  BY <1>1, <1>2, <1>3, <1>4, <1>6, <1>7, <1>8, <1>9 DEF Next

-----------------------------------------------------------------------------
(* The timers and what they were armed for *)

\* The timers of p end no sooner than they were armed for, and no entry of its
\* churn_commits is thought older than it is.
Guarded(p) ==
  /\ wall < armed[p].holdDown =>
       /\ timing[p].holdDownActive
       /\ timing[p].holdDownDeadline - now >= armed[p].holdDown - wall
  /\ wall < armed[p].cooldown =>
       /\ timing[p].cooldownActive
       /\ timing[p].cooldownDeadline - now >= armed[p].cooldown - wall
  /\ Len(timing[p].churn) = Len(armed[p].churn)
  /\ \A i \in DOMAIN armed[p].churn :
       /\ armed[p].churn[i] <= wall
       /\ now - timing[p].churn[i] <= wall - armed[p].churn[i]

\* The same of what is written of p.
StoredGuarded(p) ==
  /\ wall < store.armed[p].holdDown =>
       /\ store.timing[p].holdDownActive
       /\ store.timing[p].holdDownRemaining >= store.armed[p].holdDown - wall
  /\ wall < store.armed[p].cooldown =>
       /\ store.timing[p].cooldownActive
       /\ store.timing[p].cooldownRemaining >= store.armed[p].cooldown - wall
  /\ Len(store.timing[p].churnAges) = Len(store.armed[p].churn)
  /\ \A i \in DOMAIN store.armed[p].churn :
       /\ store.armed[p].churn[i] <= wall
       /\ store.timing[p].churnAges[i] <= wall - store.armed[p].churn[i]

LEMMA ArmedType ==
  ASSUME NEW a \in Armed
  PROVE  /\ a.holdDown \in Int /\ a.cooldown \in Int /\ a.churn \in Seq(Nat)
         /\ DOMAIN a.churn = 1 .. Len(a.churn) /\ Len(a.churn) \in Nat
         /\ \A i \in DOMAIN a.churn : a.churn[i] \in Nat
<1>1. a.holdDown \in Int /\ a.cooldown \in Int /\ a.churn \in Seq(Nat)
  BY DEF Armed
<1> QED
  BY <1>1, LenProperties

LEMMA TimerType ==
  ASSUME NEW t \in TimingState
  PROVE  /\ t.holdDownActive \in BOOLEAN /\ t.holdDownDeadline \in Nat
         /\ t.cooldownActive \in BOOLEAN /\ t.cooldownDeadline \in Nat
         /\ t.penalty \in Nat /\ t.lastDecay \in Nat /\ t.churn \in Seq(Nat)
         /\ DOMAIN t.churn = 1 .. Len(t.churn) /\ Len(t.churn) \in Nat
         /\ \A i \in DOMAIN t.churn : t.churn[i] \in Nat
<1>1. /\ t.holdDownActive \in BOOLEAN /\ t.holdDownDeadline \in Nat
      /\ t.cooldownActive \in BOOLEAN /\ t.cooldownDeadline \in Nat
      /\ t.penalty \in Nat /\ t.lastDecay \in Nat /\ t.churn \in Seq(Nat)
  BY DEF TimingState
<1> QED
  BY <1>1, LenProperties

\* A step that leaves the timers of p alone, however long it takes.
LEMMA GuardedLater ==
  ASSUME TypeOK, TypeOK', wall \in Nat, NEW p \in Policies, Guarded(p),
         armed[p] \in Armed, armed'[p] = armed[p], timing'[p] = timing[p],
         now' >= now, wall' = wall + (now' - now)
  PROVE  Guarded(p)'
<1> DEFINE a == armed[p]
           t == timing[p]
<1>1. now \in Nat /\ now' \in Nat /\ t \in TimingState /\ a \in Armed
  BY DEF TypeOK
<1>2. /\ wall < a.holdDown => t.holdDownActive /\ t.holdDownDeadline - now >= a.holdDown - wall
      /\ wall < a.cooldown => t.cooldownActive /\ t.cooldownDeadline - now >= a.cooldown - wall
      /\ Len(t.churn) = Len(a.churn)
      /\ \A i \in DOMAIN a.churn : a.churn[i] <= wall /\ now - t.churn[i] <= wall - a.churn[i]
  BY DEF Guarded
<1> HIDE DEF a, t
<1>3. \A i \in DOMAIN a.churn : a.churn[i] \in Nat /\ t.churn[i] \in Nat
  BY <1>1, <1>2, ArmedType, TimerType
<1>4. /\ a.holdDown \in Int /\ a.cooldown \in Int
      /\ t.holdDownDeadline \in Nat /\ t.cooldownDeadline \in Nat
  BY <1>1, ArmedType, TimerType
<1>5. \A i \in DOMAIN a.churn : a.churn[i] <= wall' /\ now' - t.churn[i] <= wall' - a.churn[i]
  BY <1>1, <1>2, <1>3, SMTT(30)
<1>6. wall' < a.holdDown => wall < a.holdDown /\ t.holdDownDeadline - now' >= a.holdDown - wall'
  BY <1>1, <1>2, <1>4, SMTT(30)
<1>7. wall' < a.cooldown => wall < a.cooldown /\ t.cooldownDeadline - now' >= a.cooldown - wall'
  BY <1>1, <1>2, <1>4, SMTT(30)
<1> QED
  BY <1>2, <1>5, <1>6, <1>7 DEF Guarded, a, t

\* A step that arms the timers of p anew.
LEMMA GuardedAnew ==
  ASSUME TypeOK, TypeOK', wall \in Nat, NEW p \in Policies, Guarded(p),
         armed[p] \in Armed, now' = now, wall' = wall, ChurnMoves(p),
         armed'[p] =
           [holdDown |-> IF timing'[p].holdDownActive
                         THEN wall + timing'[p].holdDownDeadline - now ELSE 0,
            cooldown |-> IF timing'[p].cooldownActive
                         THEN wall + timing'[p].cooldownDeadline - now ELSE 0,
            churn |-> Capped(Append(armed[p].churn, wall), Len(timing'[p].churn))]
  PROVE  Guarded(p)' /\ armed'[p] \in Armed
<1> DEFINE a == armed[p].churn
           c == timing[p].churn
           t == timing'[p]
           a1 == armed'[p].churn
<1>1. /\ now \in Nat /\ timing[p] \in TimingState /\ t \in TimingState
  BY DEF TypeOK
<1>2. /\ a \in Seq(Nat) /\ c \in Seq(Nat) /\ Len(c) = Len(a)
      /\ DOMAIN a = 1 .. Len(a) /\ DOMAIN c = 1 .. Len(c)
      /\ \A i \in DOMAIN a : a[i] <= wall /\ now - c[i] <= wall - a[i] /\ a[i] \in Nat /\ c[i] \in Nat
  BY <1>1, ArmedType, TimerType DEF Guarded
<1>3. /\ t.holdDownActive \in BOOLEAN /\ t.holdDownDeadline \in Nat
      /\ t.cooldownActive \in BOOLEAN /\ t.cooldownDeadline \in Nat
      /\ t.churn \in Seq(Nat) /\ Len(t.churn) \in Nat
  BY <1>1, TimerType
<1>4. /\ armed'[p].holdDown = IF t.holdDownActive THEN wall + t.holdDownDeadline - now ELSE 0
      /\ armed'[p].cooldown = IF t.cooldownActive THEN wall + t.cooldownDeadline - now ELSE 0
      /\ a1 = Capped(Append(a, wall), Len(t.churn))
  OBVIOUS
<1>5. a1 \in Seq(Nat)
  <2> DEFINE longer == Append(a, wall)
             n == Len(t.churn)
  <2>1. longer \in Seq(Nat) /\ n \in Nat /\ a1 = Capped(longer, n)
    BY <1>2, <1>3, <1>4, AppendProperties
  <2> HIDE DEF longer, n, a1
  <2> QED
    BY <2>1, CappedType
<1>6. armed'[p].holdDown \in Int /\ armed'[p].cooldown \in Int
  BY <1>1, <1>3, <1>4, SMTT(30)
<1>7. armed'[p] \in Armed
  BY <1>5, <1>6 DEF Armed
<1>8. /\ wall < armed'[p].holdDown =>
           t.holdDownActive /\ t.holdDownDeadline - now >= armed'[p].holdDown - wall
      /\ wall < armed'[p].cooldown =>
           t.cooldownActive /\ t.cooldownDeadline - now >= armed'[p].cooldown - wall
  BY <1>1, <1>3, <1>4
<1> DEFINE c1 == t.churn
<1>9. ChurnMoves(p) <=> (c1 = <<>> \/ \E lost \in Nat : Shifted(c1, c, now, lost))
  BY DEF ChurnMoves
<1>10. c1 \in Seq(Nat) /\ a1 = Capped(Append(a, wall), Len(c1))
  BY <1>3, <1>4
<1> HIDE DEF a, c, t, a1, c1
<1>11. /\ Len(c1) = Len(a1)
       /\ \A i \in DOMAIN a1 : a1[i] <= wall /\ now - c1[i] <= wall - a1[i]
  <2>1. CASE c1 = <<>>
    <3>1. Append(a, wall) \in Seq(Nat) /\ Len(Append(a, wall)) = Len(a) + 1 /\ Len(a) \in Nat
      BY <1>2, AppendProperties, LenProperties
    <3>2. Len(c1) = 0
      BY <2>1, EmptySeq
    <3>3. a1 = SubSeq(Append(a, wall), Len(Append(a, wall)) + 1, Len(Append(a, wall)))
      BY <1>10, <3>1, <3>2 DEF Capped
    <3>4. Len(a1) = 0 /\ DOMAIN a1 = 1 .. 0
      BY <3>1, <3>3, SubSeqProperties
    <3> QED
      BY <3>2, <3>4
  <2>2. ASSUME NEW lost \in Nat, Shifted(c1, c, now, lost)
        PROVE  /\ Len(c1) = Len(a1)
               /\ \A i \in DOMAIN a1 : a1[i] <= wall /\ now - c1[i] <= wall - a1[i]
    <3>1. Len(a1) = Len(c1) /\ Shifted(a1, a, wall, lost)
      BY <1>1, <1>2, <1>5, <1>10, <2>2, ExtendedAlike
    <3>2. DOMAIN a1 = DOMAIN c1
      BY <1>5, <1>10, <3>1, LenProperties
    <3>3. ASSUME NEW i \in DOMAIN a1
          PROVE  a1[i] <= wall /\ now - c1[i] <= wall - a1[i]
      <4>1. CASE i + lost = Len(a) + 1
        <5>1. a1[i] = wall /\ c1[i] = now
          BY <1>2, <2>2, <3>1, <3>2, <4>1 DEF Shifted
        <5> QED
          BY <1>1, <5>1
      <4>2. CASE i + lost # Len(a) + 1
        <5>1. i + lost \in DOMAIN a /\ a1[i] = a[i + lost] /\ c1[i] = c[i + lost]
          BY <1>2, <2>2, <3>1, <3>2, <4>2 DEF Shifted
        <5> QED
          BY <1>2, <5>1
      <4> QED
        BY <4>1, <4>2
    <3> QED
      BY <3>1, <3>3
  <2> QED
    BY <1>9, <2>1, <2>2
<1>12. Guarded(p)'
  BY <1>8, <1>11 DEF Guarded, t, a1, c1
<1> QED
  BY <1>7, <1>12

LEMMA EngineClock == Next => now' = now \/ now' = now + 1
BY ZenonT(40) DEF Next, CreatePolicy, UpdatePolicy, TransitionPolicy, RevokePolicy, BeginEvaluation,
       Rollback, ApplyUpstream, PublishEvidence, CommitEvaluation, CommitSuppressed,
       DropTicket, AdvanceEpoch, Tick

LEMMA EngineGuarded ==
  ASSUME TypeOK, TypeOK', wall \in Nat, armed \in [Policies -> Armed], EngineStep,
         \A p \in Policies : Guarded(p)
  PROVE  /\ armed' \in [Policies -> Armed] /\ wall' \in Nat /\ wall' >= wall
         /\ \A p \in Policies : Guarded(p)'
<1>1. /\ Next /\ wall' = wall + (now' - now) /\ armed' = [p \in Policies |-> ArmedFor(p)]
      /\ now \in Nat
  BY DEF EngineStep, TypeOK
<1>2. ASSUME NEW p \in Policies
      PROVE  Guarded(p)' /\ armed'[p] \in Armed /\ (now' = now \/ now' = now + 1)
  <2>1. /\ now' = now \/ now' = now + 1
        /\ Rearms(p) => now' = now /\ ChurnMoves(p)
    BY <1>1, EngineTimers
  <2>2. armed'[p] = ArmedFor(p) /\ armed[p] \in Armed
    BY <1>1
  <2>3. CASE ~Rearms(p)
    <3>1. armed'[p] = armed[p] /\ timing'[p] = timing[p]
      BY <2>2, <2>3 DEF Rearms, ArmedFor
    <3>2. now' >= now
      BY <1>1, <2>1
    <3> QED
      BY <1>1, <2>1, <2>2, <3>1, <3>2, GuardedLater
  <2>4. CASE Rearms(p)
    <3>1. armed'[p] =
            [holdDown |-> IF timing'[p].holdDownActive
                          THEN wall + timing'[p].holdDownDeadline - now ELSE 0,
             cooldown |-> IF timing'[p].cooldownActive
                          THEN wall + timing'[p].cooldownDeadline - now ELSE 0,
             churn |-> Capped(Append(armed[p].churn, wall), Len(timing'[p].churn))]
      BY <2>2, <2>4 DEF Rearms, ArmedFor
    <3>2. now' = now /\ wall' = wall /\ ChurnMoves(p)
      BY <1>1, <2>1, <2>4
    <3> QED
      BY <2>1, <2>2, <3>1, <3>2, GuardedAnew
  <2> QED
    BY <2>3, <2>4
<1>3. now' = now \/ now' = now + 1
  BY <1>1, EngineClock
<1>4. wall' \in Nat /\ wall' >= wall
  BY <1>1, <1>3
<1> QED
  BY <1>1, <1>2, <1>4

\* What is written runs down while time passes.
LEMMA StoredLater ==
  ASSUME StoreTyped, wall \in Nat, wall' \in Nat, wall' >= wall, store' = store,
         NEW p \in Policies, StoredGuarded(p)
  PROVE  StoredGuarded(p)'
<1> DEFINE a == store.armed[p]
           t == store.timing[p]
<1>1. a \in Armed /\ t \in DurableTimings
  BY DEF StoreTyped
<1>2. /\ wall < a.holdDown => t.holdDownActive /\ t.holdDownRemaining >= a.holdDown - wall
      /\ wall < a.cooldown => t.cooldownActive /\ t.cooldownRemaining >= a.cooldown - wall
      /\ Len(t.churnAges) = Len(a.churn)
      /\ \A i \in DOMAIN a.churn : a.churn[i] <= wall /\ t.churnAges[i] <= wall - a.churn[i]
  BY DEF StoredGuarded
<1>3. store'.armed[p] = a /\ store'.timing[p] = t
  OBVIOUS
<1> HIDE DEF a, t
<1>4. /\ a.holdDown \in Int /\ a.cooldown \in Int
      /\ t.holdDownRemaining \in Nat /\ t.cooldownRemaining \in Nat
      /\ t.churnAges \in Seq(Nat)
      /\ DOMAIN a.churn = 1 .. Len(a.churn) /\ \A i \in DOMAIN a.churn : a.churn[i] \in Nat
  BY <1>1, ArmedType DEF DurableTimings
<1>5. \A i \in DOMAIN a.churn : t.churnAges[i] \in Nat
  BY <1>2, <1>4, LenProperties
<1>6. wall' < a.holdDown => wall < a.holdDown /\ t.holdDownRemaining >= a.holdDown - wall'
  BY <1>2, <1>4, SMTT(30)
<1>7. wall' < a.cooldown => wall < a.cooldown /\ t.cooldownRemaining >= a.cooldown - wall'
  BY <1>2, <1>4, SMTT(30)
<1>8. \A i \in DOMAIN a.churn : a.churn[i] <= wall' /\ t.churnAges[i] <= wall' - a.churn[i]
  BY <1>2, <1>4, <1>5, SMTT(30)
<1> QED
  BY <1>2, <1>3, <1>6, <1>7, <1>8 DEF StoredGuarded

\* A save writes durations as long as the ones that are left.
LEMMA SaveGuarded ==
  ASSUME TypeOK, wall \in Nat, armed \in [Policies -> Armed], Save,
         NEW p \in Policies, Guarded(p)
  PROVE  StoredGuarded(p)'
<1> DEFINE a == armed[p]
           t == timing[p]
           d == DurableTiming(t)
<1>1. a \in Armed /\ t \in TimingState /\ now \in Nat
  BY DEF TypeOK
<1>2. store'.armed[p] = a /\ store'.timing[p] = d /\ wall' = wall
  BY DEF Save, DurableState
<1>3. /\ wall < a.holdDown => t.holdDownActive /\ t.holdDownDeadline - now >= a.holdDown - wall
      /\ wall < a.cooldown => t.cooldownActive /\ t.cooldownDeadline - now >= a.cooldown - wall
      /\ Len(t.churn) = Len(a.churn)
      /\ \A i \in DOMAIN a.churn : a.churn[i] <= wall /\ now - t.churn[i] <= wall - a.churn[i]
  BY DEF Guarded
<1>4. /\ d.holdDownActive = (t.holdDownActive /\ t.holdDownDeadline > now)
      /\ d.holdDownRemaining = Remaining(t.holdDownActive, t.holdDownDeadline)
      /\ d.cooldownActive = (t.cooldownActive /\ t.cooldownDeadline > now)
      /\ d.cooldownRemaining = Remaining(t.cooldownActive, t.cooldownDeadline)
      /\ d.churnAges = [i \in DOMAIN t.churn |->
                          IF now >= t.churn[i] THEN now - t.churn[i] ELSE 0]
  BY DEF DurableTiming
<1>5. Len(d.churnAges) = Len(t.churn)
  BY <1>1, DurableTimingType
<1> HIDE DEF a, t, d
<1>6. /\ a.holdDown \in Int /\ a.cooldown \in Int
      /\ DOMAIN a.churn = 1 .. Len(a.churn) /\ \A i \in DOMAIN a.churn : a.churn[i] \in Nat
      /\ t.holdDownDeadline \in Nat /\ t.cooldownDeadline \in Nat
      /\ DOMAIN t.churn = 1 .. Len(t.churn) /\ \A i \in DOMAIN t.churn : t.churn[i] \in Nat
  BY <1>1, ArmedType, TimerType
<1>7. ASSUME wall < a.holdDown
      PROVE  d.holdDownActive /\ d.holdDownRemaining >= a.holdDown - wall
  <2>1. t.holdDownActive /\ t.holdDownDeadline > now
    BY <1>1, <1>3, <1>6, <1>7
  <2>2. d.holdDownRemaining = t.holdDownDeadline - now
    BY <1>4, <2>1 DEF Remaining
  <2> QED
    BY <1>3, <1>4, <1>7, <2>1, <2>2
<1>8. ASSUME wall < a.cooldown
      PROVE  d.cooldownActive /\ d.cooldownRemaining >= a.cooldown - wall
  <2>1. t.cooldownActive /\ t.cooldownDeadline > now
    BY <1>1, <1>3, <1>6, <1>8
  <2>2. d.cooldownRemaining = t.cooldownDeadline - now
    BY <1>4, <2>1 DEF Remaining
  <2> QED
    BY <1>3, <1>4, <1>8, <2>1, <2>2
<1>9. ASSUME NEW i \in DOMAIN a.churn
      PROVE  a.churn[i] <= wall /\ d.churnAges[i] <= wall - a.churn[i]
  <2>1. /\ i \in DOMAIN t.churn /\ a.churn[i] \in Nat /\ t.churn[i] \in Nat
        /\ a.churn[i] <= wall /\ now - t.churn[i] <= wall - a.churn[i]
    BY <1>3, <1>6
  <2>2. d.churnAges[i] = IF now >= t.churn[i] THEN now - t.churn[i] ELSE 0
    BY <1>4, <2>1
  <2> QED
    BY <1>1, <2>1, <2>2
<1> QED
  BY <1>2, <1>3, <1>5, <1>7, <1>8, <1>9 DEF StoredGuarded

\* A load arms the timers for what is left of them, against its own clock.
LEMMA RecoverGuarded ==
  ASSUME StoreTyped, wall \in Nat, NEW clock \in Nat, NEW held, Recover(clock, held),
         NEW p \in Policies, StoredGuarded(p)
  PROVE  Guarded(p)'
<1> DEFINE a == store.armed[p]
           d == store.timing[p]
           t == Rearmed(d, clock)
<1>1. a \in Armed /\ d \in DurableTimings
  BY DEF StoreTyped
<1>2. armed'[p] = a /\ timing'[p] = t /\ now' = clock /\ wall' = wall
  BY DEF Recover
<1>3. /\ wall < a.holdDown => d.holdDownActive /\ d.holdDownRemaining >= a.holdDown - wall
      /\ wall < a.cooldown => d.cooldownActive /\ d.cooldownRemaining >= a.cooldown - wall
      /\ Len(d.churnAges) = Len(a.churn)
      /\ \A i \in DOMAIN a.churn : a.churn[i] <= wall /\ d.churnAges[i] <= wall - a.churn[i]
  BY DEF StoredGuarded
<1>4. /\ t.holdDownActive = d.holdDownActive
      /\ t.holdDownDeadline = clock + d.holdDownRemaining
      /\ t.cooldownActive = d.cooldownActive
      /\ t.cooldownDeadline = clock + d.cooldownRemaining
      /\ t.churn = [i \in DOMAIN d.churnAges |->
                      IF clock >= d.churnAges[i] THEN clock - d.churnAges[i] ELSE 0]
  BY DEF Rearmed
<1>5. Len(t.churn) = Len(d.churnAges)
  BY <1>1, RearmedType
<1> HIDE DEF a, d, t
<1>6. /\ a.holdDown \in Int /\ a.cooldown \in Int
      /\ DOMAIN a.churn = 1 .. Len(a.churn) /\ \A i \in DOMAIN a.churn : a.churn[i] \in Nat
      /\ d.holdDownRemaining \in Nat /\ d.cooldownRemaining \in Nat
      /\ d.churnAges \in Seq(Nat)
  BY <1>1, ArmedType DEF DurableTimings
<1>7. ASSUME NEW i \in DOMAIN a.churn
      PROVE  a.churn[i] <= wall /\ clock - t.churn[i] <= wall - a.churn[i]
  <2>1. /\ i \in DOMAIN d.churnAges /\ a.churn[i] \in Nat /\ d.churnAges[i] \in Nat
        /\ a.churn[i] <= wall /\ d.churnAges[i] <= wall - a.churn[i]
    BY <1>3, <1>6, LenProperties
  <2>2. t.churn[i] = IF clock >= d.churnAges[i] THEN clock - d.churnAges[i] ELSE 0
    BY <1>4, <2>1
  <2> QED
    BY <2>1, <2>2
<1>8. wall < a.holdDown =>
        t.holdDownActive /\ t.holdDownDeadline - clock >= a.holdDown - wall
  BY <1>3, <1>4, <1>6
<1>9. wall < a.cooldown =>
        t.cooldownActive /\ t.cooldownDeadline - clock >= a.cooldown - wall
  BY <1>3, <1>4, <1>6
<1> QED
  BY <1>2, <1>3, <1>5, <1>7, <1>8, <1>9 DEF Guarded

-----------------------------------------------------------------------------
(* The inductive invariant *)

\* A policy that was never created has neither a preference nor an anchor.
AbsentHasNothing ==
  \A p \in Policies : lifecycle[p] = Absent =>
    preference[p] = NoPreference /\ stable[p] = NoStable

\* A preference and the anchor beside it, as CoreInv has them of every policy.
Displaced(pref, anchor) ==
  /\ anchor.established <=> pref.previous # NoPath
  /\ anchor.established =>
       /\ pref.established
       /\ anchor.path = pref.previous
       /\ anchor.path # pref.path
       /\ anchor.adaptation + 1 = pref.adaptation
  /\ pref.transition = pref.adaptation
  /\ pref.established <=> pref.path # NoPath

\* What is written is the engine's state at some earlier time.
StoreInv ==
  /\ StoreTyped
  /\ \A p \in Policies :
       /\ Displaced(store.preference[p], store.stable[p])
       /\ store.lifecycle[p] = Absent =>
            store.preference[p] = NoPreference /\ store.stable[p] = NoStable
       /\ StoredGuarded(p)

(***************************************************************************)
(* Inductive: a load is only as good as what the last save wrote, so what  *)
(* holds of the engine is kept for the store too; and it is the length of  *)
(* churn_commits, equal to the length of what was really committed, that   *)
(* tells which entries a pruning drops.                                    *)
(***************************************************************************)
RecoveryInv ==
  /\ CoreInv /\ AbsentHasNothing
  /\ wall \in Nat /\ armed \in [Policies -> Armed]
  /\ \A p \in Policies : Guarded(p)
  /\ store # NoStore => StoreInv

LEMMA CoreIsDisplaced ==
  CoreInv <=> TypeOK /\ \A p \in Policies : Displaced(preference[p], stable[p])
BY DEF CoreInv, AnchorIsDisplaced, EstablishedHasPath, Displaced

\* The engine creates a policy with nothing and never forgets one.
LEMMA EngineKeepsAbsent ==
  ASSUME TypeOK, Next, NEW p \in Policies, lifecycle'[p] = Absent
  PROVE  /\ lifecycle[p] = Absent
         /\ preference'[p] = preference[p] /\ stable'[p] = stable[p]
         /\ timing'[p].holdDownActive => timing[p].holdDownActive
<1>0. /\ lifecycle \in [Policies -> PolicyLifecycle \union {Absent}]
      /\ preference \in [Policies -> RoutingPreference]
      /\ stable \in [Policies -> StableState]
      /\ timing \in [Policies -> TimingState]
      /\ Absent \notin PolicyLifecycle
  BY DEF TypeOK, PolicyLifecycle, Absent
<1>1. ASSUME NEW q \in Policies, NEW s \in Semantics, CreatePolicy(q, s)
      PROVE  lifecycle[p] = Absent /\ UNCHANGED <<preference, stable, timing>>
  BY <1>0, <1>1 DEF CreatePolicy, recordVars, Absent
<1>2. ASSUME NEW q \in Policies, NEW s \in Semantics, UpdatePolicy(q, s)
      PROVE  /\ lifecycle[p] = Absent /\ preference'[p] = preference[p]
             /\ stable'[p] = stable[p] /\ timing'[p] = timing[p]
  BY <1>0, <1>2 DEF UpdatePolicy
<1>3. ASSUME NEW q \in Policies, NEW event \in Operations, TransitionPolicy(q, event)
      PROVE  lifecycle[p] = Absent /\ UNCHANGED <<preference, stable, timing>>
  BY <1>3, TransitionKeepsPolicy DEF TransitionPolicy, recordVars
<1>4. ASSUME NEW q \in Policies, RevokePolicy(q)
      PROVE  lifecycle[p] = Absent /\ UNCHANGED <<preference, stable, timing>>
  BY <1>0, <1>4 DEF RevokePolicy, recordVars, Absent
<1>5. ASSUME NEW q \in Policies, Rollback(q)
      PROVE  /\ lifecycle[p] = Absent /\ preference'[p] = preference[p]
             /\ stable'[p] = stable[p] /\ timing'[p] = timing[p]
  <2>1. lifecycle[q] = "ACTIVE" /\ lifecycle' = lifecycle
    BY <1>5 DEF Rollback, policyVars
  <2>2. q # p
    BY <2>1 DEF Absent
  <2> QED
    BY <1>0, <1>5, <2>1, <2>2 DEF Rollback
<1>6. ASSUME NEW t \in tickets, CommitEvaluation(t)
      PROVE  /\ lifecycle[p] = Absent /\ preference'[p] = preference[p]
             /\ stable'[p] = stable[p] /\ timing'[p] = timing[p]
  <2>1. lifecycle[t.policy] = "ACTIVE" /\ lifecycle' = lifecycle
    BY <1>6 DEF CommitEvaluation, TicketCurrent, policyVars
  <2>2. t.policy # p
    BY <2>1 DEF Absent
  <2> QED
    BY <1>0, <1>6, <2>1, <2>2 DEF CommitEvaluation
<1>7. CASE AdvanceEpoch
  <2>1. /\ lifecycle[p] = Absent /\ UNCHANGED <<preference, stable>>
        /\ timing'[p] = [timing[p] EXCEPT !.holdDownActive = FALSE, !.holdDownDeadline = 0,
                                          !.cooldownActive = FALSE, !.cooldownDeadline = 0,
                                          !.churn = <<>>]
    BY <1>7 DEF AdvanceEpoch, Absent
  <2>2. timing[p] \in TimingState
    BY <1>0
  <2>3. ~timing'[p].holdDownActive
    BY <2>1, <2>2 DEF TimingState
  <2> QED
    BY <2>1, <2>3
<1>8. ASSUME UNCHANGED <<policyVars, recordVars>>
      PROVE  lifecycle[p] = Absent /\ UNCHANGED <<preference, stable, timing>>
  BY <1>8 DEF policyVars, recordVars
<1>9. ASSUME NEW q \in Policies,
             \/ BeginEvaluation(q)
             \/ \E x \in Paths, event \in Events, b \in Bindings : ApplyUpstream(q, x, event, b)
      PROVE  lifecycle[p] = Absent /\ UNCHANGED <<preference, stable, timing>>
  BY <1>8, <1>9 DEF BeginEvaluation, ApplyUpstream
<1>10. ASSUME NEW x \in Paths, NEW value \in Values, NEW quality \in Qualities,
              NEW newIncarnation \in BOOLEAN,
              PublishEvidence(x, value, quality, newIncarnation)
       PROVE  lifecycle[p] = Absent /\ UNCHANGED <<preference, stable, timing>>
  BY <1>8, <1>10 DEF PublishEvidence
<1>11. ASSUME NEW t \in tickets, CommitSuppressed(t) \/ DropTicket(t)
       PROVE  lifecycle[p] = Absent /\ UNCHANGED <<preference, stable, timing>>
  BY <1>11 DEF CommitSuppressed, DropTicket, policyVars, recordVars
<1>12. CASE Tick
  BY <1>8, <1>12 DEF Tick
<1> QED
  BY <1>1, <1>2, <1>3, <1>4, <1>5, <1>6, <1>7, <1>9, <1>10, <1>11, <1>12 DEF Next

LEMMA RecoveryStart == Init /\ RecoveryInit => RecoveryInv
<1> SUFFICES ASSUME Init, RecoveryInit PROVE RecoveryInv
  OBVIOUS
<1>1. CoreInv /\ AbsentHasNothing
  BY CoreInit DEF Init, AbsentHasNothing
<1>2. store = NoStore /\ wall = 0 /\ now = 0 /\ armed = [p \in Policies |-> NotArmed]
      /\ timing = [p \in Policies |-> NoTiming]
  BY DEF Init, RecoveryInit
<1>3. NotArmed \in Armed
  BY EmptySeq DEF NotArmed, Armed
<1>4. ASSUME NEW p \in Policies PROVE Guarded(p)
  <2>1. /\ armed[p].holdDown = 0 /\ armed[p].cooldown = 0 /\ armed[p].churn = <<>>
        /\ timing[p].churn = <<>> /\ DOMAIN armed[p].churn = {}
    BY <1>2, EmptySeq DEF NotArmed, NoTiming
  <2> QED
    BY <1>2, <2>1 DEF Guarded
<1> QED
  BY <1>1, <1>2, <1>3, <1>4 DEF RecoveryInv

LEMMA EngineRecovery ==
  ASSUME RecoveryInv, EngineStep
  PROVE  RecoveryInv'
<1>1. CoreInv' /\ TypeOK /\ TypeOK' /\ store' = store
  BY CoreStep DEF RecoveryInv, CoreInv, EngineStep
<1>2. AbsentHasNothing'
  BY <1>1, EngineKeepsAbsent DEF RecoveryInv, AbsentHasNothing, EngineStep
<1>3. /\ armed' \in [Policies -> Armed] /\ wall' \in Nat /\ wall' >= wall
      /\ \A p \in Policies : Guarded(p)'
  BY <1>1, EngineGuarded DEF RecoveryInv
<1>4. ASSUME store # NoStore PROVE StoreInv'
  <2>1. StoreInv /\ StoreTyped /\ wall \in Nat
    BY <1>4 DEF RecoveryInv, StoreInv
  <2>2. StoreTyped'
    BY <1>1, <2>1 DEF StoreTyped
  <2>3. \A p \in Policies : StoredGuarded(p)'
    BY <1>1, <1>3, <2>1, StoredLater DEF StoreInv
  <2> QED
    BY <1>1, <2>1, <2>2, <2>3 DEF StoreInv
<1> QED
  BY <1>1, <1>2, <1>3, <1>4 DEF RecoveryInv

LEMMA SaveRecovery ==
  ASSUME RecoveryInv, Save
  PROVE  RecoveryInv'
<1>1. /\ UNCHANGED <<vars, wall, armed>>
      /\ store'.lifecycle = lifecycle /\ store'.preference = preference
      /\ store'.stable = stable
  BY DEF Save, DurableState
<1>2. UNCHANGED <<preference, stable, lifecycle, timing, now>>
  BY <1>1 DEF vars, policyVars, recordVars
<1>3. CoreInv' /\ TypeOK
  BY <1>1, CoreStep DEF RecoveryInv, CoreInv
<1>4. AbsentHasNothing' /\ \A p \in Policies : Guarded(p)'
  BY <1>1, <1>2 DEF RecoveryInv, AbsentHasNothing, Guarded
<1>5. StoreTyped'
  BY <1>3, SaveType DEF RecoveryInv
<1>6. \A p \in Policies : StoredGuarded(p)'
  BY <1>3, SaveGuarded DEF RecoveryInv
<1>7. \A p \in Policies : Displaced(store.preference[p], store.stable[p])'
  BY <1>1, CoreIsDisplaced DEF RecoveryInv, Displaced
<1>8. StoreInv'
  BY <1>1, <1>5, <1>6, <1>7 DEF RecoveryInv, AbsentHasNothing, StoreInv
<1> QED
  BY <1>1, <1>3, <1>4, <1>8 DEF RecoveryInv

LEMMA RecoverType ==
  ASSUME StoreTyped, NEW clock \in Nat, NEW held, Recover(clock, held),
         held \subseteq Ticket, \A t \in held : t.eligible => t.target \in Paths
  PROVE  TypeOK'
<1>1. /\ now' \in Nat /\ epoch' \in Nat /\ authority' \in Nat
      /\ evidenceGeneration' \in Nat /\ evidenceWatermark' \in Nat
      /\ generation' \in [Policies -> Nat] /\ semantics' \in [Policies -> Semantics]
      /\ stable' \in [Policies -> StableState] /\ revocations' \subseteq Policies
  BY DEF Recover, StoreTyped
<1>2. evidence' \in [Paths -> EvidenceRecord]
  <2>1. NoEvidence \in EvidenceRecord
    BY DEF NoEvidence, EvidenceRecord
  <2> QED
    BY <2>1 DEF Recover
<1>3. lifecycle' \in [Policies -> PolicyLifecycle \union {Absent}]
  BY DEF Recover, StoreTyped, RecoveredLifecycle, PolicyLifecycle
<1>4. candidates' \in [Policies -> [Paths -> CandidateRecord]]
  <2>1. NoCandidate \in CandidateRecord
    BY DEF NoCandidate, NoBinding, CandidateRecord, CandidateBinding
  <2> QED
    BY <2>1 DEF Recover
<1>5. policiesByPath' \in [Paths -> SUBSET Policies]
  BY DEF Recover
<1>6. preference' \in [Policies -> RoutingPreference]
  <2>1. NoPreference \in RoutingPreference
    BY DEF NoPreference, RoutingPreference, Causes
  <2>2. ASSUME NEW p \in Policies PROVE RecoveredPreference(store, p) \in RoutingPreference
    <3> DEFINE pref == store.preference[p]
    <3>1. pref \in RoutingPreference /\ "RECOVERED" \in Causes
      BY DEF StoreTyped, Causes
    <3>2. RecoveredPreference(store, p) \in {NoPreference, [pref EXCEPT !.cause = "RECOVERED"]}
      BY DEF RecoveredPreference
    <3> HIDE DEF pref
    <3>3. [pref EXCEPT !.cause = "RECOVERED"] \in RoutingPreference
      BY <3>1 DEF RoutingPreference
    <3> QED
      BY <2>1, <3>2, <3>3
  <2> QED
    BY <2>2 DEF Recover
<1>7. timing' \in [Policies -> TimingState]
  <2>1. \A p \in Policies : store.timing[p] \in DurableTimings
    BY DEF StoreTyped
  <2>2. \A p \in Policies : Rearmed(store.timing[p], clock) \in TimingState
    BY <2>1, RearmedType
  <2> QED
    BY <2>2 DEF Recover
<1>8. history' \in [Policies -> Seq(AdaptationRecord)]
  BY RecoveredHistoryType DEF Recover
<1>9. tickets' \subseteq Ticket /\ \A t \in tickets' : t.eligible => t.target \in Paths
  BY DEF Recover
<1> QED
  BY <1>1, <1>2, <1>3, <1>4, <1>5, <1>6, <1>7, <1>8, <1>9 DEF TypeOK

LEMMA RecoverRecovery ==
  ASSUME RecoveryInv, NEW clock \in Nat, NEW held, Recover(clock, held),
         held \subseteq Ticket, \A t \in held : t.eligible => t.target \in Paths
  PROVE  RecoveryInv'
<1>1. store # NoStore /\ store' = store /\ wall' = wall /\ armed' = store.armed
  BY DEF Recover
<1>2. StoreInv /\ StoreTyped /\ wall \in Nat
  BY <1>1 DEF RecoveryInv, StoreInv
<1>3. TypeOK'
  BY <1>2, RecoverType
<1>4. armed' \in [Policies -> Armed]
  BY <1>1, <1>2 DEF StoreTyped
<1>5. \A p \in Policies : Guarded(p)'
  BY <1>2, RecoverGuarded DEF StoreInv
<1>6. ASSUME NEW p \in Policies
      PROVE  /\ Displaced(preference[p], stable[p])'
             /\ lifecycle'[p] = Absent => preference'[p] = NoPreference /\ stable'[p] = NoStable
  <2> DEFINE pref == store.preference[p]
  <2>1. /\ preference'[p] = IF store.lifecycle[p] = Absent THEN NoPreference
                            ELSE [pref EXCEPT !.cause = "RECOVERED"]
        /\ stable'[p] = store.stable[p]
        /\ lifecycle'[p] = RecoveredLifecycle(store.lifecycle[p])
    BY DEF Recover, RecoveredPreference
  <2>2. /\ Displaced(pref, store.stable[p]) /\ pref \in RoutingPreference
        /\ store.lifecycle[p] = Absent => pref = NoPreference /\ store.stable[p] = NoStable
    BY <1>2 DEF StoreInv, StoreTyped
  <2> HIDE DEF pref
  <2>3. CASE store.lifecycle[p] = Absent
    BY <2>1, <2>2, <2>3
  <2>4. CASE store.lifecycle[p] # Absent
    <3>1. lifecycle'[p] # Absent
      BY <2>1, <2>4 DEF RecoveredLifecycle, Absent
    <3>2. /\ preference'[p].established = pref.established
          /\ preference'[p].path = pref.path
          /\ preference'[p].previous = pref.previous
          /\ preference'[p].adaptation = pref.adaptation
          /\ preference'[p].transition = pref.transition
      BY <2>1, <2>2, <2>4 DEF RoutingPreference
    <3> QED
      BY <2>1, <2>2, <3>1, <3>2 DEF Displaced
  <2> QED
    BY <2>3, <2>4
<1>7. CoreInv' /\ AbsentHasNothing'
  BY <1>3, <1>6 DEF CoreInv, AnchorIsDisplaced, EstablishedHasPath, Displaced, AbsentHasNothing
<1>8. StoreInv'
  <2>1. StoreTyped' /\ \A p \in Policies : StoredGuarded(p)'
    BY <1>1, <1>2 DEF StoreTyped, StoredGuarded, StoreInv
  <2> QED
    BY <1>1, <1>2, <2>1 DEF StoreInv
<1> QED
  BY <1>1, <1>2, <1>4, <1>5, <1>7, <1>8 DEF RecoveryInv

LEMMA RecoveryStep == RecoveryInv /\ [RecoveryNext]_recoveryVars => RecoveryInv'
<1> SUFFICES ASSUME RecoveryInv, [RecoveryNext]_recoveryVars PROVE RecoveryInv'
  OBVIOUS
<1>1. CASE EngineStep
  BY <1>1, EngineRecovery
<1>2. CASE Save
  BY <1>2, SaveRecovery
<1>3. CASE Load
  <2>1. /\ now \in Nat /\ tickets \subseteq Ticket
        /\ \A t \in tickets : t.eligible => t.target \in Paths
    BY DEF RecoveryInv, CoreInv, TypeOK
  <2> QED
    BY <1>3, <2>1, RecoverRecovery DEF Load
<1>4. CASE Restart
  <2>1. PICK clock \in Clocks : Recover(clock, {})
    BY <1>4 DEF Restart
  <2>2. clock \in Nat
    BY RecoveryAssumption
  <2>3. {} \subseteq Ticket /\ \A t \in {} : t.eligible => t.target \in Paths
    OBVIOUS
  <2> QED
    BY <2>1, <2>2, <2>3, RecoverRecovery
<1>5. CASE UNCHANGED recoveryVars
  <2>1. UNCHANGED <<vars, store, wall, armed>>
    BY <1>5 DEF recoveryVars
  <2>2. UNCHANGED <<preference, stable, lifecycle, timing, now>>
    BY <2>1 DEF vars, policyVars, recordVars
  <2>3. CoreInv'
    BY <2>1, CoreStep DEF RecoveryInv
  <2>4. AbsentHasNothing' /\ \A p \in Policies : Guarded(p)'
    BY <2>1, <2>2 DEF RecoveryInv, AbsentHasNothing, Guarded
  <2>5. store # NoStore => StoreInv'
    BY <2>1 DEF RecoveryInv, StoreInv, StoreTyped, StoredGuarded
  <2> QED
    BY <2>1, <2>3, <2>4, <2>5 DEF RecoveryInv
<1> QED
  BY <1>1, <1>2, <1>3, <1>4, <1>5 DEF RecoveryNext

LEMMA RecoveryInvariant == RecoverySpec => []RecoveryInv
BY RecoveryStart, RecoveryStep, PTL DEF RecoverySpec

(***************************************************************************)
(* Whatever is saved, loaded or restarted, every variable of the engine    *)
(* keeps its type (apply_durable).                                         *)
(***************************************************************************)
THEOREM RecoveredTyped == RecoverySpec => []TypeOK
<1>1. RecoveryInv => TypeOK
  BY DEF RecoveryInv, CoreInv
<1> QED
  BY <1>1, RecoveryInvariant, PTL

(***************************************************************************)
(* After a recovery, too, the rollback anchor is exactly the preference    *)
(* the current one displaced: the two are saved and loaded together.       *)
(***************************************************************************)
THEOREM RecoveredAnchor == RecoverySpec => []AnchorIsDisplaced
<1>1. RecoveryInv => AnchorIsDisplaced
  BY DEF RecoveryInv, CoreInv
<1> QED
  BY <1>1, RecoveryInvariant, PTL

\* The moves the engine counts in the churn window are at least those that were made.
LEMMA NoMoveForgotten ==
  ASSUME RecoveryInv, NEW p \in Policies
  PROVE  /\ CountedMoves(p) \in Nat /\ TrueMoves(p) \in Nat
         /\ CountedMoves(p) >= TrueMoves(p)
<1> DEFINE a == armed[p].churn
           c == timing[p].churn
           window == semantics[p].churnWindow
           counted == {i \in DOMAIN c : now - c[i] <= window}
           true == {i \in DOMAIN a : wall - a[i] <= window}
<1>1. /\ TypeOK /\ Guarded(p) /\ wall \in Nat /\ now \in Nat
      /\ armed[p] \in Armed /\ timing[p] \in TimingState
  BY DEF RecoveryInv, CoreInv, TypeOK
<1>2. window \in Nat
  BY <1>1, SemanticsType DEF PolicySemantics
<1>3. /\ DOMAIN a = 1 .. Len(a) /\ DOMAIN c = 1 .. Len(c) /\ Len(c) = Len(a) /\ Len(a) \in Nat
      /\ \A i \in DOMAIN a : /\ a[i] \in Nat /\ c[i] \in Nat
                             /\ now - c[i] <= wall - a[i]
  BY <1>1, ArmedType, TimerType DEF Guarded
<1>4. CountedMoves(p) = Cardinality(counted) /\ TrueMoves(p) = Cardinality(true)
  BY DEF CountedMoves, RecentCommits, TrueMoves
<1> HIDE DEF a, c, window
<1>5. true \subseteq counted /\ counted \subseteq DOMAIN c
  BY <1>1, <1>2, <1>3
<1>6. IsFiniteSet(DOMAIN c)
  BY <1>3, FirstNaturals
<1>7. IsFiniteSet(counted) /\ IsFiniteSet(true)
  BY <1>5, <1>6, FS_Subset
<1>8. /\ Cardinality(counted) \in Nat /\ Cardinality(true) \in Nat
      /\ Cardinality(true) <= Cardinality(counted)
  BY <1>5, <1>7, FS_Subset, FS_CardinalityType
<1> HIDE DEF counted, true
<1> QED
  BY <1>4, <1>8

(***************************************************************************)
(* However often and from whatever save the process restarts, and wherever *)
(* its clock starts, a hold-down or cooldown runs at least as long as the  *)
(* move that armed it meant it to, and no move of the churn window is      *)
(* forgotten (build_durable, apply_durable).                               *)
(***************************************************************************)
THEOREM RestartKeepsGuardsCorrect == RecoverySpec => []RestartKeepsGuards
<1>1. RecoveryInv => RestartKeepsGuards
  BY NoMoveForgotten DEF RecoveryInv, Guarded, RestartKeepsGuards
<1> QED
  BY <1>1, RecoveryInvariant, PTL

-----------------------------------------------------------------------------
(* Adaptations after a restart *)

(***************************************************************************)
(* update_policy may take the hold-down out of the rules while one runs;   *)
(* evaluate_inputs then no longer looks at the running one.                *)
(***************************************************************************)
KeepsHoldDown ==
  \A p \in Policies, s \in Semantics :
    UpdatePolicy(p, s) /\ timing'[p].holdDownActive => s.holdDown # 0

\* A hold-down that runs is one the rules of the policy know.
HoldDownRuled ==
  \A p \in Policies :
    /\ timing[p].holdDownActive => lifecycle[p] # Absent /\ semantics[p].holdDown # 0
    /\ store # NoStore /\ store.timing[p].holdDownActive =>
         store.lifecycle[p] # Absent /\ store.semantics[p].holdDown # 0

\* Without a declared hold-down dampening has nothing to extend.
LEMMA NoHoldDownToExtend ==
  ASSUME NEW s \in PolicySemantics, ValidSemantics(s), NEW penalty \in Nat
  PROVE  EffectiveHoldDown(s, penalty) # 0 <=> s.holdDown # 0
<1>1. s.holdDown \in Nat
  BY DEF PolicySemantics
<1>2. CASE s.dampening
  <2>1. s.holdDown # 0
    BY <1>2 DEF ValidSemantics
  <2>2. EffectiveHoldDown(s, penalty) \in Nat /\ EffectiveHoldDown(s, penalty) >= s.holdDown
    BY DampeningExtends, EffectiveHoldDownType
  <2> QED
    BY <1>1, <2>1, <2>2
<1>3. CASE ~s.dampening
  BY <1>3 DEF EffectiveHoldDown
<1> QED
  BY <1>2, <1>3

\* A move arms a hold-down only when the rules have one.
LEMMA EngineRuled ==
  ASSUME TypeOK, TypeOK', Next, [KeepsHoldDown]_vars, NEW p \in Policies,
         timing[p].holdDownActive => lifecycle[p] # Absent /\ semantics[p].holdDown # 0,
         timing'[p].holdDownActive
  PROVE  lifecycle'[p] # Absent /\ semantics'[p].holdDown # 0
<1>0. /\ timing \in [Policies -> TimingState] /\ semantics \in [Policies -> Semantics]
      /\ generation \in [Policies -> Nat] /\ now \in Nat
      /\ semantics[p] \in PolicySemantics /\ ValidSemantics(semantics[p])
  BY SemanticsType DEF TypeOK
<1>1. lifecycle'[p] # Absent
  BY EngineKeepsAbsent
<1>2. ASSUME timing'[p] = timing[p], semantics'[p] = semantics[p]
      PROVE  semantics'[p].holdDown # 0
  BY <1>2
<1>3. ASSUME NEW q \in Policies, NEW s \in Semantics, UpdatePolicy(q, s)
      PROVE  semantics'[p].holdDown # 0
  <2>1. /\ semantics' = [semantics EXCEPT ![q] = s]
        /\ generation' = [generation EXCEPT ![q] = @ + 1]
        /\ timing' \in {timing, [timing EXCEPT ![q] = NoTiming]}
    BY <1>3 DEF UpdatePolicy
  <2>2. CASE q = p
    <3>1. generation'[p] = generation[p] + 1 /\ generation[p] \in Nat
      BY <1>0, <2>1, <2>2
    <3>2. vars' # vars
      BY <3>1 DEF vars, policyVars
    <3>3. s.holdDown # 0
      BY <1>3, <2>2, <3>2 DEF KeepsHoldDown
    <3> QED
      BY <1>0, <2>1, <2>2, <3>3
  <2>3. CASE q # p
    BY <1>0, <1>2, <2>1, <2>3
  <2> QED
    BY <2>2, <2>3
<1>4. ASSUME NEW t \in tickets, CommitEvaluation(t)
      PROVE  semantics'[p].holdDown # 0
  <2>1. timing' = [timing EXCEPT ![t.policy] = ArmedTiming(t.policy)] /\ semantics' = semantics
    BY <1>4 DEF CommitEvaluation, policyVars
  <2>2. CASE t.policy = p /\ preference[p].established
    <3> DEFINE penalty == IF semantics[p].dampening
                          THEN Lesser(semantics[p].maxPenalty,
                                      timing[p].penalty + semantics[p].increment)
                          ELSE timing[p].penalty
    <3>1. timing'[p].holdDownActive = (EffectiveHoldDown(semantics[p], penalty) # 0)
      BY <1>0, <2>1, <2>2 DEF ArmedTiming
    <3>2. penalty \in Nat
      <4>1. /\ semantics[p].maxPenalty \in Nat /\ semantics[p].increment \in Nat
            /\ timing[p].penalty \in Nat
        BY <1>0 DEF PolicySemantics, TimingState
      <4> QED
        BY <4>1 DEF Lesser
    <3> HIDE DEF penalty
    <3> QED
      BY <1>0, <2>1, <3>1, <3>2, NoHoldDownToExtend
  <2>3. CASE ~(t.policy = p /\ preference[p].established)
    <3>1. timing'[p] = timing[p]
      BY <1>0, <2>1, <2>3 DEF ArmedTiming
    <3> QED
      BY <1>2, <2>1, <3>1
  <2> QED
    BY <2>2, <2>3
<1>5. ASSUME NEW q \in Policies, Rollback(q)
      PROVE  semantics'[p].holdDown # 0
  <2>1. timing' = [timing EXCEPT ![q] = RollbackTiming(q)] /\ semantics' = semantics
    BY <1>5 DEF Rollback, policyVars
  <2>2. CASE q = p
    <3>1. timing'[p] = RollbackTiming(p) /\ timing[p] \in TimingState
      BY <1>0, <2>1, <2>2
    <3>2. timing'[p].holdDownActive = (semantics[p].holdDown # 0)
      BY <3>1 DEF RollbackTiming, TimingState
    <3> QED
      BY <2>1, <3>2
  <2>3. CASE q # p
    BY <1>0, <1>2, <2>1, <2>3
  <2> QED
    BY <2>2, <2>3
<1>6. CASE AdvanceEpoch
  <2>1. timing'[p] = [timing[p] EXCEPT !.holdDownActive = FALSE, !.holdDownDeadline = 0,
                                       !.cooldownActive = FALSE, !.cooldownDeadline = 0,
                                       !.churn = <<>>]
    BY <1>6 DEF AdvanceEpoch
  <2>2. timing[p] \in TimingState
    BY <1>0
  <2>3. ~timing'[p].holdDownActive
    BY <2>1, <2>2 DEF TimingState
  <2> QED
    BY <2>3
<1>7. ASSUME NEW q \in Policies, NEW s \in Semantics, CreatePolicy(q, s)
      PROVE  semantics'[p].holdDown # 0
  <2>1. lifecycle[q] = Absent /\ timing' = timing /\ semantics' = [semantics EXCEPT ![q] = s]
    BY <1>7 DEF CreatePolicy, recordVars
  <2>2. q # p
    BY <2>1
  <2> QED
    BY <1>0, <1>2, <2>1, <2>2
<1>8. ASSUME NEW q \in Policies,
             \/ \E event \in Operations : TransitionPolicy(q, event)
             \/ RevokePolicy(q) \/ BeginEvaluation(q)
             \/ \E x \in Paths, event \in Events, b \in Bindings : ApplyUpstream(q, x, event, b)
      PROVE  semantics'[p].holdDown # 0
  <2>1. UNCHANGED <<timing, semantics>>
    BY <1>8 DEF TransitionPolicy, RevokePolicy, BeginEvaluation, ApplyUpstream,
                recordVars, policyVars
  <2> QED
    BY <1>2, <2>1
<1>9. ASSUME NEW x \in Paths, NEW value \in Values, NEW quality \in Qualities,
             NEW newIncarnation \in BOOLEAN,
             PublishEvidence(x, value, quality, newIncarnation)
      PROVE  semantics'[p].holdDown # 0
  BY <1>2, <1>9 DEF PublishEvidence, recordVars, policyVars
<1>10. ASSUME NEW t \in tickets, CommitSuppressed(t) \/ DropTicket(t)
       PROVE  semantics'[p].holdDown # 0
  BY <1>2, <1>10 DEF CommitSuppressed, DropTicket, recordVars, policyVars
<1>11. CASE Tick
  BY <1>2, <1>11 DEF Tick, recordVars, policyVars
<1> QED
  BY <1>1, <1>3, <1>4, <1>5, <1>6, <1>7, <1>8, <1>9, <1>10, <1>11 DEF Next

LEMMA RecoverRuled ==
  ASSUME RecoveryInv, HoldDownRuled, NEW clock, NEW held, Recover(clock, held)
  PROVE  HoldDownRuled'
<1>1. store # NoStore /\ store' = store
  BY DEF Recover
<1> SUFFICES ASSUME NEW p \in Policies, timing'[p].holdDownActive
             PROVE  lifecycle'[p] # Absent /\ semantics'[p].holdDown # 0
  BY <1>1 DEF HoldDownRuled
<1>2. /\ timing'[p] = Rearmed(store.timing[p], clock)
      /\ lifecycle'[p] = RecoveredLifecycle(store.lifecycle[p])
      /\ semantics' = store.semantics
  BY DEF Recover
<1>3. store.timing[p].holdDownActive
  BY <1>2 DEF Rearmed
<1>4. store.lifecycle[p] # Absent /\ store.semantics[p].holdDown # 0
  BY <1>1, <1>3 DEF HoldDownRuled
<1> QED
  BY <1>2, <1>4 DEF RecoveredLifecycle, Absent

LEMMA RuledStep ==
  RecoveryInv /\ HoldDownRuled /\ [KeepsHoldDown]_vars /\ [RecoveryNext]_recoveryVars
    => HoldDownRuled'
<1> SUFFICES ASSUME RecoveryInv, HoldDownRuled, [KeepsHoldDown]_vars,
                    [RecoveryNext]_recoveryVars
             PROVE  HoldDownRuled'
  OBVIOUS
<1>1. CASE EngineStep
  <2>1. TypeOK /\ TypeOK' /\ Next /\ store' = store
    BY <1>1, CoreStep DEF RecoveryInv, CoreInv, EngineStep
  <2>2. ASSUME NEW p \in Policies, timing'[p].holdDownActive
        PROVE  lifecycle'[p] # Absent /\ semantics'[p].holdDown # 0
    BY <2>1, <2>2, EngineRuled DEF HoldDownRuled
  <2> QED
    BY <2>1, <2>2 DEF HoldDownRuled
<1>2. CASE Save
  <2>1. UNCHANGED <<timing, lifecycle, semantics>>
    BY <1>2 DEF Save, vars, recordVars, policyVars
  <2>2. ASSUME NEW p \in Policies, store'.timing[p].holdDownActive
        PROVE  store'.lifecycle[p] # Absent /\ store'.semantics[p].holdDown # 0
    <3>1. /\ store'.timing[p] = DurableTiming(timing[p])
          /\ store'.lifecycle = lifecycle /\ store'.semantics = semantics
      BY <1>2 DEF Save, DurableState
    <3>2. DurableTiming(timing[p]).holdDownActive
            = (timing[p].holdDownActive /\ timing[p].holdDownDeadline > now)
      BY DEF DurableTiming
    <3>3. timing[p].holdDownActive
      BY <2>2, <3>1, <3>2
    <3> QED
      BY <3>1, <3>3 DEF HoldDownRuled
  <2> QED
    BY <2>1, <2>2 DEF HoldDownRuled
<1>3. CASE Load \/ Restart
  BY <1>3, RecoverRuled DEF Load, Restart
<1>4. CASE UNCHANGED recoveryVars
  BY <1>4 DEF recoveryVars, vars, recordVars, policyVars, HoldDownRuled
<1> QED
  BY <1>1, <1>2, <1>3, <1>4 DEF RecoveryNext

\* An ordinary adaptation of p waits for what its timers were armed for.
WaitsInWallTime(p) ==
  preference[p].established /\ preference'[p] # preference[p]
    /\ preference'[p].cause = "TRIGGER_SATISFIED"
  => /\ wall >= armed[p].cooldown
     /\ preference'[p].path = preference[p].previous => wall >= armed[p].holdDown
     /\ semantics[p].churnMax # 0 => TrueMoves(p) < semantics[p].churnMax

LEMMA EngineWaits ==
  ASSUME RecoveryInv, HoldDownRuled, EngineStep, NEW p \in Policies
  PROVE  WaitsInWallTime(p)
<1> SUFFICES ASSUME preference'[p] # preference[p],
                    preference'[p].cause = "TRIGGER_SATISFIED"
             PROVE  /\ wall >= armed[p].cooldown
                    /\ preference'[p].path = preference[p].previous => wall >= armed[p].holdDown
                    /\ semantics[p].churnMax # 0 => TrueMoves(p) < semantics[p].churnMax
  BY DEF WaitsInWallTime
<1>1. /\ TypeOK /\ Next /\ Guarded(p) /\ wall \in Nat /\ now \in Nat
      /\ armed[p] \in Armed /\ timing[p] \in TimingState
      /\ timing[p].holdDownActive => semantics[p].holdDown # 0
  BY DEF RecoveryInv, CoreInv, TypeOK, EngineStep, HoldDownRuled
<1>2. /\ ~Suppressed(p, preference'[p].path)
      /\ \E t \in tickets : t.policy = p /\ CommitEvaluation(t)
  BY <1>1, OrdinaryMove
<1>3. /\ armed[p].holdDown \in Int /\ armed[p].cooldown \in Int
      /\ timing[p].holdDownDeadline \in Nat /\ timing[p].cooldownDeadline \in Nat
      /\ timing[p].penalty \in Nat
  BY <1>1, ArmedType, TimerType
<1>4. semantics[p] \in PolicySemantics /\ ValidSemantics(semantics[p])
  BY <1>1, SemanticsType
<1>5. wall >= armed[p].cooldown
  <2>1. ~(timing[p].cooldownActive /\ now < timing[p].cooldownDeadline)
    BY <1>2 DEF Suppressed, CoolingDown
  <2> QED
    BY <1>1, <1>3, <2>1 DEF Guarded
<1>6. ASSUME preference'[p].path = preference[p].previous
      PROVE  wall >= armed[p].holdDown
  <2>1. preference'[p].path # NoPath
    <3>1. PICK t \in tickets : t.policy = p /\ CommitEvaluation(t)
      BY <1>2
    <3>2. t.target \in Paths
      BY <1>1, <3>1 DEF TypeOK, CommitEvaluation
    <3>3. PICK cause : preference' = [preference EXCEPT ![p] =
                                        Installed(p, t.target, cause, t.weighted)]
      BY <3>1 DEF CommitEvaluation
    <3>4. preference'[p].path = t.target
      BY <1>1, <3>3 DEF TypeOK, Installed
    <3> QED
      BY <3>2, <3>4, PathsAssumption
  <2>2. Reverse(p, preference'[p].path)
    BY <1>6, <2>1 DEF Reverse
  <2>3. timing[p].holdDownActive => EffectiveHoldDown(semantics[p], timing[p].penalty) # 0
    BY <1>1, <1>3, <1>4, NoHoldDownToExtend
  <2>4. ~(timing[p].holdDownActive /\ now < timing[p].holdDownDeadline)
    BY <1>2, <2>2, <2>3 DEF Suppressed, HeldDown
  <2> QED
    BY <1>1, <1>3, <2>4 DEF Guarded
<1>7. ASSUME semantics[p].churnMax # 0
      PROVE  TrueMoves(p) < semantics[p].churnMax
  <2>1. ~(CountedMoves(p) >= semantics[p].churnMax)
    BY <1>2, <1>7 DEF Suppressed, ChurnExhausted, CountedMoves
  <2>2. semantics[p].churnMax \in Nat
    BY <1>4 DEF PolicySemantics
  <2> QED
    BY <2>1, <2>2, NoMoveForgotten
<1> QED
  BY <1>5, <1>6, <1>7

LEMMA AdaptsInWallTime ==
  ASSUME RecoveryInv, HoldDownRuled, [RecoveryNext]_recoveryVars, NEW p \in Policies
  PROVE  WaitsInWallTime(p)
<1>1. CASE EngineStep
  BY <1>1, EngineWaits
<1>2. ASSUME NEW clock, NEW held, Recover(clock, held)
      PROVE  WaitsInWallTime(p)
  <2>1. preference'[p] = RecoveredPreference(store, p)
    BY <1>2 DEF Recover
  <2>2. store.preference[p] \in RoutingPreference
    BY <1>2 DEF RecoveryInv, StoreInv, StoreTyped, Recover
  <2>3. preference'[p].cause \in {"DECLARED", "RECOVERED"}
    BY <2>1, <2>2 DEF RecoveredPreference, NoPreference, RoutingPreference
  <2> QED
    BY <2>3 DEF WaitsInWallTime
<1>3. CASE Load \/ Restart
  BY <1>2, <1>3 DEF Load, Restart
<1>4. CASE Save \/ UNCHANGED recoveryVars
  BY <1>4 DEF Save, recoveryVars, vars, recordVars, WaitsInWallTime
<1> QED
  BY <1>1, <1>3, <1>4 DEF RecoveryNext

(***************************************************************************)
(* An ordinary adaptation, however many restarts lie between it and the    *)
(* move before it, waits for the cooldown, goes back only after the hold-  *)
(* down, and keeps the bound on moves, all in time as it passes outside    *)
(* the process: unless update_policy took the hold-down out of the rules   *)
(* while it ran (evaluate_inputs, verify_and_commit, apply_durable).       *)
(***************************************************************************)
THEOREM GuardsSurviveRestartCorrect ==
  RecoverySpec /\ [][KeepsHoldDown]_vars => GuardsSurviveRestart
<1>1. Init /\ RecoveryInit => HoldDownRuled
  BY DEF Init, RecoveryInit, HoldDownRuled, NoTiming
<1>2. RecoveryInv /\ HoldDownRuled /\ [RecoveryNext]_recoveryVars
        => [\A p \in Policies : WaitsInWallTime(p)]_recoveryVars
  BY AdaptsInWallTime
<1>3. [][\A p \in Policies : WaitsInWallTime(p)]_recoveryVars => GuardsSurviveRestart
  BY PTL DEF GuardsSurviveRestart, WaitsInWallTime
<1> QED
  BY <1>1, <1>2, <1>3, RuledStep, RecoveryInvariant, PTL DEF RecoverySpec

-----------------------------------------------------------------------------
(* Rules, timers and history across a recovery *)

\* What is written of p was recorded in the epochs up to the one that is written.
StoredPast(p) ==
  /\ store.preference[p].epoch <= store.epoch
  /\ store.preference[p].policyGeneration <= store.generation[p]
  /\ \A i \in DOMAIN store.history[p] : store.history[p][i].epoch <= store.epoch

(***************************************************************************)
(* Inductive: a recovery begins an epoch after everything that was saved,  *)
(* so no recovered preference has timers under the rules that armed them,  *)
(* and no recovered move counts, until the first commit of the new epoch.  *)
(***************************************************************************)
PastInv ==
  /\ RecoveryInv /\ ChurnInv
  /\ store # NoStore => \A p \in Policies : StoredPast(p)

\* Pruning the recovered history and forgetting its ticks changes no epoch.
LEMMA RecoveredHistoryPast ==
  ASSUME StoreTyped, NEW p \in Policies, StoredPast(p)
  PROVE  \A i \in DOMAIN RecoveredHistory(store, p) :
           RecoveredHistory(store, p)[i].epoch <= store.epoch
<1> DEFINE h == store.history[p]
           Past == {r \in AdaptationRecord : r.epoch <= store.epoch}
           g == [i \in DOMAIN h |-> [h[i] EXCEPT !.at = 0]]
<1>1. h \in Seq(AdaptationRecord)
  BY DEF StoreTyped
<1>2. /\ DOMAIN h = 1 .. Len(h) /\ Len(h) \in Nat
      /\ \A i \in DOMAIN h : h[i] \in AdaptationRecord /\ h[i].epoch <= store.epoch
  BY <1>1, LenProperties DEF StoredPast
<1>3. g \in [1 .. Len(h) -> Past]
  <2>1. ASSUME NEW i \in DOMAIN h PROVE [h[i] EXCEPT !.at = 0] \in Past
    <3>1. h[i] \in AdaptationRecord /\ h[i].epoch <= store.epoch
      BY <1>2
    <3> HIDE DEF h
    <3>2. /\ [h[i] EXCEPT !.at = 0] \in AdaptationRecord
          /\ [h[i] EXCEPT !.at = 0].epoch = h[i].epoch
      BY <3>1 DEF AdaptationRecord
    <3> QED
      BY <3>1, <3>2
  <2> HIDE DEF h, Past
  <2> QED
    BY <1>2, <2>1
<1> HIDE DEF g, Past
<1>4. Capped(g, HistoryLimit) \in Seq(Past)
  BY <1>2, <1>3, FunctionIsSeq, CappedType, LimitsAssumption
<1>5. \A i \in DOMAIN Capped(g, HistoryLimit) : Capped(g, HistoryLimit)[i] \in Past
  BY <1>4, LenProperties
<1> QED
  BY <1>5 DEF RecoveredHistory, g, Past

LEMMA SavePast ==
  ASSUME PastInv, Save
  PROVE  PastInv'
<1>1. RecoveryInv'
  BY SaveRecovery DEF PastInv
<1>2. UNCHANGED vars
  BY DEF Save
<1>3. ChurnInv'
  BY <1>2, ChurnStep DEF PastInv
<1>4. /\ store'.epoch = epoch /\ store'.generation = generation
      /\ store'.preference = preference /\ store'.history = history
  BY DEF Save, DurableState
<1>5. \A p \in Policies : StoredPast(p)'
  BY <1>4 DEF PastInv, ChurnInv, TimingInv, RecordsThePast, HistoryIsPast, StoredPast
<1> QED
  BY <1>1, <1>3, <1>5 DEF PastInv

LEMMA RecoverPast ==
  ASSUME PastInv, RecoveryInv', NEW clock, NEW held, Recover(clock, held)
  PROVE  PastInv'
<1>1. store # NoStore /\ store' = store /\ epoch' = store.epoch + 1
      /\ generation' = store.generation
  BY DEF Recover
<1>2. StoreTyped /\ \A p \in Policies : StoredPast(p)
  BY <1>1 DEF PastInv, RecoveryInv, StoreInv
<1>3. store.epoch \in Nat
  BY <1>2 DEF StoreTyped
<1>4. CoreInv' /\ AbsentHasNothing'
  BY DEF RecoveryInv
<1>5. ASSUME NEW p \in Policies
      PROVE  /\ preference'[p].epoch <= epoch' /\ preference'[p].epoch # epoch'
             /\ preference'[p].policyGeneration <= generation'[p]
  <2>1. /\ store.preference[p] \in RoutingPreference
        /\ store.preference[p].epoch \in Nat /\ store.generation[p] \in Nat
        /\ store.preference[p].epoch <= store.epoch
        /\ store.preference[p].policyGeneration <= store.generation[p]
    BY <1>2 DEF StoreTyped, StoredPast, RoutingPreference
  <2>2. preference'[p] = RecoveredPreference(store, p)
    BY DEF Recover
  <2>3. CASE store.lifecycle[p] = Absent
    BY <1>1, <1>3, <2>1, <2>2, <2>3 DEF RecoveredPreference, NoPreference
  <2>4. CASE store.lifecycle[p] # Absent
    <3>1. /\ preference'[p].epoch = store.preference[p].epoch
          /\ preference'[p].policyGeneration = store.preference[p].policyGeneration
      BY <2>1, <2>2, <2>4 DEF RecoveredPreference, RoutingPreference
    <3> QED
      BY <1>1, <1>3, <2>1, <3>1
  <2> QED
    BY <2>3, <2>4
<1>6. TimingInv'
  <2>1. RecordsThePast'
    BY <1>4, <1>5 DEF RecordsThePast, AbsentHasNothing
  <2>2. TimersArmed'
    BY <1>5 DEF TimersArmed, SameRules
  <2> QED
    BY <1>4, <2>1, <2>2 DEF TimingInv
<1>7. ASSUME NEW p \in Policies, NEW i \in DOMAIN history'[p]
      PROVE  history'[p][i].epoch <= epoch' /\ history'[p][i].epoch # epoch'
  <2>1. history'[p] = RecoveredHistory(store, p)
    BY DEF Recover
  <2>2. history'[p][i].epoch <= store.epoch
    BY <1>2, <1>7, <2>1, RecoveredHistoryPast
  <2>3. history'[p][i].epoch \in Nat
    <3>1. history'[p] \in Seq(AdaptationRecord)
      BY <1>2, <2>1, RecoveredHistoryType
    <3>2. history'[p][i] \in AdaptationRecord
      BY <1>7, <3>1, LenProperties
    <3> QED
      BY <3>2 DEF AdaptationRecord
  <2> QED
    BY <1>1, <1>3, <2>2, <2>3
<1>8. HistoryIsPast' /\ ChurnRemembered'
  BY <1>7 DEF HistoryIsPast, ChurnRemembered, Remembered, Distinct, Counts
<1>9. \A p \in Policies : StoredPast(p)'
  BY <1>1, <1>2 DEF StoredPast
<1> QED
  BY <1>6, <1>8, <1>9 DEF PastInv, ChurnInv

LEMMA PastStep == PastInv /\ [RecoveryNext]_recoveryVars => PastInv'
<1> SUFFICES ASSUME PastInv, [RecoveryNext]_recoveryVars PROVE PastInv'
  OBVIOUS
<1>1. RecoveryInv'
  BY RecoveryStep DEF PastInv
<1>2. ASSUME [Next]_vars, store' = store
      PROVE  PastInv'
  <2>1. ChurnInv'
    BY <1>2, ChurnStep DEF PastInv
  <2>2. store' # NoStore => \A p \in Policies : StoredPast(p)'
    BY <1>2 DEF PastInv, StoredPast
  <2> QED
    BY <1>1, <2>1, <2>2 DEF PastInv
<1>3. CASE EngineStep
  BY <1>2, <1>3 DEF EngineStep
<1>4. CASE Save
  BY <1>4, SavePast
<1>5. CASE Load \/ Restart
  BY <1>1, <1>5, RecoverPast DEF Load, Restart
<1>6. CASE UNCHANGED recoveryVars
  BY <1>2, <1>6 DEF recoveryVars
<1> QED
  BY <1>3, <1>4, <1>5, <1>6 DEF RecoveryNext

LEMMA PastInvariant == RecoverySpec => []PastInv
<1>1. Init /\ RecoveryInit => PastInv
  BY RecoveryStart, TimingInit
  DEF Init, RecoveryInit, PastInv, ChurnInv, HistoryIsPast, ChurnRemembered, NoPreference
<1> QED
  BY <1>1, PastStep, PTL DEF RecoverySpec

\* A step is one of the engine, or leaves it alone, or recovers every preference;
\* and a recovered preference is no ordinary move.
LEMMA RecoveryMoves ==
  ASSUME RecoveryInv, [RecoveryNext]_recoveryVars
  PROVE  \/ [Next]_vars
         \/ \A p \in Policies : preference'[p].cause # "TRIGGER_SATISFIED"
<1>1. ASSUME NEW clock, NEW held, Recover(clock, held), NEW p \in Policies
      PROVE  preference'[p].cause # "TRIGGER_SATISFIED"
  <2>1. preference'[p] = RecoveredPreference(store, p)
    BY <1>1 DEF Recover
  <2>2. store.preference[p] \in RoutingPreference
    BY <1>1 DEF RecoveryInv, StoreInv, StoreTyped, Recover
  <2> QED
    BY <2>1, <2>2 DEF RecoveredPreference, NoPreference, RoutingPreference
<1>2. CASE Load \/ Restart
  BY <1>1, <1>2 DEF Load, Restart
<1>3. CASE EngineStep \/ Save \/ UNCHANGED recoveryVars
  BY <1>3 DEF EngineStep, Save, recoveryVars
<1> QED
  BY <1>2, <1>3 DEF RecoveryNext

(***************************************************************************)
(* Whatever was saved and loaded before it, an ordinary adaptation to the  *)
(* displaced path waits for the whole hold-down armed by the commit it     *)
(* takes back, when both are of one epoch: apply_durable begins a new one, *)
(* so no timer of another process is taken for that of a commit made here. *)
(* (Across the restart the timers themselves are kept: GuardsSurvive-      *)
(* RestartCorrect.)                                                        *)
(***************************************************************************)
THEOREM RecoveredHoldDown == RecoverySpec => HoldDownRespected
<1>1. PastInv /\ [RecoveryNext]_recoveryVars => [\A p \in Policies : WaitsForHoldDown(p)]_vars
  BY RecoveryMoves, HoldDownStep DEF PastInv, ChurnInv, WaitsForHoldDown
<1> QED
  BY <1>1, PastInvariant, PTL DEF RecoverySpec, HoldDownRespected

(***************************************************************************)
(* Whatever was saved and loaded before it, after a move of this epoch no  *)
(* ordinary adaptation is committed before the cooldown that move armed    *)
(* has passed (verify_and_commit, apply_durable).                          *)
(***************************************************************************)
THEOREM RecoveredCooldown == RecoverySpec => CooldownRespected
<1>1. PastInv /\ [RecoveryNext]_recoveryVars => [\A p \in Policies : WaitsForCooldown(p)]_vars
  BY RecoveryMoves, CooldownStep DEF PastInv, ChurnInv, WaitsForCooldown
<1> QED
  BY <1>1, PastInvariant, PTL DEF RecoverySpec, CooldownRespected

\* No churn bound, neither of the engine nor of the store, is above what is remembered.
BoundsFit ==
  /\ RulesFit
  /\ store # NoStore => \A p \in Policies :
       store.lifecycle[p] # Absent => store.semantics[p].churnMax <= ChurnLimit

LEMMA BoundsFitStep ==
  RecoveryInv /\ BoundsFit /\ [UpdatesFit]_vars /\ [RecoveryNext]_recoveryVars => BoundsFit'
<1> SUFFICES ASSUME RecoveryInv, BoundsFit, [UpdatesFit]_vars, [RecoveryNext]_recoveryVars
             PROVE  BoundsFit'
  OBVIOUS
<1>0. TypeOK
  BY DEF RecoveryInv, CoreInv
<1>1. CASE EngineStep \/ UNCHANGED recoveryVars
  <2>1. [Next]_vars /\ store' = store
    BY <1>1 DEF EngineStep, recoveryVars
  <2> QED
    BY <1>0, <2>1, RulesFitStep DEF BoundsFit
<1>2. CASE Save
  <2>1. UNCHANGED <<lifecycle, semantics>>
    BY <1>2 DEF Save, vars, policyVars
  <2>2. store'.lifecycle = lifecycle /\ store'.semantics = semantics
    BY <1>2 DEF Save, DurableState
  <2> QED
    BY <2>1, <2>2 DEF BoundsFit, RulesFit
<1>3. ASSUME NEW clock, NEW held, Recover(clock, held)
      PROVE  BoundsFit'
  <2>1. store # NoStore /\ store' = store /\ semantics' = store.semantics
    BY <1>3 DEF Recover
  <2>2. \A p \in Policies : lifecycle'[p] = RecoveredLifecycle(store.lifecycle[p])
    BY <1>3 DEF Recover
  <2>3. \A p \in Policies : lifecycle'[p] # Absent => store.lifecycle[p] # Absent
    BY <2>2 DEF RecoveredLifecycle
  <2> QED
    BY <2>1, <2>3 DEF BoundsFit, RulesFit
<1>4. CASE Load \/ Restart
  BY <1>3, <1>4 DEF Load, Restart
<1> QED
  BY <1>1, <1>2, <1>4 DEF RecoveryNext

(***************************************************************************)
(* Whatever was saved and loaded, an ordinary adaptation never makes the   *)
(* moves of this epoch inside the declared window exceed the churn bound,  *)
(* unless an update carries a bound above the number of commits the engine *)
(* remembers (verify_and_commit, apply_durable).                           *)
(***************************************************************************)
THEOREM RecoveredChurn == RecoverySpec /\ [][UpdatesFit]_vars => ChurnBounded
<1>1. Init /\ RecoveryInit => BoundsFit
  BY DEF Init, RecoveryInit, BoundsFit, RulesFit
<1>2. PastInv /\ BoundsFit /\ [RecoveryNext]_recoveryVars
        => [\A p \in Policies : StaysInChurnBound(p)]_vars
  BY RecoveryMoves, ChurnBoundStep DEF PastInv, BoundsFit, StaysInChurnBound
<1> QED
  BY <1>1, <1>2, BoundsFitStep, RecoveryInvariant, PastInvariant, PTL
  DEF RecoverySpec, ChurnBounded

-----------------------------------------------------------------------------
(* Tickets and the reverse index across a recovery *)

(***************************************************************************)
(* The engine is not loaded while a ticket is out whose epoch was never    *)
(* saved.  Recover goes on with the successor of the epoch of the store, so*)
(* an epoch begun after the last save is begun again, and a ticket of its  *)
(* first life passes for one of its second.                                *)
(***************************************************************************)
LoadsSaved == Load => \A t \in tickets : t.epoch <= store.epoch

\* Every step of the engine and its store leaves the engine's own step, or a recovery.
LEMMA RecoveryEngine ==
  ASSUME [RecoveryNext]_recoveryVars
  PROVE  \/ [Next]_vars
         \/ \E clock, held : Recover(clock, held) /\ (held = {} \/ (Load /\ held = tickets))
<1>1. CASE EngineStep
  BY <1>1 DEF EngineStep
<1>2. CASE Save
  BY <1>2 DEF Save
<1>3. CASE Load
  BY <1>3 DEF Load
<1>4. CASE Restart
  <2>1. PICK clock \in Clocks : Recover(clock, {})
    BY <1>4 DEF Restart
  <2> QED
    BY <2>1
<1>5. CASE UNCHANGED recoveryVars
  BY <1>5 DEF recoveryVars
<1> QED
  BY <1>1, <1>2, <1>3, <1>4, <1>5 DEF RecoveryNext

\* A recovered engine binds nothing.
LEMMA RecoverBinds ==
  ASSUME NEW clock, NEW held, Recover(clock, held)
  PROVE  /\ IndexMatchesScan' /\ UndeclaredIsNothing' /\ EvidenceIsPast'
         /\ \A p \in Policies, x \in Paths : ~candidates'[p][x].declared
BY DEF Recover, IndexMatchesScan, UndeclaredIsNothing, EvidenceIsPast, NoCandidate, NoEvidence

(***************************************************************************)
(* Across saves, loads and restarts the reverse index finds every policy   *)
(* that binds a path and no other: apply_durable empties the index and the *)
(* candidates together.                                                    *)
(***************************************************************************)
THEOREM RecoveredIndex ==
  ASSUME SmallIndex PROVE RecoverySpec => []IndexMatchesScan
<1>1. Init => IndexMatchesScan
  BY DEF Init, IndexMatchesScan, NoCandidate
<1>2. RecoveryInv /\ IndexMatchesScan /\ [RecoveryNext]_recoveryVars => IndexMatchesScan'
  <2> SUFFICES ASSUME RecoveryInv, IndexMatchesScan, [RecoveryNext]_recoveryVars
               PROVE  IndexMatchesScan'
    OBVIOUS
  <2>1. CASE [Next]_vars
    BY <2>1, IndexStep DEF RecoveryInv, CoreInv
  <2> QED
    BY <2>1, RecoveryEngine, RecoverBinds
<1> QED
  BY <1>1, <1>2, RecoveryInvariant, PTL DEF RecoverySpec

\* A ticket that outlives a recovery belongs to an epoch that is past.
LEMMA RecoveredTickets ==
  ASSUME RecoveryInv, DecisionInv, LoadsSaved, NEW clock, NEW held,
         Recover(clock, held), held = {} \/ (Load /\ held = tickets)
  PROVE  /\ \A t \in tickets' : Tracked(t)'
         /\ \A t \in tickets' : Stands(t)'
<1>1. tickets' = held /\ epoch' = store.epoch + 1 /\ store # NoStore
  BY DEF Recover
<1>2. store.epoch \in Nat
  BY <1>1 DEF RecoveryInv, StoreInv, StoreTyped
<1>3. ASSUME NEW t \in tickets' PROVE t.epoch <= epoch' /\ t.epoch # epoch'
  <2>1. t \in tickets /\ t.epoch <= store.epoch
    BY <1>1, <1>3 DEF LoadsSaved
  <2>2. t.epoch \in Nat
    BY <2>1 DEF RecoveryInv, CoreInv, TypeOK, Ticket
  <2> QED
    BY <1>1, <1>2, <2>1, <2>2
<1> QED
  BY <1>3 DEF Tracked, Stands

LEMMA RecoveredDecisions ==
  ASSUME Fenced
  PROVE  RecoveryInv /\ RecoveryInv' /\ DecisionInv /\ [RecoveryNext]_recoveryVars
           /\ [LoadsSaved]_recoveryVars => DecisionInv'
<1> SUFFICES ASSUME RecoveryInv, RecoveryInv', DecisionInv, [RecoveryNext]_recoveryVars,
                    [LoadsSaved]_recoveryVars
             PROVE  DecisionInv'
  OBVIOUS
<1>1. CASE [Next]_vars
  BY <1>1, DecisionStep
<1>2. CASE UNCHANGED recoveryVars
  BY <1>1, <1>2 DEF recoveryVars
<1>3. ASSUME LoadsSaved, NEW clock, NEW held, Recover(clock, held),
             held = {} \/ (Load /\ held = tickets)
      PROVE  DecisionInv'
  BY <1>3, RecoverBinds, RecoveredTickets DEF RecoveryInv, DecisionInv, FenceInv
<1> QED
  BY <1>1, <1>2, <1>3, RecoveryEngine

LEMMA RecoveredDecisionInv ==
  ASSUME Fenced PROVE RecoverySpec /\ [][LoadsSaved]_recoveryVars => []DecisionInv
<1>1. Init => DecisionInv
  BY FenceInit DEF Init, DecisionInv, EvidenceIsPast, NoEvidence
<1> QED
  BY <1>1, RecoveredDecisions, RecoveryInvariant, PTL DEF RecoverySpec

(***************************************************************************)
(* Across recoveries, too, a ticket that passes the checks describes the   *)
(* present, if nothing is loaded while a ticket of an unsaved epoch is out:*)
(* every other ticket belongs to an epoch the recovery has left behind     *)
(* (apply_durable).                                                        *)
(***************************************************************************)
THEOREM RecoveredSnapshot ==
  ASSUME Fenced, "ADVANCE_WEIGHT_POLICY" \notin Events,
         "CLEAR_HARD_FAILURE_SIGNAL" \notin Events
  PROVE  RecoverySpec /\ [][LoadsSaved]_recoveryVars => []SnapshotIsPresent
<1>1. DecisionInv => SnapshotIsPresent
  BY FencePresent DEF DecisionInv
<1> QED
  BY <1>1, RecoveredDecisionInv, PTL

(***************************************************************************)
(* Across recoveries, too, the two phases of an evaluation are one         *)
(* decision: what a commit installs leads the ranking of what the engine   *)
(* holds, for the reason the policy gives (apply_durable,                  *)
(* commit_evaluation).                                                     *)
(***************************************************************************)
THEOREM RecoveredDecision ==
  ASSUME Fenced, "CLEAR_HARD_FAILURE_SIGNAL" \notin Events
  PROVE  RecoverySpec /\ [][LoadsSaved]_recoveryVars => CommitsTheDecision
<1>1. DecisionInv =>
        [\A t \in tickets : CommitEvaluation(t) =>
           \E clock \in 0..now :
             /\ LeadsAt(t.policy, t.target, clock)
             /\ t.adaptation = preference[t.policy].adaptation
                => ReasonAt(t.policy, t.target, clock)]_vars
  BY CommitReasoned
<1> QED
  BY <1>1, RecoveredDecisionInv, PTL DEF CommitsTheDecision

(***************************************************************************)
(* Across recoveries, too, a verdict withdrawn for one policy moves the    *)
(* path watermark of every policy that binds the path and of no other: a   *)
(* recovery withdraws nothing, as it leaves nothing declared               *)
(* (apply_invalidation, apply_durable).                                    *)
(***************************************************************************)
THEOREM RecoveredInvalidation ==
  ASSUME Fenced PROVE RecoverySpec => InvalidationIsTargeted
<1>1. RecoveryInv /\ IndexMatchesScan /\ [RecoveryNext]_recoveryVars =>
        [\A p \in Policies, x \in Paths : Withdraws(p, x) =>
           \A q \in Policies, y \in Paths :
             candidates'[q][y].watermark # candidates[q][y].watermark
               <=> y = x /\ candidates[q][x].declared]_vars
  <2> SUFFICES ASSUME RecoveryInv, IndexMatchesScan, [RecoveryNext]_recoveryVars,
                      NEW p \in Policies, NEW x \in Paths, Withdraws(p, x), vars' # vars,
                      NEW q \in Policies, NEW y \in Paths
               PROVE  candidates'[q][y].watermark # candidates[q][y].watermark
                        <=> y = x /\ candidates[q][x].declared
    OBVIOUS
  <2>1. CASE [Next]_vars
    BY <2>1, TargetedStep DEF RecoveryInv, CoreInv
  <2>2. CASE ~[Next]_vars
    <3>1. ~candidates'[p][x].declared
      BY <2>2, RecoveryEngine, RecoverBinds
    <3> QED
      BY <3>1 DEF Withdraws
  <2> QED
    BY <2>1, <2>2
<1>2. SmallIndex
  BY DEF Fenced
<1> QED
  BY <1>1, <1>2, RecoveredIndex, RecoveryInvariant, PTL DEF RecoverySpec, InvalidationIsTargeted
=============================================================================
