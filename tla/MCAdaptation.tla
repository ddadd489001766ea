---------------------------- MODULE MCAdaptation ----------------------------
(* Finite instances of the decision engine. *)
EXTENDS AdaptationProperties, TLC

CONSTANTS P1, P2

\* README, "Hysteresis": 20 % to move, 30 % to move back.
BaseSemantics ==
  [target |-> 1, set |-> FALSE, priority |-> [x \in Paths |-> 0], maxAge |-> 9,
   thresholds |-> {}, improvements |-> {[switch |-> 2000, reverse |-> 3000]},
   holdDown |-> 0, cooldown |-> 0, dampening |-> FALSE, increment |-> 0,
   maxPenalty |-> 0, step |-> 0, cap |-> 0, decayInterval |-> 0,
   decayStep |-> 0, churnMax |-> 0, churnWindow |-> 0,
   emergency |-> EmergencyConditions]

Up == [generation |-> 1, legal |-> TRUE, current |-> TRUE, member |-> TRUE,
       available |-> TRUE, hardFailure |-> FALSE, weighted |-> FALSE]

(***************************************************************************)
(* A start that spares TLC the set-up: the policies of P created with s    *)
(* and activated, every path declared with Up for each of them, and        *)
(* evidence published for every path.  Spec reaches it by CreatePolicy,    *)
(* TransitionPolicy, ApplyUpstream and PublishEvidence.                    *)
(***************************************************************************)
InService(P, s, latency) ==
  /\ now = 0 /\ epoch = 1 /\ authority = 1
  /\ evidenceGeneration = 1 + Cardinality(Paths) /\ evidenceWatermark = 0
  /\ evidence = [x \in Paths |->
       [known |-> TRUE, value |-> latency[x], quality |-> 4, at |-> 0]]
  /\ lifecycle = [p \in Policies |-> IF p \in P THEN "ACTIVE" ELSE Absent]
  /\ generation = [p \in Policies |-> IF p \in P THEN 1 ELSE 0]
  /\ semantics = [p \in Policies |-> IF p \in P THEN s ELSE CHOOSE t \in Semantics : TRUE]
  /\ candidates = [p \in Policies |-> [x \in Paths |->
       IF p \in P THEN [declared |-> TRUE, binding |-> Up, watermark |-> 0] ELSE NoCandidate]]
  /\ policiesByPath = [x \in Paths |-> P]
  /\ preference = [p \in Policies |-> NoPreference]
  /\ stable = [p \in Policies |-> NoStable]
  /\ timing = [p \in Policies |-> NoTiming]
  /\ history = [p \in Policies |-> <<>>]
  /\ revocations = {}
  /\ tickets = {}

TimingSemantics ==
  [BaseSemantics EXCEPT
     !.holdDown = 2, !.cooldown = 1, !.dampening = TRUE, !.increment = 1,
     !.maxPenalty = 2, !.step = 1, !.cap = 3, !.decayInterval = 1,
     !.decayStep = 1, !.emergency = {"UNAVAILABLE"}]
CooldownSemantics == [BaseSemantics EXCEPT !.holdDown = 1, !.cooldown = 2]
ChurnSemantics ==
  [BaseSemantics EXCEPT !.churnMax = 2, !.churnWindow = 1,
                        !.emergency = {"UNAVAILABLE"}]
TimingSemanticsSet == {TimingSemantics, CooldownSemantics, ChurnSemantics}
OnlyUp == {Up}

\* The bounded histories of the timing run are not filled with suppressed
\* evaluations, which move nothing.
OnlyMovesAreRecorded ==
  \A p \in Policies :
    history'[p] # history[p] => history'[p][Len(history'[p])].kind # "SUPPRESSED"

OnlyBase == {BaseSemantics}
BaseSpec == InService(Policies, BaseSemantics, <<1000, 600>>) /\ [][Next]_vars
Down == [Up EXCEPT !.available = FALSE]
OnlyDown == {Down}
=============================================================================
