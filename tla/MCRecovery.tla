----------------------------- MODULE MCRecovery -----------------------------
(* Finite instances of the decision engine and its store. *)
EXTENDS MCAdaptation, Recovery

\* A dampened hold-down of two ticks with a cooldown of one, or one move a window.
RestartSemantics ==
  {[BaseSemantics EXCEPT
      !.holdDown = 1, !.cooldown = 1, !.dampening = TRUE, !.increment = 1,
      !.maxPenalty = 1, !.step = 1, !.cap = 2, !.decayInterval = 1,
      !.decayStep = 1],
   [BaseSemantics EXCEPT !.churnMax = 1, !.churnWindow = 1]}

\* Moves inside one process, or moves with a save and a restart between them.
TimingInit ==
  /\ \E s \in TimingSemanticsSet \union RestartSemantics : InService(Policies, s, <<1000, 600>>)
  /\ RecoveryInit
TimingSpec == TimingInit /\ [][RecoveryNext]_recoveryVars
AllTimingSemantics == TimingSemanticsSet \union RestartSemantics

\* No save: four ticks and three moves, or for the churn bound two ticks and four.
InOneProcess ==
  /\ \A p \in Policies :
       /\ semantics[p] \in TimingSemanticsSet
       /\ IF semantics[p] = ChurnSemantics
          THEN now <= 2 ELSE preference[p].adaptation <= 4
  /\ store = NoStore
  /\ evidenceGeneration <= 5

(***************************************************************************)
(* Two ticks, three moves and one restart.    The store is worth saving    *)
(* once a move has armed something, and not again when nothing will load   *)
(* it; no path fails, sources keep their incarnation, and path 2 gets      *)
(* better and never worse.                                                 *)
(***************************************************************************)
AcrossRestart ==
  /\ \A p \in Policies :
       /\ semantics[p] \in RestartSemantics
       /\ preference[p].adaptation <= 4
       /\ store # NoStore => store.preference[p].previous # NoPath
       /\ \A x \in Paths : candidates[p][x].watermark = 0
  /\ now <= 2
  /\ store # NoStore => store.epoch <= MaxRecoveries
  /\ evidenceWatermark = 0
  /\ evidence[2].value # 900

\* No time is spent on a ticket that phase two will refuse whatever else happens.
OnlyPresentable == \A t \in tickets : t.eligible /\ EvidenceCurrent(t)

TimingBounds == OnlyPresentable /\ (InOneProcess \/ AcrossRestart)

RestartInit ==
  /\ InService(Policies, [BaseSemantics EXCEPT !.churnMax = 1, !.churnWindow = 1], <<1000, 600>>)
  /\ RecoveryInit
RestartSpec == RestartInit /\ [][RecoveryNext]_recoveryVars
=============================================================================
