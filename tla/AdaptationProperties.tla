------------------------ MODULE AdaptationProperties ------------------------
(***************************************************************************)
(* What the decision engine promises, stated over the state of Adaptation. *)
(***************************************************************************)
EXTENDS Adaptation

(***************************************************************************)
(* The rollback anchor is the preference the current one displaced: it is  *)
(* the path the reverse hysteresis is measured against, never the current  *)
(* path, exactly one adaptation generation behind, and the establishing    *)
(* commit leaves none (verify_and_commit, rollback, update_policy).  So    *)
(* the NO_CHANGE branch of rollback is never taken.                        *)
(***************************************************************************)
AnchorIsDisplaced ==
  \A p \in Policies :
    /\ stable[p].established <=> preference[p].previous # NoPath
    /\ stable[p].established =>
         /\ preference[p].established
         /\ stable[p].path = preference[p].previous
         /\ stable[p].path # preference[p].path
         /\ stable[p].adaptation + 1 = preference[p].adaptation
    /\ preference[p].transition = preference[p].adaptation

(***************************************************************************)
(* A ticket that passes the checks of commit_evaluation describes the      *)
(* present: every binding and every evidence aggregate phase one read is   *)
(* still exactly what the engine holds, although phase two compares only   *)
(* generations, watermarks and Path Authority verdicts.                    *)
(***************************************************************************)
SnapshotIsPresent ==
  \A t \in tickets :
    TicketCurrent(t) /\ EvidenceCurrent(t) /\ ~DependencyDrift(t) =>
      /\ t.candidates = candidates[t.policy]
      /\ t.evidence = evidence

(***************************************************************************)
(* The reverse index answers what a scan of all policies would answer, so  *)
(* a targeted invalidation reaches every policy that binds the path        *)
(* (reindex_policy, unindex_policy, apply_invalidation).                   *)
(***************************************************************************)
IndexMatchesScan ==
  \A x \in Paths :
    policiesByPath[x] = {p \in Policies : candidates[p][x].declared}

(***************************************************************************)
(* A revoked, superseded or retired policy never adapts again and never    *)
(* leaves its state, whatever ticket is still in flight and whatever epoch *)
(* begins.                                                                 *)
(***************************************************************************)
TerminalIsFinal ==
  [][\A p \in Policies : lifecycle[p] \in Terminal =>
       /\ lifecycle'[p] = lifecycle[p]
       /\ generation'[p] = generation[p]
       /\ preference'[p] = preference[p]
       /\ stable'[p] = stable[p]
       /\ history'[p] = history[p]]_vars

\* The step replaces an established preference of p by another one.
Moves(p) ==
  /\ preference[p].established /\ preference'[p].established
  /\ preference'[p] # preference[p]

\* The timers of p run under the rules that armed them: no epoch advance and no
\* policy update since the current preference was committed.
SameRules(p) ==
  /\ preference[p].epoch = epoch
  /\ preference[p].policyGeneration = generation[p]

\* The hold-down the commit of the current preference of p armed.
ArmedHoldDown(p) ==
  IF preference[p].cause = "ROLLBACK_REQUESTED" THEN semantics[p].holdDown
  ELSE EffectiveHoldDown(semantics[p], timing[p].penalty)

\* An ordinary move of p back to the displaced path comes after the hold-down.
WaitsForHoldDown(p) ==
  /\ Moves(p) /\ SameRules(p)
  /\ preference'[p].cause = "TRIGGER_SATISFIED"
  /\ preference'[p].path = preference[p].previous
  => now >= preference[p].committedAt + ArmedHoldDown(p)

(***************************************************************************)
(* An ordinary adaptation back to the displaced path waits for the whole   *)
(* hold-down, dampening extension included, measured from the commit of    *)
(* the preference it abandons, however old its ticket is (both phases      *)
(* test the deadline; a commit and a rollback arm different durations).    *)
(***************************************************************************)
HoldDownRespected == [][\A p \in Policies : WaitsForHoldDown(p)]_vars

\* An ordinary move of p that follows another move comes after the cooldown.
WaitsForCooldown(p) ==
  /\ Moves(p) /\ SameRules(p)
  /\ preference'[p].cause = "TRIGGER_SATISFIED"
  /\ preference[p].previous # NoPath
  => now >= preference[p].committedAt + semantics[p].cooldown

(***************************************************************************)
(* After an adaptation or a rollback no ordinary adaptation in any         *)
(* direction is committed before the cooldown has passed (verify_and_commit*)
(* tests it again under the lock; a late ticket does not get round it).    *)
(***************************************************************************)
CooldownRespected == [][\A p \in Policies : WaitsForCooldown(p)]_vars

\* Moves recorded in the history h of p in this epoch, inside the churn window
\* ending now, since the preference was last established.
RecentMoves(p, h) ==
  {i \in DOMAIN h :
     /\ h[i].kind \in {"COMMITTED", "ROLLED_BACK"}
     /\ h[i].epoch = epoch
     /\ now - h[i].at <= semantics[p].churnWindow
     /\ \A j \in DOMAIN h :
          j >= i => h[j].kind = "SUPPRESSED" \/ h[j].from # NoPath}

\* An ordinary move of p leaves no more than churnMax moves in the window.
StaysInChurnBound(p) ==
  /\ Moves(p) /\ preference'[p].cause = "TRIGGER_SATISFIED"
  /\ semantics[p].churnMax # 0
  => Cardinality(RecentMoves(p, history'[p])) <= semantics[p].churnMax

(***************************************************************************)
(* An ordinary adaptation never makes the moves inside the declared window *)
(* (rollbacks and emergency moves included) exceed the churn bound.        *)
(***************************************************************************)
ChurnBounded == [][\A p \in Policies : StaysInChurnBound(p)]_vars

(***************************************************************************)
(* However old its ticket, an adaptation never installs a path that is not *)
(* legal, route-current, available and, for a multipath target, a member   *)
(* of the set at the moment of the commit (evaluate_inputs decides this,   *)
(* verify_and_commit looks at the Path Authority verdict alone).           *)
(***************************************************************************)
AdaptsToUsablePath ==
  [][\A p \in Policies :
       preference'[p].adaptation > preference[p].adaptation
       => Usable(p, preference'[p].path)]_vars

\* The candidates of p that phase one would find eligible at the tick clock.
EligibleAt(p, clock) ==
  {x \in Paths : Usable(p, x) /\ evidence[x].known
                   /\ clock - evidence[x].at <= semantics[p].maxAge}

\* x heads the ranking of p at the tick clock, with every sample received by then.
LeadsAt(p, x, clock) ==
  /\ \A y \in Paths : evidence[y].known => evidence[y].at <= clock
  /\ x \in EligibleAt(p, clock)
  /\ \A y \in EligibleAt(p, clock) \ {x} : RanksAhead(p, x, y)

\* The policy gives p a reason to move from its preference to x.
ReasonAt(p, x, clock) ==
  IF preference[p].established
  THEN \/ EmergencyHolds(p)
       \/ /\ preference[p].path \in EligibleAt(p, clock)
          /\ ~Suppressed(p, x)
          /\ DeparturePermitted(p, preference[p].path)
          /\ EntryPermitted(p, x)
          /\ ImprovementMet(p, preference[p].path, x)
  ELSE EntryPermitted(p, x)

(***************************************************************************)
(* The two phases are one decision.  What a commit installs leads the      *)
(* ranking of the bindings and evidence the engine holds at the commit; and*)
(* unless another move came between the phases, the policy still gives the *)
(* same reason to move there.  Only the age of the evidence may be that of *)
(* an earlier tick since the newest sample: evaluate_inputs tests it,      *)
(* commit_evaluation does not.                                             *)
(***************************************************************************)
CommitsTheDecision ==
  [][\A t \in tickets : CommitEvaluation(t) =>
       \E clock \in 0..now :
         /\ LeadsAt(t.policy, t.target, clock)
         /\ t.adaptation = preference[t.policy].adaptation
            => ReasonAt(t.policy, t.target, clock)]_vars

\* The step takes a verdict in favour of path x away from policy p.
Withdraws(p, x) ==
  LET before == candidates[p][x].binding
      after == candidates'[p][x].binding
  IN /\ candidates[p][x].declared /\ candidates'[p][x].declared
     /\ \/ before.legal /\ ~after.legal
        \/ before.current /\ ~after.current
        \/ before.available /\ ~after.available
        \/ before.member /\ ~after.member

(***************************************************************************)
(* A fact withdrawn for one policy fences the tickets of every policy that *)
(* binds the path, and of no other: exactly their watermarks move          *)
(* (apply_invalidation, driven by the reverse index).                      *)
(***************************************************************************)
InvalidationIsTargeted ==
  [][\A p \in Policies, x \in Paths : Withdraws(p, x) =>
       \A q \in Policies, y \in Paths :
         candidates'[q][y].watermark # candidates[q][y].watermark
           <=> y = x /\ candidates[q][x].declared]_vars

(***************************************************************************)
(* Between all policies, the adaptations whose hold-down is still running  *)
(* never exceed max_pending_transitions, an adaptation after a rollback    *)
(* included (verify_and_commit; a rollback itself is not held back).       *)
(***************************************************************************)
PendingBounded ==
  Cardinality({p \in Policies :
    /\ timing[p].holdDownActive
    /\ now < timing[p].holdDownDeadline
    /\ preference[p].cause # "ROLLBACK_REQUESTED"}) <= PendingLimit

-----------------------------------------------------------------------------
(* What the documentation says and the code does not do *)

(***************************************************************************)
(* README, "Two-phase evaluation": two tickets taken from the same state   *)
(* cannot both advance the adaptation generation.  No ticket commits when  *)
(* a commit from its adaptation generation is already in the history.      *)
(***************************************************************************)
OneAdvancePerState ==
  [][\A t \in tickets : CommitEvaluation(t) =>
       ~ \E i \in DOMAIN history[t.policy] :
           /\ history[t.policy][i].kind = "COMMITTED"
           /\ history[t.policy][i].adaptation = t.adaptation + 1]_vars
=============================================================================
