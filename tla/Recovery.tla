------------------------------ MODULE Recovery ------------------------------
(***************************************************************************)
(* The decision engine and its durable state: what save writes of a policy *)
(* (build_durable), what load makes of it (apply_durable), and what the    *)
(* engine does when it goes on from there.                                 *)
(*                                                                         *)
(* load is called by a new process, whose monotonic clock starts anywhere  *)
(* and whose callers hold nothing, or by a running one, whose callers keep *)
(* the tickets they have.  The file and its replacement are StoreFile's;   *)
(* here the store holds what the last save wrote.                          *)
(***************************************************************************)
EXTENDS AdaptationProperties, FiniteSetsExt

CONSTANTS
  ConservativeRecovery, \* EngineConfig::conservative_recovery
  DecisionLimit,        \* Limits: max_decision_history
  Clocks,               \* bound: where the clock of a new process may start
  MaxRecoveries         \* bound: how often load succeeds

ASSUME RecoveryAssumption ==
  /\ ConservativeRecovery \in BOOLEAN /\ DecisionLimit \in Nat
  /\ Clocks \subseteq Nat /\ MaxRecoveries \in Nat

(***************************************************************************)
(* wall and armed are no state of the program.  wall is the time that      *)
(* passes for everybody, however often the process restarts; armed[p] says *)
(* in wall time until when the timers of p were armed and when each entry  *)
(* of churn_commits was made, as of the move that did it.                  *)
(***************************************************************************)
VARIABLES
  store,       \* the DurableState of the last save, or NoStore
  recoveries,  \* how often load succeeded
  wall, armed

recoveryVars == <<vars, store, recoveries, wall, armed>>

NoStore == [epoch |-> 0]
NotArmed == [holdDown |-> 0, cooldown |-> 0, churn |-> <<>>]

-----------------------------------------------------------------------------
(* build_durable *)

\* What is left of a deadline; nothing once it has passed.
Remaining(active, deadline) ==
  IF active /\ deadline > now THEN deadline - now ELSE 0

\* Times are written as durations: a tick means nothing in another process.
DurableTiming(t) ==
  [holdDownActive |-> t.holdDownActive /\ t.holdDownDeadline > now,
   holdDownRemaining |-> Remaining(t.holdDownActive, t.holdDownDeadline),
   cooldownActive |-> t.cooldownActive /\ t.cooldownDeadline > now,
   cooldownRemaining |-> Remaining(t.cooldownActive, t.cooldownDeadline),
   penalty |-> t.penalty,
   decayRemaining |-> Remaining(TRUE, t.lastDecay),
   churnAges |-> [i \in DOMAIN t.churn |->
                    IF now >= t.churn[i] THEN now - t.churn[i] ELSE 0]]

\* Candidates, evidence, the index and tickets are not written.
DurableState ==
  [epoch |-> epoch, authority |-> authority,
   evidenceGeneration |-> evidenceGeneration,
   evidenceWatermark |-> evidenceWatermark,
   lifecycle |-> lifecycle, generation |-> generation, semantics |-> semantics,
   preference |-> preference, stable |-> stable, history |-> history,
   timing |-> [p \in Policies |-> DurableTiming(timing[p])],
   revocations |-> revocations, armed |-> armed]

Save ==
  /\ store' = DurableState
  /\ UNCHANGED <<vars, recoveries, wall, armed>>

-----------------------------------------------------------------------------
(* decode_durable_state and apply_durable *)

\* How many history records store s holds.
Records(s) == FoldSet(LAMBDA p, n : n + Len(s.history[p]), 0, Policies)

(***************************************************************************)
(* What the decoder asks of records the engine wrote: the counts and the   *)
(* penalty are within the limits, an established preference or anchor has  *)
(* a path generation.                                                      *)
(***************************************************************************)
Readable(s) ==
  /\ \A p \in Policies :
       /\ Len(s.timing[p].churnAges) <= ChurnLimit
       /\ s.timing[p].penalty <= PenaltyLimit
       /\ s.preference[p].established => s.preference[p].pathGeneration # 0
       /\ s.stable[p].established => s.stable[p].pathGeneration # 0
  /\ Cardinality(s.revocations) <= RevocationLimit
  /\ Records(s) <= DecisionLimit

\* Seeded fault: a remainder is taken for the deadline it was left of.
RearmedAtRemainder(t, clock) ==
  [holdDownActive |-> t.holdDownActive,
   holdDownDeadline |-> t.holdDownRemaining,
   cooldownActive |-> t.cooldownActive,
   cooldownDeadline |-> t.cooldownRemaining,
   penalty |-> t.penalty, lastDecay |-> t.decayRemaining,
   churn |-> [i \in DOMAIN t.churnAges |->
                IF clock >= t.churnAges[i] THEN clock - t.churnAges[i] ELSE 0]]

\* Seeded fault: an adaptation older than the clock of the process is dropped.
RearmedWithoutOld(t, clock) ==
  [holdDownActive |-> t.holdDownActive,
   holdDownDeadline |-> clock + t.holdDownRemaining,
   cooldownActive |-> t.cooldownActive,
   cooldownDeadline |-> clock + t.cooldownRemaining,
   penalty |-> t.penalty, lastDecay |-> clock + t.decayRemaining,
   churn |-> SelectSeq([i \in DOMAIN t.churnAges |-> clock - t.churnAges[i]],
                       LAMBDA at : at >= 0)]

\* The timers of a recovered policy, against the clock of this process.
Rearmed(t, clock) ==
  [holdDownActive |-> t.holdDownActive,
   holdDownDeadline |-> clock + t.holdDownRemaining,
   cooldownActive |-> t.cooldownActive,
   cooldownDeadline |-> clock + t.cooldownRemaining,
   penalty |-> t.penalty, lastDecay |-> clock + t.decayRemaining,
   churn |-> [i \in DOMAIN t.churnAges |->
                IF clock >= t.churnAges[i] THEN clock - t.churnAges[i] ELSE 0]]

\* A policy in service must be revalidated; a terminal one stays as it is.
RecoveredLifecycle(state) ==
  IF ConservativeRecovery /\ state \notin Terminal \union {Absent}
  THEN "REVALIDATION_REQUIRED" ELSE state

\* The preference is history; only the tick of its commit is taken over raw.
RecoveredPreference(s, p) ==
  IF s.lifecycle[p] = Absent THEN NoPreference
  ELSE [s.preference[p] EXCEPT !.cause = "RECOVERED"]

\* The ticks of the history are not written.
RecoveredHistory(s, p) ==
  Capped([i \in DOMAIN s.history[p] |-> [s.history[p][i] EXCEPT !.at = 0]],
         HistoryLimit)

(***************************************************************************)
(* apply_durable, on a State{} with the successors of the saved epoch and  *)
(* authority generation: no candidate, no evidence, an empty index.        *)
(***************************************************************************)
Recover(clock, held) ==
  /\ recoveries < MaxRecoveries
  /\ store # NoStore /\ Readable(store)
  /\ now' = clock
  /\ epoch' = store.epoch + 1 /\ authority' = store.authority + 1
  /\ evidenceGeneration' = store.evidenceGeneration
  /\ evidenceWatermark' = store.evidenceWatermark
  /\ evidence' = [x \in Paths |-> NoEvidence]
  /\ lifecycle' = [p \in Policies |-> RecoveredLifecycle(store.lifecycle[p])]
  /\ generation' = store.generation /\ semantics' = store.semantics
  /\ candidates' = [p \in Policies |-> [x \in Paths |-> NoCandidate]]
  /\ policiesByPath' = [x \in Paths |-> {}]
  /\ preference' = [p \in Policies |-> RecoveredPreference(store, p)]
  /\ stable' = store.stable
  /\ timing' = [p \in Policies |-> Rearmed(store.timing[p], clock)]
  /\ history' = [p \in Policies |-> RecoveredHistory(store, p)]
  /\ revocations' = store.revocations
  /\ tickets' = held
  /\ recoveries' = recoveries + 1
  /\ armed' = store.armed
  /\ UNCHANGED <<store, wall>>

\* load in a process that goes on: its clock and its callers' tickets stay.
Load == Recover(now, tickets)

\* The process ends and another one loads the store.
Restart == \E clock \in Clocks : Recover(clock, {})

-----------------------------------------------------------------------------
\* What the timers of p were armed for, after a step of the engine.  Each move of an
\* established preference appends to churn_commits, which may lose its oldest entries.
ArmedFor(p) ==
  LET t == timing'[p]
      moved == preference[p].established /\ preference'[p] # preference[p]
  IN
  IF ~moved /\ t = timing[p] THEN armed[p]
  ELSE [holdDown |-> IF t.holdDownActive THEN wall + t.holdDownDeadline - now ELSE 0,
        cooldown |-> IF t.cooldownActive THEN wall + t.cooldownDeadline - now ELSE 0,
        churn |-> Capped(Append(armed[p].churn, wall), Len(t.churn))]

EngineStep ==
  /\ Next
  /\ wall' = wall + (now' - now)
  /\ armed' = [p \in Policies |-> ArmedFor(p)]
  /\ UNCHANGED <<store, recoveries>>

RecoveryInit ==
  /\ store = NoStore /\ recoveries = 0 /\ wall = now
  /\ armed = [p \in Policies |-> NotArmed]

RecoveryNext == EngineStep \/ Save \/ Load \/ Restart

RecoverySpec == Init /\ RecoveryInit /\ [][RecoveryNext]_recoveryVars

-----------------------------------------------------------------------------
(* Properties *)

\* The entries of churn_commits that fall into the window of p, and the moves that
\* really do.
CountedMoves(p) == Cardinality(RecentCommits(p))
TrueMoves(p) ==
  Cardinality({i \in DOMAIN armed[p].churn :
                 wall - armed[p].churn[i] <= semantics[p].churnWindow})

(***************************************************************************)
(* persistence.hpp: re-arming can extend an interval but never shorten it. *)
(* However often the process was restarted, from whatever save and at      *)
(* whatever clock, a hold-down or cooldown runs at least as long as the    *)
(* move that armed it meant it to, and no move of the churn window is      *)
(* forgotten (build_durable, apply_durable).                               *)
(***************************************************************************)
RestartKeepsGuards ==
  \A p \in Policies :
    /\ wall < armed[p].holdDown =>
         /\ timing[p].holdDownActive
         /\ timing[p].holdDownDeadline - now >= armed[p].holdDown - wall
    /\ wall < armed[p].cooldown =>
         /\ timing[p].cooldownActive
         /\ timing[p].cooldownDeadline - now >= armed[p].cooldown - wall
    /\ CountedMoves(p) >= TrueMoves(p)

(***************************************************************************)
(* An ordinary adaptation, however many restarts lie between it and the    *)
(* move before it, waits for the cooldown, goes back only after the hold-  *)
(* down, and keeps the bound on moves, all in time as it passes outside    *)
(* the process (evaluate_inputs and verify_and_commit over recovered       *)
(* timers).                                                                *)
(***************************************************************************)
GuardsSurviveRestart ==
  [][\A p \in Policies :
       preference[p].established /\ preference'[p] # preference[p]
         /\ preference'[p].cause = "TRIGGER_SATISFIED"
       => /\ wall >= armed[p].cooldown
          /\ preference'[p].path = preference[p].previous => wall >= armed[p].holdDown
          /\ semantics[p].churnMax # 0 => TrueMoves(p) < semantics[p].churnMax]_recoveryVars

-----------------------------------------------------------------------------
(* What the documentation says and the code does not do *)

(***************************************************************************)
(* README, "Conservative recovery": every non-terminal policy becomes      *)
(* REVALIDATION_REQUIRED and returns to service only when revalidation     *)
(* actually succeeds.  A policy declared after the restart is not one of   *)
(* them (policy_transition, transition_policy).                            *)
(***************************************************************************)
ReturnsRevalidated ==
  [][\A p \in Policies :
       /\ recoveries # 0
       /\ lifecycle[p] \in {"REVALIDATION_REQUIRED", "SUSPENDED"}
       /\ lifecycle'[p] = "ACTIVE"
       => Revalidates(p)]_recoveryVars

(***************************************************************************)
(* README, "Conservative recovery": policies are recovered, with the last  *)
(* committed intent.  Whatever state the engine saves it can load again.   *)
(***************************************************************************)
StoreIsReadable == store # NoStore => Readable(store)
=============================================================================
