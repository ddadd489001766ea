----------------------------- MODULE MCFencing -------------------------------
(***************************************************************************)
(* Tickets, for TLC: what may happen between the two phases of an          *)
(* evaluation (Adaptation), how many evaluations run (Evaluations), and    *)
(* what a snapshot says of the preference they leave (Currentness).        *)
(***************************************************************************)
EXTENDS MCAdaptation, Evaluations, Currentness

(***************************************************************************)
(* The fencing run has three starts: one policy in service with two paths, *)
(* no policy yet and one path, or two policies that share two paths.  The  *)
(* evidence of the second path tells the second start from the others.     *)
(***************************************************************************)
StartedInService == evidence[2].known
Shared == \A p \in Policies : lifecycle[p] # Absent

SharedSemantics ==
  [BaseSemantics EXCEPT !.maxAge = 1, !.holdDown = 1, !.emergency = {"UNAVAILABLE"}]
FencingSemantics ==
  {BaseSemantics, [BaseSemantics EXCEPT !.target = 2, !.set = TRUE], SharedSemantics}
Moved == [Up EXCEPT !.generation = 2, !.current = FALSE]
FencingBindings ==
  {Up, Moved, [Up EXCEPT !.legal = FALSE, !.generation = 2, !.weighted = TRUE]}

\* What REDECLARE_CANDIDATE, ADVANCE_WEIGHT_POLICY and CLEAR_HARD_FAILURE_SIGNAL
\* look like: the events that move no watermark.  The redeclared run shows what
\* they do to a ticket in flight; they happen with none out, and take nothing away.
Unfenced(p, x) ==
  LET before == candidates[p][x]
      after == candidates'[p][x]
  IN  /\ before.declared /\ after.declared
      /\ before.watermark = after.watermark
      /\ before.binding # after.binding
      /\ \/ after.binding \in Bindings
         \/ before.binding.weighted # after.binding.weighted
         \/ before.binding.hardFailure /\ ~after.binding.hardFailure

\* How often something a ticket depends on has moved since the start.
Changes(p) ==
  (epoch - 1) + (generation[p] - 1) + (evidenceGeneration - 1 - Cardinality(Paths))
    + candidates[p][1].watermark + candidates[p][2].watermark

\* A policy in service sees two such changes in any order and with any steps between
\* them; it is not suspended, and a path that is declared again has meanwhile moved.
ServiceStep ==
  \A p \in Policies :
    /\ Changes(p)' <= 2
    /\ lifecycle'[p] \in {"ACTIVE", "REVALIDATION_REQUIRED", "RETIRED", Absent}
    /\ \A x \in Paths :
         LET binding == candidates'[p][x].binding IN
         /\ candidates'[p][x].declared => binding.legal \/ binding.generation = 2
         /\ ~candidates[p][x].declared /\ candidates'[p][x].declared => binding = Moved

\* From the beginning: one path, one publication, one adaptation, and
\* two of the changes above.
SetUpStep ==
  /\ evidenceGeneration' <= 2
  /\ \A p \in Policies :
       /\ ~candidates'[p][2].declared
       /\ lifecycle'[p] # Absent => Changes(p)' + Cardinality(Paths) <= 2
       /\ preference'[p].adaptation <= 2
       /\ candidates'[p][1].binding.generation = 2 => ~candidates'[p][1].binding.legal

\* The candidates of all policies that were declared and are not up.
Failed == {<<p, x>> \in Policies \X Paths : candidates[p][x].binding # Up}

\* Two policies: a path fails or is invalidated, the worse path gets better, time
\* passes, and the more of it the fewer paths fail.  A ticket for a suppressed move is
\* left to the other starts.
SharedStep ==
  /\ evidenceWatermark' = 0 /\ epoch' = 1
  /\ lifecycle' = lifecycle /\ generation' = generation
  /\ evidence'[1].value # 1400 /\ evidence'[2] = evidence[2]
  /\ \A t \in tickets' : t.eligible
  /\ Cardinality(Failed') + now' <= 2
  /\ candidates' # candidates =>
       \E p \in Policies, x \in Paths : LET binding == candidates[p][x].binding IN
         /\ candidates'[p][x].binding # binding
         /\ candidates'[p][x].binding \in
              {[binding EXCEPT !.available = FALSE], [binding EXCEPT !.legal = FALSE]}

\* One policy, whose metric gets worse or stays.
AloneStep ==
  /\ now' = 0
  /\ \A x \in Paths : evidence'[x].value # 400
  /\ \A p \in Policies :
       /\ preference'[p].adaptation <= 3
       /\ lifecycle'[p] # Absent => semantics'[p] # SharedSemantics
  /\ \E p \in Policies : lifecycle'[p] = Absent
  /\ IF StartedInService THEN ServiceStep ELSE SetUpStep

\* A policy within a multipath set whose metric is required, or neither.
MCTargets ==
  {[multipath |-> TRUE, required |-> TRUE, maxAge |-> 0, holdDown |-> 1, cooldown |-> 0],
   [multipath |-> FALSE, required |-> FALSE, maxAge |-> 0, holdDown |-> 0, cooldown |-> 1]}

Declared ==
  [authority |-> 1, legal |-> TRUE, route |-> TRUE, available |-> TRUE,
   set |-> [generation |-> 1, current |-> TRUE, member |-> TRUE]]

MCFacts ==
  {Declared, [Declared EXCEPT !.authority = 2, !.set.generation = 2],
   [Declared EXCEPT !.set.member = FALSE]}

\* Everything happens to the first path; the second is declared and observed once,
\* and the preference moves when it is.
CurrentnessStep ==
  /\ CurrentnessNext
  /\ record'.candidates[2] \in {Undeclared, Declared}
  /\ observed'[2] \in {Never, 0}
  /\ record'.preference # record.preference => record.candidates[2] = Declared
  /\ LET binding == record'.candidates[1] IN
       IF record.target.multipath THEN binding.set.generation <= binding.authority
       ELSE binding.set \in {NoSet, Declared.set}
  /\ record'.lifecycle = "RETIRED" => record.preference.path = Nowhere

\* One slot is given back that nobody holds, by whichever of the two ways.
EvaluationsStep == EvaluationsNext /\ surplus' <= 1

AtRest == CurrentnessInit /\ record.target = CHOOSE target \in Targets : TRUE

\* One of the three components moves, and the two others rest where they start.
EngineStep ==
  /\ EvaluationsInit /\ AtRest
  /\ Next /\ UNCHANGED <<evaluationsVars, currentnessVars>>
  /\ \A p \in Policies, x \in Paths :
       Unfenced(p, x) => ~StartedInService /\ tickets = {} /\ ~Withdraws(p, x)
  /\ IF Shared THEN SharedStep ELSE AloneStep

FencingNext ==
  \/ EngineStep
  \/ Init /\ AtRest /\ EvaluationsStep /\ UNCHANGED <<vars, currentnessVars>>
  \/ Init /\ EvaluationsInit /\ CurrentnessStep /\ UNCHANGED <<vars, evaluationsVars>>

FencingInit ==
  /\ EvaluationsInit /\ CurrentnessInit
  /\ \/ \E p \in Policies : InService({p}, BaseSemantics, <<1000, 600>>)
     \/ Init
     \/ InService(Policies, SharedSemantics, <<1000, 600>>)
FencingSpec == FencingInit /\ [][FencingNext]_<<vars, evaluationsVars, currentnessVars>>

Symmetric == Permutations(Policies) \union Permutations(Callers)
=============================================================================
