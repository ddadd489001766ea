----------------------------- MODULE Currentness -----------------------------
(***************************************************************************)
(* The verdict a snapshot gives on a policy, CURRENT or why not, against   *)
(* what evaluate_inputs would say of its preferred path at that moment.    *)
(* The code works both out from the same record, in two places.            *)
(*                                                                         *)
(* One policy with one metric, under the operations that change its        *)
(* record, update_policy apart.  What leads to a commit is in module       *)
(* Adaptation; here any candidate may be committed that a ticket may       *)
(* name.  Route generations and the hard-failure signal are left out,      *)
(* which neither side reads.                                               *)
(***************************************************************************)
EXTENDS Integers, Sequences

CONSTANTS
  Candidates,   \* the PathId values of its candidates
  Targets,      \* what create_policy declares: PolicySemantics
  Facts,        \* the CandidateBinding values a notification may carry
  MaxTicks, MaxEpochs   \* bounds: the clock, the coordinator epoch

VARIABLES
  record,            \* PolicyRecord
  observed,          \* path -> when its newest sample was accepted; Never
  ticks,             \* the monotonic clock
  coordinatorEpoch   \* State::epoch

currentnessVars == <<record, observed, ticks, coordinatorEpoch>>

Never == -1
Nowhere == 0

NoSet == [generation |-> 0, current |-> FALSE, member |-> FALSE]
Undeclared ==
  [authority |-> 0, legal |-> FALSE, route |-> FALSE, set |-> NoSet, available |-> FALSE]

\* PolicySemantics, CandidateBinding: an undeclared candidate has authority 0, and
\* no well-formed binding does.
PolicyTarget ==
  [multipath : BOOLEAN, required : BOOLEAN, maxAge : Nat, holdDown : Nat, cooldown : Nat]
BindingFact ==
  [authority : Nat, legal : BOOLEAN, route : BOOLEAN, available : BOOLEAN,
   set : [generation : Nat, current : BOOLEAN, member : BOOLEAN]]

ASSUME CandidatesAssumption == Nowhere \notin Candidates
ASSUME TargetsAssumption == \A target \in Targets : target \in PolicyTarget
ASSUME FactsAssumption == \A fact \in Facts : fact \in BindingFact /\ fact.authority # 0

CurrentnessInit ==
  /\ \E target \in Targets : record =
       [target |-> target, lifecycle |-> "ACTIVE", epoch |-> 1,
        candidates |-> [x \in Candidates |-> Undeclared],
        preference |-> [path |-> Nowhere, authority |-> 0, set |-> 0],
        stable |-> Nowhere, holdDown |-> 0, cooldown |-> 0]
  /\ observed = [x \in Candidates |-> Never]
  /\ ticks = 0 /\ coordinatorEpoch = 1

-----------------------------------------------------------------------------
(* evaluate_inputs *)

MayCarry(x) ==
  LET binding == record.candidates[x] IN
  /\ binding.legal /\ binding.route /\ binding.available
  /\ record.target.multipath => binding.set.current /\ binding.set.member

FreshlyObserved(x) ==
  observed[x] # Never /\ ticks - observed[x] <= record.target.maxAge

\* The metric is a term of the objective, so it is needed, required or not.
IsEligible(x) == MayCarry(x) /\ FreshlyObserved(x)

-----------------------------------------------------------------------------
(* The operations *)

\* apply_upstream: what a notification makes of a binding.
Renewed(old) ==
  IF old = Undeclared THEN {fact \in Facts : fact.legal}
  ELSE Facts
    \cup {[old EXCEPT !.authority = fact.authority, !.legal = fact.legal] :
            fact \in {f \in Facts : f.authority > old.authority}}
    \cup {[old EXCEPT !.authority = fact.authority, !.legal = FALSE] : fact \in Facts}
    \cup {[old EXCEPT !.set = fact.set] : fact \in Facts}
    \cup {[old EXCEPT !.set.current = FALSE]}
    \cup {[old EXCEPT !.route = current] : current \in BOOLEAN}
    \cup {[old EXCEPT !.available = up] : up \in BOOLEAN}

Notify(x, binding) ==
  /\ record.lifecycle \notin {"REVOKED", "RETIRED"}
  /\ binding \in Renewed(record.candidates[x])
  /\ record' = [record EXCEPT !.candidates[x] = binding]
  /\ UNCHANGED <<observed, ticks, coordinatorEpoch>>

\* publish_evidence, which does not ask whether the path is a candidate.
Observe(x) ==
  /\ observed' = [observed EXCEPT ![x] = ticks]
  /\ UNCHANGED <<record, ticks, coordinatorEpoch>>

\* The deadline of a timer armed now; zero when the policy declares none.
Deadline(duration) == IF duration = 0 THEN 0 ELSE ticks + duration

\* verify_and_commit and rollback: x displaces the preference, and the timers are
\* armed unless there was none.  A set generation stays if the target has no set.
MovedTo(x) ==
  LET first == record.preference.path = Nowhere
      set == record.candidates[x].set.generation
  IN  [record EXCEPT
         !.preference = [path |-> x, authority |-> record.candidates[x].authority,
                         set |-> IF set = 0 THEN @.set ELSE set],
         !.stable = record.preference.path,
         !.holdDown = IF first THEN @ ELSE Deadline(record.target.holdDown),
         !.cooldown = IF first THEN @ ELSE Deadline(record.target.cooldown)]

\* What phase two looks at again.  A ticket that waited may name a path that was
\* declared again, or rest on evidence that is too old by now.
CommitTo(x) ==
  /\ record.lifecycle = "ACTIVE"
  /\ record.candidates[x].legal /\ observed[x] # Never
  /\ x # record.preference.path
  /\ record' = MovedTo(x)
  /\ UNCHANGED <<observed, ticks, coordinatorEpoch>>

RollBack ==
  /\ record.lifecycle = "ACTIVE"
  /\ record.stable # Nowhere /\ MayCarry(record.stable)
  /\ record' = MovedTo(record.stable)
  /\ UNCHANGED <<observed, ticks, coordinatorEpoch>>

\* transition_policy and revoke_policy, from one lifecycle to another.
Transitions ==
  {<<"ACTIVE", "SUSPENDED">>, <<"ACTIVE", "REVALIDATION_REQUIRED">>,
   <<"SUSPENDED", "ACTIVE">>, <<"SUSPENDED", "REVALIDATION_REQUIRED">>,
   <<"REVALIDATION_REQUIRED", "SUSPENDED">>, <<"REVALIDATION_REQUIRED", "ACTIVE">>}
    \cup {"ACTIVE", "SUSPENDED", "REVALIDATION_REQUIRED"} \X {"REVOKED", "RETIRED"}

\* Seeded fault: a policy keeps the epoch in which it was created.
BroughtToOldEpoch(lifecycle) == [record EXCEPT !.lifecycle = lifecycle]

BroughtTo(lifecycle) ==
  [record EXCEPT !.lifecycle = lifecycle, !.epoch = coordinatorEpoch]

Transition(lifecycle) ==
  /\ <<record.lifecycle, lifecycle>> \in Transitions
  /\ record.lifecycle = "REVALIDATION_REQUIRED" /\ lifecycle = "ACTIVE" =>
       \E x \in Candidates : LET binding == record.candidates[x] IN
         binding.legal /\ binding.route /\ binding.available
  /\ record' = BroughtTo(lifecycle)
  /\ UNCHANGED <<observed, ticks, coordinatorEpoch>>

NextEpoch ==
  /\ coordinatorEpoch < MaxEpochs
  /\ coordinatorEpoch' = coordinatorEpoch + 1
  /\ record' = [record EXCEPT
       !.holdDown = 0, !.cooldown = 0,
       !.lifecycle = IF @ \in {"REVOKED", "RETIRED"} THEN @ ELSE "REVALIDATION_REQUIRED"]
  /\ UNCHANGED <<observed, ticks>>

PassTime ==
  /\ ticks < MaxTicks
  /\ ticks' = ticks + 1
  /\ UNCHANGED <<record, observed, coordinatorEpoch>>

CurrentnessNext ==
  \/ \E x \in Candidates : \E binding \in Renewed(record.candidates[x]) : Notify(x, binding)
  \/ \E x \in Candidates : Observe(x) \/ CommitTo(x)
  \/ RollBack
  \/ \E lifecycle \in {"ACTIVE", "SUSPENDED", "REVALIDATION_REQUIRED", "REVOKED", "RETIRED"} :
       Transition(lifecycle)
  \/ NextEpoch
  \/ PassTime

CurrentnessSpec == CurrentnessInit /\ [][CurrentnessNext]_currentnessVars

-----------------------------------------------------------------------------
(* snapshot *)

Note(blocked, value) == IF blocked THEN <<value>> ELSE <<>>

PathBlockers(preference) ==
  LET binding == record.candidates[preference.path] IN
  IF binding = Undeclared THEN <<"REVALIDATION_REQUIRED">>
  ELSE Note(~binding.legal \/ binding.authority # preference.authority, "STALE_PATH_AUTHORITY")
    \o Note(~binding.route, "STALE_ROUTE")
    \o Note(/\ record.target.multipath
            /\ ~binding.set.current \/ binding.set.generation # preference.set,
            "STALE_MULTIPATH_SET")
    \o Note(~binding.available, "REVALIDATION_REQUIRED")

Blockers ==
  LET preference == record.preference
      established == preference.path # Nowhere
  IN  Note(record.lifecycle # "ACTIVE", "REVALIDATION_REQUIRED")
    \o Note(record.lifecycle = "REVOKED", "REVALIDATION_REQUIRED")
    \o Note(record.epoch # coordinatorEpoch, "STALE_EPOCH")
    \o (IF established THEN PathBlockers(preference) ELSE <<>>)
    \o Note(established /\ record.target.required /\ ~FreshlyObserved(preference.path),
            "STALE_EVIDENCE")
    \o Note(ticks < record.holdDown, "HOLD_DOWN_ACTIVE")
    \o Note(ticks < record.cooldown, "COOLDOWN_ACTIVE")

\* The first blocker that was noted.
Verdict == IF Blockers = <<>> THEN "CURRENT" ELSE Head(Blockers)

-----------------------------------------------------------------------------
(* Properties                                                               *)

\* What the verdict does not look at: a path that left its set while the set kept its
\* generation, and a metric that is not required and that the objective needs.
Overlooked(x) ==
  \/ record.target.multipath /\ ~record.candidates[x].set.member
  \/ ~record.target.required /\ ~FreshlyObserved(x)

\* Nothing happened to x since it was committed that moves a generation.
Kept(x) ==
  /\ record.candidates[x].authority = record.preference.authority
  /\ record.target.multipath => record.candidates[x].set.generation = record.preference.set

(***************************************************************************)
(* lifecycle.hpp: CURRENT alone is usable authority, and every other value *)
(* names a reason.  The path of a policy that is reported CURRENT would be *)
(* found eligible by an evaluation, but for the two cases of Overlooked;   *)
(* and a policy in service whose path is eligible and kept its generations *)
(* is not CURRENT only because of a timer, never because of its epoch.     *)
(***************************************************************************)
CurrentIsEligible ==
  LET x == record.preference.path IN x # Nowhere =>
    /\ Verdict = "CURRENT" => IsEligible(x) \/ Overlooked(x)
    /\ record.lifecycle = "ACTIVE" /\ IsEligible(x) /\ Kept(x) =>
         Verdict \in {"CURRENT", "HOLD_DOWN_ACTIVE", "COOLDOWN_ACTIVE"}
=============================================================================
