---------------------------- MODULE Evaluations ------------------------------
(***************************************************************************)
(* Callers of begin_evaluation, commit_evaluation and rollback, in the     *)
(* steps between which they interleave: the limit on evaluations is read   *)
(* before the lock is taken, the evaluation is counted after it is         *)
(* released, and IdFactory increments a plain integer, under the shared    *)
(* lock for the ids of the evaluation and of its evidence, under none for  *)
(* that of its decision.  What an evaluation reads and decides is in       *)
(* modules Adaptation and Ranking.                                         *)
(***************************************************************************)
EXTENDS Integers, Sequences, FiniteSets

CONSTANTS
  Callers,
  EvaluationLimit,   \* Limits: max_simultaneous_evaluations
  MaxDecisions,      \* bound: decisions, and so tickets
  MaxSettlements     \* bound: how often one ticket is committed

ASSUME EvaluationsAssumption ==
  /\ IsFiniteSet(Callers)
  /\ EvaluationLimit \in Nat \ {0} /\ MaxDecisions \in Nat /\ MaxSettlements \in Nat

VARIABLES
  outstanding,   \* outstanding_evaluations_
  counter,       \* IdFactory::counter_
  stage,         \* how far each caller is
  loaded,        \* what a caller in ++counter_ has loaded: at most one value
  issued,        \* history: the decisions with an id, and how often each was settled
  surplus        \* history: settlements of what was settled, or never begun

evaluationsVars == <<outstanding, counter, stage, loaded, issued, surplus>>

EvaluationsInit ==
  /\ outstanding = 0 /\ counter = 0
  /\ stage = [c \in Callers |-> "idle"] /\ loaded = [c \in Callers |-> <<>>]
  /\ issued = <<>> /\ surplus = 0

\* Who holds the lock: shared while the inputs are copied, exclusively in rollback.
Sharing == {c \in Callers : stage[c] \in {"evaluation", "evidence"}}
Excluding == {c \in Callers : stage[c] = "rollback"}

GoTo(c, next) == stage' = [stage EXCEPT ![c] = next]

\* Seeded fault: one evaluation more is let in.
BelowLimitOrAt(n) == n <= EvaluationLimit

BelowLimit(n) == n < EvaluationLimit

\* begin_evaluation: the limit, looked at and left alone.
Admit(c) ==
  /\ stage[c] = "idle" /\ BelowLimit(outstanding)
  /\ GoTo(c, "admitted")
  /\ UNCHANGED <<outstanding, counter, loaded, issued, surplus>>

\* The shared lock is taken and the request is refused, or its inputs are copied.
Inspect(c) ==
  /\ stage[c] = "admitted" /\ Excluding = {}
  /\ \E next \in {"idle", "evaluation"} : GoTo(c, next)
  /\ UNCHANGED <<outstanding, counter, loaded, issued, surplus>>

\* rollback takes the lock for itself and then an id for its decision.
BeginRollback(c) ==
  /\ stage[c] = "idle" /\ Sharing = {} /\ Excluding = {}
  /\ GoTo(c, "rollback")
  /\ UNCHANGED <<outstanding, counter, loaded, issued, surplus>>

\* The load of ++counter_.
LoadCounter(c) ==
  /\ stage[c] \in {"evaluation", "evidence", "decision", "rollback"}
  /\ loaded[c] = <<>>
  /\ loaded' = [loaded EXCEPT ![c] = <<counter>>]
  /\ UNCHANGED <<outstanding, counter, stage, issued, surplus>>

\* Where a caller goes with the id it took.
Following ==
  [evaluation |-> "evidence", evidence |-> "counting", decision |-> "idle",
   rollback |-> "idle"]

\* The store of ++counter_, which gives the caller its id.
StoreCounter(c) ==
  /\ loaded[c] # <<>>
  /\ counter' = Head(loaded[c]) + 1
  /\ loaded' = [loaded EXCEPT ![c] = <<>>]
  /\ GoTo(c, Following[stage[c]])
  /\ issued' = IF stage[c] \in {"decision", "rollback"}
               THEN Append(issued, [decision |-> Head(loaded[c]) + 1,
                                    ticket |-> stage[c] = "decision", settled |-> 0])
               ELSE issued
  /\ Len(issued') <= MaxDecisions
  /\ UNCHANGED <<outstanding, surplus>>

\* The lock is released and the evaluation counted.
Count(c) ==
  /\ stage[c] = "counting"
  /\ outstanding' = outstanding + 1
  /\ GoTo(c, "decision")
  /\ UNCHANGED <<counter, loaded, issued, surplus>>

\* Seeded fault: the counter of 64 bits, 8 here, goes below zero.
GivenBackUnchecked(n) == (n + 255) % 256

\* finish: a slot is given back if there is one.
GivenBack(n) == IF n = 0 THEN 0 ELSE n - 1

\* commit_evaluation settles a ticket, which its holder keeps.  One that evaluate
\* deferred, or whose holder is gone, is never committed.
Settle(i) ==
  /\ Sharing = {} /\ Excluding = {}
  /\ issued[i].ticket /\ issued[i].settled < MaxSettlements
  /\ outstanding' = GivenBack(outstanding)
  /\ issued' = [issued EXCEPT ![i].settled = @ + 1]
  /\ surplus' = surplus + (IF issued[i].settled = 0 THEN 0 ELSE 1)
  /\ UNCHANGED <<counter, stage, loaded>>

\* The ticket of a refused request is committed.
SettleRefused ==
  /\ Sharing = {} /\ Excluding = {}
  /\ surplus < MaxSettlements
  /\ outstanding' = GivenBack(outstanding)
  /\ surplus' = surplus + 1
  /\ UNCHANGED <<counter, stage, loaded, issued>>

EvaluationsNext ==
  \/ \E c \in Callers :
       Admit(c) \/ Inspect(c) \/ Count(c) \/ BeginRollback(c)
         \/ LoadCounter(c) \/ StoreCounter(c)
  \/ \E i \in DOMAIN issued : Settle(i)
  \/ SettleRefused

EvaluationsSpec == EvaluationsInit /\ [][EvaluationsNext]_evaluationsVars

-----------------------------------------------------------------------------
(* Properties                                                               *)

\* The evaluations that were counted and that nobody has settled.
Unsettled ==
  Cardinality({c \in Callers : stage[c] = "decision"})
    + Cardinality({i \in DOMAIN issued : issued[i].ticket /\ issued[i].settled = 0})

(***************************************************************************)
(* outstanding_evaluations_ counts the tickets issued and not yet settled, *)
(* short of those whose place was given away by a commit that had none to  *)
(* give, and never wraps (begin_evaluation, finish of commit_evaluation).  *)
(***************************************************************************)
SlotsAreCounted == outstanding \in (Unsettled - surplus)..Unsettled

\* The evaluations under way that are not yet counted.
Uncounted ==
  Cardinality({c \in Callers : stage[c] \in {"admitted", "evaluation", "evidence", "counting"}})

(***************************************************************************)
(* The limit is read before it is counted against: callers who pass it     *)
(* together exceed it, by no more than the callers there are beside the    *)
(* one it admits, and by the slots that were given back in excess.  What   *)
(* runs and what was returned and not settled is bounded by that.          *)
(***************************************************************************)
OvershootIsBounded ==
  Uncounted + Unsettled <= EvaluationLimit + (Cardinality(Callers) - 1) + surplus

(***************************************************************************)
(* ids.hpp, IdFactory: it produces fresh, process-unique identities, from  *)
(* a monotonic counter.  No two decisions share one.                       *)
(***************************************************************************)
DecisionIdsAreUnique ==
  \A i, j \in DOMAIN issued : i # j => issued[i].decision # issued[j].decision
=============================================================================
