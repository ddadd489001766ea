---------------------------- MODULE MCCoordinator ---------------------------
(***************************************************************************)
(* Constants for model checking Coordinator.tla.                           *)
(***************************************************************************)
EXTENDS CoordinatorProperties

CONSTANTS r1

\* A batch of upstream facts: it may be carried out, in part, or refused.
Batches == {[operation |-> "apply_upstream", subject |-> "none",
             body |-> "facts", route |-> r1]}

AnyRoute == {{}}

\* One session at a time and a store; two sessions at a time and none.
OneOrNoStore ==
  {[persistent |-> TRUE, maxSessions |-> 1], [persistent |-> FALSE, maxSessions |-> 2]}

\* In a process with a store a session follows another only when that one was lost.
LossesFirst ==
  \A s, t \in Sessions :
    config.persistent /\ pc[s] = "free" /\ pc'[s] = "reading" /\ pc[t] = "done"
      => ended[t] = "LOST"

\* Two sessions at a time that share a store.
SharedStore == {[persistent |-> TRUE, maxSessions |-> 2]}

\* Two sessions at a time, no store.
NoStoreAtAll == {[persistent |-> FALSE, maxSessions |-> 2]}
=============================================================================
