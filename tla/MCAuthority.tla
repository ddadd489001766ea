----------------------------- MODULE MCAuthority ----------------------------
(***************************************************************************)
(* Constants for model checking Authority.tla.                             *)
(***************************************************************************)
EXTENDS AuthorityProperties, TLC

CONSTANTS r1, r2, n1, x1

Request(operation, subject, route) ==
  [operation |-> operation, subject |-> subject, body |-> x1, route |-> route]

\* One that may be declined, one that may stop in the middle, one not tracked.
ThreeKinds ==
  {Request("commit_evaluation", n1, r1), Request("apply_upstream", n1, r1),
   Request("transition_policy", n1, r1)}

FirstRoute == {{r1}}

\* Who may act: any publishers, boots and sessions, and at most one commit.
FewRequests ==
  /\ Len(accepted) <= 1 /\ Len(recorded) <= 1
  /\ \A a \in Attempts :
       attempts[a] \in {NoFingerprint, Fingerprint(Request("commit_evaluation", n1, r1))}
  /\ \A i \in DOMAIN accepted : accepted[i].payload.operation = "commit_evaluation"

\* What an attempt is: two epochs, one incarnation at a time and every request.
OneIncarnation ==
  /\ epoch <= 2 /\ authority <= 2 /\ Len(accepted) <= 3
  /\ Cardinality(Live) <= 1
  /\ Cardinality(fencedBoots \union {registrations[p].boot : p \in Live}) <= 1

\* The run looks at both kinds of states.
Bounds == FewRequests \/ OneIncarnation

Symmetric ==
  Permutations(Publishers) \union Permutations(Boots)
    \union Permutations(Sessions) \union Permutations(Attempts)
=============================================================================
