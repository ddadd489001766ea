------------------------ MODULE CoordinatorProperties -----------------------
(***************************************************************************)
(* What the coordinator promises its peers and its operator.               *)
(***************************************************************************)
EXTENDS Coordinator

(***************************************************************************)
(* respond_operation saves before it answers: what a peer was told is in   *)
(* force is in the store, at every moment the process may be killed.       *)
(***************************************************************************)
AckedIsDurable ==
  config.persistent =>
    \/ acked = NoAnswer
    \/ /\ Readable
       /\ destination[1] >= acked.epoch
       /\ destination[3] >= acked.revision

(***************************************************************************)
(* The coordinator implements the authority rules: handlers that take the  *)
(* lock more than once, saves in seven steps, sessions that end and        *)
(* processes that are killed add no step that an engine called one         *)
(* operation at a time, saved and recovered in one piece, could not take.  *)
(***************************************************************************)
ImplementsAuthority == Engine!Spec

(***************************************************************************)
(* session_loop, register_publisher: the engine's registrations and the    *)
(* sessions' own idea of them stay together.  A registration names a       *)
(* session that believes in it and that did not end as lost, so nobody     *)
(* speaks for a publisher behind a connection that vanished.               *)
(***************************************************************************)
RegistrationHasSession ==
  running =>
    \A p \in Publishers :
      LET r == registrations[p]
      IN r # Engine!NoRegistration =>
           /\ identity[r.session] = [publisher |-> p, boot |-> r.boot]
           /\ ~(pc[r.session] = "done" /\ ended[r.session] = "LOST")

(***************************************************************************)
(* session_loop: an incarnation whose peer vanished without a goodbye is   *)
(* fenced in the end, unless the coordinator stops or starts again.        *)
(***************************************************************************)
VanishedIsFenced ==
  \A s \in Sessions :
    (s \in LiveSessions /\ ~connected[s] /\ Registered(s))
      ~> \/ identity[s].boot \in fencedBoots
         \/ ended[s] = "CLEAN_BYE"
         \/ ~running \/ ~Registered(s)

(***************************************************************************)
(* stop: every session thread notices the flag and is joined, whatever its *)
(* peer does and however far its handler is.                               *)
(***************************************************************************)
StopCompletes == ~running ~> (LiveSessions = {} \/ running)
=============================================================================
