------------------------------ MODULE Authority -----------------------------
(***************************************************************************)
(* Who may change the engine: publisher registrations, fenced worker       *)
(* boots, epochs, the caller check every mutation passes and the bounded   *)
(* table that recognises a retried mutation attempt.                       *)
(*                                                                         *)
(* Each operation runs under Impl::mutex_ and is one action.  A request    *)
(* that is refused and leaves nothing here is no step.  What a mutation    *)
(* does to policies, bindings and evidence is in Adaptation.tla; here it   *)
(* is carried out, or declined and recorded, or carried out in part.       *)
(*                                                                         *)
(* live_boots is written by these operations and read by none, and is left *)
(* out.  The vector of fence records is kept as the number of records of   *)
(* each (publisher, boot) pair: their order decides nothing.               *)
(***************************************************************************)
EXTENDS Integers, Sequences, FiniteSets

CONSTANTS
  Publishers,    \* PublisherId values
  Boots,         \* WorkerBootId values; a boot may serve several publishers
  Sessions,      \* SessionId values
  Routes,        \* RouteId values a mutation may target
  Scopes,        \* the route lists a registration may carry; empty means all
  Attempts,      \* MutationAttemptId values
  Payloads,      \* requests: [operation, subject, body]
  MaxPublishers, \* Limits: max_publishers
  MaxAttempts,   \* Limits: max_attempts
  MaxGeneration, \* the largest generation value
  MaxAccepted    \* bound: mutations carried out, attempts recorded, in one epoch

(***************************************************************************)
(* A request is described by its operation, its subject (the name of a     *)
(* created policy, the id of an existing one) and everything else.         *)
(***************************************************************************)
Operations ==
  {"create_policy", "update_policy", "publish_evidence", "apply_upstream",
   "commit_evaluation", "rollback", "transition_policy", "revoke_policy"}

ASSUME AuthorityAssumption ==
  /\ MaxPublishers \in Nat /\ MaxAttempts \in Nat
  /\ MaxGeneration \in Nat \ {0} /\ MaxAccepted \in Nat
  /\ Scopes \subseteq SUBSET Routes
  /\ \A pl \in Payloads : pl.operation \in Operations

VARIABLES
  epoch,          \* State::epoch
  authority,      \* State::authority_generation
  registrations,  \* State::registrations
  fencedBoots,    \* State::fenced_boots
  fences,         \* State::fences, as a count per publisher and boot
  attempts,       \* State::attempts: the fingerprint of a recorded attempt
  attemptOrder,   \* State::attempt_order
  store,          \* the generations of the last saved store, or NoStore
  accepted,       \* history: mutations carried out in this epoch
  recorded        \* history: attempts recorded in this epoch

authorityVars == <<epoch, authority, registrations, fencedBoots, fences,
                   attempts, attemptOrder, store, accepted, recorded>>

NoBoot == "none"
NoRegistration == [boot |-> NoBoot, session |-> "none", scope |-> {}, epoch |-> 0]
NoFingerprint == <<>>
NoStore == [epoch |-> 0, authority |-> 0]

ASSUME NoBootAssumption == NoBoot \notin Boots

Generations == 1 .. MaxGeneration
Live == {p \in Publishers : registrations[p] # NoRegistration}

Registration ==
  [boot : Boots, session : Sessions, scope : Scopes, epoch : Generations]

(***************************************************************************)
(* The digest replay_check compares.  create_policy and update_policy hash *)
(* scope and semantics only (fingerprint_policy): neither the operation    *)
(* nor the policy it names is part of it.                                  *)
(***************************************************************************)
FingerprintTag(operation) ==
  CASE operation \in {"create_policy", "update_policy"} -> "policy-payload"
    [] operation = "publish_evidence" -> "evidence-batch"
    [] operation = "apply_upstream" -> "upstream-batch"
    [] operation = "commit_evaluation" -> "commit-decision"
    [] OTHER -> operation

FingerprintSubject(pl) ==
  IF pl.operation \in {"create_policy", "update_policy", "publish_evidence"}
  THEN "none" ELSE pl.subject

Fingerprint(pl) ==
  <<FingerprintTag(pl.operation), FingerprintSubject(pl), pl.body>>

Fingerprints == {Fingerprint(pl) : pl \in Payloads}

\* transition_policy and revoke_policy never consult the attempt table.
Tracked(pl) == pl.operation \notin {"transition_policy", "revoke_policy"}

\* publish_evidence and commit_evaluation call check_caller without a route.
RouteChecked(pl) == pl.operation \notin {"publish_evidence", "commit_evaluation"}

\* AuthorityScope::covers_route; an empty list covers every route.
CoversRoute(scope, route) == scope = {} \/ route \in scope

\* Seeded fault: a boot that some registration still names is not refused.
RefusedBootUnlessRegistered(b) ==
  b \in fencedBoots /\ \A p \in Live : registrations[p].boot # b

\* A boot that was fenced neither mutates nor registers.
RefusedBoot(b) == b \in fencedBoots

(***************************************************************************)
(* check_caller, in the order of its early returns.  The context c carries *)
(* the epoch, the publisher, the boot and the session of the request.      *)
(***************************************************************************)
CheckCaller(c, pl) ==
  CASE c.epoch # epoch -> "STALE_EPOCH"
    [] c.epoch = epoch /\ RefusedBoot(c.boot) -> "FENCED_WORKER"
    [] OTHER ->
       LET registration == registrations[c.publisher]
       IN CASE registration = NoRegistration -> "UNAUTHORIZED"
            [] registration # NoRegistration /\ registration.boot # c.boot
                 -> "STALE_WORKER"
            [] registration.boot = c.boot /\ registration.session # c.session
                 -> "UNAUTHORIZED"
            [] registration.boot = c.boot /\ registration.session = c.session
                 -> IF RouteChecked(pl)
                       /\ ~CoversRoute(registration.scope, pl.route)
                    THEN "UNAUTHORIZED_SCOPE" ELSE "OK"

\* replay_check: an attempt of the table is a replay or a conflict.
ReplayCheck(a, pl) ==
  CASE attempts[a] = NoFingerprint -> "NEW"
    [] attempts[a] = Fingerprint(pl) -> "IDEMPOTENT"
    [] OTHER -> "ATTEMPT_CONFLICT"

Contexts ==
  [epoch : Generations, publisher : Publishers, boot : Boots, session : Sessions]

TypeOK ==
  /\ epoch \in Generations /\ authority \in Generations
  /\ registrations \in [Publishers -> Registration \cup {NoRegistration}]
  /\ fencedBoots \subseteq Boots
  /\ fences \in [Publishers \X Boots -> Nat]
  /\ attempts \in [Attempts -> Fingerprints \cup {NoFingerprint}]
  /\ attemptOrder \in Seq(Attempts)
  /\ store \in [epoch : Generations, authority : Generations] \cup {NoStore}
  /\ accepted \in Seq([publisher : Publishers, boot : Boots,
                       attempt : Attempts, payload : Payloads])
  /\ recorded \in Seq(Attempts)

NoRegistrations == [p \in Publishers |-> NoRegistration]
NoFences == [f \in Publishers \X Boots |-> 0]
NoAttempts == [a \in Attempts |-> NoFingerprint]

\* The constructor of Impl.
Init ==
  /\ epoch = 1 /\ authority = 1
  /\ store = NoStore
  /\ registrations = NoRegistrations
  /\ fencedBoots = {} /\ fences = NoFences
  /\ attempts = NoAttempts /\ attemptOrder = <<>>
  /\ accepted = <<>> /\ recorded = <<>>

\* clear() on the attempt table, with the histories of the epoch it serves.
ClearAttempts ==
  /\ attempts' = NoAttempts /\ attemptOrder' = <<>>
  /\ accepted' = <<>> /\ recorded' = <<>>

\* A State{}: no registration, no fence, no attempt.
FreshState ==
  /\ registrations' = NoRegistrations
  /\ fencedBoots' = {} /\ fences' = NoFences
  /\ ClearAttempts

\* Seeded fault: only the boots of live publishers are looked up.
RegistrableUnlessLive(p, b) ==
  /\ b \in fencedBoots => p \notin Live
  /\ p \notin Live => Cardinality(Live) < MaxPublishers

\* The early returns of register_publisher.
Registrable(p, b) ==
  /\ ~RefusedBoot(b)
  /\ p \notin Live => Cardinality(Live) < MaxPublishers

(***************************************************************************)
(* register_publisher.  The boot that is already registered refreshes its  *)
(* session and scope; another boot fences the one it replaces.             *)
(***************************************************************************)
RegisterPublisher(p, b, s, scope) ==
  /\ Registrable(p, b)
  /\ registrations' = [registrations EXCEPT ![p] =
       [boot |-> b, session |-> s, scope |-> scope, epoch |-> epoch]]
  /\ LET old == registrations[p].boot
     IN IF p \in Live /\ old # b
        THEN /\ fencedBoots' = fencedBoots \cup {old}
             /\ fences' = [fences EXCEPT ![<<p, old>>] = @ + 1]
        ELSE UNCHANGED <<fencedBoots, fences>>
  /\ UNCHANGED <<epoch, authority, attempts, attemptOrder, store, accepted, recorded>>

\* fence_publisher: only the registered incarnation can be fenced.
FencePublisher(p, b) ==
  /\ p \in Live /\ registrations[p].boot = b
  /\ registrations' = [registrations EXCEPT ![p] = NoRegistration]
  /\ fencedBoots' = fencedBoots \cup {b}
  /\ fences' = [fences EXCEPT ![<<p, b>>] = @ + 1]
  /\ UNCHANGED <<epoch, authority, attempts, attemptOrder, store, accepted, recorded>>

\* Seeded fault: a registration whose boot is fenced already is passed over.
AfterAdvanceUnlessFenced ==
  [p \in Publishers |-> IF registrations[p].boot \in fencedBoots
                        THEN registrations[p] ELSE NoRegistration]

\* What an epoch advance leaves of the registrations: nothing.
AfterAdvance == NoRegistrations

(***************************************************************************)
(* advance_epoch.  The epoch is assigned before the authority generation   *)
(* is known to have a successor: when it has none, the operation returns   *)
(* with the epoch advanced and nothing fenced.                             *)
(***************************************************************************)
AdvanceEpoch ==
  /\ epoch < MaxGeneration
  /\ epoch' = epoch + 1
  /\ IF authority < MaxGeneration
     THEN /\ authority' = authority + 1
          /\ fencedBoots' = fencedBoots \cup {registrations[p].boot : p \in Live}
          /\ fences' = [f \in Publishers \X Boots |->
               IF f[1] \in Live /\ registrations[f[1]].boot = f[2]
               THEN fences[f] + 1 ELSE fences[f]]
          /\ registrations' = AfterAdvance
          /\ ClearAttempts
     ELSE UNCHANGED <<authority, registrations, fencedBoots, fences, attempts,
                      attemptOrder, accepted, recorded>>
  /\ UNCHANGED store

\* Seeded fault: the table is pruned when it is full, not when it overflows.
OverflowingEarly(order) == Len(order) >= MaxAttempts

Overflowing(order) == Len(order) > MaxAttempts

\* Seeded fault: the queue is popped and the map keeps the attempt.
ErasedNot(table, a) == table

Erased(table, a) == [table EXCEPT ![a] = NoFingerprint]

(***************************************************************************)
(* record_attempt followed by prune_attempts.  The attempt is not in the   *)
(* table, because replay_check let it through, so the branch that rewrites *)
(* an existing record is not reached; the queue grows by one, so the loop  *)
(* of prune_attempts pops at most one attempt.                             *)
(***************************************************************************)
RecordAttempt(a, pl) ==
  LET order == Append(attemptOrder, a)
      table == [attempts EXCEPT ![a] = Fingerprint(pl)]
  IN /\ recorded' = Append(recorded, a)
     /\ IF Overflowing(order)
        THEN /\ attemptOrder' = Tail(order)
             /\ attempts' = Erased(table, Head(order))
        ELSE /\ attemptOrder' = order
             /\ attempts' = table

\* What a mutation leaves alone, carried out or not.
authorityKept == <<epoch, authority, registrations, fencedBoots, fences, store>>

CarriedOut(c, a, pl) ==
  /\ Len(accepted) < MaxAccepted
  /\ CheckCaller(c, pl) = "OK"
  /\ accepted' = Append(accepted,
       [publisher |-> c.publisher, boot |-> c.boot, attempt |-> a, payload |-> pl])

\* A mutation that passes the caller check and is carried out.
Mutate(c, a, pl) ==
  /\ CarriedOut(c, a, pl)
  /\ IF Tracked(pl)
     THEN ReplayCheck(a, pl) = "NEW" /\ RecordAttempt(a, pl)
     ELSE UNCHANGED <<attempts, attemptOrder, recorded>>
  /\ UNCHANGED authorityKept

(***************************************************************************)
(* A batch of upstream facts that is refused after its first notifications *)
(* were applied: apply_upstream returns from the middle of its loop, the   *)
(* attempt is not recorded and what was applied stays.                     *)
(***************************************************************************)
ApplyPrefix(c, a, pl) ==
  /\ pl.operation = "apply_upstream"
  /\ CarriedOut(c, a, pl)
  /\ ReplayCheck(a, pl) = "NEW"
  /\ UNCHANGED <<attempts, attemptOrder, recorded>>
  /\ UNCHANGED authorityKept

(***************************************************************************)
(* An attempt that is recorded and changes nothing else kept here: the     *)
(* name exists or the policy limit is reached, the decision is suppressed  *)
(* or changes nothing, the rollback is refused.                            *)
(***************************************************************************)
Decline(c, a, pl) ==
  /\ pl.operation \in {"create_policy", "commit_evaluation", "rollback"}
  /\ Len(recorded) < MaxAccepted
  /\ CheckCaller(c, pl) = "OK"
  /\ ReplayCheck(a, pl) = "NEW"
  /\ RecordAttempt(a, pl)
  /\ UNCHANGED accepted
  /\ UNCHANGED authorityKept

\* save: build_durable writes the generations; no registration, no fence.
Save ==
  /\ store' = [epoch |-> epoch, authority |-> authority]
  /\ UNCHANGED <<epoch, authority, registrations, fencedBoots, fences, attempts,
                 attemptOrder, accepted, recorded>>

\* Seeded fault: the generations are not checked for a successor.
RecoverableUnchecked == store # NoStore

\* A store whose generations both have a successor.
Recoverable ==
  /\ store # NoStore
  /\ store.epoch < MaxGeneration /\ store.authority < MaxGeneration

\* apply_durable: a fresh State{} with the successors of the saved generations.
Recover ==
  /\ Recoverable
  /\ epoch' = store.epoch + 1 /\ authority' = store.authority + 1
  /\ FreshState
  /\ UNCHANGED store

\* A process that ends and starts again without a store: the constructor.
Construct ==
  /\ store = NoStore
  /\ epoch' = 1 /\ authority' = 1
  /\ FreshState
  /\ UNCHANGED store

Next ==
  \/ \E p \in Publishers, b \in Boots :
       \/ \E s \in Sessions, scope \in Scopes : RegisterPublisher(p, b, s, scope)
       \/ FencePublisher(p, b)
  \/ AdvanceEpoch
  \/ \E c \in Contexts, a \in Attempts, pl \in Payloads :
       \/ Mutate(c, a, pl)
       \/ ApplyPrefix(c, a, pl)
       \/ Decline(c, a, pl)
  \/ Save
  \/ Recover
  \/ Construct

Spec == Init /\ [][Next]_authorityVars
=============================================================================
