------------------------- MODULE AuthorityProperties ------------------------
(***************************************************************************)
(* The properties of Authority.tla.                                        *)
(***************************************************************************)
EXTENDS Authority

(***************************************************************************)
(* A registration never outlives its epoch: whatever epochs are advanced,  *)
(* saved and recovered, every registered publisher registered in the epoch *)
(* that is current (advance_epoch clears them; its early return between    *)
(* the two generations must never be taken).                               *)
(***************************************************************************)
RegistrationIsCurrent ==
  \A p \in Live : registrations[p].epoch = epoch

(***************************************************************************)
(* The vector of fence records, which nothing prunes, stays bounded: one   *)
(* incarnation of one publisher is fenced at most once, by whichever of    *)
(* reincarnation, session loss, notice or epoch advance comes first, also  *)
(* when one boot serves two publishers.  The boots it names are exactly    *)
(* the ones check_caller refuses.                                          *)
(***************************************************************************)
FencedOnce ==
  /\ \A f \in Publishers \X Boots : fences[f] <= 1
  /\ fencedBoots = {b \in Boots : \E p \in Publishers : fences[<<p, b>>] > 0}

(***************************************************************************)
(* The strengthening the two proofs above rest on.  Both generations move  *)
(* together, in the engine and in the store, so the early return of        *)
(* advance_epoch is unreachable; and the incarnation that is registered    *)
(* has no fence record of its own, even when its boot is fenced.           *)
(***************************************************************************)
GenerationsMoveTogether == authority = epoch /\ store.authority = store.epoch

RegisteredIsUnrecorded ==
  \A p \in Live : fences[<<p, registrations[p].boot>>] = 0

FencingInv ==
  /\ TypeOK /\ GenerationsMoveTogether /\ RegistrationIsCurrent
  /\ FencedOnce /\ RegisteredIsUnrecorded

(***************************************************************************)
(* An attempt that was recorded is carried out again in the same epoch     *)
(* only after at least MaxAttempts others were recorded: pruning the table *)
(* never forgets an attempt early (replay_check, prune_attempts).          *)
(***************************************************************************)
RetryWindow ==
  \A i, j \in DOMAIN recorded :
    i < j /\ recorded[i] = recorded[j] => j - i > MaxAttempts

(***************************************************************************)
(* The map of attempts and the queue that orders them for pruning hold the *)
(* same attempts, each once, and no more than the limit.                   *)
(***************************************************************************)
TableMatchesOrder ==
  /\ Len(attemptOrder) <= MaxAttempts
  /\ \A a \in Attempts :
       attempts[a] # NoFingerprint <=> \E i \in DOMAIN attemptOrder : attemptOrder[i] = a
  /\ \A i, j \in DOMAIN attemptOrder :
       attemptOrder[i] = attemptOrder[j] => i = j

(***************************************************************************)
(* The strengthening of both: the queue is the end of the history of       *)
(* recorded attempts, and all of it until the limit is reached.            *)
(***************************************************************************)
OrderEndsHistory ==
  LET gone == Len(recorded) - Len(attemptOrder)
  IN /\ gone >= 0
     /\ gone > 0 => Len(attemptOrder) = MaxAttempts
     /\ \A i \in DOMAIN attemptOrder : attemptOrder[i] = recorded[gone + i]

AttemptsInv == TypeOK /\ TableMatchesOrder /\ OrderEndsHistory /\ RetryWindow

(***************************************************************************)
(* Authority implements Incarnation.  A boot speaks for a publisher when   *)
(* it is registered and not fenced: a boot shared by two publishers stays  *)
(* registered for the second when the first one's incarnation is fenced,   *)
(* and must have lost its voice all the same.                              *)
(***************************************************************************)
Voice == [p \in Publishers |->
           IF registrations[p].boot \in fencedBoots THEN NoBoot
           ELSE registrations[p].boot]

Journal == [i \in DOMAIN accepted |-> <<accepted[i].publisher, accepted[i].boot>>]

Abstract == INSTANCE Incarnation
              WITH holder <- Voice, retired <- fencedBoots, journal <- Journal

ImplementsIncarnation == Abstract!Spec
=============================================================================
