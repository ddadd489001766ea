--------------------------- MODULE AuthorityProofs --------------------------
(***************************************************************************)
(* Proofs about Authority.tla, for any publishers, boots, sessions,        *)
(* attempts and limits.                                                    *)
(***************************************************************************)
EXTENDS AuthorityProperties, SequenceTheorems, TLAPS

\* A publisher is live exactly when its registration names a boot.
LEMMA LiveHasBoot ==
  ASSUME TypeOK, NEW p \in Publishers
  PROVE  /\ p \in Live <=> registrations[p].boot \in Boots
         /\ p \in Live <=> registrations[p].boot # NoBoot
         /\ p \in Live <=> registrations[p] \in Registration
         /\ p \notin Live <=> registrations[p] = NoRegistration
BY NoBootAssumption DEF TypeOK, Live, Registration, NoRegistration

\* The same after a step.
LEMMA LiveHasBootPrimed ==
  ASSUME TypeOK', NEW p \in Publishers
  PROVE  /\ p \in Live' <=> registrations'[p].boot \in Boots
         /\ p \in Live' <=> registrations'[p].boot # NoBoot
         /\ p \in Live' <=> registrations'[p] \in Registration
         /\ p \notin Live' <=> registrations'[p] = NoRegistration
BY NoBootAssumption DEF TypeOK, Live, Registration, NoRegistration

LEMMA FingerprintIsRecorded ==
  ASSUME NEW pl \in Payloads
  PROVE  Fingerprint(pl) \in Fingerprints /\ Fingerprint(pl) # NoFingerprint
BY DEF Fingerprint, Fingerprints, NoFingerprint

-----------------------------------------------------------------------------
(***************************************************************************)
(* Types.                                                                  *)
(***************************************************************************)

LEMMA InitTyped == Init => TypeOK
BY AuthorityAssumption
DEF Init, TypeOK, Generations, NoRegistrations, NoFences, NoAttempts, NoStore

LEMMA RegisterTyped ==
  ASSUME TypeOK, NEW p \in Publishers, NEW b \in Boots, NEW s \in Sessions,
         NEW scope \in Scopes, RegisterPublisher(p, b, s, scope)
  PROVE  TypeOK'
<1> DEFINE r == [boot |-> b, session |-> s, scope |-> scope, epoch |-> epoch]
<1>1. r \in Registration
  BY DEF TypeOK, Registration
<1>2. registrations' \in [Publishers -> Registration \cup {NoRegistration}]
  BY <1>1 DEF TypeOK, RegisterPublisher
<1>3. fencedBoots' \subseteq Boots /\ fences' \in [Publishers \X Boots -> Nat]
  <2>1. CASE p \in Live /\ registrations[p].boot # b
    <3> DEFINE old == registrations[p].boot
    <3>1. old \in Boots
      BY <2>1, LiveHasBoot
    <3>2. fencedBoots' = fencedBoots \cup {old}
          /\ fences' = [fences EXCEPT ![<<p, old>>] = @ + 1]
      BY <2>1 DEF RegisterPublisher
    <3> HIDE DEF old
    <3> QED BY <3>1, <3>2 DEF TypeOK
  <2>2. CASE ~(p \in Live /\ registrations[p].boot # b)
    BY <2>2 DEF TypeOK, RegisterPublisher
  <2> QED BY <2>1, <2>2
<1> QED BY <1>2, <1>3 DEF TypeOK, RegisterPublisher

LEMMA FenceTyped ==
  ASSUME TypeOK, NEW p \in Publishers, NEW b \in Boots, FencePublisher(p, b)
  PROVE  TypeOK'
BY DEF TypeOK, FencePublisher

LEMMA ClearedTyped ==
  ASSUME ClearAttempts
  PROVE  /\ attempts' \in [Attempts -> Fingerprints \cup {NoFingerprint}]
         /\ attemptOrder' \in Seq(Attempts)
         /\ accepted' \in Seq([publisher : Publishers, boot : Boots,
                               attempt : Attempts, payload : Payloads])
         /\ recorded' \in Seq(Attempts)
BY DEF ClearAttempts, NoAttempts

LEMMA AdvanceTyped ==
  ASSUME TypeOK, AdvanceEpoch
  PROVE  TypeOK'
<1>1. epoch' \in Generations /\ store' = store
  BY AuthorityAssumption DEF TypeOK, AdvanceEpoch, Generations
<1>2. CASE authority < MaxGeneration
  <2>1. authority' \in Generations
    BY <1>2, AuthorityAssumption DEF TypeOK, AdvanceEpoch, Generations
  <2>2. fencedBoots' \subseteq Boots
    BY <1>2, LiveHasBoot DEF TypeOK, AdvanceEpoch, Live
  <2>3. fences' \in [Publishers \X Boots -> Nat]
    BY <1>2 DEF TypeOK, AdvanceEpoch
  <2>4. registrations' \in [Publishers -> Registration \cup {NoRegistration}]
    BY <1>2 DEF AdvanceEpoch, AfterAdvance, NoRegistrations
  <2>5. ClearAttempts
    BY <1>2 DEF AdvanceEpoch
  <2> QED BY <1>1, <2>1, <2>2, <2>3, <2>4, <2>5, ClearedTyped DEF TypeOK
<1>3. CASE ~(authority < MaxGeneration)
  BY <1>1, <1>3 DEF TypeOK, AdvanceEpoch
<1> QED BY <1>2, <1>3

LEMMA RecordTyped ==
  ASSUME TypeOK, NEW a \in Attempts, NEW pl \in Payloads, RecordAttempt(a, pl)
  PROVE  /\ attempts' \in [Attempts -> Fingerprints \cup {NoFingerprint}]
         /\ attemptOrder' \in Seq(Attempts)
         /\ recorded' \in Seq(Attempts)
<1> DEFINE order == Append(attemptOrder, a)
           table == [attempts EXCEPT ![a] = Fingerprint(pl)]
<1>1. order \in Seq(Attempts) /\ Len(order) > 0 /\ Head(order) \in Attempts
      /\ Tail(order) \in Seq(Attempts)
  <2>1. order \in Seq(Attempts) /\ Len(order) = Len(attemptOrder) + 1
        /\ Len(attemptOrder) \in Nat
    BY DEF TypeOK
  <2>2. order # <<>>
    BY <2>1
  <2> QED BY <2>1, <2>2, HeadTailProperties
<1>2. table \in [Attempts -> Fingerprints \cup {NoFingerprint}]
  BY FingerprintIsRecorded DEF TypeOK
<1>3. recorded' \in Seq(Attempts)
  BY DEF TypeOK, RecordAttempt
<1> QED BY <1>1, <1>2, <1>3 DEF RecordAttempt, Erased

LEMMA CarriedOutTyped ==
  ASSUME TypeOK, NEW c \in Contexts, NEW a \in Attempts, NEW pl \in Payloads,
         CarriedOut(c, a, pl)
  PROVE  accepted' \in Seq([publisher : Publishers, boot : Boots,
                            attempt : Attempts, payload : Payloads])
<1>1. [publisher |-> c.publisher, boot |-> c.boot, attempt |-> a, payload |-> pl]
        \in [publisher : Publishers, boot : Boots, attempt : Attempts,
             payload : Payloads]
  BY DEF Contexts
<1> QED BY <1>1 DEF TypeOK, CarriedOut

\* A request, whatever becomes of it.
Requested(c, a, pl) ==
  Mutate(c, a, pl) \/ ApplyPrefix(c, a, pl) \/ Decline(c, a, pl)

LEMMA RequestedTyped ==
  ASSUME TypeOK, NEW c \in Contexts, NEW a \in Attempts, NEW pl \in Payloads,
         Requested(c, a, pl)
  PROVE  TypeOK'
<1>1. accepted' \in Seq([publisher : Publishers, boot : Boots,
                         attempt : Attempts, payload : Payloads])
  BY CarriedOutTyped DEF TypeOK, Requested, Mutate, ApplyPrefix, Decline
<1>2. RecordAttempt(a, pl) \/ UNCHANGED <<attempts, attemptOrder, recorded>>
  BY DEF Requested, Mutate, ApplyPrefix, Decline
<1>3. UNCHANGED authorityKept
  BY DEF Requested, Mutate, ApplyPrefix, Decline
<1> QED BY <1>1, <1>2, <1>3, RecordTyped DEF TypeOK, authorityKept

LEMMA RecoverTyped ==
  ASSUME TypeOK, Recover \/ Construct
  PROVE  TypeOK'
<1>1. epoch' \in Generations /\ authority' \in Generations /\ store' = store
  BY AuthorityAssumption
  DEF TypeOK, Recover, Construct, Recoverable, Generations, NoStore
<1>2. FreshState
  BY DEF Recover, Construct
<1>3. /\ registrations' \in [Publishers -> Registration \cup {NoRegistration}]
      /\ fencedBoots' \subseteq Boots
      /\ fences' \in [Publishers \X Boots -> Nat]
  BY <1>2 DEF FreshState, NoRegistrations, NoFences
<1>4. ClearAttempts
  BY <1>2 DEF FreshState
<1> QED BY <1>1, <1>3, <1>4, ClearedTyped DEF TypeOK

(***************************************************************************)
(* TypeOK is inductive: every operation leaves registrations, fences, the  *)
(* attempt table and the generations well formed.                          *)
(***************************************************************************)
THEOREM AuthorityTyped == Spec => []TypeOK
<1>1. TypeOK /\ [Next]_authorityVars => TypeOK'
  <2> SUFFICES ASSUME TypeOK, [Next]_authorityVars PROVE TypeOK'
    OBVIOUS
  <2>1. ASSUME NEW p \in Publishers, NEW b \in Boots, NEW s \in Sessions,
               NEW scope \in Scopes, RegisterPublisher(p, b, s, scope)
        PROVE  TypeOK'
    BY <2>1, RegisterTyped
  <2>2. ASSUME NEW p \in Publishers, NEW b \in Boots, FencePublisher(p, b)
        PROVE  TypeOK'
    BY <2>2, FenceTyped
  <2>3. CASE AdvanceEpoch
    BY <2>3, AdvanceTyped
  <2>4. ASSUME NEW c \in Contexts, NEW a \in Attempts, NEW pl \in Payloads,
               Requested(c, a, pl)
        PROVE  TypeOK'
    BY <2>4, RequestedTyped
  <2>5. CASE Save
    BY <2>5 DEF TypeOK, Save
  <2>6. CASE Recover \/ Construct
    BY <2>6, RecoverTyped
  <2>7. CASE UNCHANGED authorityVars
    BY <2>7 DEF TypeOK, authorityVars
  <2> QED BY <2>1, <2>2, <2>3, <2>4, <2>5, <2>6, <2>7 DEF Next, Requested
<1> QED BY InitTyped, <1>1, PTL DEF Spec

-----------------------------------------------------------------------------
(***************************************************************************)
(* Fencing and epochs.                                                     *)
(***************************************************************************)

LEMMA FenceCount ==
  ASSUME TypeOK, NEW q \in Publishers, NEW c \in Boots
  PROVE  fences[<<q, c>>] \in Nat
BY DEF TypeOK

LEMMA UnfencedBootHasNoRecord ==
  ASSUME TypeOK, FencedOnce, NEW q \in Publishers, NEW c \in Boots, c \notin fencedBoots
  PROVE  fences[<<q, c>>] = 0
<1>1. fences[<<q, c>>] \in Nat
  BY FenceCount
<1>2. ~(fences[<<q, c>>] > 0)
  BY DEF FencedOnce
<1> QED BY <1>1, <1>2

LEMMA NoFencesIsZero ==
  /\ \A f \in Publishers \X Boots : NoFences[f] = 0
  /\ \A q \in Publishers, c \in Boots : NoFences[<<q, c>>] = 0
BY DEF NoFences

LEMMA InitFencing == Init => FencingInv
<1> SUFFICES ASSUME Init PROVE FencingInv
  OBVIOUS
<1>1. TypeOK
  BY InitTyped
<1>2. Live = {}
  BY DEF Init, NoRegistrations, Live
<1>3. GenerationsMoveTogether
  BY DEF Init, NoStore, GenerationsMoveTogether
<1>4. FencedOnce
  <2>1. fences = NoFences /\ fencedBoots = {}
    BY DEF Init
  <2>2. \A b \in Boots, p \in Publishers : ~(fences[<<p, b>>] > 0)
    BY <2>1, NoFencesIsZero
  <2>3. fencedBoots = {b \in Boots : \E p \in Publishers : fences[<<p, b>>] > 0}
    BY <2>1, <2>2, Zenon
  <2>4. \A f \in Publishers \X Boots : fences[f] <= 1
    BY <2>1, NoFencesIsZero
  <2> QED BY <2>3, <2>4 DEF FencedOnce
<1> QED BY <1>1, <1>2, <1>3, <1>4
        DEF FencingInv, RegistrationIsCurrent, RegisteredIsUnrecorded

LEMMA RegisterFencing ==
  ASSUME FencingInv, NEW p \in Publishers, NEW b \in Boots, NEW s \in Sessions,
         NEW scope \in Scopes, RegisterPublisher(p, b, s, scope)
  PROVE  FencingInv'
<1>0. TypeOK /\ TypeOK'
  BY RegisterTyped DEF FencingInv
<1>1. /\ registrations'[p].boot = b /\ registrations'[p].epoch = epoch
      /\ \A q \in Publishers \ {p} : registrations'[q] = registrations[q]
      /\ Live' = Live \cup {p}
      /\ epoch' = epoch /\ authority' = authority /\ store' = store
  <2>1. /\ registrations'[p].boot = b /\ registrations'[p].epoch = epoch
        /\ \A q \in Publishers \ {p} : registrations'[q] = registrations[q]
        /\ epoch' = epoch /\ authority' = authority /\ store' = store
    BY <1>0 DEF RegisterPublisher, TypeOK
  <2>2. registrations'[p] # NoRegistration
    BY <2>1, NoBootAssumption DEF NoRegistration
  <2> QED BY <2>1, <2>2 DEF Live
<1>2. b \notin fencedBoots
  BY DEF RegisterPublisher, Registrable, RefusedBoot
<1>3. GenerationsMoveTogether' /\ RegistrationIsCurrent'
  BY <1>1 DEF FencingInv, GenerationsMoveTogether, RegistrationIsCurrent, Live
<1>4. FencedOnce' /\ RegisteredIsUnrecorded'
  <2>1. CASE p \in Live /\ registrations[p].boot # b
    <3> DEFINE old == registrations[p].boot
    <3>1. old \in Boots /\ old # b /\ fences[<<p, old>>] = 0
      BY <2>1, <1>0, LiveHasBoot DEF FencingInv, RegisteredIsUnrecorded
    <3>2. fencedBoots' = fencedBoots \cup {old}
          /\ fences' = [fences EXCEPT ![<<p, old>>] = @ + 1]
      BY <2>1 DEF RegisterPublisher
    <3> HIDE DEF old
    <3>3. /\ fences'[<<p, old>>] = 1
          /\ \A f \in Publishers \X Boots : f # <<p, old>> => fences'[f] = fences[f]
      BY <1>0, <3>1, <3>2 DEF TypeOK
    <3>4. \A q \in Publishers, c \in Boots :
            <<q, c>> # <<p, old>> => fences'[<<q, c>>] = fences[<<q, c>>]
      BY <3>3
    <3>5. \A f \in Publishers \X Boots : fences'[f] <= 1
      BY <3>3 DEF FencingInv, FencedOnce
    <3>6. fencedBoots' = {c \in Boots : \E q \in Publishers : fences'[<<q, c>>] > 0}
      BY <3>1, <3>2, <3>3, <3>4 DEF FencingInv, FencedOnce
    <3>7. fences'[<<p, b>>] = 0
      BY <1>0, <1>2, <3>1, <3>4, UnfencedBootHasNoRecord DEF FencingInv
    <3>8. \A q \in Live \ {p} : fences'[<<q, registrations[q].boot>>] = 0
      BY <1>0, <3>4, LiveHasBoot DEF FencingInv, RegisteredIsUnrecorded, Live
    <3> QED BY <1>1, <3>5, <3>6, <3>7, <3>8
            DEF FencedOnce, RegisteredIsUnrecorded, Live
  <2>2. CASE ~(p \in Live /\ registrations[p].boot # b)
    <3>1. fencedBoots' = fencedBoots /\ fences' = fences
      BY <2>2 DEF RegisterPublisher
    <3>2. fences[<<p, b>>] = 0
      BY <1>0, <1>2, UnfencedBootHasNoRecord DEF FencingInv
    <3> QED BY <1>1, <3>1, <3>2
            DEF FencingInv, FencedOnce, RegisteredIsUnrecorded, Live
  <2> QED BY <2>1, <2>2
<1> QED BY <1>0, <1>3, <1>4 DEF FencingInv

LEMMA FenceFencing ==
  ASSUME FencingInv, NEW p \in Publishers, NEW b \in Boots, FencePublisher(p, b)
  PROVE  FencingInv'
<1>0. TypeOK /\ TypeOK'
  BY FenceTyped DEF FencingInv
<1>1. /\ \A q \in Publishers \ {p} : registrations'[q] = registrations[q]
      /\ Live' = Live \ {p}
      /\ epoch' = epoch /\ authority' = authority /\ store' = store
  BY <1>0 DEF FencePublisher, TypeOK, Live
<1>2. GenerationsMoveTogether' /\ RegistrationIsCurrent'
  BY <1>1 DEF FencingInv, GenerationsMoveTogether, RegistrationIsCurrent, Live
<1>3. fences[<<p, b>>] = 0
  BY DEF FencePublisher, FencingInv, RegisteredIsUnrecorded
<1>4. /\ fences'[<<p, b>>] = 1 /\ fencedBoots' = fencedBoots \cup {b}
      /\ \A f \in Publishers \X Boots : f # <<p, b>> => fences'[f] = fences[f]
  BY <1>0, <1>3 DEF FencePublisher, TypeOK
<1>5. \A q \in Publishers, c \in Boots :
        <<q, c>> # <<p, b>> => fences'[<<q, c>>] = fences[<<q, c>>]
  BY <1>4
<1>6. FencedOnce'
  <2>1. \A f \in Publishers \X Boots : fences'[f] <= 1
    BY <1>4 DEF FencingInv, FencedOnce
  <2>2. fencedBoots' = {c \in Boots : \E q \in Publishers : fences'[<<q, c>>] > 0}
    <3>1. \A c \in Boots \ {b} : \A q \in Publishers : fences'[<<q, c>>] = fences[<<q, c>>]
      BY <1>5
    <3>2. \A c \in Boots : c \in fencedBoots <=> \E q \in Publishers : fences[<<q, c>>] > 0
      BY DEF FencingInv, FencedOnce
    <3>3. \A c \in Boots :
            c \in fencedBoots' <=> \E q \in Publishers : fences'[<<q, c>>] > 0
      <4> TAKE c \in Boots
      <4>1. CASE c = b
        BY <1>4, <4>1
      <4>2. CASE c # b
        BY <1>4, <3>1, <3>2, <4>2
      <4> QED BY <4>1, <4>2
    <3> QED BY <1>0, <3>3 DEF TypeOK
  <2> QED BY <2>1, <2>2 DEF FencedOnce
<1>7. RegisteredIsUnrecorded'
  <2>1. \A q \in Live \ {p} : fences'[<<q, registrations[q].boot>>] = 0
    BY <1>0, <1>5, LiveHasBoot DEF FencingInv, RegisteredIsUnrecorded, Live
  <2> QED BY <1>1, <2>1 DEF RegisteredIsUnrecorded, Live
<1> QED BY <1>0, <1>2, <1>6, <1>7 DEF FencingInv

LEMMA AdvanceFencing ==
  ASSUME FencingInv, AdvanceEpoch
  PROVE  FencingInv'
<1>0. TypeOK /\ TypeOK'
  BY AdvanceTyped DEF FencingInv
<1>1. authority < MaxGeneration
  BY DEF FencingInv, GenerationsMoveTogether, AdvanceEpoch
<1>2. GenerationsMoveTogether'
  BY <1>1 DEF FencingInv, GenerationsMoveTogether, AdvanceEpoch
<1>3. Live' = {}
  BY <1>1 DEF AdvanceEpoch, AfterAdvance, NoRegistrations, Live
<1>4. \A q \in Publishers, c \in Boots :
        fences'[<<q, c>>] = IF q \in Live /\ registrations[q].boot = c
                            THEN fences[<<q, c>>] + 1 ELSE fences[<<q, c>>]
  BY <1>1 DEF AdvanceEpoch
<1>5. \A q \in Publishers, c \in Boots : fences'[<<q, c>>] \in {0, 1}
  <2> TAKE q \in Publishers, c \in Boots
  <2>1. fences[<<q, c>>] \in {0, 1}
    BY <1>0, FenceCount DEF FencingInv, FencedOnce
  <2>2. q \in Live /\ registrations[q].boot = c => fences[<<q, c>>] = 0
    BY DEF FencingInv, RegisteredIsUnrecorded
  <2> QED BY <1>4, <2>1, <2>2
<1>6. fencedBoots' = fencedBoots \cup {registrations[q].boot : q \in Live}
  BY <1>1 DEF AdvanceEpoch
<1>7. fencedBoots' = {c \in Boots : \E q \in Publishers : fences'[<<q, c>>] > 0}
  <2>1. \A c \in Boots :
          c \in fencedBoots' <=> \E q \in Publishers : fences'[<<q, c>>] > 0
    <3> TAKE c \in Boots
    <3>1. c \in fencedBoots <=> \E q \in Publishers : fences[<<q, c>>] > 0
      BY DEF FencingInv, FencedOnce
    <3>2. ASSUME NEW q \in Publishers
          PROVE  fences'[<<q, c>>] > 0
                   <=> fences[<<q, c>>] > 0 \/ (q \in Live /\ registrations[q].boot = c)
      BY <1>0, <1>4 DEF TypeOK
    <3>3. c \in fencedBoots'
            <=> c \in fencedBoots \/ \E q \in Publishers : q \in Live /\ registrations[q].boot = c
      BY <1>6 DEF Live
    <3> QED BY <3>1, <3>2, <3>3
  <2> QED BY <1>0, <2>1 DEF TypeOK
<1>8. FencedOnce'
  BY <1>5, <1>7 DEF FencedOnce
<1> QED BY <1>0, <1>2, <1>3, <1>8
        DEF FencingInv, RegistrationIsCurrent, RegisteredIsUnrecorded

LEMMA RecoverFencing ==
  ASSUME FencingInv, Recover \/ Construct
  PROVE  FencingInv'
<1>0. TypeOK'
  BY RecoverTyped DEF FencingInv
<1>1. FreshState /\ store' = store
  BY DEF Recover, Construct
<1>2. Live' = {}
  BY <1>1 DEF FreshState, NoRegistrations, Live
<1>3. GenerationsMoveTogether'
  BY <1>1 DEF Recover, Construct, FencingInv, GenerationsMoveTogether
<1>4. FencedOnce'
  <2>1. fences' = NoFences /\ fencedBoots' = {}
    BY <1>1 DEF FreshState
  <2>2. \A b \in Boots, p \in Publishers : ~(fences'[<<p, b>>] > 0)
    BY <2>1, NoFencesIsZero
  <2>3. fencedBoots' = {b \in Boots : \E p \in Publishers : fences'[<<p, b>>] > 0}
    BY <2>1, <2>2, Zenon
  <2>4. \A f \in Publishers \X Boots : fences'[f] <= 1
    BY <2>1, NoFencesIsZero
  <2> QED BY <2>3, <2>4 DEF FencedOnce
<1> QED BY <1>0, <1>2, <1>3, <1>4
        DEF FencingInv, RegistrationIsCurrent, RegisteredIsUnrecorded

LEMMA FencingUnchanged ==
  ASSUME FencingInv, TypeOK', GenerationsMoveTogether',
         UNCHANGED <<epoch, registrations, fencedBoots, fences>>
  PROVE  FencingInv'
BY DEF FencingInv, RegistrationIsCurrent, FencedOnce, RegisteredIsUnrecorded, Live

LEMMA FencingInductive == FencingInv /\ [Next]_authorityVars => FencingInv'
<1> SUFFICES ASSUME FencingInv, [Next]_authorityVars PROVE FencingInv'
  OBVIOUS
<1>0. TypeOK
  BY DEF FencingInv
<1>1. ASSUME NEW p \in Publishers, NEW b \in Boots, NEW s \in Sessions,
             NEW scope \in Scopes, RegisterPublisher(p, b, s, scope)
      PROVE  FencingInv'
  BY <1>1, RegisterFencing
<1>2. ASSUME NEW p \in Publishers, NEW b \in Boots, FencePublisher(p, b)
      PROVE  FencingInv'
  BY <1>2, FenceFencing
<1>3. CASE AdvanceEpoch
  BY <1>3, AdvanceFencing
<1>4. ASSUME NEW c \in Contexts, NEW a \in Attempts, NEW pl \in Payloads,
             Requested(c, a, pl)
      PROVE  FencingInv'
  <2>1. TypeOK'
    BY <1>0, <1>4, RequestedTyped
  <2>2. UNCHANGED authorityKept
    BY <1>4 DEF Requested, Mutate, ApplyPrefix, Decline
  <2>3. GenerationsMoveTogether'
    BY <2>2 DEF authorityKept, FencingInv, GenerationsMoveTogether
  <2> QED BY <2>1, <2>2, <2>3, FencingUnchanged DEF authorityKept
<1>5. CASE Save
  <2>1. TypeOK'
    BY <1>0, <1>5 DEF TypeOK, Save
  <2>2. GenerationsMoveTogether'
    BY <1>5 DEF Save, FencingInv, GenerationsMoveTogether
  <2> QED BY <1>5, <2>1, <2>2, FencingUnchanged DEF Save
<1>6. CASE Recover \/ Construct
  BY <1>6, RecoverFencing
<1>7. CASE UNCHANGED authorityVars
  <2>1. TypeOK' /\ GenerationsMoveTogether'
    BY <1>7 DEF TypeOK, authorityVars, FencingInv, GenerationsMoveTogether
  <2> QED BY <1>7, <2>1, FencingUnchanged DEF authorityVars
<1> QED BY <1>1, <1>2, <1>3, <1>4, <1>5, <1>6, <1>7 DEF Next, Requested

(***************************************************************************)
(* However epochs advance and stores are saved and recovered, a registered *)
(* publisher registered in the current epoch: advance_epoch never stops    *)
(* between its two generations.                                            *)
(***************************************************************************)
THEOREM RegistrationsAreCurrent == Spec => []RegistrationIsCurrent
<1>1. FencingInv => RegistrationIsCurrent
  BY DEF FencingInv
<1> QED BY <1>1, InitFencing, FencingInductive, PTL DEF Spec

(***************************************************************************)
(* An incarnation of a publisher is fenced at most once, and the fence     *)
(* records name exactly the boots that are refused.                        *)
(***************************************************************************)
THEOREM FencedAtMostOnce == Spec => []FencedOnce
<1>1. FencingInv => FencedOnce
  BY DEF FencingInv
<1> QED BY <1>1, InitFencing, FencingInductive, PTL DEF Spec

-----------------------------------------------------------------------------
(***************************************************************************)
(* The attempt table.                                                      *)
(***************************************************************************)

LEMMA EmptyAttempts ==
  /\ Init => AttemptsInv
  /\ ClearAttempts /\ TypeOK' => AttemptsInv'
<1>1. ASSUME Init PROVE AttemptsInv
  BY <1>1, InitTyped, AuthorityAssumption
  DEF Init, AttemptsInv, TableMatchesOrder, OrderEndsHistory, RetryWindow, NoAttempts
<1>2. ASSUME ClearAttempts, TypeOK' PROVE AttemptsInv'
  BY <1>2, AuthorityAssumption
  DEF ClearAttempts, AttemptsInv, TableMatchesOrder, OrderEndsHistory, RetryWindow,
      NoAttempts
<1> QED BY <1>1, <1>2

\* What the queue and the history are after an attempt was recorded.
LEMMA RecordShape ==
  ASSUME AttemptsInv, NEW a \in Attempts, NEW pl \in Payloads, RecordAttempt(a, pl)
  PROVE  /\ Len(recorded') = Len(recorded) + 1
         /\ \A i \in 1 .. Len(recorded) : recorded'[i] = recorded[i]
         /\ recorded'[Len(recorded) + 1] = a
         /\ \/ /\ Len(attemptOrder) < MaxAttempts
               /\ Len(attemptOrder') = Len(attemptOrder) + 1
               /\ \A i \in 1 .. Len(attemptOrder) : attemptOrder'[i] = attemptOrder[i]
               /\ attemptOrder'[Len(attemptOrder) + 1] = a
               /\ attempts' = [attempts EXCEPT ![a] = Fingerprint(pl)]
            \/ /\ Len(attemptOrder) = MaxAttempts
               /\ Len(attemptOrder') = MaxAttempts
               /\ \A i \in 1 .. MaxAttempts - 1 : attemptOrder'[i] = attemptOrder[i + 1]
               /\ MaxAttempts > 0 => attemptOrder'[MaxAttempts] = a
               /\ attempts' = [[attempts EXCEPT ![a] = Fingerprint(pl)]
                    EXCEPT ![IF MaxAttempts = 0 THEN a ELSE attemptOrder[1]] = NoFingerprint]
<1> DEFINE order == Append(attemptOrder, a)
<1>0. TypeOK /\ Len(attemptOrder) <= MaxAttempts /\ MaxAttempts \in Nat
  BY AuthorityAssumption DEF AttemptsInv, TableMatchesOrder
<1>1. /\ Len(recorded') = Len(recorded) + 1
      /\ \A i \in 1 .. Len(recorded) : recorded'[i] = recorded[i]
      /\ recorded'[Len(recorded) + 1] = a
  BY <1>0, AppendProperties DEF RecordAttempt, TypeOK
<1>2. /\ order \in Seq(Attempts) /\ order # <<>>
      /\ Len(order) = Len(attemptOrder) + 1 /\ Len(attemptOrder) \in Nat
      /\ \A i \in 1 .. Len(attemptOrder) : order[i] = attemptOrder[i]
      /\ order[Len(attemptOrder) + 1] = a
  BY <1>0, AppendProperties DEF TypeOK
<1>3. CASE ~Overflowing(order)
  <2>1. Len(attemptOrder) < MaxAttempts
    BY <1>0, <1>2, <1>3 DEF Overflowing
  <2>2. attemptOrder' = order /\ attempts' = [attempts EXCEPT ![a] = Fingerprint(pl)]
    BY <1>3 DEF RecordAttempt
  <2> QED BY <1>1, <1>2, <2>1, <2>2
<1>4. CASE Overflowing(order)
  <2>1. Len(attemptOrder) = MaxAttempts
    BY <1>0, <1>2, <1>4 DEF Overflowing
  <2>2. /\ attemptOrder' = Tail(order)
        /\ attempts' = [[attempts EXCEPT ![a] = Fingerprint(pl)]
                          EXCEPT ![Head(order)] = NoFingerprint]
    BY <1>4 DEF RecordAttempt, Erased
  <2>3. /\ Len(Tail(order)) = MaxAttempts
        /\ \A i \in 1 .. MaxAttempts : Tail(order)[i] = order[i + 1]
    BY <1>0, <1>2, <2>1, HeadTailProperties
  <2>4. Head(order) = order[1]
    BY <1>2
  <2>5. Head(order) = IF MaxAttempts = 0 THEN a ELSE attemptOrder[1]
    BY <1>0, <1>2, <2>1, <2>4
  <2>6. \A i \in 1 .. MaxAttempts - 1 : attemptOrder'[i] = attemptOrder[i + 1]
    BY <1>0, <1>2, <2>1, <2>2, <2>3
  <2>7. MaxAttempts > 0 => attemptOrder'[MaxAttempts] = a
    BY <1>0, <1>2, <2>1, <2>2, <2>3
  <2> HIDE DEF order
  <2> QED BY <1>1, <2>1, <2>2, <2>3, <2>5, <2>6, <2>7
<1> QED BY <1>3, <1>4

(***************************************************************************)
(* A queue q of length n that is the end of a history h of length k, and   *)
(* what they are, as r of length m and g, once x was put into both.        *)
(***************************************************************************)
WindowBefore(M, n, k, q, h, x) ==
  /\ n <= M /\ n <= k /\ (n < k => n = M)
  /\ \A i \in 1 .. n : q[i] = h[(k - n) + i]
  /\ \A i, j \in 1 .. n : q[i] = q[j] => i = j
  /\ \A i, j \in 1 .. k : i < j /\ h[i] = h[j] => j - i > M
  /\ \A i \in 1 .. n : q[i] # x

WindowStep(M, n, k, q, h, x, m, r, g) ==
  /\ \A i \in 1 .. k : g[i] = h[i]
  /\ g[k + 1] = x
  /\ \/ /\ n < M /\ m = n + 1
        /\ \A i \in 1 .. n : r[i] = q[i]
        /\ r[n + 1] = x
     \/ /\ n = M /\ m = M
        /\ \A i \in 1 .. M - 1 : r[i] = q[i + 1]
        /\ M > 0 => r[M] = x

WindowAfter(M, k, m, r, g) ==
  /\ m <= M /\ m <= k + 1 /\ (m < k + 1 => m = M)
  /\ \A i \in 1 .. m : r[i] = g[((k + 1) - m) + i]
  /\ \A i, j \in 1 .. m : r[i] = r[j] => i = j

\* The queue gains x and, when it is full, loses its first entry.
WindowGains(M, n, q, x, m, r, y) ==
  (\E i \in 1 .. m : r[i] = y)
    <=> \/ y = x /\ M > 0
        \/ (\E i \in 1 .. n : q[i] = y) /\ ~(n = M /\ y = q[1])

LEMMA WindowHistory ==
  ASSUME NEW M \in Nat, NEW n \in Nat, NEW k \in Nat, NEW m \in Nat,
         NEW q, NEW h, NEW x, NEW r, NEW g,
         WindowBefore(M, n, k, q, h, x), WindowStep(M, n, k, q, h, x, m, r, g),
         NEW i \in 1 .. k + 1, NEW j \in 1 .. k + 1, i < j, g[i] = g[j]
  PROVE  j - i > M
<1>1. CASE j <= k
  BY <1>1 DEF WindowBefore, WindowStep
<1>2. CASE j = k + 1
  <2>1. i \in 1 .. k /\ h[i] = x
    BY <1>2 DEF WindowStep
  <2>2. i <= k - n
    <3>1. CASE i > k - n
      <4>1. i - (k - n) \in 1 .. n /\ (k - n) + (i - (k - n)) = i
        BY <2>1, <3>1 DEF WindowBefore
      <4> QED BY <2>1, <4>1 DEF WindowBefore
    <3> QED BY <2>1, <3>1 DEF WindowBefore
  <2> QED BY <1>2, <2>1, <2>2 DEF WindowBefore
<1> QED BY <1>1, <1>2

LEMMA WindowEnd ==
  ASSUME NEW M \in Nat, NEW n \in Nat, NEW k \in Nat, NEW m \in Nat,
         NEW q, NEW h, NEW x, NEW r, NEW g,
         WindowBefore(M, n, k, q, h, x), WindowStep(M, n, k, q, h, x, m, r, g)
  PROVE  WindowAfter(M, k, m, r, g)
<1>1. m <= M /\ m <= k + 1 /\ (m < k + 1 => m = M)
  BY DEF WindowBefore, WindowStep
<1>2. ASSUME NEW i \in 1 .. m PROVE r[i] = g[((k + 1) - m) + i]
  <2>1. CASE n < M
    <3>1. k = n /\ m = n + 1
      BY <2>1 DEF WindowBefore, WindowStep
    <3>2. CASE i <= n
      BY <2>1, <3>1, <3>2 DEF WindowBefore, WindowStep
    <3>3. CASE i = n + 1
      BY <2>1, <3>1, <3>3 DEF WindowStep
    <3> QED BY <3>1, <3>2, <3>3
  <2>2. CASE n = M
    <3>1. m = n
      BY <2>2 DEF WindowStep
    <3>2. CASE i < M
      <4>1. r[i] = q[i + 1] /\ i + 1 \in 1 .. n
        BY <2>2, <3>1, <3>2 DEF WindowStep
      <4>2. q[i + 1] = h[(k - n) + (i + 1)]
        BY <4>1 DEF WindowBefore
      <4>3. (k - n) + (i + 1) \in 1 .. k /\ (k - n) + (i + 1) = ((k + 1) - m) + i
        BY <3>1, <4>1 DEF WindowBefore
      <4> QED BY <4>1, <4>2, <4>3 DEF WindowStep
    <3>3. CASE i = M
      BY <2>2, <3>1, <3>3 DEF WindowStep
    <3> QED BY <2>2, <3>1, <3>2, <3>3
  <2> QED BY <2>1, <2>2 DEF WindowBefore
<1>3. \A i, j \in 1 .. m : r[i] = r[j] => i = j
  <2>1. CASE n < M
    BY <2>1 DEF WindowBefore, WindowStep
  <2>2. CASE n = M
    BY <2>2 DEF WindowBefore, WindowStep
  <2> QED BY <2>1, <2>2 DEF WindowBefore
<1> QED BY <1>1, <1>2, <1>3 DEF WindowAfter

LEMMA WindowMembers ==
  ASSUME NEW M \in Nat, NEW n \in Nat, NEW k \in Nat, NEW m \in Nat,
         NEW q, NEW h, NEW x, NEW r, NEW g, NEW y,
         WindowBefore(M, n, k, q, h, x), WindowStep(M, n, k, q, h, x, m, r, g)
  PROVE  WindowGains(M, n, q, x, m, r, y)
<1>1. CASE n < M
  BY <1>1 DEF WindowBefore, WindowStep, WindowGains
<1>2. CASE n = M
  <2>1. ASSUME NEW i \in 1 .. m, r[i] = y
        PROVE  \/ y = x /\ M > 0
               \/ (\E l \in 1 .. n : q[l] = y) /\ y # q[1]
    <3>1. CASE i = M
      BY <1>2, <2>1, <3>1 DEF WindowStep
    <3>2. CASE i < M
      <4>1. q[i + 1] = y /\ i + 1 \in 1 .. n /\ 1 \in 1 .. n /\ i + 1 # 1
        BY <1>2, <2>1, <3>2 DEF WindowStep
      <4> QED BY <4>1 DEF WindowBefore
    <3> QED BY <1>2, <3>1, <3>2 DEF WindowStep
  <2>2. ASSUME y = x, M > 0 PROVE \E i \in 1 .. m : r[i] = y
    BY <1>2, <2>2 DEF WindowStep
  <2>3. ASSUME NEW l \in 1 .. n, q[l] = y, y # q[1]
        PROVE  \E i \in 1 .. m : r[i] = y
    <3>1. l - 1 \in 1 .. m /\ l - 1 \in 1 .. M - 1 /\ (l - 1) + 1 = l
      BY <1>2, <2>3 DEF WindowStep
    <3>2. r[l - 1] = q[(l - 1) + 1]
      BY <1>2, <3>1 DEF WindowStep
    <3> QED BY <2>3, <3>1, <3>2
  <2> QED BY <1>2, <2>1, <2>2, <2>3 DEF WindowGains
<1> QED BY <1>1, <1>2 DEF WindowBefore

LEMMA RecordAttempts ==
  ASSUME AttemptsInv, TypeOK', NEW a \in Attempts, NEW pl \in Payloads,
         attempts[a] = NoFingerprint, RecordAttempt(a, pl)
  PROVE  AttemptsInv'
<1> DEFINE n == Len(attemptOrder)
           k == Len(recorded)
           m == Len(attemptOrder')
           first == IF MaxAttempts = 0 THEN a ELSE attemptOrder[1]
<1>1. /\ TypeOK /\ MaxAttempts \in Nat /\ n \in Nat /\ k \in Nat /\ m \in Nat
      /\ DOMAIN attemptOrder = 1 .. n /\ DOMAIN recorded = 1 .. k
      /\ DOMAIN attemptOrder' = 1 .. m
  BY AuthorityAssumption DEF AttemptsInv, TypeOK
<1>2. Len(recorded') = k + 1 /\ DOMAIN recorded' = 1 .. k + 1
  <2>1. Len(recorded') = k + 1
    BY RecordShape
  <2> QED BY <2>1 DEF TypeOK
<1>3. WindowBefore(MaxAttempts, n, k, attemptOrder, recorded, a)
  BY <1>1, SMTT(30)
  DEF WindowBefore, AttemptsInv, TableMatchesOrder, OrderEndsHistory, RetryWindow
<1>4. WindowStep(MaxAttempts, n, k, attemptOrder, recorded, a, m, attemptOrder', recorded')
  BY RecordShape DEF WindowStep
<1> HIDE DEF n, k, m
<1>5. /\ m <= MaxAttempts /\ m <= k + 1 /\ (m < k + 1 => m = MaxAttempts)
      /\ \A i \in 1 .. m : attemptOrder'[i] = recorded'[((k + 1) - m) + i]
      /\ \A i, j \in 1 .. m : attemptOrder'[i] = attemptOrder'[j] => i = j
  <2>1. WindowAfter(MaxAttempts, k, m, attemptOrder', recorded')
    BY <1>1, <1>3, <1>4, WindowEnd
  <2> QED BY <2>1 DEF WindowAfter
<1>6. RetryWindow'
  BY <1>1, <1>2, <1>3, <1>4, WindowHistory DEF RetryWindow
<1>7. OrderEndsHistory'
  <2> DEFINE gone == Len(recorded') - Len(attemptOrder')
  <2>1. gone = (k + 1) - m
    BY <1>2 DEF m
  <2> HIDE DEF gone
  <2>2. /\ gone >= 0 /\ (gone > 0 => m = MaxAttempts)
        /\ \A i \in 1 .. m : attemptOrder'[i] = recorded'[gone + i]
    BY <1>1, <1>5, <2>1
  <2> QED BY <1>1, <2>2 DEF OrderEndsHistory, gone, m
<1>8. ASSUME NEW y \in Attempts
      PROVE  attempts'[y] # NoFingerprint <=> \E i \in 1 .. m : attemptOrder'[i] = y
  <2>1. (\E i \in 1 .. m : attemptOrder'[i] = y)
          <=> \/ y = a /\ MaxAttempts > 0
              \/ /\ \E i \in 1 .. n : attemptOrder[i] = y
                 /\ ~(n = MaxAttempts /\ y = attemptOrder[1])
    <3>1. WindowGains(MaxAttempts, n, attemptOrder, a, m, attemptOrder', y)
      BY <1>1, <1>3, <1>4, WindowMembers
    <3> QED BY <3>1 DEF WindowGains
  <2>2. attempts[y] # NoFingerprint <=> \E i \in 1 .. n : attemptOrder[i] = y
    BY <1>1 DEF AttemptsInv, TableMatchesOrder
  <2>3. n > 0 => attemptOrder[1] \in Attempts /\ attemptOrder[1] # a
    <3> SUFFICES ASSUME n > 0 PROVE attemptOrder[1] \in Attempts /\ attemptOrder[1] # a
      OBVIOUS
    <3>1. 1 \in 1 .. n
      BY <1>1
    <3>2. attemptOrder[1] \in Attempts
      BY <1>1, <3>1 DEF TypeOK, n
    <3> QED BY <1>3, <3>1, <3>2 DEF WindowBefore
  <2>4. Fingerprint(pl) # NoFingerprint
    BY FingerprintIsRecorded
  <2>5. \/ n < MaxAttempts /\ attempts' = [attempts EXCEPT ![a] = Fingerprint(pl)]
        \/ /\ n = MaxAttempts
           /\ attempts' = [[attempts EXCEPT ![a] = Fingerprint(pl)]
                             EXCEPT ![first] = NoFingerprint]
    BY RecordShape DEF n
  <2>6. CASE n < MaxAttempts
    <3>1. attempts'[y] = IF y = a THEN Fingerprint(pl) ELSE attempts[y]
      BY <1>1, <2>5, <2>6 DEF TypeOK
    <3> QED BY <1>1, <2>1, <2>2, <2>4, <2>6, <3>1
  <2>7. CASE n = MaxAttempts
    <3>1. attempts'[y] = IF y = first THEN NoFingerprint
                         ELSE IF y = a THEN Fingerprint(pl) ELSE attempts[y]
      BY <1>1, <2>3, <2>5, <2>7 DEF TypeOK
    <3>2. CASE MaxAttempts = 0
      BY <1>1, <2>1, <2>2, <2>7, <3>1, <3>2
    <3>3. CASE MaxAttempts > 0
      BY <1>1, <2>1, <2>2, <2>3, <2>4, <2>7, <3>1, <3>3
    <3> QED BY <1>1, <3>2, <3>3
  <2> QED BY <1>1, <1>3, <2>6, <2>7 DEF WindowBefore
<1>9. TableMatchesOrder'
  BY <1>1, <1>5, <1>8 DEF TableMatchesOrder
<1> QED BY <1>6, <1>7, <1>9 DEF AttemptsInv

LEMMA AttemptsUnchanged ==
  ASSUME AttemptsInv, TypeOK', UNCHANGED <<attempts, attemptOrder, recorded>>
  PROVE  AttemptsInv'
BY DEF AttemptsInv, TableMatchesOrder, OrderEndsHistory, RetryWindow

LEMMA AttemptsInductive == AttemptsInv /\ [Next]_authorityVars => AttemptsInv'
<1> SUFFICES ASSUME AttemptsInv, [Next]_authorityVars PROVE AttemptsInv'
  OBVIOUS
<1>0. TypeOK
  BY DEF AttemptsInv
<1>1. ASSUME NEW p \in Publishers, NEW b \in Boots, NEW s \in Sessions,
             NEW scope \in Scopes, RegisterPublisher(p, b, s, scope)
      PROVE  AttemptsInv'
  BY <1>0, <1>1, RegisterTyped, AttemptsUnchanged DEF RegisterPublisher
<1>2. ASSUME NEW p \in Publishers, NEW b \in Boots, FencePublisher(p, b)
      PROVE  AttemptsInv'
  BY <1>0, <1>2, FenceTyped, AttemptsUnchanged DEF FencePublisher
<1>3. CASE AdvanceEpoch
  <2>1. TypeOK'
    BY <1>0, <1>3, AdvanceTyped
  <2>2. ClearAttempts \/ UNCHANGED <<attempts, attemptOrder, recorded>>
    BY <1>3 DEF AdvanceEpoch
  <2> QED BY <2>1, <2>2, EmptyAttempts, AttemptsUnchanged
<1>4. ASSUME NEW c \in Contexts, NEW a \in Attempts, NEW pl \in Payloads,
             Requested(c, a, pl)
      PROVE  AttemptsInv'
  <2>1. TypeOK'
    BY <1>0, <1>4, RequestedTyped
  <2>2. \/ attempts[a] = NoFingerprint /\ RecordAttempt(a, pl)
        \/ UNCHANGED <<attempts, attemptOrder, recorded>>
    BY <1>4 DEF Requested, Mutate, ApplyPrefix, Decline, ReplayCheck
  <2> QED BY <2>1, <2>2, RecordAttempts, AttemptsUnchanged
<1>5. CASE Save
  <2>1. TypeOK'
    BY <1>0, <1>5 DEF TypeOK, Save
  <2> QED BY <1>5, <2>1, AttemptsUnchanged DEF Save
<1>6. CASE Recover \/ Construct
  <2>1. TypeOK' /\ ClearAttempts
    BY <1>0, <1>6, RecoverTyped DEF Recover, Construct, FreshState
  <2> QED BY <2>1, EmptyAttempts
<1>7. CASE UNCHANGED authorityVars
  <2>1. TypeOK'
    BY <1>0, <1>7 DEF TypeOK, authorityVars
  <2> QED BY <1>7, <2>1, AttemptsUnchanged DEF authorityVars
<1> QED BY <1>1, <1>2, <1>3, <1>4, <1>5, <1>6, <1>7 DEF Next, Requested

(***************************************************************************)
(* A recorded attempt is not carried out again in its epoch before at      *)
(* least MaxAttempts others were recorded, whatever the limit is.          *)
(***************************************************************************)
THEOREM RetriesAreRecognised == Spec => []RetryWindow
<1>1. AttemptsInv => RetryWindow
  BY DEF AttemptsInv
<1> QED BY <1>1, EmptyAttempts, AttemptsInductive, PTL DEF Spec

(***************************************************************************)
(* The map of attempts and its queue never part, and stay in their bound.  *)
(***************************************************************************)
THEOREM AttemptTableConsistent == Spec => []TableMatchesOrder
<1>1. AttemptsInv => TableMatchesOrder
  BY DEF AttemptsInv
<1> QED BY <1>1, EmptyAttempts, AttemptsInductive, PTL DEF Spec

-----------------------------------------------------------------------------
(***************************************************************************)
(* Authority.tla implements Incarnation.tla.  Each operation is a step of  *)
(* the abstract specification: a registration claims, a fence retires, an  *)
(* epoch advance retires every voice, a mutation acts, a recovery resets,  *)
(* and what is left over changes neither voices nor journal.               *)
(***************************************************************************)

LEMMA VoiceIsRegisteredBoot ==
  ASSUME TypeOK, NEW p \in Publishers
  PROVE  /\ p \notin Live => Voice[p] = NoBoot
         /\ p \in Live /\ registrations[p].boot \in fencedBoots => Voice[p] = NoBoot
         /\ p \in Live /\ registrations[p].boot \notin fencedBoots
              => Voice[p] = registrations[p].boot /\ Voice[p] \in Boots
BY LiveHasBoot, NoBootAssumption DEF Voice, TypeOK, NoRegistration

\* Without any registration no boot speaks.
LEMMA NoVoice ==
  (registrations = NoRegistrations => Voice = [p \in Publishers |-> NoBoot])
BY DEF Voice, NoRegistrations, NoRegistration

LEMMA EmptyJournal ==
  accepted = <<>> => Journal = <<>>
BY DEF Journal

LEMMA InitImplements == Init => Abstract!Init
BY NoVoice, EmptyJournal DEF Init, Abstract!Init

LEMMA JournalGrows ==
  ASSUME TypeOK, NEW c \in Contexts, NEW a \in Attempts, NEW pl \in Payloads,
         CarriedOut(c, a, pl)
  PROVE  Journal' = Append(Journal, <<c.publisher, c.boot>>)
<1> DEFINE entry == [publisher |-> c.publisher, boot |-> c.boot, attempt |-> a,
                     payload |-> pl]
           n == Len(accepted)
<1>1. /\ n \in Nat /\ DOMAIN accepted = 1 .. n
      /\ \A i \in 1 .. n : accepted[i].publisher \in Publishers /\ accepted[i].boot \in Boots
  <2> DEFINE E == [publisher : Publishers, boot : Boots, attempt : Attempts,
                   payload : Payloads]
  <2>1. accepted \in Seq(E)
    BY DEF TypeOK
  <2>2. \A e \in E : e.publisher \in Publishers /\ e.boot \in Boots
    OBVIOUS
  <2> HIDE DEF E
  <2>3. n \in Nat /\ DOMAIN accepted = 1 .. n /\ \A i \in 1 .. n : accepted[i] \in E
    BY <2>1
  <2> QED BY <2>2, <2>3
<1>2. accepted' = Append(accepted, entry)
  BY DEF CarriedOut
<1>3. /\ DOMAIN accepted' = 1 .. n + 1
      /\ \A i \in 1 .. n : accepted'[i] = accepted[i]
      /\ accepted'[n + 1] = entry
  BY <1>1, <1>2 DEF TypeOK
<1>4. c.publisher \in Publishers /\ c.boot \in Boots
  BY DEF Contexts
<1> HIDE DEF n
<1>5. Journal \in Seq(Publishers \X Boots) /\ Len(Journal) = n
  BY <1>1 DEF Journal
<1>6. Journal' = [i \in 1 .. n + 1 |-> <<accepted'[i].publisher, accepted'[i].boot>>]
  BY <1>3 DEF Journal
<1>7. Append(Journal, <<c.publisher, c.boot>>)
        = [i \in 1 .. n + 1 |-> IF i <= n THEN Journal[i] ELSE <<c.publisher, c.boot>>]
  BY <1>1, <1>4, <1>5
<1>8. \A i \in 1 .. n + 1 :
        <<accepted'[i].publisher, accepted'[i].boot>>
          = IF i <= n THEN Journal[i] ELSE <<c.publisher, c.boot>>
  BY <1>1, <1>3 DEF Journal
<1> QED BY <1>6, <1>7, <1>8

\* A caller that passes the check speaks for its publisher.
LEMMA CallerSpeaks ==
  ASSUME TypeOK, NEW c \in Contexts, NEW pl \in Payloads, CheckCaller(c, pl) = "OK"
  PROVE  Voice[c.publisher] = c.boot /\ c.publisher \in Publishers /\ c.boot \in Boots
<1>1. c.publisher \in Publishers /\ c.boot \in Boots
  BY DEF Contexts
<1>2. c.boot \notin fencedBoots
  BY DEF CheckCaller, RefusedBoot
<1>3. registrations[c.publisher].boot = c.boot
  BY DEF CheckCaller
<1> QED BY <1>1, <1>2, <1>3 DEF Voice

LEMMA ActImplements ==
  ASSUME TypeOK, NEW c \in Contexts, NEW a \in Attempts, NEW pl \in Payloads,
         CarriedOut(c, a, pl), UNCHANGED authorityKept
  PROVE  Abstract!Act(c.publisher)
<1>1. Voice[c.publisher] = c.boot /\ c.publisher \in Publishers /\ c.boot \in Boots
  BY CallerSpeaks DEF CarriedOut
<1>2. Voice[c.publisher] # NoBoot
  BY <1>1, NoBootAssumption
<1>3. Journal' = Append(Journal, <<c.publisher, Voice[c.publisher]>>)
  BY <1>1, JournalGrows
<1>4. Voice' = Voice /\ fencedBoots' = fencedBoots
  BY DEF authorityKept, Voice
<1> QED BY <1>2, <1>3, <1>4 DEF Abstract!Act

LEMMA ClaimImplements ==
  ASSUME TypeOK, NEW p \in Publishers, NEW b \in Boots, NEW s \in Sessions,
         NEW scope \in Scopes, RegisterPublisher(p, b, s, scope)
  PROVE  Abstract!Claim(p, b)
<1> DEFINE old == {Voice[p]} \ {b, NoBoot}
<1>1. b \notin fencedBoots /\ b # NoBoot
  BY NoBootAssumption DEF RegisterPublisher, Registrable, RefusedBoot
<1>2. fencedBoots' = fencedBoots \cup old
  BY LiveHasBoot, VoiceIsRegisteredBoot DEF RegisterPublisher
<1>3. /\ registrations'[p].boot = b
      /\ \A q \in Publishers \ {p} : registrations'[q] = registrations[q]
  BY DEF RegisterPublisher, TypeOK
<1>4. Voice'[p] = b
  BY <1>1, <1>2, <1>3 DEF Voice
<1>5. \A q \in Publishers \ {p} :
        Voice'[q] = IF Voice[q] \in old THEN NoBoot ELSE Voice[q]
  <2> TAKE q \in Publishers \ {p}
  <2>1. Voice'[q] = IF registrations[q].boot \in fencedBoots' THEN NoBoot
                    ELSE registrations[q].boot
    BY <1>3 DEF Voice
  <2>2. Voice[q] = IF registrations[q].boot \in fencedBoots THEN NoBoot
                   ELSE registrations[q].boot
    BY DEF Voice
  <2> QED BY <1>2, <2>1, <2>2
<1>6. Voice' = [Abstract!Without(Voice, old) EXCEPT ![p] = b]
  BY <1>4, <1>5 DEF Voice, Abstract!Without
<1>7. Journal' = Journal
  BY DEF RegisterPublisher, Journal
<1> QED BY <1>1, <1>2, <1>6, <1>7 DEF Abstract!Claim

LEMMA RetireImplements ==
  ASSUME TypeOK, NEW p \in Publishers, NEW b \in Boots, FencePublisher(p, b)
  PROVE  Abstract!Retire({b})
<1>1. fencedBoots' = fencedBoots \cup {b} /\ registrations[p].boot = b
  BY DEF FencePublisher
<1>2. /\ registrations'[p].boot = NoBoot
      /\ \A q \in Publishers \ {p} : registrations'[q] = registrations[q]
  BY DEF FencePublisher, TypeOK, NoRegistration
<1>3. Voice' = Abstract!Without(Voice, {b})
  BY <1>1, <1>2, NoBootAssumption DEF Voice, Abstract!Without, TypeOK
<1>4. Journal' = Journal
  BY DEF FencePublisher, Journal
<1> QED BY <1>1, <1>3, <1>4 DEF Abstract!Retire

LEMMA AdvanceImplements ==
  ASSUME FencingInv, AdvanceEpoch
  PROVE  Abstract!RetireAll
<1> DEFINE B == {registrations[q].boot : q \in Live}
<1>1. authority < MaxGeneration /\ TypeOK
  BY DEF FencingInv, GenerationsMoveTogether, AdvanceEpoch
<1>2. /\ fencedBoots' = fencedBoots \cup B
      /\ registrations' = NoRegistrations /\ accepted' = <<>>
  BY <1>1 DEF AdvanceEpoch, AfterAdvance, ClearAttempts
<1>3. B \in SUBSET Boots
  BY <1>1, LiveHasBoot DEF Live
<1>4. \A q \in Publishers : Voice[q] \in B \cup {NoBoot}
  BY <1>1, VoiceIsRegisteredBoot
<1>5. Voice' = [q \in Publishers |-> NoBoot]
  BY <1>2 DEF Voice, NoRegistrations, NoRegistration
<1>6. Journal' = <<>>
  BY <1>2 DEF Journal
<1> QED BY <1>2, <1>3, <1>4, <1>5, <1>6 DEF Abstract!RetireAll

LEMMA ResetImplements ==
  ASSUME Recover \/ Construct
  PROVE  Abstract!Reset
<1>1. registrations' = NoRegistrations /\ fencedBoots' = {} /\ accepted' = <<>>
  BY DEF Recover, Construct, FreshState, ClearAttempts
<1>2. Voice' = [q \in Publishers |-> NoBoot]
  BY <1>1 DEF Voice, NoRegistrations, NoRegistration
<1>3. Journal' = <<>>
  BY <1>1 DEF Journal
<1> QED BY <1>1, <1>2, <1>3 DEF Abstract!Reset

LEMMA StepImplements ==
  FencingInv /\ [Next]_authorityVars => [Abstract!Next]_(Abstract!vars)
<1> SUFFICES ASSUME FencingInv, [Next]_authorityVars
             PROVE  [Abstract!Next]_(Abstract!vars)
  OBVIOUS
<1>0. TypeOK
  BY DEF FencingInv
<1>1. ASSUME NEW p \in Publishers, NEW b \in Boots, NEW s \in Sessions,
             NEW scope \in Scopes, RegisterPublisher(p, b, s, scope)
      PROVE  Abstract!Next
  BY <1>0, <1>1, ClaimImplements DEF Abstract!Next
<1>2. ASSUME NEW p \in Publishers, NEW b \in Boots, FencePublisher(p, b)
      PROVE  Abstract!Next
  BY <1>0, <1>2, RetireImplements DEF Abstract!Next
<1>3. CASE AdvanceEpoch
  BY <1>3, AdvanceImplements DEF Abstract!Next
<1>4. ASSUME NEW c \in Contexts, NEW a \in Attempts, NEW pl \in Payloads,
             Mutate(c, a, pl) \/ ApplyPrefix(c, a, pl)
      PROVE  Abstract!Next
  <2>1. CarriedOut(c, a, pl) /\ UNCHANGED authorityKept /\ c.publisher \in Publishers
    BY <1>4 DEF Mutate, ApplyPrefix, Contexts
  <2> QED BY <1>0, <2>1, ActImplements DEF Abstract!Next
<1>5. ASSUME UNCHANGED <<registrations, fencedBoots, accepted>>
      PROVE  UNCHANGED Abstract!vars
  BY <1>5 DEF Abstract!vars, Voice, Journal
<1>6. ASSUME NEW c \in Contexts, NEW a \in Attempts, NEW pl \in Payloads,
             Decline(c, a, pl)
      PROVE  UNCHANGED Abstract!vars
  BY <1>5, <1>6 DEF Decline, authorityKept
<1>7. CASE Save
  BY <1>5, <1>7 DEF Save
<1>8. CASE Recover \/ Construct
  BY <1>8, ResetImplements DEF Abstract!Next
<1>9. CASE UNCHANGED authorityVars
  BY <1>5, <1>9 DEF authorityVars
<1> QED BY <1>1, <1>2, <1>3, <1>4, <1>6, <1>7, <1>8, <1>9 DEF Next

(***************************************************************************)
(* Whatever registers, is fenced, retried, saved and recovered, at most    *)
(* one boot speaks for a publisher, and a boot that was retired neither    *)
(* acts nor registers again until a recovery.                              *)
(***************************************************************************)
THEOREM AuthorityImplementsIncarnation == Spec => ImplementsIncarnation
<1> QED BY InitImplements, StepImplements, InitFencing, FencingInductive, PTL
        DEF Spec, ImplementsIncarnation, Abstract!Spec
=============================================================================
