-------------------------- MODULE CoordinatorProofs -------------------------
(***************************************************************************)
(* Proofs about Coordinator.tla, for any sessions, publishers, boots,      *)
(* limits and configurations.                                              *)
(*                                                                         *)
(* The engine is the instance Engine of Authority.tla, so what is proved   *)
(* of Authority.tla is stated here of Engine where it is needed.           *)
(***************************************************************************)
EXTENDS CoordinatorProperties, SequenceTheorems, FiniteSetTheorems, TLAPS

-----------------------------------------------------------------------------
(***************************************************************************)
(* The store file, for any threads and any encodings.                      *)
(*                                                                         *)
(* Readers of write_store_atomic believe that the store is replaced whole. *)
(* That is so only while one thread saves at a time, which the code does   *)
(* not ensure: the run lost_store shows two threads losing the store.      *)
(***************************************************************************)

SaverStates ==
  [step : Steps, bytes : Encodings \cup {NoBytes},
   stream : {"none", "temporary", "destination", "unnamed"}]

\* What the steps of a lone saver know of the temporary file.
StepKnows(v) ==
  \/ v.step \in {"idle", "saved", "failed"} /\ v.stream = "none"
  \/ v.step = "open" /\ v.stream = "none" /\ v.bytes \in Encodings
  \/ v.step = "write" /\ v.stream = "temporary" /\ v.bytes \in Encodings
     /\ temporary = Truncated
  \/ v.step = "rename" /\ v.stream = "none" /\ v.bytes \in Encodings
     /\ temporary = v.bytes

\* A lone saver never finds the temporary gone, so it never takes the
\* fallback that removes the store.
LoneSaverInv ==
  /\ saver \in [Sessions -> SaverStates]
  /\ destination \in Encodings \cup {NoFile}
  /\ \A s \in Sessions : StepKnows(saver[s])

LEMMA InitLone == StoreInit => LoneSaverInv
BY DEF StoreInit, LoneSaverInv, StepKnows, SaverStates, Idle, Steps

\* While one thread is at a step, the others are idle and hold no stream.
LEMMA OthersIdle ==
  ASSUME LoneSaverInv, OneSaverAtATime, NEW s \in Sessions, ~At(s, "idle"),
         NEW t \in Sessions, t # s
  PROVE  saver[t].step = "idle" /\ saver[t].stream = "none"
<1>1. saver[t].step = "idle"
  BY DEF OneSaverAtATime, At
<1> QED
  BY <1>1 DEF LoneSaverInv, StepKnows

\* A rename of files leaves a thread without a stream as it is.
LEMMA RenamedIdle ==
  ASSUME LoneSaverInv, NEW name \in {"destination", "unnamed"},
         NEW t \in Sessions, saver[t].stream = "none"
  PROVE  Renamed(name)[t] = saver[t]
<1>1. saver[t] \in SaverStates /\ StreamRenamed(saver[t].stream, name) = "none"
  BY DEF LoneSaverInv, StreamRenamed
<1> QED
  BY <1>1 DEF Renamed, SaverStates

\* A step of one thread that leaves the others as they are, and idle.
LEMMA StepOfOne ==
  ASSUME LoneSaverInv, NEW s \in Sessions,
         \A t \in Sessions \ {s} :
           /\ saver[t].step = "idle" /\ saver[t].stream = "none"
           /\ saver'[t] = saver[t],
         saver' \in [Sessions -> SaverStates],
         destination' \in Encodings \cup {NoFile},
         StepKnows(saver[s])'
  PROVE  LoneSaverInv'
<1>1. ASSUME NEW t \in Sessions, t # s PROVE StepKnows(saver[t])'
  BY <1>1 DEF StepKnows
<1> QED
  BY <1>1 DEF LoneSaverInv

-----------------------------------------------------------------------------
(***************************************************************************)
(* One lemma for each step; each also says what becomes of the store.      *)
(***************************************************************************)

LEMMA BeginLone ==
  ASSUME LoneSaverInv, OneSaverAtATime', NEW s \in Sessions,
         NEW bytes \in Encodings, BeginSave(s, bytes)
  PROVE  LoneSaverInv' /\ UNCHANGED destination
<1>1. /\ saver' = [saver EXCEPT ![s] =
                     [step |-> "open", bytes |-> bytes, stream |-> "none"]]
      /\ UNCHANGED destination
  BY DEF BeginSave
<1>2. saver'[s] = [step |-> "open", bytes |-> bytes, stream |-> "none"]
  BY <1>1 DEF LoneSaverInv
<1>3. saver' \in [Sessions -> SaverStates]
  BY <1>1 DEF LoneSaverInv, SaverStates, Steps
<1>4. StepKnows(saver[s])'
  BY <1>2 DEF StepKnows
<1>5. ASSUME NEW t \in Sessions \ {s}
      PROVE  /\ saver[t].step = "idle" /\ saver[t].stream = "none"
             /\ saver'[t] = saver[t]
  <2>1. saver'[t] = saver[t]
    BY <1>1 DEF LoneSaverInv
  <2>2. saver'[t].step = "idle"
    BY <1>2 DEF OneSaverAtATime, At
  <2> QED
    BY <2>1, <2>2 DEF LoneSaverInv, StepKnows
<1>6. destination' \in Encodings \cup {NoFile}
  BY <1>1 DEF LoneSaverInv
<1> QED
  BY <1>1, <1>3, <1>4, <1>5, <1>6, StepOfOne

LEMMA OpenLone ==
  ASSUME LoneSaverInv, OneSaverAtATime, NEW s \in Sessions,
         OpenTemporary(s) \/ OpenFails(s)
  PROVE  LoneSaverInv' /\ UNCHANGED destination
<1>1. saver[s].step = "open" /\ ~At(s, "idle")
  BY DEF OpenTemporary, OpenFails, At
<1>2. saver[s] \in SaverStates /\ saver[s].bytes \in Encodings
      /\ saver[s].stream = "none"
  BY <1>1 DEF LoneSaverInv, StepKnows
<1>3. /\ UNCHANGED destination
      /\ saver' \in [Sessions -> SaverStates]
      /\ \A t \in Sessions \ {s} : saver'[t] = saver[t]
  BY DEF LoneSaverInv, SaverStates, Steps, OpenTemporary, OpenFails
<1>4. StepKnows(saver[s])'
  <2>1. CASE OpenTemporary(s)
    <3>1. /\ temporary' = Truncated
          /\ saver'[s] = [saver[s] EXCEPT !.step = "write", !.stream = "temporary"]
      BY <2>1 DEF OpenTemporary, LoneSaverInv
    <3> QED BY <1>2, <3>1 DEF StepKnows, SaverStates
  <2>2. CASE OpenFails(s)
    <3>1. saver'[s] = [saver[s] EXCEPT !.step = "failed"]
      BY <2>2 DEF OpenFails, LoneSaverInv
    <3> QED BY <1>2, <3>1 DEF StepKnows, SaverStates
  <2> QED BY <2>1, <2>2
<1>5. destination' \in Encodings \cup {NoFile}
  BY <1>3 DEF LoneSaverInv
<1> QED
  BY <1>1, <1>3, <1>4, <1>5, OthersIdle, StepOfOne

LEMMA WriteLone ==
  ASSUME LoneSaverInv, OneSaverAtATime, NEW s \in Sessions, WriteTemporary(s)
  PROVE  LoneSaverInv' /\ UNCHANGED destination
<1>1. saver[s].step = "write" /\ ~At(s, "idle")
  BY DEF WriteTemporary, At
<1>2. /\ saver[s] \in SaverStates /\ saver[s].bytes \in Encodings
      /\ saver[s].stream = "temporary" /\ temporary = Truncated
  BY <1>1 DEF LoneSaverInv, StepKnows
<1>3. /\ temporary' = saver[s].bytes
      /\ UNCHANGED destination
      /\ saver' = [saver EXCEPT ![s].step = "rename", ![s].stream = "none"]
  BY <1>2 DEF WriteTemporary, Overwritten
<1>4. /\ saver' \in [Sessions -> SaverStates]
      /\ \A t \in Sessions \ {s} : saver'[t] = saver[t]
      /\ saver'[s] = [saver[s] EXCEPT !.step = "rename", !.stream = "none"]
  BY <1>3 DEF LoneSaverInv, SaverStates, Steps
<1>5. StepKnows(saver[s])'
  BY <1>2, <1>3, <1>4 DEF StepKnows, SaverStates
<1>6. destination' \in Encodings \cup {NoFile}
  BY <1>3 DEF LoneSaverInv
<1> QED
  BY <1>1, <1>3, <1>4, <1>5, <1>6, OthersIdle, StepOfOne

LEMMA WriteFailsLone ==
  ASSUME LoneSaverInv, OneSaverAtATime, NEW s \in Sessions, WriteFails(s)
  PROVE  LoneSaverInv' /\ UNCHANGED destination
<1>1. saver[s].step = "write" /\ ~At(s, "idle")
  BY DEF WriteFails, At
<1>2. /\ UNCHANGED destination
      /\ saver' = [Renamed("unnamed") EXCEPT ![s].step = "failed", ![s].stream = "none"]
  BY DEF WriteFails, RemoveTemporary
<1>3. ASSUME NEW t \in Sessions, t # s
      PROVE  /\ saver[t].step = "idle" /\ saver[t].stream = "none"
             /\ saver'[t] = saver[t]
  <2>1. saver[t].step = "idle" /\ saver[t].stream = "none"
    BY <1>1, <1>3, OthersIdle
  <2>2. Renamed("unnamed")[t] = saver[t]
    BY <2>1, RenamedIdle
  <2>3. saver'[t] = Renamed("unnamed")[t]
    BY <1>2, <1>3 DEF Renamed
  <2> QED BY <2>1, <2>2, <2>3
<1>4. /\ saver'[s].step = "failed" /\ saver'[s].stream = "none"
      /\ saver'[s] \in SaverStates
  <2>1. Renamed("unnamed")[s] \in SaverStates
    <3>1. /\ saver[s] \in SaverStates
          /\ StreamRenamed(saver[s].stream, "unnamed")
               \in {"none", "temporary", "destination", "unnamed"}
      BY DEF LoneSaverInv, SaverStates, StreamRenamed
    <3> QED BY <3>1 DEF Renamed, SaverStates
  <2>2. saver'[s] = [Renamed("unnamed")[s] EXCEPT !.step = "failed", !.stream = "none"]
    BY <1>2 DEF Renamed
  <2> QED BY <2>1, <2>2 DEF SaverStates, Steps
<1>5. saver' \in [Sessions -> SaverStates]
  <2>1. DOMAIN saver' = Sessions /\ saver' = [t \in Sessions |-> saver'[t]]
    BY <1>2 DEF Renamed
  <2>2. \A t \in Sessions : saver'[t] \in SaverStates
    BY <1>3, <1>4 DEF LoneSaverInv
  <2> QED BY <2>1, <2>2
<1>6. StepKnows(saver[s])'
  BY <1>4 DEF StepKnows
<1>7. destination' \in Encodings \cup {NoFile}
  BY <1>2 DEF LoneSaverInv
<1> QED
  BY <1>2, <1>3, <1>5, <1>6, <1>7, StepOfOne

\* The one step that changes the store: to the bytes of the lone saver.
LEMMA RenameLone ==
  ASSUME LoneSaverInv, OneSaverAtATime, NEW s \in Sessions, RenameTemporary(s)
  PROVE  LoneSaverInv' /\ destination' \in Encodings
<1>1. saver[s].step = "rename" /\ ~At(s, "idle")
  BY DEF RenameTemporary, At, LoneSaverInv, StepKnows
<1>2. /\ saver[s] \in SaverStates /\ saver[s].bytes \in Encodings
      /\ saver[s].stream = "none" /\ temporary = saver[s].bytes
  BY <1>1 DEF LoneSaverInv, StepKnows
<1>3. temporary # NoFile
  BY <1>2, EncodingsAssumption
<1>4. /\ destination' = temporary
      /\ saver' = [Renamed("destination") EXCEPT ![s].step = "saved"]
  BY <1>3 DEF RenameTemporary
<1>5. ASSUME NEW t \in Sessions, t # s
      PROVE  /\ saver[t].step = "idle" /\ saver[t].stream = "none"
             /\ saver'[t] = saver[t]
  <2>1. saver[t].step = "idle" /\ saver[t].stream = "none"
    BY <1>1, <1>5, OthersIdle
  <2>2. Renamed("destination")[t] = saver[t]
    BY <2>1, RenamedIdle
  <2>3. saver'[t] = Renamed("destination")[t]
    BY <1>4, <1>5 DEF Renamed
  <2> QED BY <2>1, <2>2, <2>3
<1>6. /\ saver'[s].step = "saved" /\ saver'[s].stream = "none"
      /\ saver'[s] \in SaverStates
  <2>1. Renamed("destination")[s] = saver[s]
    BY <1>2, RenamedIdle
  <2>2. saver'[s] = [Renamed("destination")[s] EXCEPT !.step = "saved"]
    BY <1>4 DEF Renamed
  <2> QED BY <1>2, <2>1, <2>2 DEF SaverStates, Steps
<1>7. saver' \in [Sessions -> SaverStates]
  <2>1. DOMAIN saver' = Sessions /\ saver' = [t \in Sessions |-> saver'[t]]
    BY <1>4 DEF Renamed
  <2>2. \A t \in Sessions : saver'[t] \in SaverStates
    BY <1>5, <1>6 DEF LoneSaverInv
  <2> QED BY <2>1, <2>2
<1>8. StepKnows(saver[s])'
  BY <1>6 DEF StepKnows
<1>9. destination' \in Encodings
  BY <1>2, <1>4
<1> QED
  BY <1>5, <1>7, <1>8, <1>9, StepOfOne

\* The fallback that removes the store, and what follows it, is out of reach.
LEMMA NoFallback ==
  ASSUME LoneSaverInv, NEW s \in Sessions
  PROVE  ~RemoveDestination(s) /\ ~DiscardTemporary(s)
BY DEF LoneSaverInv, StepKnows, RemoveDestination, DiscardTemporary, At

LEMMA EndLone ==
  ASSUME LoneSaverInv, OneSaverAtATime, NEW s \in Sessions, EndSave(s)
  PROVE  LoneSaverInv' /\ UNCHANGED destination
<1>1. ~At(s, "idle")
  BY DEF EndSave, At
<1>2. /\ UNCHANGED destination
      /\ saver' \in [Sessions -> SaverStates]
      /\ saver'[s] = Idle
      /\ \A t \in Sessions \ {s} : saver'[t] = saver[t]
  BY DEF EndSave, Idle, LoneSaverInv, SaverStates, Steps
<1>3. StepKnows(saver[s])'
  BY <1>2 DEF StepKnows, Idle
<1>4. destination' \in Encodings \cup {NoFile}
  BY <1>2 DEF LoneSaverInv
<1> QED
  BY <1>1, <1>2, <1>3, <1>4, OthersIdle, StepOfOne

LEMMA KillLone ==
  ASSUME LoneSaverInv, KillSavers
  PROVE  LoneSaverInv' /\ UNCHANGED destination
BY DEF KillSavers, Idle, LoneSaverInv, SaverStates, Steps, StepKnows

LEMMA StepLone ==
  ASSUME LoneSaverInv, OneSaverAtATime, OneSaverAtATime', [StoreNext]_storeVars
  PROVE  LoneSaverInv' /\ (destination' = destination \/ destination' \in Encodings)
<1>1. ASSUME NEW s \in Sessions, NEW bytes \in Encodings, BeginSave(s, bytes)
      PROVE  LoneSaverInv' /\ destination' = destination
  BY <1>1, BeginLone
<1>2. ASSUME NEW s \in Sessions, SaveStep(s)
      PROVE  LoneSaverInv' /\ (destination' = destination \/ destination' \in Encodings)
  BY <1>2, OpenLone, WriteLone, WriteFailsLone, RenameLone, NoFallback DEF SaveStep
<1>3. ASSUME NEW s \in Sessions, EndSave(s)
      PROVE  LoneSaverInv' /\ destination' = destination
  BY <1>3, EndLone
<1>4. CASE KillSavers
  BY <1>4, KillLone
<1>5. CASE UNCHANGED storeVars
  BY <1>5 DEF storeVars, LoneSaverInv, StepKnows
<1> QED
  BY <1>1, <1>2, <1>3, <1>4, <1>5 DEF StoreNext

-----------------------------------------------------------------------------
(***************************************************************************)
(* persistence.hpp, write_store_atomic: a crash mid-save leaves either the *)
(* old store or the new one, as long as one thread saves at a time; and    *)
(* the fallback that removes the store is then never taken.                *)
(***************************************************************************)
THEOREM LoneSaverReplacesWhole ==
  StoreSpec /\ []OneSaverAtATime => StoreIsReplacedWhole
<1>1. StoreInit => LoneSaverInv
  BY InitLone
<1>2. LoneSaverInv /\ OneSaverAtATime /\ OneSaverAtATime' /\ [StoreNext]_storeVars
        => LoneSaverInv'
  BY StepLone
<1>3. LoneSaverInv /\ OneSaverAtATime /\ OneSaverAtATime' /\ [StoreNext]_storeVars
        => [Readable']_destination
  <2> SUFFICES ASSUME LoneSaverInv, OneSaverAtATime, OneSaverAtATime',
                      [StoreNext]_storeVars, destination' # destination
               PROVE  Readable'
    OBVIOUS
  <2>1. destination' \in Encodings
    BY StepLone
  <2> QED
    BY <2>1, EncodingsAssumption DEF Readable
<1> QED
  BY <1>1, <1>2, <1>3, PTL DEF StoreSpec, StoreIsReplacedWhole

-----------------------------------------------------------------------------
(***************************************************************************)
(* The coordinator and the durable states of its engine.                   *)
(***************************************************************************)

\* build_durable and encode_durable_state: what a store may hold is exactly
\* what an engine may have to save.
EncodesDurableStates == Encodings = DurableStates

-----------------------------------------------------------------------------
(***************************************************************************)
(* The engine, as the coordinator calls it.                                *)
(***************************************************************************)

\* A publisher is live exactly when its registration names a boot.
LEMMA EngineLive ==
  ASSUME Engine!TypeOK, NEW p \in Publishers
  PROVE  /\ p \in Engine!Live <=> registrations[p].boot \in Boots
         /\ p \in Engine!Live <=> registrations[p].boot # "none"
         /\ p \in Engine!Live <=> registrations[p] # Engine!NoRegistration
BY EngineAssumption
DEF Engine!TypeOK, Engine!Live, Engine!Registration, Engine!NoRegistration, Engine!NoBoot

LEMMA EngineRegisterTyped ==
  ASSUME Engine!TypeOK, NEW p \in Publishers, NEW b \in Boots, NEW s \in Sessions,
         NEW scope \in Scopes, Engine!RegisterPublisher(p, b, s, scope)
  PROVE  Engine!TypeOK'
<1> DEFINE r == [boot |-> b, session |-> s, scope |-> scope, epoch |-> epoch]
<1>1. r \in Engine!Registration
  BY DEF Engine!TypeOK, Engine!Registration
<1>2. registrations' \in [Publishers -> Engine!Registration \cup {Engine!NoRegistration}]
  BY <1>1 DEF Engine!TypeOK, Engine!RegisterPublisher
<1>3. fencedBoots' \subseteq Boots /\ fences' \in [Publishers \X Boots -> Nat]
  <2>1. CASE p \in Engine!Live /\ registrations[p].boot # b
    <3> DEFINE old == registrations[p].boot
    <3>1. old \in Boots
      BY <2>1, EngineLive
    <3>2. fencedBoots' = fencedBoots \cup {old}
          /\ fences' = [fences EXCEPT ![<<p, old>>] = @ + 1]
      BY <2>1 DEF Engine!RegisterPublisher
    <3> HIDE DEF old
    <3> QED BY <3>1, <3>2 DEF Engine!TypeOK
  <2>2. CASE ~(p \in Engine!Live /\ registrations[p].boot # b)
    BY <2>2 DEF Engine!TypeOK, Engine!RegisterPublisher
  <2> QED BY <2>1, <2>2
<1> QED BY <1>2, <1>3 DEF Engine!TypeOK, Engine!RegisterPublisher

LEMMA EngineFenceTyped ==
  ASSUME Engine!TypeOK, NEW p \in Publishers, NEW b, Engine!FencePublisher(p, b)
  PROVE  b \in Boots /\ Engine!TypeOK'
<1>1. b \in Boots
  BY EngineLive DEF Engine!FencePublisher
<1> QED
  BY <1>1 DEF Engine!TypeOK, Engine!FencePublisher

LEMMA EngineClearedTyped ==
  ASSUME Engine!ClearAttempts
  PROVE  /\ attempts' \in [Sessions \X (1 .. MaxFrames)
                             -> Engine!Fingerprints \cup {Engine!NoFingerprint}]
         /\ attemptOrder' \in Seq(Sessions \X (1 .. MaxFrames))
         /\ accepted' \in Seq([publisher : Publishers, boot : Boots,
                               attempt : Sessions \X (1 .. MaxFrames), payload : Payloads])
         /\ recorded' \in Seq(Sessions \X (1 .. MaxFrames))
BY DEF Engine!ClearAttempts, Engine!NoAttempts

LEMMA EngineAdvanceTyped ==
  ASSUME Engine!TypeOK, Engine!AdvanceEpoch
  PROVE  Engine!TypeOK'
<1>1. epoch' \in Engine!Generations /\ StoredGenerations' = StoredGenerations
  BY EngineAssumption DEF Engine!TypeOK, Engine!AdvanceEpoch, Engine!Generations
<1>2. CASE authority < MaxGeneration
  <2>1. authority' \in Engine!Generations
    BY <1>2, EngineAssumption DEF Engine!TypeOK, Engine!AdvanceEpoch, Engine!Generations
  <2>2. fencedBoots' \subseteq Boots
    <3>1. fencedBoots' = fencedBoots \cup {registrations[p].boot : p \in Engine!Live}
      BY <1>2 DEF Engine!AdvanceEpoch
    <3>2. \A p \in Engine!Live : registrations[p].boot \in Boots
      BY EngineLive DEF Engine!Live
    <3>3. fencedBoots \subseteq Boots
      BY DEF Engine!TypeOK
    <3> QED BY <3>1, <3>2, <3>3
  <2>3. fences' \in [Publishers \X Boots -> Nat]
    <3>1. fences' = [f \in Publishers \X Boots |->
             IF f[1] \in Engine!Live /\ registrations[f[1]].boot = f[2]
             THEN fences[f] + 1 ELSE fences[f]]
      BY <1>2 DEF Engine!AdvanceEpoch
    <3>2. fences \in [Publishers \X Boots -> Nat]
      BY DEF Engine!TypeOK
    <3> QED BY <3>1, <3>2
  <2>4. registrations' \in [Publishers -> Engine!Registration \cup {Engine!NoRegistration}]
    BY <1>2 DEF Engine!AdvanceEpoch, Engine!AfterAdvance, Engine!NoRegistrations
  <2>5. Engine!ClearAttempts
    BY <1>2 DEF Engine!AdvanceEpoch
  <2> QED
    BY <1>1, <2>1, <2>2, <2>3, <2>4, <2>5, EngineClearedTyped DEF Engine!TypeOK
<1>3. CASE ~(authority < MaxGeneration)
  BY <1>1, <1>3 DEF Engine!TypeOK, Engine!AdvanceEpoch
<1> QED BY <1>2, <1>3

LEMMA EngineRecordTyped ==
  ASSUME Engine!TypeOK, NEW a \in Sessions \X (1 .. MaxFrames), NEW pl \in Payloads,
         Engine!RecordAttempt(a, pl)
  PROVE  /\ attempts' \in [Sessions \X (1 .. MaxFrames)
                             -> Engine!Fingerprints \cup {Engine!NoFingerprint}]
         /\ attemptOrder' \in Seq(Sessions \X (1 .. MaxFrames))
         /\ recorded' \in Seq(Sessions \X (1 .. MaxFrames))
<1> DEFINE order == Append(attemptOrder, a)
           table == [attempts EXCEPT ![a] = Engine!Fingerprint(pl)]
<1>1. order \in Seq(Sessions \X (1 .. MaxFrames))
      /\ Head(order) \in Sessions \X (1 .. MaxFrames)
      /\ Tail(order) \in Seq(Sessions \X (1 .. MaxFrames))
  <2>1. order \in Seq(Sessions \X (1 .. MaxFrames)) /\ Len(order) = Len(attemptOrder) + 1
        /\ Len(attemptOrder) \in Nat
    BY DEF Engine!TypeOK
  <2>2. order # <<>>
    BY <2>1, SMTT(30)
  <2> QED BY <2>1, <2>2, HeadTailProperties
<1>2. table \in [Sessions \X (1 .. MaxFrames)
                   -> Engine!Fingerprints \cup {Engine!NoFingerprint}]
  BY DEF Engine!TypeOK, Engine!Fingerprints
<1>3. recorded' \in Seq(Sessions \X (1 .. MaxFrames))
  BY DEF Engine!TypeOK, Engine!RecordAttempt
<1> QED BY <1>1, <1>2, <1>3 DEF Engine!RecordAttempt, Engine!Erased

LEMMA EngineRequestTyped ==
  ASSUME Engine!TypeOK, NEW c \in Engine!Contexts, NEW a \in Sessions \X (1 .. MaxFrames),
         NEW pl \in Payloads, Engine!Mutate(c, a, pl) \/ Engine!ApplyPrefix(c, a, pl)
  PROVE  Engine!TypeOK'
<1>1. [publisher |-> c.publisher, boot |-> c.boot, attempt |-> a, payload |-> pl]
        \in [publisher : Publishers, boot : Boots, attempt : Sessions \X (1 .. MaxFrames),
             payload : Payloads]
  BY DEF Engine!Contexts
<1>2. accepted' \in Seq([publisher : Publishers, boot : Boots,
                         attempt : Sessions \X (1 .. MaxFrames), payload : Payloads])
  <2> DEFINE request == [publisher |-> c.publisher, boot |-> c.boot, attempt |-> a,
                         payload |-> pl]
  <2>1. accepted' = Append(accepted, request)
    BY DEF Engine!Mutate, Engine!ApplyPrefix, Engine!CarriedOut
  <2>2. accepted \in Seq([publisher : Publishers, boot : Boots,
                          attempt : Sessions \X (1 .. MaxFrames), payload : Payloads])
    BY DEF Engine!TypeOK
  <2> HIDE DEF request
  <2> QED BY <1>1, <2>1, <2>2 DEF request
<1>3. Engine!RecordAttempt(a, pl) \/ UNCHANGED <<attempts, attemptOrder, recorded>>
  BY DEF Engine!Mutate, Engine!ApplyPrefix
<1>4. UNCHANGED Engine!authorityKept
  BY DEF Engine!Mutate, Engine!ApplyPrefix
<1> QED
  BY <1>2, <1>3, <1>4, EngineRecordTyped DEF Engine!TypeOK, Engine!authorityKept

LEMMA EngineRestartTyped ==
  ASSUME Engine!TypeOK, Engine!Recover \/ Engine!Construct
  PROVE  Engine!TypeOK'
<1>1. /\ epoch' \in Engine!Generations /\ authority' \in Engine!Generations
      /\ StoredGenerations' = StoredGenerations
  BY EngineAssumption
  DEF Engine!TypeOK, Engine!Recover, Engine!Construct, Engine!Recoverable,
      Engine!Generations, Engine!NoStore
<1>2. Engine!FreshState
  BY DEF Engine!Recover, Engine!Construct
<1>3. /\ registrations' \in [Publishers -> Engine!Registration \cup {Engine!NoRegistration}]
      /\ fencedBoots' \subseteq Boots
      /\ fences' \in [Publishers \X Boots -> Nat]
  BY <1>2 DEF Engine!FreshState, Engine!NoRegistrations, Engine!NoFences
<1>4. Engine!ClearAttempts
  BY <1>2 DEF Engine!FreshState
<1> QED BY <1>1, <1>3, <1>4, EngineClearedTyped DEF Engine!TypeOK

-----------------------------------------------------------------------------
(***************************************************************************)
(* The store, with any number of threads in it.                            *)
(***************************************************************************)

LEMMA OpenTyped ==
  ASSUME StoreTypeOK, NEW s \in Sessions, OpenTemporary(s) \/ OpenFails(s)
  PROVE  StoreTypeOK'
BY DEF StoreTypeOK, OpenTemporary, OpenFails, Steps

LEMMA WriteTyped ==
  ASSUME StoreTypeOK, NEW s \in Sessions, WriteTemporary(s)
  PROVE  StoreTypeOK'
<1>1. /\ temporary' \in {temporary, saver[s].bytes, Mixed}
      /\ destination' \in {destination, saver[s].bytes, Mixed}
  BY DEF WriteTemporary, Overwritten
<1>2. saver' = [saver EXCEPT ![s].step = "rename", ![s].stream = "none"]
  BY DEF WriteTemporary
<1>3. saver' \in [Sessions -> SaverStates]
  BY <1>2 DEF StoreTypeOK, SaverStates, Steps
<1>4. saver[s].bytes \in Encodings \cup {NoFile}
  BY DEF StoreTypeOK, NoBytes, NoFile
<1> QED BY <1>1, <1>3, <1>4 DEF StoreTypeOK, SaverStates

LEMMA RenamedTyped ==
  ASSUME StoreTypeOK, NEW name \in {"destination", "unnamed"}
  PROVE  Renamed(name) \in [Sessions -> SaverStates]
<1> SUFFICES ASSUME NEW t \in Sessions
             PROVE  [saver[t] EXCEPT !.stream = StreamRenamed(saver[t].stream, name)]
                      \in SaverStates
  BY DEF Renamed
<1>1. StreamRenamed(saver[t].stream, name) \in {"none", "temporary", "destination", "unnamed"}
  BY DEF StoreTypeOK, StreamRenamed
<1> QED BY <1>1 DEF StoreTypeOK, SaverStates

LEMMA RemoveTemporaryTyped ==
  ASSUME StoreTypeOK, NEW s \in Sessions, RemoveTemporary(s, "failed")
  PROVE  StoreTypeOK'
<1>1. saver' = [Renamed("unnamed") EXCEPT ![s].step = "failed", ![s].stream = "none"]
  BY DEF RemoveTemporary
<1>2. saver' \in [Sessions -> SaverStates]
  <2> DEFINE r == Renamed("unnamed")
  <2>1. r \in [Sessions -> SaverStates]
    BY RenamedTyped
  <2>2. saver' = [r EXCEPT ![s].step = "failed", ![s].stream = "none"]
    BY <1>1
  <2> HIDE DEF r
  <2> QED BY <2>1, <2>2 DEF SaverStates, Steps
<1> QED BY <1>2 DEF StoreTypeOK, SaverStates, RemoveTemporary

LEMMA RenameTyped ==
  ASSUME StoreTypeOK, NEW s \in Sessions, RenameTemporary(s)
  PROVE  StoreTypeOK'
<1>1. CASE temporary # NoFile
  <2> DEFINE r == Renamed("destination")
  <2>1. r \in [Sessions -> SaverStates]
    BY RenamedTyped
  <2>2. saver' = [r EXCEPT ![s].step = "saved"]
        /\ destination' = temporary /\ temporary' = NoFile
    BY <1>1 DEF RenameTemporary
  <2> HIDE DEF r
  <2>3. saver' \in [Sessions -> SaverStates]
    BY <2>1, <2>2 DEF SaverStates, Steps
  <2> QED BY <2>2, <2>3 DEF StoreTypeOK, SaverStates
<1>2. CASE temporary = NoFile
  <2>1. \E step \in Steps : saver' = [saver EXCEPT ![s].step = step]
    <3>1. saver' = [saver EXCEPT ![s].step =
                      IF At(s, "rename") THEN "remove" ELSE "discard"]
      BY <1>2 DEF RenameTemporary
    <3> QED BY <3>1 DEF Steps
  <2> QED BY <1>2, <2>1 DEF StoreTypeOK, RenameTemporary
<1> QED BY <1>1, <1>2

LEMMA RemoveDestinationTyped ==
  ASSUME StoreTypeOK, NEW s \in Sessions, RemoveDestination(s)
  PROVE  StoreTypeOK'
<1>1. \A t \in Sessions :
        /\ [saver[t] EXCEPT !.step = "retry"] \in SaverStates
        /\ [saver[t] EXCEPT !.stream = IF @ = "destination" THEN "unnamed" ELSE @]
             \in SaverStates
  BY DEF StoreTypeOK, SaverStates, Steps
<1>2. saver' \in [Sessions -> SaverStates]
  BY <1>1 DEF RemoveDestination
<1> QED BY <1>2 DEF StoreTypeOK, SaverStates, RemoveDestination

LEMMA SaveStepTyped ==
  ASSUME StoreTypeOK, NEW s \in Sessions, SaveStep(s)
  PROVE  StoreTypeOK'
<1>1. CASE OpenTemporary(s) \/ OpenFails(s)
  BY <1>1, OpenTyped
<1>2. CASE WriteTemporary(s)
  BY <1>2, WriteTyped
<1>3. CASE WriteFails(s) \/ DiscardTemporary(s)
  BY <1>3, RemoveTemporaryTyped DEF WriteFails, DiscardTemporary
<1>4. CASE RenameTemporary(s)
  BY <1>4, RenameTyped
<1>5. CASE RemoveDestination(s)
  BY <1>5, RemoveDestinationTyped
<1> QED BY <1>1, <1>2, <1>3, <1>4, <1>5 DEF SaveStep

\* A step of a save is a step of one thread that is saving and goes on saving:
\* what it does to the streams of others leaves their steps alone.
LEMMA SaveStepOfOne ==
  ASSUME StoreTypeOK, NEW s \in Sessions, SaveStep(s)
  PROVE  /\ saver[s].step # "idle" /\ saver'[s].step # "idle"
         /\ \A t \in Sessions \ {s} : saver'[t].step = saver[t].step
<1>0. saver \in [Sessions -> SaverStates]
  BY DEF StoreTypeOK, SaverStates
<1>1. ASSUME NEW name, NEW t \in Sessions
      PROVE  Renamed(name)[t].step = saver[t].step
  BY <1>0 DEF Renamed, SaverStates
<1>2. CASE OpenTemporary(s) \/ OpenFails(s) \/ WriteTemporary(s)
  BY <1>0, <1>2 DEF OpenTemporary, OpenFails, WriteTemporary, At, SaverStates
<1>3. CASE WriteFails(s) \/ DiscardTemporary(s)
  <2> DEFINE r == Renamed("unnamed")
  <2>1. /\ saver' = [r EXCEPT ![s].step = "failed", ![s].stream = "none"]
        /\ saver[s].step # "idle"
    BY <1>3 DEF WriteFails, DiscardTemporary, RemoveTemporary, At
  <2>2. r \in [Sessions -> SaverStates]
    BY RenamedTyped
  <2>3. \A t \in Sessions : r[t].step = saver[t].step
    BY <1>1
  <2> HIDE DEF r
  <2> QED BY <2>1, <2>2, <2>3 DEF SaverStates
<1>4. CASE RenameTemporary(s)
  <2>0. saver[s].step # "idle"
    BY <1>4 DEF RenameTemporary, At
  <2>1. CASE temporary # NoFile
    <3> DEFINE r == Renamed("destination")
    <3>1. saver' = [r EXCEPT ![s].step = "saved"]
      BY <1>4, <2>1 DEF RenameTemporary
    <3>2. r \in [Sessions -> SaverStates]
      BY RenamedTyped
    <3>3. \A t \in Sessions : r[t].step = saver[t].step
      BY <1>1
    <3> HIDE DEF r
    <3> QED BY <2>0, <3>1, <3>2, <3>3 DEF SaverStates
  <2>2. CASE temporary = NoFile
    <3>1. \E step \in {"remove", "discard"} : saver' = [saver EXCEPT ![s].step = step]
      BY <1>4, <2>2 DEF RenameTemporary
    <3> QED BY <1>0, <2>0, <3>1 DEF SaverStates
  <2> QED BY <2>1, <2>2
<1>5. CASE RemoveDestination(s)
  <2>1. \A t \in Sessions :
          saver'[t] = IF t = s THEN [saver[t] EXCEPT !.step = "retry"]
                      ELSE [saver[t] EXCEPT !.stream =
                              IF @ = "destination" THEN "unnamed" ELSE @]
    BY <1>5 DEF RemoveDestination
  <2> QED BY <1>0, <1>5, <2>1 DEF SaverStates, RemoveDestination, At
<1> QED BY <1>2, <1>3, <1>4, <1>5 DEF SaveStep

LEMMA BeginEndTyped ==
  ASSUME StoreTypeOK, NEW s \in Sessions,
         (\E bytes \in Encodings : BeginSave(s, bytes)) \/ EndSave(s)
  PROVE  StoreTypeOK'
BY DEF StoreTypeOK, BeginSave, EndSave, Idle, Steps

LEMMA KillTyped ==
  ASSUME StoreTypeOK, KillSavers
  PROVE  StoreTypeOK'
BY DEF StoreTypeOK, KillSavers, Idle, Steps

\* The generations of a readable store are generations of an engine.
LEMMA StoredTyped ==
  ASSUME EncodesDurableStates, StoreTypeOK
  PROVE  /\ StoredGenerations \in [epoch : Engine!Generations, authority : Engine!Generations]
              \cup {Engine!NoStore}
         /\ Readable => /\ destination \in DurableStates
                        /\ destination[3] \in Nat
BY DEF StoreTypeOK, EncodesDurableStates, DurableStates, StoredGenerations, Readable,
       Engine!Generations, Engine!NoStore

-----------------------------------------------------------------------------
(***************************************************************************)
(* The sessions.  ThreadOK says what a thread at each step can rely on:    *)
(* a mutation was dispatched by a registered session and has read an       *)
(* epoch, only a lost session fences, and a thread is in a save exactly    *)
(* while write_store_atomic has a step for it.                             *)
(***************************************************************************)

SessionsOK ==
  /\ config \in Configurations /\ running \in BOOLEAN
  /\ pc \in [Sessions -> ThreadSteps]
  /\ ended \in [Sessions -> {"no", "CLEAN_BYE", "SERVER_STOPPING", "LOST"}]
  /\ connected \in [Sessions -> BOOLEAN]
  /\ identity \in [Sessions -> [publisher : Publishers, boot : Boots] \cup {NoIdentity}]
  /\ dispatched \in [Sessions -> 0 .. MaxFrames]
  /\ context \in [Sessions -> 0 .. MaxGeneration]
  /\ answer \in [Sessions -> [epoch : 0 .. MaxGeneration, revision : Nat]]
  /\ revision \in Nat
  /\ acked \in [epoch : 0 .. MaxGeneration, revision : Nat]

ThreadOK(s) ==
  /\ pc[s] = "mutating" => context[s] # 0 /\ Registered(s) /\ dispatched[s] # 0
  /\ pc[s] = "fencing" => Registered(s)
  /\ pc[s] \in {"ending", "fencing"} => ended[s] = "LOST"
  /\ pc[s] \in {"free", "reading", "mutating"} => ended[s] = "no"
  /\ pc[s] \in {"encoding", "saving"} => config.persistent /\ ended[s] \in {"no", "LOST"}
  /\ pc[s] = "free" => ~Registered(s)
  /\ pc[s] = "saving" <=> saver[s].step # "idle"

ThreadsInv ==
  /\ Engine!TypeOK /\ StoreTypeOK /\ SessionsOK
  /\ \A s \in Sessions : ThreadOK(s)

LEMMA ThreadsAreTyped == ThreadsInv => CoordinatorTypeOK
BY DEF ThreadsInv, SessionsOK, CoordinatorTypeOK

\* The engine is not called: what it holds stays well formed.
LEMMA EngineKept ==
  ASSUME EncodesDurableStates, ThreadsInv, UNCHANGED engineVars, StoreTypeOK'
  PROVE  Engine!TypeOK'
<1>1. StoredGenerations' \in
        [epoch : Engine!Generations, authority : Engine!Generations] \cup {Engine!NoStore}
  BY DEF StoreTypeOK, EncodesDurableStates, DurableStates, StoredGenerations, Readable,
         Engine!Generations, Engine!NoStore
<1> QED BY <1>1 DEF ThreadsInv, Engine!TypeOK, engineVars

\* A step of one thread that leaves the others where they are.
LEMMA ThreadMoves ==
  ASSUME ThreadsInv, NEW s \in Sessions, Engine!TypeOK', StoreTypeOK', SessionsOK',
         ThreadOK(s)', UNCHANGED config,
         \A t \in Sessions \ {s} :
           /\ pc'[t] = pc[t] /\ context'[t] = context[t] /\ identity'[t] = identity[t]
           /\ dispatched'[t] = dispatched[t] /\ ended'[t] = ended[t]
           /\ saver'[t].step = saver[t].step
  PROVE  ThreadsInv'
<1>1. ASSUME NEW t \in Sessions \ {s} PROVE ThreadOK(t)'
  BY DEF ThreadsInv, ThreadOK, Registered
<1> QED BY <1>1 DEF ThreadsInv

LEMMA InitThreads ==
  ASSUME EncodesDurableStates, Init
  PROVE  ThreadsInv
<1>1. StoreTypeOK
  BY DEF Init, StoreInit, StoreTypeOK, Idle, Steps
<1>2. SessionsOK /\ \A s \in Sessions : ThreadOK(s)
  BY CoordinatorAssumption, EngineAssumption
  DEF Init, StoreInit, Idle, SessionsOK, ThreadOK, Registered, NoAnswer, ThreadSteps
<1>3. Engine!TypeOK
  <2>1. StoredGenerations = Engine!NoStore
    BY DEF Init, StoreInit, StoredGenerations, Readable, Engine!NoStore
  <2> QED
    BY <2>1, EngineAssumption
    DEF Init, Engine!TypeOK, Engine!Generations, Engine!NoRegistrations, Engine!NoFences,
        Engine!NoAttempts
<1> QED BY <1>1, <1>2, <1>3 DEF ThreadsInv

\* The steps that call neither the engine nor the store.
Idling(s) ==
  \/ AcceptSession(s) \/ PeerVanishes(s) \/ HandleOther(s) \/ MakeContext(s)
  \/ LoseSession(s) \/ SayGoodbye(s) \/ LeaveStopping(s) \/ EndLostSession(s)

LEMMA IdlingThreads ==
  ASSUME EncodesDurableStates, ThreadsInv, NEW s \in Sessions, Idling(s)
  PROVE  ThreadsInv'
<1>1. UNCHANGED <<engineVars, storeVars, config, running, identity, answer, revision, acked>>
  BY DEF Idling, AcceptSession, PeerVanishes, HandleOther, MakeContext, LoseSession,
         SayGoodbye, LeaveStopping, EndLostSession
<1>2. StoreTypeOK' /\ Engine!TypeOK'
  <2>1. StoreTypeOK'
    BY <1>1 DEF ThreadsInv, StoreTypeOK, storeVars
  <2> QED BY <1>1, <2>1, EngineKept
<1>3. /\ \A t \in Sessions \ {s} :
           /\ pc'[t] = pc[t] /\ context'[t] = context[t] /\ identity'[t] = identity[t]
           /\ dispatched'[t] = dispatched[t] /\ ended'[t] = ended[t]
           /\ saver'[t].step = saver[t].step
      /\ SessionsOK' /\ ThreadOK(s)'
  <2> USE <1>1 DEF ThreadsInv, SessionsOK, ThreadOK, Registered, storeVars, Set, ThreadSteps
  <2>1. CASE AcceptSession(s)
    BY <2>1 DEF AcceptSession
  <2>2. CASE PeerVanishes(s)
    BY <2>2 DEF PeerVanishes
  <2>3. CASE HandleOther(s)
    BY <2>3, CoordinatorAssumption DEF HandleOther, Dispatch
  <2>4. CASE MakeContext(s)
    <3>1. epoch \in 1 .. MaxGeneration
      BY DEF Engine!TypeOK, Engine!Generations
    <3>2. epoch \in 0 .. MaxGeneration /\ epoch # 0
      BY <3>1, EngineAssumption
    <3> QED BY <2>4, <3>2, CoordinatorAssumption DEF MakeContext, Dispatch
  <2>5. CASE LoseSession(s)
    BY <2>5 DEF LoseSession
  <2>6. CASE SayGoodbye(s) \/ LeaveStopping(s)
    <3>1. \E end \in {"CLEAN_BYE", "SERVER_STOPPING"} :
            /\ pc' = [pc EXCEPT ![s] = "done"] /\ connected' = [connected EXCEPT ![s] = FALSE]
            /\ dispatched' = [dispatched EXCEPT ![s] = 0]
            /\ ended' = [ended EXCEPT ![s] = end] /\ UNCHANGED context
            /\ pc[s] = "reading"
      BY <2>6 DEF SayGoodbye, LeaveStopping, EndSession
    <3> QED BY <3>1, CoordinatorAssumption
  <2>7. CASE EndLostSession(s)
    <3>1. UNCHANGED <<context, ended>> /\ pc[s] = "ending"
      BY <2>7 DEF EndLostSession
    <3>2. CASE MustFence(s)
      <4>1. pc' = [pc EXCEPT ![s] = "fencing"] /\ UNCHANGED <<connected, dispatched>>
        BY <2>7, <3>2 DEF EndLostSession
      <4> QED BY <3>1, <3>2, <4>1 DEF MustFence
    <3>3. CASE ~MustFence(s)
      <4>1. /\ pc' = [pc EXCEPT ![s] = "done"]
            /\ connected' = [connected EXCEPT ![s] = FALSE]
            /\ dispatched' = [dispatched EXCEPT ![s] = 0]
        BY <2>7, <3>3 DEF EndLostSession, EndSession
      <4> QED BY <3>1, <4>1, CoordinatorAssumption
    <3> QED BY <3>2, <3>3
  <2> QED BY <2>1, <2>2, <2>3, <2>4, <2>5, <2>6, <2>7 DEF Idling
<1>4. UNCHANGED config
  BY <1>1
<1> QED BY <1>2, <1>3, <1>4, ThreadMoves

\* respond_operation: what the coordinator does once the engine has answered.
LEMMA RespondThreads ==
  ASSUME ThreadsInv, NEW s \in Sessions, Respond(s), Engine!TypeOK',
         pc[s] \in {"reading", "mutating"}, revision' \in Nat
  PROVE  /\ pc' \in [Sessions -> ThreadSteps]
         /\ answer' \in [Sessions -> [epoch : 0 .. MaxGeneration, revision : Nat]]
         /\ \A t \in Sessions \ {s} : pc'[t] = pc[t]
         /\ pc'[s] = IF config.persistent THEN "encoding" ELSE "reading"
<1>1. epoch' \in 0 .. MaxGeneration
  BY EngineAssumption DEF Engine!TypeOK, Engine!Generations
<1> USE DEF ThreadsInv, SessionsOK, ThreadSteps
<1>2. CASE config.persistent
  <2> DEFINE given == [epoch |-> epoch', revision |-> revision']
  <2>1. pc' = [pc EXCEPT ![s] = "encoding"] /\ answer' = [answer EXCEPT ![s] = given]
    BY <1>2 DEF Respond, Set
  <2>2. given \in [epoch : 0 .. MaxGeneration, revision : Nat]
    BY <1>1
  <2> HIDE DEF given
  <2> QED BY <1>2, <2>1, <2>2
<1>3. CASE ~config.persistent
  BY <1>3 DEF Respond, Set
<1> QED BY <1>2, <1>3

\* A handler that calls the engine once and answers.
Handling(s) ==
  \/ \E p \in Publishers, b \in Boots :
       HandleRegisterPublisher(s, p, b) \/ HandleFenceNotice(s, p, b)
  \/ HandleAdvanceEpoch(s)

LEMMA HandlingThreads ==
  ASSUME ThreadsInv, NEW s \in Sessions, Handling(s)
  PROVE  ThreadsInv'
<1>1. /\ UNCHANGED <<storeVars, config, running, ended, connected, context, acked, revision>>
      /\ Dispatch(s) /\ Respond(s)
      /\ \/ UNCHANGED identity
         \/ \E p \in Publishers, b \in Boots :
              identity' = [identity EXCEPT ![s] = [publisher |-> p, boot |-> b]]
  BY DEF Handling, HandleRegisterPublisher, HandleFenceNotice, HandleAdvanceEpoch, Set
<1>2. Engine!TypeOK'
  <2>1. ASSUME NEW p \in Publishers, NEW b \in Boots, HandleRegisterPublisher(s, p, b)
        PROVE  Engine!TypeOK'
    BY <2>1, EngineRegisterTyped DEF ThreadsInv, HandleRegisterPublisher
  <2>2. ASSUME NEW p \in Publishers, NEW b \in Boots, HandleFenceNotice(s, p, b)
        PROVE  Engine!TypeOK'
    BY <2>2, EngineFenceTyped DEF ThreadsInv, HandleFenceNotice
  <2>3. CASE HandleAdvanceEpoch(s)
    BY <2>3, EngineAdvanceTyped DEF ThreadsInv, HandleAdvanceEpoch
  <2> QED BY <2>1, <2>2, <2>3 DEF Handling
<1>3. StoreTypeOK'
  BY <1>1 DEF ThreadsInv, StoreTypeOK, storeVars
<1>4. pc[s] = "reading" /\ revision' \in Nat
  BY <1>1 DEF Dispatch, ThreadsInv, SessionsOK
<1>5. /\ pc' \in [Sessions -> ThreadSteps]
      /\ answer' \in [Sessions -> [epoch : 0 .. MaxGeneration, revision : Nat]]
      /\ \A t \in Sessions \ {s} : pc'[t] = pc[t]
      /\ pc'[s] = IF config.persistent THEN "encoding" ELSE "reading"
  BY <1>1, <1>2, <1>4, RespondThreads
<1>6. /\ identity' \in [Sessions -> [publisher : Publishers, boot : Boots] \cup {NoIdentity}]
      /\ dispatched' \in [Sessions -> 0 .. MaxFrames]
      /\ \A t \in Sessions \ {s} : identity'[t] = identity[t] /\ dispatched'[t] = dispatched[t]
  BY <1>1, CoordinatorAssumption DEF ThreadsInv, SessionsOK, Dispatch
<1>7. SessionsOK'
  BY <1>1, <1>4, <1>5, <1>6 DEF ThreadsInv, SessionsOK
<1>8. ThreadOK(s)'
  BY <1>1, <1>4, <1>5 DEF ThreadsInv, ThreadOK, storeVars
<1> QED
  BY <1>1, <1>2, <1>3, <1>5, <1>6, <1>7, <1>8, ThreadMoves DEF storeVars

LEMMA MutationThreads ==
  ASSUME EncodesDurableStates, ThreadsInv, NEW s \in Sessions, NEW pl \in Payloads,
         HandleMutation(s, pl)
  PROVE  ThreadsInv'
<1>0. pc[s] = "mutating" /\ context[s] # 0 /\ Registered(s) /\ dispatched[s] # 0
  BY DEF HandleMutation, ThreadsInv, ThreadOK
<1>1. /\ UNCHANGED <<storeVars, config, running, ended, connected, identity, dispatched, acked>>
      /\ context' = [context EXCEPT ![s] = 0]
      /\ revision' \in Nat
  BY DEF HandleMutation, Set, ThreadsInv, SessionsOK
<1>2. StoreTypeOK'
  BY <1>1 DEF ThreadsInv, StoreTypeOK, storeVars
<1>3. Context(s) \in Engine!Contexts /\ <<s, dispatched[s]>> \in Sessions \X (1 .. MaxFrames)
  <2>1. /\ identity[s] \in [publisher : Publishers, boot : Boots]
        /\ context[s] \in 1 .. MaxGeneration /\ dispatched[s] \in 1 .. MaxFrames
    BY <1>0, CoordinatorAssumption, EngineAssumption DEF ThreadsInv, SessionsOK, Registered
  <2> QED BY <2>1 DEF Context, Engine!Contexts, Engine!Generations
<1>4. Engine!TypeOK'
  <2>1. \/ \/ Engine!Mutate(Context(s), <<s, dispatched[s]>>, pl)
           \/ Engine!ApplyPrefix(Context(s), <<s, dispatched[s]>>, pl)
        \/ UNCHANGED engineVars
    BY DEF HandleMutation
  <2>2. CASE UNCHANGED engineVars
    BY <1>2, <2>2, EngineKept
  <2>3. CASE ~UNCHANGED engineVars
    <3> DEFINE c == Context(s)
               a == <<s, dispatched[s]>>
    <3>1. c \in Engine!Contexts /\ a \in Sessions \X (1 .. MaxFrames)
      BY <1>3
    <3>2. Engine!Mutate(c, a, pl) \/ Engine!ApplyPrefix(c, a, pl)
      BY <2>1, <2>3
    <3> HIDE DEF c, a
    <3> QED BY <3>1, <3>2, EngineRequestTyped DEF ThreadsInv
  <2> QED BY <2>2, <2>3
<1>5. Respond(s) \/ (pc' = [pc EXCEPT ![s] = "reading"] /\ UNCHANGED answer)
  BY DEF HandleMutation, Set
<1>6. /\ pc' \in [Sessions -> ThreadSteps]
      /\ answer' \in [Sessions -> [epoch : 0 .. MaxGeneration, revision : Nat]]
      /\ \A t \in Sessions \ {s} : pc'[t] = pc[t]
      /\ (pc'[s] = "encoding" /\ config.persistent) \/ pc'[s] = "reading"
  <2>1. CASE Respond(s)
    BY <1>0, <1>1, <1>4, <2>1, RespondThreads
  <2>2. CASE pc' = [pc EXCEPT ![s] = "reading"] /\ UNCHANGED answer
    BY <2>2 DEF ThreadsInv, SessionsOK, ThreadSteps
  <2> QED BY <1>5, <2>1, <2>2
<1>7. /\ SessionsOK'
      /\ \A t \in Sessions \ {s} : context'[t] = context[t]
  <2>1. /\ context' \in [Sessions -> 0 .. MaxGeneration]
        /\ \A t \in Sessions \ {s} : context'[t] = context[t]
    BY <1>1, EngineAssumption DEF ThreadsInv, SessionsOK
  <2> QED BY <1>1, <1>6, <2>1 DEF ThreadsInv, SessionsOK
<1>8. ThreadOK(s)'
  BY <1>0, <1>1, <1>6 DEF ThreadsInv, ThreadOK, storeVars
<1> QED
  BY <1>1, <1>2, <1>4, <1>6, <1>7, <1>8, ThreadMoves DEF storeVars

LEMMA SavingThreads ==
  ASSUME EncodesDurableStates, ThreadsInv, NEW s \in Sessions,
         EncodeStore(s) \/ WriteStore(s)
  PROVE  ThreadsInv'
<1>1. /\ UNCHANGED <<engineVars, config, running, ended, connected, identity, dispatched,
                     context, answer, revision, acked>>
      /\ pc' = [pc EXCEPT ![s] = "saving"]
  BY DEF EncodeStore, WriteStore, Set, sessionVars, ThreadsInv, SessionsOK
<1>2. Durable \in Encodings
  BY DEF EncodesDurableStates, Durable, DurableStates, ThreadsInv, SessionsOK,
         Engine!TypeOK, Engine!Generations
<1>3. /\ StoreTypeOK' /\ saver'[s].step # "idle"
      /\ \A t \in Sessions \ {s} : saver'[t].step = saver[t].step
  <2>1. CASE EncodeStore(s)
    <3>1. BeginSave(s, Durable)
      BY <2>1 DEF EncodeStore
    <3>2. StoreTypeOK'
      BY <1>2, <3>1, BeginEndTyped DEF ThreadsInv
    <3> QED BY <3>1, <3>2 DEF BeginSave, ThreadsInv, StoreTypeOK
  <2>2. CASE WriteStore(s)
    BY <2>2, SaveStepTyped, SaveStepOfOne DEF WriteStore, ThreadsInv
  <2> QED BY <2>1, <2>2
<1>4. Engine!TypeOK'
  BY <1>1, <1>3, EngineKept
<1>5. SessionsOK'
  BY <1>1 DEF ThreadsInv, SessionsOK, ThreadSteps
<1>6. pc[s] \in {"encoding", "saving"}
  BY DEF EncodeStore, WriteStore
<1>7. ThreadOK(s)'
  BY <1>1, <1>3, <1>6 DEF ThreadsInv, SessionsOK, ThreadOK
<1>8. \A t \in Sessions \ {s} : pc'[t] = pc[t]
  BY <1>1 DEF ThreadsInv, SessionsOK
<1> QED BY <1>1, <1>3, <1>4, <1>5, <1>7, <1>8, ThreadMoves

LEMMA FinishThreads ==
  ASSUME EncodesDurableStates, ThreadsInv, NEW s \in Sessions, FinishSave(s)
  PROVE  ThreadsInv'
<1>1. /\ UNCHANGED <<engineVars, config, running, ended, identity, context, revision>>
      /\ EndSave(s) /\ pc[s] = "saving"
      /\ answer' = [answer EXCEPT ![s] = NoAnswer]
      /\ acked' = Later(acked, Acknowledged(s))
  BY DEF FinishSave, Set
<1>2. /\ StoreTypeOK' /\ saver'[s].step = "idle"
      /\ \A t \in Sessions \ {s} : saver'[t].step = saver[t].step
  <2>1. StoreTypeOK'
    BY <1>1, BeginEndTyped DEF ThreadsInv
  <2> QED BY <1>1, <2>1 DEF EndSave, Idle, ThreadsInv, StoreTypeOK
<1>3. Engine!TypeOK'
  BY <1>1, <1>2, EngineKept
<1>4. /\ acked' \in [epoch : 0 .. MaxGeneration, revision : Nat]
      /\ answer' \in [Sessions -> [epoch : 0 .. MaxGeneration, revision : Nat]]
  <2>1. Acknowledged(s) \in [epoch : 0 .. MaxGeneration, revision : Nat]
        /\ NoAnswer \in [epoch : 0 .. MaxGeneration, revision : Nat]
    BY EngineAssumption DEF Acknowledged, NoAnswer, ThreadsInv, SessionsOK
  <2> QED BY <1>1, <2>1 DEF Later, ThreadsInv, SessionsOK
<1>5. /\ pc' \in [Sessions -> ThreadSteps] /\ connected' \in [Sessions -> BOOLEAN]
      /\ dispatched' \in [Sessions -> 0 .. MaxFrames]
      /\ \A t \in Sessions \ {s} : pc'[t] = pc[t] /\ dispatched'[t] = dispatched[t]
      /\ pc'[s] = IF ended[s] = "no" THEN "reading" ELSE "done"
  <2> USE DEF ThreadsInv, SessionsOK, ThreadSteps
  <2>1. CASE ended[s] = "no"
    BY <2>1 DEF FinishSave, Set
  <2>2. CASE ended[s] # "no"
    <3>1. /\ pc' = [pc EXCEPT ![s] = "done"]
          /\ connected' = [connected EXCEPT ![s] = FALSE]
          /\ dispatched' = [dispatched EXCEPT ![s] = 0]
      BY <2>2 DEF FinishSave, EndSession, Set
    <3> QED BY <2>2, <3>1, CoordinatorAssumption
  <2> QED BY <2>1, <2>2
<1>6. SessionsOK'
  BY <1>1, <1>4, <1>5 DEF ThreadsInv, SessionsOK
<1>7. ThreadOK(s)'
  BY <1>1, <1>2, <1>5 DEF ThreadsInv, ThreadOK
<1> QED BY <1>1, <1>2, <1>3, <1>5, <1>6, <1>7, ThreadMoves

LEMMA FenceLostThreads ==
  ASSUME EncodesDurableStates, ThreadsInv, NEW s \in Sessions, FenceLostSession(s)
  PROVE  ThreadsInv'
<1>1. /\ UNCHANGED <<storeVars, config, running, ended, identity, context, answer,
                     revision, acked>>
      /\ pc[s] = "fencing"
  BY DEF FenceLostSession
<1>2. StoreTypeOK'
  BY <1>1 DEF ThreadsInv, StoreTypeOK, storeVars
<1>3. Engine!TypeOK'
  <2>1. identity[s].publisher \in Publishers
    BY <1>1 DEF ThreadsInv, ThreadOK, Registered, SessionsOK
  <2>2. Engine!FencePublisher(identity[s].publisher, identity[s].boot) \/ UNCHANGED engineVars
    BY DEF FenceLostSession
  <2>3. CASE UNCHANGED engineVars
    BY <1>2, <2>3, EngineKept
  <2>4. CASE Engine!FencePublisher(identity[s].publisher, identity[s].boot)
    <3> DEFINE p == identity[s].publisher
               b == identity[s].boot
    <3>1. p \in Publishers /\ Engine!FencePublisher(p, b)
      BY <2>1, <2>4
    <3> HIDE DEF p, b
    <3> QED BY <3>1, EngineFenceTyped DEF ThreadsInv
  <2> QED BY <2>2, <2>3, <2>4
<1>4. /\ pc' \in [Sessions -> ThreadSteps] /\ connected' \in [Sessions -> BOOLEAN]
      /\ dispatched' \in [Sessions -> 0 .. MaxFrames]
      /\ \A t \in Sessions \ {s} : pc'[t] = pc[t] /\ dispatched'[t] = dispatched[t]
      /\ (pc'[s] = "encoding" /\ config.persistent) \/ pc'[s] = "done"
  <2> USE DEF ThreadsInv, SessionsOK, ThreadSteps
  <2>1. CASE pc' = Set(pc, s, "encoding") /\ config.persistent
             /\ UNCHANGED <<connected, dispatched>>
    BY <2>1 DEF Set
  <2>2. CASE EndSession(s)
    BY <2>2, CoordinatorAssumption DEF EndSession, Set
  <2> QED BY <2>1, <2>2 DEF FenceLostSession
<1>5. SessionsOK'
  BY <1>1, <1>4 DEF ThreadsInv, SessionsOK
<1>6. ThreadOK(s)'
  BY <1>1, <1>4 DEF ThreadsInv, ThreadOK, storeVars
<1> QED
  BY <1>1, <1>2, <1>3, <1>4, <1>5, <1>6, ThreadMoves DEF storeVars

LEMMA RestartThreads ==
  ASSUME EncodesDurableStates, ThreadsInv, Restart
  PROVE  ThreadsInv'
<1>1. StoreTypeOK'
  BY KillTyped DEF ThreadsInv, Restart
<1>2. Engine!TypeOK'
  BY EngineRestartTyped DEF ThreadsInv, Restart
<1>3. revision' \in Nat
  BY StoredTyped DEF ThreadsInv, Restart
<1>4. SessionsOK' /\ \A s \in Sessions : ThreadOK(s)'
  BY <1>3, CoordinatorAssumption, EngineAssumption
  DEF ThreadsInv, SessionsOK, ThreadOK, Registered, Restart, KillSavers, Idle, NoSession,
      NoAnswer, ThreadSteps
<1> QED BY <1>1, <1>2, <1>4 DEF ThreadsInv

LEMMA StopThreads ==
  ASSUME EncodesDurableStates, ThreadsInv, Stop \/ UNCHANGED vars
  PROVE  ThreadsInv'
<1>1. /\ UNCHANGED <<engineVars, storeVars, sessionVars, config, revision, acked>>
      /\ running' \in BOOLEAN
  BY DEF Stop, vars, ThreadsInv, SessionsOK
<1>2. StoreTypeOK'
  BY <1>1 DEF ThreadsInv, StoreTypeOK, storeVars
<1>3. Engine!TypeOK'
  BY <1>1, <1>2, EngineKept
<1>4. SessionsOK' /\ \A s \in Sessions : ThreadOK(s)'
  BY <1>1 DEF ThreadsInv, SessionsOK, ThreadOK, Registered, sessionVars, storeVars
<1> QED BY <1>2, <1>3, <1>4 DEF ThreadsInv

LEMMA ThreadsInductive ==
  ASSUME EncodesDurableStates, ThreadsInv, [Next]_vars
  PROVE  ThreadsInv'
<1>1. ASSUME NEW s \in Sessions, Idling(s) PROVE ThreadsInv'
  BY <1>1, IdlingThreads
<1>2. ASSUME NEW s \in Sessions, Handling(s) PROVE ThreadsInv'
  BY <1>2, HandlingThreads
<1>3. ASSUME NEW s \in Sessions, NEW pl \in Payloads, HandleMutation(s, pl) PROVE ThreadsInv'
  BY <1>3, MutationThreads
<1>4. ASSUME NEW s \in Sessions, EncodeStore(s) \/ WriteStore(s) PROVE ThreadsInv'
  BY <1>4, SavingThreads
<1>5. ASSUME NEW s \in Sessions, FinishSave(s) PROVE ThreadsInv'
  BY <1>5, FinishThreads
<1>6. ASSUME NEW s \in Sessions, FenceLostSession(s) PROVE ThreadsInv'
  BY <1>6, FenceLostThreads
<1>7. CASE Restart
  BY <1>7, RestartThreads
<1>8. CASE Stop \/ UNCHANGED vars
  BY <1>8, StopThreads
<1> QED
  BY <1>1, <1>2, <1>3, <1>4, <1>5, <1>6, <1>7, <1>8 DEF Next, Thread, Idling, Handling

(***************************************************************************)
(* The coordinator's state stays well formed, whatever its sessions do,    *)
(* however many of them save at once and whenever the process is killed.   *)
(***************************************************************************)
THEOREM CoordinatorTyped ==
  ASSUME EncodesDurableStates
  PROVE  Spec => []CoordinatorTypeOK
<1>1. Init => ThreadsInv
  BY InitThreads
<1>2. ThreadsInv /\ [Next]_vars => ThreadsInv'
  BY ThreadsInductive
<1> QED BY <1>1, <1>2, ThreadsAreTyped, PTL DEF Spec

-----------------------------------------------------------------------------
(***************************************************************************)
(* Registrations and sessions.  A session that registers a second          *)
(* publisher forgets the first (the run orphaned), so what is proved is    *)
(* about sessions that stay with one publisher, under any of its boots.    *)
(***************************************************************************)

LoyalSessions ==
  \A s \in Sessions :
    Registered(s) /\ Registered(s)' => identity'[s].publisher = identity[s].publisher

\* While the coordinator runs, a registration names a session that believes
\* in it, and a lost session keeps its registration only until it fences it.
SessionHolds(p) ==
  registrations[p] # Engine!NoRegistration =>
    LET s == registrations[p].session
    IN /\ identity[s] = [publisher |-> p, boot |-> registrations[p].boot]
       /\ ended[s] = "LOST" => pc[s] \in {"ending", "fencing"}

RegistrationsInv == running => \A p \in Publishers : SessionHolds(p)

LEMMA HeldRegistrations ==
  ASSUME ThreadsInv, RegistrationsInv
  PROVE  RegistrationHasSession
BY DEF RegistrationsInv, SessionHolds, RegistrationHasSession

\* A registration that stays as it is, of a session that stays as it is.
LEMMA HeldStays ==
  ASSUME NEW p \in Publishers, SessionHolds(p),
         registrations'[p] \in {registrations[p], Engine!NoRegistration},
         registrations[p] # Engine!NoRegistration =>
           LET s == registrations[p].session
           IN /\ identity'[s] = identity[s]
              /\ \/ ended'[s] = ended[s] /\ pc'[s] = pc[s]
                 \/ ended'[s] # "LOST"
                 \/ pc'[s] \in {"ending", "fencing"}
  PROVE  SessionHolds(p)'
BY DEF SessionHolds

LEMMA LiveSession ==
  ASSUME ThreadsInv, NEW p \in Publishers, registrations[p] # Engine!NoRegistration
  PROVE  registrations[p].session \in Sessions
BY DEF ThreadsInv, Engine!TypeOK, Engine!Registration

\* Steps that leave the registrations alone, or clear them.
LEMMA IdlingHeld ==
  ASSUME ThreadsInv, RegistrationsInv, NEW s \in Sessions, Idling(s), running
  PROVE  RegistrationsInv'
<1> SUFFICES ASSUME NEW p \in Publishers PROVE SessionHolds(p)'
  BY DEF RegistrationsInv
<1>1. UNCHANGED <<registrations, identity>> /\ SessionHolds(p)
  BY DEF Idling, AcceptSession, PeerVanishes, HandleOther, MakeContext, LoseSession,
         SayGoodbye, LeaveStopping, EndLostSession, engineVars, RegistrationsInv
<1>2. /\ \A t \in Sessions \ {s} : pc'[t] = pc[t] /\ ended'[t] = ended[t]
      /\ Registered(s) => \/ ended'[s] = ended[s] /\ pc'[s] = pc[s]
                          \/ ended'[s] # "LOST"
                          \/ pc'[s] \in {"ending", "fencing"}
  <2> USE DEF ThreadsInv, SessionsOK, Set
  <2>1. CASE AcceptSession(s) \/ PeerVanishes(s) \/ HandleOther(s) \/ MakeContext(s)
    BY <2>1 DEF AcceptSession, PeerVanishes, HandleOther, MakeContext, Dispatch, ThreadOK
  <2>2. CASE LoseSession(s)
    BY <2>2 DEF LoseSession
  <2>3. CASE SayGoodbye(s) \/ LeaveStopping(s)
    BY <2>3 DEF SayGoodbye, LeaveStopping, SeesStop, EndSession
  <2>4. CASE EndLostSession(s)
    BY <2>4 DEF EndLostSession, EndSession, MustFence
  <2> QED BY <2>1, <2>2, <2>3, <2>4 DEF Idling
<1>3. registrations[p] # Engine!NoRegistration =>
        registrations[p].session \in Sessions /\ Registered(registrations[p].session)
  BY <1>1, LiveSession, EngineAssumption DEF SessionHolds, Registered, NoIdentity,
     ThreadsInv, Engine!TypeOK, Engine!Registration
<1>4. CASE registrations[p] # Engine!NoRegistration /\ registrations[p].session # s
  BY <1>1, <1>2, <1>3, <1>4, HeldStays
<1>5. CASE registrations[p] # Engine!NoRegistration /\ registrations[p].session = s
  BY <1>1, <1>2, <1>3, <1>5, HeldStays
<1>6. CASE registrations[p] = Engine!NoRegistration
  BY <1>1, <1>6 DEF SessionHolds
<1> QED BY <1>4, <1>5, <1>6

\* Dispatch and an answer: the thread did not end, and goes on.
LEMMA RespondHeld ==
  ASSUME ThreadsInv, NEW s \in Sessions, Respond(s), UNCHANGED ended,
         pc[s] \in {"reading", "mutating"}
  PROVE  \A t \in Sessions : \/ ended'[t] = ended[t] /\ pc'[t] = pc[t]
                             \/ ended'[t] # "LOST"
<1>1. ended'[s] = "no"
  BY DEF ThreadsInv, ThreadOK
<1>2. \A t \in Sessions \ {s} : pc'[t] = pc[t]
  BY DEF Respond, Set, ThreadsInv, SessionsOK
<1> QED BY <1>1, <1>2

LEMMA RegisterHeld ==
  ASSUME ThreadsInv, RegistrationsInv, running, NEW s \in Sessions,
         NEW p \in Publishers, NEW b \in Boots, HandleRegisterPublisher(s, p, b),
         LoyalSessions
  PROVE  RegistrationsInv'
<1> SUFFICES ASSUME NEW q \in Publishers PROVE SessionHolds(q)'
  BY DEF RegistrationsInv
<1>1. /\ identity' = [identity EXCEPT ![s] = [publisher |-> p, boot |-> b]]
      /\ UNCHANGED ended /\ Respond(s) /\ pc[s] = "reading"
      /\ \E scope \in Scopes : Engine!RegisterPublisher(p, b, s, scope)
  BY DEF HandleRegisterPublisher, Dispatch, Set
<1>2. /\ identity'[s] = [publisher |-> p, boot |-> b]
      /\ \A t \in Sessions \ {s} : identity'[t] = identity[t]
  BY <1>1 DEF ThreadsInv, SessionsOK
<1>3. \A t \in Sessions : \/ ended'[t] = ended[t] /\ pc'[t] = pc[t]
                          \/ ended'[t] # "LOST"
  BY <1>1, RespondHeld
<1>4. CASE q = p
  <2>1. registrations'[p].session = s /\ registrations'[p].boot = b
    BY <1>1 DEF ThreadsInv, Engine!TypeOK, Engine!RegisterPublisher
  <2>2. ended'[s] = "no"
    BY <1>1 DEF ThreadsInv, ThreadOK
  <2> QED BY <1>2, <1>4, <2>1, <2>2 DEF SessionHolds
<1>5. CASE q # p
  <2>1. registrations'[q] = registrations[q]
    BY <1>1, <1>5 DEF ThreadsInv, Engine!TypeOK, Engine!RegisterPublisher
  <2>2. SessionHolds(q)
    BY DEF RegistrationsInv
  <2>3. ASSUME registrations[q] # Engine!NoRegistration
        PROVE  registrations[q].session \in Sessions \ {s}
    <3>1. registrations[q].session \in Sessions
      BY <2>3, LiveSession
    <3>2. ASSUME registrations[q].session = s PROVE FALSE
      <4>1. identity[s] = [publisher |-> q, boot |-> registrations[q].boot]
            /\ registrations[q].boot # "none"
        BY <2>2, <2>3, <3>2, EngineLive DEF SessionHolds, Engine!Live, ThreadsInv
      <4>2. Registered(s) /\ Registered(s)'
        BY <1>2, <4>1, EngineAssumption DEF Registered, NoIdentity
      <4>3. identity'[s].publisher = identity[s].publisher
        BY <4>2 DEF LoyalSessions
      <4> QED BY <1>2, <1>5, <4>1, <4>3
    <3> QED BY <3>1, <3>2
  <2> QED BY <1>2, <1>3, <2>1, <2>2, <2>3, HeldStays
<1> QED BY <1>4, <1>5

\* Handlers that leave the identities of the sessions as they are.
LEMMA AnsweredHeld ==
  ASSUME ThreadsInv, RegistrationsInv, running,
         \A p \in Publishers :
           registrations'[p] \in {registrations[p], Engine!NoRegistration},
         UNCHANGED identity,
         \A t \in Sessions : \/ ended'[t] = ended[t] /\ pc'[t] = pc[t]
                             \/ ended'[t] # "LOST"
  PROVE  RegistrationsInv'
<1> SUFFICES ASSUME NEW p \in Publishers PROVE SessionHolds(p)'
  BY DEF RegistrationsInv
<1>1. SessionHolds(p)
  BY DEF RegistrationsInv
<1> QED BY <1>1, LiveSession, HeldStays

LEMMA FencingKeepsOthers ==
  ASSUME ThreadsInv, NEW p \in Publishers, NEW b, Engine!FencePublisher(p, b)
  PROVE  /\ registrations'[p] = Engine!NoRegistration
         /\ \A q \in Publishers :
              registrations'[q] \in {registrations[q], Engine!NoRegistration}
BY DEF Engine!FencePublisher, ThreadsInv, Engine!TypeOK

LEMMA HandlingHeld ==
  ASSUME ThreadsInv, RegistrationsInv, running, NEW s \in Sessions, Handling(s),
         LoyalSessions
  PROVE  RegistrationsInv'
<1>1. ASSUME NEW p \in Publishers, NEW b \in Boots, HandleRegisterPublisher(s, p, b)
      PROVE  RegistrationsInv'
  BY <1>1, RegisterHeld
<1>2. ASSUME NEW p \in Publishers, NEW b \in Boots, HandleFenceNotice(s, p, b)
      PROVE  RegistrationsInv'
  <2>1. /\ UNCHANGED <<identity, ended>> /\ Respond(s) /\ pc[s] = "reading"
        /\ Engine!FencePublisher(p, b)
    BY <1>2 DEF HandleFenceNotice, Dispatch
  <2> QED BY <2>1, RespondHeld, FencingKeepsOthers, AnsweredHeld
<1>3. CASE HandleAdvanceEpoch(s)
  <2>1. /\ UNCHANGED <<identity, ended>> /\ Respond(s) /\ pc[s] = "reading"
        /\ Engine!AdvanceEpoch
    BY <1>3 DEF HandleAdvanceEpoch, Dispatch
  <2>2. \A p \in Publishers : registrations'[p] \in {registrations[p], Engine!NoRegistration}
    BY <2>1 DEF Engine!AdvanceEpoch, Engine!AfterAdvance, Engine!NoRegistrations
  <2> QED BY <2>1, <2>2, RespondHeld, AnsweredHeld
<1> QED BY <1>1, <1>2, <1>3 DEF Handling

LEMMA MutationHeld ==
  ASSUME ThreadsInv, RegistrationsInv, running, NEW s \in Sessions, NEW pl \in Payloads,
         HandleMutation(s, pl)
  PROVE  RegistrationsInv'
<1>1. UNCHANGED <<identity, ended>> /\ pc[s] = "mutating"
  BY DEF HandleMutation
<1>2. UNCHANGED registrations
  BY DEF HandleMutation, engineVars, Engine!Mutate, Engine!ApplyPrefix, Engine!authorityKept
<1>3. \A t \in Sessions : \/ ended'[t] = ended[t] /\ pc'[t] = pc[t]
                          \/ ended'[t] # "LOST"
  <2>1. CASE Respond(s)
    BY <1>1, <2>1, RespondHeld
  <2>2. CASE pc' = Set(pc, s, "reading")
    BY <1>1, <2>2 DEF Set, ThreadsInv, SessionsOK, ThreadOK
  <2> QED BY <2>1, <2>2 DEF HandleMutation
<1> QED BY <1>1, <1>2, <1>3, AnsweredHeld

LEMMA SavingHeld ==
  ASSUME ThreadsInv, RegistrationsInv, running, NEW s \in Sessions,
         EncodeStore(s) \/ WriteStore(s) \/ FinishSave(s)
  PROVE  RegistrationsInv'
<1> SUFFICES ASSUME NEW p \in Publishers PROVE SessionHolds(p)'
  BY DEF RegistrationsInv
<1>1. /\ UNCHANGED <<registrations, identity, ended>> /\ SessionHolds(p)
      /\ pc[s] \in {"encoding", "saving"}
      /\ \A t \in Sessions \ {s} : pc'[t] = pc[t]
  BY DEF EncodeStore, WriteStore, FinishSave, EndSession, Set, engineVars, sessionVars,
         RegistrationsInv, ThreadsInv, SessionsOK
<1>2. CASE registrations[p] # Engine!NoRegistration /\ registrations[p].session = s
           /\ ended[s] = "LOST"
  BY <1>1, <1>2 DEF SessionHolds
<1>3. CASE ~(registrations[p] # Engine!NoRegistration /\ registrations[p].session = s
             /\ ended[s] = "LOST")
  BY <1>1, <1>3, LiveSession, HeldStays
<1> QED BY <1>2, <1>3

\* A lost session gives up the registration it believes in, or has none.
LEMMA FenceLostHeld ==
  ASSUME ThreadsInv, RegistrationsInv, running, NEW s \in Sessions, FenceLostSession(s)
  PROVE  RegistrationsInv'
<1> DEFINE mine == identity[s].publisher
<1>1. /\ UNCHANGED <<identity, ended>> /\ pc[s] = "fencing" /\ Registered(s)
      /\ mine \in Publishers
      /\ \A t \in Sessions \ {s} : pc'[t] = pc[t]
  <2>1. UNCHANGED <<identity, ended>> /\ pc[s] = "fencing" /\ Registered(s)
    BY DEF FenceLostSession, ThreadsInv, ThreadOK
  <2>2. mine \in Publishers
    BY <2>1 DEF Registered, ThreadsInv, SessionsOK
  <2>3. \A t \in Sessions \ {s} : pc'[t] = pc[t]
    BY DEF FenceLostSession, EndSession, Set, ThreadsInv, SessionsOK
  <2> QED BY <2>1, <2>2, <2>3
<1>2. /\ \A q \in Publishers : registrations'[q] \in {registrations[q], Engine!NoRegistration}
      /\ \/ registrations'[mine] = Engine!NoRegistration
         \/ registrations[mine].boot # identity[s].boot
  <2>1. CASE Engine!FencePublisher(mine, identity[s].boot)
    <3> DEFINE b == identity[s].boot
    <3>1. mine \in Publishers /\ Engine!FencePublisher(mine, b)
      BY <1>1, <2>1
    <3> HIDE DEF mine, b
    <3> QED BY <3>1, FencingKeepsOthers
  <2>2. CASE registrations[mine].boot # identity[s].boot /\ UNCHANGED engineVars
    BY <2>2 DEF engineVars
  <2> QED BY <2>1, <2>2 DEF FenceLostSession
<1> SUFFICES ASSUME NEW q \in Publishers PROVE SessionHolds(q)'
  BY DEF RegistrationsInv
<1>3. SessionHolds(q)
  BY DEF RegistrationsInv
<1>4. CASE registrations[q] # Engine!NoRegistration /\ registrations[q].session = s
  <2>1. q = mine /\ registrations[q].boot = identity[s].boot
    BY <1>3, <1>4 DEF SessionHolds
  <2>2. registrations'[q] = Engine!NoRegistration
    BY <1>2, <2>1
  <2> QED BY <2>2 DEF SessionHolds
<1>5. CASE ~(registrations[q] # Engine!NoRegistration /\ registrations[q].session = s)
  BY <1>1, <1>2, <1>3, <1>5, LiveSession, HeldStays
<1> QED BY <1>4, <1>5

LEMMA HeldInductive ==
  ASSUME ThreadsInv, RegistrationsInv, [Next]_vars, [LoyalSessions]_vars
  PROVE  RegistrationsInv'
<1>1. CASE Restart
  <2>1. registrations' = Engine!NoRegistrations
    BY <1>1 DEF Restart, Engine!Recover, Engine!Construct, Engine!FreshState
  <2> QED BY <2>1 DEF RegistrationsInv, SessionHolds, Engine!NoRegistrations
<1>2. CASE Stop
  BY <1>2 DEF Stop, RegistrationsInv
<1>3. CASE UNCHANGED vars
  BY <1>3 DEF vars, engineVars, sessionVars, RegistrationsInv, SessionHolds
<1>4. CASE ~running
  <2>1. running' = running \/ Restart \/ Stop
    BY DEF Next, Thread, AcceptSession, PeerVanishes, HandleOther, HandleRegisterPublisher,
       HandleFenceNotice, HandleAdvanceEpoch, MakeContext, LoseSession, SayGoodbye,
       HandleMutation, EncodeStore, WriteStore, FinishSave, EndLostSession,
       FenceLostSession, LeaveStopping, vars
  <2> QED BY <1>1, <1>2, <1>4, <2>1 DEF RegistrationsInv
<1>5. ASSUME running, ~UNCHANGED vars, NEW s \in Sessions,
             Idling(s) \/ Handling(s) \/ FenceLostSession(s)
               \/ EncodeStore(s) \/ WriteStore(s) \/ FinishSave(s)
      PROVE  RegistrationsInv'
  BY <1>5, IdlingHeld, HandlingHeld, FenceLostHeld, SavingHeld
<1>6. ASSUME running, NEW s \in Sessions, NEW pl \in Payloads, HandleMutation(s, pl)
      PROVE  RegistrationsInv'
  BY <1>6, MutationHeld
<1> QED
  BY <1>1, <1>2, <1>3, <1>4, <1>5, <1>6 DEF Next, Thread, Idling, Handling

(***************************************************************************)
(* session_loop, register_publisher: as long as each session registers one *)
(* publisher, under whatever boots, nobody speaks for a publisher behind a *)
(* connection that was lost, and a registration and the session it names   *)
(* agree on whose it is.                                                   *)
(***************************************************************************)
THEOREM LoyalSessionsAreKnown ==
  ASSUME EncodesDurableStates
  PROVE  Spec /\ [][LoyalSessions]_vars => []RegistrationHasSession
<1>1. Init => ThreadsInv /\ RegistrationsInv
  <2>1. Init => ThreadsInv
    BY InitThreads
  <2>2. Init => RegistrationsInv
    BY DEF Init, RegistrationsInv, SessionHolds, Engine!NoRegistrations
  <2> QED BY <2>1, <2>2
<1>2. ThreadsInv /\ RegistrationsInv /\ [Next]_vars /\ [LoyalSessions]_vars
        => ThreadsInv' /\ RegistrationsInv'
  BY ThreadsInductive, HeldInductive
<1>3. ThreadsInv /\ RegistrationsInv => RegistrationHasSession
  BY HeldRegistrations
<1> QED BY <1>1, <1>2, <1>3, PTL DEF Spec

-----------------------------------------------------------------------------
(***************************************************************************)
(* One session at a time, or no store.  The code does not ask for it, and  *)
(* the run lost_store shows what two sessions do to a store they share.    *)
(***************************************************************************)

SoloStore == \A c \in Configurations : c.persistent => c.maxSessions = 1

Alone == config.persistent => \A s, t \in LiveSessions : s = t

\* The steps of a live thread leave the steps of the others alone, and a
\* thread is not live that was not, unless it was accepted.
LEMMA OneThreadSteps ==
  ASSUME EncodesDurableStates, ThreadsInv, NEW s \in Sessions,
         \/ Idling(s) \/ Handling(s) \/ FenceLostSession(s)
         \/ EncodeStore(s) \/ WriteStore(s) \/ FinishSave(s)
         \/ \E pl \in Payloads : HandleMutation(s, pl)
  PROVE  /\ UNCHANGED config
         /\ s \in LiveSessions \/ AcceptSession(s)
         /\ \A t \in Sessions \ {s} : pc'[t] = pc[t]
<1> USE DEF ThreadsInv, SessionsOK, Set, EndSession, LiveSessions
<1>1. CASE Idling(s)
  BY <1>1 DEF Idling, AcceptSession, PeerVanishes, HandleOther, MakeContext, LoseSession,
              SayGoodbye, LeaveStopping, EndLostSession, Dispatch
<1>2. CASE Handling(s)
  <2>1. UNCHANGED config /\ pc[s] = "reading" /\ Respond(s)
    BY <1>2 DEF Handling, HandleRegisterPublisher, HandleFenceNotice, HandleAdvanceEpoch,
                Dispatch
  <2> QED BY <2>1 DEF Respond
<1>3. CASE FenceLostSession(s)
  BY <1>3 DEF FenceLostSession
<1>4. CASE EncodeStore(s)
  BY <1>4 DEF EncodeStore
<1>5. CASE WriteStore(s)
  BY <1>5 DEF WriteStore, sessionVars
<1>6. CASE FinishSave(s)
  BY <1>6 DEF FinishSave
<1>7. ASSUME NEW pl \in Payloads, HandleMutation(s, pl)
      PROVE  UNCHANGED config /\ pc[s] = "mutating"
             /\ (Respond(s) \/ pc' = [pc EXCEPT ![s] = "reading"])
  BY <1>7 DEF HandleMutation
<1>8. CASE \E pl \in Payloads : HandleMutation(s, pl)
  BY <1>7, <1>8 DEF Respond
<1> QED BY <1>1, <1>2, <1>3, <1>4, <1>5, <1>6, <1>8

\* Cardinality of a set of live sessions that has at most one member.
LEMMA RoomForOne ==
  ASSUME NEW S, \A s, t \in S : s = t, Cardinality(S) < 1
  PROVE  S = {}
<1> SUFFICES ASSUME NEW x \in S PROVE FALSE
  OBVIOUS
<1>1. S = {x}
  OBVIOUS
<1> QED BY <1>1, FS_Singleton

LEMMA AloneInductive ==
  ASSUME EncodesDurableStates, SoloStore, ThreadsInv, Alone, [Next]_vars
  PROVE  Alone'
<1>1. ASSUME NEW s \in Sessions,
             \/ Idling(s) \/ Handling(s) \/ FenceLostSession(s)
             \/ EncodeStore(s) \/ WriteStore(s) \/ FinishSave(s)
             \/ \E pl \in Payloads : HandleMutation(s, pl)
      PROVE  Alone'
  <2>1. /\ UNCHANGED config
        /\ s \in LiveSessions \/ AcceptSession(s)
        /\ LiveSessions' \subseteq LiveSessions \cup {s}
    BY <1>1, OneThreadSteps DEF LiveSessions
  <2>2. ASSUME config.persistent, AcceptSession(s) PROVE LiveSessions = {}
    <3>1. Cardinality(LiveSessions) < 1
      BY <2>2 DEF AcceptSession, ThreadsInv, SessionsOK, SoloStore
    <3> QED BY <2>2, <3>1, RoomForOne DEF Alone
  <2> QED BY <2>1, <2>2 DEF Alone
<1>2. CASE Restart
  <2>1. LiveSessions' = {}
    BY <1>2 DEF Restart, NoSession, LiveSessions
  <2> QED BY <2>1 DEF Alone
<1>3. CASE Stop \/ UNCHANGED vars
  BY <1>3 DEF Stop, vars, sessionVars, Alone, LiveSessions
<1> QED BY <1>1, <1>2, <1>3 DEF Next, Thread, Idling, Handling

\* Only a live thread saves, so a lone one saves alone.
LEMMA LoneSaves ==
  ASSUME ThreadsInv, Alone
  PROVE  /\ OneSaverAtATime
         /\ \A s \in LiveSessions : \A t \in Sessions \ {s} :
              pc[t] \notin {"encoding", "saving"}
<1>1. \A s \in Sessions : ThreadOK(s)
  BY DEF ThreadsInv
<1> QED BY <1>1 DEF ThreadOK, Alone, OneSaverAtATime, At, LiveSessions

\* Every step of the coordinator is a step of the store, or none.
LEMMA NextIsStoreNext ==
  ASSUME EncodesDurableStates, ThreadsInv, [Next]_vars
  PROVE  [StoreNext]_storeVars
<1>1. ASSUME NEW s \in Sessions, Idling(s) \/ Handling(s) \/ FenceLostSession(s)
                                   \/ \E pl \in Payloads : HandleMutation(s, pl)
      PROVE  UNCHANGED storeVars
  BY <1>1 DEF Idling, AcceptSession, PeerVanishes, HandleOther, MakeContext, LoseSession,
         SayGoodbye, LeaveStopping, EndLostSession, Handling, HandleRegisterPublisher,
         HandleFenceNotice, HandleAdvanceEpoch, HandleMutation, FenceLostSession
<1>2. ASSUME NEW s \in Sessions, EncodeStore(s) PROVE StoreNext
  <2>1. Durable \in Encodings
    BY DEF EncodesDurableStates, Durable, DurableStates, ThreadsInv, SessionsOK,
           Engine!TypeOK, Engine!Generations
  <2> QED BY <1>2, <2>1 DEF EncodeStore, StoreNext
<1>3. ASSUME NEW s \in Sessions, WriteStore(s) \/ FinishSave(s) PROVE StoreNext
  BY <1>3 DEF WriteStore, FinishSave, StoreNext
<1>4. CASE Restart
  BY <1>4 DEF Restart, StoreNext
<1>5. CASE Stop \/ UNCHANGED vars
  BY <1>5 DEF Stop, vars
<1> QED BY <1>1, <1>2, <1>3, <1>4, <1>5 DEF Next, Thread, Idling, Handling

LoneInv == ThreadsInv /\ Alone /\ LoneSaverInv

LEMMA LoneInductive ==
  ASSUME EncodesDurableStates, SoloStore, LoneInv, [Next]_vars
  PROVE  /\ LoneInv' /\ [StoreNext]_storeVars
         /\ OneSaverAtATime /\ OneSaverAtATime'
<1>1. ThreadsInv' /\ Alone'
  BY ThreadsInductive, AloneInductive DEF LoneInv
<1>2. OneSaverAtATime /\ [StoreNext]_storeVars
  BY LoneSaves, NextIsStoreNext DEF LoneInv
<1>3. OneSaverAtATime'
  <2>1. \A s \in Sessions : ThreadOK(s)'
    BY <1>1 DEF ThreadsInv
  <2> QED BY <1>1, <2>1 DEF ThreadOK, Alone, OneSaverAtATime, At, LiveSessions
<1> QED BY <1>1, <1>2, <1>3, StepLone DEF LoneInv

LEMMA InitLoneInv ==
  ASSUME EncodesDurableStates, Init
  PROVE  LoneInv
<1>1. LiveSessions = {}
  BY DEF Init, LiveSessions
<1> QED BY <1>1, InitThreads, InitLone DEF LoneInv, Alone, Init

(***************************************************************************)
(* write_store_atomic under respond_operation and session_loop: with one   *)
(* session at a time, whatever the store path comes to name is a complete  *)
(* store, across lost sessions, stops, kills and restarts.                 *)
(***************************************************************************)
THEOREM SoloStoreReplacedWhole ==
  ASSUME EncodesDurableStates, SoloStore
  PROVE  Spec => StoreIsReplacedWhole
<1>1. Init => LoneInv
  BY InitLoneInv
<1>2. LoneInv /\ [Next]_vars => LoneInv'
  BY LoneInductive
<1>3. LoneInv /\ [Next]_vars => [Readable']_destination
  <2> SUFFICES ASSUME LoneInv, [Next]_vars, destination' # destination PROVE Readable'
    OBVIOUS
  <2>1. destination' \in Encodings
    BY LoneInductive, StepLone DEF LoneInv
  <2> QED BY <2>1, EncodingsAssumption DEF Readable
<1> QED BY <1>1, <1>2, <1>3, PTL DEF Spec, StoreIsReplacedWhole

-----------------------------------------------------------------------------
(***************************************************************************)
(* What is acknowledged is in the store.                                   *)
(***************************************************************************)

\* Nothing comes between the encoding of the state and the end of its save.
SaverCarries(s) ==
  pc[s] = "saving" =>
    /\ saver[s].step \in {"open", "write", "rename"} => saver[s].bytes = Durable
    /\ saver[s].step = "saved" => destination = Durable

\* An answer that waits for its save is about a state the engine has reached.
AnswerInForce(s) == answer[s].epoch <= epoch /\ answer[s].revision <= revision

AckedInForce == config.persistent => acked.epoch <= epoch /\ acked.revision <= revision

SoloInv ==
  /\ LoneInv
  /\ ~config.persistent => destination = NoFile
  /\ \A s \in Sessions : SaverCarries(s) /\ AnswerInForce(s)
  /\ AckedInForce /\ AckedIsDurable

LEMMA CountersTyped ==
  ASSUME ThreadsInv
  PROVE  /\ epoch \in Nat /\ revision \in Nat
         /\ acked.epoch \in Nat /\ acked.revision \in Nat
         /\ \A s \in Sessions : answer[s].epoch \in Nat /\ answer[s].revision \in Nat
<1>1. epoch \in 1 .. MaxGeneration
  BY DEF ThreadsInv, Engine!TypeOK, Engine!Generations
<1>2. epoch \in Nat
  BY <1>1, EngineAssumption
<1>3. /\ revision \in Nat
      /\ acked \in [epoch : 0 .. MaxGeneration, revision : Nat]
      /\ \A s \in Sessions : answer[s] \in [epoch : 0 .. MaxGeneration, revision : Nat]
  BY DEF ThreadsInv, SessionsOK
<1> QED BY <1>2, <1>3, EngineAssumption

LEMMA CountersTypedPrimed ==
  ASSUME ThreadsInv'
  PROVE  /\ epoch' \in Nat /\ revision' \in Nat
         /\ acked'.epoch \in Nat /\ acked'.revision \in Nat
         /\ \A s \in Sessions : answer'[s].epoch \in Nat /\ answer'[s].revision \in Nat
<1>1. epoch' \in 1 .. MaxGeneration
  BY DEF ThreadsInv, Engine!TypeOK, Engine!Generations
<1>2. epoch' \in Nat
  BY <1>1, EngineAssumption
<1>3. /\ revision' \in Nat
      /\ acked' \in [epoch : 0 .. MaxGeneration, revision : Nat]
      /\ \A s \in Sessions : answer'[s] \in [epoch : 0 .. MaxGeneration, revision : Nat]
  BY DEF ThreadsInv, SessionsOK
<1> QED BY <1>2, <1>3, EngineAssumption

\* The engine, the store and the answers stay, and no thread comes to save.
LEMMA EngineStill ==
  ASSUME SoloInv, LoneInv',
         UNCHANGED <<epoch, authority, revision, storeVars, config, answer, acked>>,
         \A t \in Sessions : pc'[t] = pc[t] \/ pc'[t] # "saving"
  PROVE  SoloInv'
<1>1. \A s \in Sessions : SaverCarries(s)' /\ AnswerInForce(s)'
  BY DEF SoloInv, SaverCarries, AnswerInForce, Durable, storeVars
<1> QED BY <1>1 DEF SoloInv, AckedInForce, AckedIsDurable, Readable, storeVars

\* The engine moves forward while nobody saves.
LEMMA EngineMoves ==
  ASSUME SoloInv, LoneInv', NEW s \in LiveSessions, pc[s] \notin {"encoding", "saving"},
         UNCHANGED <<storeVars, config, acked>>, epoch' >= epoch, revision' >= revision,
         \A t \in Sessions : \/ answer'[t] = answer[t]
                             \/ answer'[t] = [epoch |-> epoch', revision |-> revision'],
         pc'[s] # "saving", \A t \in Sessions \ {s} : pc'[t] = pc[t]
  PROVE  SoloInv'
<1>0. ThreadsInv /\ ThreadsInv'
  BY DEF SoloInv, LoneInv
<1>1. \A t \in Sessions : pc'[t] # "saving"
  BY LoneSaves DEF SoloInv, LoneInv
<1>2. \A t \in Sessions : SaverCarries(t)' /\ AnswerInForce(t)'
  BY <1>0, <1>1, CountersTyped, CountersTypedPrimed DEF SoloInv, SaverCarries, AnswerInForce
<1>3. AckedInForce'
  BY <1>0, CountersTyped, CountersTypedPrimed DEF SoloInv, AckedInForce
<1> QED BY <1>2, <1>3 DEF SoloInv, AckedIsDurable, Readable, storeVars

LEMMA IdlingSolo ==
  ASSUME SoloInv, LoneInv', NEW s \in Sessions, Idling(s)
  PROVE  SoloInv'
<1>1. /\ UNCHANGED <<engineVars, storeVars, config, answer, revision, acked>>
      /\ \A t \in Sessions : pc'[t] = pc[t] \/ pc'[t] # "saving"
  BY DEF Idling, AcceptSession, PeerVanishes, HandleOther, MakeContext, LoseSession,
         SayGoodbye, LeaveStopping, EndLostSession, EndSession, Set, SoloInv, LoneInv,
         ThreadsInv, SessionsOK
<1> QED BY <1>1, EngineStill DEF engineVars

\* respond_operation: the answer carries what is in force once it is given.
LEMMA RespondSolo ==
  ASSUME ThreadsInv, NEW s \in Sessions, Respond(s)
  PROVE  /\ pc'[s] # "saving" /\ \A t \in Sessions \ {s} : pc'[t] = pc[t]
         /\ \A t \in Sessions : \/ answer'[t] = answer[t]
                                \/ answer'[t] = [epoch |-> epoch', revision |-> revision']
BY DEF Respond, Set, ThreadsInv, SessionsOK

LEMMA HandlingSolo ==
  ASSUME SoloInv, LoneInv', NEW s \in Sessions, Handling(s)
  PROVE  SoloInv'
<1>0. ThreadsInv /\ ThreadsInv'
  BY DEF SoloInv, LoneInv
<1>1. UNCHANGED <<storeVars, config, acked, revision>> /\ pc[s] = "reading" /\ Respond(s)
  BY DEF Handling, HandleRegisterPublisher, HandleFenceNotice, HandleAdvanceEpoch, Dispatch
<1>2. epoch' = epoch \/ epoch' = epoch + 1
  BY DEF Handling, HandleRegisterPublisher, HandleFenceNotice, HandleAdvanceEpoch,
         Engine!RegisterPublisher, Engine!FencePublisher, Engine!AdvanceEpoch
<1>3. epoch' >= epoch /\ revision' >= revision
  BY <1>0, <1>1, <1>2, CountersTyped
<1>4. s \in LiveSessions
  BY <1>1 DEF LiveSessions
<1> QED BY <1>0, <1>1, <1>3, <1>4, RespondSolo, EngineMoves

LEMMA MutationSolo ==
  ASSUME SoloInv, LoneInv', NEW s \in Sessions, NEW pl \in Payloads, HandleMutation(s, pl)
  PROVE  SoloInv'
<1>0. ThreadsInv /\ ThreadsInv'
  BY DEF SoloInv, LoneInv
<1>1. UNCHANGED <<storeVars, config, acked, epoch>> /\ pc[s] = "mutating"
  BY DEF HandleMutation, engineVars, Engine!Mutate, Engine!ApplyPrefix, Engine!authorityKept
<1>2. revision' = revision \/ revision' = revision + 1
  BY DEF HandleMutation
<1>3. epoch' >= epoch /\ revision' >= revision
  BY <1>0, <1>1, <1>2, CountersTyped
<1>4. s \in LiveSessions
  BY <1>1 DEF LiveSessions
<1>5. CASE Respond(s)
  BY <1>0, <1>1, <1>3, <1>4, <1>5, RespondSolo, EngineMoves
<1>6. CASE pc' = [pc EXCEPT ![s] = "reading"] /\ UNCHANGED answer
  <2>1. pc'[s] # "saving" /\ \A t \in Sessions \ {s} : pc'[t] = pc[t]
    BY <1>0, <1>6 DEF ThreadsInv, SessionsOK
  <2> QED BY <1>1, <1>3, <1>4, <1>6, <2>1, EngineMoves
<1> QED BY <1>5, <1>6 DEF HandleMutation, Set

LEMMA FenceLostSolo ==
  ASSUME SoloInv, LoneInv', NEW s \in Sessions, FenceLostSession(s)
  PROVE  SoloInv'
<1>0. ThreadsInv /\ ThreadsInv'
  BY DEF SoloInv, LoneInv
<1>1. UNCHANGED <<storeVars, config, acked, epoch, revision, answer>> /\ pc[s] = "fencing"
  BY DEF FenceLostSession, engineVars, Engine!FencePublisher
<1>2. pc'[s] # "saving" /\ \A t \in Sessions \ {s} : pc'[t] = pc[t]
  BY <1>0 DEF FenceLostSession, EndSession, Set, ThreadsInv, SessionsOK
<1>3. epoch' >= epoch /\ revision' >= revision /\ s \in LiveSessions
  BY <1>0, <1>1, CountersTyped DEF LiveSessions
<1> QED BY <1>1, <1>2, <1>3, EngineMoves

\* save, under the shared lock: the bytes are the state as it is.
LEMMA EncodeSolo ==
  ASSUME SoloInv, LoneInv', NEW s \in Sessions, EncodeStore(s)
  PROVE  SoloInv'
<1>0. ThreadsInv /\ ThreadsInv' /\ s \in LiveSessions
  BY DEF SoloInv, LoneInv, EncodeStore, LiveSessions
<1>1. /\ UNCHANGED <<epoch, authority, revision, config, answer, acked, destination>>
      /\ saver' = [saver EXCEPT ![s] =
                     [step |-> "open", bytes |-> Durable, stream |-> "none"]]
      /\ pc' = [pc EXCEPT ![s] = "saving"]
  BY DEF EncodeStore, BeginSave, Set, engineVars
<1>2. SaverCarries(s)'
  BY <1>0, <1>1 DEF SaverCarries, Durable, ThreadsInv, StoreTypeOK
<1>3. ASSUME NEW t \in Sessions \ {s} PROVE SaverCarries(t)'
  <2>1. pc[t] # "saving" /\ pc'[t] = pc[t]
    BY <1>0, <1>1, LoneSaves DEF SoloInv, LoneInv, ThreadsInv, SessionsOK
  <2> QED BY <2>1 DEF SaverCarries
<1> QED BY <1>1, <1>2, <1>3
        DEF SoloInv, AnswerInForce, AckedInForce, AckedIsDurable, Readable

\* What a step of write_store_atomic does to the store of a lone saver: a
\* rename puts there what was encoded, any other step leaves it.
LEMMA LoneSaveStep ==
  ASSUME LoneInv, NEW s \in Sessions, SaveStep(s), SaverCarries(s), pc[s] = "saving"
  PROVE  /\ destination' = Durable \/ destination' = destination
         /\ saver'[s].step \in {"open", "write", "rename"} => saver'[s].bytes = Durable
         /\ saver'[s].step = "saved" => destination' = Durable
<1>0. /\ saver \in [Sessions -> SaverStates] /\ StepKnows(saver[s])
      /\ OneSaverAtATime
  BY LoneSaves DEF LoneInv, LoneSaverInv
<1>1. CASE OpenTemporary(s) \/ OpenFails(s)
  BY <1>0, <1>1 DEF OpenTemporary, OpenFails, At, SaverStates, SaverCarries
<1>2. CASE WriteTemporary(s)
  <2>1. /\ UNCHANGED destination
        /\ saver' = [saver EXCEPT ![s].step = "rename", ![s].stream = "none"]
        /\ saver[s].step = "write"
    BY <1>0, <1>2, WriteLone DEF WriteTemporary, At, LoneInv
  <2> QED BY <1>0, <2>1 DEF SaverStates, SaverCarries
<1>3. CASE WriteFails(s)
  <2>1. /\ UNCHANGED destination
        /\ saver' = [Renamed("unnamed") EXCEPT ![s].step = "failed", ![s].stream = "none"]
    BY <1>3 DEF WriteFails, RemoveTemporary
  <2>2. Renamed("unnamed")[s] \in SaverStates
    BY RenamedTyped DEF LoneInv, ThreadsInv
  <2>3. saver'[s] = [Renamed("unnamed")[s] EXCEPT !.step = "failed", !.stream = "none"]
    BY <2>1 DEF Renamed
  <2>4. saver'[s].step = "failed"
    <3> DEFINE r == Renamed("unnamed")[s]
    <3>1. r \in SaverStates /\ saver'[s] = [r EXCEPT !.step = "failed", !.stream = "none"]
      BY <2>2, <2>3
    <3> HIDE DEF r
    <3> QED BY <3>1 DEF SaverStates
  <2> QED BY <2>1, <2>4
<1>4. CASE RenameTemporary(s)
  <2>1. /\ saver[s].step = "rename" /\ saver[s].stream = "none"
        /\ temporary = saver[s].bytes /\ temporary \in Encodings
    BY <1>0, <1>4 DEF StepKnows, RenameTemporary, At
  <2>2. destination' = Durable
    BY <1>4, <2>1, EncodingsAssumption DEF RenameTemporary, SaverCarries
  <2>3. saver'[s].step = "saved"
    <3>1. saver' = [Renamed("destination") EXCEPT ![s].step = "saved"]
      BY <1>4, <2>1, EncodingsAssumption DEF RenameTemporary
    <3>2. Renamed("destination")[s] = saver[s]
      BY <2>1, RenamedIdle DEF LoneInv
    <3>3. saver'[s] = [Renamed("destination")[s] EXCEPT !.step = "saved"]
      BY <3>1 DEF Renamed
    <3> QED BY <1>0, <3>2, <3>3 DEF SaverStates
  <2> QED BY <2>2, <2>3
<1> QED BY <1>1, <1>2, <1>3, <1>4, NoFallback DEF SaveStep, LoneInv

\* What is in the store once a save has put it there.
LEMMA DurableIsReadable ==
  ASSUME EncodesDurableStates, LoneInv, destination' = Durable
  PROVE  /\ Readable' /\ destination'[1] = epoch /\ destination'[3] = revision
<1>1. Durable \in Encodings
  BY DEF EncodesDurableStates, Durable, DurableStates, LoneInv, ThreadsInv, SessionsOK,
         Engine!TypeOK, Engine!Generations
<1>2. Readable'
  BY <1>1, EncodingsAssumption DEF Readable
<1> QED BY <1>2 DEF Durable

LEMMA WriteSolo ==
  ASSUME EncodesDurableStates, SoloInv, LoneInv', NEW s \in Sessions, WriteStore(s)
  PROVE  SoloInv'
<1>0. ThreadsInv /\ s \in LiveSessions /\ LoneInv
  BY DEF SoloInv, LoneInv, WriteStore, LiveSessions
<1>1. /\ UNCHANGED <<epoch, authority, revision, config, answer, acked, pc>>
      /\ pc[s] = "saving" /\ SaveStep(s)
  BY DEF WriteStore, engineVars, sessionVars
<1>2. /\ destination' = Durable \/ destination' = destination
      /\ SaverCarries(s)'
  BY <1>0, <1>1, LoneSaveStep DEF SoloInv, SaverCarries, Durable
<1>3. ASSUME NEW t \in Sessions \ {s} PROVE SaverCarries(t)'
  <2>1. pc'[t] # "saving"
    BY <1>0, <1>1, LoneSaves DEF SoloInv, LoneInv
  <2> QED BY <2>1 DEF SaverCarries
<1>4. config.persistent
  BY <1>1 DEF SoloInv, LoneInv, ThreadsInv, ThreadOK
<1>5. AckedIsDurable'
  <2>1. CASE destination' = Durable
    <3>1. Readable' /\ destination'[1] = epoch /\ destination'[3] = revision
      BY <1>0, <2>1, DurableIsReadable
    <3>2. epoch >= acked.epoch /\ revision >= acked.revision
      BY <1>0, <1>4, CountersTyped DEF SoloInv, AckedInForce
    <3> QED BY <1>1, <3>1, <3>2 DEF AckedIsDurable
  <2>2. CASE destination' = destination
    BY <1>1, <2>2 DEF SoloInv, AckedIsDurable, Readable
  <2> QED BY <1>2, <2>1, <2>2
<1> QED BY <1>1, <1>2, <1>3, <1>4, <1>5 DEF SoloInv, AnswerInForce, AckedInForce

\* respond_operation, after save: the answer goes out, or an error instead.
LEMMA FinishSolo ==
  ASSUME EncodesDurableStates, SoloInv, LoneInv', NEW s \in Sessions, FinishSave(s)
  PROVE  SoloInv'
<1>0. ThreadsInv /\ ThreadsInv' /\ s \in LiveSessions /\ LoneInv
  BY DEF SoloInv, LoneInv, FinishSave, LiveSessions
<1>1. /\ UNCHANGED <<epoch, authority, revision, config, destination>>
      /\ pc[s] = "saving" /\ acked' = Later(acked, Acknowledged(s))
      /\ answer' = [answer EXCEPT ![s] = NoAnswer]
  BY DEF FinishSave, EndSave, engineVars, Set
<1>2. /\ pc'[s] # "saving"
      /\ \A t \in Sessions \ {s} : pc'[t] = pc[t] /\ pc'[t] # "saving"
  BY <1>0, LoneSaves DEF FinishSave, EndSession, Set, SoloInv, LoneInv, ThreadsInv, SessionsOK
<1>3. \A t \in Sessions : SaverCarries(t)'
  BY <1>2 DEF SaverCarries
<1>4. \A t \in Sessions : AnswerInForce(t)'
  BY <1>0, <1>1, CountersTyped
  DEF SoloInv, AnswerInForce, NoAnswer, ThreadsInv, SessionsOK
<1>5. config.persistent /\ acked.epoch <= epoch /\ acked.revision <= revision
      /\ AnswerInForce(s) /\ AckedIsDurable /\ SaverCarries(s)
  BY <1>1 DEF SoloInv, AckedInForce, LoneInv, ThreadsInv, ThreadOK
<1>6. CASE At(s, "saved")
  <2>1. destination' = Durable
    BY <1>1, <1>5, <1>6 DEF SaverCarries, At
  <2>2. Readable' /\ destination'[1] = epoch /\ destination'[3] = revision
    BY <1>0, <2>1, DurableIsReadable
  <2>3. acked' = Later(acked, answer[s])
    BY <1>1, <1>6 DEF Acknowledged
  <2>4. acked'.epoch <= epoch /\ acked'.revision <= revision
    BY <1>0, <1>5, <2>3, CountersTyped DEF Later, AnswerInForce
  <2>5. AckedIsDurable'
    BY <1>0, <1>1, <2>2, <2>4, CountersTyped, CountersTypedPrimed DEF AckedIsDurable
  <2> QED BY <1>1, <1>3, <1>4, <1>5, <2>4, <2>5 DEF SoloInv, AckedInForce
<1>7. CASE ~At(s, "saved")
  <2>1. acked' = acked
    <3>1. acked' = Later(acked, NoAnswer)
      BY <1>1, <1>7 DEF Acknowledged
    <3>2. ~(0 > acked.epoch) /\ ~(0 > acked.revision)
          /\ acked = [epoch |-> acked.epoch, revision |-> acked.revision]
      BY <1>0, CountersTyped DEF ThreadsInv, SessionsOK
    <3> QED BY <3>1, <3>2 DEF Later, NoAnswer
  <2> QED BY <1>1, <1>3, <1>4, <1>5, <2>1
          DEF SoloInv, AckedInForce, AckedIsDurable, Readable
<1> QED BY <1>6, <1>7

\* A restart takes up the stored state, which is no older than what was acknowledged.
LEMMA RestartSolo ==
  ASSUME EncodesDurableStates, SoloInv, LoneInv', Restart
  PROVE  SoloInv'
<1>0. ThreadsInv /\ StoreTypeOK
  BY DEF SoloInv, LoneInv, ThreadsInv
<1>1. /\ UNCHANGED <<config, acked, destination>>
      /\ \A s \in Sessions : pc'[s] = "free" /\ answer'[s] = NoAnswer
      /\ ThreadsInv'
  BY DEF Restart, KillSavers, NoSession, LoneInv
<1>2. \A s \in Sessions : SaverCarries(s)' /\ AnswerInForce(s)'
  BY <1>1, CountersTypedPrimed DEF SaverCarries, AnswerInForce, NoAnswer
<1>3. AckedIsDurable'
  BY <1>1 DEF SoloInv, AckedIsDurable, Readable
<1>4. AckedInForce'
  <2> SUFFICES ASSUME config.persistent
               PROVE  acked.epoch <= epoch' /\ acked.revision <= revision'
    BY <1>1 DEF AckedInForce
  <2>1. CASE Readable /\ Engine!Recover /\ revision' = destination[3]
    <3>1. epoch' = destination[1] + 1 /\ destination[1] \in 1 .. MaxGeneration
          /\ destination[3] \in Nat
      BY <1>0, <2>1, StoredTyped DEF Engine!Recover, StoredGenerations, DurableStates
    <3>2. destination[1] \in Nat
      BY <3>1, EngineAssumption
    <3>3. CASE acked = NoAnswer
      BY <2>1, <3>1, <3>2, <3>3 DEF NoAnswer
    <3>4. CASE acked # NoAnswer
      BY <1>0, <2>1, <3>1, <3>2, <3>4, CountersTyped DEF SoloInv, AckedIsDurable
    <3> QED BY <3>3, <3>4
  <2>2. CASE destination = NoFile /\ Engine!Construct /\ revision' = 0
    <3>1. acked = NoAnswer
      BY <2>2 DEF SoloInv, AckedIsDurable, Readable
    <3> QED BY <2>2, <3>1 DEF NoAnswer, Engine!Construct
  <2> QED BY <2>1, <2>2 DEF Restart
<1> QED BY <1>1, <1>2, <1>3, <1>4 DEF SoloInv

LEMMA SoloInductive ==
  ASSUME EncodesDurableStates, SoloStore, SoloInv, [Next]_vars
  PROVE  SoloInv'
<1>0. LoneInv'
  BY LoneInductive DEF SoloInv
<1>1. ASSUME NEW s \in Sessions, Idling(s) \/ Handling(s) \/ FenceLostSession(s)
      PROVE  SoloInv'
  BY <1>0, <1>1, IdlingSolo, HandlingSolo, FenceLostSolo
<1>2. ASSUME NEW s \in Sessions, NEW pl \in Payloads, HandleMutation(s, pl)
      PROVE  SoloInv'
  BY <1>0, <1>2, MutationSolo
<1>3. ASSUME NEW s \in Sessions, EncodeStore(s) \/ WriteStore(s) \/ FinishSave(s)
      PROVE  SoloInv'
  BY <1>0, <1>3, EncodeSolo, WriteSolo, FinishSolo
<1>4. CASE Restart
  BY <1>0, <1>4, RestartSolo
<1>5. CASE Stop \/ UNCHANGED vars
  <2>1. UNCHANGED <<epoch, authority, revision, storeVars, config, answer, acked, pc>>
    BY <1>5 DEF Stop, vars, engineVars, sessionVars
  <2> QED BY <1>0, <2>1, EngineStill
<1> QED BY <1>1, <1>2, <1>3, <1>4, <1>5 DEF Next, Thread, Idling, Handling

LEMMA InitSolo ==
  ASSUME EncodesDurableStates, Init
  PROVE  SoloInv
<1>1. LoneInv
  BY InitLoneInv
<1>2. \A s \in Sessions : SaverCarries(s) /\ AnswerInForce(s)
  BY DEF Init, SaverCarries, AnswerInForce, NoAnswer
<1> QED BY <1>1, <1>2
        DEF Init, StoreInit, SoloInv, AckedInForce, AckedIsDurable, NoAnswer

(***************************************************************************)
(* respond_operation saves before it answers: with one session at a time,  *)
(* whatever a peer was told is in force can be recovered from the store,   *)
(* at every moment the process may be killed and after every restart.      *)
(***************************************************************************)
THEOREM SoloAckedIsDurable ==
  ASSUME EncodesDurableStates, SoloStore
  PROVE  Spec => []AckedIsDurable
<1>1. Init => SoloInv
  BY InitSolo
<1>2. SoloInv /\ [Next]_vars => SoloInv'
  BY SoloInductive
<1>3. SoloInv => AckedIsDurable
  BY DEF SoloInv
<1> QED BY <1>1, <1>2, <1>3, PTL DEF Spec

-----------------------------------------------------------------------------
(***************************************************************************)
(* The coordinator implements the authority rules.                         *)
(***************************************************************************)

\* Handlers and mutations are operations of the engine.
LEMMA HandlingRefines ==
  ASSUME ThreadsInv, NEW s \in Sessions,
         Handling(s) \/ FenceLostSession(s) \/ \E pl \in Payloads : HandleMutation(s, pl)
  PROVE  [Engine!Next]_(Engine!authorityVars)
<1>1. ASSUME NEW p \in Publishers, NEW b \in Boots, HandleRegisterPublisher(s, p, b)
      PROVE  Engine!Next
  BY <1>1 DEF HandleRegisterPublisher, Engine!Next
<1>2. ASSUME NEW p \in Publishers, NEW b \in Boots, HandleFenceNotice(s, p, b)
      PROVE  Engine!Next
  BY <1>2 DEF HandleFenceNotice, Engine!Next
<1>3. CASE HandleAdvanceEpoch(s)
  BY <1>3 DEF HandleAdvanceEpoch, Engine!Next
<1>4. CASE FenceLostSession(s)
  <2>1. CASE Engine!FencePublisher(identity[s].publisher, identity[s].boot)
    <3>1. identity[s].publisher \in Publishers /\ identity[s].boot \in Boots
      BY <1>4 DEF FenceLostSession, ThreadsInv, ThreadOK, Registered, SessionsOK
    <3> QED BY <2>1, <3>1 DEF Engine!Next
  <2>2. CASE UNCHANGED engineVars
    BY <1>4, <2>2 DEF FenceLostSession, engineVars, storeVars, Engine!authorityVars,
                      StoredGenerations, Readable
  <2> QED BY <1>4, <2>1, <2>2 DEF FenceLostSession
<1>5. ASSUME NEW pl \in Payloads, HandleMutation(s, pl)
      PROVE  [Engine!Next]_(Engine!authorityVars)
  <2> DEFINE c == Context(s)
             a == <<s, dispatched[s]>>
  <2>1. c \in Engine!Contexts /\ a \in Sessions \X (1 .. MaxFrames)
    <3>1. /\ identity[s] \in [publisher : Publishers, boot : Boots]
          /\ context[s] \in 1 .. MaxGeneration /\ dispatched[s] \in 1 .. MaxFrames
      BY <1>5, CoordinatorAssumption, EngineAssumption
      DEF HandleMutation, ThreadsInv, ThreadOK, SessionsOK, Registered
    <3> QED BY <3>1 DEF Context, Engine!Contexts, Engine!Generations
  <2>2. \/ Engine!Mutate(c, a, pl) \/ Engine!ApplyPrefix(c, a, pl)
        \/ UNCHANGED <<engineVars, storeVars>>
    BY <1>5 DEF HandleMutation
  <2>3. CASE UNCHANGED <<engineVars, storeVars>>
    BY <2>3 DEF engineVars, storeVars, Engine!authorityVars, StoredGenerations, Readable
  <2> HIDE DEF c, a
  <2> QED BY <2>1, <2>2, <2>3 DEF Engine!Next
<1> QED BY <1>1, <1>2, <1>3, <1>4, <1>5 DEF Handling

\* A save is the rename; the other steps of write_store_atomic are not seen.
LEMMA WriteRefines ==
  ASSUME EncodesDurableStates, SoloInv, NEW s \in Sessions, WriteStore(s)
  PROVE  [Engine!Next]_(Engine!authorityVars)
<1>1. UNCHANGED engineVars /\ pc[s] = "saving" /\ SaveStep(s)
      /\ LoneInv /\ SaverCarries(s)
  BY DEF WriteStore, SoloInv
<1>2. CASE destination' = destination
  BY <1>1, <1>2 DEF engineVars, Engine!authorityVars, StoredGenerations, Readable
<1>3. CASE destination' = Durable
  <2>1. Readable'
    BY <1>1, <1>3, DurableIsReadable
  <2>2. StoredGenerations' = [epoch |-> epoch, authority |-> authority]
    BY <1>3, <2>1 DEF StoredGenerations, Durable
  <2> QED BY <1>1, <2>2 DEF Engine!Next, Engine!Save, engineVars
<1> QED BY <1>1, <1>2, <1>3, LoneSaveStep

LEMMA NextRefines ==
  ASSUME EncodesDurableStates, SoloInv, [Next]_vars
  PROVE  [Engine!Next]_(Engine!authorityVars)
<1>1. ASSUME NEW s \in Sessions, Idling(s) \/ EncodeStore(s) \/ FinishSave(s)
      PROVE  UNCHANGED Engine!authorityVars
  <2>1. UNCHANGED engineVars /\ UNCHANGED destination
    BY <1>1 DEF Idling, AcceptSession, PeerVanishes, HandleOther, MakeContext, LoseSession,
                SayGoodbye, LeaveStopping, EndLostSession, EncodeStore, FinishSave,
                BeginSave, EndSave, storeVars
  <2> QED BY <2>1 DEF engineVars, Engine!authorityVars, StoredGenerations, Readable
<1>2. ASSUME NEW s \in Sessions,
             Handling(s) \/ FenceLostSession(s) \/ \E pl \in Payloads : HandleMutation(s, pl)
      PROVE  [Engine!Next]_(Engine!authorityVars)
  BY <1>2, HandlingRefines DEF SoloInv, LoneInv
<1>3. ASSUME NEW s \in Sessions, WriteStore(s)
      PROVE  [Engine!Next]_(Engine!authorityVars)
  BY <1>3, WriteRefines
<1>4. CASE Restart
  BY <1>4 DEF Restart, Engine!Next
<1>5. CASE Stop \/ UNCHANGED vars
  BY <1>5 DEF Stop, vars, engineVars, storeVars, Engine!authorityVars, StoredGenerations,
              Readable
<1> QED BY <1>1, <1>2, <1>3, <1>4, <1>5 DEF Next, Thread, Idling, Handling

(***************************************************************************)
(* With one session at a time the coordinator implements the authority     *)
(* rules: handlers that take the lock more than once, saves in several     *)
(* steps, sessions that end and processes that are killed and started      *)
(* again add no step that an engine called one operation at a time, saved  *)
(* and recovered in one piece, could not take.                             *)
(***************************************************************************)
THEOREM SoloImplementsAuthority ==
  ASSUME EncodesDurableStates, SoloStore
  PROVE  Spec => ImplementsAuthority
<1>1. Init => SoloInv /\ Engine!Init
  <2>1. Init => Engine!Init
    BY DEF Init, StoreInit, Engine!Init, StoredGenerations, Readable, Engine!NoStore
  <2> QED BY <2>1, InitSolo
<1>2. SoloInv /\ [Next]_vars => SoloInv'
  BY SoloInductive
<1>3. SoloInv /\ [Next]_vars => [Engine!Next]_(Engine!authorityVars)
  BY NextRefines
<1> QED BY <1>1, <1>2, <1>3, PTL DEF Spec, ImplementsAuthority, Engine!Spec
=============================================================================
