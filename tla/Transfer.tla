------------------------------ MODULE Transfer -------------------------------
(***************************************************************************)
(* Messages on their way from one end of a session to the other, and the   *)
(* store on its way through a file, at the level of what is written and    *)
(* what is read.  Frames follow each other in one stream.  A stream or a   *)
(* file may end early, or hold a cell that is not the one written; then it *)
(* is only read.                                                           *)
(*                                                                         *)
(* The values are those of the constants Messages and Stores.  Some have a *)
(* member one step outside its range: what a default constructed structure *)
(* holds, what a caller built without a check, or what a peer or an engine *)
(* of another revision wrote.                                              *)
(***************************************************************************)
EXTENDS WireFormat, StoreFormat

CONSTANTS Messages,   \* for each name of MessageId, the values that are sent
          Stores,     \* the states that are saved
          StoreBounds, \* max_store_bytes of the engine that saves; load has the default
          Common,     \* the sent values and saved states that meet with damage
          Epochs      \* the epochs a frame may carry; zero is no epoch

ASSUME StoreBoundsAssumption == StoreBounds \subseteq Nat

VARIABLES sent,       \* what was framed and written to the stream, in order
          stream,     \* the cells of the stream that are not consumed
          received,   \* what was read from the stream, in order
          status,     \* the outcome of the last decode_frame
          saved,      \* the state that was saved, at most one
          file,       \* the cells of the store
          loaded,     \* the outcome of decode_durable_state
          damage      \* what happened to the stream or the file

vars == <<sent, stream, received, status, saved, file, loaded, damage>>

wire == <<sent, stream, received, status>>
disk == <<saved, file, loaded>>

Init ==
  /\ sent = <<>> /\ stream = <<>> /\ received = <<>> /\ status = "NONE"
  /\ saved = <<>> /\ file = <<>> /\ loaded = Unread("NONE")
  /\ damage = "NONE"

\* A frame is encoded and written, or encode_frame refuses it.
Send(name, value, epoch) ==
  LET sequence == Len(sent) + 1
      frame == EncodeFrame(MessageId[name].id, sequence, epoch, Put(MessageId[name].put, value))
  IN  /\ saved = <<>> /\ received = <<>> /\ damage = "NONE"
      /\ sent # <<>> => sent[1].value \in Common.messages[sent[1].name]
                        /\ value \in Common.messages[name] /\ Len(sent) < 2
      /\ frame # <<>>
      /\ sent' = Append(sent, [name |-> name, value |-> value, sequence |-> sequence, epoch |-> epoch])
      /\ stream' = stream \o frame
      /\ UNCHANGED <<received, status, damage, disk>>

\* save: the state is encoded and replaces the file, unless the encoding is larger than
\* the engine's own limit: then save answers RESOURCE_LIMIT and the file stays.
Save(state, bound) ==
  LET bytes == EncodeStore(state)
  IN  /\ saved = <<>> /\ sent = <<>>
      /\ Bytes(bytes) <= bound
      /\ saved' = <<state>> /\ file' = bytes
      /\ UNCHANGED <<loaded, damage, wire>>

Damageable ==
  /\ damage = "NONE" /\ received = <<>> /\ loaded.status = "NONE"
  /\ \/ Len(sent) = 1 /\ sent[1].value \in Common.messages[sent[1].name]
     \/ saved # <<>> /\ saved[1] \in Common.stores

\* Only the first n cells are there.
Cut(n) ==
  /\ Damageable
  /\ n < Len(IF saved = <<>> THEN stream ELSE file)
  /\ stream' = SubSeq(stream, 1, Min({n, Len(stream)}))
  /\ file' = SubSeq(file, 1, Min({n, Len(file)}))
  /\ damage' = "CUT"
  /\ UNCHANGED <<sent, received, status, saved, loaded>>

\* A cell with another content, one that a put of the same width writes.
Other(cell) ==
  IF Len(cell) = 3 THEN Digest(<<cell>>)
  ELSE [cell EXCEPT ![2] = IF @ = 0 THEN 1 ELSE @ - 1]

Alter(i) ==
  /\ Damageable
  /\ \/ i \in DOMAIN stream /\ stream' = [stream EXCEPT ![i] = Other(@)] /\ file' = file
     \/ i \in DOMAIN file /\ file' = [file EXCEPT ![i] = Other(@)] /\ stream' = stream
  /\ damage' = "ALTERED"
  /\ UNCHANGED <<sent, received, status, saved, loaded>>

NameOf(id) == CHOOSE name \in DOMAIN MessageId : MessageId[name].id = id

\* One frame is taken off the stream and its payload decoded, as the message of its
\* identifier; on any other status but INCOMPLETE the session ends.
Receive ==
  LET frame == DecodeFrame(stream)
      name == NameOf(frame.id)
      body == Decode(MessageId[name].get, frame.payload)
  IN  /\ sent # <<>> /\ status \in {"NONE", "OK"}
      /\ status = "OK" => stream # <<>>
      /\ status' = frame.status
      /\ IF frame.status = "OK"
         THEN /\ received' = Append(received, [name |-> name, ok |-> body.ok, value |-> body.value,
                                               sequence |-> frame.sequence, epoch |-> frame.epoch])
              /\ stream' = SubSeq(stream, frame.consumed + 1, Len(stream))
         ELSE UNCHANGED <<received, stream>>
      /\ UNCHANGED <<sent, damage, disk>>

\* load: the file is read and decoded.
Load ==
  /\ saved # <<>> /\ loaded.status = "NONE"
  /\ loaded' = DecodeStore(file)
  /\ UNCHANGED <<saved, file, damage, wire>>

Next ==
  \/ \E name \in DOMAIN MessageId : \E value \in Messages[name], epoch \in Epochs :
       Send(name, value, epoch)
  \/ \E state \in Stores, bound \in StoreBounds : Save(state, bound)
  \/ \E n \in 0..Len(stream) + Len(file) : Cut(n)
  \/ \E i \in 1..Len(stream) + Len(file) : Alter(i)
  \/ Receive
  \/ Load

Spec == Init /\ [][Next]_vars

-----------------------------------------------------------------------------
(* What a value must be for the other end to take it, said of the value and *)
(* not of its cells.                                                        *)

RECURSIVE Meaningful(_, _)
Meaningful(field, value) ==
  CASE field.kind = "int"   -> value \in field.low..field.high
    [] field.kind = "text"  -> value[1] \in field.low..field.high
    [] field.kind = "maybe" -> value = <<>> \/ Meaningful(field.of, Head(value))
    [] field.kind = "list"  -> /\ Len(value) <= field.bound
                               /\ \A i \in DOMAIN value : Meaningful(field.of, value[i])
    [] field.kind \in {"struct", "record"} ->
         /\ \A i \in DOMAIN field.layout :
              Meaningful(field.layout[i], value[field.layout[i].name])
         /\ Passes(field.check, value)

\* The bytes of a value: eight for a length, one for a presence flag.
RECURSIVE Size(_, _)
Size(field, value) ==
  CASE field.kind = "int"   -> field.width
    [] field.kind = "text"  -> 8 + value[1]
    [] field.kind = "maybe" -> IF value = <<>> THEN 1 ELSE 1 + Size(field.of, Head(value))
    [] field.kind = "list"  ->
         8 + MapThenSumSet(LAMBDA i : Size(field.of, value[i]), DOMAIN value)
    [] field.kind \in {"struct", "record"} ->
         (IF field.kind = "record" THEN 8 ELSE 0)
         + MapThenSumSet(LAMBDA i : Size(field.layout[i], value[field.layout[i].name]),
                         DOMAIN field.layout)

\* The bytes of a store: magic and version, the state, the trailer.
StoreSize(state) == 8 + Size(StoreState, state) + 8

\* The default limits, which decode_durable_state applies.
WithinLimits(state) ==
  /\ StoreSize(state) <= Limits.max_store_bytes
  /\ \A part \in ToSet(StoreState.layout) : part.kind = "list" =>
       \A record \in ToSet(state[part.name]) :
         Size(part.of, record) - 8 <= Limits.max_persistence_record_bytes
  /\ \A n \in {Len(state.policies), Len(state.preferences), Len(state.stable_states),
                Len(state.timings)} : n <= Limits.max_policies
  /\ Len(state.revocations) <= Limits.max_revocations
  /\ Len(state.history) <= Limits.max_decision_history
  /\ \A policy \in ToSet(state.policies) :
       /\ Len(policy.scope.routes) <= Limits.max_scope_routes
       /\ Len(policy.scope.multipath_sets) <= Limits.max_scope_multipath_sets
       /\ Len(policy.semantics.thresholds) <= Limits.max_thresholds_per_policy
       /\ Len(policy.semantics.improvements) <= Limits.max_objective_terms
       /\ Len(policy.semantics.objective.terms) <= Limits.max_objective_terms
       /\ Len(policy.semantics.evidence) <= Limits.max_evidence_requirements_per_policy
       /\ Len(policy.semantics.priorities) <= Limits.max_candidates_per_policy
  /\ \A preference \in ToSet(state.preferences) : \A proposal \in ToSet(preference.weight_proposal) :
       Len(proposal.weights) <= Limits.max_candidates_per_policy
  /\ \A timing \in ToSet(state.timings) :
       /\ timing.dampening_penalty <= Limits.max_dampening_penalty
       /\ Len(timing.churn_ages) <= Limits.max_adaptations_per_window

-----------------------------------------------------------------------------
(* Properties                                                               *)

\* Whatever happened on the way, what is read is what was written: messages in the
\* order they were sent and under their own sequence number and epoch, and every member
\* of a message or of the store where the encoder put it.  The encoders and decoders of
\* wire.cpp and persistence.cpp are written apart, and a member read in another place
\* would still be a number or a name.
ReadsWhatWasWritten ==
  /\ \A i \in DOMAIN received :
       /\ received[i].name = sent[i].name
       /\ received[i].sequence = sent[i].sequence /\ received[i].epoch = sent[i].epoch
       /\ received[i].ok => received[i].value = sent[i].value
  /\ loaded.status = "OK" => loaded.state = saved[1]

\* When nothing happened on the way, a message or a store is refused only for what is
\* wrong with its value: a member out of range, a list beyond its bound, a structure that
\* contradicts itself, a record or a store of more bytes than the default limits allow,
\* and then it is always refused.  A decoder that tests too
\* much loses stores and messages that an engine wrote; one that tests too little lets
\* a state in that no operation could have produced.
ReadsExactlyTheMeaningful ==
  damage = "NONE" =>
    /\ sent # <<>> => status \in {"NONE", "OK"}
    /\ \A i \in DOMAIN received :
         received[i].ok <=> Meaningful(MessageId[sent[i].name].put, sent[i].value)
    /\ loaded.status # "NONE" =>
         (loaded.status = "OK" <=> /\ Meaningful(StoreState, saved[1]) /\ WithinLimits(saved[1]))

\* Damage is noticed and never taken for something else: a frame that is not yet there
\* as a whole is INCOMPLETE, so that the reader waits for the rest instead of ending the
\* session; a torn store and an altered store or frame are never read.
DamageIsNoticed ==
  /\ damage = "CUT" => status \in {"NONE", "INCOMPLETE"}
  /\ damage # "NONE" => received = <<>> /\ loaded.status # "OK"
=============================================================================
