----------------------------- MODULE Coordinator ----------------------------
(***************************************************************************)
(* The coordinator: sessions accepted, one thread for each, frames that    *)
(* call the engine, the store saved after every durable operation, peers   *)
(* that vanish, a stop that joins every thread and a process that is       *)
(* killed and started again.                                               *)
(*                                                                         *)
(* The engine is Authority.tla, called one locked operation at a time; the *)
(* store is StoreFile.tla, in which each session thread may be a saver.    *)
(* Everything between two lock acquisitions of a handler is a step here    *)
(* that other threads may come before.                                     *)
(***************************************************************************)
EXTENDS Integers, Sequences, StoreFile

CONSTANTS
  Publishers, Boots, Routes, Scopes, Payloads,              \* of Authority
  MaxPublishers, MaxAttempts, MaxGeneration, MaxAccepted,   \* of Authority
  Configurations,  \* of CoordinatorServer: [persistent, maxSessions]
  MaxFrames        \* bound: frames one session dispatches

ASSUME CoordinatorAssumption ==
  /\ Configurations \subseteq [persistent : BOOLEAN, maxSessions : Nat \ {0}]
  /\ MaxFrames \in Nat

\* What Authority.tla assumes of its constants, of which this is an instance.
ASSUME EngineAssumption ==
  /\ MaxPublishers \in Nat /\ MaxAttempts \in Nat
  /\ MaxGeneration \in Nat \ {0} /\ MaxAccepted \in Nat
  /\ Scopes \subseteq SUBSET Routes
  /\ "none" \notin Boots

VARIABLES
  epoch, authority, registrations, fencedBoots, fences,     \* of Authority
  attempts, attemptOrder, accepted, recorded,               \* of Authority
  config,      \* CoordinatorServer::Config
  running,     \* CoordinatorServer::Impl::running_
  pc,          \* where the thread of a session is
  ended,       \* SessionEnd: how run_session returned
  connected,   \* whether the peer of a session is still there
  identity,    \* Session::registered, publisher and worker_boot
  dispatched,  \* Session::dispatched
  context,     \* the epoch make_context read
  answer,      \* what the pending response will acknowledge
  revision,    \* policy state: how often a mutation has changed it
  acked        \* history: the newest state a peer was told is in force

engineVars == <<epoch, authority, registrations, fencedBoots, fences, attempts,
                attemptOrder, accepted, recorded>>
sessionVars == <<pc, ended, connected, identity, dispatched, context, answer>>
vars == <<engineVars, storeVars, sessionVars, config, running, revision, acked>>

\* What a store holds: the generations and the policies.
DurableStates == (1 .. MaxGeneration) \X (1 .. MaxGeneration) \X Nat

\* Seeded fault: the authority generation is written as a fresh engine has it.
DurableWithoutAuthority == <<epoch, 1, revision>>

\* build_durable.
Durable == <<epoch, authority, revision>>

StoredGenerations ==
  IF Readable THEN [epoch |-> destination[1], authority |-> destination[2]]
  ELSE [epoch |-> 0, authority |-> 0]

Engine == INSTANCE Authority
  WITH store <- StoredGenerations, Attempts <- Sessions \X (1 .. MaxFrames)

NoIdentity == [publisher |-> "none", boot |-> "none"]
NoAnswer == [epoch |-> 0, revision |-> 0]
ThreadSteps == {"free", "reading", "mutating", "encoding", "saving",
                "ending", "fencing", "done"}

CoordinatorTypeOK ==
  /\ Engine!TypeOK /\ StoreTypeOK
  /\ config \in Configurations /\ running \in BOOLEAN
  /\ pc \in [Sessions -> ThreadSteps]
  /\ ended \in [Sessions -> {"no", "CLEAN_BYE", "SERVER_STOPPING", "LOST"}]
  /\ connected \in [Sessions -> BOOLEAN]
  /\ identity \in [Sessions -> [publisher : Publishers, boot : Boots] \cup {NoIdentity}]
  /\ dispatched \in [Sessions -> 0 .. MaxFrames]
  /\ context \in [Sessions -> 0 .. MaxGeneration]
  /\ answer \in [Sessions -> [epoch : 0 .. MaxGeneration, revision : Nat]]
  /\ revision \in Nat
  /\ acked \in [epoch : 0 .. MaxGeneration, revision : Nat]

NoSession ==
  /\ pc' = [s \in Sessions |-> "free"]
  /\ ended' = [s \in Sessions |-> "no"]
  /\ connected' = [s \in Sessions |-> FALSE]
  /\ identity' = [s \in Sessions |-> NoIdentity]
  /\ dispatched' = [s \in Sessions |-> 0]
  /\ context' = [s \in Sessions |-> 0]
  /\ answer' = [s \in Sessions |-> NoAnswer]

\* A first start: no store, the constructor of the engine, no session.
Init ==
  /\ epoch = 1 /\ authority = 1
  /\ registrations = Engine!NoRegistrations
  /\ fencedBoots = {} /\ fences = Engine!NoFences
  /\ attempts = Engine!NoAttempts /\ attemptOrder = <<>>
  /\ accepted = <<>> /\ recorded = <<>>
  /\ StoreInit
  /\ config \in Configurations /\ running = TRUE
  /\ pc = [s \in Sessions |-> "free"]
  /\ ended = [s \in Sessions |-> "no"]
  /\ connected = [s \in Sessions |-> FALSE]
  /\ identity = [s \in Sessions |-> NoIdentity]
  /\ dispatched = [s \in Sessions |-> 0]
  /\ context = [s \in Sessions |-> 0]
  /\ answer = [s \in Sessions |-> NoAnswer]
  /\ revision = 0 /\ acked = NoAnswer

Set(f, s, value) == [f EXCEPT ![s] = value]

\* The end of a session thread: its socket is closed, and with the Session
\* object its counter goes.
EndSession(s) ==
  /\ pc' = Set(pc, s, "done")
  /\ connected' = Set(connected, s, FALSE)
  /\ dispatched' = Set(dispatched, s, 0)

\* live_sessions_ counts from accept to the end of the thread.
LiveSessions == {s \in Sessions : pc[s] \notin {"free", "done"}}

\* session_counter_: ids follow one another and are not used again in a process.
NextSession == CHOOSE s \in Sessions : pc[s] = "free"

(***************************************************************************)
(* accept_loop: one thread, so the check and the increment are not torn    *)
(* apart.  A connection over the limit is closed and leaves no trace.      *)
(***************************************************************************)
AcceptSession(s) ==
  /\ running /\ pc[s] = "free" /\ s = NextSession
  /\ Cardinality(LiveSessions) < config.maxSessions
  /\ pc' = Set(pc, s, "reading") /\ connected' = Set(connected, s, TRUE)
  /\ UNCHANGED <<engineVars, storeVars, config, running, ended, identity,
                 dispatched, context, answer, revision, acked>>

\* The peer closes its end or dies; what it has sent may still be dispatched.
PeerVanishes(s) ==
  /\ s \in LiveSessions /\ connected[s]
  /\ connected' = Set(connected, s, FALSE)
  /\ UNCHANGED <<engineVars, storeVars, config, running, pc, ended, identity,
                 dispatched, context, answer, revision, acked>>

\* Seeded fault: the sessions number their frames from one counter.
DispatchShared(s) ==
  /\ running /\ pc[s] = "reading"
  /\ dispatched[s] < MaxFrames
  /\ \E last \in {dispatched[t] : t \in Sessions} :
       /\ \A t \in Sessions : dispatched[t] <= last
       /\ dispatched' = Set(dispatched, s, last + 1)

\* dispatch: every frame, refused or not, takes the next attempt number.
Dispatch(s) ==
  /\ running /\ pc[s] = "reading"
  /\ dispatched[s] < MaxFrames
  /\ dispatched' = [dispatched EXCEPT ![s] = @ + 1]

Registered(s) == identity[s] # NoIdentity

(***************************************************************************)
(* respond_operation, up to save: when there is a store, a success is      *)
(* saved before it is answered.                                            *)
(***************************************************************************)
Respond(s) ==
  IF config.persistent
  THEN /\ pc' = Set(pc, s, "encoding")
       /\ answer' = Set(answer, s, [epoch |-> epoch', revision |-> revision'])
  ELSE /\ pc' = Set(pc, s, "reading")
       /\ UNCHANGED answer

\* A frame that changes nothing but the attempt number: a greeting, a query,
\* a frame of an unregistered session, an operation the engine refuses.
HandleOther(s) ==
  /\ Dispatch(s)
  /\ UNCHANGED <<engineVars, storeVars, config, running, pc, ended, connected,
                 identity, context, answer, revision, acked>>

HandleRegisterPublisher(s, p, b) ==
  /\ Dispatch(s)
  /\ UNCHANGED <<storeVars, revision>>
  /\ \E scope \in Scopes : Engine!RegisterPublisher(p, b, s, scope)
  /\ identity' = Set(identity, s, [publisher |-> p, boot |-> b])
  /\ Respond(s)
  /\ UNCHANGED <<config, running, ended, connected, context, acked>>

\* Any registered session may fence any incarnation.
HandleFenceNotice(s, p, b) ==
  /\ Registered(s) /\ Dispatch(s)
  /\ UNCHANGED <<storeVars, revision>>
  /\ Engine!FencePublisher(p, b)
  /\ Respond(s)
  /\ UNCHANGED <<config, running, ended, connected, identity, context, acked>>

HandleAdvanceEpoch(s) ==
  /\ Registered(s) /\ Dispatch(s)
  /\ UNCHANGED <<storeVars, revision>>
  /\ Engine!AdvanceEpoch
  /\ Respond(s)
  /\ UNCHANGED <<config, running, ended, connected, identity, context, acked>>

\* make_context: the epoch is read under one lock, the mutation takes another.
MakeContext(s) ==
  /\ Registered(s) /\ Dispatch(s)
  /\ context' = Set(context, s, epoch)
  /\ pc' = Set(pc, s, "mutating")
  /\ UNCHANGED <<engineVars, storeVars, config, running, ended, connected,
                 identity, answer, revision, acked>>

Context(s) ==
  [epoch |-> context[s], publisher |-> identity[s].publisher,
   boot |-> identity[s].boot, session |-> s]

(***************************************************************************)
(* The engine's part of a mutation: carried out and reported as a success; *)
(* a batch carried out in part, reported as an error without the flag that *)
(* something changed, and so not saved; or refused.                        *)
(***************************************************************************)
HandleMutation(s, pl) ==
  /\ pc[s] = "mutating"
  /\ UNCHANGED storeVars
  /\ LET attempt == <<s, dispatched[s]>>
     IN \/ /\ revision' = revision + 1
           /\ Engine!Mutate(Context(s), attempt, pl)
           /\ Respond(s)
        \/ /\ revision' = revision + 1
           /\ Engine!ApplyPrefix(Context(s), attempt, pl)
           /\ pc' = Set(pc, s, "reading") /\ UNCHANGED answer
        \/ /\ UNCHANGED <<engineVars, revision, answer>>
           /\ pc' = Set(pc, s, "reading")
  /\ context' = Set(context, s, 0)
  /\ UNCHANGED <<config, running, ended, connected, identity, dispatched, acked>>

\* save, under the shared lock.
EncodeStore(s) ==
  /\ pc[s] = "encoding"
  /\ BeginSave(s, Durable)
  /\ pc' = Set(pc, s, "saving")
  /\ UNCHANGED <<engineVars, config, running, ended, connected, identity,
                 dispatched, context, answer, revision, acked>>

WriteStore(s) ==
  /\ pc[s] = "saving"
  /\ SaveStep(s)
  /\ UNCHANGED <<engineVars, sessionVars, config, running, revision, acked>>

Later(a, b) ==
  [epoch |-> IF b.epoch > a.epoch THEN b.epoch ELSE a.epoch,
   revision |-> IF b.revision > a.revision THEN b.revision ELSE a.revision]

\* Seeded fault: a failed save is swallowed.
AcknowledgedAnyway(s) == answer[s]

\* respond_operation, after save: a failed save turns the answer into an error.
Acknowledged(s) == IF At(s, "saved") THEN answer[s] ELSE NoAnswer

\* The save is over: the response of a handler, or the end of a lost session.
FinishSave(s) ==
  /\ pc[s] = "saving"
  /\ EndSave(s)
  /\ acked' = Later(acked, Acknowledged(s))
  /\ answer' = Set(answer, s, NoAnswer)
  /\ IF ended[s] = "no"
     THEN pc' = Set(pc, s, "reading") /\ UNCHANGED <<connected, dispatched>>
     ELSE EndSession(s)
  /\ UNCHANGED <<engineVars, config, running, ended, identity, context, revision>>

\* run_session returns without a goodbye: the peer closed, a frame is
\* malformed, a partial frame has stalled too long.
LoseSession(s) ==
  /\ running /\ pc[s] = "reading"
  /\ pc' = Set(pc, s, "ending") /\ ended' = Set(ended, s, "LOST")
  /\ UNCHANGED <<engineVars, storeVars, config, running, connected, identity,
                 dispatched, context, answer, revision, acked>>

\* BYE.
SayGoodbye(s) ==
  /\ running /\ pc[s] = "reading" /\ dispatched[s] < MaxFrames
  /\ EndSession(s) /\ ended' = Set(ended, s, "CLEAN_BYE")
  /\ UNCHANGED <<engineVars, storeVars, config, running, identity, context,
                 answer, revision, acked>>

\* Seeded fault: the stop flag is looked at when a peer has closed.
SeesStopOnceClosed(s) == ~running /\ ~connected[s]

\* The receive loop polls: it looks at running_ every poll_interval.
SeesStop(s) == ~running

LeaveStopping(s) ==
  /\ pc[s] = "reading" /\ SeesStop(s)
  /\ EndSession(s) /\ ended' = Set(ended, s, "SERVER_STOPPING")
  /\ UNCHANGED <<engineVars, storeVars, config, running, identity, context,
                 answer, revision, acked>>

\* Seeded fault: only a peer whose connection is closed is fenced.
MustFenceIfClosed(s) == running /\ Registered(s) /\ ~connected[s]

\* Seeded fault: a peer that closed is taken to have said goodbye.
MustFenceUnlessClosed(s) == running /\ Registered(s) /\ connected[s]

\* A lost session fences what it registered, unless the coordinator stops.
MustFence(s) == running /\ Registered(s)

\* session_loop after run_session: running_ is read, and the engine called later.
EndLostSession(s) ==
  /\ pc[s] = "ending"
  /\ IF MustFence(s)
     THEN pc' = Set(pc, s, "fencing") /\ UNCHANGED <<connected, dispatched>>
     ELSE EndSession(s)
  /\ UNCHANGED <<engineVars, storeVars, config, running, ended, identity,
                 context, answer, revision, acked>>

\* The incarnation may be gone by now: replaced, fenced or lost with its epoch.
FenceLostSession(s) ==
  /\ pc[s] = "fencing"
  /\ UNCHANGED storeVars
  /\ \/ /\ Engine!FencePublisher(identity[s].publisher, identity[s].boot)
        /\ IF config.persistent
           THEN pc' = Set(pc, s, "encoding") /\ UNCHANGED <<connected, dispatched>>
           ELSE EndSession(s)
     \/ /\ registrations[identity[s].publisher].boot # identity[s].boot
        /\ EndSession(s)
        /\ UNCHANGED engineVars
  /\ UNCHANGED <<config, running, ended, identity, context, answer, revision, acked>>

\* stop: the flag first, then every thread is joined.
Stop ==
  /\ running /\ running' = FALSE
  /\ UNCHANGED <<engineVars, storeVars, sessionVars, config, revision, acked>>

(***************************************************************************)
(* start in a new process, after a stop that has joined every thread or at *)
(* any moment after a kill: a readable store is loaded, a missing one is a *)
(* first run, and any other refuses to start.                              *)
(***************************************************************************)
Restart ==
  /\ KillSavers
  /\ \/ Readable /\ Engine!Recover /\ revision' = destination[3]
     \/ destination = NoFile /\ Engine!Construct /\ revision' = 0
  /\ NoSession
  /\ running' = TRUE
  /\ UNCHANGED <<config, acked>>

Thread(s) ==
  \/ \E pl \in Payloads : HandleMutation(s, pl)
  \/ EncodeStore(s)
  \/ WriteStore(s)
  \/ FinishSave(s)
  \/ EndLostSession(s)
  \/ FenceLostSession(s)
  \/ LeaveStopping(s)

Next ==
  \/ \E s \in Sessions :
       \/ AcceptSession(s)
       \/ PeerVanishes(s)
       \/ HandleOther(s)
       \/ \E p \in Publishers, b \in Boots :
            HandleRegisterPublisher(s, p, b) \/ HandleFenceNotice(s, p, b)
       \/ HandleAdvanceEpoch(s)
       \/ MakeContext(s)
       \/ LoseSession(s)
       \/ SayGoodbye(s)
       \/ Thread(s)
  \/ Stop
  \/ Restart

(***************************************************************************)
(* What the threads do by themselves: no lock is held for ever, the disk   *)
(* answers, and a closed connection is noticed by the polling receive once *)
(* what came over it is dispatched.  Peers owe nothing.                    *)
(***************************************************************************)
Fairness ==
  \A s \in Sessions : WF_vars(Thread(s) \/ (~connected[s] /\ LoseSession(s)))

Spec == Init /\ [][Next]_vars /\ Fairness
=============================================================================
