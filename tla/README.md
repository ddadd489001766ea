# A TLA+ model of Adaptive Routing Fabric

Adaptive Routing Fabric is an in-process decision engine (C++17) with a small
coordinator around it. It decides which of several already legal paths a route
should prefer, from declared policies and published evidence, and it is meant to
do so without flapping and without ever acting on a fact that has since changed.
This directory holds TLA+ modules translated from that engine, TLC configurations
that check them on small instances, and TLAPS proofs of the results that hold for
every instance. Paths below are relative to the repository.

## 1. Inventory

| Part | State it keeps | Operations | Source |
|---|---|---|---|
| Policies and lifecycle | `PolicyRecord::policy`: semantics, generation, lifecycle; revocations | create, update, transition, revoke | `src/fabric_policy.cpp`, `src/lifecycle.cpp`, `src/policy.cpp` |
| Upstream bindings | `PolicyRecord::candidates` with a watermark per path; reverse indexes | `apply_upstream` (12 events), `apply_invalidation`, `reindex_policy`, `unindex_policy` | `src/fabric_policy.cpp`, `src/fabric.cpp` |
| Evidence | series per (source, path, metric), evidence generation and watermark | `publish_evidence` | `src/fabric_evidence.cpp` |
| Metrics | none | improvement, normalisation, aggregation, weighted score | `src/metrics.cpp` |
| Evaluation and commit | preference, stable state, timing, history of a policy; tickets held by callers; count of outstanding evaluations | `begin_evaluation`, `commit_evaluation`, `evaluate`, `rollback` | `src/fabric_evaluate.cpp` |
| Authority | epoch, authority generation, registrations, live and fenced boots | register, fence, `advance_epoch`, `check_caller` | `src/fabric.cpp` |
| Attempts | bounded table of attempt ids and fingerprints | `replay_check`, `record_attempt`, `prune_attempts` | `src/fabric.cpp` |
| Persistence | one store file and its temporary | `save`, `load`, `build_durable`, `apply_durable` | `src/fabric_api.cpp`, `src/persistence.cpp` |
| Queries | retained snapshots | snapshot, currentness, explain, diff | `src/fabric_query.cpp`, `src/view.cpp` |
| Transport | session table, per-session counters | accept, hello, dispatch, loss of a session | `src/transport.cpp` |
| Wire codec | none | one `encode` and one `decode` for each body, the frame | `src/wire.cpp`, `src/codec.cpp` |
| Identifiers | one counter | `next_evaluation_id`, `next_decision_id`, ... | `ids.hpp` |
| Tools | none | arguments, printing, start | `tools/` |

How they interact. Every engine operation takes `Impl::mutex_`, exclusively when
it changes state. An evaluation is the exception: phase one copies its inputs
under the shared lock, decides with no lock held and returns a ticket; phase two
takes the exclusive lock, compares the ticket with the present and commits. Upstream
events reach a candidate through the policy they name and reach every *other*
policy that binds the same path through the reverse index. Commit and rollback
write preference, anchor, timers and history together; the next evaluation reads
them back as hold-down, cooldown, churn and the reverse hysteresis. `advance_epoch`
cuts across everything: it fences every worker, clears timers and sends every
policy that is not terminal to revalidation. The transport calls the engine from one
thread per session; `save` may run beside all of it.

What is hard here: what happens between the two phases of an evaluation; that the
comparison in phase two is a *summary* (generations, watermarks, verdicts) of what
phase one read; timers armed by one kind of move and tested by another; limits that
silently prune; recovery from a store written by an engine that went on working; and
two threads saving at once; two pieces of code that must say the same, as an encoder and
its decoder, or the verdict of a snapshot and the eligibility of an evaluation.
`PROJECT.json` lists these as hazards, each at its line, with the properties that cover
it or the reason why none does.

What would make each part correct:

* evaluation and commit: only present facts are committed, onto a path that is usable
  at that moment; no ordinary move inside hold-down, cooldown or an exhausted churn
  window; a rollback always returns to what was displaced;
* bindings: the index equals a scan; an invalidation reaches all dependents, and no
  one else;
* policies: a terminal policy never changes again;
* authority: a fenced boot never mutates anything again; epochs never repeat;
* attempts: one attempt is applied once;
* persistence: what is written can be read, and a restart never shortens a timer;
* evidence: a series holds the newest samples of the newest incarnation, each once, and a
  candidate is eligible only on evidence that supports it; the order of candidates is a
  strict order that no dominated candidate leads;
* metrics: the integer formulas agree with their exact definitions;
* codec: what is read is what was written, and nothing else is accepted;
* queries: a preference is called current only if it would be found eligible.

## 2. Modules

| Module | What it is |
|---|---|
| `Adaptation` | the decision engine: policies, bindings, index, evidence, evaluation, commit, rollback, epochs |
| `AdaptationProperties` | what the engine promises, and what the documentation claims it promises |
| `MCAdaptation` | instances for TLC: rule sets, bindings, starting states |
| `AdaptationProofs` | type correctness, the anchor invariant, hold-down, cooldown and the churn bound, proved |
| `Incarnation` | abstract: which boot speaks for a publisher, which boots are retired, who acted |
| `Authority` | registrations, fences, epochs, the caller check, the attempt table, recovery |
| `AuthorityProperties` | what these promise, the refinement mapping to `Incarnation` |
| `MCAuthority` | instances for TLC |
| `AuthorityProofs` | types, epochs, fences and the attempt table, and that `Authority` implements `Incarnation`, proved |
| `StoreFile` | `write_store_atomic` step by step: the store, its one temporary, any number of savers, a kill |
| `Coordinator` | sessions and their threads, handlers, saves, loss, stop, restart; composes `Authority` and `StoreFile` |
| `CoordinatorProperties` | what peers and operators are promised; the refinement mapping to `Authority` |
| `MCCoordinator` | instances for TLC |
| `CoordinatorProofs` | `StoreFile` with one saver; types and registrations of the coordinator; with one session at a time its store, its answers, and that it implements `Authority`, proved |
| `Recovery` | the decision engine with its store: what `save` writes of a policy, what `load` makes of it; extends `AdaptationProperties` |
| `MCRecovery` | the timing and restart instances |
| `RecoveryProofs` | what survives a restart: types, the anchor, the guards of a move, the index, the tickets, proved; extends `FencingProofs` |
| `Metrics` | metric kinds, aggregation, normalisation, score: integer arithmetic as operators |
| `Evidence` | `publish_evidence`, series, batches, incarnations, aggregation |
| `EvidenceProofs` | the order of what is accepted, batches, retention, proved |
| `Ranking` | eligibility by evidence, the objective, `ranks_ahead`; extends `Evidence` |
| `RankingProofs` | support, aggregates, scores and the order of candidates, proved |
| `WellFormed` | what declarations the engine accepts: rules, scopes, bindings, proposals |
| `Codec` | cells, layouts, `Put` and `Decode`; extends `WellFormed` |
| `WireFormat` | every body of the wire protocol, as it is written and as it is read, and the frame |
| `StoreFormat` | the durable state, as it is written and as it is read |
| `Transfer` | frames in a stream and the store in a file, whole, cut or altered; extends both |
| `MCTransfer`, `MCEvidence`, `MCInputs` | instances for TLC; `MCInputs` is the two together |
| `Evaluations` | the callers of `begin_evaluation`, `commit_evaluation` and `rollback`, step by step: the limit, the slots, the ids |
| `Currentness` | the verdict of a snapshot beside the eligibility of an evaluation |
| `EvaluationsProofs` | `Evaluations`: the slots and the overshoot; `Currentness`: that the verdicts agree, proved |
| `FencingProofs` | `Adaptation`: terminal policies, pending transitions, the index, targeted invalidation, what a late ticket may do, and that the two phases are one decision, proved |
| `MCFencing` | `Adaptation`, `Evaluations` and `Currentness` together, for TLC |

`Adaptation` and `Authority` are the two halves of one engine state behind one mutex.
They meet in `AdvanceEpoch`, which both model, each for its half, and in the fact that a
mutation of `Adaptation` is a `Mutate` of `Authority`: `Adaptation` takes every caller to
be authorised and every attempt to be new, `Authority` takes every authorised mutation
to be one the other half may carry out, decline or, for a batch, carry out in part.

### Adaptation, and how it corresponds to the code

One action is one locked operation: `CreatePolicy`, `UpdatePolicy`,
`TransitionPolicy`, `RevokePolicy`, `ApplyUpstream`, `PublishEvidence`,
`BeginEvaluation` (phase one), `CommitEvaluation` and `CommitSuppressed` (phase two,
for an eligible and for a suppressed ticket), `Rollback`, `AdvanceEpoch`; `Tick` is the
monotonic clock and `DropTicket` a caller that never comes back (`defer_commit`).
A commit leaves its ticket where it is: the code does not mark a ticket used, so a
caller may present it again. A call the code refuses changes nothing kept here and is
no step. The helpers carry the code's decisions: `Usable` and `Fresh` (eligibility),
`RanksAhead` and `Best` (ranking), `EmergencyHolds`, `Triggered` and `Committable` (the
trigger), `HeldDown`, `CoolingDown` and `ChurnExhausted` (suppression, applied in both
phases), `TicketCurrent`, `EvidenceCurrent`, `DependencyDrift` and `TargetVerified` (what
phase two compares), `Installed`, `Anchor`, `ArmedTiming` and `Recorded` (what it writes).

A ticket holds in `candidates` and `evidence` *everything* phase one read. Phase two,
in the model as in the code, compares only part of it. The gap between the two is what
`SnapshotIsPresent` is about, and `CommitsTheDecision` says what it is for: phase two
tests neither the ranking nor the trigger again, and still commits what an evaluation at
that moment would choose, for the reason it would give. Two things are excepted, and
the property names both. Phase two does not look at the age of the evidence again, so the
age may be that of any tick since the newest sample. After another move in between, it
tests the timers for the preference of now and takes the reason from the ticket, so a second
ticket of the same state escapes the reverse requirement (run `double_advance`).

Abstractions. One metric, a latency, is objective and trigger; a path has one evidence
source and its latest sample is the aggregate. A binding keeps the verdicts the engine
tests (legal, route current, member of the set, available, hard failure, has a weight
policy) and the Path Authority generation. DECLARE_CANDIDATE has two branches in the
code and two names here: REDECLARE_CANDIDATE is the one that replaces a binding.
Identifiers are model values; paths are numbers because `ranks_ahead` breaks ties by
path id. Callers are authorised and use fresh attempt ids. `hold_down_locked_path` is
written and never read by the engine, and the decision journal repeats the history, so
both are left out; so are the indexes by route, set and source, which serve queries.

### Authority, and how it corresponds to the code

`RegisterPublisher`, `FencePublisher` (every cause: session loss, notice, administration)
and `AdvanceEpoch` are the locked operations of the same names. `Mutate` is any mutation
that `CheckCaller` lets through and that is carried out; `Decline` one that is only
recorded in the attempt table (existing name, policy limit, suppressed decision, no
change, refused rollback); `ApplyPrefix` an upstream batch refused after its first
notifications were applied, which records nothing. `Save` and `Recover` keep of the store
the two generations, all of it that concerns authority; `Construct` is a process started
without a store. `CheckCaller` and `ReplayCheck` return what the code returns, in the order of its
early returns; `Fingerprint` keeps exactly the parts of a request each operation digests.

Abstractions. A request is its operation, its subject, the route the operation hands to
`check_caller` and the rest as one value. A scope is its route list: the multipath-set list
works the same way, and one fabric and namespace are assumed. `live_boots` is never
read. The vector of fence records is a count per publisher and boot. Sessions are ids;
who holds one is a matter for the transport. `accepted` and `recorded` are histories of the
current epoch, kept for the properties.

`Incarnation` says it without sessions, epochs, scopes or attempts: a boot claims a
publisher and retires its predecessor, boots are retired, the boot that speaks acts, and
only a reset forgets. The mapping is not the identity: a boot shared by two publishers
stays *registered* for the second when it is fenced for the first. `Voice` maps such a
registration to no voice, and the refinement shows that `check_caller` treats it that way.

### StoreFile, and how it corresponds to the code

`write_store_atomic` is seven system calls: `OpenTemporary` (open with trunc),
`WriteTemporary` (write, flush, close), `RenameTemporary`, and if that fails
`RemoveDestination`, `RenameTemporary` again and `DiscardTemporary`; `OpenFails` and
`WriteFails` are its error returns. `BeginSave` is the encoding `save` takes under the shared
lock, `EndSave` its result. A kill (`KillSavers`) may come between any two of them. A thread
keeps writing to the file it opened even when another thread has renamed or removed it,
so a saver's `stream` is the name its file has at present.

Assumed of the file system: POSIX names, that is, a rename replaces an existing file in one
step and fails only when its source is missing. Where a rename does not replace (the case
the comment in `write_store_atomic` gives for its fallback), there is a moment without
a store by design. Losing power is not modelled: the code flushes and does not sync.

### Coordinator, and how it corresponds to the code

`Coordinator` extends `StoreFile` and instantiates `Authority` as `Engine`. Its state is that
of the engine, of the store file, and what `CoordinatorServer::Impl` and its `Session`
objects hold. One action is what a thread does between two points at which another thread
can come before it:

| Action | Code |
|---|---|
| `AcceptSession` | one turn of `accept_loop`: limit, counter, thread. A connection over the limit leaves no trace |
| `HandleRegisterPublisher`, `HandleFenceNotice`, `HandleAdvanceEpoch` | dispatch, the engine call, the fields of the session, up to the save of `respond_operation` |
| `MakeContext`, then `HandleMutation` | the epoch is read under one lock, the mutation takes another |
| `HandleOther` | any frame that changes only `dispatched`: greeting, query, refused or unregistered |
| `EncodeStore`, `WriteStore`, `FinishSave` | `save`, and the answer after it |
| `LoseSession`, `SayGoodbye`, `LeaveStopping` | the three ways `run_session` returns |
| `EndLostSession`, `FenceLostSession` | `session_loop`: `running_` is read, then the engine is called, then the store is saved |
| `Stop`, `Restart` | `stop`; a kill at any moment, or the end of the process, and `start` in a new one |
| `PeerVanishes` | the other end of the socket |

`HandleMutation` has the three outcomes of an engine call: carried out; refused; and, for a
batch of upstream facts, carried out in part, which comes back as an error *without* the
`mutated` flag and is therefore not saved. `Decline` of `Authority` is not among them: the
mutations of `coordinator` are batches of upstream facts, which no handler declines. What a mutation does to policies is reduced to
`revision`, the number of changes, which the store carries along with the generations.
`acked` is a history: the newest epoch and revision some peer was told is in force.

The refinement `ImplementsAuthority` says that all of this, with store `StoredGenerations`
(what decoding the store path would give at this moment), is a behaviour of `Authority`, in
which every operation, save and recovery is one step. `Attempts` of `Authority` are pairs of
session and frame number, as `make_context` composes them.

Abstractions. A frame is complete when it is dispatched; a malformed or stalled frame is
`LoseSession`. The handshake changes nothing later frames depend on. A connection accepted
while `stop` has just cleared the flag ends as one accepted just before. The reaper joins
threads that are done. Session ids are used once per process, so the number of sessions of a
process is the size of `Sessions`. The identity of a session that has ended is kept, for
the properties to speak about.

### Recovery, and how it corresponds to the code

`EngineStep` is any step of `Adaptation`. `Save` keeps a `DurableState` (`build_durable`):
times become what is left of them, candidates, evidence, index and tickets are not
written. `Recover` is `apply_durable` behind `Readable`, the part of
`decode_durable_state` that an engine's own store can fail: `Load` is a `load` called in
the running process, whose clock and tickets stay, `Restart` one called in a new process,
whose clock starts anywhere. `wall` and `armed` are histories: time as it passes outside
any process, and in that time until when the last move of a policy meant its timers to
run. `RestartKeepsGuards` and `GuardsSurviveRestart` are about them, because no clock of a
process can tell that a guard was shortened between two processes.

Two details the model keeps because the code has them: `preference.committed_at` is
written as a raw tick (`persistence.cpp:615`), although `persistence.hpp:15` says raw ticks
are never serialised; no guard reads it after a recovery. The ticks of the history are not
written and come back as zero; no guard reads those either.

### Codec, WireFormat, StoreFormat and Transfer, and how they correspond to the code

A *cell* is what one `put_` call writes: a width and a content. A *layout* lists what an
encoder puts or what a decoder gets and tests, in the order of the code; `WireFormat` and
`StoreFormat` hold two layouts for every structure, one read off the encoder and one off
the decoder, and nothing but `ReadsWhatWasWritten` makes the two agree. `MessageId` has the
pair for each message; `EncodeFrame` and `DecodeFrame` are the frame with its limits, its
length, its digest and its sequence number; `EncodeStore` and `DecodeStore` the store with
its magic, its digest, its cross-references and its limits on bytes: `Bytes` of the whole
file comes before every other test but that for an empty one, and a `ReadRecord` is refused
for its length before a byte of it is read. `WellFormed` holds the predicates both
decoders and the engine's operations apply.

`Transfer` puts them to work: `Send` writes frames to a stream, `Save` a store to a file
unless it exceeds the engine's own `max_store_bytes` (`StoreBounds`; then the file stays),
`Cut` and `Alter` damage either, `Receive` and `Load` read. `Meaningful` says of a *value*,
not of its cells, what a reader has to accept, and `ReadsExactlyTheMeaningful` that it
accepts exactly this. It follows, and the layouts show, that what the engine can come to
hold and the decoder refuses is lost with the store: `StoreIsReadable` has the case of the
churn list; the same limits stand for the dampening penalty and the decisions, where the
engine keeps to them only as long as its own limits equal the decoder's defaults. A text
longer than the codec's limit (a rendered detail over 4096 bytes) is written and refused.
So is a store of an engine whose `max_store_bytes` exceeds the default, which `load` tests
whatever the engine was given (`persistence.cpp:700`), and a record over
`max_persistence_record_bytes`, which `save` does not test at all. `StoreSize` and `Size`
work those bytes out of the value, as `Bytes` does out of the cells.

The other modules keep no sizes. In `StoreFile` and `Coordinator` a save refused for its
size is a save that fails before it opens anything: `OpenFails` stands for both, the file
stays and the answer is an error. In `Recovery` a refused save is no step, and its states
are small enough for every store to be read.

Abstractions. A text is its length and a number, and lengths are chosen so that a decoder
out of step with its encoder is refused instead of reading garbage; CRC-32 is a digest
that tells contents apart; integers have small tops.

### Evidence, Metrics and Ranking, and how they correspond to the code

`publish_evidence(batch)` is the whole handler: the batch is validated publication by
publication against what the earlier ones of the batch would make of the series, refused
as a whole, or applied, each series cut to `SampleLimit` and the source limit
kept. `aggregate_for` and `lookup_metric` read it. `EvidenceTick` is the clock. `arrivals`
is a history of everything ever applied; the properties compare the series with it, never
with themselves. `Metrics` writes the integer arithmetic as the code does, with truncating
division and nearest rank; `AggregatesAreExact` compares with the exact definitions.
`Ranking` extends `Evidence` with several metrics, the two modes of the objective, and
`ranks_ahead` in the order of its comparisons; `Adaptation` has the same order for one
metric.

What the model shows beside the properties: a publication with sequence 0 is accepted
again and again, because zero means that nothing was received (`README.md:195` and `:206`
say strictly increasing); the series of best quality is chosen before its age is looked
at, so a stale PRIMARY series hides a fresh one of lower quality.

### Evaluations, and how it corresponds to the code

One action is what a thread does between two accesses to what it shares with others.
`Admit` is the load of `outstanding_evaluations_` against the limit, before the lock is
taken; `Inspect` the refusal, or the copy under the shared lock; `LoadCounter` and
`StoreCounter` the two halves of `++counter_`, which happen under the shared lock for
evaluation and evidence id, under none for the decision id and under the exclusive lock for
`rollback`; `Count` the increment after the lock; `Settle` and `SettleRefused` the end of
`commit_evaluation`, which gives a slot back whatever ticket it was given. `issued` and
`surplus` are histories.

The comment at `engine_impl.hpp:334` ("Bounded by Limits::max_simultaneous_evaluations")
holds up to two terms, which `OvershootIsBounded` states exactly: callers that pass the
check together, and slots given back twice. A deferred evaluation keeps its slot for good.
Two decisions may get one id (run `same_id`); the increments being lost, ids may repeat even
between callers that do not overlap.

### Currentness, and how it corresponds to the code

One policy and the operations that change its record, without what decides them:
`Notify` is `apply_upstream` on one candidate, `Observe` a publication, `CommitTo` and
`RollBack` the two moves, `Transition` the lifecycle, `NextEpoch`, `PassTime`. `Blockers`
is the list of `note_blocker` calls in the order of `snapshot`, `Verdict` its first entry
or CURRENT; `IsEligible` is the part of `evaluate_inputs` that speaks of one candidate.
The code derives both from one record in two files.

`CurrentIsEligible` names the two cases in which CURRENT says too much (`Overlooked`): a
path that left its multipath set while the set kept its generation (`SET_MEMBERSHIP`), and
a metric that is not required but that the objective needs. Outside the model for the
same reason as in the code: neither side compares the *route generation*, so a preference
whose route generation moved on is still CURRENT, and the verdict does not read the hard
failure signal. STALE_POLICY and FENCED_PUBLISHER are declared and never produced.

Abstractions. `update_policy` and the state SUPERSEDED are left out; the retained snapshots,
their digest, difference and explanation are renderings.

Operators marked *Seeded fault* restate the definition after them with one plausible
mistake. No specification uses them; substituting one for its neighbour must make a
named property fail, which shows that the property watches that line.

## 3. What TLC checks

Passing runs. All but `authority` set `CHECK_DEADLOCK FALSE`: clocks and counters are
bounded, a terminal policy accepts nothing, and a stream whose frames are read has no
more, so these models may stop. In `coordinator` a store whose generations are at their
bound cannot be recovered from within the bounds; that nobody waits for ever there is what
`StopCompletes` and `VanishedIsFenced` say. `authority` checks deadlock: a save is always
possible.

| Run | Instance | Properties |
|---|---|---|
| `fencing` | three starts: one policy in service with two paths; no policy yet and one path, with all thirteen events and all lifecycle events; two policies that share two paths, symmetric, with one pending transition allowed. Beside it the two callers of `Evaluations`, and `Currentness` with two candidates | `TypeOK`, `SnapshotIsPresent`, `IndexMatchesScan`, `PendingBounded`, `TerminalIsFinal`, `CommitsTheDecision`, `InvalidationIsTargeted`, `SlotsAreCounted`, `OvershootIsBounded`, `CurrentIsEligible` |
| `inputs` | one value of every message and one store, each member in turn at both ends of its range and one step outside, sent or saved, cut, altered, and read; and two batches of samples out of order, repeated, from several sources and generations | `ReadsWhatWasWritten`, `ReadsExactlyTheMeaningful`, `DamageIsNoticed`, `RetainsTheNewest`, `AcceptedInOrder`, `BatchIsItsParts`, `NothingIsCountedTwice`, `EligibleIsSupported`, `AggregatesAreExact`, `RankingIsStrict`, `DominatedNeverLeads` |
| `timing` | evidence that flips the order, emergencies, rollbacks; in one process over five instants with a dampened hold-down, a cooldown longer than the hold-down, or a churn bound of two; or over three instants with a save and a restart | `AnchorIsDisplaced`, `HoldDownRespected`, `CooldownRespected`, `ChurnBounded`, `RestartKeepsGuards`, `GuardsSurviveRestart` |
| `authority` | two publishers, three boots either may use, two sessions, three epochs, save, recovery, restart without a store; and, two epochs and one incarnation at a time, a table of two attempts under three attempt ids and requests carried out, declined, stopped in the middle and not tracked | `TypeOK`, `RegistrationIsCurrent`, `FencedOnce`, `RetryWindow`, `TableMatchesOrder`, `ImplementsIncarnation` |
| `coordinator` | one publisher, two boots, two sessions of two frames each, either one after the other with a store and a disk that may fail, or at the same time without a store; loss, stop, kill and restart at every step | `CoordinatorTypeOK`, `AckedIsDurable`, `RegistrationHasSession`, `StoreIsReplacedWhole`, `ImplementsAuthority`, `VanishedIsFenced`, `StopCompletes` |

Where a run holds several components (`fencing`, `inputs`), they share no variable and one
moves while the others rest where they start, so the states are the sum of theirs and not
the product.

In `fencing`, the three events that change a binding and move no watermark
(REDECLARE_CANDIDATE, ADVANCE_WEIGHT_POLICY, CLEAR_HARD_FAILURE_SIGNAL) happen only while
no ticket is out: with one, `SnapshotIsPresent` is false, as the run `redeclared` shows for
the first. The starts with a policy in service (`InService`) have it created, activated and
bound and evidence published, a state the specification reaches.

Why the bounds are enough.

* `fencing`: one waiting ticket meets every kind of change; what matters is which change
  comes between its two phases, and each happens at least once (two generations of policy,
  epoch and Path Authority, one move of a watermark). Of the things a ticket depends on,
  generations, epoch, evidence and the two watermarks, any two may move (`Changes`), in any
  order and with any steps between: one before a ticket is taken and one behind it, or two
  behind it, is what a comparison that is missing or comes too early needs. Two policies are what the index and the pending
  bound need; there the path a policy left may get better, paths fail (the later it is, the
  fewer, two in all) and only tickets for moves that are due are taken, the others being
  taken in the other starts. In `Evaluations` one slot is given back that nobody holds. Two callers and a limit of one let both pass the check together,
  and two settlements let a slot be given back twice. The rules of `fencing` let evidence
  grow one tick old, so a ticket may outlive the evidence it was decided on: with
  no other tick than the present, `CommitsTheDecision` fails there. `Currentness` reads one candidate
  at a time; the second is there for the preference to move to and from.
* `timing`: two paths give a move, a move back and a rollback; three or four moves give each
  of them after each other one. The latencies 200 and 900 against 1000 and 600 put the
  improvement on either side of the 20 % and 30 % requirements. Five instants exceed
  hold-down (at most three) plus cooldown. One restart, under a clock that starts at
  the same place or two ticks later, leaves a guard shorter, as long as it was, or over.
  States with a ticket whose evidence is superseded, or that stands for a suppressed move,
  are left out (`OnlyPresentable`): neither comes right again, so such a ticket moves
  nothing, and `fencing` has them.
* `inputs`: a field is written and read on its own, so one field at a time at its extremes
  reaches every comparison of the decoder; lists of zero to four elements against limits
  of one to three reach every limit. Frames are compared with a limit that only the largest
  exceeds, and one byte cut or altered stands for any. A record and a store are as long as
  they may be, with every count within its limit, and longer by one member (`LargeStores`);
  the limit on the store's bytes is above every variation that passes a limit on a count
  and is refused for nothing else. An engine saves under the default limit, or under a
  larger one. Three samples against a
  retention of three, under every order of two generations, two classes of quality and
  three sequences, alone, behind a sample or before more of their incarnation (`Joins`),
  make a series grow, lose its oldest sample and start again. A frame is damaged or followed
  by another in the same way whatever it carries, so the three longest bodies, whose many
  cells only repeat this, travel whole and alone. Latencies of 20, 33, 46 and 60 are on
  both sides of every rounding, and 5000 and 5001 of a score that ties. Sixteen batches survey
  both metrics of two paths, latencies of 20 or 60, the class of the second path's
  following from the first path's; six policies rank what the samples say: both modes, one or
  two terms, a priority or none.
* `authority`: three boots let a publisher be reincarnated twice, or once while another
  publisher shares its boot; three epochs let an advance be saved, or not, before a
  recovery. Four recorded attempts against a table of two reach a retry after its attempt was
  forgotten, and the tables of every length before; up to three of them are carried out.
* `coordinator`: two frames let a session register and then mutate, fence or advance the
  epoch, or register again as another boot; two sessions let a publisher move from one to the
  other while the first is lost; two generations of the epoch let an advance come between
  `MakeContext` and `HandleMutation`, and be saved or lost with the process. With a store a
  session follows another only when that one was lost (`LossesFirst`), which is when the
  first leaves something to fence and save; a goodbye before another session is in the other
  half. The bound keeps back no step that fairness asks for.

The two halves of `coordinator` are where the properties hold: with one session at a time
nobody else saves, and with no store nobody saves at all. Two sessions that share a store
break `StoreIsReplacedWhole` (run `lost_store`), and `AckedIsDurable` with it, because the
store may be removed or replaced by an older encoding after an answer was sent. A second
publisher registered over one session breaks `RegistrationHasSession` (run `orphaned`).

Violation runs. Each states a sentence of the documentation and shows the code
disagreeing with it; `PROJECT.json` quotes the sentence.

| Run | Property | What happens |
|---|---|---|
| `redeclared` | `SnapshotIsPresent` | a path redeclared unavailable keeps its watermark; a ticket that saw it available commits onto it |
| `double_advance` | `OneAdvancePerState` | two tickets of one state, first commit, rollback, second commit: the generation advances twice, and the second move escapes the reverse requirement |
| `unreadable` | `StoreIsReadable` | a rollback adds a move to a churn list that is full; the store that is saved then is refused by `load` |
| `unchecked_resume` | `ReturnsRevalidated` | a recovered policy is suspended and resumed: in service again with no usable candidate |
| `same_id` | `DecisionIdsAreUnique` | two evaluations load the same counter and their decisions get one id |
| `lost_store` | `StoreIsReplacedWhole` | two threads open the same temporary; the second open empties what the first then renames over the store |
| `orphaned` | `RegistrationHasSession` | a session that registers a second publisher remembers only that one; when it is lost the first incarnation stays live |

Fairness. The engine has no thread of its own, and nothing is assumed of its callers:
`Adaptation`, `Authority`, `Recovery`, `Evidence`, `Evaluations`, `Currentness` and `Transfer`
have no fairness. `Coordinator` assumes weak fairness of each
session thread in the middle of something (`Thread`: a handler, a save, the end of a lost
session, leaving when the coordinator stops) and of noticing that the peer is gone. The
code justifies both: no step waits for another thread except for `Impl::mutex_`, which every
operation releases; the receive loop polls with a bounded slice, so it sees a closed
connection and a cleared flag; a send has a budget (`response_send_budget`), so a peer that
does not read holds its thread up for a while only; disk calls return, though perhaps with an error. Peers owe
nothing: they may be silent for ever, and no frame, goodbye or restart is ever forced. A
fencing may still be skipped when the coordinator stops, as the code intends, and
`VanishedIsFenced` says so.

## 4. What is proved

For every set of policies and paths, all valid rule sets, all bindings, events, limits
and bounds that satisfy the named assumptions of `Adaptation`:

* `TypeCorrect`: `Spec => []TypeOK`.
* `AnchorCorrect`: `Spec => []AnchorIsDisplaced`. The inductive invariant `CoreInv` adds to
  both that an established preference names a path (`EstablishedHasPath`): without it a
  commit over an established preference could leave an anchor at no path. The proof
  also needs that a commit never targets the current path, which `commit_evaluation`
  tests and `rollback` gets from the invariant itself.
* `HoldDownCorrect`: `Spec => HoldDownRespected`, and `CooldownCorrect`:
  `Spec => CooldownRespected`. The inductive invariant `TimingInv` adds `RecordsThePast`
  (nothing recorded lies in the future: epoch, policy generation and, for a preference of
  this epoch, the clock) and `TimersArmed`:
  as long as neither the epoch nor the policy generation has moved since the preference
  was committed, the deadlines in `timing` are the ones its commit or its rollback armed.
  The action property then follows because phase two tests those deadlines again,
  whatever the ticket says. An epoch advance clears timers and an update may change the
  durations, so the property is about moves under unchanged rules, and the invariant
  has to carry that condition.
* `ChurnCorrect`: `Spec /\ [][UpdatesFit]_vars => ChurnBounded`. A commit counts the moves in
  a list that it prunes by time, by epoch and by length, and the property counts them in
  the history. `ChurnInv` adds to `TimingInv` that the history lies in the past
  (`HistoryIsPast`) and that the list is what `Remembered` says: every move of the history
  made in this epoch is in it, unless it was dropped as too old, or for length behind
  as many later ones. The step then needs that a window holds no more moves than the list may
  (`RulesFit`), which the creation of a policy tests and an update does not
  (`fabric_policy.cpp:158`): hence `UpdatesFit`, which says that an update carries a bound
  within the limit and nothing else.
* `TerminalFinal`: `Spec => TerminalIsFinal`, from `CoreInv` alone: every operation tests
  the lifecycle, and no entry of the transition table leaves a terminal state.
* `PendingCorrect`: `Spec => []PendingBounded`, for finitely many policies. A commit counts
  the pending policies other than its own before it arms a hold-down, so the set after it
  is the set before it and at most one more; the other actions never add one.
* `IndexCorrect`: `Spec => []IndexMatchesScan`, if the paths are fewer than `IndexCap`
  (`SmallIndex`). In the code a path that finds the index full is not indexed at all,
  so the condition is the code's own.
* `SnapshotPresent`: `Spec => []SnapshotIsPresent`, and `AdaptsUsably`:
  `Spec => AdaptsToUsablePath`, from `FenceInv`. It adds to `CoreInv` the index, that an
  undeclared candidate keeps no binding, and that every ticket is `Tracked`: its epoch is not
  a later one, and if it is the present one the engine `Remembers` the ticket. That is, if
  the policy generation is still its own, every candidate it saw is still declared, its
  watermark is not below the one it saw, and if the watermark is the same the bindings
  `Agree`: they are equal, apart from the two fields that ADVANCE_WEIGHT_POLICY and
  CLEAR_HARD_FAILURE_SIGNAL change, where the upstream uses those; and if the evidence
  generation is its own, so is the evidence. An equality of summaries then gives back the
  equality of what they summarise (`FencePresent`). `AdaptsUsably` also needs that the
  adaptation generation is never zero (`Started`). `SnapshotPresent` assumes that the
  upstream uses none of the three events that move no watermark, `AdaptsUsably` only that
  it declares no candidate twice, and both a small index (`Fenced`): without the first the
  run `redeclared` is a counterexample, and without the second an invalidation misses the
  policies that are not indexed.
* `CommitsTheLeader` and `DecisionCommitted`: under `Fenced`, whatever a commit installs leads
  the ranking of the bindings and the evidence the engine holds at the commit; and if
  also no hard failure is cleared, `Spec => CommitsTheDecision`. `DecisionInv` adds to `FenceInv`
  that no sample lies in the future (`EvidenceIsPast`) and that every eligible ticket
  `Stands`: as long as nothing phase two compares has changed (`Undisturbed`), there is a tick
  since the newest sample at which the present leads to the target of the ticket, and, while
  the preference is the one the ticket saw, by the `Grounds` of the ticket. Watermarks that
  agree mean bindings that agree, and a ranking, an emergency and the two thresholds read no
  more than these, the evidence and the rules (`LeadsAlike`, `GroundsAlike`). The ticket
  is not tied to the adaptation generation, which phase two does not compare; that it never
  exceeds the present one is what makes an equal one mean the same preference. Without
  "no hard failure is cleared" an emergency ticket outlives its emergency (section 6).
* `InvalidationTargeted`: `Spec => InvalidationIsTargeted`, under `Fenced`. Each of the
  withdrawals moves the watermark of exactly the policies the index names, and the index
  is the scan (`TargetedStep`).

For the same constants, with saves, loads, kills and restarts between the steps, from any
wall clock:

* `RecoveredTyped` and `RecoveredAnchor`: `RecoverySpec => []TypeOK`, `=> []AnchorIsDisplaced`.
* `RestartKeepsGuardsCorrect`: `RecoverySpec => []RestartKeepsGuards`. `RecoveryInv` adds to
  `CoreInv` that an absent policy has nothing, and, for every policy, `Guarded`: what a move
  meant to hold until when, kept in time outside the process, is still covered by the
  timers in the engine. The same has to hold of the store (`StoredGuarded`), because
  what a save wrote may be loaded any number of moves and restarts later; a load is
  where the remaining time is rounded up and never cut.
* `GuardsSurviveRestartCorrect`: `RecoverySpec /\ [][KeepsHoldDown]_vars => GuardsSurviveRestart`.
  It adds that a hold-down that runs is one the rules know (`HoldDownRuled`).
  `KeepsHoldDown` excludes one operation: an `update_policy` that takes the hold-down out
  of the rules while one runs. Phase two tests the deadline only if the rules have one, and
  the property compares with what the move had armed.
* `RecoveredHoldDown`, `RecoveredCooldown`, `RecoveredChurn`: `RecoverySpec => HoldDownRespected`,
  `=> CooldownRespected` and, with `UpdatesFit`, `=> ChurnBounded`. `PastInv` joins `RecoveryInv`
  and `ChurnInv` and adds that what a save wrote belongs to epochs up to the one it wrote
  (`StoredPast`). A load begins the epoch after that one, so no recovered preference runs
  under the rules that armed its timers and no recovered move counts; from there the
  engine's own steps keep `ChurnInv`. These are statements about moves of one epoch;
  what holds from one side of a restart to the other is `GuardsSurviveRestartCorrect`.

* `RecoveredIndex`: `RecoverySpec => []IndexMatchesScan`, and `RecoveredInvalidation`:
  `RecoverySpec => InvalidationIsTargeted`. `apply_durable` empties index and candidates
  together, so a recovery keeps the first and withdraws nothing the second would speak of.
* `RecoveredSnapshot`: `RecoverySpec /\ [][LoadsSaved]_recoveryVars => []SnapshotIsPresent`, and
  `RecoveredDecision`: the same for `CommitsTheDecision`. A `load` leaves its callers their
  tickets. It begins the epoch after the one the store names, so a ticket of an epoch up
  to that one is past, and `Tracked` and `Stands` ask nothing of it. `LoadsSaved` says that
  there is no other: no ticket is out whose epoch began after the last save. Without it the
  theorems are false. An epoch advanced and never saved, a ticket taken in it, and a load:
  the epoch of the same number begins again with the same generations, and watermarks
  counted from zero again may meet those of the ticket (TLC finds this with two loads;
  section 6). A restart in a new process needs no condition, since tickets live in the
  process.

For every set of callers, and all limits:

* `SlotsCounted`: `EvaluationsSpec => []SlotsAreCounted`, and `OvershootBounded`:
  `EvaluationsSpec => []OvershootIsBounded`. Together with the types they are inductive
  (`CountInv`): the count lies within the surplus of what is unsettled, and whoever
  passes the check does so while the count is below the limit and at most all other
  callers are past it. Each action moves one caller from one stage to another, and the lemmas follow
  the cardinalities of the stages through such a move.

For every set of candidates, targets, facts and ages:

* `CurrentnessAgrees`: `CurrentnessSpec => []CurrentIsEligible`. The inductive invariant
  `CurrentnessInv` adds to the types that a declared candidate has an authority generation,
  that the preference names a candidate, and that an active policy was activated in this
  epoch. The argument then goes blocker by blocker: what each lets through, the
  eligibility test lets through as well.

For every set of publishers, boots, sessions, routes, attempts, requests, and all limits:

* `AuthorityTyped`: `Spec => []TypeOK`.
* `RegistrationsAreCurrent` and `FencedAtMostOnce`, from one inductive invariant,
  `FencingInv`. It adds that both generations move together, in the engine and in the
  store (so the early return of `advance_epoch` between them is never taken), and that
  the incarnation that is registered has no fence record of its own
  (`RegisteredIsUnrecorded`), although its boot may be fenced through another publisher.
* `RetriesAreRecognised` and `AttemptTableConsistent`, from `AttemptsInv`: the queue is the
  end of the history of recorded attempts, and all of it until the limit is reached
  (`OrderEndsHistory`). The `Window...` lemmas carry the argument for any two sequences.
* `AuthorityImplementsIncarnation`: `Spec => ImplementsIncarnation`. One lemma per action
  maps it to a step of `Incarnation` or to a stutter; `FencingInv` is needed for the epoch
  advance.

For every set of threads and encodings:

* `LoneSaverReplacesWhole`: `StoreSpec /\ []OneSaverAtATime => StoreIsReplacedWhole`. This is
  the condition under which the comment in `persistence.hpp` is true; `save` takes no lock
  that would ensure it. `LoneSaverInv` says what each step of a lone saver knows of the
  temporary, whence a rename never finds it gone (`NoFallback`) and moves exactly the bytes
  that were encoded. It holds through kills and failures of the disk.

For every set of sessions, publishers, boots, frames, configurations and limits, if the
encodings of `StoreFile` are the durable states of the engine (`EncodesDurableStates`, which
is what `build_durable` and the encoder make of them):

* `CoordinatorTyped`: `Spec => []CoordinatorTypeOK`, for any number of sessions that save at
  once. `ThreadsInv` adds to the types of engine, store and sessions what each thread
  knows where it stands (`ThreadOK`): a handler that is past its checks has a context and a
  registration, a thread that fences has lost its session, and a saver is busy exactly
  while its thread saves.
* `LoyalSessionsAreKnown`: `Spec /\ [][LoyalSessions]_vars => []RegistrationHasSession`.
  `LoyalSessions` says that a session that is registered keeps its publisher; without
  it the run `orphaned` is a counterexample. `RegistrationsInv` adds the sessions that are
  between the end of their loop and the fence.
* With `SoloStore`, every configuration that has a store admits one session (or there is no
  store): `SoloStoreReplacedWhole`, `Spec => StoreIsReplacedWhole`; `SoloAckedIsDurable`,
  `Spec => []AckedIsDurable`; and `SoloImplementsAuthority`, `Spec => ImplementsAuthority`.
  `LoneInv` adds `Alone` and the `LoneSaverInv` of `StoreFile`, every step of a thread being a
  step of a lone saver or none. `SoloInv` adds that what the saver carries is the
  engine as it is (`SaverCarries`), and that an answer not yet sent is in force in the engine
  (`AnswerInForce`), so that the rename makes it durable before the answer goes out. With
  two sessions the run `lost_store` is a counterexample; the code does not ask for
  `SoloStore`, and these theorems say what a deployment gains by it.

The prover cannot cite a theorem of a module for an instance of it, so the facts of
`Authority` that the coordinator's proofs use are stated again there, for `Engine!`.

For every set of batches, bound paths and limits:

* `AcceptedOrder`: `EvidenceSpec => []AcceptedInOrder`; `BatchesAreTheirParts`:
  `EvidenceSpec => []BatchIsItsParts`; `CountedOnce`: `EvidenceSpec => NothingIsCountedTwice`.
  `EvidenceInv` adds `Reflects`: each series is as the last arrival under its key left it, its
  generation, its quality class and its last sample. That is all validation ever looks at,
  so the lemmas `MemberAccepted` and `MemberNew` say what it asks of a publication in terms of
  the history alone, and the same of a batch as of its parts.
* `NewestRetained`: `EvidenceSpec => []RetainsTheNewest`. `RetentionInv` adds `Keeps`, which says
  of any prefix of the history what the property says of all of it.

For the same, and every set of policies that `PolicyWellFormed` accepts, the theorems of
`RankingProofs` follow from `RetentionInv` state by state; the work is in the operators.

* `EligibleSupported`: `EvidenceSpec => []EligibleIsSupported`. `LookupFinds` says that a
  reading comes from one series that is good enough (`BestIsOne`: the choice is never
  between two), `SeriesAscend` that what a series retains is in the order of observation, so that
  the sort before aggregation moves nothing and the first and the last sample are the oldest
  and the newest (`AggregatedSpans`).
* `AggregatesExact`: `EvidenceSpec => []AggregatesAreExact`. `PlaceTaken`: the stable sort
  gives each element a place of its own and leaves none free, by the pigeonhole
  principle; hence `RankedShare`. `SumInTurn` and `EwmaInTurn` turn the folds into sums
  over the first k samples, and `SumBetween` and `EwmaBetween` go through these by induction:
  rounding at every step never leaves the range of the samples.
* `StrictlyRanked`: `EvidenceSpec => []RankingIsStrict`. What decides last, the score or the
  first term that differs and then the name of the path (`Tie`), is strict, total and
  transitive among candidates of one eligibility; the levels above it are numbers.
* `DominatedFollows`: `EvidenceSpec => []DominatedNeverLeads`, since normalisation, the sum
  and the rounding of a score are monotone (`NormalizedMonotone`, `ScoreMonotone`).

A batch is applied by a recursive function, one publication after the other, and both
`Reflects` and `Keeps` go through it by induction; a fold is one on the sets of places. The library's induction theorems are of no
use for it, but well-foundedness of the natural numbers is a theorem about a *set*, so
`SetInduction` is induction over the set of the numbers of which something holds.

The assumptions (`PathsAssumption`, `SemanticsAssumption`, ...) are evaluated by TLC in
every run.

Only model-checked: `VanishedIsFenced` and `StopCompletes`, which are liveness and out of the
prover's reach; the properties of `Transfer`, whose layouts are trees read by recursive
operators. Every other property of a passing run is proved, where a theorem names a
condition (`SoloStore`, `UpdatesFit`, `KeepsHoldDown`, `SmallIndex`, `Fenced`, `LoadsSaved`, ...) under that condition,
and the ones of the run over `Recovery` for the specification with its saves and restarts.

## 5. Plan

Everything planned is modelled but two things, which are what would come next:

1. `Adaptation` and `Authority` composed, for the effect on the bindings of retrying a
   batch that was applied in part.
2. `Convergence`: when the environment falls quiet and some caller keeps evaluating, the
   preference settles (liveness, TLC).

## 6. Not modelled, and why

Command-line tools, rendering, explanation and difference text, and the digest of a
snapshot keep no state that anything reads back. Sockets are modelled by what the session
threads make of them: a frame, a closed peer, a lost session; a response that cannot be sent
changes nothing kept here. Values of `Outcome` returned by a refused call: the models keep
what a call changes. The client side of the transport is the environment.

Hazards without a property, and why:

* A batch refused in the middle leaves its first notifications applied and records no
  attempt (`fabric_policy.cpp:384`). Each prefix is reachable in `Adaptation`, and
  `ApplyPrefix` of `Authority` records nothing; what a retry does to the bindings needs
  both at once (section 5).
* CLEAR_HARD_FAILURE_SIGNAL moves no watermark (`fabric_policy.cpp:594`), by intention:
  `upstream_event_invalidates` lists it as not invalidating. `CommitsTheLeader` holds in spite
  of it; `DecisionCommitted` has to exclude it, because an emergency ticket is not held back
  by hold-down or cooldown and the commit does not ask whether the emergency lasts.
* A recovery starts from an empty state (`fabric_api.cpp:92`): fenced boots are forgotten
  (`README.md:457`), and an epoch that was never saved is named again (`README.md:433`), so a
  context made in the lost epoch of that number is accepted in the new one, and so is a
  ticket, if its caller outlives a `load`: under `LoadsSaved` (section 4) no ticket
  misleads. `Recover` of `Authority` does the same, and `FreshState` starts its histories again.
  Loading the same store twice uses an epoch twice as well (`authority.hpp:14`).
* A transition or a revocation that is sent again is carried out again, or refused as out of
  date: its attempt is not recorded (`fabric_policy.cpp:209`, `:257`; `README.md:462`).
* `fingerprint_policy` digests neither operation nor name (`fabric.cpp:218`), so two
  creations that differ only in the name are a replay and not a conflict (`README.md:463`).
* A commit does not look at the scope of the caller (`fabric_evaluate.cpp:811`;
  `README.md:163`): a ticket taken under one registration may be committed under another.

Differences between documentation and code that were seen while modelling, are visible
in the modules and have no run of their own. Of decisions: emergency moves are not counted
against the churn bound before they are made (`policy.hpp:207`; `ChurnBounded` is about
ordinary moves for that reason); the dampening penalty never decays (`policy.hpp:130`);
an emergency move records the path it flees as last known stable (`decision.hpp:107`); a
candidate declared into a full path index is not indexed (`README.md:508`); `update_policy`
accepts a churn bound above the number of commits the engine remembers
(`fabric_policy.cpp:158`; `README.md:354`); `lifecycle.hpp:128` calls CURRENT usable
authority, with the two exceptions `Overlooked` names. Of the transport and its codec: a new
incarnation does not advance the authority generation (`README.md:432`); a frame that is
sent again gets a new attempt id, because the id is made of a counter of dispatched frames
(`transport.cpp:1852`; `transport.cpp:1363`); the loss of an old session fences a boot that
has registered again over a newer one (`transport.cpp:1256`); an UPDATE_POLICY over a session
is always refused as STALE_POLICY_GENERATION; the client does not compare the sequence of
a response with that of its request; an outcome whose detail is longer than the decoder's
limit cannot be read. Of the store: `preference.committed_at` is written as a raw
instant of the monotonic clock (`persistence.cpp:615`; `persistence.hpp:15`).
