# K2S0 digital twin: a TLA+ verification project

K2S0 (`src/argo_dt`) keeps a *digital twin* of a subject as an append-only
ledger of events in SQLite, derives an epistemic state from it (evidence, claims
and their review, entity links, contradictions, corrections, disclosed
projections), and publishes the events at least once to in-process brokers and
to NATS; clients follow a twin over WebSocket or gRPC with resumable cursors.
This directory models the parts that carry state, checks them with TLC, and
proves the safety of all of them with TLAPS, for every value of the constants.

All source paths below are relative to `src/argo_dt/` of the repository.

## 1. Inventory

| Component | State | Operations | What makes it hard |
|---|---|---|---|
| Ledger, `event_store.py` | `dt_events`: per twin a gapless, hash-chained sequence | `append` (idempotency lookup, compare-and-swap, dependency index, outbox row, in one transaction), `load`, `head` | several processes share the file |
| Outbox and relay, `event_store.py`, `sync.py` `OutboxRelay` | `dt_outbox` rows: published or not, lease owner, lease end, attempts | `claim_outbox`, `mark_outbox_published`, `release_outbox`, `prune_outbox`, `drain` | drains overlap, fail, are cancelled, outlast their lease |
| Broker and subscription, `sync.py` | bounded live queue per subscriber; position, acknowledged position, replay head, buffer, window, deferred event | `publish`, `subscribe`, `__anext__`, `acknowledge`, `aclose` | replay/live handoff, duplicates, reordering, overflow, filters |
| Stream session and transports, `sync.py`, `adapters/websocket.py`, `adapters/grpc.py` | one session per connection | send, heartbeat, acknowledge, close | acknowledgements race with filtered events; disconnects; resumption |
| Service, `service.py` | per process an LRU cache of the latest state; `dt_snapshots` | `append`, `state`, the command methods, snapshots | state read before, used after another process's commit; retries; crashes |
| Aggregate, `aggregate.py` | `TwinState` | `apply`, one branch per event type; `rebuild` | long legal sequences; deletion and correction cascade |
| Dependency index, `event_store.py` | `dt_dependencies`, `dt_invalidation_queue` | `_index_dependencies`, `dependents`, `mark_invalidation_processed` | must agree with the aggregate's own cascade |
| Compilers and policy, `compiler.py`, `policy.py`, `policies/rego` | the call's own | evaluate consent, select claims, date the receipt | the clock moves between two readings; filters written twice, the policy too |
| Lineage and elicitation, `epistemic.py` | none (reads state and index) | `trace`, `plan`, `verify_plan` | past sequences and times read from today's index |
| Telemetry, `adapters/telemetry.py` | progress of a batch | `process` | partial batches, conflicts, resubmission |
| NATS, `adapters/nats.py` | delivery counts, held by the server | `publish`, `process` | redelivery, lost acknowledgements, dead letters |
| Bronze vault, `bronze.py` | encrypted objects on disk | `put`, `get`, `delete` | not atomic with the ledger; crashes, power failures |
| Cursor signers, `sync.py` | active and accepted keys | `issue`, `verify`, `rotate` | rotation while cursors are out, clocks apart |
| Public facade, `public/` | none | `admit_evidence`, `get_admission_result`, `read_representation_deficits` | errors for admissions that took effect |
| Simulation, ownership, auth, CLI, observability | little or none | stateless decisions and conversions | - |

They interact as follows. A command method of the service reads the state,
builds an event and calls `append`; `append` reads the head, validates the event
against the cached state, calls the store's `append` (which writes event, index
and outbox row in one transaction), updates cache and snapshots, and ends in
`OutboxRelay.drain`, which publishes outbox rows to the broker. A durable
subscription replays the ledger up to the head it captured after registering
with the broker, then follows its live queue, going back to the ledger for every
gap. The session turns positions into cursors, the transport moves frames.
Telemetry batches, elicitation responses and public admissions all end in
`ingest_evidence` or `append`, each with steps of its own around it: the batch
loop, the vault, the public error codes. The NATS publisher is another publisher
a relay may have; its consumers are processes elsewhere.

What should hold of each:

* outbox: a committed event is never lost between commit and publication; a
  drain's mark or release touches only the claim it was made for; everything is
  published eventually;
* stream: a client sees every event that passes its filter, in order, over any
  number of resumptions; no cursor it is given skips an event;
* service: a retried request takes effect once and returns the original event;
  caches and snapshots equal the replay of the ledger; nothing that cannot be
  replayed is persisted;
* aggregate: one review state per claim, provenance that resolves, projections
  that are current or marked stale, corrections that end, and an invalidation
  queue that misses nothing;
* lineage and plans: a trace or a plan of the past is what it was then;
* telemetry: a batch is committed as a prefix, once, and completely in the end;
* NATS: no message leaves the server unhandled and unmarked, and all leave;
* vault: evidence has its object, and a response is captured in the end;
* admission: a client that goes by the error codes concludes what happened;
* cursor keys: fresh cursors are accepted everywhere, none lives too long;
* disclosure: nothing outside the consent, in content, count or time.

`PROJECT.json` lists the hazards line by line with the properties aimed at them.

## 2. Modules

| Module | Models | Implements |
|---|---|---|
| `OutboxRelay` | outbox and relay | |
| `StateStream` | broker, durable subscription, session, transport loop, client | `OrderedFeed` |
| `TwinService` | `append`, the commands above it, cache and snapshots of several processes over one ledger | `IdempotentLedger` |
| `TwinAggregate` | the epistemic state, the dependency index, the invalidation queue | |
| `EpistemicViews` | lineage traces, elicitation plans, deficits and recorded-time views, over `TwinAggregate` | |
| `TelemetryIngest` | telemetry batches, record by record | `IdempotentLedger` |
| `NatsDelivery` | JetStream publisher and consumer | |
| `BronzeCapture` | elicitation responses: vault, then ledger | |
| `AdmissionFacade` | the public admission of evidence and its clients | |
| `CursorKeys` | cursor signing keys and their rotation | |
| `Disclosure` | consent policy (Python and Rego), claim selection, receipt | |
| `OrderedFeed`, `IdempotentLedger` | abstract: what a stream, and what a ledger, promises | |
| `OutboxRelay_proofs`, `TwinService_proofs`, `TelemetryIngest_proofs`, `NatsDelivery_proofs`, `BronzeCapture_proofs` | theorems about the module of that name | |
| `TwinAggregate_proofs` | theorems about `TwinAggregate` and `EpistemicViews` | |
| `StateStream_proofs` | theorems about `StateStream`, and about `CursorKeys` | |
| `AdmissionFacade_proofs` | theorems about `AdmissionFacade`, and about `Disclosure` | |
| `MC...` | constants and symmetry for TLC | |

`EpistemicViews` composes with `TwinAggregate`: it adds recorded times and index
stamps to each of its events. The others meet at the ledger. Each that appends
has the ledger's compare-and-swap and idempotency lookup as one step and the
steps of its own around it; `TwinService` is where the inside of `append` is
taken apart. `StateStream` takes from `OutboxRelay` that events are published at
least once in no fixed order, `NatsDelivery` that each is published.

Definitions whose comment starts with "Mutation:" are plausible bugs; each is
checked to break the property it is paired with in `PROJECT.json`.

### OutboxRelay

A *drain* is one running call of `OutboxRelay.drain`. Each `append` ends in one
and it suspends while it publishes, so several run at once; `OwnerOf` says which
share a relay and hence a lease owner. `outbox[s]` is the row of event `s`;
`claim[d][s]` is the `attempts` value of the `OutboxRecord` drain `d` holds.
`Append`, `Prune`, `Claim`, `Mark` and `Release` are SQLite transactions;
`Publish` and `PublishFails` end the await of the publisher; `LoseLease` is the
`IntegrityError`; `Cancel` is a cancellation or the death of the process;
`LeaseExpires` is the clock. Time is abstracted to whether a lease has expired.
`PublishFails` may have delivered the event (a lost broker acknowledgement).

### StateStream and OrderedFeed

An event is its sequence number and whether it passes the filter. Everything on
the server runs on one event loop: while the subscription is `running` no other
task of the process moves, but other processes commit. `Offer` is
`BoundedEventBroker.publish` for this subscriber; `Relay` and `Republish`
deliver each event at least once in no fixed order, and `RelayElsewhere` lets
another process take the row, so that this broker never hears of the event.
`Accept`, `PopReplay`, `LoadPage`, `TakeLive`, `Wait`, `Dequeue` and
`SlowConsumer` are the branches of `__anext__` and `_next_candidate`;
`SendEvent`, `Heartbeat`, `Acknowledge`, `RefuseAck`, `CloseRequested` and
`Disconnect` are the transport loop of `_serve` and of the gRPC
`SubscribeState`. The client keeps the newest cursor it was given (event frames
carry theirs before they are acknowledged) and resumes from it, or has lost it
and starts over. `OrderedFeed` has two actions, commit and
see-the-next-wanted-event; the refinement mapping is the identity on `log` and
`seen`.

### TwinService and IdempotentLedger

A request is an idempotency key and a body, the body being the identity the
event creates, which `apply` refuses to create twice. A `TwinState` is the
sequence of the events applied to it, so a state that lacks an event is visible
as such. A call moves through `ReadHead`, `Validate` (or `RebuildFails`),
`Commit`, `Replay` or `Rejected`, the snapshot steps, and the drain, one access
to SQLite per step; processes interleave between them and die anywhere.
`SubmitAtHead` is `delete_evidence`, `issue_projection` and `revoke_projection`,
which compare the head before they append and stamp their event anew on every
attempt. A `Habit` says what clients do: which requests they send, to which
process a retry may go, whether they guess an `expected_sequence` beyond the
head, and whether they refresh it on a retry. `IdempotentLedger` is the promise
to those who write: append-only, a key at most once, and a position told only for
the request it holds. The mapping is `events` and the acknowledged answers.

### TwinAggregate and EpistemicViews

One action per event type, guarded by what `apply` and `validate_event` refuse,
with the index edges that the store adds in the same transaction. `Dependents`
is the recursive SQL query: the smallest set closed under the edges, which is
where `WITH RECURSIVE ... UNION` ends, on cycles too. A projection's sources are
any subset of the claims the compilers may select; with `PastViews` also of
those at an earlier recorded time.

`EpistemicViews` stamps each event with the wall clock and each new edge with
its sequence, as `append` does, and keeps every past state as history. `Trace`
is `LineageTracer.trace`; `Plan`, `Gaps` and `Verifies` are
`GapDirectedElicitor`; `Deficits` is the facade's own list; `SequenceAt` is what
`rebuild` finds for a recorded time, with a clock that may be set back.

### TelemetryIngest

`TelemetryBatchProcessor.process` for several tasks on one ledger. Each record
is validated, the head read, the transition previewed, and the record stored or
found (`Duplicate`, `KeyReused`, `HeadMoved`, `Commit`); the acknowledgement
moves the expected sequence along. A conflict blocks the rest of the batch, a
rejection does not. Tasks die between any two steps, or fail in the drain after
the commit. A batch may come again with other content under the same id. The
mapping to `IdempotentLedger` takes batch id and source as the key of a record,
and an event of another caller as a key of its own.

### NatsDelivery

`Publish` is `JetStreamPublisher.publish`, deduplicated by the server for a
while; `process` is `HandlerReturns`, `Refuse`, `Nak`, `GiveUp`, `Ack`, and the
two steps of `_deadletter`. The server delivers to any idle consumer and
redelivers when its wait runs out, also while a consumer is at work.
`PlaneFilter` says whether `bind` was given a plane.

### BronzeCapture

`put` step by step: `exists`, comparison, temporary file, `os.link`, comparison
again, directory sync; then the append. A directory entry survives a power
failure only if it was synced. `Erase` is `delete`, by the operator.

### AdmissionFacade

`admit_evidence` with the public error codes of `_translate_error`, and clients
that send again after a retryable error, look the admission up after another
one (`get_admission_result`), start over after a stale state, and may be
impatient and send a second time while the first call runs.

### CursorKeys

Cursors by key and time stamp; `Timely` is the age and skew check on the clock
of a process, `Rotated` is `rotate` (the filter that leaves out the new key's id
leaves out one entry at most, since the constructor refuses a ring with a
repeated id). A session keeps the ring it was opened with
(`open_state_stream` hands it over), telemetry acknowledgements use the
service's. `CursorAssumption` says what `docs/PERFORMANCE_SECURITY.md` asks of a
deployment: a retired key is kept for longer than any of its cursors lives.

### Disclosure

`Evaluated` is `DefaultDenyPolicy`, `RegoDisclosed` the Rego policy beside it.
`Selected` and `Payload` are `KernelCompiler` for one artifact, `readiness` being
a count. The clock is read in `Evaluate` and again in `Issue`, and moves between.

## 3. Runs

| Run | Shows | Distinct states |
|---|---|---|
| `outbox` | three drains of two relays, three events, batches of two, two faults: `NoEventLost`, `OnlyReclaimTakesALease`, `NoSharedLease`; `EveryEventIsPublished` | 158 k |
| `stream` | three events, queue and page of one, window of two: limits and continuity (`SessionInv`), `CursorNeverSkips`, `FreshAckAccepted`; `InOrderNoGap` (implements `OrderedFeed`), `SeenUpToPublished` | 632 k |
| `service` | two processes, four requests, three events, careful and careless clients: `StorageInv`, `LedgerPromise` (implements `IdempotentLedger`) for all of them, `CacheCoherent`, `LedgerReplayable`, `RetryReturnsOriginal` for the careful | 649 k |
| `service_ahead` | a guessed head: `InvalidNeverPersisted` is violated | - |
| `views` | six events over two evidences, claims, groups, contradictions and corrections, a link and a projection: `ProvenanceResolves`, `ProjectionsCurrent`, `CorrectionsEnd`, `DeletionQueuesAffected`, `LineageSound`, `PlansSound` | 98 k |
| `views_time` | three events, a clock of three instants that may be set back: `ViewsStable` | 53 k |
| `telemetry` | two tasks, a batch of two and its changed version, another writer, a crash: `BatchInv`, `CommittedPrefix`, `LedgerPromise` (implements `IdempotentLedger`), `BatchCompletes` | 855 k |
| `nats` | two consumers, a good, a broken and an invalid event, one fault: `DeliveryInv`, `SettledHasOutcome`, `EventuallySettled` | 169 k |
| `bronze` | two processes, two answers to one response, two crashes or power failures, an erasure: `CaptureInv`, `EvidenceHasObject`, `EventuallyCaptured` | 1.5 M |
| `admission` | two processes, three requests of two ids, two faults, another writer: `AdmissionInv`, `OutcomesTrue`, `EveryClientConcludes` | 371 k |
| `cursor_keys` | two processes, four keys, a ring of three, eight instants: `RingInv`, `FreshCursorsAccepted` | 1.3 M |
| `disclosure` | 40 requests by 97 consents, and pairs of 40 kinds of claims under 12 calls: `ProjectionInv`, `RegoAgrees`, `ReceiptWithinConsent`, `NoInterference` | 387 k |

The invariants named `...Inv` and `...Sound` are conjunctions of parts that have
a name and a comment of their own; each includes the module's type invariant
where it has one. The type invariants of `OutboxRelay` and `TwinAggregate`, and
`OneReviewState`, are proved (section 4) and not repeated by a run. The other
safety properties are both checked and proved.

**Where the code departs from its documents.** `service_ahead`: `append`
validates a transition only if the head equals `expected_sequence`
(`service.py` 112). An `expected_sequence` ahead of the head skips validation; if
the head catches up before the compare-and-swap, an invalid event is persisted
and the twin can no longer be rebuilt, against "Invalid transitions are rejected
before persistence" (`docs/INVARIANTS.md` 22).

**Conditions.** Several properties hold only under a condition, which the
models state and which the code does not enforce. Without it TLC finds a
counterexample; each was looked up in the code.

* `CacheCoherent` needs the retries of a key to reach one process (`Sticky`). One
  that reaches another makes it apply the stored event to a state that lacks the
  events between, and hand the result out (`service.py` 126-133).
* `LedgerReplayable` needs the same, and clients that do not guess. A transition
  that is validated against a cached state that lacks an event may be one that
  the event forbids (`service.py` 112-125): it is persisted, and `rebuild` fails
  on it from then on.
* `RetryReturnsOriginal` needs a retry to carry its old `expected_sequence`: with
  the current head the event is previewed against a state that has it already
  and is refused (`service.py` 124). It leaves out the commands that compare the
  head first, whose retries conflict (`service.py` 238).
* `CommittedPrefix`, and that the sequences acknowledged to a batch rise, need
  its versions to keep the order of their sources, and a record that one of them
  has valid to be valid in each that has a later one valid (`VersionsAgree`).
  The records' content may change. The idempotency key is made of the batch id
  and the record id alone (`adapters/telemetry.py` 271), so a batch sent again in another order commits
  what is missing behind what is there, or finds its records in the order of the
  first.
* `BatchCompletes` counts a record as done when its evidence is there: a batch
  sent again with the current head is told that its committed records are
  invalid, for the same reason (`adapters/telemetry.py` 195).
* `ProjectionsCurrent` is about projections of the present state (`PastViews`
  FALSE): one compiled as of a time before a deletion and issued after it is
  neither marked stale nor queued (`service.py` 731-734). It also leaves retired
  claims out, since retirement marks no projections (`aggregate.py` 534).
* `ViewsStable` promises an unchanged past only until the clock is set back
  (`event_store.py` 552): an event recorded after that can join a view that was
  read without it.
* `DeliveryInv` and `EventuallySettled` need a plane in the consumer's filter.
  Without one the filter matches dead-letter subjects too, and the consumer
  dead-letters its own markers, one after the other (`sync.py` 1011).
* `EvidenceHasObject` leaves out objects that a `put` found and relied on before
  their directory entry was on disk (`relied`): that path does not sync the
  directory (`bronze.py` 199), and a power failure can leave evidence without
  its object.
* `FreshCursorsAccepted` is about cursors signed with the service's active key
  (`current`). A session that is older than a rotation goes on signing with its
  old key, and accepts cursors of keys that were removed (`sync.py` 903, 933).
* `AdmissionInv` says nothing of the `replayed` flag of a result: of two
  overlapping attempts both can say FALSE (`public/facade.py` 263).
* `EveryEventIsPublished` rests on failures that end. Rows that a publisher
  refuses for good keep their place, and as many of them as `claim_outbox` takes
  at a time starve everything after them (`event_store.py` 771).

**Bounds.** Three ledger events allow a gap, a reordering across it and an event
after it; three drains allow two of one relay and one of another on the same
row; two faults allow a lease lost during the retry of a failed publication. A
queue and a page of one overflow and page with three events, and a window of two
has a frame outstanding while another is acknowledged. With a snapshot interval
of two and a retention of one three events give a snapshot and an event after
it, and two processes that save the same one. Six aggregate events suffice for two
evidences, two claims, and acceptance, contradiction, correction, projection or
deletion in any order. A batch of two records is the least that has a prefix.
`MaxDeliver` of two has one delivery that is sent back and one that gives up;
the one fault is a redelivery under a consumer at work, a lost
acknowledgement, a crash, or an event published again after the server has
forgotten it. In `bronze`
two crashes allow a power failure after a process has died in the middle of a
`put`. In `cursor_keys` eight instants hold three rotations, so that a key is
removed while its cursors are out, and made active again. Counters of faults, events of
others and messages are bounds of the models only, named as such where they are
declared. `CHECK_DEADLOCK FALSE` where the system may stop: all events committed,
published and settled, all connections used up.

**Symmetry.** `service` permutes the processes (the habits are closed under
it), `views` the identities of each kind, `cursor_keys` the keys. None of them
checks liveness.

**Fairness.**

* `outbox`: a running drain is driven on by the event loop, time passes, and
  some drain is started while rows are claimable. The last holds as long as
  commands keep arriving or an operator calls `flush_publications`; the code has
  no timer of its own. Failed publications are bounded, so no fairness is asked
  of the publisher.
* `stream`: the event loop runs ready tasks (its queue is first-in first-out,
  hence strong fairness for a relay that is ready again and again), each event is
  relayed here or elsewhere, the client reads its connection and reconnects.
  Acknowledgements are *not* assumed.
* `telemetry`: tasks run on; a client sends its batch again, now and then with
  the head it was told. Strong, because other writers may move the head.
* `nats`: the relay publishes every event, the server delivers and redelivers
  what is not settled, callbacks run.
* `bronze`: calls run on; the client sends its response again.
* `admission`: calls run on; a client goes on until it has an outcome.

In all of them crashes and faults are bounded and never required not to happen.

## 4. Proofs

`OutboxRelay_proofs` proves for any sets of drains, owners and any bounds:

* `TypeCorrect`: `Spec => []TypeOK`
* `NothingLost`: `Spec => []NoEventLost`
* `LeaseLoss`: `Spec => []OnlyReclaimTakesALease`
* `LeaseExclusive`: `Spec => []NoSharedLease`

They rest on `OutboxAssumption` (the constants have their types) and on the
inductive invariant `Inv`: the properties together with two more facts, that a
drain in `mark` has had its current record accepted by the publisher
(`MarkedWasDelivered`) and that no two drains hold records of one row with the
same `attempts` (`ClaimsAreUnique`). Without the first, `Mark` could lose an
event; without the second, exclusiveness does not follow from the `WHERE` clause,
since drains of one relay share their owner. Each action has a lemma
(`AppendInv`, `ClaimInv`, `MarkInv`, ...) and `NextInv` combines them. `Claim` is
the interesting one: the new `attempts` value is fresh because every older
record's is at most the row's.

`TwinAggregate_proofs` proves for any sets of identities and any length of the
ledger:

* `TypeCorrect`: `Spec => []TypeOK`
* `OneReview`: `Spec => []OneReviewState`
* `ProvenanceHolds`: `Spec => []ProvenanceResolves`
* `CorrectionsTerminate`: `Spec => []CorrectionsEnd`
* `ProjectionsStayCurrent`: `~PastViews` implies `Spec => []ProjectionsCurrent`
  (section 3 says why the hypothesis is needed)
* `DeletionComplete`: `Spec => DeletionQueuesAffected`

from `AggregateAssumption` (claims are not evidence, links or projections;
`Absent` is none of the values it stands in for). `OneReviewState` is inductive
given the types, and `ProvenanceResolves` because nothing ever stops being stale.
`CorrectionsEnd` needs that what a correction replaced stays superseded
(`CorrectedIsSuperseded`): then no old correction leads on from the replacement
of a new one. `DeletionQueuesAffected` needs that every dependency the state
shows has its edge (`IndexComplete`); the dependents of the evidence are closed
under edges (`DependentsClosed`), hence contain all that is affected
(`WalkFindsAffected`). `ProjectionsCurrent` needs `OneReviewState`: the
`counterweights` artifact takes contested claims without looking whether they
are superseded, and no contested claim is.

The module extends `EpistemicViews` and proves of its specification `SpecViews`:

* `ViewsExtendAggregate`: `SpecViews => Spec`, so all of the above holds there
* `ViewsStayStable`: `SpecViews => []ViewsStable`
* `PlansStaySound`: `SpecViews => []PlansSound`
* `LineageHolds`: `SpecViews => []LineageSound`

from `ViewsAssumption` (a node of the index is a kind and an id, so identities of
different kinds differ). `ViewsInv` adds to `Inv` that the index has no edge but
those the state shows (`IndexExact`), that contradictions are of known claims,
that each past state is the one that its sequence had (`HistoryInv`), that an
edge's stamp is the sequence that brought it (`StampInv`), and that every view
read was the longest prefix recorded by its time (`ReadInv`). A trace of the
past is right because the edges stamped up to then are the edges of then; that
dependents and ancestors are inverse comes from `ReachedReversed`, without
induction: the nodes that reach back form a set closed under the edges.

`TwinService_proofs`, for any processes, requests, habits and ledger length:

* `StorageSound`: `Spec => []StorageInv`
* `CachesCoherent`: `Spec => []CacheCoherent`
* `LedgersReplayable`: `Spec => []LedgerReplayable`
* `RetriesReturnOriginal`: `Spec => []RetryReturnsOriginal`
* `KeepsLedgerPromise`: `Spec => LedgerPromise`, that is `IdempotentLedger`

from `ServiceAssumption`. The invariant says of each call what it may rely on:
what the head it read says about its expected sequence (`HeadRead`); with sticky
routes, that nobody stores its key behind its back (`KeyKept`) and that the state
it validated is the one at the head it read (`ValidatedAtHead`); and that a retry
goes past the validation and finds its event (`RetryRuns`). `KeyKept`,
`ValidatedAtHead` and the coherence of the cache need each other: a cached state
stays a prefix of the ledger because an event that is found under its key was
stored before the head was read, so that the validated state has it already.
That clients do not guess is not enough for `LedgerReplayable` if their retries
change process: section 3 says what goes wrong.

`StateStream_proofs`, for every queue, page and window size and every ledger:

* `SessionSound`: `Spec => []SessionInv`
* `CursorsNeverSkip`: `Spec => []CursorNeverSkips`
* `FreshAcksAccepted`: `Spec => []FreshAckAccepted`
* `KeepsFeedPromise`: `Spec => InOrderNoGap`, that is `OrderedFeed`

from `StreamAssumption`. `CursorNeverSkips` alone is not inductive: a cursor that
the client is about to read must not lie beyond what it will have seen by then
(`WireInOrder`), the position not beyond what was sent (`Delivered`), the window
must be in order above the acknowledged position and the replay buffer go on
from the position (`Window`), and frames and acknowledgements must be of this
session (`OfThisSession`, `AcksExpected`). All but the first are about an open
session; what is still on the wire of a closed one is covered by `WireInOrder`.

The module also proves of `CursorKeys`, for any keys, processes and clocks:

* `RingSound`: `SpecCursors => []RingInv`
* `FreshAccepted`: `SpecCursors => []FreshCursorsAccepted`

from `CursorAssumption`. (`CursorKeys` and `Disclosure` name their
specifications `SpecCursors` and `SpecProjection`, so that these modules can
extend two components each.) That a fresh cursor's key is in the ring is not
inductive; that it is near enough to the front is. A rotation moves a key one
place back at most and drops it only from behind `Retain` others (`Rotation`),
so that a key at place `i` has seen `i - 2` intervals pass since the cursor was
issued, and one that is gone `Retain` of them (`KeyKept`): longer than the
cursor's age and the skew. A key that was made active again is at the front, and
what was said of the cursors of its first time still holds.

`TelemetryIngest_proofs`, for any tasks, batches, guesses, other writers and
crashes:

* `BatchesSound`: `Spec => []BatchInv`
* `PrefixCommitted`: `Spec => []CommittedPrefix`
* `TelemetryKeepsPromise`: `Spec => LedgerPromise`, that is `IdempotentLedger`

from `TelemetryAssumption`. `CommittedPrefix` speaks of the ledger as it is;
what is inductive is that the valid records before one were evidence when it was
committed (`PrefixBefore`). A commit keeps that because the valid records a task
has passed are evidence, or the ledger cannot be replayed and the next preview
stops the task (`Passed`): a rejection goes on only over a record that is
invalid, present already, or in a ledger that is broken for good. For the rising
sequences of `BatchInv` the case that is not obvious is a duplicate: it was in
the ledger when the head was read, and so, before it, were the valid records
before it; each exists once up to that head, since the ledger could be replayed
up to there (`Previewed`), so what was acknowledged for them lies before it. For
the refinement, events of other callers are told apart by their number
(`OthersNumbered`), and what a task is about to tell is in the ledger
(`ReportedTrue`).

`NatsDelivery_proofs`, for any consumers, events and faults:

* `SettledOutcome`: `Spec => []SettledHasOutcome`
* `RetryBounded`: `Spec => []BoundedRetry`
* `DeliverySound`: `PlaneFilter => (Spec => []DeliveryInv)` (section 3)

from `NatsAssumption`. A consumer in `ack` holds a handled event, one in `term` a
marked one (`OutcomeBeforeSettling`). Bounded retry needs a count: the messages
sent back and the deliveries under way whose number is below `max_deliver` are
together fewer than `max_deliver` (`Accounted`), with numbers that no two
deliveries of a message share (`NumbersAreUnique`).

`BronzeCapture_proofs`, for any processes, requests, crashes and erasures:

* `EvidenceStored`: `Spec => []EvidenceHasObject`
* `CaptureSound`: `Spec => []CaptureInv`

from `BronzeAssumption`. A power failure takes back what is not synced, so it is
not enough that evidence has its object: the object is synced, erased or relied
on too early (`EvidenceKept`), already when the call goes to append
(`ObjectBeforeAppend`), and is there when it goes to sync (`ObjectBeforeSync`).

`AdmissionFacade_proofs`, for any processes, requests, other callers and faults:

* `AdmissionSound`: `Spec => []AdmissionInv`
* `ClientsConcludeTruly`: `Spec => []OutcomesTrue`

from `AdmissionAssumption`. A preview still holds if the head has not moved
(`PreviewHolds`), a persisted call knows where its event is
(`PersistedIsThere`), and no call runs for a request that its client has given
up (`RefusedIsOver`): otherwise a late commit would make the outcome false.

The module also proves of `Disclosure`, for any claims, requests and consents:

* `ProjectionSound`: `SpecProjection => []ProjectionInv`
* `RegoAlwaysAgrees`: `SpecProjection => []RegoAgrees`
* `ReceiptsWithinConsent`: `SpecProjection => []ReceiptWithinConsent`
* `NothingInterferes`: `SpecProjection => []NoInterference`

from `DisclosureAssumption` (what the types' constructors demand: sensitivities
and times are numbers, a request asks for fields, a consent ends after it
begins). The invariant keeps what the evaluation found while the clock moves on
(`Permitted`) and how the receipt was made (`ReceiptMade`); the rest are lemmas
about the operators (`PoliciesAgree`, `SelectedVisible`,
`InvisibleChangesNothing`).

The named assumptions ask of the constants their types, that the stand-ins
(`Absent`, `Other`, `NoState`...) are none of the values they stand in for, and
where a call needs a default that there is a request; TLC evaluates each on
every run of its module. No assumption bounds the number of anything.

**Only model-checked.** The liveness properties (`EveryEventIsPublished`,
`SeenUpToPublished`, `BatchCompletes`, `EventuallySettled`,
`EventuallyCaptured`, `EveryClientConcludes`): fairness and ENABLED are beyond
the prover.

## 5. Not modelled

* Hash chaining and verification (an event is its position; a ledger that is not
  tampered with verifies), signatures and encryption (perfect cryptography), the
  content of events beyond what the properties tell apart, frame decoding, wire
  conversion in `public/contracts.py`, schema migration.
* Authentication and ownership (`adapters/auth.py`, `ownership.py`): decisions
  on one request; a refused request changes nothing.
* `evaluate_action` and its Rego policy: no part of the runtime calls it.
* `simulation.py`: a private list of one caller that nothing else reads.
* Degradation notices, adjudication preferences, the wording and ranking of
  elicitation questions, CLI, observability, conformance.
* Rows of the outbox that are refused for good (section 3).

## 6. Plan

The safety of every module is checked and proved. What would say more:

1. `EveryEventIsPublished` with rows that are refused for good, once
   `claim_outbox` gives up on a row or passes over it.
2. `ProjectionsCurrent` with `PastViews`, once a projection of the past is
   checked against the present state when it is recorded.
3. A composition of `OutboxRelay` with `StateStream` and `NatsDelivery`, so that
   at-least-once publication is derived in the latter two instead of assumed.
