# Verification of the Solana Yellowstone stream processor

TLA+ models of the ingestion service in `src/crates/`, the TLC configurations that check them on
small instances, and TLAPS proofs of the safety properties that matter most. Every definition is
translated from the Rust and SQL sources; `PROJECT.json` maps each one to the lines it stands for.

The service reads Solana events, either from a JSONL file (*replay mode*) or from a Yellowstone gRPC
subscription (*live mode*), batches them, and writes them to PostgreSQL together with two progress
marks: the *cursor* (highest slot persisted) and the *contiguous finalized watermark* (highest
finalized slot up to which the parent links of finalized slots form an unbroken chain). After a
crash, replay resumes after the cursor and live mode resubscribes from the watermark. Whether those
marks may be trusted, whatever failed in between, is what this project is about; around it stand the
start of the process and its shutdown, and the readers of the database.

## 1. Inventory

| Component | Source | State | Operations |
|---|---|---|---|
| Ingestion pipeline | `stream/src/pipeline.rs`, `batcher.rs`, `slot_state.rs` | producer task, bounded mpsc channel, `Batcher.pending`, `PipelineSummary` | send, receive, skip by slot, batch, `write_batch`, flush, join, abort on drop |
| Event store | `storage/src/postgres.rs`, `migrations/0001_init.sql` | table `events` | `write_batch` (insert, `ON CONFLICT DO NOTHING`) |
| Cursor store | `storage/src/cursor.rs` | `stream_cursors.last_persisted_slot` | `get_cursor`, `update_after_batch` (`GREATEST`) |
| Slot-state store | `storage/src/slots.rs` | `stream_slots`, the two finalized columns of `stream_cursors` | `record_slot_states`, `get_finalized_frontier`, `advance_contiguous_finalized`; in-memory twin `advance` |
| Replay mode | `app/src/app.rs` `run_replay`, `stream/src/replay.rs` | the file, the resume slot | read, run the pipeline, serve HTTP |
| Live mode | `app/src/app.rs` `run_yellowstone` | `AtomicU64` with the encoded watermark, status channel, shutdown channel | the callbacks `configure_attempt`, `on_reconnect`, `on_progress`, `on_activity`; `select!` |
| Reconnect loop | `stream/src/yellowstone_live.rs` | retry count, backoff delay | attempt, classify the failure, back off, give up |
| Status channel | `app/src/http.rs`, `app/src/app.rs` | `watch` channel with a `StatusSnapshot` | borrow, clone, change, send; read by `/status` |
| Normalization | `stream/src/yellowstone.rs` | none | protobuf update to a sequence of `NormalizedEvent`s, or an error that skips it |
| Event identity | `domain/src/event.rs` | none | canonical key with escaping, `event_id` hash |
| Swap decoding and storage | `domain/src/decoded.rs`, `storage/src/swaps.rs`, `migrations/0002_swaps.sql` | table `swaps` | extract deltas, infer the swap, insert (called by tests only) |
| Read API | `storage/src/api.rs`, handlers in `app/src/http.rs` | none | recent events, recent swaps, lag, each one query |
| Configuration and CLI | `app/src/{config,cli}.rs`, `subscribe_request` in `stream/src/yellowstone_live.rs` | none | read the environment, override by flags, parse, validate |
| Process lifecycle | `app/src/{main,app,error}.rs`, `app/src/http.rs` `serve_on_listener` | what main awaits, the server, the shutdown channel | stages of both modes, `select!`, graceful drain, exit code |
| Metrics and telemetry | `app/src/{metrics,telemetry}.rs` | gauges and counters nothing depends on | initialise, set, export |
| Fixture generator | `generate_fixture` | none | writes a sample file |

**Interactions.** A producer (file reader or gRPC client) runs in its own task and meets the receiver
only at a bounded channel. The receiver calls three stores in four separate statements per batch,
without a transaction. In live mode the two tasks also share an atomic (the receiver's `on_progress`
stores it, each connection attempt of the producer loads it) and one status value that three
callbacks of both tasks replace as a whole. The process may end at any await. In live mode main polls
shutdown, server and pipeline in one `select!`; the branch that wins decides which futures are ever polled
again. Readers come in between through single queries of the same database.

**What is hard.** Statements of one batch applied in part; a lost answer to a statement that took
effect; slots finalized out of order, twice, without a parent, over several processes; a slot whose
events straddle two batches; a batch that never fills; backpressure against a receiver that waits for
the database; a reconnect that loads the atomic at any point of a batch; u64 slots in BIGINT columns;
clones of the status sent back after somebody else changed it; one update that becomes several
events, one of which cannot be built; redelivered events that only their key tells from new ones; a
statement on its way when main stops polling the pipeline; a server that drains while a producer blocks on
a full channel; settings whose halves come from defaults, environment and flags; pages cut by a limit while
replays fail and start again.

**What makes each part correct.** Pipeline: nothing accepted is lost, everything is accounted for, it
ends. Stores: the cursor and the finalized flags follow the events they speak of, columns never fall,
the watermark has no hole behind it and stops nowhere short. Replay: success means the file is stored, for files with one event per slot.
Live: nothing at or below the watermark is missing. Reconnect loop: bounded backoff that follows the
retry count, and an end when there is a limit. Normalization and identity: nothing of a transaction is lost
while the pipeline works, a stop leaves a beginning of it, and no two events share a key. Status: never ahead of the database, and true in the end.
Lifecycle: the exit code is true, no batch begins after a shutdown, Ctrl-C ends the process. Configuration:
the settings of what is accepted agree with each other. Read API and swaps: a reader sees every batch it polls for, no lag without its event, and
swaps that add up.

## 2. Plan

Order of the modules, most important first; all but the last item exist.

1. `SlotFrontier` - the slot table and the watermark query, as operators.
2. `IngestPipeline` - the pipeline over the database (extends 1).
3. `DurableSink` - the abstract specification: what readers of the database are promised.
4. `ReplayIngest` - replay mode (extends 2).
5. `ReconnectLoop` - the reconnect loop on its own.
6. `LiveIngest` - live mode (composes 2 and 5 with the provider).
7. `StatusChannel` - the status value (composes 5 with the receiver's callbacks).
8. `EventIdentity` - the canonical key of an event, as operators.
9. `YellowstoneUpdates` - the producer update by update (extends 5 and 8).
10. `Configuration` - environment, flags, parsers and validations, as operators.
11. `AppLifecycle` - the process from its start to its exit (extends 10).
12. `SwapDecoding` - token balances to a swap to a row, as operators.
13. `ConsumerApi` - the read API and a consumer of it, beside the replays (composes 4 and 12).
14. The proof modules of 2, 4, 5, 6, 7, 8, 9 and 11; that of 2 also speaks of 1, that of 4 of 13.
15. *Next:* action properties of the producer and of the status channel that the safety proofs only imply, such as
    that a redelivery changes no row.

## 3. Modules and the code

**`SlotFrontier`.** `None` is -1, so `Greatest` is SQL's `GREATEST` (which ignores NULL) and Rust's
`map_or(slot, |c| c.max(slot))` at once. A table maps every slot to `(parent, finalized, dead)`; a slot
without a row is `(NULL, FALSE, FALSE)`, which no query tells apart and no update writes. `Record` is
`record_slot_states`: updates merged per slot, last known parent winning, `COALESCE` and `OR` into the
stored row; `Recordable` is the range check of the merged rows. `Chain` is the recursive CTE as the
least set closed under its recursive term; `Watermark` and `FinalizedHead` are the two columns it
returns. `Advance` is the in-memory twin, as a recursive function.

**`IngestPipeline`.** One action per await of `run_event_receiver_pipeline...` and `write_batch`, told
apart by `pc`: `Receive`, `ChannelClosed`, `WriteEvents`, `UpdateCursor`, `RecordSlotStates`,
`SelectWatermark`, `UpsertWatermark`, `BatchDone` (counters, then `on_progress`), `Join`. Each statement
also has a `...Fails` action, in which it took effect or not (the answer can be lost after the commit),
and the two range checks have their own failures. `Crash` drops the process at any await; `Restart` runs the start of `run_replay` / `run_yellowstone` against what the database holds.
An *event* is a delivery: an identity (`events.event_id`) and the parent its payload names, because
one identity can be delivered with and without a parent. `accepted` and `anchor` are history.

**`DurableSink`.** Four actions on the database alone: insert events, move the cursor to the slot of a
stored event, mark slots finalized that a stored event finalizes, raise the watermark and the head
within the finalized slots. `ImplementsSink` is the refinement; the mapping is `FinalizedSlots(table)`.

**`ReplayIngest`.** The producer is narrowed to a file sent in order, the resume rule is on, and slot
states are not recorded (`NoopSlotStateStore`).

**`ReconnectLoop`.** The loop of `run_yellowstone_reconnect_loop`: `Configure`, `Opened`,
`AttemptFails(kind)` with its three arms, `Wake`; `GracePasses` is the clock's only effect.
Jitter is a choice from the interval the code draws from.

**`LiveIngest`.** The pipeline and the loop run side by side. `shared` is the `AtomicU64` in its
encoding (`Encode`, `Decode`), `LiveReceiver` stores it with `on_progress`, `LiveConfigure` loads it. The
provider is external: a log that grows, served from the first update at or above `from_slot`, or from
its tip when there is none. `blind` remembers how much of the log such a tip subscription may have
passed over; `InTime` leaves out the late statuses of forks the watermark has passed. `Builds` says whether a process may be a debug build, with overflow checks.

**`StatusChannel`.** `on_reconnect` is `ReportBorrows` and `ReportSends`; `on_activity` and `on_progress`
are `ReceiveEvent` / `ProgressBorrows` and `CallbackSends`. Between a borrow and its send the other
task may do anything. The pipeline is reduced to what the callbacks are told.

**`EventIdentity`.** A text is a sequence of tokens, the key is built by `CanonicalKey` as the code's format
strings build it, escaping included. SHA-256 is taken to be injective, so the key stands for `event_id`.

**`YellowstoneUpdates`.** The body of `run_yellowstone_grpc_producer` inside the loop: `ReceiveUpdate` normalizes a
well-formed update into `unsent`, `SkipMalformed` counts one that is not and goes on, `SendEvent` is one
`sender.send(event).await`. Behind the channel `ReceiveEvent` fills the batcher, `ChannelCloses` flushes it, and `WriteBatch` is the one
`INSERT` of a batch, which ignores the keys the table knows; a batch ends anywhere in a transaction. `PipelineStops` is a
statement that fails, applied or not, or a pipeline that is dropped; nothing is received or stored after it. A reconnect resumes
at any update that was already delivered or at the next one. `WellFormed` collects every
way the normalization returns an error, `Events` what it returns otherwise; an absent `Option` is `{}`. `EventId` is the key of each
event of the log, computed once.

**`Configuration`.** A raw value is the sequence of its comma-separated items; `Accepts` and `Parsed` are the
parsers, one case per kind of setting. `ConfigOf` is `from_env` followed by `apply_overrides`, `ConfigAccepted` the absence of
a `ConfigError`, with the delays compared twice as in the code. `ValidRequest` and `SubscribeRequest` are what the configuration
becomes at each connection attempt.

**`AppLifecycle`.** `phase` is the await main stands at; `Leave` is a return of main or a
`std::process::exit`, which drops every future and aborts the producer. `LoadConfig`, `ReadFile`,
`StartPipeline` are the start, `StartFails`, `TelemetryFails` its error paths, each with its exit code.
`SelectShutdown`, `SelectPipeline` and `ServerReturns` are the three branches of the `select!`; a shutdown leaves the pipeline
`suspended`, neither polled nor dropped, until the server has drained. A batch is one statement here: `SendStatement`,
`StatementCommits` (whatever has become of the process), `StatementAnswered`. What the four real statements
do to one another is `IngestPipeline`'s subject. `Covered` is the resume skip: in replay mode an event at or below the cursor that
`StartPipeline` found (`resume`) goes no further than the channel, so `Due` is what a replay is to store. A panic (of a size that cannot be allocated) exits with 101.
`cut` and `late` are history.

**`SwapDecoding`.** `DecodeError` is the code's verdict on a payload, in the order of its checks, `SwapRow` the row
of an accepted one, with `unwrap_or(-1)` where a number fits no column.

**`ConsumerApi`.** `ReplayIngest` with one more table. The queries are operators on one state, since each is one `SELECT`:
`RecentEvents` and `StreamLag`. `WriteSwap` is a
consumer that decodes any event of the file, any number of times, as the repository's test does.

## 4. Runs

| Run | Question | Result |
|---|---|---|
| `pipeline` | Does the database stay consistent under every interleaving of producer, receiver, failed statements, a crash and a restart? | ten invariants and action properties hold, `ImplementsSink` among them |
| `replay` | Does a replay that reports success have the whole file stored, and does every replay end? What do readers see meanwhile? | yes, for files with one event per slot; readers see every batch, no lag without its event, swaps that add up |
| `service` | Does every start end in a true exit code, does a shutdown stop the writing, does Ctrl-C end the process, do the settings of an accepted configuration agree? | yes; 0 means that what the cursor does not cover is stored. An accepted size that cannot be allocated still ends the start with 101 |
| `replay_same_slot` | The same, when a slot may hold several events | **violated**: a crash between two batches of one slot loses the rest of the slot |
| `quiet_stream` | Is an accepted event stored in the end? | **violated**: the batcher has no timeout, contrary to `docs/architecture.md` |
| `unstorable_event` | Is an event that fits no row only skipped? | **violated**: it is skipped by the writer and then stops the pipeline at the cursor |
| `updates` | Do delay and retry count stay together and a limited loop end? Is anything of a transaction lost between stream and table, wherever a batch ends, is a key unique, and does a malformed update hold nothing up? | nothing is lost while the pipeline works; a stopped one leaves a beginning of a transaction; an open stream is drained but for the batch it has not filled, which `quiet_stream` is about |
| `status` | Is the status true, whatever the two tasks overwrite? | never ahead of the database; exact without overlap; right at the end |
| `status_steady` | Does `steady` mean connected? | **violated**: `running()` is applied during a backoff, and an overlapping send drops the report |
| `live` | Is everything at or below the watermark stored, across reconnects and restarts? | yes, but for what a subscription without `from_slot` passed over |
| `live_fallback` | Does a process with a cursor but no watermark fall back to the cursor? | **violated**: `from_slot` is `None` |
| `live_debug_build` | Does an attempt without a slot run? | **violated** with overflow checks: `decode_slot(0)` evaluates `0 - 1` |

The six violations are disagreements between the code and its own documents; `PROJECT.json` quotes
both sides.

**Bounds.** `pipeline`: slots 0..4 with 4 beyond BIGINT; a ledger finalizing 0, 1 and 3 with a dead slot 2;
slot 3 delivered with and without its parent; a dead event whose parent fits no column; batches of two,
a channel of one, three events per process and one restart. That is the least in which a batch
holds two slot events, a partial batch is flushed, a chain crosses a hole that a later process
closes, and a merge hides an out-of-range parent. `replay`: every file of up to four events, two
restarts, so that an attempt can die in the first batch, the next in the second, and the third finish; pages of one or
two rows (`MaxLimit`) and two swap rows, so that a batch fills a page and a swap is written again; payloads
with a swap, with a leg too many, with two legs that do not oppose, with an amount no `i64` holds, and a swap in a slot no column holds.
`service`: every setting given alone, in either mode, from the environment or a flag, with a value of each sort its parser
tells apart; both sizes together, one of them too large to allocate; the two delays from any two of default,
environment and flag; an empty file, one of three events in two slots and one with a line that is no event, and no cursor, one in the file or one at its end, so that a resume
skips nothing, a part with an event on either side, or all; three live events, so that a
statement is on its way while the channel is full; two requests at a time.
`live`: seven events over both processes, so that a stream can fail before and after the first watermark.
`updates`: the delay reaches its maximum before the retry
limit; eleven updates, a channel of one and batches of two, so that every transaction straddles batches, with an inner instruction that only its index tells from an outer one, each of
the ways a transaction can be malformed, a block with a blank hash, and one that comes without its message; the keys' texts are all of up to two characters over the special ones and a
letter, and two that imitate other fields. `status`: two slots, a count that saturates at
two, one batch, one event in flight. Counters that only grow (`MaxEvents`, `MaxRestarts`, `MaxBatches`, `MaxSwaps`)
are bounded in guards; the model stops there, hence `CHECK_DEADLOCK FALSE` - as the program does: a
process that ended or used up its restarts takes no step.

**Fairness.** `WF(Receiver)`: the runtime keeps polling the receiver and every statement is answered, one
way or another. `WF(ReplaySend \/ ReplayEnd)`, `WF(ReceiveUpdate \/ SkipMalformed \/ SendEvent)`: the producer task is
polled and, live, an open stream delivers what it has; `WF(ReceiveEvent \/ ChannelCloses \/ WriteBatch)`: the receiver is polled and a full
batch written or failed. Nothing fills a batch, so none of them writes one that is not full. `WF(Configure)`, `WF(Wake)`: the loop never pauses between attempts
and timers fire. In `AppLifecycle`: `WF(Start)`, `WF(Main)`, `WF(Http)`, `WF(Batch)`: the runtime polls what main
awaits; `WF(StatementCommits)`: the database answers; `WF(Answer)`: a request is answered or its connection closed, without
which a graceful drain never ends; and the file reader's `Source`, but not the live one's, which owes nothing.
The consumer and the clients owe nothing either. No fairness is put on failures, crashes, restarts, the provider's log, or on a
connection being accepted.

**Abstractions.** Event payloads beyond slot, status and parent; durations, base58, metrics and texts; the split
of attempted rows into inserted and deduplicated ones; the syntax of JSON, URLs and HTTP. One process per stream
name at a time, and a statement of a process that died takes effect before the next one starts or never. 

## 5. Proofs

| Theorem | Module | What it says |
|---|---|---|
| `TypeCorrect` | `IngestPipelineProofs` | type correctness of the pipeline |
| `CursorSafe` | `IngestPipelineProofs` | the cursor names the slot of a stored event |
| `FinalitySafe` | `IngestPipelineProofs` | a slot is finalized only after its event is stored |
| `WatermarkSafe` | `IngestPipelineProofs` | no rooted slot is missing between the watermark's start and the watermark |
| `WatermarkExhausted` | `IngestPipelineProofs` | the watermark stops nowhere short of the recorded links |
| `TwinsAgree` | `IngestPipelineProofs` | the in-memory `advance` finds the watermark of the recursive query |
| `EventsKept` | `IngestPipelineProofs` | an accepted event is stored, on its way, or passed over by the resume rule |
| `CountersAddUp`, `ProgressTrue` | `IngestPipelineProofs` | every event received is counted; what `on_progress` is told is true |
| `ColumnsMonotone` | `IngestPipelineProofs` | durable slot columns never fall |
| `PipelineImplementsSink` | `IngestPipelineProofs` | refinement of `DurableSink` |
| `LoopTypeCorrect`, `BackoffFollowsRetries` | `ReconnectLoopProofs` | the delay stays in its range, and between doubling and tripling per retry |
| `KeyTellsApart` | `EventIdentityProofs` | two events with one canonical key are one event |
| `KeysApart` | `YellowstoneUpdatesProofs` | no stored row has the key of another event, in the log or in a file |
| `UpdatesTypeCorrect` | `YellowstoneUpdatesProofs` | the producer holds the rest of one update it accepted |
| `TransactionsWhole` | `YellowstoneUpdatesProofs` | until the pipeline stops, what is stored of a transaction and what is on its way are the whole of it or nothing |
| `TransactionsInOrder` | `YellowstoneUpdatesProofs` | however it stops, an event of an update is stored only with all the events before it |
| `ReplayImplementsPipeline`, `ReplayTypeCorrect` | `ReplayIngestProofs` | replay mode is a pipeline; its reader stays in the file |
| `ReplaysComplete`, `CursorCovers` | `ReplayIngestProofs` | a successful replay has stored its file; no event at or below the cursor is missing |
| `ConsumerImplementsReplay` | `ReplayIngestProofs` | a consumer beside the replays disturbs none of them |
| `LagNeverLeads`, `PolledVisible` | `ReplayIngestProofs` | readers: no lag without its event, every polled batch seen |
| `SwapsBalance` | `ReplayIngestProofs` | a stored swap is what its transaction did to the balances |
| `StatusTypeCorrect` | `StatusChannelProofs` | every status sent is a status |
| `NothingShownTooEarly`, `ShownCurrent`, `LastWordShown` | `StatusChannelProofs` | `/status` is never ahead of the database, current but for an overlap, right at the end |
| `GapsCountedRight` | `StatusChannelProofs` | the gap count misses only reports that overlapped |
| `LiveImplementsPipeline`, `LiveTypeCorrect` | `LiveIngestProofs` | live mode is a pipeline; its numbers stay in range |
| `ResumePointDurable` | `LiveIngestProofs` | the slot an attempt loads never leads the stored watermark |
| `FrontierCovers`, `LedgerCovered` | `LiveIngestProofs` | nothing sent in time at or below the watermark is lost, but for what a tip subscription passed over |
| `LiveDurable` | `LiveIngestProofs` | cursor and watermark safety, in live mode |
| `ConfigurationConsistent` | `AppLifecycleProofs` | the settings that `ConfigAccepted` lets through agree, whatever was given where; it does not say that the sizes can be allocated |
| `ShutdownStopsWriting` | `AppLifecycleProofs` | at most one statement commits once main has stopped polling the pipeline |
| `LifeTypeCorrect` | `AppLifecycleProofs` | channel, batch and open requests stay within their sizes |
| `ExitCodesTell` | `AppLifecycleProofs` | the exit code is the truth: 0 means that every event the cursor does not cover is stored, or a Ctrl-C |

**Assumptions.** The constants' kinds (`SlotAssumption`, `PipelineAssumption`, `ReconnectAssumption`,
`ReplayAssumption`, `LiveAssumption`, `StatusAssumption`, `IdentityAssumption`, `UpdatesAssumption`,
`ConfigurationAssumption`, `LifecycleAssumption`, `DecodingAssumption`, `ConsumerAssumption`), which the code checks or its types give; the
provider's ledger (`LedgerAssumption`: a finalized slot is rooted, and the parent it names is the rooted slot right below it;
without it no chain of links proves anything); and, for the runs of live mode only, `ProviderOrder`. TLC evaluates each of
them in the runs. Four further conditions stand in the statement of the theorems that need them. `OnePerSlot`
(`ReplaysComplete`, `CursorCovers`, `PolledVisible`): the slots of a replay file rise; `MCApi` evaluates it, and `replay_same_slot` shows what
happens without it. `ProviderLog` (`TransactionsWhole`, `TransactionsInOrder`): a signature is of one transaction of a slot, and the metadata lists a
group of inner instructions once; `MCUpdates` evaluates it. `DecimalTexts(Nat)` (`KeyTellsApart`, `KeysApart`, `TransactionsWhole`, `TransactionsInOrder`):
`format!` makes different texts of different numbers and of the two booleans, of which the provers know nothing; `MCUpdates`
evaluates it for 0 to 20. `ProviderOrder` is cited by `LedgerCovered` alone:
`FrontierCovers` holds for a provider that sends in any order.

**Argument.** The safety properties speak of the database, but the statements of a batch write what the
receiver holds, so they are not inductive. `IInv` adds what the receiver owes: `DbInv` (every
recorded parent link and flag comes from a delivery the ledger allows, the finalized columns name finalized
slots, the anchor is a lower bound) and `WorkInv` (past the insert, the batch's storable events are stored; at the
upsert, the selected values are what the query would still return). The watermark step rests on one lemma
(`ChainHasNoHole`): all members of the chain are connected by links, and by the ledger no rooted slot lies between
a child and its parent; it uses that the chain is the least closed set.

`ProcessInv` is about one process: `KeptInv` says where an accepted event is, place by place, `CountInv` balances what was
received against the counters, and `ProgressInv` follows a summary through the statements, each of which may have
taken effect although it failed. `TwinsAgree` compares a recursive function with a least closed set: by the ledger the recorded
links stand in single file (`LinksInSingleFile`), so the walk that takes one child at a time ends at the set's top. Wherever
a recursion is reasoned about, whatever obeys its equations is its value, and a least counterexample takes the place of
an induction, which the provers cannot instantiate.

`ReplayIngest` and `LiveIngest` inherit all of this by refinement. For replays, `ReplayWork` lines up file, channel, batcher and
batch (`LineInv`: what the process holds is a stretch of the file that ends at the reader's place), says what a
resume may pass over (`ResumeInv`) and what an end needs (`EndInv`); `AheadInv` names the place in the file where the cursor
stands, which the rows lead by one batch at most, so that a reader who asks often enough gets them all. In live mode `ResumePointDurable` needs `SharedInv`: after a batch
the summary's watermark is the stored one or unknown, and the atomic is the encoding of one that was stored.
`FrontierCovers` needs `LiveWork`: whatever is owed (`Owed`) and was served before an event in channel, batcher, batch or
database is itself there or ahead of it (`HeldInv`, `StoredInv`), and a subscription has passed nothing owed that is
neither held nor stored (`ServedInv`), whatever slot it began at.

`BackoffFollowsRetries` is inductive as it stands, given that the powers in it, recursive functions, obey their equations. In `StatusChannelProofs` whatever is claimed of the status has to hold of every clone that may
still be sent: `DurableInv`, `GapsInv` and `CurrentInv` speak of all of them, `TasksInv` of which clones there can be at all. `TransactionsWhole` rests on `WholeInv`: until the pipeline stops, what is stored, in
the batch, in the channel and in the producer's hand are together the events of whole updates; a redelivery adds nothing, since only its own key is
known (`InsertTakesAll`), and `EndInv` says that the producer ends with an empty hand and the pipeline after it with an empty channel. It counts the
rows of one transaction by a bijection with its instructions' coordinates. `TransactionsInOrder` rests on `OrderInv`: from the table over the batch and
the channel to the hand, each event is led by the ones before it in its update, so that whatever a stop drops is an end. `SwapsBalance` carries `DecodedInv`, that a stored swap is what `decoded.rs` makes of an event of
the file, and `RowAddsUp` shows what that is: two changes that differ from zero, in the two legs the row names.

`KeyTellsApart` reads a key back, field by field. Two values `Cuts` each other's texts when whatever follows them, an end or a field's
bar, they can only agree where they are equal; `EscapeCuts` shows it of escaped texts by their first difference, a bar that ends one
being escaped in the other, and `JoinedCuts` and `FieldCuts` carry it from the fields to the key. `KeysApart` adds that every event
the producer builds is such an identity (`EventsAreIdentities`) and that the identities the texts make are finitely many, so that the key,
an injection, makes as many keys as there are identities.

In `AppLifecycleProofs`, `AcceptedIsConsistent` goes setting by setting: by `WhereFrom` a setting is its default or an accepted value
of one of the two sources. `ShutdownInv` counts the statement on its way as late already, so that its commit keeps the sum.
`LifeInv` relates the parts that an exit code sums up: `EventsInv` balances what of the events received is to be stored (`Taken`) against
batch and database, so that a pipeline that resolved has stored all that is due; `ServerInv` traces every draining server to
Ctrl-C; `BeforeStart` and `PhaseInv` say what can exist in which phase; `CodeInv` restates the property over those parts.

**Model-checked only.** Liveness, since fairness and `ENABLED` are beyond the prover: `ReplayResolves`, `BackpressureLifts`, `ProcessEnds`,
`RetriesEnd`, `OpenStreamDrains`. Every other property of the passing runs is stated by a theorem.

## 6. Not modelled

- Metrics and logging: no control depends on them. Three things were seen on the way. `docs/reliability.md:111` describes
  `solana_stream_decode_errors_total` as the malformed updates skipped, but only a test calls its increment
  (`metrics.rs:241`). `docs/reliability.md:109` describes the slot-lag gauge as observed minus persisted; replay mode sets it
  from `on_activity` alone (`app.rs:122`), so it keeps the lag of the last event after its batch is written. `docs/reliability.md:86` says that `/readyz` tells whether a batch was
  written; it is ready from the first status on, since nothing changes `health`.
- Times: poll ages, the staleness and lag `/status` derives from clocks, latencies.
- Rule 4 of the comment at `decoded.rs:146` (the absolute values of the two legs match) has no counterpart in the
  code; `SwapDecoding` follows the code.
- `recent_swaps`, one ORDER BY with a LIMIT over rows that no process of the repository writes; `recent_slot_states`, which no route calls; the redacted configuration summary; `generate_fixture`; the wording of errors.
- SHA-256 (taken to be injective), base58, the syntax serde accepts, TLS and the access token.
- Token amounts below zero, whose difference may overflow: no provider sends them.
- What the migrations do, beyond that they can fail.
- Two processes of one stream name at a time, and a live process followed by a replay under the same name, which the default
  name `replay` of both modes makes possible (`config.rs:207`).
- Finalized forks, where the SQL walk and the in-memory `advance` break ties differently: a cluster finalizes one chain.
- Whether PostgreSQL's `UNION ALL` recursion ends on links that form a cycle: `Chain` is the set it would compute, and
  a ledger's parents are lower slots.
