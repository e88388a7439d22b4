--------------------------- MODULE IngestPipeline ---------------------------
(***************************************************************************)
(* The ingestion pipeline: a producer task, the bounded channel, and the    *)
(* receiver that batches events and writes each batch to PostgreSQL in      *)
(* separate statements (crates/stream/src/pipeline.rs, batcher.rs,          *)
(* slot_state.rs over crates/storage/src/postgres.rs, cursor.rs, slots.rs). *)
(*                                                                          *)
(* Every await of the receiver is a step of its own, so the producer runs   *)
(* between any two of them and the process can die between any two of them. *)
(* Database columns survive; everything else is lost with the process.      *)
(*                                                                          *)
(* The producer here may send any event at any time and stop in any way:    *)
(* ReplayIngest narrows it to a file.                                       *)
(***************************************************************************)
EXTENDS SlotFrontier, Sequences

CONSTANTS
    EventId,            \* event identities (events.event_id)
    SlotOf,             \* the slot each identity names
    StatusOf,           \* "finalized" or "dead" for such slot events, else "other"
    Rooted,             \* the slots of the ledger the provider finalizes
    Event,              \* deliveries: an identity and the parent in its payload
    BatchSize,          \* PipelineConfig.batch_size
    ChannelCapacity,    \* PipelineConfig.channel_capacity
    UseSlotResume,      \* PipelineConfig.use_slot_resume
    AdvanceFinalized,   \* PipelineConfig.advance_finalized_watermark
    RecordSlots,        \* FALSE when the slot store is NoopSlotStateStore
    MaxEvents,          \* bound: events one process receives
    MaxRestarts         \* bound: processes started after the first

ASSUME PipelineAssumption ==
    /\ IsFiniteSet(EventId)
    /\ SlotOf \in [EventId -> Slots]
    /\ StatusOf \in [EventId -> {"finalized", "dead", "other"}]
    /\ Event \subseteq [id : EventId, parent : SlotOrNone]
    /\ BatchSize \in Nat \ {0}           \* Batcher::new asserts it
    /\ ChannelCapacity \in Nat \ {0}     \* mpsc::channel panics on zero
    /\ UseSlotResume \in BOOLEAN
    /\ AdvanceFinalized \in BOOLEAN
    /\ RecordSlots \in BOOLEAN
    /\ MaxEvents \in Nat
    /\ MaxRestarts \in Nat

(***************************************************************************)
(* What the provider's ledger guarantees about the slot events it sends: a  *)
(* finalized slot is rooted, and the parent it names is below it with no    *)
(* rooted slot in between.                                                  *)
(***************************************************************************)
ASSUME LedgerAssumption ==
    /\ Rooted \subseteq Slots
    /\ \A id \in EventId : StatusOf[id] = "finalized" => SlotOf[id] \in Rooted
    /\ \A e \in Event :
         StatusOf[e.id] # "other" /\ SlotOf[e.id] \in Rooted /\ e.parent # None =>
           /\ e.parent < SlotOf[e.id]
           /\ \A r \in Rooted : ~(e.parent < r /\ r < SlotOf[e.id])

VARIABLES
    \* --- PostgreSQL
    stored,         \* event_id values of table events
    cursor,         \* stream_cursors.last_persisted_slot
    table,          \* stream_slots
    contiguous,     \* stream_cursors.last_contiguous_finalized_slot
    head,           \* stream_cursors.last_finalized_slot
    \* --- the process
    producer,       \* the spawned producer task
    channel,        \* the mpsc channel
    pending,        \* Batcher.pending
    batch,          \* the batch write_batch works on
    draining,       \* the batch is the final partial one (batcher.flush)
    pc,             \* the await the receiver is at
    resumeAfter,    \* PipelineConfig.resume_after_slot
    written,        \* WriteSummary.attempted of the batch being written
    selected,       \* what the recursive query returned
    summary,        \* PipelineSummary
    published,      \* the summary last handed to on_progress
    outcome,        \* what the pipeline future resolved to
    restarts,       \* processes started after the first
    \* --- history
    accepted,       \* events this process' channel took from the producer
    anchor          \* the slot the watermark started from

dbVars      == <<stored, cursor, table, contiguous, head, anchor>>
processVars == <<producer, channel, pending, batch, draining, pc, resumeAfter,
                 written, selected, summary, published, outcome>>
vars        == <<dbVars, processVars, restarts, accepted>>

-----------------------------------------------------------------------------
Storable(e) == SlotOf[e.id] \in DbSlots          \* EventRow::try_from succeeds

Ids(events) == {events[i].id : i \in DOMAIN events}

StorableAt(events) == {i \in DOMAIN events : Storable(events[i])}

\* Mutant: an insert that leaves the last row of the batch out.
StorableIdsButLast(events) == {events[i].id : i \in StorableAt(events) \ {Len(events)}}

StorableIds(events) == {events[i].id : i \in StorableAt(events)}

\* Mutant: the cursor as the slot to go on with, not the last one persisted.
LastSlotPlusOne(events) == MaxOrNone({SlotOf[events[i].id] + 1 : i \in DOMAIN events})

\* batch.iter().map(slot).max(): over every event, storable or not.
LastSlot(events) == MaxOrNone({SlotOf[events[i].id] : i \in DOMAIN events})

\* Mutant: every slot status that is recorded counts as finalized.
UpdateOfAnyStatus(e) ==
    [slot |-> SlotOf[e.id], parent |-> e.parent,
     finalized |-> TRUE, dead |-> StatusOf[e.id] = "dead"]

\* slot_state_from_event: finalized and dead slot events only.
UpdateOf(e) ==
    [slot |-> SlotOf[e.id], parent |-> e.parent,
     finalized |-> StatusOf[e.id] = "finalized", dead |-> StatusOf[e.id] = "dead"]

SlotEventsAt(events) == {i \in DOMAIN events : StatusOf[events[i].id] # "other"}

\* The updates of a batch, at the positions of their events.
SlotStates(events) == [i \in SlotEventsAt(events) |-> UpdateOf(events[i])]

\* Mutants: the use_slot_resume flag is ignored; the slot after the cursor is
\* taken for one that is stored.
ShouldSkipAlways(e) == resumeAfter # None /\ SlotOf[e.id] <= resumeAfter
ShouldSkipNext(e) == UseSlotResume /\ resumeAfter # None /\ SlotOf[e.id] <= resumeAfter + 1

\* should_skip_event
ShouldSkip(e) == UseSlotResume /\ resumeAfter # None /\ SlotOf[e.id] <= resumeAfter

Summaries ==
    [seen : Nat, skipped : Nat, attempted : Nat, batches : Nat,
     persisted : SlotOrNone, contiguous : DbSlotOrNone, head : DbSlotOrNone]

\* Mutant: the summary does not start from the loaded cursor.
FirstSummaryUnseeded(resume) ==
    [seen |-> 0, skipped |-> 0, attempted |-> 0, batches |-> 0,
     persisted |-> None, contiguous |-> None, head |-> None]

FirstSummary(resume) ==
    [seen |-> 0, skipped |-> 0, attempted |-> 0, batches |-> 0,
     persisted |-> resume, contiguous |-> None, head |-> None]

\* Mutant: write_summary is assigned where it should be added.
CountedByAssignment(s, rows) == [s EXCEPT !.batches = @ + 1, !.attempted = rows]

\* The counters at the end of write_batch.
Counted(s, rows) == [s EXCEPT !.batches = @ + 1, !.attempted = @ + rows]

\* Batcher::push hands the events out.
Full(events) == Len(events) >= BatchSize

NothingSelected == [watermark |-> None, head |-> None]

Alive == pc \notin {"exited", "down"}

\* Mutant: the receiver takes events from the channel a batch at a time.
HasBatch == Len(channel) >= BatchSize

\* recv() is ready with an event.
HasEvent == channel # <<>>

\* Mutant: a clone of the sender outlives the producer task.
SendersKept == FALSE

\* The producer task owned the only sender.
SendersGone == producer # "running"

-----------------------------------------------------------------------------
Init ==
    /\ stored = {}
    /\ cursor = None
    /\ table = EmptyTable
    /\ contiguous = None
    /\ head = None
    /\ anchor = None
    /\ producer = "running"
    /\ channel = <<>>
    /\ pending = <<>>
    /\ batch = <<>>
    /\ draining = FALSE
    /\ pc = "receive"
    /\ resumeAfter = None
    /\ written = 0
    /\ selected = NothingSelected
    /\ summary = FirstSummary(None)
    /\ published = FirstSummary(None)
    /\ outcome = "none"
    /\ restarts = 0
    /\ accepted = {}

-----------------------------------------------------------------------------
(***************************************************************************)
(* The producer task.  send().await blocks while the channel is full.       *)
(***************************************************************************)
ProducerSend(e) ==
    /\ Alive
    /\ producer = "running"
    /\ Len(channel) < ChannelCapacity
    /\ summary.seen + Len(channel) < MaxEvents
    /\ channel' = Append(channel, e)
    /\ accepted' = accepted \cup {e.id}
    /\ UNCHANGED <<dbVars, producer, pending, batch, draining, pc, resumeAfter,
                   written, selected, summary, published, outcome, restarts>>

\* The task ends with Ok, with an error, or by panicking; its sender is dropped.
ProducerExit(how) ==
    /\ Alive
    /\ producer = "running"
    /\ producer' = how
    /\ UNCHANGED <<dbVars, channel, pending, batch, draining, pc, resumeAfter,
                   written, selected, summary, published, outcome, restarts, accepted>>

-----------------------------------------------------------------------------
(***************************************************************************)
(* The receiver loop.                                                       *)
(***************************************************************************)
Receive ==
    /\ pc = "receive"
    /\ HasEvent
    /\ channel' = Tail(channel)
    /\ LET e == Head(channel)
           filled == Append(pending, e)
       IN \/ /\ ShouldSkip(e)
             /\ summary' = [summary EXCEPT !.seen = @ + 1, !.skipped = @ + 1]
             /\ UNCHANGED <<pending, batch, pc>>
          \/ /\ ~ShouldSkip(e)
             /\ ~Full(filled)
             /\ pending' = filled
             /\ summary' = [summary EXCEPT !.seen = @ + 1]
             /\ UNCHANGED <<batch, pc>>
          \/ /\ ~ShouldSkip(e)
             /\ Full(filled)
             /\ pending' = <<>>
             /\ batch' = filled
             /\ pc' = "write"
             /\ summary' = [summary EXCEPT !.seen = @ + 1]
    /\ UNCHANGED <<dbVars, producer, draining, resumeAfter, written, selected,
                   published, outcome, restarts, accepted>>

\* recv() returns None: every sender is gone and the channel is drained.
ChannelClosed ==
    /\ pc = "receive"
    /\ channel = <<>>
    /\ SendersGone
    /\ \/ /\ pending = <<>>
          /\ published' = summary
          /\ pc' = "join"
          /\ UNCHANGED <<pending, batch, draining>>
       \/ /\ pending # <<>>
          /\ batch' = pending
          /\ pending' = <<>>
          /\ draining' = TRUE
          /\ pc' = "write"
          /\ UNCHANGED published
    /\ UNCHANGED <<dbVars, producer, channel, resumeAfter, written, selected,
                   summary, outcome, restarts, accepted>>

-----------------------------------------------------------------------------
(***************************************************************************)
(* write_batch, statement by statement.                                     *)
(***************************************************************************)
WriteEvents ==
    /\ pc = "write"
    /\ stored' = stored \cup StorableIds(batch)
    /\ LET rows == Cardinality(StorableAt(batch))
       IN /\ written' = IF rows = 0 THEN Len(batch) ELSE rows
          /\ summary' = [summary EXCEPT !.skipped = @ + (Len(batch) - rows)]
    /\ pc' = "cursor"
    /\ UNCHANGED <<cursor, table, contiguous, head, anchor, producer, channel, pending,
                   batch, draining, resumeAfter, selected, published, outcome,
                   restarts, accepted>>

UpdateCursor ==
    /\ pc = "cursor"
    /\ LastSlot(batch) \in DbSlots
    /\ cursor' = Greatest(cursor, LastSlot(batch))
    /\ summary' = [summary EXCEPT !.persisted = Greatest(@, LastSlot(batch))]
    /\ pc' = IF RecordSlots /\ SlotEventsAt(batch) # {} THEN "slots" ELSE "progress"
    /\ UNCHANGED <<stored, table, contiguous, head, anchor, producer, channel, pending,
                   batch, draining, resumeAfter, written, selected, published,
                   outcome, restarts, accepted>>

RecordSlotStates ==
    /\ pc = "slots"
    /\ Recordable(SlotStates(batch))
    /\ table' = Record(table, SlotStates(batch))
    /\ pc' = IF /\ AdvanceFinalized
                /\ \E i \in SlotEventsAt(batch) : StatusOf[batch[i].id] = "finalized"
             THEN "select" ELSE "progress"
    /\ UNCHANGED <<stored, cursor, contiguous, head, anchor, producer, channel, pending,
                   batch, draining, resumeAfter, written, selected, summary, published,
                   outcome, restarts, accepted>>

SelectWatermark ==
    /\ pc = "select"
    /\ selected' = [watermark |-> Watermark(table, contiguous),
                    head |-> FinalizedHead(table)]
    /\ pc' = "upsert"
    /\ UNCHANGED <<dbVars, producer, channel, pending, batch, draining, resumeAfter,
                   written, summary, published, outcome, restarts, accepted>>

UpsertWatermark ==
    /\ pc = "upsert"
    /\ contiguous' = Greatest(contiguous, selected.watermark)
    /\ head' = Greatest(head, selected.head)
    /\ anchor' = IF contiguous = None THEN Seed(table, None) ELSE anchor
    /\ summary' = [summary EXCEPT !.contiguous = contiguous', !.head = head']
    /\ selected' = NothingSelected
    /\ pc' = "progress"
    /\ UNCHANGED <<stored, cursor, table, producer, channel, pending, batch, draining,
                   resumeAfter, written, published, outcome, restarts, accepted>>

\* The counters of the summary, then on_progress(summary).
BatchDone ==
    /\ pc = "progress"
    /\ summary' = Counted(summary, written)
    /\ published' = summary'
    /\ batch' = <<>>
    /\ written' = 0
    /\ pc' = IF draining THEN "join" ELSE "receive"
    /\ UNCHANGED <<dbVars, producer, channel, pending, draining, resumeAfter,
                   selected, outcome, restarts, accepted>>

-----------------------------------------------------------------------------
\* The future resolves: producer.join() after a drained channel.
Join ==
    /\ pc = "join"
    /\ outcome' = IF producer = "ok" THEN "ok"
                  ELSE IF producer = "panicked" THEN "producer_join" ELSE "producer_error"
    /\ pc' = "exited"
    /\ UNCHANGED <<dbVars, producer, channel, pending, batch, draining, resumeAfter,
                   written, selected, summary, published, restarts, accepted>>

\* What a process leaves behind when it stops with work in hand: the producer
\* is aborted (AbortOnDrop), and the channel and the batcher go with the future.
DropProcess ==
    /\ producer' = "aborted"
    /\ channel' = <<>>
    /\ pending' = <<>>
    /\ batch' = <<>>
    /\ written' = 0
    /\ draining' = FALSE
    /\ selected' = NothingSelected
    /\ resumeAfter' = None
    /\ summary' = FirstSummary(None)
    /\ published' = FirstSummary(None)
    /\ accepted' = {}
    /\ UNCHANGED restarts

\* write_batch returns Err by `?`; the caller aborts and joins the producer.
FailWith(error) ==
    /\ outcome' = error
    /\ pc' = "exited"
    /\ DropProcess

(***************************************************************************)
(* A statement fails.  It may have been applied all the same: the           *)
(* connection can be lost after the commit and before the answer.           *)
(***************************************************************************)
WriteFails ==
    /\ pc = "write"
    /\ StorableAt(batch) # {}
    /\ stored' \in {stored, stored \cup StorableIds(batch)}
    /\ FailWith("write_error")
    /\ UNCHANGED <<cursor, table, contiguous, head, anchor>>

CursorFails ==
    /\ pc = "cursor"
    /\ LastSlot(batch) \in DbSlots
    /\ cursor' \in {cursor, Greatest(cursor, LastSlot(batch))}
    /\ FailWith("cursor_error")
    /\ UNCHANGED <<stored, table, contiguous, head, anchor>>

\* i64::try_from fails before any statement is sent.
CursorOutOfRange ==
    /\ pc = "cursor"
    /\ LastSlot(batch) \notin DbSlots
    /\ FailWith("cursor_out_of_range")
    /\ UNCHANGED dbVars

RecordFails ==
    /\ pc = "slots"
    /\ Recordable(SlotStates(batch))
    /\ table' \in {table, Record(table, SlotStates(batch))}
    /\ FailWith("slot_state_error")
    /\ UNCHANGED <<stored, cursor, contiguous, head, anchor>>

RecordOutOfRange ==
    /\ pc = "slots"
    /\ ~Recordable(SlotStates(batch))
    /\ FailWith("slot_out_of_range")
    /\ UNCHANGED dbVars

SelectFails ==
    /\ pc = "select"
    /\ FailWith("slot_state_error")
    /\ UNCHANGED dbVars

UpsertFails ==
    /\ pc = "upsert"
    /\ \/ UNCHANGED <<contiguous, head, anchor>>
       \/ /\ contiguous' = Greatest(contiguous, selected.watermark)
          /\ head' = Greatest(head, selected.head)
          /\ anchor' = IF contiguous = None THEN Seed(table, None) ELSE anchor
    /\ FailWith("slot_state_error")
    /\ UNCHANGED <<stored, cursor, table>>

-----------------------------------------------------------------------------
\* The process dies, or Ctrl-C drops the pipeline future at its await.
Crash ==
    /\ Alive
    /\ pc' = "down"
    /\ outcome' = "none"
    /\ DropProcess
    /\ UNCHANGED dbVars

\* run_replay / run_yellowstone from the start: the cursor is read, nothing else.
Restart ==
    /\ ~Alive
    /\ restarts < MaxRestarts
    /\ restarts' = restarts + 1
    /\ pc' = "receive"
    /\ producer' = "running"
    /\ resumeAfter' = cursor
    /\ summary' = FirstSummary(cursor)
    /\ published' = FirstSummary(cursor)
    /\ outcome' = "none"
    /\ channel' = <<>>
    /\ pending' = <<>>
    /\ batch' = <<>>
    /\ draining' = FALSE
    /\ written' = 0
    /\ selected' = NothingSelected
    /\ accepted' = {}
    /\ UNCHANGED dbVars

-----------------------------------------------------------------------------
Producer ==
    \/ \E e \in Event : ProducerSend(e)
    \/ \E how \in {"ok", "error", "panicked"} : ProducerExit(how)

WriteBatch ==
    WriteEvents \/ UpdateCursor \/ RecordSlotStates \/ SelectWatermark
      \/ UpsertWatermark \/ BatchDone

Receiver ==
    Receive \/ ChannelClosed \/ WriteBatch \/ Join \/ CursorOutOfRange \/ RecordOutOfRange

StatementFails ==
    WriteFails \/ CursorFails \/ RecordFails \/ SelectFails \/ UpsertFails

Next == Producer \/ Receiver \/ StatementFails \/ Crash \/ Restart

Spec == Init /\ [][Next]_vars

\* The runtime keeps polling the receiver, and the database answers.
FairSpec == Spec /\ WF_vars(Receiver)

-----------------------------------------------------------------------------
\* Every variable holds a value of the kind the code gives it.
TypeOK ==
    /\ stored \subseteq EventId
    /\ cursor \in DbSlotOrNone
    /\ table \in Tables
    /\ contiguous \in DbSlotOrNone
    /\ head \in DbSlotOrNone
    /\ anchor \in DbSlotOrNone
    /\ producer \in {"running", "ok", "error", "panicked", "aborted"}
    /\ channel \in Seq(Event) /\ Len(channel) <= ChannelCapacity
    /\ pending \in Seq(Event) /\ Len(pending) < BatchSize
    /\ batch \in Seq(Event) /\ Len(batch) <= BatchSize
    /\ draining \in BOOLEAN
    /\ pc \in {"receive", "write", "cursor", "slots", "select", "upsert",
               "progress", "join", "exited", "down"}
    /\ resumeAfter \in DbSlotOrNone
    /\ written \in Nat
    /\ selected \in [watermark : DbSlotOrNone, head : DbSlotOrNone]
    /\ summary \in Summaries
    /\ published \in Summaries
    /\ outcome \in {"none", "ok", "producer_error", "producer_join", "write_error",
                    "cursor_error", "cursor_out_of_range", "slot_state_error",
                    "slot_out_of_range"}
    /\ restarts \in 0..MaxRestarts
    /\ accepted \subseteq EventId

\* Events the resume rule passes over: they are at or below the loaded cursor.
ResumedOver == {id \in EventId : UseSlotResume /\ resumeAfter # None /\ SlotOf[id] <= resumeAfter}

(***************************************************************************)
(* Nothing the channel accepted is lost while the process lives, and when   *)
(* it ends well everything is stored: not across backpressure, not between  *)
(* the batcher and write_batch, not in the final partial batch.  Only the   *)
(* resume rule passes events over.                                          *)
(***************************************************************************)
AcceptedEventsKept ==
    Alive \/ outcome = "ok" =>
        accepted \subseteq stored \cup Ids(channel) \cup Ids(pending) \cup Ids(batch)
                             \cup ResumedOver

(***************************************************************************)
(* "Cursor after persistence": whatever statement fails or wherever the     *)
(* process dies, the stored cursor names the slot of an event that is       *)
(* stored.                                                                  *)
(***************************************************************************)
CursorAfterPersistence ==
    cursor # None => \E id \in stored : SlotOf[id] = cursor

\* A slot is marked finalized only once the event that says so is stored.
FinalityAfterPersistence ==
    \A s \in FinalizedSlots(table) :
        \E id \in stored : SlotOf[id] = s /\ StatusOf[id] = "finalized"

(***************************************************************************)
(* The contiguous watermark has no hole behind it: from the slot it started *)
(* at up to itself, every rooted slot of the ledger is recorded as          *)
(* finalized, in whatever order, how often and across how many processes    *)
(* the slot events came.                                                    *)
(***************************************************************************)
WatermarkGapFree ==
    contiguous # None =>
        /\ anchor # None /\ anchor <= contiguous
        /\ \A r \in Rooted : (anchor <= r /\ r <= contiguous) => r \in FinalizedSlots(table)

(***************************************************************************)
(* After write_batch advanced the watermark, it is as far as the recorded   *)
(* links go, links recorded by earlier processes included, and the head is  *)
(* the highest finalized slot.                                              *)
(***************************************************************************)
Advanced ==
    /\ pc = "progress" /\ RecordSlots /\ AdvanceFinalized
    /\ \E i \in SlotEventsAt(batch) : StatusOf[batch[i].id] = "finalized"

WatermarkExhaustsChain ==
    Advanced => /\ Watermark(table, contiguous) = contiguous
                /\ head = FinalizedHead(table)

(***************************************************************************)
(* What on_progress was last told is what a reader of the database sees:    *)
(* the locally computed maximum agrees with the column that GREATEST keeps, *)
(* and a watermark is either not known yet or the stored one.               *)
(***************************************************************************)
ProgressMatchesStore ==
    pc = "receive" =>
        /\ published.persisted = cursor
        /\ published.contiguous \in {None, contiguous}
        /\ published.head \in {None, head}

(***************************************************************************)
(* The counters of the summary account for every event received: skipped,   *)
(* attempted, or still in the batcher.                                      *)
(***************************************************************************)
EventsAccounted ==
    pc \in {"receive", "join"} \/ outcome = "ok" =>
        summary.seen = summary.skipped + summary.attempted + Len(pending)

(***************************************************************************)
(* The unit tests of the pipeline run on an in-memory twin of the slot      *)
(* table whose `advance` walks the links instead of querying them.  On      *)
(* every table the pipeline can build, the walk and the recursive query     *)
(* agree, so what those tests show of the watermark holds of the database.  *)
(***************************************************************************)
TwinAgrees == Advance(table, contiguous) = Watermark(table, contiguous)

\* Whatever order slots arrive in, no durable slot column ever moves back.
DurableColumnsMonotone ==
    [][cursor' >= cursor /\ contiguous' >= contiguous /\ head' >= head]_dbVars

\* A full channel is always taken from again: backpressure never deadlocks.
BackpressureLifts ==
    Len(channel) = ChannelCapacity ~> Len(channel) < ChannelCapacity

(***************************************************************************)
(* docs/architecture.md: the batcher "accumulates events into bounded       *)
(* batches by size or timeout".  By that, an event the process accepted is  *)
(* stored after a while, also when no further event follows it.             *)
(***************************************************************************)
AcceptedEventsEventuallyStored ==
    \A id \in EventId : (id \in accepted) ~> (id \in stored \/ id \notin accepted)

(***************************************************************************)
(* LOGBOOK.md: "The batch writer now skips individual malformed events and  *)
(* continues with the rest of the batch".  By that, an event that converts  *)
(* to no row is never what stops the pipeline.                              *)
(***************************************************************************)
UnstorableEventNeverFatal == outcome # "cursor_out_of_range"

(***************************************************************************)
(* The pipeline implements the durable sink: seen from the database, every  *)
(* step of it, failure and crash is one of the sink's or changes nothing.   *)
(***************************************************************************)
Sink == INSTANCE DurableSink WITH finalizedSlots <- FinalizedSlots(table)

ImplementsSink == Sink!SinkSpec
=============================================================================
