---------------------------- MODULE StatusChannel ----------------------------
(***************************************************************************)
(* The live status behind GET /status (crates/app/src/http.rs): one watch   *)
(* channel holding a StatusSnapshot that three callbacks of run_yellowstone *)
(* (crates/app/src/app.rs) replace as a whole.  on_reconnect runs in the    *)
(* producer's task, on_progress and on_activity in the receiver's.  Each    *)
(* borrows the current value, clones it, changes the clone and sends it     *)
(* back, and nothing holds the channel in between.                          *)
(*                                                                          *)
(* The producer's task is ReconnectLoop.  Of the pipeline the module keeps  *)
(* what the callbacks see: events arrive, now and then a batch of them is   *)
(* durable, and the summary then names slots at least as high as before.    *)
(***************************************************************************)
EXTENDS SlotFrontier, ReconnectLoop

CONSTANTS
    MaxU64,         \* where gap_risk_count saturates
    MaxInFlight,    \* PipelineConfig.channel_capacity
    MaxBatches      \* bound: batches one process writes

ASSUME StatusAssumption ==
    /\ MaxU64 \in Nat
    /\ MaxInFlight \in Nat \ {0}
    /\ MaxBatches \in Nat

VARIABLES
    status,         \* the value of the watch channel
    watermark,      \* the shared atomic, decoded
    fromSlot,       \* from_slot of the current attempt
    report,         \* on_reconnect: "none", "borrow" or "send"
    reportCopy,     \* the status it cloned
    inFlight,       \* events in the channel
    pending,        \* Batcher.pending is not empty
    summary,        \* the slots and the batch count of PipelineSummary
    callback,       \* what the receiver's task is doing
    callbackCopy,   \* the status on_progress or on_activity will send
    lastBatches,    \* last_batches_written of on_progress
    frontier,       \* the contiguous watermark in the database
    \* --- history
    slotless,       \* reports of attempts without from_slot
    gapOverlap,     \* a report was sent while the receiver held a clone
    sumOverlap      \* the receiver sent while on_reconnect held a clone

reportVars   == <<report, reportCopy>>
receiverVars == <<inFlight, pending, summary, callback, callbackCopy, lastBatches, frontier>>
statusVars   == <<loopVars, status, watermark, fromSlot, reportVars, receiverVars,
                  slotless, gapOverlap, sumOverlap>>

-----------------------------------------------------------------------------
\* LiveProducerStatus, without times, texts and the delay.
Live == [producer : {"running", "reconnecting"},
         recovery : {"steady", "reconnecting", "gap_risk"},
         attempts : 0..MaxU32, from : SlotOrNone, gaps : 0..MaxU64, observed : SlotOrNone]

DefaultLive == [producer |-> "running", recovery |-> "steady",
                attempts |-> 0, from |-> None, gaps |-> 0, observed |-> None]

Shown == [persisted : SlotOrNone, contiguous : SlotOrNone, batches : 0..MaxBatches]

\* StatusSnapshot: the slots and counters of a summary, and the live part.
Snapshots == [shown : Shown, live : Live]

\* A callback holds no clone.
NoClone == [shown |-> [persisted |-> None, contiguous |-> None, batches |-> 0],
            live |-> DefaultLive]

\* Mutant: a plain addition, which no u64 holds at the end.
Next64Unbounded(n) == n + 1

\* saturating_add(1)
Next64(n) == Min({n + 1, MaxU64})

\* Mutant: any progress clears the gap-risk flag and its count.
RunningClearsGaps(live) ==
    [live EXCEPT !.producer = "running", !.recovery = "steady", !.gaps = 0]

\* running(): a gap-risk flag stays up.
Running(live) ==
    [live EXCEPT !.producer = "running",
                 !.recovery = IF @ = "reconnecting" THEN "steady" ELSE @]

\* with_reconnecting, then with_recovery_reconnect
Reconnecting(live) ==
    [live EXCEPT !.producer = "reconnecting",
                 !.attempts = retries,
                 !.from = fromSlot,
                 !.recovery = IF fromSlot # None THEN "reconnecting" ELSE "gap_risk",
                 !.gaps = IF fromSlot # None THEN @ ELSE Next64(@)]

\* Mutant: what was observed is shown as persisted.
EventObservedAsPersisted(snapshot, slot) ==
    [snapshot EXCEPT !.live.observed = slot, !.shown.persisted = slot]

\* with_event_observed
EventObserved(snapshot, slot) == [snapshot EXCEPT !.live.observed = slot]

\* Mutant: the slots and counters of the cloned status are kept.
ProgressStatusLiveOnly == [status EXCEPT !.live = Running(@)]

\* from_pipeline_mode(summary).with_live(..): only the live part is the clone's.
ProgressStatus == [shown |-> summary, live |-> Running(status.live)]

-----------------------------------------------------------------------------
(***************************************************************************)
(* A process starts with any cursor and a frontier no higher; the first     *)
(* on_progress is due before the first event.                               *)
(***************************************************************************)
StatusInit ==
    /\ LoopInit
    /\ frontier \in SlotOrNone
    /\ summary \in [persisted : {s \in SlotOrNone : s >= frontier},
                    contiguous : {None}, batches : {0}]
    /\ status = [shown |-> [summary EXCEPT !.contiguous = frontier], live |-> DefaultLive]
    /\ watermark = frontier
    /\ fromSlot = None
    /\ report = "none"
    /\ reportCopy = NoClone
    /\ inFlight = 0
    /\ pending = FALSE
    /\ callback = "progress"
    /\ callbackCopy = NoClone
    /\ lastBatches = 0
    /\ slotless = 0
    /\ gapOverlap = FALSE
    /\ sumOverlap = FALSE

-----------------------------------------------------------------------------
(***************************************************************************)
(* The producer's task.                                                     *)
(***************************************************************************)
StatusConfigure ==
    /\ Configure
    /\ fromSlot' = watermark
    /\ UNCHANGED <<status, watermark, reportVars, receiverVars, slotless,
                   gapOverlap, sumOverlap>>

Deliver ==
    /\ loop = "stream"
    /\ inFlight < MaxInFlight
    /\ inFlight' = inFlight + 1
    /\ UNCHANGED <<loopVars, status, watermark, fromSlot, reportVars, pending, summary,
                   callback, callbackCopy, lastBatches, frontier, slotless,
                   gapOverlap, sumOverlap>>

StatusFails(kind) ==
    /\ AttemptFails(kind)
    /\ report' = IF loop' = "backoff" THEN "borrow" ELSE "none"
    /\ UNCHANGED <<status, watermark, fromSlot, reportCopy, receiverVars, slotless,
                   gapOverlap, sumOverlap>>

\* on_reconnect: borrow().clone() ...
ReportBorrows ==
    /\ report = "borrow"
    /\ report' = "send"
    /\ reportCopy' = status
    /\ UNCHANGED <<loopVars, status, watermark, fromSlot, receiverVars, slotless,
                   gapOverlap, sumOverlap>>

\* ... and send, the summary of the clone included.
ReportSends ==
    /\ report = "send"
    /\ report' = "none"
    /\ status' = [reportCopy EXCEPT !.live = Reconnecting(@)]
    /\ reportCopy' = NoClone
    /\ slotless' = IF fromSlot = None THEN Next64(slotless) ELSE slotless
    /\ gapOverlap' = (gapOverlap \/ callback \in {"activity_send", "progress_send", "final_send"})
    /\ UNCHANGED <<loopVars, watermark, fromSlot, receiverVars, sumOverlap>>

StatusClock ==
    /\ Opened \/ GracePasses \/ (report = "none" /\ Wake)
    /\ UNCHANGED <<status, watermark, fromSlot, reportVars, receiverVars, slotless,
                   gapOverlap, sumOverlap>>

-----------------------------------------------------------------------------
(***************************************************************************)
(* The receiver's task.                                                     *)
(***************************************************************************)
\* An event is received; on_activity returns at once within a second of the
\* last time it sent, and else borrows.
ReceiveEvent ==
    /\ callback = "idle"
    /\ inFlight > 0
    /\ inFlight' = inFlight - 1
    /\ pending' = TRUE
    /\ \/ UNCHANGED <<callback, callbackCopy>>
       \/ /\ callback' = "activity_send"
          /\ \E slot \in Slots : callbackCopy' = EventObserved(status, slot)
    /\ UNCHANGED <<loopVars, status, watermark, fromSlot, reportVars, summary, lastBatches,
                   frontier, slotless, gapOverlap, sumOverlap>>

ProducerEnded == loop \in {"gave_up", "failed"}

Drained == ProducerEnded /\ inFlight = 0

\* write_batch: on_progress follows, at once or as the last word of the pipeline.
BatchWritten ==
    /\ callback = "idle"
    /\ pending
    /\ summary.batches < MaxBatches
    /\ pending' = FALSE
    /\ \E persisted \in Slots, advanced \in SlotOrNone :
         /\ persisted >= summary.persisted
         /\ frontier <= advanced /\ advanced <= persisted
         /\ \/ summary' = [persisted |-> persisted, batches |-> summary.batches + 1,
                           contiguous |-> summary.contiguous]
               /\ UNCHANGED frontier
            \/ advanced # None
               /\ summary' = [persisted |-> persisted, batches |-> summary.batches + 1,
                              contiguous |-> advanced]
               /\ frontier' = advanced
    /\ \/ callback' = "progress"
       \/ Drained /\ callback' = "final"
    /\ UNCHANGED <<loopVars, status, watermark, fromSlot, reportVars, inFlight, callbackCopy,
                   lastBatches, slotless, gapOverlap, sumOverlap>>

\* Mutant: a pipeline that has nothing to flush ends without on_progress.
FinishSilently ==
    /\ callback = "idle" /\ Drained /\ ~pending
    /\ callback' = "done"
    /\ UNCHANGED <<loopVars, status, watermark, fromSlot, reportVars, inFlight, pending, summary,
                   callbackCopy, lastBatches, frontier, slotless, gapOverlap, sumOverlap>>

\* The channel is closed and nothing is left to flush: the last on_progress.
Finish ==
    /\ callback = "idle"
    /\ Drained
    /\ ~pending
    /\ callback' = "final"
    /\ UNCHANGED <<loopVars, status, watermark, fromSlot, reportVars, inFlight, pending, summary,
                   callbackCopy, lastBatches, frontier, slotless, gapOverlap, sumOverlap>>

(***************************************************************************)
(* on_progress: the live part is cloned; after a new batch with a known     *)
(* watermark the atomic is stored.  No other callback touches the atomic,   *)
(* so the store is one step with the borrow before it.                      *)
(***************************************************************************)
ProgressBorrows ==
    /\ callback \in {"progress", "final"}
    /\ callback' = IF callback = "final" THEN "final_send" ELSE "progress_send"
    /\ callbackCopy' = ProgressStatus
    /\ watermark' = IF summary.batches > lastBatches /\ summary.contiguous # None
                    THEN summary.contiguous ELSE watermark
    /\ lastBatches' = summary.batches
    /\ UNCHANGED <<loopVars, status, fromSlot, reportVars, inFlight, pending, summary,
                   frontier, slotless, gapOverlap, sumOverlap>>

\* send() of on_progress or on_activity.
CallbackSends ==
    /\ callback \in {"activity_send", "progress_send", "final_send"}
    /\ callback' = IF callback = "final_send" THEN "done" ELSE "idle"
    /\ status' = callbackCopy
    /\ callbackCopy' = NoClone
    /\ sumOverlap' = (sumOverlap \/ report = "send")
    /\ UNCHANGED <<loopVars, watermark, fromSlot, reportVars, inFlight, pending, summary,
                   lastBatches, frontier, slotless, gapOverlap>>

-----------------------------------------------------------------------------
StatusProducer ==
    \/ StatusConfigure \/ Deliver \/ ReportBorrows \/ ReportSends \/ StatusClock
    \/ \E kind \in ConnectFailures \cup StreamFailures : StatusFails(kind)

StatusReceiver ==
    ReceiveEvent \/ BatchWritten \/ Finish \/ ProgressBorrows \/ CallbackSends

StatusNext == StatusProducer \/ StatusReceiver

StatusSpec == StatusInit /\ [][StatusNext]_statusVars

-----------------------------------------------------------------------------
\* The channel and the clones hold statuses, the history stays in range.
StatusTypeOK ==
    /\ LoopTypeOK
    /\ status \in Snapshots /\ reportCopy \in Snapshots /\ callbackCopy \in Snapshots
    /\ watermark \in SlotOrNone /\ fromSlot \in SlotOrNone /\ frontier \in SlotOrNone
    /\ report \in {"none", "borrow", "send"}
    /\ inFlight \in 0..MaxInFlight
    /\ pending \in BOOLEAN
    /\ summary \in Shown
    /\ callback \in {"idle", "activity_send", "progress", "progress_send",
                     "final", "final_send", "done"}
    /\ lastBatches \in 0..MaxBatches
    /\ slotless \in 0..MaxU64
    /\ gapOverlap \in BOOLEAN /\ sumOverlap \in BOOLEAN

(***************************************************************************)
(* Nothing /status shows is ahead of the database, whichever clone was sent *)
(* last: neither the cursor nor the watermark.                              *)
(***************************************************************************)
ShownIsDurable ==
    /\ status.shown.persisted <= summary.persisted
    /\ status.shown.contiguous <= frontier

(***************************************************************************)
(* The gap-risk count never counts a reconnect that was not reported, and   *)
(* it is exact unless a report overlapped a callback of the receiver: that  *)
(* race is the only way a report can be lost.                               *)
(***************************************************************************)
GapsCounted ==
    /\ status.live.gaps <= slotless
    /\ ~gapOverlap => status.live.gaps = slotless

(***************************************************************************)
(* Between two callbacks /status shows the summary of the last batch, but   *)
(* for an overlap of the two tasks that restores an older one.              *)
(***************************************************************************)
ShownIsCurrent ==
    callback = "idle" /\ ~pending /\ ~sumOverlap => status.shown = summary

(***************************************************************************)
(* The pipeline has the last word: whatever older status was restored on    *)
(* the way, once the pipeline has resolved /status shows its summary.       *)
(***************************************************************************)
LastWordIsSummary == callback = "done" => status.shown = summary

(***************************************************************************)
(* live-recovery.md: "steady: the producer is not currently reconnecting".  *)
(* By that, no status says steady once on_reconnect has reported and while  *)
(* the producer sleeps its backoff.                                         *)
(***************************************************************************)
SteadyMeansConnected ==
    loop = "backoff" /\ report = "none" => status.live.recovery # "steady"
=============================================================================
