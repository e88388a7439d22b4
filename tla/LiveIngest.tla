----------------------------- MODULE LiveIngest -----------------------------
(***************************************************************************)
(* Live mode (run_yellowstone in crates/app/src/app.rs): the pipeline fed   *)
(* by a Yellowstone subscription that ReconnectLoop keeps alive.            *)
(*                                                                          *)
(* Two tasks share one AtomicU64: on_progress stores the contiguous         *)
(* watermark into it after a batch, and every connection attempt loads it   *)
(* as the from_slot of its subscription.  Zero means "no slot yet".         *)
(*                                                                          *)
(* The provider is not part of the repository.  It is modelled as the code  *)
(* uses it: a log that grows; a subscription with a from_slot is served     *)
(* from the log's first update at or above that slot, one without starts    *)
(* at the log's tip.                                                        *)
(***************************************************************************)
EXTENDS IngestPipeline, ReconnectLoop

CONSTANTS
    Log,            \* what the provider sends, in its order
    Builds          \* the builds a process may be: only "debug" has overflow checks

ASSUME LiveAssumption ==
    /\ Log \in Seq(Event)
    /\ Builds \subseteq {"debug", "release"}
    /\ MaxDbSlot < MaxSlot              \* i64::MAX < u64::MAX
    /\ UseSlotResume = FALSE
    /\ AdvanceFinalized = TRUE
    /\ RecordSlots = TRUE

(***************************************************************************)
(* The order of a real provider: by the time a slot is finalized, what      *)
(* happened in it and in the slots below it has been sent.                  *)
(***************************************************************************)
ASSUME ProviderOrder ==
    \A i, j \in DOMAIN Log :
        /\ StatusOf[Log[i].id] = "finalized"
        /\ SlotOf[Log[j].id] <= SlotOf[Log[i].id]
        /\ StatusOf[Log[j].id] = "other"
        => j < i

VARIABLES
    shared,     \* last_contiguous_finalized_slot: AtomicU64
    fromSlot,   \* from_slot of the current attempt
    tip,        \* the length of the provider's log
    position,   \* how far the current subscription has been served
    blind       \* history: the log up to here may have been passed over by a
                \* subscription without from_slot

attemptVars == <<fromSlot, position, blind>>
liveVars    == <<vars, loopVars, shared, attemptVars, tip>>

-----------------------------------------------------------------------------
\* Mutant: the slot itself is stored, so that slot zero reads as no slot.
EncodeUnshifted(slot) == Greatest(slot, 0)

\* encode_slot: slot + 1, saturating in the u64; None is 0.
Encode(slot) == IF slot = None THEN 0 ELSE Min({slot + 1, MaxSlot})

\* decode_slot, where it returns: None for 0.
Decode(encoded) == encoded - 1

\* decode_slot evaluates encoded - 1 before it looks at encoded > 0.
DecodeReturns(encoded) == encoded > 0 \/ "release" \in Builds
DecodePanics(encoded) == encoded = 0 /\ "debug" \in Builds

\* get_finalized_frontier: where a new process starts.
StartSlot == contiguous

\* Mutant: the highest persisted slot is what later attempts start from.
SharedAfterPersisted ==
    IF summary.persisted # None THEN Encode(summary.persisted) ELSE shared

\* Mutant: the watermark is stored as it is, without the encoding.
SharedAfterRaw == summary.contiguous

\* on_progress after a batch: a known watermark is stored, no other is.
SharedAfter ==
    IF summary.contiguous # None THEN Encode(summary.contiguous) ELSE shared

\* The next update the current subscription delivers.
Matching == {i \in (position + 1)..tip : SlotOf[Log[i].id] >= fromSlot}

-----------------------------------------------------------------------------
LiveInit ==
    /\ Init
    /\ LoopInit
    /\ shared = 0
    /\ fromSlot = None
    /\ tip = 0
    /\ position = 0
    /\ blind = 0

\* The provider's log grows, whatever this process does.
ProviderAppends ==
    /\ tip < Len(Log)
    /\ tip' = tip + 1
    /\ UNCHANGED <<vars, loopVars, shared, attemptVars>>

ProducerRuns == Alive /\ producer = "running"

\* configure_attempt: from_slot is loaded from the atomic.
LiveConfigure ==
    /\ ProducerRuns
    /\ DecodeReturns(shared)
    /\ Configure
    /\ fromSlot' = Decode(shared)
    /\ UNCHANGED <<vars, shared, tip, position, blind>>

LiveConfigurePanics ==
    /\ DecodePanics(shared)
    /\ loop = "configure"
    /\ ProducerExit("panicked")
    /\ UNCHANGED <<loopVars, shared, attemptVars, tip>>

\* The subscription is accepted and the provider decides where it begins.
LiveOpened ==
    /\ ProducerRuns
    /\ Opened
    /\ IF fromSlot = None
         THEN position' = tip /\ blind' = Greatest(blind, tip)
         ELSE position' = 0 /\ UNCHANGED blind
    /\ UNCHANGED <<vars, shared, tip, fromSlot>>

\* updates.message(), normalisation, sender.send(event).await
LiveSend ==
    /\ loop = "stream"
    /\ Matching # {}
    /\ position' = Min(Matching)
    /\ ProducerSend(Log[position'])
    /\ UNCHANGED <<loopVars, shared, fromSlot, tip, blind>>

\* An attempt fails; a loop that returns the error ends the producer task.
LiveFails(kind) ==
    /\ ProducerRuns
    /\ AttemptFails(kind)
    /\ IF loop' = "backoff" THEN UNCHANGED vars ELSE ProducerExit("error")
    /\ UNCHANGED <<shared, attemptVars, tip>>

LiveClock ==
    /\ ProducerRuns
    /\ GracePasses \/ Wake
    /\ UNCHANGED <<vars, shared, attemptVars, tip>>

LiveReceiver ==
    /\ Receiver
    /\ shared' = IF pc = "progress" THEN SharedAfter ELSE shared
    /\ UNCHANGED <<loopVars, attemptVars, tip>>

LiveStops ==
    /\ StatementFails \/ Crash
    /\ UNCHANGED <<loopVars, shared, attemptVars, tip>>

\* run_yellowstone from the start: the frontier is read and seeds the atomic.
LiveRestart ==
    /\ Restart
    /\ shared' = Encode(StartSlot)
    /\ loop' = "configure"
    /\ retries' = 0
    /\ delay' = FirstDelay
    /\ graceOver' = FALSE
    /\ fromSlot' = None
    /\ position' = 0
    /\ UNCHANGED <<tip, blind>>

\* The receiver outlives the producer: AbortOnDrop ends the task before it.
ProviderFailures == (ConnectFailures \cup StreamFailures) \ {"receiver_closed"}

LiveProducer ==
    \/ LiveConfigure \/ LiveConfigurePanics \/ LiveOpened \/ LiveSend
    \/ LiveClock
    \/ \E kind \in ProviderFailures : LiveFails(kind)

LiveNext ==
    ProviderAppends \/ LiveProducer \/ LiveReceiver \/ LiveStops \/ LiveRestart

LiveSpec == LiveInit /\ [][LiveNext]_liveVars

-----------------------------------------------------------------------------
\* The shared atomic holds an encoded slot, the attempt a slot or none.
LiveTypeOK ==
    /\ TypeOK
    /\ LoopTypeOK
    /\ shared \in Slots
    /\ fromSlot \in DbSlotOrNone
    /\ tip \in 0..Len(Log)
    /\ position \in 0..tip
    /\ blind \in 0..tip

(***************************************************************************)
(* The resume point the next attempt will load is durable: it is the stored *)
(* watermark whenever the receiver is between batches, and during a batch   *)
(* it lags the database rather than leading it.                             *)
(***************************************************************************)
SharedMatchesStore ==
    Alive =>
        /\ Decode(shared) <= contiguous
        /\ pc = "receive" => Decode(shared) = contiguous

\* An update is sent in time when no slot at or above its own was finalized
\* before it.  By ProviderOrder everything but the status of a slot is; a late
\* status, as that of a fork the watermark has passed, is below every later
\* from_slot.
InTime(i) ==
    \A f \in DOMAIN Log :
        StatusOf[Log[f].id] = "finalized" /\ SlotOf[Log[i].id] <= SlotOf[Log[f].id] => i <= f

(***************************************************************************)
(* Live recovery loses nothing below the watermark: with a provider that    *)
(* honours from_slot, every storable event at or below the contiguous       *)
(* watermark that was sent in time is stored, across failed statements,     *)
(* crashes, restarts and reconnects in any order, except what the provider  *)
(* sent before a subscription that had no from_slot.                        *)
(***************************************************************************)
Covered(i) ==
    Storable(Log[i]) /\ SlotOf[Log[i].id] <= contiguous => Log[i].id \in stored

FrontierCoversLog == \A i \in DOMAIN Log : i > blind /\ InTime(i) => Covered(i)

(***************************************************************************)
(* live-recovery.md: "Fall back to last_persisted_slot only when no         *)
(* contiguous frontier has been established yet".  By that, a process that  *)
(* loaded a cursor subscribes with some from_slot.                          *)
(***************************************************************************)
FallsBackToCursor ==
    loop \in {"connect", "stream"} /\ resumeAfter # None => fromSlot # None

(***************************************************************************)
(* live-recovery.md: "Treat reconnect without a local from_slot as          *)
(* gap_risk".  By that, an attempt without a slot goes on: no attempt       *)
(* panics for want of one.                                                  *)
(***************************************************************************)
AttemptWithoutSlotRuns == producer # "panicked" /\ outcome # "producer_join"
=============================================================================
