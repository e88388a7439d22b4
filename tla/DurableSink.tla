---------------------------- MODULE DurableSink -----------------------------
(***************************************************************************)
(* What the database promises to whoever reads it, with nothing of how the  *)
(* pipeline gets there: no channel, no batches, no process that can stop.   *)
(*                                                                          *)
(*   - events are only ever added;                                          *)
(*   - the cursor is the slot of an event that is already stored;           *)
(*   - a slot counts as finalized only once an event that says so is stored;*)
(*   - the watermark only rises, and every slot of the finalized ledger     *)
(*     between the slot where it started and the watermark is finalized.    *)
(***************************************************************************)
EXTENDS SlotFrontier

CONSTANTS
    EventId,    \* event identities (events.event_id)
    SlotOf,     \* the slot each identity names
    StatusOf,   \* "finalized" or "dead" for such slot events, else "other"
    Rooted      \* the slots of the finalized ledger

VARIABLES
    stored,         \* identities with a row in events
    cursor,         \* stream_cursors.last_persisted_slot
    finalizedSlots, \* slots with a finalized row in stream_slots
    contiguous,     \* stream_cursors.last_contiguous_finalized_slot
    head,           \* stream_cursors.last_finalized_slot
    anchor          \* the slot the watermark started from (history)

sinkVars == <<stored, cursor, finalizedSlots, contiguous, head, anchor>>

SinkInit ==
    /\ stored = {}
    /\ cursor = None
    /\ finalizedSlots = {}
    /\ contiguous = None
    /\ head = None
    /\ anchor = None

\* Rows of one INSERT .. ON CONFLICT DO NOTHING appear together.
StoreEvents ==
    /\ stored' \in SUBSET EventId
    /\ stored \subseteq stored'
    /\ UNCHANGED <<cursor, finalizedSlots, contiguous, head, anchor>>

MoveCursor ==
    /\ \E id \in stored : cursor' = SlotOf[id]
    /\ cursor' > cursor
    /\ UNCHANGED <<stored, finalizedSlots, contiguous, head, anchor>>

RecordFinality ==
    /\ finalizedSlots \subseteq finalizedSlots'
    /\ finalizedSlots' \subseteq
           {SlotOf[id] : id \in {i \in stored : StatusOf[i] = "finalized"}}
    /\ UNCHANGED <<stored, cursor, contiguous, head, anchor>>

GapFree(from, to) == \A r \in Rooted : (from <= r /\ r <= to) => r \in finalizedSlots

AdvanceWatermark ==
    /\ contiguous' \in finalizedSlots
    /\ contiguous' >= contiguous
    /\ head' \in finalizedSlots
    /\ head' >= contiguous' /\ head' >= head
    /\ IF contiguous = None
         THEN anchor' \in finalizedSlots /\ anchor' <= contiguous'
         ELSE anchor' = anchor
    /\ GapFree(anchor', contiguous')
    /\ UNCHANGED <<stored, cursor, finalizedSlots>>

SinkNext == StoreEvents \/ MoveCursor \/ RecordFinality \/ AdvanceWatermark

SinkSpec == SinkInit /\ [][SinkNext]_sinkVars
=============================================================================
