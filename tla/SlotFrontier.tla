---------------------------- MODULE SlotFrontier ----------------------------
(***************************************************************************)
(* The slot-state table (stream_slots) and the finalized watermark computed *)
(* from it: crates/storage/src/slots.rs.                                    *)
(*                                                                          *)
(* Everything here is a constant-level operator over a table, so that the   *)
(* pipeline and the abstract sink share it and lemmas can be stated about   *)
(* it once.  There is no RECURSIVE operator: the recursive CTE is the least *)
(* set closed under its recursive term, and it is written that way.         *)
(***************************************************************************)
EXTENDS Integers, FiniteSets, FiniteSetsExt

CONSTANTS
    MaxSlot,    \* the largest slot number of the u64 used in memory
    MaxDbSlot   \* the largest slot number a BIGINT column holds (i64::MAX)

ASSUME SlotAssumption ==
    /\ MaxSlot \in Nat
    /\ MaxDbSlot \in 0..MaxSlot

(***************************************************************************)
(* NULL in the database and Option::None in the code.  It is below every    *)
(* slot because GREATEST and max() ignore NULL.                             *)
(***************************************************************************)
None == -1

Slots   == 0..MaxSlot       \* u64
DbSlots == 0..MaxDbSlot     \* the slots that i64::try_from accepts

SlotOrNone   == Slots \cup {None}
DbSlotOrNone == DbSlots \cup {None}

\* Mutant: SET column = EXCLUDED.column, without GREATEST.
Excluded(a, b) == b

\* SQL GREATEST of two columns; also Option::map_or(slot, |c| c.max(slot)).
Greatest(a, b) == IF a >= b THEN a ELSE b

\* SQL max() and Iterator::max over a set of slots: NULL / None when empty.
MaxOrNone(S) == Max(S \cup {None})

\* Option: the second one when the first is absent (SQL COALESCE).
Coalesce(a, b) == IF a # None THEN a ELSE b

-----------------------------------------------------------------------------
(***************************************************************************)
(* The table.  A slot without a row is a row (NULL, FALSE, FALSE): no query *)
(* of the code tells the two apart, and no update writes such a row.        *)
(***************************************************************************)
SlotRow == [parent : DbSlotOrNone, finalized : BOOLEAN, dead : BOOLEAN]

Tables == [DbSlots -> SlotRow]

EmptyTable == [s \in DbSlots |-> [parent |-> None, finalized |-> FALSE, dead |-> FALSE]]

\* What a slot event asks of the table (SlotStateUpdate).
SlotUpdate == [slot : Slots, parent : SlotOrNone, finalized : BOOLEAN, dead : BOOLEAN]

(***************************************************************************)
(* record_slot_states: updates of one call are merged per slot, the last    *)
(* known parent winning, and the merged row is folded into the stored one.  *)
(* A NULL parent never erases a known one, and the flags only ever rise.    *)
(***************************************************************************)
ParentGivers(updates, s) ==
    {i \in DOMAIN updates : updates[i].slot = s /\ updates[i].parent # None}

MergedParent(updates, s) ==
    IF ParentGivers(updates, s) = {} THEN None
    ELSE updates[Max(ParentGivers(updates, s))].parent

\* Mutant: only the slot is checked, the parent is cast.
RecordableSlots(updates) == \A i \in DOMAIN updates : updates[i].slot \in DbSlots

\* SlotStateRow::try_from for every merged row: one out-of-range number fails all.
Recordable(updates) ==
    \A i \in DOMAIN updates :
        /\ updates[i].slot \in DbSlots
        /\ MergedParent(updates, updates[i].slot) \in DbSlotOrNone

Record(table, updates) ==
    [s \in DbSlots |->
        [parent    |-> Coalesce(MergedParent(updates, s), table[s].parent),
         finalized |-> table[s].finalized \/ \E i \in DOMAIN updates :
                           updates[i].slot = s /\ updates[i].finalized,
         dead      |-> table[s].dead \/ \E i \in DOMAIN updates :
                           updates[i].slot = s /\ updates[i].dead]]

-----------------------------------------------------------------------------
(***************************************************************************)
(* advance_contiguous_finalized, first statement (the recursive CTE).       *)
(***************************************************************************)
FinalizedSlots(table) == {s \in DbSlots : table[s].finalized}

\* seed: the stored watermark, or else the lowest finalized slot.
Seed(table, contiguous) ==
    IF contiguous # None THEN contiguous
    ELSE IF FinalizedSlots(table) = {} THEN None
    ELSE Min(FinalizedSlots(table))

\* One turn of the recursive term: finalized children of c are in the set.
ChainClosed(table, C) ==
    \A c \in C, s \in FinalizedSlots(table) : table[s].parent = c => s \in C

\* Mutant: a join with the parent row in place of the recursive walk.
ChainOneHop(table, seed) ==
    {s \in FinalizedSlots(table) : s = seed \/ table[s].parent = seed}

\* chain: the least set with the seed that the recursive term adds nothing to.
Chain(table, seed) ==
    IF seed = None THEN {}
    ELSE LET Candidates == FinalizedSlots(table) \cup {seed}
         IN  {s \in Candidates :
                \A C \in SUBSET Candidates :
                    (seed \in C /\ ChainClosed(table, C)) => s \in C}

\* Mutant: the watermark is the highest finalized slot, whatever lies below it.
WatermarkAtHead(table, contiguous) == MaxOrNone(FinalizedSlots(table))

Watermark(table, contiguous) == MaxOrNone(Chain(table, Seed(table, contiguous)))

FinalizedHead(table) == MaxOrNone(FinalizedSlots(table))

-----------------------------------------------------------------------------
(***************************************************************************)
(* FinalizedMap and `advance`: the in-memory twin of the query, which goes  *)
(* from a slot to its lowest finalized child until there is none above it.  *)
(***************************************************************************)
Children(table, s) == {c \in FinalizedSlots(table) : table[c].parent = s}

\* Mutant: the walk takes one link only.
WalkOnce(table) ==
    [s \in DbSlots |-> IF Children(table, s) = {} THEN s ELSE Min(Children(table, s))]

Walk(table) ==
    LET walk[s \in DbSlots] ==
            IF Children(table, s) = {} \/ Min(Children(table, s)) <= s THEN s
            ELSE walk[Min(Children(table, s))]
    IN  walk

Advance(table, anchor) ==
    IF Seed(table, anchor) = None THEN None ELSE Walk(table)[Seed(table, anchor)]
=============================================================================
