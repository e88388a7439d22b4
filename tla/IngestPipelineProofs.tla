------------------------ MODULE IngestPipelineProofs ------------------------
(***************************************************************************)
(* Type correctness of IngestPipeline, what its operators on a batch        *)
(* return, and what a process does with the events it receives (none lost,  *)
(* each counted once, on_progress told what the database holds), what the   *)
(* database columns promise, and that the pipeline implements DurableSink,  *)
(* for every batch size, channel capacity, ledger, set of events and number *)
(* of restarts.                                                             *)
(***************************************************************************)
EXTENDS IngestPipeline, WellFoundedInduction, FiniteSetTheorems, TLAPS

-----------------------------------------------------------------------------
(***************************************************************************)
(* The slot-state table, the chain walk and its in-memory twin, for every   *)
(* table: what the invariants of the watermark rest on.                     *)
(***************************************************************************)

\* Every non-empty set of slots has a lowest element (well-foundedness of <).
LEMMA LowestExists ==
    ASSUME NEW S \in SUBSET Nat, S # {}
    PROVE  \E x \in S : \A y \in S : x <= y
<1>1. \E x \in S : \A y \in S : ~(<<y, x>> \in OpToRel(<, Nat))
  BY NatLessThanWellFounded, WFMin, Zenon
<1>2. ASSUME NEW x \in Nat, NEW y \in Nat
      PROVE  <<y, x>> \in OpToRel(<, Nat) <=> y < x
  BY DEF OpToRel
<1>3. PICK x \in S : \A y \in S : ~(<<y, x>> \in OpToRel(<, Nat))
  BY <1>1
<1>4. ASSUME NEW y \in S PROVE x <= y
  <2>1. x \in Nat /\ y \in Nat OBVIOUS
  <2>2. ~(y < x) BY <2>1, <1>2, <1>3
  <2> QED BY <2>1, <2>2
<1> QED BY <1>4

\* ... and, slots being bounded, a highest one: the lowest distance from n.
LEMMA HighestExists ==
    ASSUME NEW n \in Nat, NEW S \in SUBSET (-1..n), S # {}
    PROVE  \E x \in S : \A y \in S : x >= y
<1> DEFINE D == {n - s : s \in S}
<1>1. D \in SUBSET Nat /\ D # {}
  <2>1. ASSUME NEW s \in S PROVE n - s \in Nat
    <3>1. s \in -1..n OBVIOUS
    <3> QED BY <3>1
  <2> QED BY <2>1
<1>2. PICK d \in D : \A e \in D : d <= e
  BY <1>1, LowestExists
<1>3. PICK x \in S : d = n - x
  OBVIOUS
<1>4. ASSUME NEW y \in S PROVE x >= y
  <2>1. n - y \in D OBVIOUS
  <2>2. d <= n - y BY <2>1, <1>2
  <2> QED BY <2>2, <1>3
<1> QED BY <1>4

\* SQL max(): an element or NULL, and above every element.
LEMMA MaxOrNoneIsMax ==
    ASSUME NEW S \in SUBSET Slots
    PROVE  /\ MaxOrNone(S) \in S \cup {None}
           /\ \A s \in S : s <= MaxOrNone(S)
           /\ MaxOrNone(S) >= None
<1> DEFINE T == S \cup {None}
<1>1. T \in SUBSET (-1..MaxSlot) /\ T # {}
  BY SlotAssumption DEF None, Slots
<1>2. \E x \in T : \A y \in T : x >= y
  BY <1>1, HighestExists, SlotAssumption
<1>3. Max(T) \in T /\ \A y \in T : Max(T) >= y
  BY <1>2 DEF Max
<1>4. MaxOrNone(S) = Max(T)
  BY DEF MaxOrNone
<1>5. \A y \in T : y \in Int
  BY <1>1
<1> HIDE DEF T
<1>6. ASSUME NEW s \in T PROVE s <= MaxOrNone(S)
  BY <1>3, <1>4, <1>5
<1> QED BY <1>3, <1>4, <1>5, <1>6 DEF T

\* SQL min() over a non-empty set of slots.
LEMMA MinIsMin ==
    ASSUME NEW S \in SUBSET DbSlots, S # {}
    PROVE  /\ Min(S) \in S
           /\ \A s \in S : Min(S) <= s
<1>1. S \in SUBSET Nat
  BY SlotAssumption DEF DbSlots
<1>2. \E x \in S : \A y \in S : x <= y
  BY <1>1, LowestExists
<1> QED BY <1>2 DEF Min

-----------------------------------------------------------------------------
\* The seed and every set the chain walk can reach are slots of the table.
LEMMA SeedType ==
    ASSUME NEW slots \in Tables, NEW watermark \in DbSlotOrNone
    PROVE  /\ Seed(slots, watermark) \in DbSlotOrNone
           /\ Seed(slots, watermark) # None =>
                 Seed(slots, watermark) \in FinalizedSlots(slots) \cup {watermark}
           /\ watermark # None => Seed(slots, watermark) = watermark
           /\ FinalizedSlots(slots) # {} => Seed(slots, watermark) # None
<1>1. FinalizedSlots(slots) \subseteq DbSlots
  BY DEF FinalizedSlots
<1>2. FinalizedSlots(slots) # {} => Min(FinalizedSlots(slots)) \in FinalizedSlots(slots)
  BY <1>1, MinIsMin
<1>3. None \notin DbSlots
  BY SlotAssumption DEF None, DbSlots
<1> QED BY <1>1, <1>2, <1>3 DEF Seed, DbSlotOrNone

(***************************************************************************)
(* The chain holds its seed, is made of finalized slots besides it, and is  *)
(* inside every set that holds the seed and is closed under the recursive   *)
(* term: what an induction over the chain needs.                            *)
(***************************************************************************)
LEMMA ChainMinimal ==
    ASSUME NEW slots \in Tables, NEW seed \in DbSlots
    PROVE  /\ seed \in Chain(slots, seed)
           /\ Chain(slots, seed) \subseteq FinalizedSlots(slots) \cup {seed}
           /\ \A C \in SUBSET (FinalizedSlots(slots) \cup {seed}) :
                 (seed \in C /\ ChainClosed(slots, C)) => Chain(slots, seed) \subseteq C
<1>1. seed # None
  BY SlotAssumption DEF None, DbSlots
<1>2. Chain(slots, seed) =
        {s \in FinalizedSlots(slots) \cup {seed} :
            \A C \in SUBSET (FinalizedSlots(slots) \cup {seed}) :
                (seed \in C /\ ChainClosed(slots, C)) => s \in C}
  BY <1>1 DEF Chain
<1> QED BY <1>2

\* The chain is itself closed: no finalized child of a member is left out.
LEMMA ChainIsClosed ==
    ASSUME NEW slots \in Tables, NEW seed \in DbSlots
    PROVE  ChainClosed(slots, Chain(slots, seed))
<1> DEFINE K == FinalizedSlots(slots) \cup {seed}
<1>1. seed # None
  BY SlotAssumption DEF None, DbSlots
<1>2. Chain(slots, seed) =
        {s \in K : \A C \in SUBSET K : (seed \in C /\ ChainClosed(slots, C)) => s \in C}
  BY <1>1 DEF Chain
<1>3. SUFFICES ASSUME NEW c \in Chain(slots, seed), NEW s \in FinalizedSlots(slots),
                      slots[s].parent = c
               PROVE  s \in Chain(slots, seed)
  BY DEF ChainClosed
<1>4. s \in K
  OBVIOUS
<1>5. ASSUME NEW C \in SUBSET K, seed \in C, ChainClosed(slots, C)
      PROVE  s \in C
  <2>1. c \in C
    BY <1>2, <1>5
  <2> QED BY <2>1, <1>3, <1>5 DEF ChainClosed
<1> QED BY <1>2, <1>4, <1>5

(***************************************************************************)
(* The watermark of a table with finalized slots is one of them, not below  *)
(* the stored watermark nor the slot the walk started at, and not above the *)
(* finalized head.                                                          *)
(***************************************************************************)
LEMMA WatermarkBounds ==
    ASSUME NEW slots \in Tables, NEW watermark \in DbSlotOrNone,
           watermark # None => watermark \in FinalizedSlots(slots),
           FinalizedSlots(slots) # {}
    PROVE  /\ Seed(slots, watermark) \in FinalizedSlots(slots)
           /\ Watermark(slots, watermark) \in Chain(slots, Seed(slots, watermark))
           /\ Watermark(slots, watermark) \in FinalizedSlots(slots)
           /\ Watermark(slots, watermark) >= watermark
           /\ Seed(slots, watermark) <= Watermark(slots, watermark)
           /\ FinalizedHead(slots) \in FinalizedSlots(slots)
           /\ Watermark(slots, watermark) <= FinalizedHead(slots)
<1> DEFINE seed == Seed(slots, watermark)
           fin == FinalizedSlots(slots)
           chain == Chain(slots, seed)
<1>1. fin \subseteq DbSlots /\ DbSlots \subseteq Slots /\ DbSlots \subseteq Nat
  BY SlotAssumption DEF FinalizedSlots, DbSlots, Slots
<1>2. seed \in fin
  BY SeedType
<1>3. seed \in chain /\ chain \subseteq fin
  BY <1>1, <1>2, ChainMinimal, Zenon
<1>4. None \notin DbSlots
  BY SlotAssumption DEF None, DbSlots
<1>5. Watermark(slots, watermark) \in chain \cup {None}
      /\ \A s \in chain : s <= Watermark(slots, watermark)
  <2>1. chain \in SUBSET Slots
    BY <1>1, <1>3
  <2> HIDE DEF chain
  <2>2. MaxOrNone(chain) \in chain \cup {None} /\ \A s \in chain : s <= MaxOrNone(chain)
    BY <2>1, MaxOrNoneIsMax
  <2> QED BY <2>2 DEF chain, Watermark
<1>6. FinalizedHead(slots) \in fin \cup {None} /\ \A s \in fin : s <= FinalizedHead(slots)
  <2>1. fin \in SUBSET Slots
    BY <1>1
  <2> HIDE DEF fin
  <2>2. MaxOrNone(fin) \in fin \cup {None} /\ \A s \in fin : s <= MaxOrNone(fin)
    BY <2>1, MaxOrNoneIsMax
  <2> QED BY <2>2 DEF fin, FinalizedHead
<1>7. seed >= watermark
  <2>1. CASE watermark = None
    <3>1. seed \in Nat BY <1>1, <1>2
    <3> HIDE DEF seed
    <3> QED BY <3>1, <2>1 DEF None
  <2>2. CASE watermark # None
    <3>1. seed = watermark BY <2>2, SeedType
    <3>2. seed \in Nat BY <1>1, <1>2
    <3> QED BY <3>1, <3>2
  <2> QED BY <2>1, <2>2
<1> HIDE DEF seed, fin, chain
<1>8. seed <= Watermark(slots, watermark) /\ seed \in Nat
  BY <1>1, <1>2, <1>3, <1>5
<1>9. Watermark(slots, watermark) # None
  BY <1>8 DEF None
<1>10. Watermark(slots, watermark) \in chain /\ Watermark(slots, watermark) \in fin
  BY <1>3, <1>5, <1>9
<1>11. Watermark(slots, watermark) <= FinalizedHead(slots)
  BY <1>6, <1>10
<1>12. FinalizedHead(slots) \in fin
  <2>1. Watermark(slots, watermark) \in Nat BY <1>1, <1>10
  <2>2. FinalizedHead(slots) # None BY <2>1, <1>11 DEF None
  <2> QED BY <2>2, <1>6
<1>13. watermark \in Int
  BY SlotAssumption DEF DbSlotOrNone, DbSlots, None
<1>14. Watermark(slots, watermark) >= watermark
  <2>1. Watermark(slots, watermark) \in Nat BY <1>1, <1>10
  <2> QED BY <2>1, <1>7, <1>8, <1>13
<1> QED BY <1>2, <1>8, <1>10, <1>11, <1>12, <1>14 DEF seed, fin, chain

\* Started from where it ended, the walk goes nowhere: what is reachable from
\* the watermark was reachable from the seed.
LEMMA WatermarkIsFixed ==
    ASSUME NEW slots \in Tables, NEW watermark \in DbSlotOrNone,
           watermark # None => watermark \in FinalizedSlots(slots),
           FinalizedSlots(slots) # {}
    PROVE  Watermark(slots, Watermark(slots, watermark)) = Watermark(slots, watermark)
<1> DEFINE seed == Seed(slots, watermark)
           fin == FinalizedSlots(slots)
           w == Watermark(slots, watermark)
           chain == Chain(slots, seed)
           rest == Chain(slots, w)
<1>1. fin \subseteq DbSlots /\ DbSlots \subseteq Slots /\ DbSlots \subseteq Nat
  BY SlotAssumption DEF FinalizedSlots, DbSlots, Slots
<1>2. seed \in fin /\ w \in chain /\ w \in fin
  BY WatermarkBounds
<1>3. chain \subseteq fin /\ w \in rest
      /\ \A C \in SUBSET (fin \cup {w}) : (w \in C /\ ChainClosed(slots, C)) => rest \subseteq C
  <2>1. seed \in DbSlots /\ w \in DbSlots
    BY <1>1, <1>2
  <2> HIDE DEF seed, w
  <2> QED BY <1>2, <2>1, ChainMinimal
<1>4. rest \subseteq chain
  <2>1. ChainClosed(slots, chain)
    BY <1>1, <1>2, ChainIsClosed
  <2> HIDE DEF seed, w, fin, chain, rest
  <2> QED BY <1>2, <1>3, <2>1
<1>5. Watermark(slots, w) = MaxOrNone(rest)
  <2>1. w \in DbSlotOrNone /\ w # None
    <3>1. w \in DbSlots
      BY <1>1, <1>2
    <3> HIDE DEF w
    <3> QED BY <3>1, SlotAssumption DEF DbSlotOrNone, DbSlots, None
  <2> HIDE DEF w
  <2>2. Seed(slots, w) = w
    BY <2>1, SeedType
  <2> QED BY <2>2 DEF Watermark
<1>6. w = MaxOrNone(chain)
  BY DEF Watermark
<1> HIDE DEF seed, w, fin, chain, rest
<1>7. chain \in SUBSET Slots /\ rest \in SUBSET Slots
  BY <1>1, <1>3, <1>4
<1>8. \A s \in rest : s <= w
  BY <1>4, <1>6, <1>7, MaxOrNoneIsMax
<1>9. MaxOrNone(rest) \in rest \cup {None} /\ w <= MaxOrNone(rest)
  BY <1>3, <1>7, MaxOrNoneIsMax
<1>10. w \in Nat /\ rest \subseteq Nat
  BY <1>1, <1>2, <1>3, <1>4
<1>11. MaxOrNone(rest) # None
  BY <1>9, <1>10 DEF None
<1>12. MaxOrNone(rest) = w
  <2> DEFINE m == MaxOrNone(rest)
  <2>1. m \in rest /\ w <= m
    BY <1>9, <1>11
  <2> HIDE DEF m
  <2>2. m <= w /\ m \in Nat /\ w \in Nat
    BY <1>8, <1>10, <2>1
  <2>3. m = w
    BY <2>1, <2>2
  <2> QED BY <2>3 DEF m
<1> QED BY <1>5, <1>12 DEF w

(***************************************************************************)
(* No rooted slot is missing along a chain: if links never jump over a      *)
(* rooted slot and there is no hole up to the seed, there is none up to any *)
(* slot the walk reaches.                                                   *)
(***************************************************************************)
LEMMA ChainHasNoHole ==
    ASSUME NEW R \in SUBSET Slots, NEW slots \in Tables,
           NEW a \in DbSlots, NEW seed \in FinalizedSlots(slots),
           \A r \in R : (a <= r /\ r <= seed) => r \in FinalizedSlots(slots),
           \A s \in FinalizedSlots(slots) :
               slots[s].parent # None =>
                   /\ slots[s].parent < s
                   /\ \A r \in R : ~(slots[s].parent < r /\ r < s)
    PROVE  \A c \in Chain(slots, seed), r \in R :
               (a <= r /\ r <= c) => r \in FinalizedSlots(slots)
<1> DEFINE fin == FinalizedSlots(slots)
           Good == {c \in fin : \A r \in R : (a <= r /\ r <= c) => r \in fin}
<1>1. fin \subseteq DbSlots /\ DbSlots \subseteq Nat /\ R \subseteq Nat
  BY SlotAssumption DEF FinalizedSlots, DbSlots, Slots
<1>2. seed \in Good
  OBVIOUS
<1>3. ChainClosed(slots, Good)
  <2>1. SUFFICES ASSUME NEW c \in Good, NEW s \in fin, slots[s].parent = c,
                        NEW r \in R, a <= r, r <= s
                 PROVE  r \in fin
    BY DEF ChainClosed
  <2>2. c # None /\ c \in Nat /\ s \in Nat /\ r \in Nat
    <3>1. c \in fin OBVIOUS
    <3> HIDE DEF Good, fin
    <3>2. c \in Nat /\ s \in Nat /\ r \in Nat BY <3>1, <1>1
    <3> QED BY <3>2 DEF None
  <2>3. ~(c < r /\ r < s)
    BY <2>1, <2>2
  <2>4. CASE r = s
    BY <2>4
  <2>5. CASE r # s
    <3>1. r <= c BY <2>1, <2>2, <2>3, <2>5
    <3> QED BY <3>1, <2>1
  <2> QED BY <2>4, <2>5
<1>4. Chain(slots, seed) \subseteq Good
  <2>1. Good \in SUBSET (fin \cup {seed}) OBVIOUS
  <2>2. seed \in DbSlots BY <1>1
  <2> HIDE DEF Good
  <2> QED BY <1>2, <1>3, <2>1, <2>2, ChainMinimal
<1> QED BY <1>4

-----------------------------------------------------------------------------
(***************************************************************************)
(* What record_slot_states does to a table: flags only rise, a flag that    *)
(* rose and a parent that changed come from an update of that slot, and a   *)
(* parent is never forgotten.                                               *)
(***************************************************************************)
LEMMA RecordEffect ==
    ASSUME NEW slots \in Tables, NEW n \in Nat, NEW updates,
           DOMAIN updates \subseteq 1..n,
           \A i \in DOMAIN updates : updates[i] \in SlotUpdate,
           Recordable(updates)
    PROVE  /\ Record(slots, updates) \in Tables
           /\ FinalizedSlots(slots) \subseteq FinalizedSlots(Record(slots, updates))
           /\ \A s \in FinalizedSlots(Record(slots, updates)) :
                 \/ s \in FinalizedSlots(slots)
                 \/ \E i \in DOMAIN updates : updates[i].slot = s /\ updates[i].finalized
           /\ \A s \in DbSlots :
                 \/ Record(slots, updates)[s].parent = slots[s].parent
                 \/ \E i \in DOMAIN updates :
                       /\ updates[i].slot = s
                       /\ Record(slots, updates)[s].parent = updates[i].parent
<1> DEFINE T == Record(slots, updates)
<1>1. ASSUME NEW s \in DbSlots
      PROVE  \/ MergedParent(updates, s) = None
             \/ \E i \in DOMAIN updates :
                   updates[i].slot = s /\ MergedParent(updates, s) = updates[i].parent
  <2> DEFINE G == ParentGivers(updates, s)
  <2>1. CASE G = {}
    BY <2>1 DEF MergedParent
  <2>2. CASE G # {}
    <3>1. G \in SUBSET (-1..n)
      BY DEF ParentGivers
    <3>2. \E x \in G : \A y \in G : x >= y
      BY <2>2, <3>1, HighestExists
    <3>3. Max(G) \in G
      BY <3>2 DEF Max
    <3>4. MergedParent(updates, s) = updates[Max(G)].parent
      BY <2>2 DEF MergedParent
    <3> QED BY <3>3, <3>4 DEF ParentGivers
  <2> QED BY <2>1, <2>2
<1>2. ASSUME NEW s \in DbSlots
      PROVE  MergedParent(updates, s) \in DbSlotOrNone
  BY <1>1, <1>2 DEF Recordable, DbSlotOrNone
<1>3. ASSUME NEW s \in DbSlots PROVE slots[s] \in SlotRow
  BY DEF Tables
<1>4. T \in Tables
  <2>1. ASSUME NEW s \in DbSlots PROVE T[s] \in SlotRow
    <3>1. T[s].parent \in DbSlotOrNone
      BY <1>2, <1>3 DEF Record, Coalesce, SlotRow
    <3>2. T[s].finalized \in BOOLEAN /\ T[s].dead \in BOOLEAN
      BY DEF Record
    <3>3. T[s] = [parent |-> T[s].parent, finalized |-> T[s].finalized, dead |-> T[s].dead]
      BY DEF Record
    <3> QED BY <3>1, <3>2, <3>3 DEF SlotRow
  <2>2. T = [s \in DbSlots |-> T[s]]
    BY DEF Record
  <2> QED BY <2>1, <2>2 DEF Tables
<1>5. FinalizedSlots(slots) \subseteq FinalizedSlots(T)
  BY DEF FinalizedSlots, Record
<1>6. \A s \in FinalizedSlots(T) :
          \/ s \in FinalizedSlots(slots)
          \/ \E i \in DOMAIN updates : updates[i].slot = s /\ updates[i].finalized
  BY DEF FinalizedSlots, Record
<1>7. ASSUME NEW s \in DbSlots
      PROVE  \/ T[s].parent = slots[s].parent
             \/ \E i \in DOMAIN updates :
                   updates[i].slot = s /\ T[s].parent = updates[i].parent
  <2>1. T[s].parent = Coalesce(MergedParent(updates, s), slots[s].parent)
    BY DEF Record
  <2> HIDE DEF T
  <2> QED BY <2>1, <1>1 DEF Coalesce
<1> HIDE DEF T
<1>8. QED BY <1>4, <1>5, <1>6, <1>7 DEF T

-----------------------------------------------------------------------------
(***************************************************************************)
(* The in-memory walk.  Where a slot has at most one finalized child, and   *)
(* that one above it, the walk ends at the highest slot of the chain.       *)
(***************************************************************************)
SingleFile(slots) ==
    \A s \in DbSlots : \A c \in Children(slots, s) :
        c > s /\ Children(slots, s) = {c}

\* The chain from a slot is the slot and the chain from its only child.
LEMMA ChainUnfolds ==
    ASSUME NEW slots \in Tables, NEW s \in DbSlots, SingleFile(slots)
    PROVE  /\ Children(slots, s) = {} => Chain(slots, s) = {s}
           /\ \A c \in Children(slots, s) : Chain(slots, s) = {s} \cup Chain(slots, c)
<1> DEFINE fin == FinalizedSlots(slots)
<1>1. ASSUME Children(slots, s) = {} PROVE Chain(slots, s) = {s}
  <2>1. ChainClosed(slots, {s})
    BY <1>1 DEF ChainClosed, Children
  <2> QED BY <2>1, ChainMinimal
<1>2. ASSUME NEW c \in Children(slots, s) PROVE Chain(slots, s) = {s} \cup Chain(slots, c)
  <2>1. c \in fin /\ c \in DbSlots /\ slots[c].parent = s /\ Children(slots, s) = {c}
    BY DEF Children, FinalizedSlots, SingleFile
  <2>2. c \in Chain(slots, s) /\ s \in Chain(slots, s)
    BY <2>1, ChainMinimal, ChainIsClosed DEF ChainClosed
  <2>3. Chain(slots, s) \subseteq {s} \cup Chain(slots, c)
    <3> DEFINE C == {s} \cup Chain(slots, c)
    <3>1. c \in Chain(slots, c) /\ Chain(slots, c) \subseteq fin \cup {c}
      BY <2>1, ChainMinimal
    <3>2. C \in SUBSET (fin \cup {s})
      BY <2>1, <3>1
    <3>3. ChainClosed(slots, C)
      <4> SUFFICES ASSUME NEW a \in C, NEW x \in fin, slots[x].parent = a PROVE x \in C
        BY DEF ChainClosed
      <4>1. CASE a = s
        <5>1. x = c
          BY <2>1, <4>1 DEF Children
        <5> QED BY <3>1, <5>1
      <4>2. CASE a \in Chain(slots, c)
        BY <2>1, <4>2, ChainIsClosed DEF ChainClosed
      <4> QED BY <4>1, <4>2
    <3> HIDE DEF C
    <3>4. s \in C
      BY DEF C
    <3>5. Chain(slots, s) \subseteq C
      BY <3>2, <3>3, <3>4, ChainMinimal
    <3> QED BY <3>5 DEF C
  <2>4. Chain(slots, c) \subseteq Chain(slots, s)
    <3> DEFINE C == Chain(slots, s) \cap fin
    <3>1. ChainClosed(slots, C)
      BY ChainIsClosed DEF ChainClosed
    <3>2. c \in C /\ C \in SUBSET (fin \cup {c})
      BY <2>1, <2>2
    <3> HIDE DEF C
    <3>3. Chain(slots, c) \subseteq C
      BY <2>1, <3>1, <3>2, ChainMinimal
    <3> QED BY <3>3 DEF C
  <2> QED BY <2>2, <2>3, <2>4
<1> QED BY <1>1, <1>2

\* ... so its highest slot is the slot itself or that of the child's chain.
LEMMA ChainTop ==
    ASSUME NEW slots \in Tables, NEW s \in DbSlots, SingleFile(slots)
    PROVE  MaxOrNone(Chain(slots, s)) =
             IF Children(slots, s) = {} \/ Min(Children(slots, s)) <= s THEN s
             ELSE MaxOrNone(Chain(slots, Min(Children(slots, s))))
<1>0. DbSlots \subseteq Slots /\ DbSlots \subseteq Nat /\ None = -1
      /\ FinalizedSlots(slots) \subseteq DbSlots
  BY SlotAssumption DEF FinalizedSlots, DbSlots, Slots, None
<1>1. CASE Children(slots, s) = {}
  <2>1. Chain(slots, s) = {s} /\ {s} \in SUBSET Slots
    BY <1>0, <1>1, ChainUnfolds
  <2>2. MaxOrNone({s}) \in {s, None} /\ s <= MaxOrNone({s})
    BY <2>1, MaxOrNoneIsMax
  <2>3. MaxOrNone({s}) = s
    BY <1>0, <2>2
  <2> QED BY <1>1, <2>1, <2>3
<1>2. CASE Children(slots, s) # {}
  <2>1. PICK c \in Children(slots, s) : TRUE
    BY <1>2
  <2>2. c \in DbSlots /\ c > s /\ Children(slots, s) = {c}
    BY DEF Children, FinalizedSlots, SingleFile
  <2>3. Min(Children(slots, s)) = c
    <3>1. {c} \in SUBSET DbSlots /\ {c} # {}
      BY <2>2
    <3>2. Min({c}) \in {c}
      BY <3>1, MinIsMin
    <3> QED BY <2>2, <3>2
  <2> DEFINE K == Chain(slots, c)
  <2>4. /\ Chain(slots, s) = {s} \cup K
        /\ c \in K /\ K \subseteq DbSlots
    <3>1. K \subseteq FinalizedSlots(slots) \cup {c} /\ c \in K
      BY <2>2, ChainMinimal
    <3>2. Chain(slots, s) = {s} \cup K
      BY ChainUnfolds
    <3> QED BY <1>0, <2>2, <3>1, <3>2
  <2> HIDE DEF K
  <2>5. K \in SUBSET Slots /\ {s} \cup K \in SUBSET Slots
    BY <1>0, <2>4
  <2>6. MaxOrNone(K) \in K \cup {None} /\ \A x \in K : x <= MaxOrNone(K)
    BY <2>5, MaxOrNoneIsMax
  <2>7. /\ MaxOrNone({s} \cup K) \in {s} \cup K \cup {None}
        /\ \A x \in {s} \cup K : x <= MaxOrNone({s} \cup K)
    BY <2>5, MaxOrNoneIsMax
  <2>8. s \in Nat /\ c \in Nat /\ K \subseteq Nat
    BY <1>0, <2>2, <2>4
  <2>9. MaxOrNone(K) \in K
    <3>1. c <= MaxOrNone(K)
      BY <2>4, <2>6
    <3> QED BY <1>0, <2>6, <2>8, <3>1
  <2>10. MaxOrNone({s} \cup K) \in K
    <3>1. c <= MaxOrNone({s} \cup K)
      BY <2>4, <2>7
    <3> QED BY <1>0, <2>2, <2>7, <2>8, <3>1
  <2>11. MaxOrNone({s} \cup K) = MaxOrNone(K)
    <3> DEFINE m == MaxOrNone({s} \cup K)
               k == MaxOrNone(K)
    <3>1. m \in K /\ k \in K /\ \A x \in K : x <= m /\ x <= k
      BY <2>6, <2>7, <2>9, <2>10
    <3> HIDE DEF m, k
    <3>2. m <= k /\ k <= m /\ m \in Nat /\ k \in Nat
      BY <2>8, <3>1
    <3>3. m = k
      BY <3>2
    <3> QED BY <3>3 DEF m, k
  <2>12. ~(Min(Children(slots, s)) <= s)
    BY <2>2, <2>3, <2>8
  <2> QED BY <1>2, <2>3, <2>4, <2>11, <2>12 DEF K
<1> QED BY <1>1, <1>2

\* What the walk finds is the top of the chain: the recursion has one solution,
\* since every step goes up and there is a highest slot.
LEMMA WalkReachesTop ==
    ASSUME NEW slots \in Tables, SingleFile(slots)
    PROVE  \A s \in DbSlots : Walk(slots)[s] = MaxOrNone(Chain(slots, s))
<1> DEFINE Step(f) == [s \in DbSlots |->
               IF Children(slots, s) = {} \/ Min(Children(slots, s)) <= s THEN s
               ELSE f[Min(Children(slots, s))]]
           W == [s \in DbSlots |-> MaxOrNone(Chain(slots, s))]
<1>0. \A s \in DbSlots : Children(slots, s) # {} =>
         Min(Children(slots, s)) \in DbSlots
  <2> SUFFICES ASSUME NEW s \in DbSlots, Children(slots, s) # {}
               PROVE  Min(Children(slots, s)) \in DbSlots
    OBVIOUS
  <2>1. Children(slots, s) \in SUBSET DbSlots
    BY DEF Children, FinalizedSlots
  <2> QED BY <2>1, MinIsMin
<1>1. W = Step(W)
  <2>1. ASSUME NEW s \in DbSlots PROVE W[s] = Step(W)[s]
    BY <1>0, ChainTop
  <2> QED BY <2>1
<1>2. Walk(slots) = Step(Walk(slots))
  <2>1. Walk(slots) = CHOOSE f : f = Step(f)
    BY DEF Walk
  <2> HIDE DEF W, Step
  <2> QED BY <1>1, <2>1
<1>3. ASSUME NEW f, f = Step(f), NEW s \in DbSlots, f[s] # W[s] PROVE FALSE
  <2> DEFINE D == {t \in DbSlots : f[t] # W[t]}
  <2>1. D \in SUBSET (-1..MaxDbSlot) /\ D # {} /\ MaxDbSlot \in Nat
    BY <1>3, SlotAssumption DEF DbSlots
  <2>2. PICK m \in D : \A t \in D : m >= t
    BY <2>1, HighestExists
  <2>3. m \in DbSlots /\ m \in Nat /\ f[m] # W[m]
    BY SlotAssumption DEF DbSlots
  <2>4. f[m] = Step(f)[m] /\ W[m] = Step(W)[m]
    BY <1>1, <1>3
  <2>5. CASE Children(slots, m) = {} \/ Min(Children(slots, m)) <= m
    <3>1. Step(f)[m] = m /\ Step(W)[m] = m
      BY <2>3, <2>5
    <3> QED BY <2>3, <2>4, <3>1
  <2>6. CASE ~(Children(slots, m) = {} \/ Min(Children(slots, m)) <= m)
    <3> DEFINE c == Min(Children(slots, m))
    <3>1. c \in DbSlots /\ ~(c <= m)
      BY <1>0, <2>3, <2>6
    <3>2. Step(f)[m] = f[c] /\ Step(W)[m] = W[c]
      BY <2>3, <2>6
    <3> HIDE DEF c, W, Step
    <3>3. c \in Nat
      BY <3>1, SlotAssumption DEF DbSlots
    <3>4. c \notin D
      BY <2>2, <2>3, <3>1, <3>3
    <3>5. f[c] = W[c]
      BY <3>1, <3>4
    <3> QED BY <2>3, <2>4, <3>2, <3>5
  <2> QED BY <2>5, <2>6
<1> HIDE DEF Step
<1>4. ASSUME NEW s \in DbSlots PROVE Walk(slots)[s] = W[s]
  BY <1>2, <1>3
<1> QED BY <1>4

-----------------------------------------------------------------------------
(***************************************************************************)
(* The operators on a batch: what they return for every sequence of events. *)
(***************************************************************************)
LEMMA SlotFacts ==
    /\ None = -1 /\ None \notin DbSlots /\ None \notin Slots
    /\ DbSlots \subseteq Slots /\ Slots \subseteq Nat
    /\ DbSlotOrNone \subseteq SlotOrNone /\ SlotOrNone \subseteq Int
    /\ \A s \in Slots, t \in DbSlots : s <= t => s \in DbSlots
    /\ None \in DbSlotOrNone /\ None \in SlotOrNone
    /\ \A s \in SlotOrNone : s >= None
BY SlotAssumption DEF None, Slots, DbSlots, DbSlotOrNone, SlotOrNone

LEMMA EventFacts ==
    ASSUME NEW e \in Event
    PROVE  /\ e.id \in EventId /\ e.parent \in SlotOrNone
           /\ SlotOf[e.id] \in Slots
           /\ StatusOf[e.id] \in {"finalized", "dead", "other"}
           /\ UpdateOf(e) \in SlotUpdate
BY PipelineAssumption DEF UpdateOf, SlotUpdate

LEMMA BatchFacts ==
    ASSUME NEW b \in Seq(Event)
    PROVE  /\ \A i \in DOMAIN b : b[i] \in Event
           /\ Len(b) \in Nat /\ DOMAIN b = 1..Len(b)
           /\ Ids(b) \subseteq EventId
           /\ StorableIds(b) \subseteq Ids(b)
           /\ Cardinality(StorableAt(b)) \in Nat
           /\ Cardinality(StorableAt(b)) <= Len(b)
           /\ LastSlot(b) \in SlotOrNone
           /\ \A i \in DOMAIN b : SlotOf[b[i].id] <= LastSlot(b)
           /\ LastSlot(b) # None => \E i \in DOMAIN b : SlotOf[b[i].id] = LastSlot(b)
           /\ DOMAIN SlotStates(b) \subseteq 1..Len(b)
           /\ \A i \in DOMAIN SlotStates(b) :
                 SlotStates(b)[i] \in SlotUpdate /\ SlotStates(b)[i] = UpdateOf(b[i])
<1>1. Len(b) \in Nat /\ DOMAIN b = 1..Len(b) /\ \A i \in DOMAIN b : b[i] \in Event
  OBVIOUS
<1>2. Ids(b) \subseteq EventId /\ StorableIds(b) \subseteq Ids(b)
  BY <1>1, EventFacts DEF Ids, StorableIds, StorableAt
<1>3. Cardinality(StorableAt(b)) \in Nat /\ Cardinality(StorableAt(b)) <= Len(b)
  <2>1. IsFiniteSet(1..Len(b)) /\ Cardinality(1..Len(b)) = Len(b)
    BY <1>1, FS_Interval
  <2>2. StorableAt(b) \in SUBSET (1..Len(b))
    BY <1>1 DEF StorableAt
  <2>3. IsFiniteSet(StorableAt(b)) /\ Cardinality(StorableAt(b)) <= Cardinality(1..Len(b))
    BY <2>1, <2>2, FS_Subset
  <2>4. Cardinality(StorableAt(b)) \in Nat
    BY <2>3, FS_CardinalityType
  <2> QED BY <2>1, <2>3, <2>4
<1>4. /\ LastSlot(b) \in SlotOrNone
      /\ \A i \in DOMAIN b : SlotOf[b[i].id] <= LastSlot(b)
      /\ LastSlot(b) # None => \E i \in DOMAIN b : SlotOf[b[i].id] = LastSlot(b)
  <2> DEFINE S == {SlotOf[b[i].id] : i \in DOMAIN b}
  <2>1. S \in SUBSET Slots
    BY <1>1, EventFacts
  <2>2. MaxOrNone(S) \in S \cup {None} /\ \A s \in S : s <= MaxOrNone(S)
    BY <2>1, MaxOrNoneIsMax
  <2>3. LastSlot(b) = MaxOrNone(S)
    BY DEF LastSlot
  <2> QED BY <2>1, <2>2, <2>3 DEF SlotOrNone
<1>5. /\ DOMAIN SlotStates(b) \subseteq 1..Len(b)
      /\ \A i \in DOMAIN SlotStates(b) :
            SlotStates(b)[i] \in SlotUpdate /\ SlotStates(b)[i] = UpdateOf(b[i])
  BY <1>1, EventFacts DEF SlotStates, SlotEventsAt
<1> QED BY <1>1, <1>2, <1>3, <1>4, <1>5

LEMMA GreatestFacts ==
    ASSUME NEW a \in Int, NEW b \in Int
    PROVE  /\ Greatest(a, b) \in {a, b} /\ Greatest(a, b) >= a /\ Greatest(a, b) >= b
BY DEF Greatest

LEMMA FrontierTypes ==
    ASSUME NEW t \in Tables, NEW c \in DbSlotOrNone
    PROVE  /\ Watermark(t, c) \in DbSlotOrNone
           /\ FinalizedHead(t) \in DbSlotOrNone
           /\ Seed(t, c) \in DbSlotOrNone
           /\ FinalizedSlots(t) \subseteq DbSlots
<1>1. FinalizedSlots(t) \subseteq DbSlots
  BY DEF FinalizedSlots
<1>2. Seed(t, c) \in DbSlotOrNone
  BY SeedType
<1>3. Chain(t, Seed(t, c)) \subseteq DbSlots
  <2>1. CASE Seed(t, c) = None
    BY <2>1 DEF Chain
  <2>2. CASE Seed(t, c) # None
    <3>1. Seed(t, c) \in DbSlots
      BY <1>2, <2>2 DEF DbSlotOrNone
    <3> QED BY <3>1, <1>1, ChainMinimal
  <2> QED BY <2>1, <2>2
<1>4. \A S \in SUBSET DbSlots : MaxOrNone(S) \in DbSlotOrNone
  <2>1. ASSUME NEW S \in SUBSET DbSlots PROVE MaxOrNone(S) \in DbSlotOrNone
    <3>1. S \in SUBSET Slots BY SlotFacts
    <3>2. MaxOrNone(S) \in S \cup {None} BY <3>1, MaxOrNoneIsMax
    <3> QED BY <3>2 DEF DbSlotOrNone
  <2> QED BY <2>1
<1> QED BY <1>1, <1>2, <1>3, <1>4 DEF Watermark, FinalizedHead

-----------------------------------------------------------------------------
(***************************************************************************)
(* Type correctness.                                                        *)
(***************************************************************************)
LEMMA ConstantFacts ==
    /\ BatchSize \in Nat \ {0} /\ ChannelCapacity \in Nat \ {0}
    /\ MaxEvents \in Nat /\ MaxRestarts \in Nat
    /\ UseSlotResume \in BOOLEAN /\ AdvanceFinalized \in BOOLEAN /\ RecordSlots \in BOOLEAN
BY PipelineAssumption

LEMMA InitialValues ==
    /\ \A r \in DbSlotOrNone : FirstSummary(r) \in Summaries
    /\ NothingSelected \in [watermark : DbSlotOrNone, head : DbSlotOrNone]
    /\ EmptyTable \in Tables
BY SlotFacts DEF FirstSummary, Summaries, NothingSelected, EmptyTable, Tables, SlotRow

\* A sequence of events stays one when an event is appended or taken.
LEMMA SeqFacts ==
    /\ <<>> \in Seq(Event) /\ Len(<<>>) = 0
    /\ \A q \in Seq(Event) : Len(q) \in Nat
    /\ \A q \in Seq(Event), e \in Event :
          Append(q, e) \in Seq(Event) /\ Len(Append(q, e)) = Len(q) + 1
    /\ \A q \in Seq(Event) : q # <<>> =>
          /\ Head(q) \in Event
          /\ Tail(q) \in Seq(Event) /\ Len(Tail(q)) = Len(q) - 1
OBVIOUS

\* The updates of a summary that the code makes.
LEMMA SummaryUpdates ==
    ASSUME NEW s \in Summaries, NEW k \in Nat, NEW x \in SlotOrNone,
           NEW c \in DbSlotOrNone, NEW h \in DbSlotOrNone
    PROVE  /\ [s EXCEPT !.seen = @ + 1] \in Summaries
           /\ [s EXCEPT !.seen = @ + 1, !.skipped = @ + 1] \in Summaries
           /\ [s EXCEPT !.skipped = @ + k] \in Summaries
           /\ [s EXCEPT !.persisted = x] \in Summaries
           /\ [s EXCEPT !.contiguous = c, !.head = h] \in Summaries
           /\ [s EXCEPT !.batches = @ + 1, !.attempted = @ + k] \in Summaries
<1>1. s.seen \in Nat /\ s.skipped \in Nat /\ s.attempted \in Nat /\ s.batches \in Nat
  BY DEF Summaries
<1>2. s.seen + 1 \in Nat /\ s.skipped + 1 \in Nat /\ s.skipped + k \in Nat
      /\ s.batches + 1 \in Nat /\ s.attempted + k \in Nat
  BY <1>1
<1>3. [s EXCEPT !.seen = @ + 1] \in Summaries
  BY <1>2 DEF Summaries
<1>4. [s EXCEPT !.seen = @ + 1, !.skipped = @ + 1] \in Summaries
  BY <1>2 DEF Summaries
<1>5. [s EXCEPT !.skipped = @ + k] \in Summaries
  BY <1>2 DEF Summaries
<1>6. [s EXCEPT !.persisted = x] \in Summaries
  BY DEF Summaries
<1>7. [s EXCEPT !.contiguous = c, !.head = h] \in Summaries
  BY DEF Summaries
<1>8. [s EXCEPT !.batches = @ + 1, !.attempted = @ + k] \in Summaries
  BY <1>2 DEF Summaries
<1> QED BY <1>3, <1>4, <1>5, <1>6, <1>7, <1>8

\* A process that stops leaves values of the right kind behind.
LEMMA DropTypes ==
    ASSUME TypeOK, DropProcess
    PROVE  /\ producer' \in {"running", "ok", "error", "panicked", "aborted"}
           /\ channel' \in Seq(Event) /\ Len(channel') <= ChannelCapacity
           /\ pending' \in Seq(Event) /\ Len(pending') < BatchSize
           /\ batch' \in Seq(Event) /\ Len(batch') <= BatchSize
           /\ draining' \in BOOLEAN /\ resumeAfter' \in DbSlotOrNone /\ written' \in Nat
           /\ selected' \in [watermark : DbSlotOrNone, head : DbSlotOrNone]
           /\ summary' \in Summaries /\ published' \in Summaries
           /\ restarts' \in 0..MaxRestarts /\ accepted' \subseteq EventId
<1>1. FirstSummary(None) \in Summaries
  BY InitialValues, SlotFacts
<1>2. /\ producer' = "aborted" /\ draining' = FALSE
      /\ channel' = <<>> /\ pending' = <<>> /\ batch' = <<>>
      /\ resumeAfter' = None /\ written' = 0 /\ selected' = NothingSelected
      /\ summary' = FirstSummary(None) /\ published' = FirstSummary(None)
      /\ restarts' = restarts /\ accepted' = {}
  BY DEF DropProcess
<1>3. restarts \in 0..MaxRestarts
  BY DEF TypeOK
<1>4. /\ Len(<<>>) <= ChannelCapacity /\ Len(<<>>) < BatchSize /\ Len(<<>>) <= BatchSize
  BY ConstantFacts, SeqFacts
<1> QED BY <1>1, <1>2, <1>3, <1>4, InitialValues, SeqFacts, SlotFacts

LEMMA TypeInit == Init => TypeOK
<1> SUFFICES ASSUME Init PROVE TypeOK
  OBVIOUS
<1>1. FirstSummary(None) \in Summaries
  BY InitialValues, SlotFacts
<1>2. Len(<<>>) <= ChannelCapacity /\ Len(<<>>) < BatchSize /\ Len(<<>>) <= BatchSize
      /\ 0 \in 0..MaxRestarts
  BY ConstantFacts, SeqFacts
<1> QED BY <1>1, <1>2, InitialValues, SeqFacts, SlotFacts DEF Init, TypeOK

LEMMA TypeStep == TypeOK /\ [Next]_vars => TypeOK'
<1> SUFFICES ASSUME TypeOK, [Next]_vars PROVE TypeOK'
  OBVIOUS
<1> USE ConstantFacts, SlotFacts, SeqFacts
<1>1. ASSUME NEW e \in Event, ProducerSend(e) PROVE TypeOK'
  BY <1>1, EventFacts DEF ProducerSend, TypeOK, dbVars
<1>2. ASSUME NEW how \in {"ok", "error", "panicked"}, ProducerExit(how) PROVE TypeOK'
  BY <1>2 DEF ProducerExit, TypeOK, dbVars
<1>3. CASE Receive
  <2>1. channel' \in Seq(Event) /\ Len(channel') <= ChannelCapacity
    BY <1>3 DEF Receive, HasEvent, TypeOK
  <2>2. pending' \in Seq(Event) /\ Len(pending') < BatchSize
        /\ batch' \in Seq(Event) /\ Len(batch') <= BatchSize
    <3> DEFINE filled == Append(pending, Head(channel))
    <3>1. filled \in Seq(Event) /\ Len(filled) = Len(pending) + 1
      BY <1>3 DEF Receive, HasEvent, TypeOK
    <3>2. Len(pending) \in Nat /\ Len(pending) < BatchSize
      BY DEF TypeOK
    <3>3. \/ pending' = pending /\ batch' = batch
          \/ pending' = filled /\ Len(filled) < BatchSize /\ batch' = batch
          \/ pending' = <<>> /\ batch' = filled
      BY <1>3, <3>1, PipelineAssumption DEF Receive, Full
    <3> HIDE DEF filled
    <3>4. Len(filled) <= BatchSize
      BY <3>1, <3>2
    <3>5. Len(<<>>) < BatchSize /\ <<>> \in Seq(Event)
      OBVIOUS
    <3>6. batch \in Seq(Event) /\ Len(batch) <= BatchSize /\ pending \in Seq(Event)
      BY DEF TypeOK
    <3> QED BY <3>1, <3>2, <3>3, <3>4, <3>5, <3>6
  <2>3. summary' \in Summaries
    <3>1. \/ summary' = [summary EXCEPT !.seen = @ + 1, !.skipped = @ + 1]
          \/ summary' = [summary EXCEPT !.seen = @ + 1]
      BY <1>3 DEF Receive
    <3>2. summary \in Summaries
      BY DEF TypeOK
    <3> QED BY <3>1, <3>2, SummaryUpdates
  <2>4. pc' \in {pc, "write"}
    BY <1>3 DEF Receive
  <2> QED BY <1>3, <2>1, <2>2, <2>3, <2>4 DEF Receive, TypeOK, dbVars
<1>4. CASE ChannelClosed
  <2>1. pending' \in Seq(Event) /\ Len(pending') < BatchSize
        /\ batch' \in Seq(Event) /\ Len(batch') <= BatchSize
    <3>1. Len(<<>>) < BatchSize /\ <<>> \in Seq(Event)
      OBVIOUS
    <3>2. \/ pending' = pending /\ batch' = batch
          \/ pending' = <<>> /\ batch' = pending
      BY <1>4 DEF ChannelClosed
    <3>3. /\ pending \in Seq(Event) /\ Len(pending) < BatchSize /\ Len(pending) \in Nat
          /\ batch \in Seq(Event) /\ Len(batch) <= BatchSize
      BY DEF TypeOK
    <3>4. Len(pending) <= BatchSize
      BY <3>3
    <3> QED BY <3>1, <3>2, <3>3, <3>4
  <2>2. pc' \in {"join", "write"} /\ draining' \in BOOLEAN /\ published' \in Summaries
    BY <1>4 DEF ChannelClosed, TypeOK
  <2> QED BY <1>4, <2>1, <2>2 DEF ChannelClosed, TypeOK, dbVars
<1>5. CASE WriteEvents
  <2>1. stored' \subseteq EventId
    BY <1>5, BatchFacts DEF WriteEvents, TypeOK
  <2>2. written' \in Nat
    BY <1>5, BatchFacts DEF WriteEvents, TypeOK
  <2>3. summary' \in Summaries
    <3>1. Len(batch) - Cardinality(StorableAt(batch)) \in Nat
      BY BatchFacts DEF TypeOK
    <3>2. summary' = [summary EXCEPT !.skipped = @ + (Len(batch) - Cardinality(StorableAt(batch)))]
      BY <1>5 DEF WriteEvents
    <3>3. summary \in Summaries
      BY DEF TypeOK
    <3> QED BY <3>1, <3>2, <3>3, SummaryUpdates
  <2> QED BY <1>5, <2>1, <2>2, <2>3 DEF WriteEvents, TypeOK
<1>6. CASE UpdateCursor
  <2>1. LastSlot(batch) \in DbSlots /\ LastSlot(batch) \in SlotOrNone
    BY <1>6, BatchFacts DEF UpdateCursor, TypeOK
  <2>2. cursor' \in DbSlotOrNone
    BY <1>6, <2>1 DEF UpdateCursor, TypeOK, Greatest, DbSlotOrNone
  <2>3. summary' \in Summaries
    BY <1>6, <2>1 DEF UpdateCursor, TypeOK, Summaries, Greatest
  <2> QED BY <1>6, <2>2, <2>3 DEF UpdateCursor, TypeOK
<1>7. CASE RecordSlotStates
  <2>1. table' \in Tables
    BY <1>7, BatchFacts, RecordEffect DEF RecordSlotStates, TypeOK
  <2> QED BY <1>7, <2>1 DEF RecordSlotStates, TypeOK
<1>8. CASE SelectWatermark
  <2>1. selected' \in [watermark : DbSlotOrNone, head : DbSlotOrNone]
    BY <1>8, FrontierTypes DEF SelectWatermark, TypeOK
  <2> QED BY <1>8, <2>1 DEF SelectWatermark, TypeOK, dbVars
<1>9. CASE UpsertWatermark
  <2>1. contiguous' \in DbSlotOrNone /\ head' \in DbSlotOrNone
    BY <1>9 DEF UpsertWatermark, TypeOK, Greatest
  <2>2. anchor' \in DbSlotOrNone
    BY <1>9, FrontierTypes DEF UpsertWatermark, TypeOK
  <2>3. summary' \in Summaries
    <3>1. summary' = [summary EXCEPT !.contiguous = contiguous', !.head = head']
      BY <1>9 DEF UpsertWatermark
    <3>2. summary \in Summaries
      BY DEF TypeOK
    <3> QED BY <2>1, <3>1, <3>2, SummaryUpdates
  <2> QED BY <1>9, <2>1, <2>2, <2>3, InitialValues DEF UpsertWatermark, TypeOK
<1>10. CASE BatchDone
  <2>1. summary' \in Summaries
    <3>1. summary' = [summary EXCEPT !.batches = @ + 1, !.attempted = @ + written]
      BY <1>10 DEF BatchDone, Counted
    <3>2. summary \in Summaries /\ written \in Nat
      BY DEF TypeOK
    <3> QED BY <3>1, <3>2, SummaryUpdates
  <2> QED BY <1>10, <2>1 DEF BatchDone, TypeOK, dbVars
<1>11. CASE Join
  BY <1>11 DEF Join, TypeOK, dbVars
<1>12. CASE CursorOutOfRange
  BY <1>12, DropTypes DEF CursorOutOfRange, FailWith, TypeOK, dbVars
<1>13. CASE RecordOutOfRange
  BY <1>13, DropTypes DEF RecordOutOfRange, FailWith, TypeOK, dbVars
<1>14. CASE WriteFails
  <2>1. stored' \subseteq EventId
    BY <1>14, BatchFacts DEF WriteFails, TypeOK
  <2> QED BY <1>14, <2>1, DropTypes DEF WriteFails, FailWith, TypeOK
<1>15. CASE CursorFails
  <2>1. cursor' \in DbSlotOrNone
    BY <1>15 DEF CursorFails, TypeOK, Greatest, DbSlotOrNone
  <2> QED BY <1>15, <2>1, DropTypes DEF CursorFails, FailWith, TypeOK
<1>16. CASE RecordFails
  <2>1. table' \in Tables
    BY <1>16, BatchFacts, RecordEffect DEF RecordFails, TypeOK
  <2> QED BY <1>16, <2>1, DropTypes DEF RecordFails, FailWith, TypeOK
<1>17. CASE SelectFails
  BY <1>17, DropTypes DEF SelectFails, FailWith, TypeOK, dbVars
<1>18. CASE UpsertFails
  <2>1. contiguous' \in DbSlotOrNone /\ head' \in DbSlotOrNone
    BY <1>18 DEF UpsertFails, TypeOK, Greatest
  <2>2. anchor' \in DbSlotOrNone
    BY <1>18, FrontierTypes DEF UpsertFails, TypeOK
  <2> QED BY <1>18, <2>1, <2>2, DropTypes DEF UpsertFails, FailWith, TypeOK
<1>19. CASE Crash
  BY <1>19, DropTypes DEF Crash, TypeOK, dbVars
<1>20. CASE Restart
  <2>1. FirstSummary(cursor) \in Summaries
    BY InitialValues DEF TypeOK
  <2>2. restarts' \in 0..MaxRestarts
    BY <1>20 DEF Restart, TypeOK
  <2>3. Len(<<>>) <= ChannelCapacity /\ Len(<<>>) < BatchSize /\ Len(<<>>) <= BatchSize
    OBVIOUS
  <2> QED BY <1>20, <2>1, <2>2, <2>3, InitialValues DEF Restart, TypeOK, dbVars
<1>21. CASE UNCHANGED vars
  BY <1>21 DEF vars, dbVars, processVars, TypeOK
<1> QED
  BY <1>1, <1>2, <1>3, <1>4, <1>5, <1>6, <1>7, <1>8, <1>9, <1>10, <1>11, <1>12, <1>13,
     <1>14, <1>15, <1>16, <1>17, <1>18, <1>19, <1>20, <1>21
  DEF Next, Producer, Receiver, WriteBatch, StatementFails

\* Every variable keeps a value of its kind, in every reachable state.
THEOREM TypeCorrect == Spec => []TypeOK
<1>1. Init => TypeOK
  BY TypeInit
<1>2. TypeOK /\ [Next]_vars => TypeOK'
  BY TypeStep
<1> QED BY <1>1, <1>2, PTL DEF Spec

-----------------------------------------------------------------------------
(***************************************************************************)
(* What the process has in hand.  An event is somewhere between the channel *)
(* and the table at every await, and the counters say where: the invariants *)
(* below say so for the states inside write_batch, where the properties do  *)
(* not look.                                                                *)
(***************************************************************************)
\* The awaits of write_batch after the cursor update.
PastCursor == pc \in {"slots", "select", "upsert", "progress"}

KeptInv ==
    /\ AcceptedEventsKept
    /\ Alive => outcome = "none"
    /\ pc = "receive" => batch = <<>>
    /\ pc = "cursor" => StorableIds(batch) \subseteq stored
    /\ PastCursor => Ids(batch) \subseteq stored

\* Events received and not yet in the counters, besides those in the batcher.
InHand == IF pc = "write" THEN Len(batch)
          ELSE IF pc = "cursor" \/ PastCursor THEN written ELSE 0

\* A batch without a storable event is counted twice, as skipped and as
\* attempted; its cursor update is out of range and ends the process.
CountInv ==
    (Alive \/ outcome = "ok") /\ (pc = "cursor" => LastSlot(batch) \in DbSlots) =>
        summary.seen = summary.skipped + summary.attempted + Len(pending) + InHand

\* The slots a summary and the columns agree on, and what on_progress was told.
ProgressInv ==
    /\ Alive =>
         /\ summary.persisted = cursor
         /\ summary.contiguous \in {None, contiguous}
         /\ summary.head \in {None, head}
    /\ pc = "receive" =>
         /\ published.persisted = summary.persisted
         /\ published.contiguous = summary.contiguous
         /\ published.head = summary.head

ProcessInv == KeptInv /\ CountInv /\ ProgressInv

-----------------------------------------------------------------------------
\* What appending and taking an event does to the identities of a sequence.
LEMMA IdsFacts ==
    /\ Ids(<<>>) = {}
    /\ \A q \in Seq(Event), e \in Event : Ids(Append(q, e)) = Ids(q) \cup {e.id}
    /\ \A q \in Seq(Event) : q # <<>> => Ids(q) = {Head(q).id} \cup Ids(Tail(q))
<1>1. Ids(<<>>) = {}
  BY DEF Ids
<1>2. ASSUME NEW q \in Seq(Event), NEW e \in Event
      PROVE  Ids(Append(q, e)) = Ids(q) \cup {e.id}
  <2> DEFINE r == Append(q, e)
  <2>1. /\ Len(q) \in Nat /\ DOMAIN q = 1..Len(q) /\ DOMAIN r = 1..(Len(q) + 1)
        /\ \A i \in 1..Len(q) : r[i] = q[i]
        /\ r[Len(q) + 1] = e
    OBVIOUS
  <2> HIDE DEF r
  <2>2. ASSUME NEW x \in Ids(r) PROVE x \in Ids(q) \cup {e.id}
    <3>1. PICK i \in DOMAIN r : x = r[i].id
      BY DEF Ids
    <3>2. CASE i = Len(q) + 1
      BY <2>1, <3>1, <3>2
    <3>3. CASE i # Len(q) + 1
      <4>1. i \in 1..Len(q)
        BY <2>1, <3>3
      <4> QED BY <2>1, <3>1, <4>1 DEF Ids
    <3> QED BY <3>2, <3>3
  <2>3. ASSUME NEW i \in DOMAIN q PROVE q[i].id \in Ids(r)
    <3>1. i \in DOMAIN r /\ r[i] = q[i]
      BY <2>1
    <3> QED BY <3>1 DEF Ids
  <2>4. e.id \in Ids(r)
    <3>1. Len(q) + 1 \in DOMAIN r
      BY <2>1
    <3> QED BY <2>1, <3>1 DEF Ids
  <2>5. Ids(q) \subseteq Ids(r)
    BY <2>3 DEF Ids
  <2>6. Ids(r) = Ids(q) \cup {e.id}
    BY <2>2, <2>4, <2>5
  <2> QED BY <2>6 DEF r
<1>3. ASSUME NEW q \in Seq(Event), q # <<>>
      PROVE  Ids(q) = {Head(q).id} \cup Ids(Tail(q))
  <2> DEFINE t == Tail(q)
             n == Len(q)
  <2>1. /\ n \in Nat /\ n > 0 /\ DOMAIN q = 1..n /\ DOMAIN t = 1..(n - 1)
        /\ \A i \in 1..(n - 1) : t[i] = q[i + 1]
        /\ Head(q) = q[1]
    BY <1>3
  <2> HIDE DEF t, n
  <2>2. ASSUME NEW i \in DOMAIN q PROVE q[i].id \in {Head(q).id} \cup Ids(t)
    <3>1. CASE i = 1
      BY <2>1, <3>1
    <3>2. CASE i # 1
      <4>1. i - 1 \in 1..(n - 1) /\ (i - 1) + 1 = i
        BY <2>1, <3>2
      <4>2. i - 1 \in DOMAIN t /\ t[i - 1] = q[i]
        BY <2>1, <4>1
      <4> QED BY <4>2 DEF Ids
    <3> QED BY <3>1, <3>2
  <2>3. ASSUME NEW i \in DOMAIN t PROVE t[i].id \in Ids(q)
    <3>1. i + 1 \in DOMAIN q /\ t[i] = q[i + 1]
      BY <2>1
    <3> QED BY <3>1 DEF Ids
  <2>4. 1 \in DOMAIN q
    BY <2>1
  <2>5. Head(q).id \in Ids(q)
    BY <2>1, <2>4 DEF Ids
  <2>6. Ids(q) = {Head(q).id} \cup Ids(t)
    BY <2>2, <2>3, <2>5 DEF Ids
  <2> QED BY <2>6 DEF t
<1> QED BY <1>1, <1>2, <1>3

\* A batch whose cursor update is in range has a row for every event.
LEMMA InRangeBatchStorable ==
    ASSUME NEW b \in Seq(Event), LastSlot(b) \in DbSlots
    PROVE  /\ StorableIds(b) = Ids(b)
           /\ Cardinality(StorableAt(b)) = Len(b)
           /\ Len(b) # 0
<1>1. \A i \in DOMAIN b : b[i] \in Event /\ SlotOf[b[i].id] <= LastSlot(b)
  BY BatchFacts
<1>2. \A i \in DOMAIN b : SlotOf[b[i].id] \in DbSlots
  BY <1>1, EventFacts, SlotFacts
<1>3. StorableAt(b) = DOMAIN b
  BY <1>2 DEF StorableAt, Storable
<1>4. DOMAIN b = 1..Len(b) /\ Len(b) \in Nat
  BY BatchFacts
<1>5. Cardinality(StorableAt(b)) = Len(b)
  <2>1. Cardinality(1..Len(b)) = Len(b)
    BY <1>4, FS_Interval
  <2>2. StorableAt(b) = 1..Len(b)
    BY <1>3, <1>4
  <2> QED BY <2>1, <2>2
<1>6. Len(b) # 0
  <2>1. LastSlot(b) # None
    BY SlotFacts
  <2>2. PICK i \in DOMAIN b : TRUE
    BY <2>1, BatchFacts
  <2> QED BY <1>4, <2>2
<1> QED BY <1>3, <1>5, <1>6 DEF StorableIds, Ids

\* A process that stopped without success owes nothing any more.
LEMMA StoppedKeeps ==
    ASSUME pc' \in {"exited", "down"}, outcome' # "ok"
    PROVE  ProcessInv'
BY DEF ProcessInv, KeptInv, CountInv, ProgressInv, AcceptedEventsKept, Alive, PastCursor

LEMMA ProcessInit == Init => ProcessInv
<1> SUFFICES ASSUME Init PROVE ProcessInv
  OBVIOUS
<1>1. KeptInv
  BY DEF Init, KeptInv, AcceptedEventsKept, PastCursor
<1>2. CountInv
  BY SeqFacts DEF Init, CountInv, InHand, PastCursor, FirstSummary
<1>3. ProgressInv
  BY DEF Init, ProgressInv, FirstSummary
<1> QED BY <1>1, <1>2, <1>3 DEF ProcessInv

-----------------------------------------------------------------------------
(***************************************************************************)
(* Every event is somewhere.                                                *)
(***************************************************************************)
LEMMA ReceiveKeeps == TypeOK /\ KeptInv /\ Receive => KeptInv'
<1> SUFFICES ASSUME TypeOK, KeptInv, Receive PROVE KeptInv'
  OBVIOUS
<1> DEFINE e == Head(channel)
           filled == Append(pending, e)
<1>1. /\ channel \in Seq(Event) /\ channel # <<>> /\ e \in Event
      /\ pending \in Seq(Event) /\ e.id \in EventId
  BY SeqFacts, EventFacts DEF TypeOK, Receive, HasEvent
<1>2. Ids(channel) = {e.id} \cup Ids(channel')
  BY <1>1, IdsFacts DEF Receive
<1>3. Ids(filled) = Ids(pending) \cup {e.id}
  BY <1>1, IdsFacts
<1>4. ShouldSkip(e) => e.id \in ResumedOver
  BY <1>1 DEF ShouldSkip, ResumedOver
<1>5. /\ pc = "receive" /\ batch = <<>> /\ outcome = "none"
      /\ pc' \in {"receive", "write"} /\ UNCHANGED <<stored, outcome, accepted, resumeAfter>>
      /\ \/ ShouldSkip(e) /\ pending' = pending /\ batch' = batch /\ pc' = pc
         \/ ~ShouldSkip(e) /\ pending' = filled /\ batch' = batch /\ pc' = pc
         \/ ~ShouldSkip(e) /\ pending' = <<>> /\ batch' = filled /\ pc' = "write"
  BY DEF Receive, KeptInv, Alive, dbVars
<1>6. accepted \subseteq stored \cup Ids(channel) \cup Ids(pending) \cup ResumedOver
  BY <1>5, IdsFacts DEF KeptInv, AcceptedEventsKept, Alive
<1>7. ResumedOver' = ResumedOver
  BY <1>5 DEF ResumedOver
<1> HIDE DEF e, filled
<1>8. accepted' \subseteq stored' \cup Ids(channel') \cup Ids(pending') \cup Ids(batch')
                              \cup ResumedOver'
  <2>1. CASE ShouldSkip(e)
    BY <1>2, <1>4, <1>5, <1>6, <1>7, <2>1
  <2>2. CASE ~ShouldSkip(e)
    BY <1>2, <1>3, <1>5, <1>6, <1>7, <2>2
  <2> QED BY <2>1, <2>2
<1> QED BY <1>5, <1>8 DEF KeptInv, AcceptedEventsKept, PastCursor

LEMMA KeptStep ==
    ASSUME TypeOK, KeptInv, [Next]_vars PROVE KeptInv' \/ (pc' \in {"exited", "down"} /\ outcome' # "ok")
<1> USE DEF KeptInv, AcceptedEventsKept, Alive, PastCursor
<1>1. ASSUME NEW e \in Event, ProducerSend(e) PROVE KeptInv'
  <2>1. Ids(channel') = Ids(channel) \cup {e.id}
    BY <1>1, IdsFacts DEF ProducerSend, TypeOK
  <2> QED BY <1>1, <2>1 DEF ProducerSend, ResumedOver, dbVars
<1>2. ASSUME NEW how \in {"ok", "error", "panicked"}, ProducerExit(how) PROVE KeptInv'
  BY <1>2 DEF ProducerExit, ResumedOver, dbVars
<1>3. CASE Receive BY <1>3, ReceiveKeeps
<1>4. CASE ChannelClosed
  <2>1. /\ pc = "receive" /\ UNCHANGED <<stored, outcome, accepted, resumeAfter, channel>>
        /\ pc' \in {"join", "write"} /\ batch = <<>>
        /\ \/ pending' = pending /\ batch' = batch
           \/ pending' = <<>> /\ batch' = pending
    BY <1>4 DEF ChannelClosed, dbVars
  <2> QED BY <2>1, IdsFacts DEF ResumedOver
<1>5. CASE WriteEvents BY <1>5 DEF WriteEvents, ResumedOver
<1>6. CASE UpdateCursor
  <2>1. Ids(batch) \subseteq stored
    BY <1>6, InRangeBatchStorable DEF UpdateCursor, TypeOK
  <2> QED BY <1>6, <2>1 DEF UpdateCursor, ResumedOver
<1>7. CASE RecordSlotStates BY <1>7 DEF RecordSlotStates, ResumedOver
<1>8. CASE SelectWatermark BY <1>8 DEF SelectWatermark, ResumedOver, dbVars
<1>9. CASE UpsertWatermark BY <1>9 DEF UpsertWatermark, ResumedOver
<1>10. CASE BatchDone
  <2>1. /\ Ids(batch) \subseteq stored /\ batch' = <<>> /\ pc = "progress"
        /\ UNCHANGED <<stored, outcome, accepted, resumeAfter, channel, pending>>
        /\ pc' \in {"join", "receive"}
    BY <1>10 DEF BatchDone, dbVars
  <2> QED BY <2>1 DEF ResumedOver
<1>11. CASE Join BY <1>11 DEF Join, ResumedOver, dbVars
<1>12. CASE CursorOutOfRange BY <1>12 DEF CursorOutOfRange, FailWith
<1>13. CASE RecordOutOfRange BY <1>13 DEF RecordOutOfRange, FailWith
<1>14. CASE WriteFails BY <1>14 DEF WriteFails, FailWith
<1>15. CASE CursorFails BY <1>15 DEF CursorFails, FailWith
<1>16. CASE RecordFails BY <1>16 DEF RecordFails, FailWith
<1>17. CASE SelectFails BY <1>17 DEF SelectFails, FailWith
<1>18. CASE UpsertFails BY <1>18 DEF UpsertFails, FailWith
<1>19. CASE Crash BY <1>19 DEF Crash
<1>20. CASE Restart BY <1>20 DEF Restart
<1>21. CASE UNCHANGED vars
  BY <1>21 DEF vars, dbVars, processVars, ResumedOver
<1> QED
  BY <1>1, <1>2, <1>3, <1>4, <1>5, <1>6, <1>7, <1>8, <1>9, <1>10, <1>11, <1>12, <1>13,
     <1>14, <1>15, <1>16, <1>17, <1>18, <1>19, <1>20, <1>21
  DEF Next, Producer, Receiver, WriteBatch, StatementFails

-----------------------------------------------------------------------------
(***************************************************************************)
(* Every event is counted once.                                             *)
(***************************************************************************)
\* What the updates of a summary do to the counters and to the slots.
LEMMA SummaryFields ==
    ASSUME NEW s \in Summaries, NEW k \in Nat, NEW x, NEW y
    PROVE  /\ s.seen \in Nat /\ s.skipped \in Nat /\ s.attempted \in Nat
           /\ LET u == [s EXCEPT !.seen = @ + 1]
              IN  /\ u.seen = s.seen + 1 /\ u.skipped = s.skipped /\ u.attempted = s.attempted
                  /\ u.persisted = s.persisted /\ u.contiguous = s.contiguous /\ u.head = s.head
           /\ LET u == [s EXCEPT !.seen = @ + 1, !.skipped = @ + 1]
              IN  /\ u.seen = s.seen + 1 /\ u.skipped = s.skipped + 1
                  /\ u.attempted = s.attempted
                  /\ u.persisted = s.persisted /\ u.contiguous = s.contiguous /\ u.head = s.head
           /\ LET u == [s EXCEPT !.skipped = @ + k]
              IN  /\ u.seen = s.seen /\ u.skipped = s.skipped + k /\ u.attempted = s.attempted
                  /\ u.persisted = s.persisted /\ u.contiguous = s.contiguous /\ u.head = s.head
           /\ LET u == [s EXCEPT !.persisted = x]
              IN  /\ u.seen = s.seen /\ u.skipped = s.skipped /\ u.attempted = s.attempted
                  /\ u.persisted = x /\ u.contiguous = s.contiguous /\ u.head = s.head
           /\ LET u == [s EXCEPT !.contiguous = x, !.head = y]
              IN  /\ u.seen = s.seen /\ u.skipped = s.skipped /\ u.attempted = s.attempted
                  /\ u.persisted = s.persisted /\ u.contiguous = x /\ u.head = y
           /\ LET u == Counted(s, k)
              IN  /\ u.seen = s.seen /\ u.skipped = s.skipped
                  /\ u.attempted = s.attempted + k
                  /\ u.persisted = s.persisted /\ u.contiguous = s.contiguous /\ u.head = s.head
BY DEF Summaries, Counted

Balanced == summary.seen = summary.skipped + summary.attempted + Len(pending) + InHand

LEMMA CountStep ==
    ASSUME TypeOK, CountInv, [Next]_vars
    PROVE  CountInv' \/ (pc' \in {"exited", "down"} /\ outcome' # "ok")
<1>0. /\ summary \in Summaries /\ written \in Nat /\ Len(pending) \in Nat
      /\ batch \in Seq(Event) /\ Len(batch) \in Nat /\ pending \in Seq(Event)
  BY SeqFacts DEF TypeOK
<1> DEFINE Owing == (Alive \/ outcome = "ok") /\ (pc = "cursor" => LastSlot(batch) \in DbSlots)
<1>a. (Owing => Balanced) /\ ((Owing' => Balanced') => CountInv')
  BY DEF CountInv, Balanced
<1>b. /\ pc \in {"receive", "join", "exited"} => InHand = 0
      /\ pc = "write" => InHand = Len(batch)
      /\ pc = "cursor" \/ PastCursor => InHand = written
      /\ pc' \in {"receive", "join", "exited"} => InHand' = 0
      /\ pc' = "write" => InHand' = Len(batch')
      /\ pc' = "cursor" \/ PastCursor' => InHand' = written'
  BY DEF InHand, PastCursor
<1>1. ASSUME NEW e \in Event, ProducerSend(e) PROVE CountInv'
  BY <1>1 DEF ProducerSend, CountInv, InHand, PastCursor, Alive
<1>2. ASSUME NEW how \in {"ok", "error", "panicked"}, ProducerExit(how) PROVE CountInv'
  BY <1>2 DEF ProducerExit, CountInv, InHand, PastCursor, Alive
<1>3. CASE Receive
  <2> DEFINE e == Head(channel)
             filled == Append(pending, e)
  <2>1. Len(filled) = Len(pending) + 1 /\ Len(<<>>) = 0
    BY <1>3, SeqFacts DEF TypeOK, Receive, HasEvent
  <2>2. pc = "receive" /\ InHand = 0 /\ Balanced
    BY <1>3, <1>a, <1>b DEF Receive, Alive
  <2>3. \/ /\ summary' = [summary EXCEPT !.seen = @ + 1, !.skipped = @ + 1]
           /\ pending' = pending /\ pc' = pc
        \/ /\ summary' = [summary EXCEPT !.seen = @ + 1]
           /\ pending' = filled /\ pc' = pc
        \/ /\ summary' = [summary EXCEPT !.seen = @ + 1]
           /\ pending' = <<>> /\ batch' = filled /\ pc' = "write"
    BY <1>3 DEF Receive
  <2> HIDE DEF filled
  <2>4. /\ summary'.seen = summary.seen + 1 /\ summary'.attempted = summary.attempted
        /\ \/ summary'.skipped = summary.skipped + 1 /\ pending' = pending /\ InHand' = 0
           \/ summary'.skipped = summary.skipped /\ pending' = filled /\ InHand' = 0
           \/ summary'.skipped = summary.skipped /\ pending' = <<>> /\ InHand' = Len(filled)
    <3>1. CASE summary' = [summary EXCEPT !.seen = @ + 1, !.skipped = @ + 1]
                 /\ pending' = pending /\ pc' = pc
      BY <1>0, <1>b, <2>2, <3>1, SummaryFields
    <3>2. CASE summary' = [summary EXCEPT !.seen = @ + 1] /\ pending' = filled /\ pc' = pc
      BY <1>0, <1>b, <2>2, <3>2, SummaryFields
    <3>3. CASE /\ summary' = [summary EXCEPT !.seen = @ + 1]
               /\ pending' = <<>> /\ batch' = filled /\ pc' = "write"
      BY <1>0, <1>b, <3>3, SummaryFields
    <3> QED BY <2>3, <3>1, <3>2, <3>3
  <2>5. summary.seen = summary.skipped + summary.attempted + Len(pending) + 0
    BY <2>2 DEF Balanced
  <2>6. summary'.seen = summary'.skipped + summary'.attempted + Len(pending') + InHand'
    <3>1. summary.skipped \in Nat /\ summary.attempted \in Nat
      BY <1>0, SummaryFields
    <3> QED BY <1>0, <2>1, <2>4, <2>5, <3>1
  <2> QED BY <1>a, <2>6 DEF Balanced
<1>4. CASE ChannelClosed
  <2>1. pc = "receive" /\ InHand = 0 /\ Balanced
    BY <1>4, <1>a, <1>b DEF ChannelClosed, Alive
  <2>2. \/ summary' = summary /\ pending' = pending /\ pc' = "join"
        \/ summary' = summary /\ pending' = <<>> /\ batch' = pending /\ pc' = "write"
    BY <1>4 DEF ChannelClosed
  <2>3. InHand' + Len(pending') = Len(pending)
    BY <1>0, <1>b, <2>2, SeqFacts
  <2>4. InHand' \in Nat /\ Len(pending') \in Nat
    BY <1>0, <1>b, <2>2, SeqFacts
  <2>5. summary.skipped \in Nat /\ summary.attempted \in Nat /\ summary' = summary
    BY <1>0, <2>2, SummaryFields
  <2>6. Balanced'
    BY <1>0, <2>1, <2>3, <2>4, <2>5 DEF Balanced
  <2> QED BY <1>a, <2>6
<1>5. CASE WriteEvents
  <2> DEFINE rows == Cardinality(StorableAt(batch))
  <2>1. pc = "write" /\ InHand = Len(batch) /\ Balanced
    BY <1>5, <1>a, <1>b DEF WriteEvents, Alive
  <2>2. /\ summary' = [summary EXCEPT !.skipped = @ + (Len(batch) - rows)]
        /\ written' = IF rows = 0 THEN Len(batch) ELSE rows
        /\ pending' = pending /\ batch' = batch /\ pc' = "cursor"
    BY <1>5 DEF WriteEvents
  <2>3. ASSUME Owing' PROVE Balanced'
    <3>1. rows = Len(batch) /\ Len(batch) # 0
      BY <1>0, <2>2, <2>3, InRangeBatchStorable
    <3> HIDE DEF rows
    <3>2. written' = Len(batch) /\ InHand' = Len(batch)
      BY <1>b, <2>2, <3>1
    <3>3. Len(batch) - rows = 0
      BY <1>0, <3>1
    <3> QED BY <1>0, <2>1, <2>2, <3>2, <3>3, SummaryFields DEF Balanced
  <2> QED BY <1>a, <2>3
<1>6. CASE UpdateCursor
  <2>1. pc = "cursor" /\ InHand = written /\ Balanced
    BY <1>6, <1>a, <1>b DEF UpdateCursor, Alive
  <2>2. /\ summary' = [summary EXCEPT !.persisted = Greatest(@, LastSlot(batch))]
        /\ pending' = pending /\ written' = written /\ PastCursor'
    BY <1>6 DEF UpdateCursor, PastCursor
  <2>3. Balanced'
    BY <1>0, <1>b, <2>1, <2>2, SummaryFields DEF Balanced
  <2> QED BY <1>a, <2>3
<1>7. CASE RecordSlotStates
  BY <1>7 DEF RecordSlotStates, CountInv, InHand, PastCursor, Alive
<1>8. CASE SelectWatermark
  BY <1>8 DEF SelectWatermark, CountInv, InHand, PastCursor, Alive
<1>9. CASE UpsertWatermark
  <2>1. pc = "upsert" /\ InHand = written /\ Balanced
    BY <1>9, <1>a, <1>b DEF UpsertWatermark, Alive, PastCursor
  <2>2. /\ summary' = [summary EXCEPT !.contiguous = contiguous', !.head = head']
        /\ pending' = pending /\ written' = written /\ PastCursor'
    BY <1>9 DEF UpsertWatermark, PastCursor
  <2>3. Balanced'
    BY <1>0, <1>b, <2>1, <2>2, SummaryFields DEF Balanced
  <2> QED BY <1>a, <2>3
<1>10. CASE BatchDone
  <2>1. pc = "progress" /\ InHand = written /\ Balanced
    BY <1>10, <1>a, <1>b DEF BatchDone, Alive, PastCursor
  <2>2. summary' = Counted(summary, written) /\ pending' = pending
        /\ pc' \in {"join", "receive"}
    BY <1>10 DEF BatchDone
  <2>3. Balanced'
    BY <1>0, <1>b, <2>1, <2>2, SummaryFields DEF Balanced
  <2> QED BY <1>a, <2>3
<1>11. CASE Join
  <2>1. pc = "join" /\ InHand = 0 /\ Balanced
    BY <1>11, <1>a, <1>b DEF Join, Alive
  <2>2. summary' = summary /\ pending' = pending /\ pc' = "exited"
    BY <1>11 DEF Join
  <2>3. Balanced'
    BY <1>b, <2>1, <2>2 DEF Balanced
  <2> QED BY <1>a, <2>3
<1>12. CASE CursorOutOfRange BY <1>12 DEF CursorOutOfRange, FailWith
<1>13. CASE RecordOutOfRange BY <1>13 DEF RecordOutOfRange, FailWith
<1>14. CASE WriteFails BY <1>14 DEF WriteFails, FailWith
<1>15. CASE CursorFails BY <1>15 DEF CursorFails, FailWith
<1>16. CASE RecordFails BY <1>16 DEF RecordFails, FailWith
<1>17. CASE SelectFails BY <1>17 DEF SelectFails, FailWith
<1>18. CASE UpsertFails BY <1>18 DEF UpsertFails, FailWith
<1>19. CASE Crash BY <1>19 DEF Crash
<1>20. CASE Restart
  <2>1. summary' = FirstSummary(cursor) /\ pending' = <<>> /\ pc' = "receive"
    BY <1>20 DEF Restart
  <2>2. Balanced'
    BY <1>b, <2>1, SeqFacts DEF Balanced, FirstSummary
  <2> QED BY <1>a, <2>2
<1>21. CASE UNCHANGED vars
  BY <1>21 DEF vars, dbVars, processVars, CountInv, InHand, PastCursor, Alive
<1> QED
  BY <1>1, <1>2, <1>3, <1>4, <1>5, <1>6, <1>7, <1>8, <1>9, <1>10, <1>11, <1>12, <1>13,
     <1>14, <1>15, <1>16, <1>17, <1>18, <1>19, <1>20, <1>21
  DEF Next, Producer, Receiver, WriteBatch, StatementFails

-----------------------------------------------------------------------------
(***************************************************************************)
(* What on_progress is told is what the database holds.                     *)
(***************************************************************************)
LEMMA ProgressStep ==
    ASSUME TypeOK, ProgressInv, [Next]_vars
    PROVE  ProgressInv' \/ (pc' \in {"exited", "down"} /\ outcome' # "ok")
<1>0. summary \in Summaries /\ written \in Nat
  BY DEF TypeOK
<1> USE DEF ProgressInv, Alive
<1>1. ASSUME NEW e \in Event, ProducerSend(e) PROVE ProgressInv'
  BY <1>1 DEF ProducerSend, dbVars
<1>2. ASSUME NEW how \in {"ok", "error", "panicked"}, ProducerExit(how) PROVE ProgressInv'
  BY <1>2 DEF ProducerExit, dbVars
<1>3. CASE Receive
  <2>1. \/ summary' = [summary EXCEPT !.seen = @ + 1, !.skipped = @ + 1]
        \/ summary' = [summary EXCEPT !.seen = @ + 1]
    BY <1>3 DEF Receive
  <2>2. /\ summary'.persisted = summary.persisted
        /\ summary'.contiguous = summary.contiguous /\ summary'.head = summary.head
    <3>1. CASE summary' = [summary EXCEPT !.seen = @ + 1, !.skipped = @ + 1]
      BY <1>0, <3>1, SummaryFields
    <3>2. CASE summary' = [summary EXCEPT !.seen = @ + 1]
      BY <1>0, <3>2, SummaryFields
    <3> QED BY <2>1, <3>1, <3>2
  <2> QED BY <1>3, <2>2 DEF Receive, dbVars
<1>4. CASE ChannelClosed BY <1>4 DEF ChannelClosed, dbVars
<1>5. CASE WriteEvents
  <2> DEFINE k == Len(batch) - Cardinality(StorableAt(batch))
  <2>1. k \in Nat
    BY BatchFacts DEF TypeOK
  <2>2. summary' = [summary EXCEPT !.skipped = @ + k]
    BY <1>5 DEF WriteEvents
  <2> HIDE DEF k
  <2>3. /\ summary'.persisted = summary.persisted
        /\ summary'.contiguous = summary.contiguous /\ summary'.head = summary.head
    BY <1>0, <2>1, <2>2, SummaryFields
  <2> QED BY <1>5, <2>3 DEF WriteEvents
<1>6. CASE UpdateCursor
  <2>1. summary' = [summary EXCEPT !.persisted = Greatest(summary.persisted, LastSlot(batch))]
    BY <1>6 DEF UpdateCursor
  <2>2. /\ summary'.persisted = Greatest(summary.persisted, LastSlot(batch))
        /\ summary'.contiguous = summary.contiguous /\ summary'.head = summary.head
    BY <1>0, <2>1, SummaryFields
  <2> QED BY <1>6, <2>2 DEF UpdateCursor
<1>7. CASE RecordSlotStates BY <1>7 DEF RecordSlotStates
<1>8. CASE SelectWatermark BY <1>8 DEF SelectWatermark, dbVars
<1>9. CASE UpsertWatermark
  <2>1. summary' = [summary EXCEPT !.contiguous = contiguous', !.head = head']
    BY <1>9 DEF UpsertWatermark
  <2>2. /\ summary'.persisted = summary.persisted
        /\ summary'.contiguous = contiguous' /\ summary'.head = head'
    BY <1>0, <2>1, SummaryFields
  <2> QED BY <1>9, <2>2 DEF UpsertWatermark
<1>10. CASE BatchDone
  <2>1. /\ summary'.persisted = summary.persisted
        /\ summary'.contiguous = summary.contiguous /\ summary'.head = summary.head
    BY <1>0, <1>10, SummaryFields DEF BatchDone
  <2> QED BY <1>10, <2>1 DEF BatchDone, dbVars
<1>11. CASE Join BY <1>11 DEF Join, dbVars
<1>12. CASE CursorOutOfRange BY <1>12 DEF CursorOutOfRange, FailWith
<1>13. CASE RecordOutOfRange BY <1>13 DEF RecordOutOfRange, FailWith
<1>14. CASE WriteFails BY <1>14 DEF WriteFails, FailWith
<1>15. CASE CursorFails BY <1>15 DEF CursorFails, FailWith
<1>16. CASE RecordFails BY <1>16 DEF RecordFails, FailWith
<1>17. CASE SelectFails BY <1>17 DEF SelectFails, FailWith
<1>18. CASE UpsertFails BY <1>18 DEF UpsertFails, FailWith
<1>19. CASE Crash BY <1>19 DEF Crash
<1>20. CASE Restart BY <1>20 DEF Restart, FirstSummary, dbVars
<1>21. CASE UNCHANGED vars BY <1>21 DEF vars, dbVars, processVars
<1> QED
  BY <1>1, <1>2, <1>3, <1>4, <1>5, <1>6, <1>7, <1>8, <1>9, <1>10, <1>11, <1>12, <1>13,
     <1>14, <1>15, <1>16, <1>17, <1>18, <1>19, <1>20, <1>21
  DEF Next, Producer, Receiver, WriteBatch, StatementFails

LEMMA ProcessStep == TypeOK /\ ProcessInv /\ [Next]_vars => ProcessInv'
<1> SUFFICES ASSUME TypeOK, ProcessInv, [Next]_vars PROVE ProcessInv'
  OBVIOUS
<1>1. CASE pc' \in {"exited", "down"} /\ outcome' # "ok"
  BY <1>1, StoppedKeeps
<1>2. CASE ~(pc' \in {"exited", "down"} /\ outcome' # "ok")
  <2>1. KeptInv'
    BY <1>2, KeptStep DEF ProcessInv
  <2>2. CountInv'
    BY <1>2, CountStep DEF ProcessInv
  <2>3. ProgressInv'
    BY <1>2, ProgressStep DEF ProcessInv
  <2> QED BY <2>1, <2>2, <2>3 DEF ProcessInv
<1> QED BY <1>1, <1>2

LEMMA ProcessKept == Spec => []ProcessInv
<1> QED BY ProcessInit, ProcessStep, TypeCorrect, PTL DEF Spec

(***************************************************************************)
(* Nothing the channel accepted is lost while the process lives or when it  *)
(* ends well, for every batch size, channel capacity and stream: the loop   *)
(* of IngestPipeline::run hands each event on before it lets go of it.      *)
(***************************************************************************)
THEOREM EventsKept == Spec => []AcceptedEventsKept
<1>1. ProcessInv => AcceptedEventsKept
  BY DEF ProcessInv, KeptInv
<1> QED BY <1>1, ProcessKept, PTL

(***************************************************************************)
(* The counters of PipelineSummary account for every event received,        *)
(* whenever write_batch is not under way.                                   *)
(***************************************************************************)
THEOREM CountersAddUp == Spec => []EventsAccounted
<1>1. TypeOK /\ ProcessInv => EventsAccounted
  <2> SUFFICES ASSUME TypeOK, ProcessInv, pc \in {"receive", "join"} \/ outcome = "ok"
               PROVE  summary.seen = summary.skipped + summary.attempted + Len(pending)
    BY DEF EventsAccounted
  <2>1. pc \in {"receive", "join", "exited", "down"}
    BY DEF ProcessInv, KeptInv, Alive
  <2>2. InHand = 0 /\ (Alive \/ outcome = "ok") /\ pc # "cursor"
    BY <2>1 DEF InHand, PastCursor, Alive
  <2>3. summary.seen = summary.skipped + summary.attempted + Len(pending) + 0
    BY <2>2 DEF ProcessInv, CountInv
  <2>4. summary.skipped \in Nat /\ summary.attempted \in Nat /\ Len(pending) \in Nat
    BY SummaryFields, SeqFacts DEF TypeOK
  <2> QED BY <2>3, <2>4
<1> QED BY <1>1, ProcessKept, TypeCorrect, PTL

(***************************************************************************)
(* What on_progress was last told agrees with the columns of stream_cursors *)
(* whenever the receiver waits for an event.                                *)
(***************************************************************************)
THEOREM ProgressTrue == Spec => []ProgressMatchesStore
<1>1. ProcessInv => ProgressMatchesStore
  BY DEF ProcessInv, ProgressInv, ProgressMatchesStore, Alive
<1> QED BY <1>1, ProcessKept, PTL

-----------------------------------------------------------------------------
(***************************************************************************)
(* The inductive invariant.  DbInv is about the database alone, so a step   *)
(* that leaves the columns alone keeps it; WorkInv ties the batch being     *)
(* written to the database between the statements of write_batch.           *)
(***************************************************************************)
\* A recorded link of a rooted slot goes down and jumps over no rooted slot.
RootedLinks ==
    \A s \in DbSlots \cap Rooted :
        table[s].parent # None =>
            /\ table[s].parent < s
            /\ \A r \in Rooted : ~(table[s].parent < r /\ r < s)

\* The three frontier columns are unset together, or they are finalized slots
\* in order with no hole between the first two.
FrontierSound ==
    \/ contiguous = None /\ anchor = None /\ head = None
    \/ /\ {contiguous, anchor, head} \subseteq FinalizedSlots(table)
       /\ anchor <= contiguous /\ contiguous <= head
       /\ \A r \in Rooted : (anchor <= r /\ r <= contiguous) => r \in FinalizedSlots(table)

DbInv ==
    CursorAfterPersistence /\ FinalityAfterPersistence /\ RootedLinks /\ FrontierSound

\* Past the insert, the rows of the batch are in the table.
BatchWritten ==
    pc \in {"cursor", "slots", "select", "upsert", "progress"} =>
        StorableIds(batch) \subseteq stored

\* The upsert writes what the query would return now.
SelectionFresh ==
    /\ pc \in {"select", "upsert"} => FinalizedSlots(table) # {}
    /\ pc = "upsert" => selected = [watermark |-> Watermark(table, contiguous),
                                    head |-> FinalizedHead(table)]

WorkInv == BatchWritten /\ SelectionFresh

IInv == TypeOK /\ DbInv /\ WorkInv
-----------------------------------------------------------------------------
(***************************************************************************)
(* One lemma for each way a statement can change the database, applied or   *)
(* lost with its answer.                                                    *)
(***************************************************************************)
LEMMA DbUnchanged == DbInv /\ UNCHANGED dbVars => DbInv'
BY DEF DbInv, CursorAfterPersistence, FinalityAfterPersistence, RootedLinks,
       FrontierSound, dbVars

\* The insert: rows are only added.
LEMMA StoredGrows ==
    ASSUME TypeOK, DbInv, stored \subseteq stored',
           UNCHANGED <<cursor, table, contiguous, head, anchor>>
    PROVE  DbInv'
BY DEF DbInv, CursorAfterPersistence, FinalityAfterPersistence, RootedLinks, FrontierSound

\* The cursor update: the highest slot of the batch is the slot of a stored row,
\* because a slot the column holds is a slot whose event converts to a row.
LEMMA CursorMoves ==
    ASSUME TypeOK, DbInv, StorableIds(batch) \subseteq stored,
           LastSlot(batch) \in DbSlots,
           cursor' \in {cursor, Greatest(cursor, LastSlot(batch))},
           UNCHANGED <<stored, table, contiguous, head, anchor>>
    PROVE  DbInv'
<1>1. \E id \in stored : SlotOf[id] = LastSlot(batch)
  <2>1. batch \in Seq(Event)
    BY DEF TypeOK
  <2>2. LastSlot(batch) # None
    BY SlotFacts
  <2>3. PICK i \in DOMAIN batch : SlotOf[batch[i].id] = LastSlot(batch)
    BY <2>1, <2>2, BatchFacts
  <2>4. batch[i].id \in StorableIds(batch)
    BY <2>3 DEF StorableIds, StorableAt, Storable
  <2> QED BY <2>3, <2>4
<1>2. cursor' \in {cursor, LastSlot(batch)}
  BY DEF Greatest
<1>3. CursorAfterPersistence'
  BY <1>1, <1>2 DEF DbInv, CursorAfterPersistence
<1> QED BY <1>3 DEF DbInv, FinalityAfterPersistence, RootedLinks, FrontierSound

\* The slot upsert: every flag and link it adds comes from an event of the batch.
LEMMA TableGrows ==
    ASSUME TypeOK, DbInv, StorableIds(batch) \subseteq stored,
           Recordable(SlotStates(batch)),
           table' \in {table, Record(table, SlotStates(batch))},
           UNCHANGED <<stored, cursor, contiguous, head, anchor>>
    PROVE  DbInv' /\ FinalizedSlots(table) \subseteq FinalizedSlots(table')
<1> DEFINE u == SlotStates(batch)
           T == Record(table, u)
<1>1. batch \in Seq(Event) /\ table \in Tables
  BY DEF TypeOK
<1>2. /\ Len(batch) \in Nat /\ DOMAIN u \subseteq 1..Len(batch)
      /\ \A i \in DOMAIN u : u[i] \in SlotUpdate /\ u[i] = UpdateOf(batch[i])
  BY <1>1, BatchFacts
<1>3. \A i \in DOMAIN u :
          /\ i \in DOMAIN batch /\ batch[i] \in Event
          /\ StatusOf[batch[i].id] # "other"
          /\ SlotOf[batch[i].id] = u[i].slot /\ batch[i].parent = u[i].parent
          /\ u[i].finalized = (StatusOf[batch[i].id] = "finalized")
          /\ u[i].slot \in DbSlots /\ batch[i].id \in stored
  <2>1. ASSUME NEW i \in DOMAIN u
        PROVE  /\ i \in DOMAIN batch /\ batch[i] \in Event
               /\ StatusOf[batch[i].id] # "other"
    BY <1>1, BatchFacts DEF SlotStates, SlotEventsAt
  <2>2. ASSUME NEW i \in DOMAIN u
        PROVE  /\ SlotOf[batch[i].id] = u[i].slot /\ batch[i].parent = u[i].parent
               /\ u[i].finalized = (StatusOf[batch[i].id] = "finalized")
    BY <1>2 DEF UpdateOf
  <2>3. ASSUME NEW i \in DOMAIN u PROVE u[i].slot \in DbSlots
    BY DEF Recordable
  <2> HIDE DEF u
  <2>4. ASSUME NEW i \in DOMAIN u PROVE batch[i].id \in stored
    BY <2>1, <2>2, <2>3 DEF StorableIds, StorableAt, Storable
  <2> QED BY <2>1, <2>2, <2>3, <2>4
<1>4. /\ FinalizedSlots(table) \subseteq FinalizedSlots(T)
      /\ \A s \in FinalizedSlots(T) :
            \/ s \in FinalizedSlots(table)
            \/ \E i \in DOMAIN u : u[i].slot = s /\ u[i].finalized
      /\ \A s \in DbSlots :
            \/ T[s].parent = table[s].parent
            \/ \E i \in DOMAIN u : u[i].slot = s /\ T[s].parent = u[i].parent
  BY <1>1, <1>2, RecordEffect
<1>5. table' \in {table, T}
  OBVIOUS
<1> HIDE DEF u, T
<1>6. FinalizedSlots(table) \subseteq FinalizedSlots(table')
  BY <1>4, <1>5
<1>7. FinalityAfterPersistence'
  <2>1. ASSUME NEW s \in FinalizedSlots(T)
        PROVE  \E id \in stored : SlotOf[id] = s /\ StatusOf[id] = "finalized"
    <3>1. CASE s \in FinalizedSlots(table)
      BY <3>1 DEF DbInv, FinalityAfterPersistence
    <3>2. CASE \E i \in DOMAIN u : u[i].slot = s /\ u[i].finalized
      BY <3>2, <1>3
    <3> QED BY <3>1, <3>2, <1>4
  <2>2. CASE table' = table
    BY <2>2 DEF DbInv, FinalityAfterPersistence
  <2>3. CASE table' = T
    BY <2>1, <2>3 DEF FinalityAfterPersistence
  <2> QED BY <1>5, <2>2, <2>3
<1>8. RootedLinks'
  <2>1. ASSUME NEW s \in DbSlots \cap Rooted, T[s].parent # None
        PROVE  /\ T[s].parent < s
               /\ \A r \in Rooted : ~(T[s].parent < r /\ r < s)
    <3>1. CASE T[s].parent = table[s].parent
      BY <2>1, <3>1 DEF DbInv, RootedLinks
    <3>2. CASE \E i \in DOMAIN u : u[i].slot = s /\ T[s].parent = u[i].parent
      <4>1. PICK i \in DOMAIN u : u[i].slot = s /\ T[s].parent = u[i].parent
        BY <3>2
      <4>2. /\ batch[i] \in Event /\ StatusOf[batch[i].id] # "other"
            /\ SlotOf[batch[i].id] = s /\ batch[i].parent = T[s].parent
        BY <4>1, <1>3
      <4> QED BY <2>1, <4>2, LedgerAssumption
    <3> QED BY <3>1, <3>2, <1>4
  <2>2. CASE table' = table
    BY <2>2 DEF DbInv, RootedLinks
  <2>3. CASE table' = T
    BY <2>1, <2>3 DEF RootedLinks
  <2> QED BY <1>5, <2>2, <2>3
<1>9. FrontierSound'
  BY <1>6 DEF DbInv, FrontierSound
<1>10. CursorAfterPersistence'
  BY DEF DbInv, CursorAfterPersistence
<1> QED BY <1>6, <1>7, <1>8, <1>9, <1>10 DEF DbInv

\* The watermark upsert: the walk from the anchor or the stored watermark meets
\* every rooted slot on its way.
LEMMA WatermarkMoves ==
    ASSUME TypeOK, DbInv, FinalizedSlots(table) # {},
           selected = [watermark |-> Watermark(table, contiguous),
                       head |-> FinalizedHead(table)],
           contiguous' = Greatest(contiguous, selected.watermark),
           head' = Greatest(head, selected.head),
           anchor' = IF contiguous = None THEN Seed(table, None) ELSE anchor,
           UNCHANGED <<stored, cursor, table>>
    PROVE  /\ DbInv'
           /\ contiguous' >= contiguous /\ head' >= head
           /\ contiguous' = Watermark(table, contiguous) /\ head' = FinalizedHead(table)
           /\ {contiguous', head', anchor'} \subseteq FinalizedSlots(table)
           /\ anchor' <= contiguous' /\ contiguous' <= head'
           /\ \A r \in Rooted : (anchor' <= r /\ r <= contiguous') =>
                                   r \in FinalizedSlots(table)
<1> DEFINE fin == FinalizedSlots(table)
           w == Watermark(table, contiguous)
           h == FinalizedHead(table)
           seed == Seed(table, contiguous)
<1>1. /\ table \in Tables /\ contiguous \in DbSlotOrNone /\ head \in DbSlotOrNone
      /\ anchor \in DbSlotOrNone
  BY DEF TypeOK
<1>2. fin \subseteq DbSlots /\ DbSlots \subseteq Nat /\ None \notin DbSlots /\ None = -1
      /\ Rooted \in SUBSET Slots /\ Slots \subseteq Nat
  BY SlotFacts, LedgerAssumption DEF FinalizedSlots
<1>3. contiguous # None => contiguous \in fin
  BY DEF DbInv, FrontierSound
<1>4. /\ seed \in fin /\ w \in Chain(table, seed) /\ w \in fin /\ w >= contiguous
      /\ seed <= w /\ h \in fin /\ w <= h
  BY <1>1, <1>3, WatermarkBounds
<1>5. \A s \in fin : s <= h
  <2>1. fin \in SUBSET Slots
    BY <1>2, SlotFacts
  <2> HIDE DEF fin
  <2>2. \A s \in fin : s <= MaxOrNone(fin)
    BY <2>1, MaxOrNoneIsMax
  <2> QED BY <2>2 DEF fin, FinalizedHead
<1>6. contiguous' = w /\ head' = h
  <2>1. contiguous \in Int /\ head \in Int /\ w \in Int /\ h \in Int
    <3>1. contiguous \in Int /\ head \in Int
      BY <1>1, SlotFacts
    <3> HIDE DEF w, h, fin
    <3>2. w \in Nat /\ h \in Nat
      BY <1>2, <1>4
    <3> QED BY <3>1, <3>2
  <2>2. w >= contiguous
    BY <1>4
  <2>3. h >= head
    <3>1. head = None \/ head \in fin
      BY DEF DbInv, FrontierSound
    <3>2. h \in Nat
      BY <1>2, <1>4
    <3>3. head \in fin => head <= h
      BY <1>5
    <3> HIDE DEF h, fin
    <3> QED BY <3>1, <3>2, <3>3, <1>2, <2>1
  <2>4. contiguous' = Greatest(contiguous, w) /\ head' = Greatest(head, h)
    OBVIOUS
  <2> HIDE DEF w, h
  <2> QED BY <2>1, <2>2, <2>3, <2>4 DEF Greatest
<1>7. \A s \in fin : table[s].parent # None =>
          /\ table[s].parent < s
          /\ \A r \in Rooted : ~(table[s].parent < r /\ r < s)
  <2>1. \A s \in fin : s \in DbSlots \cap Rooted
    <3>1. ASSUME NEW s \in fin PROVE s \in Rooted
      <4>1. PICK id \in stored : SlotOf[id] = s /\ StatusOf[id] = "finalized"
        BY DEF DbInv, FinalityAfterPersistence
      <4>2. id \in EventId
        BY DEF TypeOK
      <4> QED BY <4>1, <4>2, LedgerAssumption
    <3> QED BY <3>1, <1>2
  <2> QED BY <2>1 DEF DbInv, RootedLinks
<1>8. /\ anchor' \in fin /\ anchor' <= seed
      /\ \A r \in Rooted : (anchor' <= r /\ r <= seed) => r \in fin
  <2>1. CASE contiguous = None
    <3>1. anchor' = seed
      BY <2>1
    <3>2. seed \in Nat
      BY <1>2, <1>4
    <3>3. ASSUME NEW r \in Rooted, seed <= r, r <= seed PROVE r \in fin
      <4>1. r \in Nat BY <1>2
      <4>2. r = seed BY <4>1, <3>2, <3>3
      <4> QED BY <4>2, <1>4
    <3> HIDE DEF seed, fin
    <3> QED BY <3>1, <3>2, <3>3, <1>4
  <2>2. CASE contiguous # None
    <3>1. anchor' = anchor /\ seed = contiguous
      BY <2>2, <1>1, SeedType
    <3>2. /\ anchor \in fin /\ anchor <= contiguous
          /\ \A r \in Rooted : (anchor <= r /\ r <= contiguous) => r \in fin
      BY <2>2 DEF DbInv, FrontierSound
    <3> HIDE DEF seed, fin
    <3> QED BY <3>1, <3>2
  <2> QED BY <2>1, <2>2
<1>9. \A c \in Chain(table, seed), r \in Rooted : (anchor' <= r /\ r <= c) => r \in fin
  <2>1. anchor' \in DbSlots
    BY <1>2, <1>8
  <2> QED BY <1>1, <1>2, <1>4, <1>7, <1>8, <2>1, ChainHasNoHole
<1>10. /\ {contiguous', head', anchor'} \subseteq fin
       /\ anchor' <= contiguous' /\ contiguous' <= head'
       /\ \A r \in Rooted : (anchor' <= r /\ r <= contiguous') => r \in fin
  <2>1. anchor' <= w
    <3>1. anchor' \in Nat /\ seed \in Nat /\ w \in Nat
      BY <1>2, <1>4, <1>8
    <3> HIDE DEF seed, w, fin
    <3> QED BY <3>1, <1>4, <1>8
  <2> HIDE DEF w, h, fin, seed
  <2> QED BY <2>1, <1>4, <1>6, <1>8, <1>9
<1>11. FrontierSound'
  <2>1. FinalizedSlots(table)' = fin
    BY DEF FinalizedSlots
  <2> QED BY <1>10, <2>1 DEF FrontierSound
<1>12. CursorAfterPersistence' /\ FinalityAfterPersistence' /\ RootedLinks'
  BY DEF DbInv, CursorAfterPersistence, FinalityAfterPersistence, RootedLinks
<1>13. contiguous' >= contiguous /\ head' >= head
  <2>1. contiguous \in Int /\ head \in Int
    BY <1>1, SlotFacts
  <2>2. w \in Int /\ h \in Int
    <3> HIDE DEF w, h, fin
    <3> QED BY <1>2, <1>4
  <2>3. contiguous' = Greatest(contiguous, w) /\ head' = Greatest(head, h)
    OBVIOUS
  <2> HIDE DEF w, h
  <2> QED BY <2>1, <2>2, <2>3, GreatestFacts
<1>14. DbInv'
  BY <1>11, <1>12 DEF DbInv
<1>15. contiguous' = Watermark(table, contiguous) /\ head' = FinalizedHead(table)
  BY <1>6
<1> HIDE DEF w, h, seed
<1> QED BY <1>10, <1>13, <1>14, <1>15

-----------------------------------------------------------------------------
(***************************************************************************)
(* Every step changes the database in one of these four ways or not at all. *)
(***************************************************************************)
StoringStep ==
    /\ stored' \in {stored, stored \cup StorableIds(batch)}
    /\ UNCHANGED <<cursor, table, contiguous, head, anchor>>

CursorStep ==
    /\ StorableIds(batch) \subseteq stored
    /\ LastSlot(batch) \in DbSlots
    /\ cursor' \in {cursor, Greatest(cursor, LastSlot(batch))}
    /\ UNCHANGED <<stored, table, contiguous, head, anchor>>

TableStep ==
    /\ StorableIds(batch) \subseteq stored
    /\ Recordable(SlotStates(batch))
    /\ table' \in {table, Record(table, SlotStates(batch))}
    /\ UNCHANGED <<stored, cursor, contiguous, head, anchor>>

WatermarkStep ==
    /\ FinalizedSlots(table) # {}
    /\ selected = [watermark |-> Watermark(table, contiguous), head |-> FinalizedHead(table)]
    /\ contiguous' = Greatest(contiguous, selected.watermark)
    /\ head' = Greatest(head, selected.head)
    /\ anchor' = IF contiguous = None THEN Seed(table, None) ELSE anchor
    /\ UNCHANGED <<stored, cursor, table>>

LEMMA StepEffect ==
    ASSUME IInv, [Next]_vars
    PROVE  UNCHANGED dbVars \/ StoringStep \/ CursorStep \/ TableStep \/ WatermarkStep
<1> USE DEF dbVars
<1>1. ASSUME NEW e \in Event, ProducerSend(e) PROVE UNCHANGED dbVars
  BY <1>1 DEF ProducerSend
<1>2. ASSUME NEW how \in {"ok", "error", "panicked"}, ProducerExit(how)
      PROVE  UNCHANGED dbVars
  BY <1>2 DEF ProducerExit
<1>3. CASE Receive BY <1>3 DEF Receive
<1>4. CASE ChannelClosed BY <1>4 DEF ChannelClosed
<1>5. CASE WriteEvents BY <1>5 DEF WriteEvents, StoringStep
<1>6. CASE UpdateCursor
  BY <1>6 DEF UpdateCursor, CursorStep, IInv, WorkInv, BatchWritten
<1>7. CASE RecordSlotStates
  BY <1>7 DEF RecordSlotStates, TableStep, IInv, WorkInv, BatchWritten
<1>8. CASE SelectWatermark BY <1>8 DEF SelectWatermark
<1>9. CASE UpsertWatermark
  BY <1>9 DEF UpsertWatermark, WatermarkStep, IInv, WorkInv, SelectionFresh
<1>10. CASE BatchDone BY <1>10 DEF BatchDone
<1>11. CASE Join BY <1>11 DEF Join
<1>12. CASE CursorOutOfRange BY <1>12 DEF CursorOutOfRange
<1>13. CASE RecordOutOfRange BY <1>13 DEF RecordOutOfRange
<1>14. CASE WriteFails BY <1>14 DEF WriteFails, StoringStep
<1>15. CASE CursorFails
  BY <1>15 DEF CursorFails, CursorStep, IInv, WorkInv, BatchWritten
<1>16. CASE RecordFails
  BY <1>16 DEF RecordFails, TableStep, IInv, WorkInv, BatchWritten
<1>17. CASE SelectFails BY <1>17 DEF SelectFails
<1>18. CASE UpsertFails
  BY <1>18 DEF UpsertFails, WatermarkStep, IInv, WorkInv, SelectionFresh
<1>19. CASE Crash BY <1>19 DEF Crash
<1>20. CASE Restart BY <1>20 DEF Restart
<1>21. CASE UNCHANGED vars BY <1>21 DEF vars
<1> QED
  BY <1>1, <1>2, <1>3, <1>4, <1>5, <1>6, <1>7, <1>8, <1>9, <1>10, <1>11, <1>12, <1>13,
     <1>14, <1>15, <1>16, <1>17, <1>18, <1>19, <1>20, <1>21
  DEF Next, Producer, Receiver, WriteBatch, StatementFails

LEMMA DbStepKeeps == IInv /\ [Next]_vars => DbInv'
<1> SUFFICES ASSUME IInv, [Next]_vars PROVE DbInv'
  OBVIOUS
<1>1. TypeOK /\ DbInv
  BY DEF IInv
<1>2. CASE UNCHANGED dbVars BY <1>1, <1>2, DbUnchanged
<1>3. CASE StoringStep BY <1>1, <1>3, StoredGrows DEF StoringStep
<1>4. CASE CursorStep BY <1>1, <1>4, CursorMoves DEF CursorStep
<1>5. CASE TableStep BY <1>1, <1>5, TableGrows DEF TableStep
<1>6. CASE WatermarkStep BY <1>1, <1>6, WatermarkMoves DEF WatermarkStep
<1> QED BY <1>2, <1>3, <1>4, <1>5, <1>6, StepEffect

\* Once record_slot_states applied a finalized update, the walk has a seed.
LEMMA FinalizedEventSeeds ==
    ASSUME TypeOK, Recordable(SlotStates(batch)),
           table' = Record(table, SlotStates(batch)),
           \E i \in SlotEventsAt(batch) : StatusOf[batch[i].id] = "finalized"
    PROVE  FinalizedSlots(table') # {}
<1>1. PICK i \in SlotEventsAt(batch) : StatusOf[batch[i].id] = "finalized"
  OBVIOUS
<1>2. i \in DOMAIN SlotStates(batch) /\ SlotStates(batch)[i] = UpdateOf(batch[i])
  BY DEF SlotStates
<1>3. SlotStates(batch)[i].finalized /\ SlotStates(batch)[i].slot = SlotOf[batch[i].id]
  <2> DEFINE e == batch[i]
  <2>1. UpdateOf(e).slot = SlotOf[e.id]
        /\ UpdateOf(e).finalized = (StatusOf[e.id] = "finalized")
    BY DEF UpdateOf
  <2> HIDE DEF e
  <2>2. SlotStates(batch)[i] = UpdateOf(e) /\ StatusOf[e.id] = "finalized"
    BY <1>1, <1>2 DEF e
  <2>3. SlotStates(batch)[i].finalized /\ SlotStates(batch)[i].slot = SlotOf[e.id]
    BY <2>1, <2>2
  <2> QED BY <2>3 DEF e
<1>4. SlotOf[batch[i].id] \in DbSlots
  BY <1>2, <1>3 DEF Recordable
<1>5. Record(table, SlotStates(batch))[SlotOf[batch[i].id]].finalized
  BY <1>2, <1>3, <1>4 DEF Record
<1>6. SlotOf[batch[i].id] \in FinalizedSlots(Record(table, SlotStates(batch)))
  BY <1>4, <1>5 DEF FinalizedSlots
<1> QED BY <1>6

LEMMA WorkStepKeeps == IInv /\ [Next]_vars => WorkInv'
<1> SUFFICES ASSUME IInv, [Next]_vars PROVE WorkInv'
  OBVIOUS
<1>0. TypeOK /\ BatchWritten /\ SelectionFresh
  BY DEF IInv, WorkInv
<1> USE DEF WorkInv, BatchWritten, SelectionFresh, dbVars
<1>1. ASSUME NEW e \in Event, ProducerSend(e) PROVE WorkInv'
  BY <1>0, <1>1 DEF ProducerSend
<1>2. ASSUME NEW how \in {"ok", "error", "panicked"}, ProducerExit(how) PROVE WorkInv'
  BY <1>0, <1>2 DEF ProducerExit
<1>3. CASE Receive BY <1>3 DEF Receive
<1>4. CASE ChannelClosed BY <1>4 DEF ChannelClosed
<1>5. CASE WriteEvents BY <1>5 DEF WriteEvents
<1>6. CASE UpdateCursor BY <1>0, <1>6 DEF UpdateCursor
<1>7. CASE RecordSlotStates
  <2>1. pc' = "select" => FinalizedSlots(table') # {}
    BY <1>0, <1>7, FinalizedEventSeeds DEF RecordSlotStates
  <2>2. pc' \in {"select", "progress"} /\ stored' = stored /\ batch' = batch
    BY <1>7 DEF RecordSlotStates
  <2>3. StorableIds(batch) \subseteq stored
    BY <1>0, <1>7 DEF RecordSlotStates
  <2> QED BY <2>1, <2>2, <2>3
<1>8. CASE SelectWatermark BY <1>0, <1>8 DEF SelectWatermark
<1>9. CASE UpsertWatermark BY <1>0, <1>9 DEF UpsertWatermark
<1>10. CASE BatchDone BY <1>10 DEF BatchDone
<1>11. CASE Join BY <1>11 DEF Join
<1>12. CASE CursorOutOfRange BY <1>12 DEF CursorOutOfRange, FailWith
<1>13. CASE RecordOutOfRange BY <1>13 DEF RecordOutOfRange, FailWith
<1>14. CASE WriteFails BY <1>14 DEF WriteFails, FailWith
<1>15. CASE CursorFails BY <1>15 DEF CursorFails, FailWith
<1>16. CASE RecordFails BY <1>16 DEF RecordFails, FailWith
<1>17. CASE SelectFails BY <1>17 DEF SelectFails, FailWith
<1>18. CASE UpsertFails BY <1>18 DEF UpsertFails, FailWith
<1>19. CASE Crash BY <1>19 DEF Crash
<1>20. CASE Restart BY <1>20 DEF Restart
<1>21. CASE UNCHANGED vars BY <1>0, <1>21 DEF vars, processVars
<1> QED
  BY <1>1, <1>2, <1>3, <1>4, <1>5, <1>6, <1>7, <1>8, <1>9, <1>10, <1>11, <1>12, <1>13,
     <1>14, <1>15, <1>16, <1>17, <1>18, <1>19, <1>20, <1>21
  DEF Next, Producer, Receiver, WriteBatch, StatementFails

LEMMA InvInit == Init => IInv
<1> SUFFICES ASSUME Init PROVE IInv
  OBVIOUS
<1>1. TypeOK
  BY TypeInit
<1>2. FinalizedSlots(table) = {}
  BY DEF Init, EmptyTable, FinalizedSlots
<1>3. DbInv
  BY <1>2 DEF Init, DbInv, CursorAfterPersistence, FinalityAfterPersistence,
              RootedLinks, FrontierSound, EmptyTable
<1>4. WorkInv
  BY DEF Init, WorkInv, BatchWritten, SelectionFresh
<1> QED BY <1>1, <1>3, <1>4 DEF IInv

LEMMA InvStep == IInv /\ [Next]_vars => IInv'
BY TypeStep, DbStepKeeps, WorkStepKeeps DEF IInv

LEMMA InvHolds == Spec => []IInv
BY InvInit, InvStep, PTL DEF Spec

-----------------------------------------------------------------------------
\* Wherever a statement fails or the process dies, the cursor names the slot of
\* a stored event.
THEOREM CursorSafe == Spec => []CursorAfterPersistence
<1>1. IInv => CursorAfterPersistence
  BY DEF IInv, DbInv
<1> QED BY <1>1, InvHolds, PTL

\* A slot counts as finalized only once the event that says so is stored.
THEOREM FinalitySafe == Spec => []FinalityAfterPersistence
<1>1. IInv => FinalityAfterPersistence
  BY DEF IInv, DbInv
<1> QED BY <1>1, InvHolds, PTL

\* The watermark leaves no rooted slot out, in whatever order and across however
\* many processes the slot events came.
THEOREM WatermarkSafe == Spec => []WatermarkGapFree
<1>1. IInv => WatermarkGapFree
  <2>1. SUFFICES ASSUME IInv, contiguous # None
        PROVE  /\ anchor # None /\ anchor <= contiguous
               /\ \A r \in Rooted :
                     (anchor <= r /\ r <= contiguous) => r \in FinalizedSlots(table)
    BY DEF WatermarkGapFree
  <2>2. FinalizedSlots(table) \subseteq DbSlots
    BY DEF FinalizedSlots
  <2> QED BY <2>1, <2>2, SlotFacts DEF IInv, DbInv, FrontierSound
<1> QED BY <1>1, InvHolds, PTL

\* At the end of write_batch nothing more is reachable: the statements that
\* lead there without the upsert had no finalized slot event to record.
LEMMA ExhaustedStep ==
    ASSUME IInv, WatermarkExhaustsChain, [Next]_vars
    PROVE  WatermarkExhaustsChain'
<1>0. TypeOK /\ DbInv /\ WorkInv
  BY DEF IInv
<1>1. CASE UpsertWatermark
  <2>1. WatermarkStep
    BY <1>0, <1>1 DEF UpsertWatermark, WatermarkStep, WorkInv, SelectionFresh
  <2>2. /\ table' = table /\ contiguous' = Watermark(table, contiguous)
        /\ head' = FinalizedHead(table)
    BY <1>0, <2>1, WatermarkMoves DEF WatermarkStep
  <2>3. contiguous # None => contiguous \in FinalizedSlots(table)
    BY <1>0 DEF DbInv, FrontierSound
  <2>4. /\ table \in Tables /\ contiguous \in DbSlotOrNone
        /\ FinalizedSlots(table) # {}
    BY <1>0, <2>1 DEF TypeOK, WatermarkStep
  <2>5. Watermark(table, contiguous') = contiguous'
    BY <2>2, <2>3, <2>4, WatermarkIsFixed
  <2> QED BY <2>2, <2>5 DEF WatermarkExhaustsChain
<1>2. CASE UpdateCursor
  BY <1>2 DEF UpdateCursor, WatermarkExhaustsChain, Advanced
<1>3. CASE RecordSlotStates
  BY <1>3 DEF RecordSlotStates, WatermarkExhaustsChain, Advanced
<1>4. ASSUME NEW e \in Event, ProducerSend(e) PROVE WatermarkExhaustsChain'
  BY <1>4 DEF ProducerSend, WatermarkExhaustsChain, Advanced, dbVars
<1>5. ASSUME NEW how \in {"ok", "error", "panicked"}, ProducerExit(how)
      PROVE  WatermarkExhaustsChain'
  BY <1>5 DEF ProducerExit, WatermarkExhaustsChain, Advanced, dbVars
<1>6. CASE UNCHANGED vars
  BY <1>6 DEF vars, dbVars, processVars, WatermarkExhaustsChain, Advanced
<1>7. CASE pc' # "progress"
  BY <1>7 DEF WatermarkExhaustsChain, Advanced
<1>8. ASSUME Next PROVE
        \/ pc' # "progress" \/ UpsertWatermark \/ UpdateCursor \/ RecordSlotStates
        \/ \E e \in Event : ProducerSend(e)
        \/ \E how \in {"ok", "error", "panicked"} : ProducerExit(how)
  <2>1. CASE Receive BY <2>1 DEF Receive
  <2>2. CASE ChannelClosed BY <2>2 DEF ChannelClosed
  <2>3. CASE WriteEvents BY <2>3 DEF WriteEvents
  <2>4. CASE SelectWatermark BY <2>4 DEF SelectWatermark
  <2>5. CASE BatchDone BY <2>5 DEF BatchDone
  <2>6. CASE Join BY <2>6 DEF Join
  <2>7. CASE CursorOutOfRange BY <2>7 DEF CursorOutOfRange, FailWith
  <2>8. CASE RecordOutOfRange BY <2>8 DEF RecordOutOfRange, FailWith
  <2>9. CASE WriteFails BY <2>9 DEF WriteFails, FailWith
  <2>10. CASE CursorFails BY <2>10 DEF CursorFails, FailWith
  <2>11. CASE RecordFails BY <2>11 DEF RecordFails, FailWith
  <2>12. CASE SelectFails BY <2>12 DEF SelectFails, FailWith
  <2>13. CASE UpsertFails BY <2>13 DEF UpsertFails, FailWith
  <2>14. CASE Crash BY <2>14 DEF Crash
  <2>15. CASE Restart BY <2>15 DEF Restart
  <2> QED
    BY <1>8, <2>1, <2>2, <2>3, <2>4, <2>5, <2>6, <2>7, <2>8, <2>9, <2>10, <2>11, <2>12,
       <2>13, <2>14, <2>15
    DEF Next, Producer, Receiver, WriteBatch, StatementFails
<1> QED BY <1>1, <1>2, <1>3, <1>4, <1>5, <1>6, <1>7, <1>8

\* After write_batch advanced the watermark it is as far as the recorded links
\* go, those of earlier processes included, and the head is the highest
\* finalized slot.
THEOREM WatermarkExhausted == Spec => []WatermarkExhaustsChain
<1>1. Init => WatermarkExhaustsChain
  BY DEF Init, WatermarkExhaustsChain, Advanced
<1>2. IInv /\ WatermarkExhaustsChain /\ [Next]_vars => WatermarkExhaustsChain'
  BY ExhaustedStep
<1> QED BY <1>1, <1>2, InvHolds, PTL DEF Spec

\* A link that jumps over no rooted slot leaves a slot one finalized child at
\* most: of two, the higher one's link would jump over the lower one.
LEMMA LinksInSingleFile == IInv => SingleFile(table)
<1> SUFFICES ASSUME IInv, NEW s \in DbSlots, NEW c \in Children(table, s)
             PROVE  c > s /\ Children(table, s) = {c}
  BY DEF SingleFile
<1>1. ASSUME NEW d \in Children(table, s)
      PROVE  /\ d \in Rooted /\ d \in Nat /\ d > s
             /\ \A r \in Rooted : ~(s < r /\ r < d)
  <2>1. d \in DbSlots /\ d \in FinalizedSlots(table) /\ table[d].parent = s
    BY DEF Children, FinalizedSlots
  <2>2. PICK id \in stored : SlotOf[id] = d /\ StatusOf[id] = "finalized"
    BY <2>1 DEF IInv, DbInv, FinalityAfterPersistence
  <2>3. id \in EventId
    BY DEF IInv, TypeOK
  <2>4. d \in Rooted
    BY <2>2, <2>3, LedgerAssumption
  <2>5. s # None /\ s \in Nat /\ d \in Nat
    BY <2>1, SlotFacts
  <2>6. table[d].parent < d /\ \A r \in Rooted : ~(table[d].parent < r /\ r < d)
    BY <2>1, <2>4, <2>5 DEF IInv, DbInv, RootedLinks
  <2> QED BY <2>1, <2>4, <2>5, <2>6
<1>2. ASSUME NEW d \in Children(table, s) PROVE d = c
  <2>1. ~(s < d /\ d < c) /\ ~(s < c /\ c < d) /\ c > s /\ d > s
    BY <1>1
  <2>2. c \in Nat /\ d \in Nat /\ s \in Nat
    BY <1>1, SlotFacts
  <2> QED BY <2>1, <2>2
<1> QED BY <1>1, <1>2

(***************************************************************************)
(* The in-memory `advance` the unit tests run on and the recursive query    *)
(* agree on every table the pipeline builds: both walk a single file of     *)
(* finalized slots to its end.                                              *)
(***************************************************************************)
THEOREM TwinsAgree == Spec => []TwinAgrees
<1>1. IInv => TwinAgrees
  <2> SUFFICES ASSUME IInv PROVE Advance(table, contiguous) = Watermark(table, contiguous)
    BY DEF TwinAgrees
  <2>1. table \in Tables /\ contiguous \in DbSlotOrNone
    BY DEF IInv, TypeOK
  <2>2. CASE Seed(table, contiguous) = None
    <3>1. Chain(table, Seed(table, contiguous)) = {}
      BY <2>2 DEF Chain
    <3>2. {} \in SUBSET Slots
      OBVIOUS
    <3>3. MaxOrNone({}) = None
      BY <3>2, MaxOrNoneIsMax
    <3> QED BY <2>2, <3>1, <3>3 DEF Advance, Watermark
  <2>3. CASE Seed(table, contiguous) # None
    <3>1. Seed(table, contiguous) \in DbSlots
      BY <2>1, <2>3, SeedType DEF DbSlotOrNone
    <3> QED BY <2>1, <2>3, <3>1, LinksInSingleFile, WalkReachesTop DEF Advance, Watermark
  <2> QED BY <2>2, <2>3
<1> QED BY <1>1, InvHolds, PTL

LEMMA ColumnsStep ==
    ASSUME IInv, [Next]_vars
    PROVE  cursor' >= cursor /\ contiguous' >= contiguous /\ head' >= head
<1>1. TypeOK /\ DbInv
  BY DEF IInv
<1>2. cursor \in Int /\ contiguous \in Int /\ head \in Int
  BY <1>1, SlotFacts DEF TypeOK
<1>3. CASE StoringStep \/ TableStep \/ UNCHANGED dbVars
  BY <1>2, <1>3 DEF StoringStep, TableStep, dbVars
<1>4. CASE CursorStep
  <2>1. LastSlot(batch) \in Int
    <3>1. LastSlot(batch) \in DbSlots
      BY <1>4 DEF CursorStep
    <3> QED BY <3>1, SlotAssumption DEF DbSlots
  <2>2. Greatest(cursor, LastSlot(batch)) >= cursor
    BY <1>2, <2>1, GreatestFacts
  <2> QED BY <1>2, <1>4, <2>2 DEF CursorStep
<1>5. CASE WatermarkStep
  BY <1>1, <1>2, <1>5, WatermarkMoves DEF WatermarkStep
<1> QED BY <1>3, <1>4, <1>5, StepEffect

\* No durable slot column ever moves back.
THEOREM ColumnsMonotone == Spec => DurableColumnsMonotone
<1>1. IInv /\ [Next]_vars =>
        [cursor' >= cursor /\ contiguous' >= contiguous /\ head' >= head]_dbVars
  BY ColumnsStep
<1> QED BY <1>1, InvHolds, PTL DEF Spec, DurableColumnsMonotone

-----------------------------------------------------------------------------
(***************************************************************************)
(* Refinement: the pipeline implements the durable sink.                    *)
(***************************************************************************)
LEMMA SinkInitial == Init => Sink!SinkInit
<1> SUFFICES ASSUME Init PROVE Sink!SinkInit
  OBVIOUS
<1>1. FinalizedSlots(table) = {}
  BY DEF Init, EmptyTable, FinalizedSlots
<1> QED BY <1>1 DEF Init, Sink!SinkInit, Sink!None, None

LEMMA SinkStep == IInv /\ IInv' /\ [Next]_vars => [Sink!SinkNext]_(Sink!sinkVars)
<1> SUFFICES ASSUME IInv, IInv', [Next]_vars
             PROVE  Sink!SinkNext \/ UNCHANGED Sink!sinkVars
  OBVIOUS
<1>1. TypeOK /\ DbInv /\ TypeOK' /\ DbInv'
  BY DEF IInv
<1>2. CASE UNCHANGED dbVars
  BY <1>2 DEF dbVars, Sink!sinkVars, FinalizedSlots
<1>3. CASE StoringStep
  <2>1. stored' \in SUBSET EventId /\ stored \subseteq stored'
    BY <1>1, <1>3 DEF StoringStep, TypeOK
  <2>2. FinalizedSlots(table)' = FinalizedSlots(table)
    BY <1>3 DEF StoringStep, FinalizedSlots
  <2>3. Sink!StoreEvents
    BY <1>3, <2>1, <2>2 DEF StoringStep, Sink!StoreEvents
  <2> QED BY <2>3 DEF Sink!SinkNext
<1>4. CASE CursorStep
  <2>1. FinalizedSlots(table)' = FinalizedSlots(table)
    BY <1>4 DEF CursorStep, FinalizedSlots
  <2>2. CASE cursor' = cursor
    BY <1>4, <2>1, <2>2 DEF CursorStep, Sink!sinkVars
  <2>3. CASE cursor' # cursor
    <3>1. cursor \in Int /\ LastSlot(batch) \in Nat /\ None = -1
      BY <1>1, <1>4, SlotFacts DEF TypeOK, CursorStep
    <3>2. cursor' = Greatest(cursor, LastSlot(batch))
      BY <1>4, <2>3 DEF CursorStep
    <3>3. cursor' > cursor /\ cursor' = LastSlot(batch)
      BY <2>3, <3>1, <3>2 DEF Greatest
    <3>4. cursor' # None
      BY <3>1, <3>3
    <3>5. \E id \in stored : cursor' = SlotOf[id]
      BY <1>1, <1>4, <3>4 DEF DbInv, CursorAfterPersistence, CursorStep
    <3>6. Sink!MoveCursor
      BY <1>4, <2>1, <3>3, <3>5 DEF CursorStep, Sink!MoveCursor
    <3> QED BY <3>6 DEF Sink!SinkNext
  <2> QED BY <2>2, <2>3
<1>5. CASE TableStep
  <2>1. FinalizedSlots(table) \subseteq FinalizedSlots(table')
    BY <1>1, <1>5, TableGrows DEF TableStep
  <2>2. \A s \in FinalizedSlots(table') :
           \E id \in stored : SlotOf[id] = s /\ StatusOf[id] = "finalized"
    BY <1>1, <1>5 DEF DbInv, FinalityAfterPersistence, TableStep
  <2>3. FinalizedSlots(table') \subseteq
           {SlotOf[id] : id \in {i \in stored : StatusOf[i] = "finalized"}}
    BY <2>2
  <2>4. Sink!RecordFinality
    BY <1>5, <2>1, <2>3 DEF TableStep, Sink!RecordFinality
  <2> QED BY <2>4 DEF Sink!SinkNext
<1>6. CASE WatermarkStep
  <2>1. /\ contiguous' >= contiguous /\ head' >= head
        /\ {contiguous', head', anchor'} \subseteq FinalizedSlots(table)
        /\ anchor' <= contiguous' /\ contiguous' <= head'
        /\ \A r \in Rooted : (anchor' <= r /\ r <= contiguous') =>
                                r \in FinalizedSlots(table)
    BY <1>1, <1>6, WatermarkMoves DEF WatermarkStep
  <2>2. FinalizedSlots(table)' = FinalizedSlots(table)
    BY <1>6 DEF WatermarkStep, FinalizedSlots
  <2>3. contiguous' \in Int /\ head' \in Int
    BY <1>1, SlotFacts DEF TypeOK
  <2>4. /\ contiguous' \in FinalizedSlots(table) /\ head' \in FinalizedSlots(table)
        /\ head' >= contiguous'
    BY <2>1, <2>3
  <2>5. IF contiguous = None
          THEN anchor' \in FinalizedSlots(table) /\ anchor' <= contiguous'
          ELSE anchor' = anchor
    BY <1>6, <2>1 DEF WatermarkStep
  <2>6. Sink!GapFree(anchor', contiguous')
    BY <2>1 DEF Sink!GapFree
  <2>7. Sink!AdvanceWatermark
    BY <1>6, <2>1, <2>2, <2>4, <2>5, <2>6
    DEF WatermarkStep, Sink!AdvanceWatermark, Sink!None, None
  <2> QED BY <2>7 DEF Sink!SinkNext
<1> QED BY <1>2, <1>3, <1>4, <1>5, <1>6, StepEffect

\* Seen from the database, the pipeline with its failures, crashes and restarts
\* does nothing the durable sink does not allow.
THEOREM PipelineImplementsSink == Spec => ImplementsSink
<1>1. Init => Sink!SinkInit
  BY SinkInitial
<1>2. IInv /\ IInv' /\ [Next]_vars => [Sink!SinkNext]_(Sink!sinkVars)
  BY SinkStep
<1> QED BY <1>1, <1>2, InvHolds, PTL DEF Spec, ImplementsSink, Sink!SinkSpec
=============================================================================
