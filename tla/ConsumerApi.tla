----------------------------- MODULE ConsumerApi -----------------------------
(***************************************************************************)
(* The consumer side of the database while replays run, fail and are run    *)
(* again: the queries of crates/storage/src/api.rs behind GET               *)
(* /v1/events/recent and /v1/streams/{name}/lag, and a consumer that        *)
(* decodes the transactions it reads and writes their swaps. The query      *)
(* behind /v1/swaps/recent is one ORDER BY with a LIMIT over the rows the   *)
(* consumer has written and is left out.                                    *)
(*                                                                          *)
(* A query is one SELECT, so it sees the tables as they are in one state.   *)
(* No binary calls the decoder: the consumer does what the test             *)
(* transaction_payload_yields_balance_deltas_and_inferred_swap does, with   *)
(* any event of the file, as often as it is run.                            *)
(***************************************************************************)
EXTENDS ReplayIngest, SwapDecoding, FiniteSetsExt

CONSTANTS
    TypeOf,         \* events.event_type
    SignatureOf,    \* the rank of events.signature in the text order; NoSignature is NULL
    RankOf,         \* the rank of events.event_id in the text order
    PayloadOf,      \* the token balances in the payload of a transaction
    ProgramOf,      \* the program it names
    MaxLimit,       \* 1_000
    MaxSwaps        \* bound: rows of table swaps

NoSignature == 0

ASSUME ConsumerAssumption ==
    /\ DOMAIN TypeOf = EventId
    /\ SignatureOf \in [EventId -> Nat]
    /\ RankOf \in [EventId -> Nat]
    /\ \A a, b \in EventId : RankOf[a] = RankOf[b] => a = b
    /\ DOMAIN PayloadOf = EventId
    /\ \A id \in EventId : \A balances \in PayloadOf[id] :
          Len(balances) \in Nat /\ DOMAIN balances = 1..Len(balances)
    /\ DOMAIN ProgramOf = EventId
    /\ MaxLimit \in Nat \ {0}
    /\ MaxSwaps \in Nat
    /\ MaxSlotColumn = MaxDbSlot

VARIABLE swaps      \* the rows of table swaps, in the order of their ids

apiVars == <<replayVars, swaps>>

-----------------------------------------------------------------------------
\* No filter was given.
Any == "any"

\* limit.clamp(1, 1_000), in the handler and again in the query.
Clamp(limit) == Min({Max({limit, 1}), MaxLimit})

\* Mutant: ascending, as an ORDER BY is without DESC.
OlderFirst(a, b) == SlotOf[a] < SlotOf[b] \/ (SlotOf[a] = SlotOf[b] /\ RankOf[a] < RankOf[b])

\* slot DESC, signature DESC NULLS LAST, event_id DESC
Newer(a, b) ==
    \/ SlotOf[a] > SlotOf[b]
    \/ SlotOf[a] = SlotOf[b] /\ SignatureOf[a] > SignatureOf[b]
    \/ SlotOf[a] = SlotOf[b] /\ SignatureOf[a] = SignatureOf[b] /\ RankOf[a] > RankOf[b]

\* recent_events: the first rows in that order, which is total.
RecentEvents(type, limit) ==
    LET matching == {id \in stored : type = Any \/ TypeOf[id] = type}
    IN  {id \in matching : Cardinality({o \in matching : Newer(o, id)}) < Clamp(limit)}

\* stream_lag: a stream that has no row is reported at slot 0.
StreamLag ==
    IF cursor = None THEN [persisted |-> 0, contiguous |-> None, finalized |-> None]
    ELSE [persisted |-> cursor, contiguous |-> contiguous, finalized |-> head]

-----------------------------------------------------------------------------
ConsumerInit == ReplayInit /\ swaps = <<>>

\* The swap of an event of the file; an event that does not decode adds none.
WriteSwap ==
    /\ Len(swaps) < MaxSwaps
    /\ \E id \in Ids(file) :
         /\ DecodeError(PayloadOf[id]) = "none"
         /\ \E balances \in PayloadOf[id] :
              swaps' = Append(swaps, SwapRow(SlotOf[id], SignatureOf[id], ProgramOf[id], balances))
    /\ UNCHANGED replayVars

ConsumerNext == (ReplayNext /\ UNCHANGED swaps) \/ WriteSwap

ConsumerSpec == ConsumerInit /\ [][ConsumerNext]_apiVars

\* The replay is scheduled as it is without a consumer, which owes nothing.
ConsumerFairSpec ==
    /\ ConsumerSpec
    /\ WF_replayVars(ReplayReceiver)
    /\ WF_replayVars(ReplaySend \/ ReplayEnd)

-----------------------------------------------------------------------------
(***************************************************************************)
(* A consumer that asks for at least a batch of recent events whenever a    *)
(* batch has been written sees every row of it, though it asks only for the *)
(* newest rows and earlier, failed replays have written rows too: for files *)
(* whose slots rise and batches no larger than the limit is ever granted.   *)
(***************************************************************************)
PolledBatchVisible ==
    pc = "cursor" /\ BatchSize <= MaxLimit =>
        \A limit \in BatchSize..(MaxLimit + 1) : \A type \in {Any} \cup Range(TypeOf) :
            {id \in StorableIds(batch) : type \in {Any, TypeOf[id]}}
                \subseteq RecentEvents(type, limit)

(***************************************************************************)
(* A consumer that asks for the lag first and for the newest event after it *)
(* finds an event at least as new as the slot it was told, whatever failed  *)
(* or restarted between the two requests.                                   *)
(***************************************************************************)
LagBeforeEvents ==
    [][StreamLag.persisted > 0 =>
         \E id \in RecentEvents(Any, 1)' : SlotOf[id] >= StreamLag.persisted]_apiVars

\* The tokens of a mint that the accounts of a transaction gained.
NetChange(balances, mint) ==
    MapThenSumSet(LAMBDA i : balances[i].post - balances[i].pre,
                  {i \in DOMAIN balances : balances[i].mint = mint})

Mints(balances) == {balances[i].mint : i \in DOMAIN balances}

(***************************************************************************)
(* A swap that is stored adds up: over all the accounts of a transaction of *)
(* that signature, tokenIn went down by amountIn, tokenOut went up by       *)
(* amountOut, and no other token moved.                                     *)
(***************************************************************************)
SwapsAddUp ==
    \A i \in DOMAIN swaps :
        LET swap == swaps[i]
        IN  \E id \in Ids(file) : \E balances \in PayloadOf[id] :
              /\ swap.signature = SignatureOf[id]
              /\ swap.slot = SlotOf[id] \/ (swap.slot = -1 /\ SlotOf[id] \notin DbSlots)
              /\ swap.amountIn > 0 /\ swap.amountOut > 0
              /\ \A mint \in Mints(balances) :
                   NetChange(balances, mint) =
                     CASE mint = swap.tokenIn -> -swap.amountIn
                       [] mint = swap.tokenOut -> swap.amountOut
                       [] OTHER -> 0
=============================================================================
