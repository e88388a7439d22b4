------------------------- MODULE YellowstoneUpdates -------------------------
(***************************************************************************)
(* The Yellowstone producer update by update (run_yellowstone_grpc_producer *)
(* in crates/stream/src/yellowstone_live.rs and the normalisation in        *)
(* yellowstone.rs): an update becomes a sequence of events or is skipped as *)
(* malformed, the events go into the bounded channel one by one, and a      *)
(* reconnect makes the provider send part of its updates again.             *)
(*                                                                          *)
(* Behind the channel the receiver fills the batcher and writes a batch     *)
(* that is full, or the last one when the channel is closed and empty, so a *)
(* batch ends anywhere in a transaction. Of the statements of a batch the   *)
(* one that inserts the events is modelled; the others are IngestPipeline's *)
(* subject. Where a subscription may begin is LiveIngest's; here it begins  *)
(* anywhere that is not past what the one before it delivered.              *)
(***************************************************************************)
EXTENDS ReconnectLoop, EventIdentity

CONSTANTS
    Updates,            \* the provider's updates, in its order
    Cluster,            \* YellowstoneGrpcConfig.cluster
    MaxU16,             \* where an instruction index stops fitting
    ChannelCapacity,    \* PipelineConfig.channel_capacity
    BatchSize,          \* PipelineConfig.batch_size
    MaxDecodeErrors     \* bound: the counter of malformed updates stops here

ASSUME UpdatesAssumption ==
    /\ Cluster \in Seq(STRING) \ {<<>>}
    /\ MaxU16 \in Nat
    /\ ChannelCapacity \in Nat \ {0}
    /\ BatchSize \in Nat \ {0}
    /\ MaxDecodeErrors \in Nat \ {0}
    /\ Len(Updates) \in Nat /\ DOMAIN Updates = 1..Len(Updates)
    /\ \A i \in DOMAIN Updates : LET u == Updates[i] IN
          /\ u.kind \in {"account", "slot", "transaction", "block", "entry"} => u.slot \in Nat
          /\ u.kind = "account" =>
               /\ u.account \in Seq(STRING)
               /\ u.write_version \in Nat
               /\ \A t \in u.txn_signature : t \in Seq(STRING) /\ u.txn_signature = {t}
               /\ u.is_startup \in BOOLEAN
          /\ u.kind = "transaction" =>
               /\ u.signature \in Seq(STRING)
               /\ u.index \in Nat
               /\ {u.keys, u.writable, u.readonly} \subseteq Seq(Seq(STRING))
               /\ u.hasMessage \in BOOLEAN
               /\ u.instructions \in Seq(Nat)
               /\ u.inner \in Seq([index : Nat, instructions : Seq(Nat)])
          /\ u.kind = "block" => u.blockhash \in Seq(STRING)
          /\ u.kind = "entry" => u.index \in Nat

VARIABLES
    position,       \* how many updates the subscription has delivered
    unsent,         \* events of the current update still to be sent
    decodeErrors,   \* decode_errors: AtomicU64
    channel,        \* the mpsc channel
    pipeline,       \* what the receiver does
    pending,        \* the events in the batcher, or in the batch being written
    rows            \* the identities in table events

sourceVars   == <<position, unsent, decodeErrors>>
receiverVars == <<pipeline, pending, rows>>
updateVars   == <<loopVars, sourceVars, channel, receiverVars>>

-----------------------------------------------------------------------------
(***************************************************************************)
(* The instructions of a transaction: the ones of its message, then the     *)
(* ones its metadata lists for a top-level instruction.                     *)
(***************************************************************************)
TopLevel(u) ==
    [i \in DOMAIN u.instructions |->
        [at |-> i - 1, inner |-> {}, program |-> u.instructions[i]]]

\* Mutant: an inner instruction is given no index of its own.
InnerUnindexed(group) ==
    [j \in DOMAIN group.instructions |->
        [at |-> group.index, inner |-> {}, program |-> group.instructions[j]]]

Inner(group) ==
    [j \in DOMAIN group.instructions |->
        [at |-> group.index, inner |-> {j - 1}, program |-> group.instructions[j]]]

\* None without a message; then the inner ones are not read either.
Instructions(u) ==
    IF u.hasMessage
    THEN TopLevel(u) \o FlattenSeq([g \in DOMAIN u.inner |-> Inner(u.inner[g])])
    ELSE <<>>

\* instruction_account_keys: static keys, then the loaded ones.
AccountKeys(u) == u.keys \o u.writable \o u.readonly

\* program_id_at and checked_u16
Resolves(u, instruction) ==
    /\ instruction.program < Len(AccountKeys(u))
    /\ AccountKeys(u)[instruction.program + 1] # <<>>
    /\ instruction.at <= MaxU16
    /\ instruction.inner \subseteq 0..MaxU16

SlotStatus == {"processed", "confirmed", "finalized", "dead"}

(***************************************************************************)
(* The normalisation returns Ok.  An update without its nested message is   *)
(* of kind "missing"; pings, pongs, block metadata and transaction statuses *)
(* are "ignored".                                                           *)
(***************************************************************************)
WellFormed(u) ==
    CASE u.kind = "account" -> u.account # <<>> /\ <<>> \notin u.txn_signature
      [] u.kind = "slot" -> u.status \in SlotStatus
      [] u.kind = "transaction" ->
           /\ u.signature # <<>>
           /\ \A i \in DOMAIN Instructions(u) : Resolves(u, Instructions(u)[i])
           /\ u.hasMessage => \A g \in DOMAIN u.inner : u.inner[g].index <= MaxU16
      [] u.kind = "block" -> NonEmpty(u.blockhash)
      [] u.kind = "missing" -> FALSE
      [] OTHER -> TRUE

TransactionEvents(u) ==
    LET event(i) == Instruction(Cluster, u.slot, u.signature, u.index, i.at, i.inner,
                                AccountKeys(u)[i.program + 1])
    IN <<Transaction(Cluster, u.slot, u.signature, u.index)>>
       \o [i \in DOMAIN Instructions(u) |-> event(Instructions(u)[i])]

\* normalize_yellowstone_proto_update, of a well-formed update.
Events(u) ==
    CASE u.kind = "account" ->
           <<Account(Cluster, u.slot, u.account, u.write_version, u.txn_signature,
                     u.is_startup)>>
      [] u.kind = "slot" -> <<Slot(Cluster, u.slot, u.status)>>
      [] u.kind = "transaction" -> TransactionEvents(u)
      [] u.kind = "block" -> <<Block(Cluster, u.slot, u.blockhash)>>
      [] u.kind = "entry" -> <<Entry(Cluster, u.slot, u.index)>>
      [] OTHER -> <<>>

\* The updates the producer takes, and what it makes of them.
Accepted == {i \in DOMAIN Updates : WellFormed(Updates[i])}

EventsOf == [i \in Accepted |-> Events(Updates[i])]

AcceptedEvents == UNION {ToSet(EventsOf[i]) : i \in Accepted}

\* event_id, computed when the event is made.
EventId == [event \in AcceptedEvents |-> CanonicalKey(event)]

-----------------------------------------------------------------------------
UpdatesInit ==
    /\ LoopInit
    /\ position = 0
    /\ unsent = <<>>
    /\ decodeErrors = 0
    /\ channel = <<>>
    /\ pipeline = "receiving"
    /\ pending = <<>>
    /\ rows = {}

Awaiting == loop = "stream" /\ unsent = <<>> /\ position < Len(Updates)

ReceiveUpdate ==
    /\ Awaiting
    /\ position + 1 \in Accepted
    /\ position' = position + 1
    /\ unsent' = EventsOf[position + 1]
    /\ UNCHANGED <<loopVars, decodeErrors, channel, receiverVars>>

\* Mutant: a malformed update is counted, but not passed.
CountMalformed ==
    /\ Awaiting
    /\ position + 1 \notin Accepted
    /\ decodeErrors' = Min({decodeErrors + 1, MaxDecodeErrors})
    /\ UNCHANGED <<loopVars, position, unsent, channel, receiverVars>>

\* Logged, counted, skipped as a whole.
SkipMalformed ==
    /\ Awaiting
    /\ position + 1 \notin Accepted
    /\ position' = position + 1
    /\ decodeErrors' = Min({decodeErrors + 1, MaxDecodeErrors})
    /\ UNCHANGED <<loopVars, unsent, channel, receiverVars>>

\* Mutant: a channel without a bound.
AlwaysRoom == TRUE

HasRoom == Len(channel) < ChannelCapacity

\* sender.send(event).await
SendEvent ==
    /\ loop = "stream"
    /\ unsent # <<>>
    /\ HasRoom
    /\ channel' = Append(channel, Head(unsent))
    /\ unsent' = Tail(unsent)
    /\ UNCHANGED <<loopVars, position, decodeErrors, receiverVars>>

\* The attempt ends while it connects or waits for an update; while it sends,
\* only the end of the receiver stops it (PipelineStops).
UpdatesFail(kind) ==
    /\ kind # "receiver_closed"
    /\ unsent = <<>>
    /\ AttemptFails(kind)
    /\ UNCHANGED <<sourceVars, channel, receiverVars>>

\* The subscription resumes at some update not past the last one delivered.
UpdatesOpened ==
    /\ Opened
    /\ position' \in 0..position
    /\ UNCHANGED <<unsent, decodeErrors, channel, receiverVars>>

UpdatesClock ==
    /\ Configure \/ GracePasses \/ Wake
    /\ UNCHANGED <<sourceVars, channel, receiverVars>>

-----------------------------------------------------------------------------
\* The loop has returned, and the sender is dropped.
ProducerGone == loop \in {"gave_up", "failed"}

\* recv and push: a full batch is written before the next recv.
ReceiveEvent ==
    /\ pipeline = "receiving"
    /\ channel # <<>>
    /\ channel' = Tail(channel)
    /\ pending' = Append(pending, Head(channel))
    /\ pipeline' = IF Len(pending') >= BatchSize THEN "writing" ELSE "receiving"
    /\ UNCHANGED <<loopVars, sourceVars, rows>>

\* recv returns None, and what is left in the batcher is flushed.
ChannelCloses ==
    /\ pipeline = "receiving"
    /\ ProducerGone
    /\ channel = <<>>
    /\ pipeline' = IF pending = <<>> THEN "ended" ELSE "writing"
    /\ UNCHANGED <<loopVars, sourceVars, channel, pending, rows>>

\* The events of a batch whose key no row has.
Fresh(batch) ==
    LET taken == {EventId[row] : row \in rows}
    IN  {event \in ToSet(batch) : EventId[event] \notin taken}

(***************************************************************************)
(* INSERT .. ON CONFLICT (event_id) DO NOTHING, one statement for a batch.  *)
(* Of two events of the batch with one key, which comes in is left open.    *)
(***************************************************************************)
Insert(batch) ==
    \E new \in SUBSET Fresh(batch) :
        /\ \A event \in Fresh(batch) : \E row \in new : EventId[row] = EventId[event]
        /\ \A row, other \in new : EventId[row] = EventId[other] => row = other
        /\ rows' = rows \cup new

\* Mutant: a batch that could not be written is passed over.
WriteBatchOrLose ==
    /\ pipeline = "writing"
    /\ rows' = rows \/ Insert(pending)
    /\ pending' = <<>>
    /\ pipeline' = "receiving"
    /\ UNCHANGED <<loopVars, sourceVars, channel>>

WriteBatch ==
    /\ pipeline = "writing"
    /\ Insert(pending)
    /\ pending' = <<>>
    /\ pipeline' = "receiving"
    /\ UNCHANGED <<loopVars, sourceVars, channel>>

(***************************************************************************)
(* The statement fails or its answer is lost, or main drops the pipeline:   *)
(* what the batcher, the channel and the producer hold is dropped with it.  *)
(* The producer is aborted, unless its send tells it first that the         *)
(* receiver is closed; either way its loop is over.                         *)
(***************************************************************************)
PipelineStops ==
    /\ pipeline \in {"receiving", "writing"}
    /\ rows' = rows \/ (pipeline = "writing" /\ Insert(pending))
    /\ pipeline' = "stopped"
    /\ pending' = <<>> /\ channel' = <<>> /\ unsent' = <<>>
    /\ IF ProducerGone THEN UNCHANGED loopVars ELSE FatalFailure("receiver_closed")
    /\ UNCHANGED <<position, decodeErrors>>

UpdatesNext ==
    \/ UpdatesClock \/ UpdatesOpened
    \/ \E kind \in ConnectFailures \cup StreamFailures : UpdatesFail(kind)
    \/ ReceiveUpdate \/ SkipMalformed \/ SendEvent
    \/ ReceiveEvent \/ ChannelCloses \/ WriteBatch \/ PipelineStops

UpdatesSpec == UpdatesInit /\ [][UpdatesNext]_updateVars

\* The tasks are polled, a statement is answered or fails, an open stream
\* delivers; the loop never pauses but for its backoff.
UpdatesFairSpec ==
    /\ UpdatesSpec
    /\ WF_loopVars(Configure /\ UNCHANGED <<sourceVars, channel, receiverVars>>)
    /\ WF_loopVars(Wake /\ UNCHANGED <<sourceVars, channel, receiverVars>>)
    /\ WF_updateVars(ReceiveUpdate \/ SkipMalformed \/ SendEvent)
    /\ WF_updateVars(ReceiveEvent \/ ChannelCloses \/ WriteBatch)

-----------------------------------------------------------------------------
\* The channel and the batch keep their bounds, the producer holds the events
\* of one update.
UpdatesTypeOK ==
    /\ position \in 0..Len(Updates)
    /\ \/ unsent = <<>>
       \/ \E i \in Accepted : IsSuffix(unsent, EventsOf[i])
    /\ decodeErrors \in 0..MaxDecodeErrors
    /\ Len(channel) <= ChannelCapacity
    /\ pipeline \in {"receiving", "writing", "ended", "stopped"}
    /\ IF pipeline = "writing" THEN Len(pending) \in 1..BatchSize
       ELSE Len(pending) < BatchSize

(***************************************************************************)
(* No two events share a key, whatever texts a replay file or the           *)
(* configuration puts into the free fields, and no row that a live process  *)
(* stored has the key of another event that a replay may bring: the insert  *)
(* that ignores a conflict on event_id ignores nothing but a redelivery.    *)
(***************************************************************************)
KeysInjective ==
    /\ Cardinality(Keys) = Cardinality(KeyIdentities)
    /\ \A row \in rows : row \in KeyIdentities \/ CanonicalKey(row) \notin Keys

\* The transactions of the log, and the instructions each of them has.
Transactions == {i \in DOMAIN Updates : Updates[i].kind = "transaction"}

Coordinates(u) ==
    IF u.hasMessage
    THEN {<<i>> : i \in DOMAIN u.instructions}
         \cup UNION {{<<g, j>> : j \in DOMAIN u.inner[g].instructions} : g \in DOMAIN u.inner}
    ELSE {}

\* Those of these events that belong to a transaction.
PartsOf(u, events) ==
    {event \in events : /\ event.kind \in {"transaction", "instruction"}
                        /\ event.slot = u.slot
                        /\ event.signature = u.signature}

OnTheWay == ToSet(pending) \cup ToSet(channel) \cup ToSet(unsent)

Whole(u, events) == Cardinality(PartsOf(u, events)) \in {0, 1 + Cardinality(Coordinates(u))}

(***************************************************************************)
(* While the pipeline works nothing of a transaction is lost between the    *)
(* stream and the table, however often it is sent and wherever a batch      *)
(* ends: what is stored of it and what is on its way to be are one event    *)
(* for it and one for each of its instructions, outer and inner, or         *)
(* nothing; when the pipeline has ended well, nothing is on its way. A      *)
(* transaction with one instruction that cannot be normalised leaves        *)
(* nothing anywhere, whatever stops; one that comes without its message has *)
(* no instructions, even if its metadata lists inner ones.                  *)
(***************************************************************************)
WholeTransactions ==
    /\ pipeline # "stopped" => \A i \in Transactions : Whole(Updates[i], rows \cup OnTheWay)
    /\ pipeline = "ended" => OnTheWay = {}
    /\ \A i \in Transactions \ Accepted : PartsOf(Updates[i], rows \cup OnTheWay) = {}

(***************************************************************************)
(* A failed write or a stop between two batches leaves a transaction in     *)
(* part, but then it is its end that is missing: no instruction is stored   *)
(* without the transaction and all the instructions before it.              *)
(***************************************************************************)
StoredInOrder ==
    \A i \in Accepted : \A k, l \in DOMAIN EventsOf[i] :
        k < l /\ EventsOf[i][l] \in rows => EventsOf[i][k] \in rows

(***************************************************************************)
(* What the provider promises for that: a signature is of one transaction   *)
(* of a slot, and the metadata of a transaction lists an instruction once.  *)
(***************************************************************************)
ProviderLog ==
    /\ \A i, j \in Transactions :
          Updates[i].slot = Updates[j].slot /\ Updates[i].signature = Updates[j].signature =>
            Updates[i] = Updates[j]
    /\ \A i \in Transactions : \A g, h \in DOMAIN Updates[i].inner :
          Updates[i].inner[g].index = Updates[i].inner[h].index => g = h

(***************************************************************************)
(* An open stream is drained while it stays open, past malformed updates,   *)
(* ignored ones and a full channel, wherever it began: every event of the   *)
(* log is stored, or waits with fewer than a batch for the batch to be      *)
(* filled, unless the stream or the pipeline ends. Nothing promises that    *)
(* the waiting ends.                                                        *)
(***************************************************************************)
Drained == pipeline = "receiving" /\ AcceptedEvents \subseteq rows \cup ToSet(pending)

OpenStreamDrains == loop = "stream" ~> Drained \/ loop # "stream"
=============================================================================
