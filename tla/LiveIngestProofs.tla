-------------------------- MODULE LiveIngestProofs --------------------------
(***************************************************************************)
(* Live mode is the pipeline fed by the reconnect loop: every live          *)
(* behaviour is a pipeline behaviour, the resume point the two tasks share  *)
(* through an atomic is the durable watermark or an older one, and so       *)
(* nothing the provider sent in time is missing below the watermark.        *)
(***************************************************************************)
EXTENDS LiveIngest, IngestPipelineProofs, ReconnectLoopProofs

\* The numbers a live process works with, apart from the pipeline's.
LiveNumbers ==
    /\ shared \in Slots
    /\ fromSlot \in DbSlotOrNone
    /\ tip \in 0..Len(Log)
    /\ position \in 0..tip
    /\ blind \in 0..tip

(***************************************************************************)
(* Why the atomic never leads the database: between batches it encodes the  *)
(* stored watermark, and the summary that on_progress will store it from    *)
(* holds the stored watermark or none.                                      *)
(***************************************************************************)
SharedInv ==
    Alive =>
        /\ summary.contiguous \in {None, contiguous}
        /\ Decode(shared) <= contiguous
        /\ pc # "progress" \/ summary.contiguous = None => Decode(shared) = contiguous

LInv == LiveTypeOK /\ SharedInv

-----------------------------------------------------------------------------
\* encode_slot and decode_slot are inverse on what a BIGINT column can hold.
LEMMA Roundtrip ==
    ASSUME NEW s \in DbSlotOrNone
    PROVE  Encode(s) \in Slots /\ Decode(Encode(s)) = s
<1>1. MaxSlot \in Nat /\ MaxDbSlot \in 0..MaxSlot /\ MaxDbSlot < MaxSlot
  BY SlotAssumption, LiveAssumption
<1>2. CASE s = None
  BY <1>1, <1>2 DEF Encode, Decode, None, Slots
<1>3. CASE s # None
  <2>1. s \in 0..MaxDbSlot
    BY <1>3 DEF DbSlotOrNone, DbSlots
  <2>2. Min({s + 1, MaxSlot}) \in {s + 1, MaxSlot} /\ Min({s + 1, MaxSlot}) <= s + 1
        /\ Min({s + 1, MaxSlot}) <= MaxSlot
    BY <1>1, <2>1, OfTwo
  <2>3. Min({s + 1, MaxSlot}) = s + 1
    BY <1>1, <2>1, <2>2
  <2>4. Encode(s) = s + 1
    BY <1>3, <2>3 DEF Encode
  <2> QED BY <1>1, <2>1, <2>4 DEF Decode, Slots
<1> QED BY <1>2, <1>3

\* The next update of a subscription is one of the log.
LEMMA NextUpdate ==
    ASSUME LiveNumbers, Matching # {}
    PROVE  /\ Min(Matching) \in 0..tip
           /\ Log[Min(Matching)] \in Event
<1>1. Log \in Seq(Event) /\ Len(Log) \in Nat
  BY LiveAssumption
<1>2. Matching \in SUBSET Nat /\ Matching \subseteq (position + 1)..tip
  BY DEF Matching, LiveNumbers
<1>3. \E x \in Matching : \A y \in Matching : x <= y
  BY <1>2, LowestExists
<1>4. Min(Matching) \in Matching
  BY <1>3 DEF Min
<1>5. Min(Matching) \in (position + 1)..tip
  BY <1>2, <1>4
<1> DEFINE m == Min(Matching)
<1> HIDE DEF m
<1>6. m \in 1..Len(Log) /\ m \in 0..tip
  BY <1>1, <1>5 DEF LiveNumbers, m
<1>7. Log[m] \in Event
  BY <1>1, <1>6
<1> QED BY <1>6, <1>7 DEF m

\* Each live step is a step of the pipeline.
LEMMA LiveStep == LiveTypeOK /\ [LiveNext]_liveVars => [Next]_vars
<1> SUFFICES ASSUME LiveTypeOK, [LiveNext]_liveVars PROVE [Next]_vars
  OBVIOUS
<1>1. CASE ProviderAppends BY <1>1 DEF ProviderAppends
<1>2. CASE LiveConfigure BY <1>2 DEF LiveConfigure
<1>3. CASE LiveConfigurePanics BY <1>3 DEF LiveConfigurePanics, Next, Producer
<1>4. CASE LiveOpened BY <1>4 DEF LiveOpened
<1>5. CASE LiveSend
  <2>1. LiveNumbers
    BY DEF LiveTypeOK, LiveNumbers
  <2>2. Log[position'] \in Event
    BY <1>5, <2>1, NextUpdate DEF LiveSend
  <2> QED BY <1>5, <2>2 DEF LiveSend, Next, Producer
<1>6. ASSUME NEW kind, LiveFails(kind) PROVE [Next]_vars
  BY <1>6 DEF LiveFails, Next, Producer
<1>7. CASE LiveClock BY <1>7 DEF LiveClock
<1>8. CASE LiveReceiver BY <1>8 DEF LiveReceiver, Next
<1>9. CASE LiveStops BY <1>9 DEF LiveStops, Next
<1>10. CASE LiveRestart BY <1>10 DEF LiveRestart, Next
<1>11. CASE UNCHANGED liveVars BY <1>11 DEF liveVars
<1> QED BY <1>1, <1>2, <1>3, <1>4, <1>5, <1>6, <1>7, <1>8, <1>9, <1>10, <1>11
        DEF LiveNext, LiveProducer

\* ... and, but for a restart, a step of the reconnect loop or none of it.
LEMMA LiveLoopStep ==
    LiveTypeOK /\ [LiveNext]_liveVars => [LoopNext]_loopVars \/ LoopInit'
<1> SUFFICES ASSUME LiveTypeOK, [LiveNext]_liveVars
             PROVE  [LoopNext]_loopVars \/ LoopInit'
  OBVIOUS
<1>1. CASE LiveConfigure BY <1>1 DEF LiveConfigure, LoopNext
<1>2. CASE LiveOpened BY <1>2 DEF LiveOpened, LoopNext
<1>3. CASE LiveClock BY <1>3 DEF LiveClock, LoopNext
<1>4. ASSUME NEW kind \in ProviderFailures, LiveFails(kind) PROVE [LoopNext]_loopVars
  BY <1>4 DEF LiveFails, ProviderFailures, LoopNext
<1>5. CASE LiveRestart
  <2>1. LoopInit' = (/\ loop' = "configure" /\ retries' = 0 /\ delay' = FirstDelay
                     /\ graceOver' = FALSE)
    BY DEF LoopInit, FirstDelay
  <2> QED BY <1>5, <2>1 DEF LiveRestart
<1>6. CASE UNCHANGED loopVars BY <1>6
<1> QED BY <1>1, <1>2, <1>3, <1>4, <1>5, <1>6
        DEF LiveNext, LiveProducer, ProviderAppends, LiveConfigurePanics, LiveSend,
            LiveReceiver, LiveStops, liveVars

\* The numbers stay in range; from_slot because the atomic never leads the database.
LEMMA NumbersStep == LInv /\ [LiveNext]_liveVars => LiveNumbers'
<1> SUFFICES ASSUME LInv, [LiveNext]_liveVars PROVE LiveNumbers'
  OBVIOUS
<1>0. LiveNumbers /\ TypeOK
  BY DEF LInv, LiveTypeOK, LiveNumbers
<1>1. Len(Log) \in Nat /\ tip \in Nat /\ position \in Nat /\ blind \in Nat
  BY <1>0, LiveAssumption DEF LiveNumbers
<1>2. shared' \in Slots
  <2>1. CASE UNCHANGED shared BY <1>0, <2>1 DEF LiveNumbers
  <2>2. CASE LiveReceiver
    <3>1. CASE summary.contiguous # None
      <4>1. Encode(summary.contiguous) \in Slots
        BY <1>0, Roundtrip DEF TypeOK, Summaries
      <4> QED BY <1>0, <2>2, <4>1 DEF LiveReceiver, SharedAfter, LiveNumbers
    <3>2. CASE summary.contiguous = None
      BY <1>0, <2>2, <3>2 DEF LiveReceiver, SharedAfter, LiveNumbers
    <3> QED BY <3>1, <3>2
  <2>3. CASE LiveRestart
    BY <1>0, <2>3, Roundtrip DEF LiveRestart, StartSlot, TypeOK
  <2> QED BY <2>1, <2>2, <2>3
      DEF LiveNext, LiveProducer, ProviderAppends, LiveConfigure, LiveConfigurePanics,
          LiveOpened, LiveSend, LiveFails, LiveClock, LiveStops, liveVars
<1>3. CASE ProviderAppends
  BY <1>0, <1>1, <1>3 DEF ProviderAppends, attemptVars, LiveNumbers
<1>4. CASE LiveConfigure
  <2>1. Decode(shared) <= contiguous /\ contiguous \in DbSlotOrNone
    BY <1>0, <1>4 DEF LiveConfigure, ProducerRuns, LInv, SharedInv, TypeOK
  <2>2. shared \in Slots
    BY <1>0 DEF LiveNumbers
  <2>3. Decode(shared) \in DbSlotOrNone
    BY <2>1, <2>2, SlotAssumption DEF Decode, Slots, DbSlots, DbSlotOrNone, None
  <2> QED BY <1>0, <1>4, <2>3 DEF LiveConfigure, LiveNumbers
<1>5. CASE LiveOpened
  <2>1. Greatest(blind, tip) \in {blind, tip}
    BY DEF Greatest
  <2>2. position' \in {tip, 0} /\ blind' \in {Greatest(blind, tip), blind}
    BY <1>5 DEF LiveOpened
  <2> QED BY <1>0, <1>1, <1>5, <2>1, <2>2 DEF LiveOpened, LiveNumbers
<1>6. CASE LiveSend
  <2>1. position' \in 0..tip
    BY <1>0, <1>6, NextUpdate DEF LiveSend
  <2> QED BY <1>0, <1>6, <2>1 DEF LiveSend, LiveNumbers
<1>7. CASE LiveRestart
  <2>1. None \in DbSlotOrNone /\ 0 \in 0..tip
    BY <1>1 DEF DbSlotOrNone
  <2> QED BY <1>0, <1>2, <1>7, <2>1 DEF LiveRestart, LiveNumbers
<1>8. CASE UNCHANGED <<attemptVars, tip>>
  BY <1>0, <1>2, <1>8 DEF attemptVars, LiveNumbers
<1> QED BY <1>3, <1>4, <1>5, <1>6, <1>7, <1>8
    DEF LiveNext, LiveProducer, LiveConfigurePanics, LiveFails, LiveClock,
        LiveReceiver, LiveStops, liveVars

-----------------------------------------------------------------------------
\* Steps of the receiver, and what they do to the watermark the summary holds.
LEMMA ReceiverKeepsShared ==
    ASSUME LInv, LiveReceiver
    PROVE  SharedInv'
<1>0. TypeOK /\ summary \in Summaries /\ contiguous \in DbSlotOrNone
  BY DEF LInv, LiveTypeOK, TypeOK
<1>1. ASSUME Alive PROVE SharedInv
  BY DEF LInv
<1> USE DEF SharedInv, Alive, dbVars
<1>2. CASE BatchDone
  <2>1. pc = "progress" /\ contiguous' = contiguous /\ pc' # "progress"
        /\ summary'.contiguous = summary.contiguous
    BY <1>0, <1>2 DEF BatchDone, Counted, Summaries
  <2>2. summary.contiguous \in {None, contiguous} /\ shared' = SharedAfter
    BY <2>1 DEF LInv, LiveReceiver
  <2>3. Decode(shared') = contiguous
    <3>1. CASE summary.contiguous = None
      BY <2>1, <2>2, <3>1 DEF LInv, SharedAfter, Decode
    <3>2. CASE summary.contiguous # None
      BY <1>0, <2>2, <3>2, Roundtrip DEF SharedAfter
    <3> QED BY <3>1, <3>2
  <2>4. contiguous <= contiguous
    BY <1>0, SlotFacts
  <2> QED BY <2>1, <2>2, <2>3, <2>4 DEF Decode
<1>3. ASSUME pc # "progress", Alive, summary'.contiguous = summary.contiguous,
             contiguous' = contiguous, shared' = shared
      PROVE  SharedInv'
  <2>1. /\ summary.contiguous \in {None, contiguous} /\ Decode(shared) = contiguous
    BY <1>1, <1>3
  <2>2. contiguous <= contiguous
    BY <1>0, SlotFacts
  <2> QED BY <1>3, <2>1, <2>2 DEF Decode
<1>4. ASSUME pc # "progress" PROVE shared' = shared
  BY <1>4 DEF LiveReceiver
<1>5. CASE Receive
  <2>1. summary'.contiguous = summary.contiguous
    BY <1>0, <1>5 DEF Receive, Summaries
  <2> QED BY <1>3, <1>4, <1>5, <2>1 DEF Receive
<1>6. CASE ChannelClosed BY <1>3, <1>4, <1>6 DEF ChannelClosed
<1>7. CASE WriteEvents
  <2>1. summary'.contiguous = summary.contiguous
    BY <1>0, <1>7 DEF WriteEvents, Summaries
  <2> QED BY <1>3, <1>4, <1>7, <2>1 DEF WriteEvents
<1>8. CASE UpdateCursor
  <2>1. summary'.contiguous = summary.contiguous
    BY <1>0, <1>8 DEF UpdateCursor, Summaries
  <2> QED BY <1>3, <1>4, <1>8, <2>1 DEF UpdateCursor
<1>9. CASE RecordSlotStates BY <1>3, <1>4, <1>9 DEF RecordSlotStates
<1>10. CASE SelectWatermark BY <1>3, <1>4, <1>10 DEF SelectWatermark
<1>11. CASE UpsertWatermark
  <2>1. /\ shared' = shared /\ Decode(shared) = contiguous
        /\ contiguous' = Greatest(contiguous, selected.watermark)
    BY <1>1, <1>4, <1>11 DEF UpsertWatermark
  <2>2. summary'.contiguous = contiguous'
    BY <1>0, <1>11 DEF UpsertWatermark, Summaries
  <2>3. contiguous \in Int /\ selected.watermark \in Int /\ contiguous >= None
    BY <1>0, SlotFacts DEF TypeOK, DbSlotOrNone
  <2>4. contiguous' >= contiguous /\ contiguous' \in Int
    BY <2>1, <2>3, GreatestFacts
  <2>5. Decode(shared)' = contiguous /\ contiguous <= contiguous'
    BY <2>1, <2>3, <2>4 DEF Decode
  <2>6. contiguous' = None => contiguous = contiguous'
    BY <2>3, <2>4, SlotFacts
  <2>7. pc' = "progress"
    BY <1>11 DEF UpsertWatermark
  <2> QED BY <2>2, <2>5, <2>6, <2>7
<1>12. CASE Join BY <1>12 DEF Join
<1>13. CASE CursorOutOfRange BY <1>13 DEF CursorOutOfRange, FailWith
<1>14. CASE RecordOutOfRange BY <1>14 DEF RecordOutOfRange, FailWith
<1> QED BY <1>2, <1>5, <1>6, <1>7, <1>8, <1>9, <1>10, <1>11, <1>12, <1>13, <1>14
    DEF LiveReceiver, Receiver, WriteBatch

LEMMA SharedStep == LInv /\ [LiveNext]_liveVars => SharedInv'
<1> SUFFICES ASSUME LInv, [LiveNext]_liveVars PROVE SharedInv'
  OBVIOUS
<1>0. TypeOK /\ SharedInv
  BY DEF LInv, LiveTypeOK
<1>1. ASSUME UNCHANGED <<pc, summary, contiguous, shared>> PROVE SharedInv'
  BY <1>0, <1>1 DEF SharedInv, Decode, Alive
<1>2. CASE LiveReceiver BY <1>2, ReceiverKeepsShared
<1>3. CASE LiveStops
  BY <1>3 DEF LiveStops, StatementFails, WriteFails, CursorFails, RecordFails,
     SelectFails, UpsertFails, Crash, FailWith, SharedInv, Alive
<1>4. CASE LiveRestart
  <2>1. contiguous' = contiguous /\ shared' = Encode(contiguous)
        /\ contiguous \in DbSlotOrNone
    BY <1>0, <1>4 DEF LiveRestart, StartSlot, Restart, dbVars, TypeOK
  <2>2. summary'.contiguous = None
    BY <1>4 DEF LiveRestart, Restart, FirstSummary
  <2>3. Decode(shared)' = contiguous' /\ contiguous' <= contiguous'
    BY <2>1, Roundtrip, SlotFacts DEF Decode
  <2> QED BY <2>2, <2>3 DEF SharedInv
<1>5. CASE ProviderAppends
  BY <1>1, <1>5 DEF ProviderAppends, vars, dbVars, processVars
<1>6. CASE LiveProducer
  BY <1>1, <1>6 DEF LiveProducer, LiveConfigure, LiveConfigurePanics, LiveOpened, LiveSend,
     LiveClock, LiveFails, ProducerSend, ProducerExit, vars, dbVars, processVars
<1>7. CASE UNCHANGED liveVars
  BY <1>1, <1>7 DEF liveVars, vars, dbVars, processVars
<1> QED BY <1>2, <1>3, <1>4, <1>5, <1>6, <1>7 DEF LiveNext

-----------------------------------------------------------------------------
LEMMA LiveInitial == LiveInit => Init /\ LInv
<1> SUFFICES ASSUME LiveInit PROVE LiveNumbers /\ SharedInv /\ LoopTypeOK /\ TypeOK
  BY DEF LiveInit, LInv, LiveTypeOK, LiveNumbers
<1>1. TypeOK /\ LoopTypeOK
  BY TypeInit, LoopTypeInit DEF LiveInit
<1>2. Len(Log) \in Nat /\ 0 \in Slots /\ None \in DbSlotOrNone
  BY LiveAssumption, SlotAssumption DEF Slots, DbSlotOrNone
<1>3. LiveNumbers
  BY <1>2 DEF LiveInit, LiveNumbers
<1>4. summary.contiguous = None
  BY DEF LiveInit, Init, FirstSummary
<1>5. SharedInv
  BY <1>4 DEF LiveInit, Init, SharedInv, Decode, None
<1> QED BY <1>1, <1>3, <1>5

LEMMA FreshLoop == LoopInit' => LoopTypeOK'
BY LoopTypeInit, PTL

LEMMA LiveInvStep == LInv /\ [LiveNext]_liveVars => LInv'
<1> SUFFICES ASSUME LInv, [LiveNext]_liveVars PROVE LInv'
  OBVIOUS
<1>1. LiveTypeOK /\ TypeOK /\ LoopTypeOK
  BY DEF LInv, LiveTypeOK
<1>2. TypeOK'
  BY <1>1, LiveStep, TypeStep
<1>3. LoopTypeOK'
  BY <1>1, LiveLoopStep, LoopTypeStep, FreshLoop
<1> QED BY <1>2, <1>3, NumbersStep, SharedStep DEF LInv, LiveTypeOK, LiveNumbers

LEMMA LiveInvHolds == LiveSpec => []LInv
BY LiveInitial, LiveInvStep, PTL DEF LiveSpec

\* Live mode implements the pipeline specification, and with it the durable sink.
THEOREM LiveImplementsPipeline == LiveSpec => Spec
<1>1. LInv /\ [LiveNext]_liveVars => [Next]_vars
  BY LiveStep DEF LInv
<1> QED BY <1>1, LiveInitial, LiveInvHolds, PTL DEF LiveSpec, Spec

\* Every number of a live process stays in range, from_slot included.
THEOREM LiveTypeCorrect == LiveSpec => []LiveTypeOK
<1>1. LInv => LiveTypeOK
  BY DEF LInv
<1> QED BY <1>1, LiveInvHolds, PTL

\* The resume point of the next attempt never leads the database.
THEOREM ResumePointDurable == LiveSpec => []SharedMatchesStore
<1>1. LInv => SharedMatchesStore
  BY DEF LInv, SharedInv, SharedMatchesStore
<1> QED BY <1>1, LiveInvHolds, PTL

\* In live mode, too, the watermark has no hole behind it and the cursor names a
\* stored event.
THEOREM LiveDurable == LiveSpec => [](WatermarkGapFree /\ CursorAfterPersistence)
BY LiveImplementsPipeline, WatermarkSafe, CursorSafe, PTL

-----------------------------------------------------------------------------
(***************************************************************************)
(* What recovery owes the log, and why it pays: the places of the log that  *)
(* are served, held and stored are tied together by one rule, that nothing  *)
(* is stored ahead of what the log owes before it.                          *)
(***************************************************************************)
Owed == {i \in DOMAIN Log : Storable(Log[i]) /\ InTime(i)}

\* What the log owes between the places lo and f is among these events.
Between(lo, f, ids) == \A i \in Owed : lo < i /\ i < f => Log[i].id \in ids

\* The event has a place in the log up to top with nothing owed before it.
Placed(id, top, lo, ids) == \E f \in 1..top : Log[f].id = id /\ Between(lo, f, ids)

\* The events of a sequence before place k.
Before(events, k) == {events[n].id : n \in 1..(k - 1)}

Batched == stored \cup Ids(batch)
Held    == Batched \cup Ids(pending)

StoredInv == \A id \in stored : Placed(id, tip, blind, stored)

HeldInv ==
    /\ \A id \in Ids(batch) : Placed(id, tip, blind, Batched)
    /\ \A id \in Ids(pending) : Placed(id, tip, blind, Held)
    /\ \A k \in 1..Len(channel) :
          Placed(channel[k].id, tip, blind, Held \cup Before(channel, k))

\* A subscription has passed nothing owed that is neither held nor stored.
ServedInv ==
    /\ fromSlot <= contiguous
    /\ Alive => Between(blind, position + 1, Held \cup Before(channel, Len(channel) + 1))

LiveWork == StoredInv /\ HeldInv /\ ServedInv

\* Everything the step lemmas assume of the state before.
LiveState == LInv /\ IInv /\ ProcessInv /\ LiveWork

\* Every identity of the first set that converts to a row is in the second.
Carried(ids, more) == \A id \in ids : SlotOf[id] \in DbSlots => id \in more

LEMMA LogFacts ==
    /\ Log \in Seq(Event) /\ Len(Log) \in Nat /\ DOMAIN Log = 1..Len(Log)
    /\ \A i \in 1..Len(Log) :
          Log[i] \in Event /\ Log[i].id \in EventId /\ SlotOf[Log[i].id] \in Nat
    /\ Owed \subseteq 1..Len(Log)
    /\ \A i \in Owed : SlotOf[Log[i].id] \in DbSlots
<1>1. Log \in Seq(Event)
  BY LiveAssumption
<1>2. Len(Log) \in Nat /\ DOMAIN Log = 1..Len(Log) /\ \A i \in 1..Len(Log) : Log[i] \in Event
  BY <1>1
<1>3. \A e \in Event : e.id \in EventId /\ SlotOf[e.id] \in Nat
  BY EventFacts, SlotFacts
<1> QED BY <1>1, <1>2, <1>3 DEF Owed, Storable

LEMMA LiveFacts ==
    ASSUME LiveState
    PROVE  /\ TypeOK
           /\ tip \in 0..Len(Log) /\ tip \in Nat /\ position \in Nat /\ position <= tip
           /\ blind \in Nat /\ blind <= tip
           /\ fromSlot \in Int /\ contiguous \in Int
           /\ channel \in Seq(Event) /\ pending \in Seq(Event) /\ batch \in Seq(Event)
           /\ Len(channel) \in Nat /\ Len(pending) \in Nat /\ Len(batch) \in Nat
           /\ pc = "receive" => batch = <<>>
           /\ PastCursor => Ids(batch) \subseteq stored
<1>1. /\ TypeOK /\ tip \in 0..Len(Log) /\ position \in 0..tip /\ blind \in 0..tip
      /\ fromSlot \in DbSlotOrNone /\ contiguous \in DbSlotOrNone
      /\ channel \in Seq(Event) /\ pending \in Seq(Event) /\ batch \in Seq(Event)
  BY DEF LiveState, LInv, LiveTypeOK, TypeOK
<1>2. tip \in Nat
  BY <1>1, LogFacts
<1>3. fromSlot \in Int /\ contiguous \in Int
  BY <1>1, SlotFacts
<1>4. (pc = "receive" => batch = <<>>) /\ (PastCursor => Ids(batch) \subseteq stored)
  BY DEF LiveState, ProcessInv, KeptInv
<1> QED BY <1>1, <1>2, <1>3, <1>4

\* A place stays a good one while the log grows and identities move on.
LEMMA PlacedGrows ==
    ASSUME NEW id, NEW ids, NEW more, Carried(ids, more),
           NEW top \in Nat, NEW top2 \in Nat, top <= top2,
           NEW lo \in Nat, NEW lo2 \in Nat, lo <= lo2,
           Placed(id, top, lo, ids)
    PROVE  Placed(id, top2, lo2, more)
<1>1. PICK f \in 1..top : Log[f].id = id /\ Between(lo, f, ids)
  BY DEF Placed
<1>2. f \in 1..top2
  OBVIOUS
<1>3. ASSUME NEW i \in Owed, lo2 < i, i < f PROVE Log[i].id \in more
  <2>1. lo < i
    BY <1>3, LogFacts
  <2>2. Log[i].id \in ids /\ SlotOf[Log[i].id] \in DbSlots
    BY <1>1, <1>3, <2>1, LogFacts DEF Between
  <2> QED BY <2>2 DEF Carried
<1> QED BY <1>1, <1>2, <1>3 DEF Placed, Between

LEMMA BetweenGrows ==
    ASSUME NEW ids, NEW more, Carried(ids, more), NEW f \in Nat,
           NEW lo \in Nat, NEW lo2 \in Nat, lo <= lo2, Between(lo, f, ids)
    PROVE  Between(lo2, f, more)
<1>1. ASSUME NEW i \in Owed, lo2 < i, i < f PROVE Log[i].id \in more
  <2>1. lo < i
    BY <1>1, LogFacts
  <2>2. Log[i].id \in ids /\ SlotOf[Log[i].id] \in DbSlots
    BY <1>1, <2>1, LogFacts DEF Between
  <2> QED BY <2>2 DEF Carried
<1> QED BY <1>1 DEF Between

\* The sequence before its end is the whole sequence, before its start nothing.
LEMMA BeforeFacts ==
    ASSUME NEW q \in Seq(Event)
    PROVE  /\ Before(q, 1) = {} /\ Before(q, Len(q) + 1) = Ids(q)
           /\ \A e \in Event : \A k \in 1..(Len(q) + 1) : Before(Append(q, e), k) = Before(q, k)
           /\ q # <<>> => \A k \in 1..Len(q) :
                 Before(q, k + 1) = {Head(q).id} \cup Before(Tail(q), k)
<1>1. Len(q) \in Nat /\ DOMAIN q = 1..Len(q)
  OBVIOUS
<1>2. Before(q, 1) = {} /\ Before(q, Len(q) + 1) = Ids(q)
  BY <1>1 DEF Before, Ids
<1>3. ASSUME NEW e \in Event, NEW k \in 1..(Len(q) + 1)
      PROVE  Before(Append(q, e), k) = Before(q, k)
  <2> DEFINE r == Append(q, e)
  <2>1. \A n \in 1..Len(q) : r[n] = q[n]
    OBVIOUS
  <2> HIDE DEF r
  <2>2. \A n \in 1..(k - 1) : r[n] = q[n]
    BY <1>1, <2>1
  <2>3. Before(r, k) = Before(q, k)
    BY <2>2 DEF Before
  <2> QED BY <2>3 DEF r
<1>4. ASSUME q # <<>>, NEW k \in 1..Len(q)
      PROVE  Before(q, k + 1) = {Head(q).id} \cup Before(Tail(q), k)
  <2> DEFINE t == Tail(q)
  <2>1. Head(q) = q[1] /\ \A n \in 1..(Len(q) - 1) : t[n] = q[n + 1]
    BY <1>4
  <2> HIDE DEF t
  <2>2. ASSUME NEW n \in 1..k PROVE q[n].id \in {Head(q).id} \cup Before(t, k)
    <3>1. CASE n = 1
      BY <2>1, <3>1
    <3>2. CASE n # 1
      <4>1. n - 1 \in 1..(k - 1) /\ n - 1 \in 1..(Len(q) - 1) /\ (n - 1) + 1 = n
        BY <1>1, <3>2
      <4>2. t[n - 1] = q[n]
        BY <2>1, <4>1
      <4> QED BY <4>1, <4>2 DEF Before
    <3> QED BY <3>1, <3>2
  <2>3. ASSUME NEW n \in 1..(k - 1) PROVE t[n].id \in Before(q, k + 1)
    <3>1. n + 1 \in 1..((k + 1) - 1) /\ t[n] = q[n + 1]
      BY <1>1, <2>1
    <3> QED BY <3>1 DEF Before
  <2>4. q[1].id \in Before(q, k + 1)
    <3>1. 1 \in 1..((k + 1) - 1)
      BY <1>1
    <3> QED BY <3>1 DEF Before
  <2>5. (k + 1) - 1 = k
    BY <1>1
  <2>6. Before(q, k + 1) = {Head(q).id} \cup Before(t, k)
    BY <2>1, <2>2, <2>3, <2>4, <2>5 DEF Before
  <2> QED BY <2>6 DEF t
<1> QED BY <1>2, <1>3, <1>4

\* Nothing owed at or below the watermark is missing: the watermark is a slot
\* whose finalized event is stored, and what is owed below it comes before that.
LEMMA OwedCovered ==
    ASSUME LiveState, NEW i \in Owed, i > blind, SlotOf[Log[i].id] <= contiguous
    PROVE  Log[i].id \in stored
<1>1. i \in 1..Len(Log) /\ SlotOf[Log[i].id] \in Nat /\ InTime(i)
  BY LogFacts DEF Owed
<1>2. contiguous # None
  BY <1>1, LiveFacts, SlotFacts
<1>3. PICK id \in stored : SlotOf[id] = contiguous /\ StatusOf[id] = "finalized"
  BY <1>2 DEF LiveState, IInv, DbInv, FrontierSound, FinalityAfterPersistence
<1>4. PICK f \in 1..tip : Log[f].id = id /\ Between(blind, f, stored)
  BY <1>3 DEF LiveState, LiveWork, StoredInv, Placed
<1>5. f \in DOMAIN Log /\ f \in Nat
  BY <1>4, LogFacts, LiveFacts
<1>6. i <= f
  BY <1>1, <1>3, <1>4, <1>5 DEF InTime
<1>7. CASE i = f
  BY <1>3, <1>4, <1>7
<1>8. CASE i < f
  BY <1>4, <1>8 DEF Between
<1> QED BY <1>1, <1>5, <1>6, <1>7, <1>8

\* Whatever a step stores is the batch, and nothing owed is left out before it.
LEMMA StoredKeeps ==
    ASSUME LiveState, stored' \in {stored, stored \cup StorableIds(batch)},
           tip' \in Nat, tip <= tip', blind' \in Nat, blind <= blind'
    PROVE  StoredInv' /\ Carried(stored, stored') /\ stored \subseteq stored'
<1>1. StoredInv /\ HeldInv
  BY DEF LiveState, LiveWork
<1>2. Carried(stored, stored')
  BY DEF Carried
<1>3. ASSUME NEW id \in stored PROVE Placed(id, tip', blind', stored')
  BY <1>1, <1>2, LiveFacts, PlacedGrows DEF StoredInv
<1>4. ASSUME stored' = stored \cup StorableIds(batch), NEW id \in StorableIds(batch)
      PROVE  Placed(id, tip', blind', stored')
  <2>1. Carried(Batched, stored')
    BY <1>4 DEF Carried, Batched, Ids, StorableIds, StorableAt, Storable
  <2>2. id \in Ids(batch)
    BY <1>4, LiveFacts, BatchFacts
  <2>3. Placed(id, tip, blind, Batched)
    BY <1>1, <2>2 DEF HeldInv
  <2> QED BY <2>1, <2>3, LiveFacts, PlacedGrows
<1> QED BY <1>2, <1>3, <1>4 DEF StoredInv

\* Steps that move no event between the channel, the batcher and the batch.
LEMMA QuietKeeps ==
    ASSUME LiveState, UNCHANGED <<channel, pending, batch>>, stored \subseteq stored',
           tip' \in Nat, tip <= tip', blind' \in Nat, blind <= blind'
    PROVE  /\ HeldInv'
           /\ Alive => Between(blind', position + 1,
                               Held' \cup Before(channel', Len(channel') + 1))
<1>1. HeldInv /\ ServedInv
  BY DEF LiveState, LiveWork
<1>2. Carried(Batched, Batched') /\ Carried(Held, Held')
      /\ \A k \in 1..(Len(channel) + 1) :
            Carried(Held \cup Before(channel, k), Held' \cup Before(channel', k))
  BY DEF Carried, Batched, Held
<1>3. \A id \in Ids(batch) : Placed(id, tip', blind', Batched')
  BY <1>1, <1>2, LiveFacts, PlacedGrows DEF HeldInv
<1>4. \A id \in Ids(pending) : Placed(id, tip', blind', Held')
  BY <1>1, <1>2, LiveFacts, PlacedGrows DEF HeldInv
<1>5. ASSUME NEW k \in 1..Len(channel)
      PROVE  Placed(channel[k].id, tip', blind', Held' \cup Before(channel', k))
  <2>1. k \in 1..(Len(channel) + 1)
    BY LiveFacts
  <2> QED BY <1>1, <1>2, <2>1, LiveFacts, PlacedGrows DEF HeldInv
<1>6. HeldInv'
  BY <1>3, <1>4, <1>5 DEF HeldInv
<1>7. ASSUME Alive
      PROVE  Between(blind', position + 1, Held' \cup Before(channel', Len(channel') + 1))
  <2>1. Carried(Held \cup Before(channel, Len(channel) + 1),
                Held' \cup Before(channel', Len(channel') + 1))
    <3>1. Len(channel) + 1 \in 1..(Len(channel) + 1)
      BY LiveFacts
    <3> QED BY <1>2, <3>1
  <2>2. position + 1 \in Nat
    BY LiveFacts
  <2> QED BY <1>1, <1>7, <2>1, <2>2, LiveFacts, BetweenGrows DEF ServedInv
<1> QED BY <1>6, <1>7

\* A process that stopped holds nothing.
LEMMA EmptyHeld ==
    ASSUME channel' = <<>>, pending' = <<>>, batch' = <<>>
    PROVE  HeldInv'
<1>1. Ids(batch)' = {} /\ Ids(pending)' = {} /\ Len(channel') = 0
  BY IdsFacts
<1> QED BY <1>1 DEF HeldInv

\* The producer takes the next update of the subscription: what it passes over
\* is below from_slot, and so is stored.
LEMMA SendKeepsWork ==
    ASSUME LiveState, LiveSend
    PROVE  HeldInv' /\ ServedInv'
<1> DEFINE p == Min(Matching)
           n == Len(channel)
<1>1. /\ Matching # {} /\ position' = p /\ channel' = Append(channel, Log[p])
      /\ UNCHANGED <<stored, batch, pending, contiguous, fromSlot, tip, blind, pc>> /\ Alive
  BY DEF LiveSend, ProducerSend, dbVars
<1>2. LiveNumbers /\ HeldInv /\ ServedInv
  BY DEF LiveState, LInv, LiveTypeOK, LiveNumbers, LiveWork
<1>3. p \in 0..tip /\ Log[p] \in Event
  BY <1>1, <1>2, NextUpdate
<1>4. p \in Matching /\ \A i \in Matching : p <= i
  <2>1. Matching \in SUBSET Nat /\ Matching \subseteq (position + 1)..tip
    BY <1>2 DEF Matching, LiveNumbers
  <2>2. \E x \in Matching : \A y \in Matching : x <= y
    BY <1>1, <2>1, LowestExists
  <2> QED BY <2>2 DEF Min
<1> HIDE DEF p
<1>5. p \in 1..tip /\ position < p /\ p \in Nat
  BY <1>3, <1>4, LiveFacts DEF Matching
<1>6. /\ channel \in Seq(Event) /\ n \in Nat /\ Len(channel') = n + 1
      /\ channel'[n + 1] = Log[p] /\ \A k \in 1..n : channel'[k] = channel[k]
      /\ \A k \in 1..(n + 1) : Before(channel', k) = Before(channel, k)
      /\ Before(channel', (n + 1) + 1) = Ids(channel) \cup {Log[p].id}
      /\ Before(channel, n + 1) = Ids(channel)
  <2>1. channel \in Seq(Event) /\ n \in Nat
    BY LiveFacts
  <2> DEFINE e == Log[p]
             r == Append(channel, e)
  <2>2. e \in Event
    BY <1>3
  <2> HIDE DEF e
  <2>3. /\ r \in Seq(Event) /\ Len(r) = n + 1 /\ r[n + 1] = e
        /\ \A k \in 1..n : r[k] = channel[k]
    BY <2>1, <2>2
  <2>4. \A k \in 1..(n + 1) : Before(r, k) = Before(channel, k)
    BY <2>1, <2>2, BeforeFacts
  <2>5. Before(channel, n + 1) = Ids(channel)
    BY <2>1, BeforeFacts
  <2>6. Before(r, Len(r) + 1) = Ids(r)
    BY <2>3, BeforeFacts
  <2>7. Ids(r) = Ids(channel) \cup {e.id}
    BY <2>1, <2>2, IdsFacts
  <2>8. Before(r, (n + 1) + 1) = Ids(channel) \cup {e.id}
    BY <2>3, <2>6, <2>7
  <2>9. channel' = r /\ e = Log[p]
    BY <1>1 DEF e
  <2> HIDE DEF r
  <2> QED BY <2>1, <2>3, <2>4, <2>5, <2>8, <2>9
<1> DEFINE have == Held \cup Before(channel, n + 1)
<1>7. Between(blind, p, have)
  <2>1. ASSUME NEW i \in Owed, blind < i, i < p PROVE Log[i].id \in have
    <3>1. i \in 1..Len(Log)
      BY LogFacts
    <3>2. CASE i < position + 1
      BY <1>1, <1>2, <2>1, <3>2 DEF ServedInv, Between
    <3>3. CASE ~(i < position + 1)
      <4>1. i \in (position + 1)..tip /\ i \notin Matching
        BY <1>4, <1>5, <2>1, <3>1, <3>3, LiveFacts
      <4>2. ~(SlotOf[Log[i].id] >= fromSlot)
        BY <4>1 DEF Matching
      <4>3. SlotOf[Log[i].id] <= contiguous
        BY <1>2, <3>1, <4>2, LiveFacts, LogFacts DEF ServedInv
      <4>4. Log[i].id \in stored
        BY <2>1, <3>1, <4>3, OwedCovered, LiveFacts
      <4> QED BY <4>4 DEF Held, Batched
    <3> QED BY <3>2, <3>3
  <2> QED BY <2>1 DEF Between
<1>8. Held' = Held /\ Batched' = Batched
  BY <1>1 DEF Held, Batched
<1>9. \A k \in 1..Len(channel') : Placed(channel'[k].id, tip, blind, Held \cup Before(channel', k))
  <2> SUFFICES ASSUME NEW k \in 1..Len(channel')
               PROVE  Placed(channel'[k].id, tip, blind, Held \cup Before(channel', k))
    OBVIOUS
  <2>1. CASE k = n + 1
    <3>1. channel'[k] = Log[p] /\ Held \cup Before(channel', k) = have
      BY <1>6, <2>1
    <3> HIDE DEF have
    <3>2. Placed(Log[p].id, tip, blind, have)
      BY <1>5, <1>7 DEF Placed
    <3> QED BY <3>1, <3>2
  <2>2. CASE k # n + 1
    <3>1. k \in 1..n /\ k \in 1..(n + 1)
      BY <1>6, <2>2
    <3>2. Placed(channel[k].id, tip, blind, Held \cup Before(channel, k))
      BY <1>2, <3>1 DEF HeldInv
    <3> QED BY <1>6, <3>1, <3>2
  <2> QED BY <2>1, <2>2
<1>10. HeldInv'
  BY <1>1, <1>2, <1>8, <1>9 DEF HeldInv
<1>11. Between(blind, p + 1, Held \cup Before(channel', Len(channel') + 1))
  <2> DEFINE more == Held \cup Before(channel', Len(channel') + 1)
  <2>1. more = have \cup {Log[p].id}
    BY <1>6
  <2> HIDE DEF more, have
  <2>2. ASSUME NEW i \in Owed, blind < i, i < p + 1 PROVE Log[i].id \in more
    <3>1. i \in Nat
      BY LogFacts
    <3>2. i = p \/ i < p
      BY <1>5, <2>2, <3>1
    <3> QED BY <1>7, <2>1, <2>2, <3>2 DEF Between
  <2>3. Between(blind, p + 1, more)
    BY <2>2 DEF Between
  <2> QED BY <2>3 DEF more
<1>12. ServedInv'
  BY <1>1, <1>2, <1>8, <1>11 DEF ServedInv
<1> QED BY <1>10, <1>12

\* An event moves from the channel to the batcher or into the batch.
LEMMA ReceiveKeepsWork ==
    ASSUME LiveState, Receive, UNCHANGED <<tip, blind, position, fromSlot>>
    PROVE  HeldInv' /\ ServedInv'
<1> DEFINE e == Head(channel)
           filled == Append(pending, e)
<1>1. /\ Alive /\ Alive' /\ channel # <<>> /\ channel' = Tail(channel) /\ batch = <<>>
      /\ UNCHANGED <<stored, contiguous>>
      /\ \/ pending' = filled /\ batch' = <<>>
         \/ pending' = <<>> /\ batch' = filled
  <2>1. ~ShouldSkip(e)
    BY LiveAssumption DEF ShouldSkip
  <2>2. pc = "receive" /\ batch = <<>>
    BY LiveFacts DEF Receive
  <2>3. /\ channel # <<>> /\ channel' = Tail(channel) /\ UNCHANGED <<stored, contiguous>>
        /\ pc' \in {"receive", "write"}
        /\ \/ pending' = filled /\ batch' = batch
           \/ pending' = <<>> /\ batch' = filled
    BY <2>1, <2>2 DEF Receive, HasEvent, dbVars
  <2> QED BY <2>2, <2>3 DEF Alive
<1>2. HeldInv /\ ServedInv
  BY DEF LiveState, LiveWork
<1>3. channel \in Seq(Event) /\ pending \in Seq(Event) /\ e \in Event
      /\ Len(channel) \in Nat /\ Len(channel) >= 1 /\ Len(channel') = Len(channel) - 1
      /\ \A k \in 1..Len(channel') : channel'[k] = channel[k + 1] /\ k + 1 \in 1..Len(channel)
      /\ channel[1] = e
  BY <1>1, LiveFacts
<1>4. Ids(filled) = Ids(pending) \cup {e.id} /\ Ids(<<>>) = {} /\ Ids(batch) = {}
  BY <1>1, <1>3, IdsFacts
<1>5. /\ Before(channel, 1) = {}
      /\ \A k \in 1..Len(channel) : Before(channel, k + 1) = {e.id} \cup Before(channel', k)
  BY <1>1, <1>3, BeforeFacts
<1>6. Held = stored \cup Ids(pending) /\ Held' = Held \cup {e.id}
      /\ (batch' = filled => Batched' = Held')
  BY <1>1, <1>4 DEF Held, Batched
<1>7. Placed(e.id, tip, blind, Held')
  <2>1. Placed(e.id, tip, blind, Held \cup Before(channel, 1))
    <3>1. 1 \in 1..Len(channel)
      BY <1>3
    <3>2. Placed(channel[1].id, tip, blind, Held \cup Before(channel, 1))
      BY <1>2, <3>1 DEF HeldInv
    <3> QED BY <1>3, <3>2
  <2>2. Carried(Held \cup Before(channel, 1), Held')
    BY <1>5, <1>6 DEF Carried
  <2> QED BY <2>1, <2>2, LiveFacts, PlacedGrows
<1>8. \A id \in Ids(pending) : Placed(id, tip, blind, Held')
  <2>1. Carried(Held, Held')
    BY <1>6 DEF Carried
  <2> QED BY <1>2, <2>1, LiveFacts, PlacedGrows DEF HeldInv
<1>9. \A k \in 1..Len(channel') : Placed(channel'[k].id, tip, blind, Held' \cup Before(channel', k))
  <2> SUFFICES ASSUME NEW k \in 1..Len(channel')
               PROVE  Placed(channel'[k].id, tip, blind, Held' \cup Before(channel', k))
    OBVIOUS
  <2>1. channel'[k] = channel[k + 1] /\ k + 1 \in 1..Len(channel) /\ k \in 1..Len(channel)
    BY <1>3
  <2>2. Held \cup Before(channel, k + 1) = Held' \cup Before(channel', k)
    BY <1>5, <1>6, <2>1
  <2> QED BY <1>2, <2>1, <2>2 DEF HeldInv
<1>10. Between(blind, position + 1, Held' \cup Before(channel', Len(channel') + 1))
  <2>1. Len(channel') + 1 = Len(channel) /\ Len(channel) \in 1..Len(channel)
    BY <1>3
  <2>2. Held \cup Before(channel, Len(channel) + 1)
          = Held' \cup Before(channel', Len(channel') + 1)
    BY <1>5, <1>6, <2>1
  <2> QED BY <1>1, <1>2, <2>2 DEF ServedInv
<1>11. HeldInv'
  <2>1. Ids(pending)' \cup Ids(batch)' = Ids(pending) \cup {e.id}
        /\ (Ids(batch)' = {} \/ Batched' = Held')
    BY <1>1, <1>4, <1>6
  <2>2. \A id \in Ids(pending)' \cup Ids(batch)' : Placed(id, tip, blind, Held')
    BY <1>7, <1>8, <2>1
  <2>3. \A id \in Ids(batch)' : Placed(id, tip, blind, Batched')
    BY <2>1, <2>2
  <2> QED BY <1>9, <2>2, <2>3 DEF HeldInv
<1>12. ServedInv'
  BY <1>1, <1>2, <1>10 DEF ServedInv
<1> QED BY <1>11, <1>12

\* The batcher's last events become the batch, or the batch is let go of: what
\* is held stays the same.
LEMMA BatchKeepsWork ==
    ASSUME LiveState, ChannelClosed \/ BatchDone, UNCHANGED <<tip, blind, position, fromSlot>>
    PROVE  HeldInv' /\ ServedInv'
<1>1. HeldInv /\ ServedInv /\ Ids(<<>>) = {}
  BY IdsFacts DEF LiveState, LiveWork
<1>2. Alive /\ UNCHANGED <<stored, contiguous, channel>>
  BY DEF ChannelClosed, BatchDone, Alive, dbVars
<1>3. /\ Held' = Held
      /\ Batched' \in {Held, Batched}
      /\ \A id \in Ids(batch)' : Placed(id, tip, blind, Batched')
      /\ Ids(pending)' \subseteq Ids(pending)
  <2>1. CASE UNCHANGED <<batch, pending>>
    BY <1>1, <1>2, <2>1 DEF Held, Batched, HeldInv
  <2>2. CASE ChannelClosed /\ batch' = pending /\ pending' = <<>>
    <3>1. batch = <<>>
      BY <2>2, LiveFacts DEF ChannelClosed
    <3>2. Ids(batch) = {} /\ Ids(batch)' = Ids(pending) /\ Ids(pending)' = {}
      BY <1>1, <2>2, <3>1
    <3>3. Batched' = Held /\ Held' = Held
      BY <1>2, <3>2 DEF Held, Batched
    <3> QED BY <1>1, <3>2, <3>3 DEF HeldInv
  <2>3. CASE BatchDone
    <3>1. Ids(batch) \subseteq stored /\ batch' = <<>> /\ pending' = pending
      BY <2>3, LiveFacts DEF BatchDone, PastCursor
    <3>2. Ids(batch)' = {} /\ Ids(pending)' = Ids(pending)
      BY <1>1, <3>1
    <3>3. Batched' = Batched /\ Held' = Held
      BY <1>2, <3>1, <3>2 DEF Held, Batched
    <3> QED BY <3>2, <3>3
  <2> QED BY <2>1, <2>2, <2>3 DEF ChannelClosed
<1>4. HeldInv'
  BY <1>1, <1>2, <1>3 DEF HeldInv
<1>5. ServedInv'
  BY <1>1, <1>2, <1>3 DEF ServedInv
<1> QED BY <1>4, <1>5

\* Every step either leaves what is held alone, drops it, or is one of the above.
LEMMA LiveWorkStep ==
    ASSUME LiveState, [LiveNext]_liveVars
    PROVE  LiveWork'
<1> DEFINE Grows == tip' \in Nat /\ tip <= tip' /\ blind' \in Nat /\ blind <= blind'
           Quiet == UNCHANGED <<channel, pending, batch>>
           Drops == channel' = <<>> /\ pending' = <<>> /\ batch' = <<>> /\ ~Alive'
           Mine  == ServedInv' /\ HeldInv'
<1>1. LInv /\ LiveTypeOK /\ IInv /\ HeldInv /\ ServedInv
  BY DEF LiveState, LInv, LiveWork
<1>2. [Next]_vars
  BY <1>1, LiveStep
<1>3. contiguous <= contiguous' /\ contiguous' \in Int
  <2>1. TypeOK'
    BY <1>1, <1>2, TypeStep DEF LiveTypeOK
  <2> QED BY <1>1, <1>2, <2>1, ColumnsStep, LiveFacts, SlotFacts DEF TypeOK
<1>4. Grows
  <2>1. CASE UNCHANGED <<tip, blind>>
    BY <2>1, LiveFacts
  <2>2. CASE ProviderAppends
    BY <2>2, LiveFacts DEF ProviderAppends, attemptVars
  <2>3. CASE LiveOpened
    <3>1. blind' \in {Greatest(blind, tip), blind} /\ tip' = tip
      BY <2>3 DEF LiveOpened
    <3> QED BY <3>1, LiveFacts DEF Greatest
  <2> QED BY <2>1, <2>2, <2>3
      DEF LiveNext, LiveProducer, LiveConfigure, LiveConfigurePanics, LiveSend, LiveFails,
          LiveClock, LiveReceiver, LiveStops, LiveRestart, attemptVars, liveVars
<1>5. stored' \in {stored, stored \cup StorableIds(batch)}
  BY <1>1, <1>2, StepEffect DEF dbVars, StoringStep, CursorStep, TableStep, WatermarkStep
<1>6. StoredInv' /\ stored \subseteq stored'
  BY <1>4, <1>5, StoredKeeps
<1>7. ASSUME Quiet, UNCHANGED position, fromSlot' = fromSlot, Alive' => Alive PROVE Mine
  <2>1. HeldInv'
    BY <1>4, <1>6, <1>7, QuietKeeps
  <2>2. Alive' => Between(blind', position' + 1,
                          Held' \cup Before(channel', Len(channel') + 1))
    BY <1>4, <1>6, <1>7, QuietKeeps
  <2>3. fromSlot' <= contiguous'
    BY <1>1, <1>3, <1>7, LiveFacts DEF ServedInv
  <2> QED BY <2>1, <2>2, <2>3 DEF ServedInv
<1>8. ASSUME Drops, fromSlot' = fromSlot PROVE Mine
  <2>1. fromSlot' <= contiguous'
    BY <1>1, <1>3, <1>8, LiveFacts DEF ServedInv
  <2> QED BY <1>8, <2>1, EmptyHeld DEF ServedInv
<1> SUFFICES Mine
  BY <1>6 DEF LiveWork
<1> HIDE DEF Mine
<1>9. CASE ProviderAppends
  BY <1>7, <1>9 DEF ProviderAppends, vars, dbVars, processVars, attemptVars, Alive
<1>10. CASE LiveConfigure
  <2>1. /\ Quiet /\ UNCHANGED <<position, stored, contiguous, pc>>
        /\ Alive /\ fromSlot' = Decode(shared)
    BY <1>10 DEF LiveConfigure, ProducerRuns, vars, dbVars, processVars
  <2>2. fromSlot' <= contiguous'
    BY <1>1, <2>1 DEF LInv, SharedInv
  <2>3. HeldInv' /\ Between(blind', position' + 1,
                            Held' \cup Before(channel', Len(channel') + 1))
    BY <1>4, <1>6, <2>1, QuietKeeps
  <2> QED BY <2>2, <2>3 DEF Mine, ServedInv
<1>11. CASE LiveConfigurePanics
  BY <1>7, <1>11 DEF LiveConfigurePanics, ProducerExit, attemptVars, Alive
<1>12. CASE LiveOpened
  <2>1. /\ Quiet /\ UNCHANGED <<stored, contiguous, pc, tip, fromSlot>>
        /\ \/ position' = tip /\ blind' = Greatest(blind, tip)
           \/ position' = 0 /\ blind' = blind
    BY <1>12 DEF LiveOpened, vars, dbVars, processVars
  <2>2. HeldInv'
    BY <1>4, <1>6, <2>1, QuietKeeps
  <2>3. position' + 1 <= blind' + 1 /\ position' + 1 \in Nat
    BY <2>1, LiveFacts DEF Greatest
  <2>4. ASSUME NEW ids PROVE Between(blind', position' + 1, ids)
    BY <1>4, <2>3, LogFacts DEF Between
  <2>5. fromSlot' <= contiguous'
    BY <1>1, <2>1 DEF ServedInv
  <2> QED BY <2>2, <2>4, <2>5 DEF Mine, ServedInv
<1>13. CASE LiveSend
  BY <1>13, SendKeepsWork DEF Mine
<1>14. CASE LiveClock
  BY <1>7, <1>14 DEF LiveClock, vars, processVars, attemptVars, Alive
<1>15. ASSUME NEW kind \in ProviderFailures, LiveFails(kind) PROVE Mine
  BY <1>7, <1>15 DEF LiveFails, ProducerExit, vars, processVars, attemptVars, Alive
<1>16. CASE LiveReceiver
  <2> USE <1>16
  <2>0. UNCHANGED <<tip, blind, position, fromSlot>>
    BY DEF LiveReceiver, attemptVars
  <2>1. CASE Receive BY <2>0, <2>1, ReceiveKeepsWork DEF Mine
  <2>2. CASE ChannelClosed \/ BatchDone BY <2>0, <2>2, BatchKeepsWork DEF Mine
  <2>3. CASE WriteEvents BY <1>7, <2>0, <2>3 DEF WriteEvents, Alive
  <2>4. CASE UpdateCursor BY <1>7, <2>0, <2>4 DEF UpdateCursor, Alive
  <2>5. CASE RecordSlotStates BY <1>7, <2>0, <2>5 DEF RecordSlotStates, Alive
  <2>6. CASE SelectWatermark BY <1>7, <2>0, <2>6 DEF SelectWatermark, Alive
  <2>7. CASE UpsertWatermark BY <1>7, <2>0, <2>7 DEF UpsertWatermark, Alive
  <2>8. CASE Join BY <1>7, <2>0, <2>8 DEF Join, Alive
  <2>9. CASE CursorOutOfRange
    BY <1>8, <2>0, <2>9 DEF CursorOutOfRange, FailWith, DropProcess, Alive
  <2>10. CASE RecordOutOfRange
    BY <1>8, <2>0, <2>10 DEF RecordOutOfRange, FailWith, DropProcess, Alive
  <2> QED BY <2>1, <2>2, <2>3, <2>4, <2>5, <2>6, <2>7, <2>8, <2>9, <2>10
          DEF LiveReceiver, Receiver, WriteBatch
<1>17. CASE LiveStops
  <2>1. fromSlot' = fromSlot
    BY <1>17 DEF LiveStops, attemptVars
  <2>2. Drops
    BY <1>17 DEF LiveStops, StatementFails, WriteFails, CursorFails, RecordFails, SelectFails,
       UpsertFails, Crash, FailWith, DropProcess, Alive
  <2> QED BY <1>8, <2>1, <2>2
<1>18. CASE LiveRestart
  <2>1. /\ channel' = <<>> /\ pending' = <<>> /\ batch' = <<>>
        /\ contiguous' = contiguous /\ fromSlot' = None /\ position' = 0
    BY <1>18 DEF LiveRestart, Restart, dbVars
  <2>2. fromSlot' <= contiguous'
    BY <1>1, <2>1, SlotFacts DEF LiveTypeOK, TypeOK
  <2>3. ASSUME NEW ids PROVE Between(blind', 0 + 1, ids)
    BY <1>4, LogFacts DEF Between
  <2>4. HeldInv'
    BY <2>1, EmptyHeld
  <2> QED BY <2>1, <2>2, <2>3, <2>4 DEF Mine, ServedInv
<1>19. CASE UNCHANGED liveVars
  BY <1>7, <1>19 DEF liveVars, vars, dbVars, processVars, attemptVars, Alive
<1> QED
  BY <1>9, <1>10, <1>11, <1>12, <1>13, <1>14, <1>15, <1>16, <1>17, <1>18, <1>19
  DEF LiveNext, LiveProducer

LEMMA LiveWorkInit == ASSUME LiveInit PROVE LiveWork
<1>1. /\ stored = {} /\ channel = <<>> /\ pending = <<>> /\ batch = <<>>
      /\ contiguous = None /\ fromSlot = None /\ position = 0 /\ blind = 0
  BY DEF LiveInit, Init
<1>2. Ids(batch) = {} /\ Ids(pending) = {} /\ Len(channel) = 0
  BY <1>1, IdsFacts
<1>3. ASSUME NEW ids PROVE Between(0, 0 + 1, ids)
  BY LogFacts DEF Between
<1> QED BY <1>1, <1>2, <1>3, SlotFacts DEF LiveWork, StoredInv, HeldInv, ServedInv

LEMMA LiveStateHolds == LiveSpec => []LiveState
<1>1. LiveInit => LiveWork
  BY LiveWorkInit
<1>2. LInv /\ IInv /\ ProcessInv /\ LiveWork /\ [LiveNext]_liveVars => LiveWork'
  BY LiveWorkStep DEF LiveState
<1>3. LiveSpec => []LInv /\ []IInv /\ []ProcessInv
  BY LiveInvHolds, LiveImplementsPipeline, InvHolds, ProcessKept, PTL
<1>4. LiveSpec => []LiveWork
  BY <1>1, <1>2, <1>3, PTL DEF LiveSpec
<1>5. LInv /\ IInv /\ ProcessInv /\ LiveWork => LiveState
  BY DEF LiveState
<1> QED BY <1>3, <1>4, <1>5, PTL

(***************************************************************************)
(* Live recovery loses nothing that was sent in time and is at or below the *)
(* watermark, whatever fails, dies and reconnects, for every log.           *)
(***************************************************************************)
THEOREM FrontierCovers == LiveSpec => []FrontierCoversLog
<1>1. LiveState => FrontierCoversLog
  <2> SUFFICES ASSUME LiveState, NEW i \in DOMAIN Log, i > blind, InTime(i), Storable(Log[i]),
                      SlotOf[Log[i].id] <= contiguous
               PROVE  Log[i].id \in stored
    BY DEF FrontierCoversLog, Covered
  <2>1. i \in Owed
    BY DEF Owed
  <2> QED BY <2>1, OwedCovered
<1> QED BY <1>1, LiveStateHolds, PTL

\* With a provider that finalizes a slot after what happened in it, everything
\* but the status of slots is sent in time: no transaction is lost.
THEOREM LedgerCovered ==
    LiveSpec => [](\A i \in DOMAIN Log : i > blind /\ StatusOf[Log[i].id] = "other" => Covered(i))
<1>1. \A i \in DOMAIN Log : StatusOf[Log[i].id] = "other" => InTime(i)
  BY ProviderOrder, LogFacts DEF InTime
<1>2. FrontierCoversLog =>
        \A i \in DOMAIN Log : i > blind /\ StatusOf[Log[i].id] = "other" => Covered(i)
  BY <1>1 DEF FrontierCoversLog
<1> QED BY <1>2, FrontierCovers, PTL
=============================================================================
