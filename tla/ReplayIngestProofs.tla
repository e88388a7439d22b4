------------------------- MODULE ReplayIngestProofs -------------------------
(***************************************************************************)
(* Replay mode is the pipeline with one particular producer: every replay   *)
(* behaviour is a pipeline behaviour, so what is proved of the pipeline     *)
(* holds for replays of any file.  A file whose slots rise is replayed      *)
(* without loss, whatever dies on the way, and its rows never run more than *)
(* a batch ahead of the cursor, which is what a consumer who reads while    *)
(* replays run relies on.                                                   *)
(***************************************************************************)
EXTENDS ConsumerApi, IngestPipelineProofs

ReplayInv == file \in Files /\ position \in 0..Len(file)

\* A file of the operator is a finite sequence of deliveries.
LEMMA FileFacts ==
    ASSUME ReplayInv
    PROVE  /\ file \in Seq(Event) /\ Len(file) \in Nat /\ position \in Nat
           /\ position < Len(file) => /\ position + 1 \in 0..Len(file)
                                      /\ file[position + 1] \in Event
<1>1. file \in Seq(Event)
  BY ReplayAssumption DEF ReplayInv
<1> QED BY <1>1 DEF ReplayInv

LEMMA ReplayInitial == ReplayInit => Init /\ ReplayInv
<1> SUFFICES ASSUME ReplayInit PROVE ReplayInv
  BY DEF ReplayInit
<1>1. file \in Seq(Event)
  BY ReplayAssumption DEF ReplayInit
<1> QED BY <1>1 DEF ReplayInit, ReplayInv

\* Each step of a replay is a step of the pipeline.
LEMMA ReplayStep ==
    ReplayInv /\ [ReplayNext]_replayVars => [Next]_vars /\ ReplayInv'
<1> SUFFICES ASSUME ReplayInv, [ReplayNext]_replayVars PROVE [Next]_vars /\ ReplayInv'
  OBVIOUS
<1>1. CASE ReplaySend
  BY <1>1, FileFacts DEF ReplaySend, ReplayInv, Next, Producer
<1>2. CASE ReplayEnd
  BY <1>2 DEF ReplayEnd, ReplayInv, Next, Producer
<1>3. CASE ReplayReceiver
  BY <1>3 DEF ReplayReceiver, ReplayInv, Next
<1>4. CASE ReplayStops
  BY <1>4 DEF ReplayStops, ReplayInv, Next
<1>5. CASE ReplayRestart
  BY <1>5, FileFacts DEF ReplayRestart, ReplayInv, Next
<1>6. CASE UNCHANGED replayVars
  BY <1>6 DEF replayVars, ReplayInv
<1> QED BY <1>1, <1>2, <1>3, <1>4, <1>5, <1>6 DEF ReplayNext

\* Replay mode implements the pipeline specification.
THEOREM ReplayImplementsPipeline == ReplaySpec => Spec
BY ReplayInitial, ReplayStep, PTL DEF ReplaySpec, Spec

\* The reader never runs past its file, and the pipeline stays well typed.
THEOREM ReplayTypeCorrect == ReplaySpec => []ReplayTypeOK
<1>1. ReplaySpec => []ReplayInv
  BY ReplayInitial, ReplayStep, PTL DEF ReplaySpec
<1>2. ReplaySpec => []TypeOK
  BY ReplayImplementsPipeline, TypeCorrect, PTL
<1>3. TypeOK /\ ReplayInv => ReplayTypeOK
  BY DEF ReplayInv, ReplayTypeOK
<1> QED BY <1>1, <1>2, <1>3, PTL

-----------------------------------------------------------------------------
(***************************************************************************)
(* What a replay owes its file: the batch, the batcher and the channel hold *)
(* its next stretch, and, of a file with one event per slot, what is at or  *)
(* below the cursor is stored and what the resume rule skips with it.       *)
(***************************************************************************)
\* Events of the file this process has received and let go of.
Done == position - (Len(channel) + Len(pending) + Len(batch))

\* The batch, the batcher and the channel hold the next stretch of the file.
LineInv ==
    Alive =>
        /\ Done \in Nat
        /\ \A i \in 1..Len(batch) : batch[i] = file[Done + i]
        /\ \A i \in 1..Len(pending) : pending[i] = file[Done + Len(batch) + i]
        /\ \A i \in 1..Len(channel) :
              channel[i] = file[Done + Len(batch) + Len(pending) + i]

\* What was let go of is stored, by this process or by the ones before it.
ResumeInv ==
    Alive =>
        /\ \A i \in 1..Done : file[i].id \in stored
        /\ resumeAfter <= cursor
        /\ \A i \in 1..Len(pending) : SlotOf[pending[i].id] > resumeAfter

\* A process ends well only when its whole file went through.
EndInv ==
    Alive =>
        /\ producer = "running" \/ (producer = "ok" /\ position = Len(file))
        /\ draining \/ pc = "join" =>
              channel = <<>> /\ pending = <<>> /\ producer # "running"
        /\ pc = "join" => batch = <<>>

ReplayWork == LineInv /\ ResumeInv /\ EndInv /\ CursorCoversFile /\ ReplayComplete

\* Everything the step lemmas assume of the state before.
ReplayState == TypeOK /\ ReplayInv /\ ProcessInv /\ ReplayWork

LEMMA LineFacts ==
    ASSUME ReplayState
    PROVE  /\ file \in Seq(Event) /\ Len(file) \in Nat /\ DOMAIN file = 1..Len(file)
           /\ position \in 0..Len(file)
           /\ channel \in Seq(Event) /\ pending \in Seq(Event) /\ batch \in Seq(Event)
           /\ Len(channel) \in Nat /\ Len(pending) \in Nat /\ Len(batch) \in Nat
           /\ Done + Len(batch) + Len(pending) + Len(channel) = position
           /\ cursor \in Int /\ resumeAfter \in Int
           /\ \A i \in 1..Len(file) : SlotOf[file[i].id] \in Nat
<1>1. file \in Seq(Event) /\ position \in 0..Len(file)
  BY FileFacts DEF ReplayState, ReplayInv
<1>2. /\ channel \in Seq(Event) /\ pending \in Seq(Event) /\ batch \in Seq(Event)
      /\ cursor \in DbSlotOrNone /\ resumeAfter \in DbSlotOrNone
  BY DEF ReplayState, TypeOK
<1>3. Len(channel) \in Nat /\ Len(pending) \in Nat /\ Len(batch) \in Nat /\ Len(file) \in Nat
      /\ DOMAIN file = 1..Len(file)
  BY <1>1, <1>2
<1>4. Done + Len(batch) + Len(pending) + Len(channel) = position
  BY <1>1, <1>3 DEF Done
<1>5. ASSUME NEW i \in 1..Len(file) PROVE SlotOf[file[i].id] \in Nat
  <2>1. file[i] \in Event
    BY <1>1, <1>3
  <2> QED BY <2>1, EventFacts, SlotFacts
<1> QED BY <1>1, <1>2, <1>3, <1>4, <1>5, SlotFacts

LEMMA Rising ==
    ASSUME OnePerSlot, ReplayInv, NEW i \in 1..Len(file), NEW j \in 1..Len(file), i < j
    PROVE  SlotOf[file[i].id] < SlotOf[file[j].id]
BY DEF OnePerSlot, ReplayInv

\* When the cursor is about to name the last slot of the batch, nothing of the
\* file at or below that slot is missing.
LEMMA BatchCovers ==
    ASSUME OnePerSlot, ReplayState, pc = "cursor", LastSlot(batch) \in DbSlots,
           NEW i \in 1..Len(file), SlotOf[file[i].id] <= LastSlot(batch)
    PROVE  file[i].id \in stored
<1>1. Alive /\ StorableIds(batch) \subseteq stored
  BY DEF ReplayState, ProcessInv, KeptInv, Alive
<1>2. /\ Done \in Nat /\ \A k \in 1..Len(batch) : batch[k] = file[Done + k]
      /\ \A k \in 1..Done : file[k].id \in stored
  BY <1>1 DEF ReplayState, ReplayWork, LineInv, ResumeInv
<1>3. PICK k \in 1..Len(batch) : SlotOf[batch[k].id] = LastSlot(batch)
  <2>1. LastSlot(batch) # None
    BY SlotFacts
  <2> QED BY <2>1, LineFacts, BatchFacts
<1>4. Done + k \in 1..Len(file) /\ SlotOf[file[Done + k].id] = LastSlot(batch)
  BY <1>2, <1>3, LineFacts
<1>5. i <= Done + k
  <2>1. ASSUME Done + k < i PROVE FALSE
    <3>1. SlotOf[file[Done + k].id] < SlotOf[file[i].id]
      BY <1>4, <2>1, Rising DEF ReplayState
    <3>2. SlotOf[file[Done + k].id] \in Nat /\ SlotOf[file[i].id] \in Nat
      BY <1>4, LineFacts
    <3> QED BY <1>4, <3>1, <3>2
  <2> QED BY <1>2, <1>3, <2>1, LineFacts
<1>6. CASE i <= Done
  <2>1. i \in 1..Done
    BY <1>2, <1>6, LineFacts
  <2> QED BY <1>2, <2>1
<1>7. CASE ~(i <= Done)
  <2>1. i - Done \in 1..Len(batch) /\ Done + (i - Done) = i
    BY <1>2, <1>3, <1>5, <1>7, LineFacts
  <2>2. batch[i - Done] = file[i]
    BY <1>2, <2>1
  <2>3. file[i].id \in Ids(batch)
    <3>1. i - Done \in DOMAIN batch
      BY <2>1, LineFacts, BatchFacts
    <3> QED BY <2>2, <3>1 DEF Ids
  <2>4. StorableIds(batch) = Ids(batch)
    BY LineFacts, InRangeBatchStorable
  <2> QED BY <1>1, <2>3, <2>4
<1> QED BY <1>6, <1>7

\* The cursor moves to a slot up to which the file is stored, or stays.
LEMMA CoversStep ==
    ASSUME OnePerSlot, ReplayState, [ReplayNext]_replayVars
    PROVE  CursorCoversFile' /\ stored \subseteq stored' /\ cursor <= cursor'
<1>0. file' = file /\ DOMAIN file = 1..Len(file) /\ cursor \in Int
      /\ CursorCoversFile
  BY LineFacts DEF ReplayState, ReplayWork, ReplayNext, ReplaySend, ReplayEnd, ReplayReceiver,
                   ReplayStops, ReplayRestart, replayVars
<1>1. ASSUME stored \subseteq stored', cursor' = cursor PROVE CursorCoversFile' /\ cursor <= cursor'
  BY <1>0, <1>1 DEF CursorCoversFile
<1>2. ASSUME pc = "cursor", LastSlot(batch) \in DbSlots, stored' = stored,
             cursor' \in {cursor, Greatest(cursor, LastSlot(batch))}
      PROVE  CursorCoversFile' /\ cursor <= cursor'
  <2>1. cursor' \in {cursor, LastSlot(batch)} /\ cursor <= cursor'
    <3>1. LastSlot(batch) \in Int
      BY <1>2, SlotAssumption DEF DbSlots
    <3> QED BY <1>0, <1>2, <3>1, GreatestFacts
  <2>2. ASSUME cursor' = LastSlot(batch), NEW i \in 1..Len(file),
               SlotOf[file[i].id] <= LastSlot(batch)
        PROVE  file[i].id \in stored
    BY <1>2, <2>2, BatchCovers
  <2> QED BY <1>0, <1>2, <2>1, <2>2 DEF CursorCoversFile
<1>3. \/ stored \subseteq stored' /\ cursor' = cursor
      \/ /\ pc = "cursor" /\ LastSlot(batch) \in DbSlots /\ stored' = stored
         /\ cursor' \in {cursor, Greatest(cursor, LastSlot(batch))}
  <2> USE DEF dbVars
  <2>1. CASE ReplaySend BY <2>1 DEF ReplaySend, ProducerSend
  <2>2. CASE ReplayEnd BY <2>2 DEF ReplayEnd, ProducerExit
  <2>3. CASE Receive BY <2>3 DEF Receive
  <2>4. CASE ChannelClosed BY <2>4 DEF ChannelClosed
  <2>5. CASE WriteEvents BY <2>5 DEF WriteEvents
  <2>6. CASE UpdateCursor BY <2>6 DEF UpdateCursor
  <2>7. CASE RecordSlotStates BY <2>7 DEF RecordSlotStates
  <2>8. CASE SelectWatermark BY <2>8 DEF SelectWatermark
  <2>9. CASE UpsertWatermark BY <2>9 DEF UpsertWatermark
  <2>10. CASE BatchDone BY <2>10 DEF BatchDone
  <2>11. CASE Join BY <2>11 DEF Join
  <2>12. CASE CursorOutOfRange BY <2>12 DEF CursorOutOfRange
  <2>13. CASE RecordOutOfRange BY <2>13 DEF RecordOutOfRange
  <2>14. CASE WriteFails BY <2>14 DEF WriteFails
  <2>15. CASE CursorFails BY <2>15 DEF CursorFails
  <2>16. CASE RecordFails BY <2>16 DEF RecordFails
  <2>17. CASE SelectFails BY <2>17 DEF SelectFails
  <2>18. CASE UpsertFails BY <2>18 DEF UpsertFails
  <2>19. CASE Crash BY <2>19 DEF Crash
  <2>20. CASE ReplayRestart BY <2>20 DEF ReplayRestart, Restart
  <2>21. CASE UNCHANGED replayVars BY <2>21 DEF replayVars, vars
  <2> QED
    BY <2>1, <2>2, <2>3, <2>4, <2>5, <2>6, <2>7, <2>8, <2>9, <2>10, <2>11, <2>12, <2>13,
       <2>14, <2>15, <2>16, <2>17, <2>18, <2>19, <2>20, <2>21
    DEF ReplayNext, ReplayReceiver, ReplayStops, Receiver, WriteBatch, StatementFails
<1> QED BY <1>1, <1>2, <1>3

\* The steps of write_batch that neither take an event nor let go of one.
LEMMA HeldKeeps ==
    ASSUME OnePerSlot, ReplayState, [ReplayNext]_replayVars, Alive, pc' # "join",
           UNCHANGED <<producer, channel, pending, batch, draining, resumeAfter, file, position>>
    PROVE  LineInv' /\ ResumeInv' /\ EndInv'
<1>1. LineInv /\ ResumeInv /\ EndInv
  BY DEF ReplayState, ReplayWork
<1>2. Done' = Done
  BY DEF Done
<1>3. stored \subseteq stored' /\ resumeAfter <= cursor'
  <2>1. cursor <= cursor' /\ stored \subseteq stored'
    BY CoversStep
  <2>2. cursor \in Int /\ resumeAfter \in Int /\ cursor' \in Int
    <3>1. TypeOK'
      BY ReplayStep, TypeStep DEF ReplayState
    <3> QED BY <3>1, LineFacts, SlotFacts DEF TypeOK
  <2> QED BY <1>1, <2>1, <2>2 DEF ResumeInv
<1>4. LineInv'
  BY <1>1, <1>2 DEF LineInv
<1>5. ResumeInv'
  BY <1>1, <1>2, <1>3 DEF ResumeInv
<1>6. EndInv'
  BY <1>1 DEF EndInv
<1> QED BY <1>4, <1>5, <1>6

LEMMA SendKeeps ==
    ASSUME OnePerSlot, ReplayState, ReplaySend
    PROVE  LineInv' /\ ResumeInv' /\ EndInv'
<1> DEFINE e == file[position + 1]
           n == Done + Len(batch) + Len(pending)
<1>1. /\ Alive /\ producer = "running" /\ position < Len(file)
      /\ channel' = Append(channel, e) /\ position' = position + 1
      /\ UNCHANGED <<stored, cursor, producer, pending, batch, draining, pc, resumeAfter, file>>
  BY DEF ReplaySend, ProducerSend, dbVars
<1>2. LineInv /\ ResumeInv /\ EndInv
  BY DEF ReplayState, ReplayWork
<1>3. e \in Event /\ channel \in Seq(Event) /\ Len(channel) \in Nat
  BY <1>1, LineFacts, FileFacts DEF ReplayState
<1>4. /\ Len(channel') = Len(channel) + 1 /\ channel'[Len(channel) + 1] = e
      /\ \A i \in 1..Len(channel) : channel'[i] = channel[i]
  <2> HIDE DEF e
  <2> QED BY <1>1, <1>3
<1>5. Done' = Done
  BY <1>1, <1>4, LineFacts DEF Done
<1>6. n + Len(channel) = position /\ n \in Nat
  BY <1>1, <1>2, LineFacts DEF LineInv
<1>7. \A i \in 1..Len(channel) : channel[i] = file[n + i]
  BY <1>1, <1>2 DEF LineInv
<1>8. LineInv'
  <2>1. ASSUME NEW i \in 1..Len(channel') PROVE channel'[i] = file[n + i]
    <3> HIDE DEF n
    <3>1. CASE i = Len(channel) + 1
      <4>1. n + i = position + 1
        BY <1>3, <1>6, <3>1
      <4> QED BY <1>4, <3>1, <4>1
    <3>2. CASE i # Len(channel) + 1
      <4>1. i \in 1..Len(channel)
        BY <1>3, <1>4, <3>2
      <4> QED BY <1>4, <1>7, <4>1
    <3> QED BY <3>1, <3>2
  <2> HIDE DEF e
  <2> QED BY <1>1, <1>2, <1>5, <2>1 DEF LineInv
<1>9. ResumeInv'
  BY <1>1, <1>2, <1>5 DEF ResumeInv
<1>10. EndInv'
  BY <1>1, <1>2 DEF EndInv, Alive
<1> QED BY <1>8, <1>9, <1>10

\* An event the resume rule passes over is stored: the cursor it was passed over
\* for covers the file, and nothing the batcher holds comes before it.
LEMMA SkippedIsStored ==
    ASSUME OnePerSlot, ReplayState, Receive, ShouldSkip(Head(channel))
    PROVE  pending = <<>> /\ batch = <<>> /\ file[Done + 1].id \in stored
<1> DEFINE e == Head(channel)
<1>1. /\ Alive /\ pc = "receive" /\ channel # <<>> /\ batch = <<>>
  BY DEF Receive, HasEvent, Alive, ReplayState, ProcessInv, KeptInv
<1>2. LineInv /\ ResumeInv /\ CursorCoversFile
  BY DEF ReplayState, ReplayWork
<1>3. e = channel[1] /\ Len(channel) >= 1 /\ Len(batch) = 0
  BY <1>1, LineFacts
<1>4. e = file[Done + Len(pending) + 1] /\ Done \in Nat
  <2>1. Done + Len(batch) + Len(pending) + 1 = Done + Len(pending) + 1
    BY <1>1, <1>2, <1>3, LineFacts DEF LineInv
  <2>2. channel[1] = file[Done + Len(batch) + Len(pending) + 1]
    BY <1>1, <1>2, <1>3, LineFacts DEF LineInv
  <2> QED BY <1>1, <1>2, <1>3, <2>1, <2>2 DEF LineInv
<1>5. Done + Len(pending) + 1 \in 1..Len(file)
  BY <1>3, <1>4, LineFacts
<1>6. SlotOf[e.id] <= resumeAfter /\ resumeAfter # None /\ resumeAfter <= cursor
  BY <1>1, <1>2 DEF ShouldSkip, ResumeInv
<1> HIDE DEF e
<1>7. Len(pending) = 0
  <2>1. ASSUME Len(pending) # 0 PROVE FALSE
    <3>1. 1 \in 1..Len(pending) /\ Done + 1 \in 1..Len(file)
      BY <1>4, <1>5, <2>1, LineFacts
    <3>2. pending[1] = file[Done + 1]
      <4>1. pending[1] = file[Done + Len(batch) + 1]
        BY <1>1, <1>2, <3>1 DEF LineInv
      <4>2. Done + Len(batch) + 1 = Done + 1
        BY <1>3, <1>4
      <4> QED BY <4>1, <4>2
    <3>3. SlotOf[pending[1].id] > resumeAfter
      BY <1>1, <1>2, <3>1 DEF ResumeInv
    <3>4. Done + 1 < Done + Len(pending) + 1
      BY <1>4, <2>1, LineFacts
    <3>5. SlotOf[file[Done + 1].id] < SlotOf[e.id]
      BY <1>4, <1>5, <3>1, <3>4, Rising DEF ReplayState
    <3>6. SlotOf[file[Done + 1].id] \in Nat /\ SlotOf[e.id] \in Nat /\ resumeAfter \in Int
      BY <1>4, <1>5, <3>1, LineFacts
    <3> QED BY <1>6, <3>2, <3>3, <3>5, <3>6
  <2> QED BY <2>1
<1>8. pending = <<>>
  BY <1>7, LineFacts
<1>9. e = file[Done + 1] /\ Done + 1 \in 1..Len(file)
  BY <1>4, <1>5, <1>7
<1>10. cursor # None /\ SlotOf[e.id] <= cursor
  <2>1. SlotOf[e.id] \in Nat /\ cursor \in Int /\ resumeAfter \in Int
    BY <1>9, LineFacts
  <2> QED BY <1>6, <2>1, SlotFacts
<1>11. e.id \in stored
  BY <1>2, <1>9, <1>10, LineFacts DEF CursorCoversFile
<1> QED BY <1>1, <1>8, <1>9, <1>11

LEMMA ReceiveKeepsLine ==
    ASSUME OnePerSlot, ReplayState, Receive, UNCHANGED <<file, position>>
    PROVE  LineInv' /\ ResumeInv' /\ EndInv'
<1> DEFINE e == Head(channel)
           filled == Append(pending, e)
<1>1. /\ Alive /\ pc = "receive" /\ batch = <<>> /\ channel # <<>>
      /\ channel' = Tail(channel)
      /\ UNCHANGED <<stored, cursor, producer, draining, resumeAfter, file, position>>
      /\ pc' \in {"receive", "write"}
  BY DEF Receive, HasEvent, Alive, ReplayState, ProcessInv, KeptInv, dbVars
<1>2. LineInv /\ ResumeInv /\ EndInv
  BY DEF ReplayState, ReplayWork
<1>3. /\ channel \in Seq(Event) /\ Len(channel) \in Nat /\ Len(channel) >= 1
      /\ Len(channel') = Len(channel) - 1
      /\ \A i \in 1..(Len(channel) - 1) : channel'[i] = channel[i + 1]
      /\ e = channel[1] /\ e \in Event /\ Len(batch) = 0
  BY <1>1, LineFacts
<1>4. /\ pending \in Seq(Event) /\ Len(pending) \in Nat
      /\ Len(filled) = Len(pending) + 1 /\ filled[Len(pending) + 1] = e
      /\ \A i \in 1..Len(pending) : filled[i] = pending[i]
  <2>1. pending \in Seq(Event) /\ Len(pending) \in Nat
    BY LineFacts
  <2> HIDE DEF e
  <2> QED BY <1>3, <2>1
<1>5. /\ Done \in Nat
      /\ \A i \in 1..Len(pending) : pending[i] = file[Done + i]
      /\ \A i \in 1..Len(channel) : channel[i] = file[Done + Len(pending) + i]
  <2>1. Done \in Nat /\ Done + Len(batch) = Done
    BY <1>1, <1>2, <1>3 DEF LineInv
  <2> QED BY <1>1, <1>2, <2>1 DEF LineInv
<1>6. e = file[Done + Len(pending) + 1]
  <2>1. 1 \in 1..Len(channel)
    BY <1>3
  <2> QED BY <1>3, <1>5, <2>1
<1>7. EndInv'
  BY <1>1, <1>2, <1>3 DEF EndInv, Alive
<1>8. Done + Len(pending) + Len(channel) = position
  BY <1>3, <1>5, LineFacts
<1>9. \/ ShouldSkip(e) /\ pending' = pending /\ batch' = batch
      \/ ~ShouldSkip(e) /\ pending' = filled /\ batch' = batch
      \/ ~ShouldSkip(e) /\ pending' = <<>> /\ batch' = filled
  BY DEF Receive
<1>10. CASE ShouldSkip(e)
  <2>1. pending = <<>> /\ file[Done + 1].id \in stored
    BY <1>10, SkippedIsStored
  <2>2. pending' = <<>> /\ batch' = <<>> /\ Len(pending) = 0
    BY <1>1, <1>9, <1>10, <2>1
  <2>3. Done' = Done + 1
    <3>1. /\ Len(channel') = Len(channel) - 1 /\ position' = position
          /\ Len(pending') = 0 /\ Len(batch') = 0
      BY <1>1, <1>3, <2>2
    <3>2. Done + Len(channel) = position /\ position \in Int /\ Len(channel) \in Nat
          /\ Done \in Nat
      BY <1>3, <1>5, <1>8, <2>2, LineFacts
    <3>3. Done' = position' - (Len(channel') + Len(pending') + Len(batch'))
      BY DEF Done
    <3> HIDE DEF Done
    <3> QED BY <3>1, <3>2, <3>3
  <2>4. \A i \in 1..Len(channel') : channel'[i] = file[(Done + 1) + i]
    <3> SUFFICES ASSUME NEW i \in 1..Len(channel') PROVE channel'[i] = file[(Done + 1) + i]
      OBVIOUS
    <3>1. i + 1 \in 1..Len(channel) /\ channel'[i] = channel[i + 1]
      BY <1>3
    <3>2. Done + Len(pending) + (i + 1) = (Done + 1) + i
      BY <1>3, <1>5, <2>2
    <3> QED BY <1>5, <3>1, <3>2
  <2>5. LineInv'
    <3>1. (Done + 1) + Len(batch') + Len(pending') = Done + 1 /\ Done + 1 \in Nat
      BY <1>5, <2>2
    <3> QED BY <2>2, <2>3, <2>4, <3>1 DEF LineInv
  <2>6. \A i \in 1..(Done + 1) : file[i].id \in stored
    <3> SUFFICES ASSUME NEW i \in 1..(Done + 1) PROVE file[i].id \in stored
      OBVIOUS
    <3>1. i = Done + 1 \/ i \in 1..Done
      BY <1>5
    <3> QED BY <1>1, <1>2, <2>1, <3>1 DEF ResumeInv
  <2>7. ResumeInv'
    BY <1>1, <1>2, <2>2, <2>3, <2>6 DEF ResumeInv
  <2> QED BY <1>7, <2>5, <2>7
<1>11. CASE ~ShouldSkip(e)
  <2>1. \/ pending' = filled /\ batch' = <<>>
        \/ pending' = <<>> /\ batch' = filled
    BY <1>1, <1>9, <1>11
  <2> HIDE DEF e, filled
  <2>2. /\ Len(pending') + Len(batch') = Len(pending) + 1
        /\ Len(pending') \in Nat /\ Len(batch') \in Nat
    BY <1>4, <2>1
  <2>3. Done' = Done
    BY <1>1, <1>3, <1>8, <2>2, <1>4, <1>5 DEF Done
  <2>4. \A i \in 1..Len(filled) : filled[i] = file[Done + i]
    <3> SUFFICES ASSUME NEW i \in 1..Len(filled) PROVE filled[i] = file[Done + i]
      OBVIOUS
    <3>1. CASE i = Len(pending) + 1
      <4>1. Done + Len(pending) + 1 = Done + i
        BY <1>4, <1>5, <3>1
      <4> QED BY <1>4, <1>6, <3>1, <4>1
    <3>2. CASE i # Len(pending) + 1
      <4>1. i \in 1..Len(pending)
        BY <1>4, <3>2
      <4> QED BY <1>4, <1>5, <4>1
    <3> QED BY <3>1, <3>2
  <2>5. \A i \in 1..Len(channel') : channel'[i] = file[Done + Len(pending) + 1 + i]
    <3> SUFFICES ASSUME NEW i \in 1..Len(channel')
                 PROVE  channel'[i] = file[Done + Len(pending) + 1 + i]
      OBVIOUS
    <3>1. i + 1 \in 1..Len(channel) /\ channel'[i] = channel[i + 1]
      BY <1>3
    <3>2. Done + Len(pending) + (i + 1) = Done + Len(pending) + 1 + i
      BY <1>3, <1>4, <1>5
    <3> QED BY <1>5, <3>1, <3>2
  <2>6. Done + Len(batch') + Len(pending') = Done + Len(pending) + 1
        /\ Done + Len(batch') \in Nat
    <3>1. Done \in Nat /\ Len(pending) \in Nat
      BY <1>3, <1>5
    <3> QED BY <2>2, <3>1
  <2>7. \A i \in 1..Len(pending') : pending'[i] = file[Done + Len(batch') + i]
    <3>1. CASE pending' = filled /\ batch' = <<>>
      <4>1. Done + Len(batch') = Done
        BY <1>5, <3>1
      <4> QED BY <2>4, <3>1, <4>1
    <3>2. CASE pending' = <<>>
      BY <3>2
    <3> QED BY <2>1, <3>1, <3>2
  <2>8. \A i \in 1..Len(batch') : batch'[i] = file[Done + i]
    BY <2>1, <2>4
  <2>9. LineInv'
    BY <1>5, <2>3, <2>5, <2>6, <2>7, <2>8 DEF LineInv
  <2>10. \A i \in 1..Len(filled) : SlotOf[filled[i].id] > resumeAfter
    <3>1. SlotOf[e.id] > resumeAfter
      <4>1. SlotOf[e.id] \in Nat /\ resumeAfter \in Int
        BY <1>3, EventFacts, SlotFacts, LineFacts
      <4> QED BY <1>11, <4>1, ReplayAssumption, SlotFacts DEF ShouldSkip
    <3> SUFFICES ASSUME NEW i \in 1..Len(filled) PROVE SlotOf[filled[i].id] > resumeAfter
      OBVIOUS
    <3>2. i = Len(pending) + 1 \/ i \in 1..Len(pending)
      BY <1>4
    <3> QED BY <1>1, <1>2, <1>4, <3>1, <3>2 DEF ResumeInv
  <2>11. ResumeInv'
    <3>1. \A i \in 1..Len(pending') : SlotOf[pending'[i].id] > resumeAfter
      BY <2>1, <2>10
    <3> QED BY <1>1, <1>2, <2>3, <3>1 DEF ResumeInv
  <2> QED BY <1>7, <2>9, <2>11
<1> QED BY <1>10, <1>11

LEMMA ClosedKeeps ==
    ASSUME OnePerSlot, ReplayState, ChannelClosed, UNCHANGED <<file, position>>
    PROVE  LineInv' /\ ResumeInv' /\ EndInv'
<1>1. /\ Alive /\ pc = "receive" /\ batch = <<>> /\ channel = <<>> /\ producer # "running"
      /\ UNCHANGED <<stored, cursor, producer, channel, resumeAfter, file, position>>
      /\ \/ pending = <<>> /\ pending' = pending /\ batch' = batch /\ draining' = draining
         \/ pending' = <<>> /\ batch' = pending /\ pc' = "write"
  BY DEF ChannelClosed, SendersGone, Alive, ReplayState, ProcessInv, KeptInv, dbVars
<1>2. LineInv /\ ResumeInv /\ EndInv
  BY DEF ReplayState, ReplayWork
<1>3. Len(pending) \in Nat /\ Len(batch) = 0 /\ Len(channel) = 0 /\ Done \in Nat
  BY <1>1, <1>2, LineFacts DEF LineInv
<1>4. Done' = Done
  BY <1>1, <1>3 DEF Done
<1>5. \A i \in 1..Len(pending) : pending[i] = file[Done + i]
  <2>1. Done + Len(batch) = Done
    BY <1>3
  <2> QED BY <1>1, <1>2, <2>1 DEF LineInv
<1>6. LineInv'
  BY <1>1, <1>3, <1>4, <1>5 DEF LineInv
<1>7. ResumeInv'
  BY <1>1, <1>2, <1>4 DEF ResumeInv
<1>8. EndInv'
  BY <1>1, <1>2 DEF EndInv, Alive
<1> QED BY <1>6, <1>7, <1>8

LEMMA DoneKeeps ==
    ASSUME OnePerSlot, ReplayState, BatchDone, UNCHANGED <<file, position>>
    PROVE  LineInv' /\ ResumeInv' /\ EndInv'
<1>1. /\ Alive /\ pc = "progress" /\ batch' = <<>>
      /\ UNCHANGED <<stored, cursor, producer, channel, pending, draining, resumeAfter,
                     file, position>>
      /\ pc' = IF draining THEN "join" ELSE "receive"
  BY DEF BatchDone, Alive, dbVars
<1>2. LineInv /\ ResumeInv /\ EndInv /\ Ids(batch) \subseteq stored
  BY <1>1 DEF ReplayState, ReplayWork, ProcessInv, KeptInv, PastCursor
<1>3. /\ Len(batch) \in Nat /\ Len(pending) \in Nat /\ Len(channel) \in Nat /\ Done \in Nat
      /\ position \in Nat
  BY <1>1, <1>2, LineFacts DEF LineInv
<1>4. Done' = Done + Len(batch) /\ Done' \in Nat
  BY <1>1, <1>3 DEF Done
<1>5. LineInv'
  <2>1. Done' + Len(batch') = Done + Len(batch) /\ Len(batch') = 0
    BY <1>1, <1>3, <1>4
  <2>2. /\ \A i \in 1..Len(pending) : pending[i] = file[Done + Len(batch) + i]
        /\ \A i \in 1..Len(channel) : channel[i] = file[Done + Len(batch) + Len(pending) + i]
    BY <1>1, <1>2 DEF LineInv
  <2>3. \A i \in 1..Len(pending') : pending'[i] = file'[Done' + Len(batch') + i]
    BY <1>1, <2>1, <2>2
  <2>4. \A i \in 1..Len(channel') :
            channel'[i] = file'[Done' + Len(batch') + Len(pending') + i]
    BY <1>1, <2>1, <2>2
  <2>5. \A i \in 1..Len(batch') : batch'[i] = file'[Done' + i]
    BY <2>1
  <2> QED BY <1>4, <2>3, <2>4, <2>5 DEF LineInv
<1>6. ResumeInv'
  <2>1. ASSUME NEW i \in 1..Done' PROVE file[i].id \in stored
    <3>1. CASE i \in 1..Done
      BY <1>1, <1>2, <3>1 DEF ResumeInv
    <3>2. CASE i \notin 1..Done
      <4>1. i - Done \in 1..Len(batch) /\ Done + (i - Done) = i
        BY <1>3, <1>4, <3>2
      <4>2. batch[i - Done] = file[i]
        BY <1>1, <1>2, <4>1 DEF LineInv
      <4>3. i - Done \in DOMAIN batch
        BY <4>1, LineFacts, BatchFacts
      <4> QED BY <1>2, <4>2, <4>3 DEF Ids
    <3> QED BY <3>1, <3>2
  <2> QED BY <1>1, <1>2, <2>1 DEF ResumeInv
<1>7. EndInv'
  BY <1>1, <1>2 DEF EndInv, Alive
<1> QED BY <1>5, <1>6, <1>7

LEMMA RestartKeeps ==
    ASSUME OnePerSlot, ReplayState, ReplayRestart
    PROVE  LineInv' /\ ResumeInv' /\ EndInv'
<1>1. /\ position' = 0 /\ channel' = <<>> /\ pending' = <<>> /\ batch' = <<>>
      /\ producer' = "running" /\ draining' = FALSE /\ pc' = "receive"
      /\ resumeAfter' = cursor /\ cursor' = cursor
  BY DEF ReplayRestart, Restart, dbVars
<1>2. Done' = 0
  <2>1. Len(channel') = 0 /\ Len(pending') = 0 /\ Len(batch') = 0 /\ position' = 0
    BY <1>1
  <2>2. Done' = position' - (Len(channel') + Len(pending') + Len(batch'))
    BY DEF Done
  <2> QED BY <2>1, <2>2
<1>3. cursor \in Int
  BY LineFacts
<1>4. LineInv'
  BY <1>1, <1>2 DEF LineInv
<1>5. ResumeInv'
  BY <1>1, <1>2, <1>3 DEF ResumeInv
<1>6. EndInv'
  BY <1>1 DEF EndInv
<1> QED BY <1>4, <1>5, <1>6

\* Success: the whole file went through the hands of this process.
LEMMA CompleteStep ==
    ASSUME OnePerSlot, ReplayState, [ReplayNext]_replayVars
    PROVE  ReplayComplete'
<1>1. stored \subseteq stored' /\ file' = file
  BY CoversStep DEF ReplayNext, ReplaySend, ReplayEnd, ReplayReceiver, ReplayStops,
                    ReplayRestart, replayVars
<1>2. CASE outcome' = outcome
  BY <1>1, <1>2 DEF ReplayState, ReplayWork, ReplayComplete
<1>3. CASE outcome' # "ok"
  BY <1>3 DEF ReplayComplete
<1>4. CASE Join /\ outcome' = "ok"
  <2>1. pc = "join" /\ Alive /\ producer = "ok"
    BY <1>4 DEF Join, Alive
  <2>2. /\ position = Len(file) /\ channel = <<>> /\ pending = <<>> /\ batch = <<>>
        /\ \A i \in 1..Done : file[i].id \in stored
    BY <2>1 DEF ReplayState, ReplayWork, EndInv, ResumeInv
  <2>3. Done = Len(file)
    BY <2>2, LineFacts DEF Done
  <2> QED BY <1>1, <2>2, <2>3, LineFacts DEF ReplayComplete
<1>5. outcome' = outcome \/ outcome' # "ok" \/ Join
  <2>1. CASE ReplaySend BY <2>1 DEF ReplaySend, ProducerSend
  <2>2. CASE ReplayEnd BY <2>2 DEF ReplayEnd, ProducerExit
  <2>3. CASE Receive BY <2>3 DEF Receive
  <2>4. CASE ChannelClosed BY <2>4 DEF ChannelClosed
  <2>5. CASE WriteEvents BY <2>5 DEF WriteEvents
  <2>6. CASE UpdateCursor BY <2>6 DEF UpdateCursor
  <2>7. CASE RecordSlotStates BY <2>7 DEF RecordSlotStates
  <2>8. CASE SelectWatermark BY <2>8 DEF SelectWatermark
  <2>9. CASE UpsertWatermark BY <2>9 DEF UpsertWatermark
  <2>10. CASE BatchDone BY <2>10 DEF BatchDone
  <2>11. CASE CursorOutOfRange BY <2>11 DEF CursorOutOfRange, FailWith
  <2>12. CASE RecordOutOfRange BY <2>12 DEF RecordOutOfRange, FailWith
  <2>13. CASE WriteFails BY <2>13 DEF WriteFails, FailWith
  <2>14. CASE CursorFails BY <2>14 DEF CursorFails, FailWith
  <2>15. CASE RecordFails BY <2>15 DEF RecordFails, FailWith
  <2>16. CASE SelectFails BY <2>16 DEF SelectFails, FailWith
  <2>17. CASE UpsertFails BY <2>17 DEF UpsertFails, FailWith
  <2>18. CASE Crash BY <2>18 DEF Crash
  <2>19. CASE ReplayRestart BY <2>19 DEF ReplayRestart, Restart
  <2>20. CASE UNCHANGED replayVars BY <2>20 DEF replayVars, vars, processVars
  <2> QED
    BY <2>1, <2>2, <2>3, <2>4, <2>5, <2>6, <2>7, <2>8, <2>9, <2>10, <2>11, <2>12, <2>13,
       <2>14, <2>15, <2>16, <2>17, <2>18, <2>19, <2>20
    DEF ReplayNext, ReplayReceiver, ReplayStops, Receiver, WriteBatch, StatementFails
<1> QED BY <1>2, <1>3, <1>4, <1>5

LEMMA ReplayWorkStep ==
    ASSUME OnePerSlot, ReplayState, [ReplayNext]_replayVars
    PROVE  ReplayWork'
<1> DEFINE Goal == LineInv' /\ ResumeInv' /\ EndInv'
<1>1. ASSUME pc' \in {"exited", "down"} PROVE Goal
  BY <1>1 DEF LineInv, ResumeInv, EndInv, Alive
<1>2. ASSUME Alive, pc' # "join",
             UNCHANGED <<producer, channel, pending, batch, draining, resumeAfter, file, position>>
      PROVE  Goal
  BY <1>2, HeldKeeps
<1>3. Goal
  <2> HIDE DEF Goal
  <2>1. CASE ReplaySend BY <2>1, SendKeeps DEF Goal
  <2>2. CASE ReplayEnd
    <3>1. /\ LineInv /\ ResumeInv /\ EndInv
          /\ producer' = "ok" /\ producer = "running" /\ position = Len(file)
          /\ UNCHANGED <<channel, pending, batch, draining, pc, resumeAfter, file, position,
                         stored, cursor>>
      BY <2>2 DEF ReplayState, ReplayWork, ReplayEnd, ProducerExit, dbVars
    <3>2. LineInv' /\ ResumeInv'
      BY <3>1 DEF LineInv, ResumeInv, Done, Alive
    <3>3. EndInv'
      BY <3>1 DEF EndInv, Alive
    <3> QED BY <3>2, <3>3 DEF Goal
  <2>3. ASSUME Receive, UNCHANGED <<file, position>> PROVE Goal
    BY <2>3, ReceiveKeepsLine DEF Goal
  <2>4. ASSUME ChannelClosed, UNCHANGED <<file, position>> PROVE Goal
    BY <2>4, ClosedKeeps DEF Goal
  <2>5. ASSUME WriteEvents, UNCHANGED <<file, position>> PROVE Goal
    BY <1>2, <2>5 DEF WriteEvents, Alive
  <2>6. ASSUME UpdateCursor, UNCHANGED <<file, position>> PROVE Goal
    BY <1>2, <2>6 DEF UpdateCursor, Alive
  <2>7. ASSUME RecordSlotStates, UNCHANGED <<file, position>> PROVE Goal
    BY <1>2, <2>7 DEF RecordSlotStates, Alive
  <2>8. ASSUME SelectWatermark, UNCHANGED <<file, position>> PROVE Goal
    BY <1>2, <2>8 DEF SelectWatermark, Alive
  <2>9. ASSUME UpsertWatermark, UNCHANGED <<file, position>> PROVE Goal
    BY <1>2, <2>9 DEF UpsertWatermark, Alive
  <2>10. ASSUME BatchDone, UNCHANGED <<file, position>> PROVE Goal
    BY <2>10, DoneKeeps DEF Goal
  <2>11. CASE Join BY <1>1, <2>11 DEF Join
  <2>12. CASE CursorOutOfRange BY <1>1, <2>12 DEF CursorOutOfRange, FailWith
  <2>13. CASE RecordOutOfRange BY <1>1, <2>13 DEF RecordOutOfRange, FailWith
  <2>14. CASE WriteFails BY <1>1, <2>14 DEF WriteFails, FailWith
  <2>15. CASE CursorFails BY <1>1, <2>15 DEF CursorFails, FailWith
  <2>16. CASE RecordFails BY <1>1, <2>16 DEF RecordFails, FailWith
  <2>17. CASE SelectFails BY <1>1, <2>17 DEF SelectFails, FailWith
  <2>18. CASE UpsertFails BY <1>1, <2>18 DEF UpsertFails, FailWith
  <2>19. CASE Crash BY <1>1, <2>19 DEF Crash
  <2>20. CASE ReplayRestart BY <2>20, RestartKeeps DEF Goal
  <2>21. CASE UNCHANGED replayVars
    BY <2>21
    DEF Goal, ReplayState, ReplayWork, LineInv, ResumeInv, EndInv, Done, Alive,
        replayVars, vars, dbVars, processVars
  <2> QED
    BY <2>1, <2>2, <2>3, <2>4, <2>5, <2>6, <2>7, <2>8, <2>9, <2>10, <2>11, <2>12, <2>13,
       <2>14, <2>15, <2>16, <2>17, <2>18, <2>19, <2>20, <2>21
    DEF ReplayNext, ReplayReceiver, ReplayStops, Receiver, WriteBatch, StatementFails
<1>4. CursorCoversFile' /\ ReplayComplete'
  BY CoversStep, CompleteStep
<1> QED BY <1>3, <1>4 DEF ReplayWork

LEMMA ReplayWorkInit == ASSUME ReplayInit PROVE ReplayWork
<1>1. /\ position = 0 /\ channel = <<>> /\ pending = <<>> /\ batch = <<>>
      /\ producer = "running" /\ draining = FALSE /\ pc = "receive"
      /\ resumeAfter = None /\ cursor = None /\ outcome = "none"
  BY DEF ReplayInit, Init
<1>2. Done = 0
  <2>1. Len(channel) = 0 /\ Len(pending) = 0 /\ Len(batch) = 0 /\ position = 0
    BY <1>1
  <2>2. Done = position - (Len(channel) + Len(pending) + Len(batch))
    BY DEF Done
  <2> HIDE DEF Done
  <2> QED BY <2>1, <2>2
<1> QED BY <1>1, <1>2, SlotFacts
    DEF ReplayWork, LineInv, ResumeInv, EndInv, CursorCoversFile, ReplayComplete

LEMMA ReplayWorkHolds == ASSUME OnePerSlot PROVE ReplaySpec => []ReplayWork
<1>1. ReplayInit => ReplayWork
  BY ReplayWorkInit
<1>2. TypeOK /\ ReplayInv /\ ProcessInv /\ ReplayWork /\ [ReplayNext]_replayVars => ReplayWork'
  BY ReplayWorkStep DEF ReplayState
<1>3. ReplaySpec => []ReplayInv
  BY ReplayInitial, ReplayStep, PTL DEF ReplaySpec
<1>4. ReplaySpec => []TypeOK /\ []ProcessInv
  BY ReplayImplementsPipeline, TypeCorrect, ProcessKept, PTL
<1> QED BY <1>1, <1>2, <1>3, <1>4, PTL DEF ReplaySpec

(***************************************************************************)
(* A replay that reports success has stored its whole file, however many    *)
(* attempts died before it and wherever they did.                           *)
(***************************************************************************)
THEOREM ReplaysComplete == ASSUME OnePerSlot PROVE ReplaySpec => []ReplayComplete
<1>1. ReplayWork => ReplayComplete
  BY DEF ReplayWork
<1> QED BY <1>1, ReplayWorkHolds, PTL

\* The cursor is a safe point to resume after: no event of the file at or below
\* it is missing.
THEOREM CursorCovers == ASSUME OnePerSlot PROVE ReplaySpec => []CursorCoversFile
<1>1. ReplayWork => CursorCoversFile
  BY DEF ReplayWork
<1> QED BY <1>1, ReplayWorkHolds, PTL

-----------------------------------------------------------------------------
(***************************************************************************)
(* What a consumer reads while replays run.  A consumer adds no step of the *)
(* pipeline, so every behaviour it sees is a replay behaviour.              *)
(***************************************************************************)
LEMMA ConsumerStep == [ConsumerNext]_apiVars => [ReplayNext]_replayVars
BY DEF ConsumerNext, WriteSwap, apiVars

THEOREM ConsumerImplementsReplay == ConsumerSpec => ReplaySpec
<1>1. ConsumerInit => ReplayInit
  BY DEF ConsumerInit
<1> QED BY <1>1, ConsumerStep, PTL DEF ConsumerSpec, ReplaySpec

LEMMA OrderFacts ==
    \A a \in EventId : SlotOf[a] \in Nat /\ SignatureOf[a] \in Nat /\ RankOf[a] \in Nat
<1>1. SlotOf \in [EventId -> Slots]
  BY PipelineAssumption
<1>2. SignatureOf \in [EventId -> Nat] /\ RankOf \in [EventId -> Nat]
  BY ConsumerAssumption
<1>3. Slots \subseteq Nat
  BY SlotFacts
<1> QED BY <1>1, <1>2, <1>3

\* The page order is strict: nothing is newer than itself, and it is transitive.
LEMMA NewerIsStrict ==
    /\ \A a \in EventId : ~Newer(a, a)
    /\ \A a, b, c \in EventId : Newer(a, b) /\ Newer(b, c) => Newer(a, c)
BY OrderFacts DEF Newer

\* A page of at least one row has the newest row on it.
LEMMA NewestOnPage ==
    ASSUME NEW S \in SUBSET EventId, S # {}
    PROVE  \E m \in S : /\ {o \in S : Newer(o, m)} = {}
                        /\ \A o \in S : SlotOf[o] <= SlotOf[m]
<1> DEFINE newer(id) == {o \in S : Newer(o, id)}
           counts == {Cardinality(newer(id)) : id \in S}
<1>1. IsFiniteSet(S)
  BY PipelineAssumption, FS_Subset
<1>2. \A id \in S : IsFiniteSet(newer(id)) /\ Cardinality(newer(id)) \in Nat
  <2>1. ASSUME NEW id \in S PROVE IsFiniteSet(newer(id)) /\ Cardinality(newer(id)) \in Nat
    <3>1. newer(id) \in SUBSET S
      OBVIOUS
    <3> HIDE DEF newer
    <3>2. IsFiniteSet(newer(id))
      BY <1>1, <3>1, FS_Subset
    <3> QED BY <3>2, FS_CardinalityType
  <2> QED BY <2>1
<1>3. counts \in SUBSET Nat /\ counts # {}
  BY <1>2
<1>4. PICK least \in counts : \A n \in counts : least <= n
  BY <1>3, LowestExists
<1>5. PICK m \in S : least = Cardinality(newer(m))
  BY <1>4
<1>6. newer(m) = {}
  <2> SUFFICES ASSUME newer(m) # {} PROVE FALSE
    OBVIOUS
  <2>1. PICK o \in S : Newer(o, m)
    OBVIOUS
  <2>2. newer(o) \subseteq newer(m) /\ o \in newer(m) /\ o \notin newer(o)
    <3>1. ~Newer(o, o) /\ \A x \in S : Newer(x, o) => Newer(x, m)
      BY <2>1, NewerIsStrict
    <3> QED BY <2>1, <3>1
  <2>3. Cardinality(newer(o)) \in counts
    OBVIOUS
  <2> HIDE DEF newer, counts
  <2>4. newer(o) \in SUBSET newer(m) /\ newer(o) # newer(m)
    BY <2>2
  <2>5. Cardinality(newer(o)) < Cardinality(newer(m))
    BY <1>2, <2>4, FS_Subset
  <2> QED BY <1>2, <1>4, <1>5, <2>3, <2>5
<1>7. ASSUME NEW o \in S PROVE SlotOf[o] <= SlotOf[m]
  <2>1. ~Newer(o, m)
    BY <1>6
  <2>2. SlotOf[o] \in Nat /\ SlotOf[m] \in Nat
    BY OrderFacts
  <2> QED BY <2>1, <2>2 DEF Newer
<1> QED BY <1>6, <1>7

\* limit.clamp never asks for less than one row.
LEMMA ClampFacts ==
    ASSUME NEW limit \in Nat
    PROVE  /\ Clamp(limit) \in Nat /\ Clamp(limit) >= 1
           /\ \A n \in Nat : n <= limit /\ n <= MaxLimit /\ limit >= 1 => n <= Clamp(limit)
<1> DEFINE low == Max({limit, 1})
<1>1. low \in {limit, 1} /\ limit <= low /\ 1 <= low
  <2> DEFINE S == {limit, 1}
  <2>1. \E x \in S : \A y \in S : y <= x
    OBVIOUS
  <2> QED BY <2>1 DEF Max
<1>2. MaxLimit \in Nat \ {0}
  BY ConsumerAssumption
<1> HIDE DEF low
<1>3. Min({low, MaxLimit}) \in {low, MaxLimit}
      /\ Min({low, MaxLimit}) <= low /\ Min({low, MaxLimit}) <= MaxLimit
  <2> DEFINE S == {low, MaxLimit}
  <2>1. low \in Nat /\ MaxLimit \in Nat
    BY <1>1, <1>2
  <2>2. \E x \in S : \A y \in S : x <= y
    BY <2>1
  <2> QED BY <2>2 DEF Min
<1>4. Clamp(limit) = Min({low, MaxLimit})
  BY DEF Clamp, low
<1> QED BY <1>1, <1>2, <1>3, <1>4

(***************************************************************************)
(* The newest event a consumer finds after it asked for the lag is at least *)
(* as new as the slot it was told.                                          *)
(***************************************************************************)
THEOREM LagNeverLeads == ConsumerSpec => LagBeforeEvents
<1>1. ASSUME IInv, IInv', ReplayInv, [ConsumerNext]_apiVars, StreamLag.persisted > 0
      PROVE  \E id \in RecentEvents(Any, 1)' : SlotOf[id] >= StreamLag.persisted
  <2>1. cursor # None /\ StreamLag.persisted = cursor
    BY <1>1 DEF StreamLag
  <2>2. PICK id \in stored : SlotOf[id] = cursor
    BY <1>1, <2>1 DEF IInv, DbInv, CursorAfterPersistence
  <2>3. stored \subseteq stored'
    BY <1>1, ConsumerStep, ReplayStep, StepEffect
    DEF dbVars, StoringStep, CursorStep, TableStep, WatermarkStep
  <2>4. stored' \in SUBSET EventId /\ id \in stored'
    BY <1>1, <2>2, <2>3 DEF IInv, TypeOK
  <2>5. PICK m \in stored' : /\ {o \in stored' : Newer(o, m)} = {}
                             /\ \A o \in stored' : SlotOf[o] <= SlotOf[m]
    BY <2>4, NewestOnPage
  <2>6. m \in RecentEvents(Any, 1)'
    <3>1. Cardinality({}) = 0 /\ 0 < Clamp(1)
      BY FS_EmptySet, ClampFacts
    <3>2. {x \in stored' : Any = Any \/ TypeOf[x] = Any} = stored'
      OBVIOUS
    <3> QED BY <2>5, <3>1, <3>2 DEF RecentEvents
  <2> QED BY <2>1, <2>2, <2>4, <2>5, <2>6
<1>2. IInv /\ IInv' /\ ReplayInv /\ [ConsumerNext]_apiVars =>
        [StreamLag.persisted > 0 =>
           \E id \in RecentEvents(Any, 1)' : SlotOf[id] >= StreamLag.persisted]_apiVars
  BY <1>1
<1>3. ConsumerSpec => []IInv
  BY ConsumerImplementsReplay, ReplayImplementsPipeline, InvHolds, PTL
<1>4. ConsumerSpec => []ReplayInv
  BY ConsumerImplementsReplay, ReplayInitial, ReplayStep, PTL DEF ReplaySpec
<1> QED BY <1>2, <1>3, <1>4, PTL DEF ConsumerSpec, LagBeforeEvents

-----------------------------------------------------------------------------
\* The rows a consumer can have written.
SwapRows ==
    {SwapRow(SlotOf[id], SignatureOf[id], ProgramOf[id], balances) :
        id \in EventId, balances \in UNION {PayloadOf[id] : id \in EventId}}

SwapsInv == swaps \in Seq(SwapRows)

LEMMA SwapsStep == IInv /\ ReplayInv /\ SwapsInv /\ [ConsumerNext]_apiVars => SwapsInv'
<1> SUFFICES ASSUME ReplayInv, SwapsInv, WriteSwap PROVE SwapsInv'
  BY DEF ConsumerNext, apiVars, SwapsInv
<1>1. PICK id \in Ids(file) : \E balances \in PayloadOf[id] :
        swaps' = Append(swaps, SwapRow(SlotOf[id], SignatureOf[id], ProgramOf[id], balances))
  BY DEF WriteSwap
<1>2. id \in EventId
  BY FileFacts, BatchFacts
<1>3. PICK balances \in PayloadOf[id] :
        swaps' = Append(swaps, SwapRow(SlotOf[id], SignatureOf[id], ProgramOf[id], balances))
  BY <1>1
<1> DEFINE row == SwapRow(SlotOf[id], SignatureOf[id], ProgramOf[id], balances)
<1>4. row \in SwapRows
  BY <1>2, <1>3 DEF SwapRows
<1> HIDE DEF row
<1> QED BY <1>3, <1>4 DEF SwapsInv, row

-----------------------------------------------------------------------------
(***************************************************************************)
(* A swap adds up.  The sum over the accounts of a mint is a recursion over *)
(* sets; SumIs says that whatever obeys its equations is its value.         *)
(***************************************************************************)
IsSum(f, S, b) ==
    f = [s \in SUBSET S |->
            IF s = {} THEN 0
            ELSE LET x == CHOOSE x \in s : TRUE
                 IN  (b[x].post - b[x].pre) + f[s \ {x}]]

NetSum(b, S) == MapThenSumSet(LAMBDA i : b[i].post - b[i].pre, S)

Sums(g, S, b) ==
    /\ g[{}] = 0
    /\ \A s \in SUBSET S : s # {} =>
          \A x \in s : g[s] = (b[x].post - b[x].pre) + g[s \ {x}]

LEMMA SumIs ==
    ASSUME NEW b, NEW S, IsFiniteSet(S), NEW g \in [SUBSET S -> Int], Sums(g, S, b)
    PROVE  NetSum(b, S) = g[S]
<1> USE DEF Sums
<1>1. IsSum(g, S, b)
  <2> DEFINE step(s) == IF s = {} THEN 0
                        ELSE LET x == CHOOSE x \in s : TRUE
                             IN  (b[x].post - b[x].pre) + g[s \ {x}]
  <2>1. ASSUME NEW s \in SUBSET S PROVE g[s] = step(s)
    <3>1. CASE s = {} BY <3>1
    <3>2. CASE s # {}
      <4>1. PICK x : x = CHOOSE y \in s : TRUE
        OBVIOUS
      <4>2. x \in s
        BY <3>2, <4>1
      <4>3. g[s] = (b[x].post - b[x].pre) + g[s \ {x}]
        BY <3>2, <4>2
      <4> QED BY <3>2, <4>1, <4>3
    <3> QED BY <3>1, <3>2
  <2>2. g = [s \in SUBSET S |-> g[s]]
    OBVIOUS
  <2> HIDE DEF step
  <2>3. g = [s \in SUBSET S |-> step(s)]
    BY <2>1, <2>2
  <2> QED BY <2>3 DEF step, IsSum
<1>2. PICK f : f = CHOOSE h : IsSum(h, S, b)
  OBVIOUS
<1>3. IsSum(f, S, b)
  BY <1>1, <1>2
<1>4. NetSum(b, S) = f[S]
  BY <1>2 DEF NetSum, MapThenSumSet, MapThenFoldSet, IsSum
<1>5. \A T \in SUBSET S : IsFiniteSet(T) /\ Cardinality(T) \in Nat
  BY FS_Subset, FS_CardinalityType
<1> DEFINE Wrong == {Cardinality(T) : T \in {T \in SUBSET S : f[T] # g[T]}}
<1>6. CASE Wrong = {}
  <2>1. f[S] = g[S]
    BY <1>6
  <2> QED BY <1>4, <2>1
<1>7. CASE Wrong # {}
  <2>1. Wrong \in SUBSET Nat
    BY <1>5
  <2>2. PICK n \in Wrong : \A m \in Wrong : n <= m
    BY <1>7, <2>1, LowestExists
  <2>3. PICK T \in SUBSET S : f[T] # g[T] /\ n = Cardinality(T)
    BY <2>2
  <2>4. f[T] = IF T = {} THEN 0
               ELSE LET x == CHOOSE x \in T : TRUE
                    IN  (b[x].post - b[x].pre) + f[T \ {x}]
    BY <1>3 DEF IsSum
  <2>5. T # {}
    BY <2>3, <2>4
  <2>6. PICK x : x = CHOOSE y \in T : TRUE
    OBVIOUS
  <2>7. x \in T /\ T \ {x} \in SUBSET S
    BY <2>5, <2>6
  <2>8. f[T] = (b[x].post - b[x].pre) + f[T \ {x}]
    BY <2>4, <2>5, <2>6
  <2>9. g[T] = (b[x].post - b[x].pre) + g[T \ {x}]
    BY <2>5, <2>7
  <2>10. f[T \ {x}] # g[T \ {x}]
    BY <2>3, <2>8, <2>9
  <2>11. Cardinality(T \ {x}) \in Wrong
    BY <2>7, <2>10
  <2>12. Cardinality(T \ {x}) = Cardinality(T) - 1 /\ Cardinality(T) \in Nat
    BY <1>5, <2>7, FS_RemoveElement
  <2>13. n <= n - 1 /\ n \in Nat
    BY <2>2, <2>3, <2>11, <2>12
  <2> QED BY <2>13
<1> QED BY <1>6, <1>7

\* A sum of which at most one term is not zero is that term.
LEMMA OneTerm ==
    ASSUME NEW b, NEW S, IsFiniteSet(S), NEW j,
           \A i \in S : b[i].post - b[i].pre \in Int,
           \A i \in S : i # j => b[i].post - b[i].pre = 0
    PROVE  NetSum(b, S) = IF j \in S THEN b[j].post - b[j].pre ELSE 0
<1> DEFINE term == IF j \in S THEN b[j].post - b[j].pre ELSE 0
           g == [s \in SUBSET S |-> IF j \in s THEN term ELSE 0]
<1>1. term \in Int
  OBVIOUS
<1>2. j \in S => b[j].post - b[j].pre = term
  OBVIOUS
<1> HIDE DEF term
<1>3. g \in [SUBSET S -> Int]
  BY <1>1
<1>4. g[{}] = 0
  OBVIOUS
<1>5. ASSUME NEW s \in SUBSET S, NEW x \in s
      PROVE  g[s] = (b[x].post - b[x].pre) + g[s \ {x}]
  <2>1. CASE x = j
    <3>1. g[s] = term /\ g[s \ {x}] = 0 /\ b[x].post - b[x].pre = term
      BY <1>2, <2>1
    <3> QED BY <1>1, <3>1
  <2>2. CASE x # j
    <3>1. g[s] = g[s \ {x}] /\ b[x].post - b[x].pre = 0 /\ g[s] \in Int
      BY <1>1, <2>2
    <3> QED BY <3>1
  <2> QED BY <2>1, <2>2
<1>6. g[S] = IF j \in S THEN term ELSE 0
  OBVIOUS
<1> HIDE DEF g
<1>7. NetSum(b, S) = g[S]
  <2>1. PICK h \in [SUBSET S -> Int] : h = g
    BY <1>3
  <2>2. Sums(h, S, b)
    BY <1>4, <1>5, <2>1 DEF Sums
  <2>3. NetSum(b, S) = h[S]
    BY <2>2, SumIs
  <2> QED BY <2>1, <2>3
<1> QED BY <1>6, <1>7 DEF term

\* What a row says of the transaction it was decoded from.
AddsUp(swap, id, balances) ==
    /\ swap.signature = SignatureOf[id]
    /\ swap.slot = SlotOf[id] \/ (swap.slot = -1 /\ SlotOf[id] \notin DbSlots)
    /\ swap.amountIn > 0 /\ swap.amountOut > 0
    /\ \A mint \in Mints(balances) :
         NetChange(balances, mint) =
           CASE mint = swap.tokenIn -> -swap.amountIn
             [] mint = swap.tokenOut -> swap.amountOut
             [] OTHER -> 0

\* Two accounts changed, and they oppose each other.
LEMMA LegFacts ==
    ASSUME NEW id \in EventId, DecodeError(PayloadOf[id]) = "none",
           NEW b \in PayloadOf[id], NEW leg, leg = CHOOSE l \in Legs(b) : TRUE
    PROVE  /\ IsFiniteSet(DOMAIN b)
           /\ \A i \in DOMAIN b : b[i].pre \in 0..MaxAmount /\ b[i].post \in 0..MaxAmount
           /\ {leg[1], leg[2]} \subseteq DOMAIN b
           /\ b[leg[1]].mint # b[leg[2]].mint
           /\ Delta(b[leg[1]]) > 0 /\ Delta(b[leg[2]]) < 0
           /\ \A i \in DOMAIN b : i \notin {leg[1], leg[2]} => Delta(b[i]) = 0
<1>1. /\ \A i \in DOMAIN b : IsAmount(b[i].pre) /\ IsAmount(b[i].post)
      /\ Cardinality(Changed(b)) = 2
      /\ Legs(b) # {}
      /\ \A l \in Legs(b) : b[l[1]].mint # b[l[2]].mint
  BY Zenon DEF DecodeError
<1>2. leg \in Legs(b)
  BY <1>1
<1>3. /\ leg[1] \in Changed(b) /\ leg[2] \in Changed(b)
      /\ Delta(b[leg[1]]) > 0 /\ Delta(b[leg[2]]) < 0
  BY <1>2 DEF Legs
<1>4. Changed(b) \subseteq DOMAIN b
  BY DEF Changed
<1>5. IsFiniteSet(DOMAIN b)
  <2>1. Len(b) \in Nat /\ DOMAIN b = 1..Len(b)
    BY ConsumerAssumption
  <2>2. IsFiniteSet(1..Len(b))
    BY <2>1, FS_Interval
  <2> QED BY <2>1, <2>2
<1>6. \A i \in DOMAIN b : b[i].pre \in 0..MaxAmount /\ b[i].post \in 0..MaxAmount
  BY <1>1 DEF IsAmount
<1>7. leg[1] # leg[2]
  BY <1>1, <1>2
<1>8. Changed(b) = {leg[1], leg[2]}
  <2>1. IsFiniteSet(Changed(b))
    BY <1>4, <1>5, FS_Subset
  <2> DEFINE one == Changed(b) \ {leg[1]}
             rest == one \ {leg[2]}
  <2>2. IsFiniteSet(one) /\ Cardinality(one) = 1
    BY <1>1, <1>3, <2>1, FS_RemoveElement
  <2>3. IsFiniteSet(rest) /\ Cardinality(rest) = 0
    <3>1. leg[2] \in one
      BY <1>3, <1>7
    <3> HIDE DEF one
    <3>2. \A x : IsFiniteSet(one \ {x}) /\ (x \in one => Cardinality(one \ {x}) = Cardinality(one) - 1)
      BY <2>2, FS_RemoveElement
    <3> QED BY <2>2, <3>1, <3>2
  <2>4. rest = {}
    <3> HIDE DEF rest
    <3> QED BY <2>3, FS_EmptySet
  <2> QED BY <1>3, <2>4
<1>9. \A i \in DOMAIN b : i \notin {leg[1], leg[2]} => Delta(b[i]) = 0
  BY <1>8 DEF Changed
<1> QED BY <1>1, <1>2, <1>3, <1>4, <1>5, <1>6, <1>9

LEMMA RowAddsUp ==
    ASSUME NEW id \in EventId, DecodeError(PayloadOf[id]) = "none", NEW b \in PayloadOf[id]
    PROVE  AddsUp(SwapRow(SlotOf[id], SignatureOf[id], ProgramOf[id], b), id, b)
<1>1. PICK leg : leg = CHOOSE l \in Legs(b) : TRUE
  OBVIOUS
<1>2. PICK sender, receiver : sender = leg[1] /\ receiver = leg[2]
  OBVIOUS
<1>3. PICK swap : swap = SwapRow(SlotOf[id], SignatureOf[id], ProgramOf[id], b)
  OBVIOUS
<1>4. /\ swap.signature = SignatureOf[id]
      /\ swap.slot = Column(SlotOf[id], MaxSlotColumn)
      /\ swap.tokenIn = b[sender].mint
      /\ swap.amountIn = Column(Delta(b[sender]), MaxAmount)
      /\ swap.tokenOut = b[receiver].mint
      /\ swap.amountOut = Column(-Delta(b[receiver]), MaxAmount)
  BY <1>1, <1>2, <1>3 DEF SwapRow
<1>5. /\ IsFiniteSet(DOMAIN b)
      /\ \A i \in DOMAIN b : b[i].pre \in 0..MaxAmount /\ b[i].post \in 0..MaxAmount
      /\ sender \in DOMAIN b /\ receiver \in DOMAIN b
      /\ b[sender].mint # b[receiver].mint
      /\ Delta(b[sender]) > 0 /\ Delta(b[receiver]) < 0
      /\ \A i \in DOMAIN b : i # sender /\ i # receiver => Delta(b[i]) = 0
  BY <1>1, <1>2, LegFacts
<1>6. \A i \in DOMAIN b : b[i].post - b[i].pre = -Delta(b[i]) /\ Delta(b[i]) \in -MaxAmount..MaxAmount
  BY <1>5, DecodingAssumption DEF Delta
<1>7. /\ swap.amountIn = Delta(b[sender]) /\ swap.amountIn > 0
      /\ swap.amountOut = -Delta(b[receiver]) /\ swap.amountOut > 0
  BY <1>4, <1>5, <1>6, DecodingAssumption DEF Column
<1>8. swap.slot = SlotOf[id] \/ (swap.slot = -1 /\ SlotOf[id] \notin DbSlots)
  BY <1>4, OrderFacts, ConsumerAssumption, PipelineAssumption DEF Column, DbSlots, Slots
<1>9. ASSUME NEW mint \in Mints(b)
      PROVE  NetChange(b, mint) = CASE mint = swap.tokenIn -> -swap.amountIn
                                    [] mint = swap.tokenOut -> swap.amountOut
                                    [] OTHER -> 0
  <2> DEFINE S == {i \in DOMAIN b : b[i].mint = mint}
  <2>1. NetChange(b, mint) = NetSum(b, S)
    BY DEF NetChange, NetSum
  <2>2. IsFiniteSet(S)
    BY <1>5, FS_Subset
  <2>3. \A i \in S : b[i].post - b[i].pre = -Delta(b[i]) /\ b[i].post - b[i].pre \in Int
    BY <1>6
  <2>4. sender \in S <=> mint = swap.tokenIn
    BY <1>4, <1>5
  <2>5. receiver \in S <=> mint = swap.tokenOut
    BY <1>4, <1>5
  <2>6. \A i \in S : i # sender /\ i # receiver => b[i].post - b[i].pre = 0
    BY <1>5, <1>6
  <2>7. swap.tokenIn # swap.tokenOut
    BY <1>4, <1>5
  <2> HIDE DEF S
  <2>8. CASE mint = swap.tokenIn
    <3>1. sender \in S /\ receiver \notin S
      BY <2>4, <2>5, <2>7, <2>8
    <3>2. NetSum(b, S) = b[sender].post - b[sender].pre
      BY <2>2, <2>3, <2>6, <3>1, OneTerm
    <3>3. NetSum(b, S) = -swap.amountIn
      BY <1>7, <2>3, <3>1, <3>2
    <3> QED BY <2>1, <2>7, <2>8, <3>3
  <2>9. CASE mint # swap.tokenIn
    <3>1. sender \notin S
      BY <2>4, <2>9
    <3>2. NetSum(b, S) = IF receiver \in S THEN b[receiver].post - b[receiver].pre ELSE 0
      BY <2>2, <2>3, <2>6, <3>1, OneTerm
    <3>3. CASE mint = swap.tokenOut
      <4>1. receiver \in S
        BY <2>5, <3>3
      <4>2. NetSum(b, S) = swap.amountOut
        BY <1>7, <2>3, <3>2, <4>1
      <4> QED BY <2>1, <2>9, <3>3, <4>2
    <3>4. CASE mint # swap.tokenOut
      <4>1. NetSum(b, S) = 0
        BY <2>5, <3>2, <3>4
      <4> QED BY <2>1, <2>9, <3>4, <4>1
    <3> QED BY <3>3, <3>4
  <2> QED BY <2>8, <2>9
<1>10. AddsUp(swap, id, b)
  BY <1>4, <1>7, <1>8, <1>9 DEF AddsUp
<1> QED BY <1>3, <1>10

\* Every row was decoded from an event of the file, which stays what it is.
DecodedInv ==
    \A i \in DOMAIN swaps : \E id \in Ids(file) : \E b \in PayloadOf[id] : AddsUp(swaps[i], id, b)

LEMMA DecodedStep ==
    ASSUME ReplayInv, SwapsInv, DecodedInv, [ConsumerNext]_apiVars PROVE DecodedInv'
<1>1. CASE UNCHANGED <<swaps, file>>
  BY <1>1 DEF DecodedInv, Ids
<1>2. CASE WriteSwap
  <2>1. file' = file
    BY <1>2 DEF WriteSwap, replayVars
  <2>2. PICK id \in Ids(file) :
          /\ DecodeError(PayloadOf[id]) = "none"
          /\ \E b \in PayloadOf[id] :
               swaps' = Append(swaps, SwapRow(SlotOf[id], SignatureOf[id], ProgramOf[id], b))
    BY <1>2 DEF WriteSwap
  <2>3. id \in EventId
    BY FileFacts, BatchFacts
  <2>4. PICK b \in PayloadOf[id] :
          swaps' = Append(swaps, SwapRow(SlotOf[id], SignatureOf[id], ProgramOf[id], b))
    BY <2>2
  <2>5. PICK row : row = SwapRow(SlotOf[id], SignatureOf[id], ProgramOf[id], b)
    OBVIOUS
  <2>6. AddsUp(row, id, b)
    BY <2>2, <2>3, <2>5, RowAddsUp
  <2>7. row \in SwapRows
    BY <2>3, <2>5 DEF SwapRows
  <2>8. /\ DOMAIN swaps' = DOMAIN swaps \cup {Len(swaps) + 1}
        /\ swaps'[Len(swaps) + 1] = row
        /\ \A i \in DOMAIN swaps : swaps'[i] = swaps[i]
    BY <2>4, <2>5, <2>7 DEF SwapsInv
  <2>9. Ids(file)' = Ids(file)
    BY <2>1 DEF Ids
  <2> QED BY <2>6, <2>8, <2>9 DEF DecodedInv
<1>3. ReplayNext => UNCHANGED file
  BY DEF ReplayNext, ReplaySend, ReplayEnd, ReplayReceiver, ReplayStops, ReplayRestart
<1> QED BY <1>1, <1>2, <1>3 DEF ConsumerNext, apiVars, replayVars

\* Whatever is decoded, and however often: a stored swap is what its transaction
\* did to the balances, and nothing else happened there.
THEOREM SwapsBalance == ConsumerSpec => []SwapsAddUp
<1>1. DecodedInv => SwapsAddUp
  BY DEF DecodedInv, SwapsAddUp, AddsUp
<1>2. ConsumerInit => SwapsInv /\ DecodedInv
  BY DEF ConsumerInit, SwapsInv, DecodedInv
<1>3. ConsumerSpec => []IInv /\ []ReplayInv
  BY ConsumerImplementsReplay, ReplayImplementsPipeline, InvHolds, ReplayInitial, ReplayStep,
     PTL DEF ReplaySpec
<1> QED BY <1>1, <1>2, <1>3, SwapsStep, DecodedStep, PTL DEF ConsumerSpec

-----------------------------------------------------------------------------
(***************************************************************************)
(* How far the rows run ahead of the cursor: never by more than a batch,    *)
(* though replays fail between the insert and the cursor update as often    *)
(* as they like, because the one that follows starts at the same event.     *)
(***************************************************************************)
\* The cursor is at place c of the file.
CursorAt(c) == \A i \in 1..Len(file) : SlotOf[file[i].id] <= cursor <=> i <= c

\* No row is of an event further than a batch behind place c.
RowsNear(c) == \A id \in stored : \E i \in 1..Len(file) : file[i].id = id /\ i <= c + BatchSize

\* The batch being made or written starts at place c, until the cursor is past it.
WorkAt(c) ==
    /\ pc = "receive" =>
         Done = c \/ (Done < c /\ resumeAfter = cursor /\ pending = <<>>)
    /\ pc \in {"write", "cursor"} => Done = c
    /\ PastCursor => Done + Len(batch) = c

AheadInv == \E c \in 0..Len(file) : CursorAt(c) /\ RowsNear(c) /\ WorkAt(c)

\* The cursor update moves the cursor to the place after the batch.
LEMMA CursorPlace ==
    ASSUME OnePerSlot, ReplayState, pc = "cursor", LastSlot(batch) \in DbSlots,
           NEW c \in 0..Len(file), CursorAt(c), Done = c
    PROVE  /\ Done + Len(batch) \in c..Len(file)
           /\ Greatest(cursor, LastSlot(batch)) = LastSlot(batch)
           /\ \A i \in 1..Len(file) :
                 SlotOf[file[i].id] <= LastSlot(batch) <=> i <= Done + Len(batch)
<1> DEFINE n == Len(batch)
           d == Done + Len(batch)
           last == LastSlot(batch)
<1>1. Alive
  BY DEF Alive
<1>2. /\ Done \in Nat /\ \A k \in 1..n : batch[k] = file[Done + k]
  BY <1>1 DEF ReplayState, ReplayWork, LineInv
<1>3. n \in Nat /\ n # 0 /\ batch \in Seq(Event) /\ d \in c..Len(file) /\ d > c
      /\ last \in Int /\ cursor \in Int
  <2>1. batch \in Seq(Event) /\ n \in Nat
    BY LineFacts
  <2>2. n # 0
    BY <2>1, InRangeBatchStorable
  <2>3. d <= position /\ position <= Len(file) /\ d \in Nat
    BY <1>2, LineFacts
  <2>4. last \in Int /\ cursor \in Int
    <3>1. cursor \in Int
      BY LineFacts
    <3>2. DbSlots \subseteq Int
      BY SlotAssumption DEF DbSlots
    <3> QED BY <3>1, <3>2
  <2> HIDE DEF last
  <2> QED BY <1>2, <2>1, <2>2, <2>3, <2>4, LineFacts
<1>4. \A k \in 1..n : Done + k \in 1..Len(file) /\ SlotOf[file[Done + k].id] <= last
                      /\ Done + k <= d
  <2> SUFFICES ASSUME NEW k \in 1..n
               PROVE  Done + k \in 1..Len(file) /\ SlotOf[file[Done + k].id] <= last
                      /\ Done + k <= d
    OBVIOUS
  <2>1. k \in DOMAIN batch
    BY <1>3
  <2>2. SlotOf[batch[k].id] <= last
    BY <1>3, <2>1, BatchFacts
  <2> QED BY <1>2, <1>3, <2>2
<1>5. \A i \in 1..Len(file) : SlotOf[file[i].id] \in Nat
  BY LineFacts
<1>6. d \in 1..Len(file) /\ SlotOf[file[d].id] = last
  <2>1. PICK k \in 1..n : SlotOf[batch[k].id] = last
    <3>1. last # None
      BY SlotFacts
    <3> QED BY <1>3, <3>1, BatchFacts
  <2>2. n \in 1..n /\ d \in 1..Len(file)
    BY <1>2, <1>3
  <2>3. SlotOf[file[d].id] <= last
    BY <1>4, <2>2
  <2>4. SlotOf[file[Done + k].id] = last /\ Done + k \in 1..Len(file) /\ Done + k <= d
    BY <1>2, <1>4, <2>1
  <2>5. Done + k < d => last < SlotOf[file[d].id]
    BY <2>2, <2>4, Rising DEF ReplayState
  <2>6. Done + k = d \/ Done + k < d
    BY <1>2, <1>3, <2>4
  <2> QED BY <1>3, <1>5, <2>2, <2>3, <2>4, <2>5, <2>6
<1> HIDE DEF d, last
<1>7. ASSUME NEW i \in 1..Len(file) PROVE SlotOf[file[i].id] <= last <=> i <= d
  <2>1. i < d => SlotOf[file[i].id] < last
    BY <1>6, Rising DEF ReplayState
  <2>2. d < i => last < SlotOf[file[i].id]
    BY <1>6, Rising DEF ReplayState
  <2>3. SlotOf[file[i].id] \in Nat /\ i \in Nat /\ d \in Nat
    BY <1>5, <1>6
  <2>4. i < d \/ i = d \/ d < i
    BY <2>3
  <2> QED BY <1>3, <1>6, <2>1, <2>2, <2>3, <2>4
<1>8. ~(last <= cursor)
  <2>1. ~(d <= c)
    BY <1>3, LineFacts
  <2> QED BY <1>6, <2>1 DEF CursorAt
<1>9. Greatest(cursor, last) = last
  BY <1>3, <1>8 DEF Greatest
<1> QED BY <1>3, <1>7, <1>9 DEF d, last

LEMMA AheadStep ==
    ASSUME OnePerSlot, ReplayState, AheadInv, [ReplayNext]_replayVars
    PROVE  AheadInv'
<1> DEFINE Stops == pc' \notin {"receive", "write", "cursor", "slots", "select", "upsert", "progress"}
           Same  == UNCHANGED <<stored, cursor>>
<1>0. file' = file
  BY DEF ReplayNext, ReplaySend, ReplayEnd, ReplayReceiver, ReplayStops, ReplayRestart, replayVars
<1>1. PICK c \in 0..Len(file) : CursorAt(c) /\ RowsNear(c) /\ WorkAt(c)
  BY DEF AheadInv
<1>2. c \in Int /\ Len(file) \in Nat /\ BatchSize \in Nat /\ BatchSize >= 1
  BY LineFacts, ConstantFacts
<1>3. Alive => /\ Done \in Nat
               /\ \A i \in 1..Len(batch) : batch[i] = file[Done + i]
               /\ \A i \in 1..Len(pending) : pending[i] = file[Done + Len(batch) + i]
  BY DEF ReplayState, ReplayWork, LineInv
<1>4. ASSUME cursor' = cursor, RowsNear(c)', WorkAt(c)' PROVE AheadInv'
  BY <1>0, <1>1, <1>4 DEF AheadInv, CursorAt
<1>5. ASSUME stored' = stored PROVE RowsNear(c)'
  BY <1>0, <1>1, <1>5 DEF RowsNear
<1>6. ASSUME Stops PROVE \A d : WorkAt(d)'
  BY <1>6 DEF WorkAt, PastCursor
<1>7. ASSUME pc = "write", stored' \in {stored, stored \cup StorableIds(batch)}
      PROVE  RowsNear(c)'
  <2>1. Done = c /\ Len(batch) <= BatchSize /\ Len(batch) \in Nat /\ Alive
        /\ batch \in Seq(Event)
    BY <1>1, <1>7, LineFacts DEF WorkAt, Alive, ReplayState, TypeOK
  <2>2. ASSUME NEW id \in StorableIds(batch)
        PROVE  \E i \in 1..Len(file) : file[i].id = id /\ i <= c + BatchSize
    <3>1. PICK k \in 1..Len(batch) : batch[k].id = id
      BY <2>1 DEF StorableIds, StorableAt
    <3>2. Done + k \in 1..Len(file) /\ Done + k <= c + BatchSize
      BY <1>2, <1>3, <2>1, LineFacts
    <3>3. file[Done + k].id = id
      BY <1>3, <2>1, <3>1
    <3> QED BY <3>2, <3>3
  <2>3. \A id \in stored' : \E i \in 1..Len(file) : file[i].id = id /\ i <= c + BatchSize
    BY <1>1, <1>7, <2>2 DEF RowsNear
  <2> QED BY <1>0, <2>3 DEF RowsNear
<1>8. ASSUME pc = "cursor", LastSlot(batch) \in DbSlots, stored' = stored,
             cursor' = Greatest(cursor, LastSlot(batch)),
             NEW CONSTANT d \in Nat, d = Done + Len(batch), WorkAt(d)'
      PROVE  AheadInv'
  <2>1. Done = c
    BY <1>1, <1>8 DEF WorkAt
  <2>2. /\ d \in c..Len(file) /\ cursor' = LastSlot(batch)
        /\ \A i \in 1..Len(file) : SlotOf[file[i].id] <= LastSlot(batch) <=> i <= d
    BY <1>1, <1>8, <2>1, CursorPlace
  <2>3. d \in 0..Len(file)
    BY <1>2, <2>2
  <2>4. CursorAt(d)'
    BY <1>0, <2>2 DEF CursorAt
  <2>5. RowsNear(d)'
    <3>1. \A i \in 1..Len(file) : i <= c + BatchSize => i <= d + BatchSize
      BY <1>2, <2>2
    <3> QED BY <1>0, <1>1, <1>8, <3>1 DEF RowsNear
  <2> QED BY <1>0, <1>8, <2>3, <2>4, <2>5 DEF AheadInv
\* Steps that leave the receiver where it is, and what the batch starts at.
<1>9. ASSUME Same, UNCHANGED <<pc, resumeAfter, pending, batch>>, Done' = Done PROVE AheadInv'
  <2>1. WorkAt(c)'
    BY <1>1, <1>9 DEF WorkAt, PastCursor
  <2> QED BY <1>4, <1>5, <1>9, <2>1
<1>10. ASSUME Same, Stops PROVE AheadInv'
  BY <1>4, <1>5, <1>6, <1>10
<1>11. ASSUME Same, PastCursor, PastCursor', batch' = batch, Done' = Done PROVE AheadInv'
  <2>1. WorkAt(c)'
    BY <1>1, <1>11 DEF WorkAt, PastCursor
  <2> QED BY <1>4, <1>5, <1>11, <2>1
<1> HIDE DEF Same, Stops
<1>12. CASE ReplaySend
  <2>1. /\ Same /\ UNCHANGED <<pc, resumeAfter, pending, batch>>
        /\ position' = position + 1 /\ channel' = Append(channel, file[position + 1])
        /\ file[position + 1] \in Event
    BY <1>12, LineFacts, FileFacts DEF ReplaySend, ProducerSend, dbVars, Same, ReplayState
  <2>2. Len(channel') = Len(channel) + 1
    BY <2>1, LineFacts
  <2>3. Done' = Done
    BY <2>1, <2>2, LineFacts DEF Done
  <2> QED BY <1>9, <2>1, <2>3
<1>13. CASE ReplayEnd \/ UNCHANGED replayVars
  <2>1. /\ Same /\ UNCHANGED <<pc, resumeAfter, pending, batch, position, channel>>
    BY <1>13 DEF ReplayEnd, ProducerExit, replayVars, vars, dbVars, processVars, Same
  <2> QED BY <1>9, <2>1 DEF Done
<1>14. ASSUME Receive, UNCHANGED <<file, position>> PROVE AheadInv'
  <2> DEFINE e == Head(channel)
             filled == Append(pending, e)
  <2>1. /\ Same /\ Alive /\ pc = "receive" /\ batch = <<>> /\ channel # <<>>
        /\ channel' = Tail(channel) /\ resumeAfter' = resumeAfter
    BY <1>14, LineFacts DEF Receive, HasEvent, Alive, dbVars, Same, ReplayState, ProcessInv, KeptInv
  <2>2. /\ Len(channel') = Len(channel) - 1 /\ Len(channel) \in Nat /\ Len(channel) >= 1
        /\ Len(filled) = Len(pending) + 1 /\ Len(pending) \in Nat /\ Len(<<>>) = 0
        /\ e = channel[1] /\ e \in Event
    <3>1. channel \in Seq(Event) /\ pending \in Seq(Event)
      BY LineFacts
    <3>2. e \in Event /\ e = channel[1]
      BY <2>1, <3>1
    <3> HIDE DEF e
    <3> QED BY <2>1, <3>1, <3>2
  <2>3. /\ Done \in Nat /\ Done + Len(pending) + Len(channel) = position
        /\ Done + Len(pending) + 1 \in 1..Len(file)
        /\ e = file[Done + Len(pending) + 1]
    <3>1. Done \in Nat /\ Len(batch) = 0
      BY <1>3, <2>1
    <3>2. Done + Len(pending) + Len(channel) = position /\ position <= Len(file)
      BY <3>1, LineFacts
    <3>3. channel[1] = file[Done + Len(batch) + Len(pending) + 1]
      <4>1. 1 \in 1..Len(channel)
        BY <2>2
      <4> QED BY <2>1, <4>1 DEF ReplayState, ReplayWork, LineInv
    <3>4. Done + Len(batch) + Len(pending) + 1 = Done + Len(pending) + 1
      BY <3>1, <2>2
    <3> QED BY <2>2, <3>1, <3>2, <3>3, <3>4, LineFacts
  <2>4. Done = c \/ (Done < c /\ resumeAfter = cursor /\ pending = <<>>)
    BY <1>1, <2>1 DEF WorkAt
  <2>5. \/ ShouldSkip(e) /\ pending' = pending /\ batch' = batch /\ pc' = "receive"
        \/ ~ShouldSkip(e) /\ pending' = filled /\ batch' = batch /\ pc' = "receive"
        \/ ~ShouldSkip(e) /\ pending' = <<>> /\ batch' = filled /\ pc' = "write"
    BY <1>14 DEF Receive
  <2>6. Done' = position - ((Len(channel) - 1) + Len(pending') + Len(batch'))
    BY <1>14, <2>2 DEF Done
  <2>7. resumeAfter \in Int /\ cursor \in Int /\ SlotOf[e.id] \in Nat
    BY <2>3, LineFacts
  <2> HIDE DEF e, filled
  <2>8. CASE ShouldSkip(e)
    <3>1. pending = <<>> /\ SlotOf[e.id] <= resumeAfter /\ resumeAfter <= cursor
      BY <1>14, <2>1, <2>8, SkippedIsStored
      DEF ShouldSkip, ReplayState, ReplayWork, ResumeInv, e
    <3>2. Len(pending) = 0 /\ Len(pending') = 0 /\ Len(batch') = 0
          /\ pending' = <<>> /\ pc' = "receive"
      BY <2>1, <2>2, <2>5, <2>8, <3>1
    <3>3. Done + 1 \in 1..Len(file) /\ e = file[Done + 1]
      BY <2>3, <3>2
    <3>4. SlotOf[e.id] <= cursor
      BY <2>7, <3>1
    <3>5. Done + 1 <= c
      BY <1>1, <3>3, <3>4 DEF CursorAt
    <3>6. Done' = Done + 1
      BY <2>2, <2>3, <2>6, <3>2, LineFacts
    <3>7. resumeAfter = cursor
      BY <1>2, <2>3, <2>4, <3>5
    <3>8. WorkAt(c)'
      <4>1. cursor' = cursor /\ resumeAfter' = resumeAfter
        BY <2>1 DEF Same
      <4>2. Done' = c \/ Done' < c
        BY <1>2, <2>3, <3>5, <3>6
      <4> QED BY <3>2, <3>7, <4>1, <4>2 DEF WorkAt, PastCursor
    <3> QED BY <1>4, <1>5, <2>1, <3>8 DEF Same
  <2>9. CASE ~ShouldSkip(e)
    <3>1. SlotOf[e.id] > resumeAfter
      BY <2>7, <2>9, ReplayAssumption, SlotFacts DEF ShouldSkip
    <3>2. Done = c
      <4>1. CASE Done < c /\ resumeAfter = cursor /\ pending = <<>>
        <5>1. Done + 1 \in 1..Len(file) /\ e = file[Done + 1]
          BY <2>2, <2>3, <4>1
        <5>2. ~(SlotOf[e.id] <= cursor)
          BY <2>7, <3>1, <4>1
        <5>3. ~(Done + 1 <= c)
          BY <1>1, <5>1, <5>2 DEF CursorAt
        <5> QED BY <1>2, <2>3, <4>1, <5>3
      <4> QED BY <2>4, <4>1
    <3>3. Len(pending') + Len(batch') = Len(pending) + 1 /\ Len(pending') \in Nat
          /\ Len(batch') \in Nat
      BY <2>1, <2>2, <2>5, <2>9
    <3>4. Done' = Done
      <4>1. /\ position \in Int /\ Len(channel) \in Int /\ Len(pending) \in Int /\ Done \in Int
            /\ Len(pending') \in Int /\ Len(batch') \in Int
        BY <2>2, <2>3, <3>3, LineFacts
      <4> QED BY <2>3, <2>6, <3>3, <4>1
    <3>5. pc' \in {"receive", "write"}
      BY <2>5
    <3>6. WorkAt(c)'
      BY <3>2, <3>4, <3>5 DEF WorkAt, PastCursor
    <3> QED BY <1>4, <1>5, <2>1, <3>6 DEF Same
  <2> QED BY <2>8, <2>9
<1>15. ASSUME ChannelClosed, UNCHANGED <<file, position>> PROVE AheadInv'
  <2>1. Same /\ pc = "receive" /\ batch = <<>> /\ channel' = channel
    BY <1>15, LineFacts DEF ChannelClosed, dbVars, Same, ReplayState, ProcessInv, KeptInv
  <2>2. CASE pc' = "join"
    BY <1>10, <2>1, <2>2 DEF Stops
  <2>3. CASE pending # <<>> /\ batch' = pending /\ pending' = <<>> /\ pc' = "write"
    <3>1. Done = c
      BY <1>1, <2>1, <2>3 DEF WorkAt
    <3>2. Len(batch') = Len(pending) /\ Len(pending') = 0 /\ Len(batch) = 0 /\ Len(pending) \in Nat
      BY <2>1, <2>3, LineFacts
    <3>3. Done' = Done
      BY <1>15, <2>1, <3>2, LineFacts DEF Done
    <3>4. WorkAt(c)'
      BY <2>3, <3>1, <3>3 DEF WorkAt, PastCursor
    <3> QED BY <1>4, <1>5, <2>1, <3>4 DEF Same
  <2> QED BY <1>15, <2>2, <2>3 DEF ChannelClosed
<1>16. ASSUME WriteEvents, UNCHANGED <<file, position>> PROVE AheadInv'
  <2>1. /\ pc = "write" /\ pc' = "cursor" /\ stored' = stored \cup StorableIds(batch)
        /\ UNCHANGED <<cursor, channel, pending, batch, position>>
    BY <1>16 DEF WriteEvents
  <2>2. RowsNear(c)' /\ Done' = Done
    BY <1>7, <2>1 DEF Done
  <2>3. WorkAt(c)'
    BY <1>1, <2>1, <2>2 DEF WorkAt, PastCursor
  <2> QED BY <1>4, <2>1, <2>2, <2>3
<1>17. ASSUME UpdateCursor, UNCHANGED <<file, position>> PROVE AheadInv'
  <2>1. /\ pc = "cursor" /\ LastSlot(batch) \in DbSlots /\ stored' = stored /\ Alive
        /\ cursor' = Greatest(cursor, LastSlot(batch)) /\ pc' \in {"slots", "progress"}
        /\ UNCHANGED <<channel, pending, batch, position>>
    BY <1>17 DEF UpdateCursor, Alive
  <2>2. Done + Len(batch) \in Nat
    BY <1>3, <2>1, LineFacts
  <2>3. PICK d \in Nat : d = Done + Len(batch)
    BY <2>2
  <2>4. Done' = Done
    BY <2>1 DEF Done
  <2>5. WorkAt(d)'
    BY <2>1, <2>3, <2>4 DEF WorkAt
  <2> QED BY <1>8, <2>1, <2>3, <2>5
<1>18. ASSUME RecordSlotStates \/ SelectWatermark \/ UpsertWatermark, UNCHANGED <<file, position>>
       PROVE  AheadInv'
  <2>1. Same /\ PastCursor /\ PastCursor' /\ UNCHANGED <<channel, pending, batch, position>>
    BY <1>18 DEF RecordSlotStates, SelectWatermark, UpsertWatermark, PastCursor, dbVars, Same
  <2> QED BY <1>11, <2>1 DEF Done
<1>19. ASSUME BatchDone, UNCHANGED <<file, position>> PROVE AheadInv'
  <2>1. /\ Same /\ Alive /\ pc = "progress" /\ pc' \in {"receive", "join"} /\ batch' = <<>>
        /\ UNCHANGED <<channel, pending, position>>
    BY <1>19 DEF BatchDone, dbVars, Same, Alive
  <2>2. Done + Len(batch) = c /\ Len(batch) \in Nat /\ Len(batch') = 0
    BY <1>1, <2>1, LineFacts DEF WorkAt, PastCursor
  <2>3. Done' = c
    BY <2>1, <2>2, LineFacts DEF Done
  <2>4. WorkAt(c)'
    BY <2>1, <2>3 DEF WorkAt, PastCursor
  <2> QED BY <1>4, <1>5, <2>1, <2>4 DEF Same
<1>20. CASE Join BY <1>10, <1>20 DEF Join, dbVars, Same, Stops
<1>21. CASE CursorOutOfRange
  BY <1>10, <1>21 DEF CursorOutOfRange, FailWith, dbVars, Same, Stops
<1>22. CASE RecordOutOfRange
  BY <1>10, <1>22 DEF RecordOutOfRange, FailWith, dbVars, Same, Stops
<1>23. CASE WriteFails
  <2>1. /\ pc = "write" /\ cursor' = cursor /\ Stops
        /\ stored' \in {stored, stored \cup StorableIds(batch)}
    BY <1>23 DEF WriteFails, FailWith, Stops
  <2> QED BY <1>4, <1>6, <1>7, <2>1
<1>24. CASE CursorFails
  <2>1. /\ pc = "cursor" /\ LastSlot(batch) \in DbSlots /\ stored' = stored /\ Stops /\ Alive
        /\ cursor' \in {cursor, Greatest(cursor, LastSlot(batch))}
    BY <1>24 DEF CursorFails, FailWith, Stops, Alive
  <2>2. Done + Len(batch) \in Nat
    BY <1>3, <2>1, LineFacts
  <2>3. PICK d \in Nat : d = Done + Len(batch)
    BY <2>2
  <2>4. WorkAt(c)' /\ WorkAt(d)'
    BY <1>6, <2>1
  <2> QED BY <1>4, <1>5, <1>8, <2>1, <2>3, <2>4
<1>25. CASE RecordFails BY <1>10, <1>25 DEF RecordFails, FailWith, Same, Stops
<1>26. CASE SelectFails BY <1>10, <1>26 DEF SelectFails, FailWith, dbVars, Same, Stops
<1>27. CASE UpsertFails BY <1>10, <1>27 DEF UpsertFails, FailWith, Same, Stops
<1>28. CASE Crash BY <1>10, <1>28 DEF Crash, dbVars, Same, Stops
<1>29. CASE ReplayRestart
  <2>1. /\ Same /\ pc' = "receive" /\ resumeAfter' = cursor /\ pending' = <<>> /\ batch' = <<>>
        /\ channel' = <<>> /\ position' = 0
    BY <1>29 DEF ReplayRestart, Restart, dbVars, Same
  <2>2. Done' = 0
    <3>1. Len(channel') = 0 /\ Len(pending') = 0 /\ Len(batch') = 0 /\ position' = 0
      BY <2>1
    <3>2. Done' = position' - (Len(channel') + Len(pending') + Len(batch'))
      BY DEF Done
    <3> QED BY <3>1, <3>2
  <2>3. 0 = c \/ 0 < c
    BY <1>2
  <2>4. WorkAt(c)'
    BY <2>1, <2>2, <2>3 DEF WorkAt, PastCursor, Same
  <2> QED BY <1>4, <1>5, <2>1, <2>4 DEF Same
<1> QED
  BY <1>12, <1>13, <1>14, <1>15, <1>16, <1>17, <1>18, <1>19, <1>20, <1>21, <1>22, <1>23,
     <1>24, <1>25, <1>26, <1>27, <1>28, <1>29
  DEF ReplayNext, ReplayReceiver, ReplayStops, Receiver, WriteBatch, StatementFails

LEMMA AheadInit == ASSUME ReplayInit PROVE AheadInv
<1>1. /\ stored = {} /\ cursor = None /\ pc = "receive" /\ resumeAfter = None
      /\ channel = <<>> /\ pending = <<>> /\ batch = <<>> /\ position = 0
  BY DEF ReplayInit, Init
<1>2. Done = 0
  <2>1. Len(channel) = 0 /\ Len(pending) = 0 /\ Len(batch) = 0 /\ position = 0
    BY <1>1
  <2>2. Done = position - (Len(channel) + Len(pending) + Len(batch))
    BY DEF Done
  <2> HIDE DEF Done
  <2> QED BY <2>1, <2>2
<1>3. file \in Seq(Event) /\ Len(file) \in Nat
  BY ReplayInitial, FileFacts
<1>4. \A i \in 1..Len(file) : SlotOf[file[i].id] \in Nat
  <2> SUFFICES ASSUME NEW i \in 1..Len(file) PROVE SlotOf[file[i].id] \in Nat
    OBVIOUS
  <2>1. file[i] \in Event
    BY <1>3
  <2> QED BY <2>1, EventFacts, SlotFacts
<1>5. CursorAt(0)
  BY <1>1, <1>3, <1>4, SlotFacts DEF CursorAt
<1>6. RowsNear(0) /\ WorkAt(0)
  BY <1>1, <1>2 DEF RowsNear, WorkAt, PastCursor
<1> QED BY <1>3, <1>5, <1>6 DEF AheadInv

LEMMA AheadHolds == ASSUME OnePerSlot PROVE ReplaySpec => [](AheadInv /\ ReplayState)
<1>1. ReplayInit => AheadInv
  BY AheadInit
<1>2. ReplayState /\ AheadInv /\ [ReplayNext]_replayVars => AheadInv'
  BY AheadStep
<1>3. ReplaySpec => []ReplayInv
  BY ReplayInitial, ReplayStep, PTL DEF ReplaySpec
<1>4. ReplaySpec => []TypeOK /\ []ProcessInv
  BY ReplayImplementsPipeline, TypeCorrect, ProcessKept, PTL
<1>5. TypeOK /\ ReplayInv /\ ProcessInv /\ ReplayWork => ReplayState
  BY DEF ReplayState
<1>6. ReplaySpec => []ReplayState
  BY <1>3, <1>4, <1>5, ReplayWorkHolds, PTL
<1> QED BY <1>1, <1>2, <1>6, PTL DEF ReplaySpec

\* Fewer than a batch of rows are newer than one of the batch.
LEMMA FewAreNewer ==
    ASSUME OnePerSlot, ReplayState, AheadInv, pc = "cursor",
           NEW id \in StorableIds(batch), NEW S \in SUBSET stored
    PROVE  Cardinality({o \in S : Newer(o, id)}) < BatchSize
<1>1. PICK c \in 0..Len(file) : CursorAt(c) /\ RowsNear(c) /\ WorkAt(c)
  BY DEF AheadInv
<1>2. Done = c /\ Alive /\ BatchSize \in Nat
  BY <1>1, ConstantFacts DEF WorkAt, Alive
<1>3. PICK k \in 1..Len(batch) : batch[k].id = id
  BY LineFacts DEF StorableIds, StorableAt
<1>4. /\ c + k \in 1..Len(file) /\ file[c + k].id = id /\ k <= BatchSize /\ k \in Nat \ {0}
      /\ c \in Nat
  <2>1. \A i \in 1..Len(batch) : batch[i] = file[Done + i]
    BY <1>2 DEF ReplayState, ReplayWork, LineInv
  <2>2. Len(batch) <= BatchSize
    BY DEF ReplayState, TypeOK
  <2> QED BY <1>2, <1>3, <2>1, <2>2, LineFacts
<1> DEFINE ahead == (c + k + 1)..(c + BatchSize)
           places == {i \in ahead : i \in 1..Len(file) /\ file[i].id \in stored}
           f == [i \in places |-> file[i].id]
           T == {f[i] : i \in places}
           newer == {o \in S : Newer(o, id)}
<1>5. IsFiniteSet(ahead) /\ Cardinality(ahead) \in Nat /\ Cardinality(ahead) < BatchSize
  <2>1. c + k + 1 \in Int /\ c + BatchSize \in Int
    BY <1>2, <1>4
  <2>2. /\ IsFiniteSet(ahead)
        /\ Cardinality(ahead) =
             IF c + k + 1 > c + BatchSize THEN 0 ELSE (c + BatchSize) - (c + k + 1) + 1
    BY <2>1, FS_Interval
  <2> HIDE DEF ahead
  <2> QED BY <1>2, <1>4, <2>2
<1>6. IsFiniteSet(places) /\ Cardinality(places) <= Cardinality(ahead)
      /\ Cardinality(places) \in Nat
  <2>1. places \in SUBSET ahead
    OBVIOUS
  <2> HIDE DEF ahead, places
  <2> QED BY <1>5, <2>1, FS_Subset, FS_CardinalityType
<1>7. IsFiniteSet(T) /\ Cardinality(T) <= Cardinality(places) /\ Cardinality(T) \in Nat
  <2> HIDE DEF places
  <2>1. f \in Surjection(places, T)
    BY DEF Surjection
  <2> HIDE DEF f, T
  <2> QED BY <1>6, <2>1, FS_Surjection, FS_CardinalityType
<1>8. newer \subseteq T
  <2> SUFFICES ASSUME NEW o \in stored, Newer(o, id) PROVE o \in T
    OBVIOUS
  <2>1. PICK i \in 1..Len(file) : file[i].id = o /\ i <= c + BatchSize
    BY <1>1 DEF RowsNear
  <2>2. \A j \in 1..Len(file) : file[j].id \in EventId
    <3> SUFFICES ASSUME NEW j \in 1..Len(file) PROVE file[j].id \in EventId
      OBVIOUS
    <3>1. file[j] \in Event
      BY LineFacts
    <3> QED BY <3>1, EventFacts
  <2>3. o \in EventId /\ id \in EventId /\ SlotOf[o] \in Nat /\ SlotOf[id] \in Nat
    BY <1>4, <2>1, <2>2, OrderFacts
  <2>4. i # c + k
    BY <1>4, <2>1, <2>3, NewerIsStrict
  <2>5. ~(i < c + k)
    <3>1. i < c + k => SlotOf[o] < SlotOf[id]
      BY <1>4, <2>1, Rising DEF ReplayState
    <3>2. ~(SlotOf[o] < SlotOf[id])
      BY <2>3 DEF Newer
    <3> QED BY <3>1, <3>2
  <2>6. i \in places
    BY <1>2, <1>4, <2>1, <2>4, <2>5
  <2> QED BY <2>1, <2>6
<1> HIDE DEF ahead, places, T, newer
<1>9. IsFiniteSet(newer) /\ Cardinality(newer) <= Cardinality(T) /\ Cardinality(newer) \in Nat
  BY <1>7, <1>8, FS_Subset, FS_CardinalityType
<1>10. Cardinality(newer) < BatchSize
  BY <1>2, <1>5, <1>6, <1>7, <1>9
<1> QED BY <1>10 DEF newer

(***************************************************************************)
(* A consumer that asks for at least a batch whenever a batch was written   *)
(* sees every row of it, whatever failed replays had written before.        *)
(***************************************************************************)
THEOREM PolledVisible == ASSUME OnePerSlot PROVE ConsumerSpec => []PolledBatchVisible
<1>1. ASSUME ReplayState, AheadInv PROVE PolledBatchVisible
  <2> SUFFICES ASSUME pc = "cursor", BatchSize <= MaxLimit,
                      NEW limit \in BatchSize..(MaxLimit + 1), NEW type,
                      NEW id \in StorableIds(batch), type \in {Any, TypeOf[id]}
               PROVE  id \in RecentEvents(type, limit)
    BY DEF PolledBatchVisible
  <2> DEFINE matching == {o \in stored : type = Any \/ TypeOf[o] = type}
  <2>1. StorableIds(batch) \subseteq stored
    BY <1>1 DEF ReplayState, ProcessInv, KeptInv
  <2>2. id \in matching /\ matching \in SUBSET stored
    BY <2>1
  <2>3. BatchSize <= Clamp(limit) /\ Clamp(limit) \in Nat /\ BatchSize \in Nat
    <3>1. BatchSize \in Nat /\ BatchSize >= 1 /\ MaxLimit \in Nat
      BY ConstantFacts, ConsumerAssumption
    <3>2. limit \in Nat /\ BatchSize <= limit /\ limit >= 1
      BY <3>1
    <3> QED BY <3>1, <3>2, ClampFacts
  <2>4. Cardinality({o \in matching : Newer(o, id)}) < BatchSize
    <3> HIDE DEF matching
    <3> QED BY <1>1, <2>2, FewAreNewer
  <2>5. Cardinality({o \in matching : Newer(o, id)}) \in Nat
    <3>1. {o \in matching : Newer(o, id)} \in SUBSET EventId
      BY <1>1, <2>2 DEF ReplayState, TypeOK
    <3> DEFINE newer == {o \in matching : Newer(o, id)}
    <3> HIDE DEF newer
    <3>2. IsFiniteSet(newer)
      BY <3>1, PipelineAssumption, FS_Subset DEF newer
    <3>3. Cardinality(newer) \in Nat
      BY <3>2, FS_CardinalityType
    <3> QED BY <3>3 DEF newer
  <2>6. Cardinality({o \in matching : Newer(o, id)}) < Clamp(limit)
    <3> DEFINE n == Cardinality({o \in matching : Newer(o, id)})
    <3>1. n < BatchSize /\ n \in Nat
      BY <2>4, <2>5
    <3> HIDE DEF n
    <3>2. n < Clamp(limit)
      BY <2>3, <3>1
    <3> QED BY <3>2 DEF n
  <2> QED BY <2>2, <2>6 DEF RecentEvents
<1>2. AheadInv /\ ReplayState => PolledBatchVisible
  BY <1>1
<1> QED BY <1>2, AheadHolds, ConsumerImplementsReplay, PTL
=============================================================================
