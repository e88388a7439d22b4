---------------------------- MODULE ReplayIngest ----------------------------
(***************************************************************************)
(* Replay mode (run_replay in crates/app/src/app.rs): the pipeline fed from *)
(* a JSONL file that is read once per process and sent in file order, with  *)
(* the slot resume rule on and the slot-state store replaced by a no-op.    *)
(* A process that dies or fails is started again and reads the same file.   *)
(***************************************************************************)
EXTENDS IngestPipeline

CONSTANT Files  \* the files an operator may replay: sequences of deliveries

ASSUME ReplayAssumption ==
    /\ Files \subseteq Seq(Event)
    /\ \A f \in Files : Len(f) <= MaxEvents
    /\ UseSlotResume = TRUE
    /\ AdvanceFinalized = FALSE
    /\ RecordSlots = FALSE

VARIABLES
    file,       \* the events read_events returned, the same for every process
    position    \* how many of them this process has sent

replayVars == <<vars, file, position>>

\* Mutant: the first line of the file is passed over.
ReplayInitAtOne == Init /\ file \in Files /\ position = 1

ReplayInit ==
    /\ Init
    /\ file \in Files
    /\ position = 0

\* for event in events { sender.send(event).await }
ReplaySend ==
    /\ position < Len(file)
    /\ ProducerSend(file[position + 1])
    /\ position' = position + 1
    /\ UNCHANGED file

ReplayEnd ==
    /\ position = Len(file)
    /\ ProducerExit("ok")
    /\ UNCHANGED <<file, position>>

ReplayReceiver == Receiver /\ UNCHANGED <<file, position>>

ReplayStops == (StatementFails \/ Crash) /\ UNCHANGED <<file, position>>

ReplayRestart ==
    /\ Restart
    /\ position' = 0
    /\ UNCHANGED file

ReplayNext ==
    ReplaySend \/ ReplayEnd \/ ReplayReceiver \/ ReplayStops \/ ReplayRestart

ReplaySpec == ReplayInit /\ [][ReplayNext]_replayVars

\* Both tasks are polled and the database answers.
ReplayFairSpec ==
    /\ ReplaySpec
    /\ WF_replayVars(ReplayReceiver)
    /\ WF_replayVars(ReplaySend \/ ReplayEnd)

-----------------------------------------------------------------------------
\* The history of the file is what the processes read: position is inside it.
ReplayTypeOK ==
    /\ TypeOK
    /\ file \in Files
    /\ position \in 0..Len(file)

(***************************************************************************)
(* The files a replay is safe for: no two events share a slot and the slots *)
(* rise.  A file that breaks this can lose events (MCReplaySameSlot.cfg).   *)
(***************************************************************************)
OnePerSlot ==
    \A f \in Files : \A i, j \in 1..Len(f) : i < j => SlotOf[f[i].id] < SlotOf[f[j].id]

(***************************************************************************)
(* A replay that reports success has stored every event of its file, also   *)
(* when earlier attempts died between any two statements and the last one   *)
(* resumed from the cursor they left.                                       *)
(***************************************************************************)
ReplayComplete ==
    outcome = "ok" => \A i \in DOMAIN file : file[i].id \in stored

(***************************************************************************)
(* The cursor is a safe point to resume after: no event of the file at or   *)
(* below it is still to be stored.                                          *)
(***************************************************************************)
CursorCoversFile ==
    cursor # None =>
        \A i \in DOMAIN file : SlotOf[file[i].id] <= cursor => file[i].id \in stored

(***************************************************************************)
(* Every replay process comes to an end: the reader, the bounded channel    *)
(* and the batch writer never wait on each other for ever.                  *)
(***************************************************************************)
ReplayResolves == (pc = "receive") ~> ~Alive
=============================================================================
