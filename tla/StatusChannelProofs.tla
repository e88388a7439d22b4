------------------------- MODULE StatusChannelProofs -------------------------
(***************************************************************************)
(* What /status may show, proved of the watch channel and its three         *)
(* unsynchronised callbacks for every interleaving, every number of slots,  *)
(* retries, batches and events in flight, and every reconnect setting.      *)
(***************************************************************************)
EXTENDS StatusChannel, ReconnectLoopProofs

-----------------------------------------------------------------------------
(***************************************************************************)
(* The inductive invariant.  A callback replaces the whole status by a      *)
(* clone it took earlier, so whatever is claimed of the status has to hold  *)
(* of every clone that may still be sent.                                   *)
(***************************************************************************)
NotAhead(snapshot) ==
    /\ snapshot.shown.persisted <= summary.persisted
    /\ snapshot.shown.contiguous <= frontier

DurableInv ==
    /\ NotAhead(status) /\ NotAhead(reportCopy) /\ NotAhead(callbackCopy)
    /\ summary.contiguous <= frontier

ReceiverHoldsClone == callback \in {"activity_send", "progress_send", "final_send"}

GapsInv ==
    /\ \A snapshot \in {status, reportCopy, callbackCopy} : snapshot.live.gaps <= slotless
    /\ ~gapOverlap =>
         /\ status.live.gaps = slotless
         /\ report = "send" => reportCopy.live.gaps = slotless
         /\ ReceiverHoldsClone => callbackCopy.live.gaps = slotless

\* A report is due or under way only while the loop sleeps its backoff, and the
\* receiver's last callback runs only when there will be no further report.
TasksInv ==
    /\ report # "none" => loop = "backoff"
    /\ callback \in {"final", "final_send", "done"} => ProducerEnded

CurrentInv ==
    /\ callback \in {"progress_send", "final_send"} => callbackCopy.shown = summary
    /\ callback = "activity_send" => pending
    /\ ~sumOverlap =>
         /\ callback = "idle" /\ ~pending => status.shown = summary
         /\ report = "send" => reportCopy.shown = status.shown
    /\ LastWordIsSummary

StatusInv == StatusTypeOK /\ DurableInv /\ GapsInv /\ TasksInv /\ CurrentInv

-----------------------------------------------------------------------------
(***************************************************************************)
(* The operators on a status.                                               *)
(***************************************************************************)
LEMMA RangeFacts ==
    /\ None = -1 /\ SlotOrNone \subseteq Int /\ Slots \subseteq SlotOrNone
    /\ None \in SlotOrNone /\ \A s \in SlotOrNone : s >= None
    /\ MaxU64 \in Nat /\ MaxInFlight \in Nat /\ MaxBatches \in Nat /\ MaxU32 \in Nat
    /\ 0 \in 0..MaxU64 /\ 0 \in 0..MaxBatches /\ 0 \in 0..MaxInFlight /\ 0 \in 0..MaxU32
BY SlotAssumption, StatusAssumption, ReconnectAssumption DEF None, Slots, SlotOrNone

\* saturating_add: in range, and it keeps the order of two counts.
LEMMA Saturates ==
    ASSUME NEW n \in 0..MaxU64, NEW m \in 0..MaxU64, n <= m
    PROVE  Next64(n) \in 0..MaxU64 /\ Next64(n) <= Next64(m) /\ n <= Next64(m)
<1>1. n \in Nat /\ m \in Nat /\ MaxU64 \in Nat /\ n <= MaxU64 /\ m <= MaxU64
  BY StatusAssumption
<1>2. ASSUME NEW k \in Nat
      PROVE  Next64(k) \in {k + 1, MaxU64} /\ Next64(k) <= k + 1 /\ Next64(k) <= MaxU64
  <2>1. k + 1 \in Int /\ MaxU64 \in Int
    BY <1>1
  <2> QED BY <2>1, OfTwo DEF Next64
<1>3. /\ Next64(n) \in {n + 1, MaxU64} /\ Next64(n) <= n + 1 /\ Next64(n) <= MaxU64
      /\ Next64(m) \in {m + 1, MaxU64} /\ Next64(m) <= m + 1 /\ Next64(m) <= MaxU64
  BY <1>1, <1>2
<1> QED BY <1>1, <1>3

LEMMA NoCloneFacts ==
    /\ NoClone \in Snapshots /\ NoClone.live.gaps = 0
    /\ NoClone.shown.persisted = None /\ NoClone.shown.contiguous = None
    /\ DefaultLive \in Live /\ DefaultLive.gaps = 0
BY RangeFacts DEF NoClone, Snapshots, Shown, Live, DefaultLive

LEMMA SnapshotFields ==
    ASSUME NEW x \in Snapshots
    PROVE  /\ x.shown \in Shown /\ x.live \in Live
           /\ x.shown.persisted \in SlotOrNone /\ x.shown.contiguous \in SlotOrNone
           /\ x.live.gaps \in 0..MaxU64
BY DEF Snapshots, Shown, Live

\* on_activity changes the observed slot only.
LEMMA EventObservedFacts ==
    ASSUME NEW x \in Snapshots, NEW slot \in Slots
    PROVE  /\ EventObserved(x, slot) \in Snapshots
           /\ EventObserved(x, slot).shown = x.shown
           /\ EventObserved(x, slot).live.gaps = x.live.gaps
<1> DEFINE live == [x.live EXCEPT !.observed = slot]
<1>1. x.live \in Live /\ x.shown \in Shown /\ slot \in SlotOrNone
  BY SnapshotFields, RangeFacts
<1>2. live \in Live /\ live.gaps = x.live.gaps
  BY <1>1 DEF Live
<1>3. EventObserved(x, slot) = [x EXCEPT !.live = live]
  BY DEF EventObserved
<1> HIDE DEF live
<1> QED BY <1>1, <1>2, <1>3 DEF Snapshots

\* on_reconnect keeps the summary of its clone and counts a slotless attempt.
LEMMA ReconnectingFacts ==
    ASSUME NEW x \in Snapshots, retries \in 0..MaxU32, fromSlot \in SlotOrNone
    PROVE  LET y == [x EXCEPT !.live = Reconnecting(@)]
           IN  /\ y \in Snapshots /\ y.shown = x.shown
               /\ y.live.gaps = IF fromSlot # None THEN x.live.gaps ELSE Next64(x.live.gaps)
<1> DEFINE live == Reconnecting(x.live)
           gaps == IF fromSlot # None THEN x.live.gaps ELSE Next64(x.live.gaps)
<1>1. x.live \in Live /\ x.shown \in Shown /\ x.live.gaps \in 0..MaxU64
  BY SnapshotFields
<1>2. gaps \in 0..MaxU64
  <2>1. x.live.gaps <= x.live.gaps
    BY <1>1
  <2> QED BY <1>1, <2>1, Saturates
<1>3. live = [x.live EXCEPT !.producer = "reconnecting", !.attempts = retries,
                 !.from = fromSlot,
                 !.recovery = IF fromSlot # None THEN "reconnecting" ELSE "gap_risk",
                 !.gaps = gaps]
  BY DEF Reconnecting
<1> HIDE DEF gaps
<1>4. live.gaps = gaps /\ live \in Live
  <2> HIDE DEF live
  <2> QED BY <1>1, <1>2, <1>3 DEF Live
<1> HIDE DEF live
<1>5. [x EXCEPT !.live = live] \in Snapshots /\ [x EXCEPT !.live = live].shown = x.shown
      /\ [x EXCEPT !.live = live].live = live
  BY <1>1, <1>4 DEF Snapshots
<1> QED BY <1>4, <1>5 DEF live, gaps

\* on_progress shows the summary and keeps the gap count of its clone.
LEMMA ProgressFacts ==
    ASSUME status \in Snapshots, summary \in Shown
    PROVE  /\ ProgressStatus \in Snapshots
           /\ ProgressStatus.shown = summary
           /\ ProgressStatus.live.gaps = status.live.gaps
<1>1. status.live \in Live
  BY SnapshotFields
<1>2. Running(status.live) \in Live /\ Running(status.live).gaps = status.live.gaps
  BY <1>1 DEF Running, Live
<1> QED BY <1>2 DEF ProgressStatus, Snapshots

-----------------------------------------------------------------------------
(***************************************************************************)
(* Type correctness.                                                        *)
(***************************************************************************)
LEMMA StatusTypeInit == StatusInit => StatusTypeOK
<1> SUFFICES ASSUME StatusInit PROVE StatusTypeOK
  OBVIOUS
<1>1. LoopTypeOK
  BY LoopTypeInit DEF StatusInit
<1>2. summary \in Shown /\ frontier \in SlotOrNone
  BY RangeFacts DEF StatusInit, Shown
<1>3. status \in Snapshots
  <2>1. [summary EXCEPT !.contiguous = frontier] \in Shown
    BY <1>2 DEF Shown
  <2> QED BY <2>1, NoCloneFacts DEF StatusInit, Snapshots
<1> QED BY <1>1, <1>2, <1>3, NoCloneFacts, RangeFacts DEF StatusInit, StatusTypeOK

LEMMA StatusTypeStep == StatusTypeOK /\ [StatusNext]_statusVars => StatusTypeOK'
<1> SUFFICES ASSUME StatusTypeOK, [StatusNext]_statusVars PROVE StatusTypeOK'
  OBVIOUS
<1>a. LoopTypeOK /\ retries \in 0..MaxU32 /\ fromSlot \in SlotOrNone
  BY DEF StatusTypeOK, LoopTypeOK
<1>b. ASSUME UNCHANGED loopVars PROVE LoopTypeOK'
  BY <1>a, <1>b, LoopTypeStep
<1>1. CASE StatusConfigure
  <2>1. LoopTypeOK'
    BY <1>a, <1>1, LoopTypeStep DEF StatusConfigure, LoopNext
  <2> QED BY <1>1, <2>1 DEF StatusConfigure, StatusTypeOK, reportVars, receiverVars
<1>2. CASE Deliver
  <2>1. LoopTypeOK'
    BY <1>2, <1>b DEF Deliver
  <2>2. inFlight' \in 0..MaxInFlight
    BY <1>2, StatusAssumption DEF Deliver, StatusTypeOK
  <2> QED BY <1>2, <2>1, <2>2 DEF Deliver, StatusTypeOK, reportVars
<1>3. CASE ReportBorrows
  <2>1. LoopTypeOK'
    BY <1>3, <1>b DEF ReportBorrows
  <2> QED BY <1>3, <2>1 DEF ReportBorrows, StatusTypeOK, receiverVars
<1>4. CASE ReportSends
  <2>1. LoopTypeOK'
    BY <1>4, <1>b DEF ReportSends
  <2>2. status' \in Snapshots
    BY <1>4, <1>a, ReconnectingFacts DEF ReportSends, StatusTypeOK
  <2>3. slotless' \in 0..MaxU64
    <3>1. slotless \in 0..MaxU64 /\ slotless <= slotless
      BY DEF StatusTypeOK
    <3> QED BY <1>4, <3>1, Saturates DEF ReportSends
  <2>4. gapOverlap' \in BOOLEAN
    BY <1>4 DEF ReportSends
  <2> QED BY <1>4, <2>1, <2>2, <2>3, <2>4, NoCloneFacts
      DEF ReportSends, StatusTypeOK, receiverVars
<1>5. CASE StatusClock
  <2>1. LoopTypeOK'
    BY <1>a, <1>5, LoopTypeStep DEF StatusClock, LoopNext
  <2> QED BY <1>5, <2>1 DEF StatusClock, StatusTypeOK, reportVars, receiverVars
<1>6. ASSUME NEW kind \in ConnectFailures \cup StreamFailures, StatusFails(kind)
      PROVE  StatusTypeOK'
  <2>1. LoopTypeOK'
    BY <1>a, <1>6, LoopTypeStep DEF StatusFails, LoopNext
  <2> QED BY <1>6, <2>1 DEF StatusFails, StatusTypeOK, receiverVars
<1>7. CASE ReceiveEvent
  <2>1. LoopTypeOK'
    BY <1>7, <1>b DEF ReceiveEvent
  <2>2. inFlight' \in 0..MaxInFlight
    BY <1>7, StatusAssumption DEF ReceiveEvent, StatusTypeOK
  <2>3. callbackCopy' \in Snapshots /\ callback' \in {callback, "activity_send"}
    BY <1>7, EventObservedFacts DEF ReceiveEvent, StatusTypeOK
  <2> QED BY <1>7, <2>1, <2>2, <2>3 DEF ReceiveEvent, StatusTypeOK, reportVars
<1>8. CASE BatchWritten
  <2>1. LoopTypeOK'
    BY <1>8, <1>b DEF BatchWritten
  <2>2. summary' \in Shown /\ frontier' \in SlotOrNone
    <3>1. PICK persisted \in Slots, advanced \in SlotOrNone :
            \/ /\ summary' = [persisted |-> persisted, batches |-> summary.batches + 1,
                              contiguous |-> summary.contiguous]
               /\ UNCHANGED frontier
            \/ /\ summary' = [persisted |-> persisted, batches |-> summary.batches + 1,
                              contiguous |-> advanced]
               /\ frontier' = advanced
      BY <1>8 DEF BatchWritten
    <3>2. /\ persisted \in SlotOrNone /\ summary.contiguous \in SlotOrNone
          /\ summary.batches + 1 \in 0..MaxBatches
      BY <1>8, RangeFacts DEF BatchWritten, StatusTypeOK, Shown
    <3> QED BY <3>1, <3>2 DEF Shown, StatusTypeOK
  <2>3. callback' \in {"progress", "final"} /\ pending' = FALSE
    BY <1>8 DEF BatchWritten
  <2> QED BY <1>8, <2>1, <2>2, <2>3 DEF BatchWritten, StatusTypeOK, reportVars
<1>9. CASE Finish
  <2>1. LoopTypeOK'
    BY <1>9, <1>b DEF Finish
  <2> QED BY <1>9, <2>1 DEF Finish, StatusTypeOK, reportVars
<1>10. CASE ProgressBorrows
  <2>1. LoopTypeOK'
    BY <1>10, <1>b DEF ProgressBorrows
  <2>2. callbackCopy' \in Snapshots
    BY <1>10, ProgressFacts DEF ProgressBorrows, StatusTypeOK
  <2>3. watermark' \in SlotOrNone /\ lastBatches' \in 0..MaxBatches
        /\ callback' \in {"final_send", "progress_send"}
    BY <1>10 DEF ProgressBorrows, StatusTypeOK, Shown
  <2> QED BY <1>10, <2>1, <2>2, <2>3 DEF ProgressBorrows, StatusTypeOK, reportVars
<1>11. CASE CallbackSends
  <2>1. LoopTypeOK'
    BY <1>11, <1>b DEF CallbackSends
  <2>2. callback' \in {"done", "idle"} /\ sumOverlap' \in BOOLEAN
    BY <1>11 DEF CallbackSends
  <2> QED BY <1>11, <2>1, <2>2, NoCloneFacts DEF CallbackSends, StatusTypeOK, reportVars
<1>12. CASE UNCHANGED statusVars
  <2>1. LoopTypeOK'
    BY <1>12, <1>b DEF statusVars
  <2> QED BY <1>12, <2>1 DEF statusVars, StatusTypeOK, reportVars, receiverVars
<1> QED
  BY <1>1, <1>2, <1>3, <1>4, <1>5, <1>6, <1>7, <1>8, <1>9, <1>10, <1>11, <1>12
  DEF StatusNext, StatusProducer, StatusReceiver

\* Every status sent is a status, and no counter leaves its range.
THEOREM StatusTypeCorrect == StatusSpec => []StatusTypeOK
BY StatusTypeInit, StatusTypeStep, PTL DEF StatusSpec

-----------------------------------------------------------------------------
(***************************************************************************)
(* The other parts of the invariant, each under every step.                 *)
(***************************************************************************)
LEMMA StatusInvInit == StatusInit => StatusInv
<1> SUFFICES ASSUME StatusInit PROVE StatusInv
  OBVIOUS
<1>1. StatusTypeOK
  BY StatusTypeInit
<1>2. summary \in Shown /\ summary.persisted \in SlotOrNone /\ summary.contiguous = None
      /\ frontier \in SlotOrNone /\ frontier <= summary.persisted
  BY RangeFacts, <1>1 DEF StatusInit, StatusTypeOK
<1>3. status.shown.persisted = summary.persisted /\ status.shown.contiguous = frontier
      /\ status.live.gaps = 0
  BY <1>2, NoCloneFacts DEF StatusInit, Shown
<1>4. DurableInv
  BY <1>2, <1>3, NoCloneFacts, RangeFacts DEF StatusInit, DurableInv, NotAhead
<1>5. GapsInv
  BY <1>3, NoCloneFacts DEF StatusInit, GapsInv, ReceiverHoldsClone
<1>6. TasksInv /\ CurrentInv
  BY DEF StatusInit, TasksInv, CurrentInv, LastWordIsSummary
<1> QED BY <1>1, <1>4, <1>5, <1>6 DEF StatusInv

\* What is in the database or in the summary only ever rises.
LEMMA DurableRises ==
    ASSUME StatusTypeOK, [StatusNext]_statusVars
    PROVE  /\ summary'.persisted >= summary.persisted /\ frontier' >= frontier
           /\ summary'.persisted \in Int /\ frontier' \in Int
           /\ \/ UNCHANGED <<summary, frontier>>
              \/ /\ BatchWritten
                 /\ \/ summary'.contiguous = summary.contiguous
                    \/ summary'.contiguous = frontier'
<1>1. /\ summary \in Shown /\ summary.persisted \in Int /\ frontier \in Int
  BY RangeFacts DEF StatusTypeOK, Shown
<1>2. CASE UNCHANGED <<summary, frontier>>
  BY <1>1, <1>2
<1>3. CASE BatchWritten
  <2>1. PICK persisted \in Slots, advanced \in SlotOrNone :
          /\ persisted >= summary.persisted
          /\ frontier <= advanced /\ advanced <= persisted
          /\ \/ /\ summary' = [persisted |-> persisted, batches |-> summary.batches + 1,
                               contiguous |-> summary.contiguous]
                /\ UNCHANGED frontier
             \/ /\ summary' = [persisted |-> persisted, batches |-> summary.batches + 1,
                               contiguous |-> advanced]
                /\ frontier' = advanced
    BY <1>3 DEF BatchWritten
  <2>2. persisted \in Int /\ advanced \in Int
    BY RangeFacts
  <2> QED BY <1>1, <1>3, <2>1, <2>2
<1>4. UNCHANGED <<summary, frontier>> \/ BatchWritten
  <2>1. CASE StatusConfigure BY <2>1 DEF StatusConfigure, receiverVars
  <2>2. CASE Deliver BY <2>2 DEF Deliver
  <2>3. CASE ReportBorrows BY <2>3 DEF ReportBorrows, receiverVars
  <2>4. CASE ReportSends BY <2>4 DEF ReportSends, receiverVars
  <2>5. CASE StatusClock BY <2>5 DEF StatusClock, receiverVars
  <2>6. ASSUME NEW kind \in ConnectFailures \cup StreamFailures, StatusFails(kind)
        PROVE  UNCHANGED <<summary, frontier>>
    BY <2>6 DEF StatusFails, receiverVars
  <2>7. CASE ReceiveEvent BY <2>7 DEF ReceiveEvent
  <2>8. CASE Finish BY <2>8 DEF Finish
  <2>9. CASE ProgressBorrows BY <2>9 DEF ProgressBorrows
  <2>10. CASE CallbackSends BY <2>10 DEF CallbackSends
  <2>11. CASE UNCHANGED statusVars BY <2>11 DEF statusVars, receiverVars
  <2> QED
    BY <2>1, <2>2, <2>3, <2>4, <2>5, <2>6, <2>7, <2>8, <2>9, <2>10, <2>11
    DEF StatusNext, StatusProducer, StatusReceiver
<1> QED BY <1>2, <1>3, <1>4

\* What a step makes of the status and the two clones: each is one of the three
\* with its live part changed, a fresh summary, or nothing.
LEMMA CloneOrigins ==
    ASSUME StatusTypeOK, [StatusNext]_statusVars
    PROVE  \A y \in {status', reportCopy', callbackCopy'} :
              \/ \E x \in {status, reportCopy, callbackCopy} : y.shown = x.shown
              \/ y.shown = summary /\ UNCHANGED <<summary, frontier>>
              \/ y = NoClone
<1>0. /\ status \in Snapshots /\ reportCopy \in Snapshots /\ callbackCopy \in Snapshots
      /\ summary \in Shown /\ retries \in 0..MaxU32 /\ fromSlot \in SlotOrNone
  BY DEF StatusTypeOK, LoopTypeOK
<1>1. CASE UNCHANGED <<status, reportCopy, callbackCopy>>
  BY <1>1
<1>2. CASE ReportBorrows
  BY <1>2 DEF ReportBorrows, receiverVars
<1>3. CASE ReportSends
  <2>1. status'.shown = reportCopy.shown
    BY <1>0, <1>3, ReconnectingFacts DEF ReportSends
  <2> QED BY <1>3, <2>1 DEF ReportSends, receiverVars
<1>4. CASE ReceiveEvent
  <2>1. callbackCopy' = callbackCopy \/ callbackCopy'.shown = status.shown
    BY <1>0, <1>4, EventObservedFacts DEF ReceiveEvent
  <2> QED BY <1>4, <2>1 DEF ReceiveEvent, reportVars
<1>5. CASE ProgressBorrows
  <2>1. callbackCopy'.shown = summary
    BY <1>0, <1>5, ProgressFacts DEF ProgressBorrows
  <2> QED BY <1>5, <2>1 DEF ProgressBorrows, reportVars
<1>6. CASE CallbackSends
  BY <1>6 DEF CallbackSends, reportVars
<1>7. \/ UNCHANGED <<status, reportCopy, callbackCopy>>
      \/ ReportBorrows \/ ReportSends \/ ReceiveEvent \/ ProgressBorrows \/ CallbackSends
  <2>1. CASE StatusConfigure BY <2>1 DEF StatusConfigure, reportVars, receiverVars
  <2>2. CASE Deliver BY <2>2 DEF Deliver, reportVars
  <2>3. CASE StatusClock BY <2>3 DEF StatusClock, reportVars, receiverVars
  <2>4. ASSUME NEW kind \in ConnectFailures \cup StreamFailures, StatusFails(kind)
        PROVE  UNCHANGED <<status, reportCopy, callbackCopy>>
    BY <2>4 DEF StatusFails, receiverVars
  <2>5. CASE BatchWritten BY <2>5 DEF BatchWritten, reportVars
  <2>6. CASE Finish BY <2>6 DEF Finish, reportVars
  <2>7. CASE UNCHANGED statusVars BY <2>7 DEF statusVars, reportVars, receiverVars
  <2> QED
    BY <2>1, <2>2, <2>3, <2>4, <2>5, <2>6, <2>7
    DEF StatusNext, StatusProducer, StatusReceiver
<1> QED BY <1>1, <1>2, <1>3, <1>4, <1>5, <1>6, <1>7

LEMMA DurableStep ==
    ASSUME StatusTypeOK, StatusTypeOK', DurableInv, [StatusNext]_statusVars
    PROVE  DurableInv'
<1>1. /\ summary'.persisted >= summary.persisted /\ frontier' >= frontier
      /\ summary'.persisted \in Int /\ frontier' \in Int
      /\ summary.persisted \in Int /\ frontier \in Int /\ summary.contiguous \in Int
  BY DurableRises, RangeFacts DEF StatusTypeOK, Shown
<1>2. summary'.contiguous <= frontier'
  BY <1>1, DurableRises DEF DurableInv
<1>3. ASSUME NEW y \in {status', reportCopy', callbackCopy'}
      PROVE  y.shown.persisted <= summary'.persisted /\ y.shown.contiguous <= frontier'
  <2>1. \A x \in {status, reportCopy, callbackCopy} :
          /\ x.shown.persisted \in Int /\ x.shown.contiguous \in Int
          /\ x.shown.persisted <= summary.persisted /\ x.shown.contiguous <= frontier
    BY SnapshotFields, RangeFacts DEF StatusTypeOK, DurableInv, NotAhead
  <2>2. CASE \E x \in {status, reportCopy, callbackCopy} : y.shown = x.shown
    BY <1>1, <2>1, <2>2
  <2>3. CASE y.shown = summary /\ UNCHANGED <<summary, frontier>>
    BY <1>1, <2>3 DEF DurableInv
  <2>4. CASE y = NoClone
    <3>1. summary'.persisted \in SlotOrNone /\ frontier' \in SlotOrNone
      BY DEF StatusTypeOK, Shown
    <3> QED BY <2>4, <3>1, NoCloneFacts, RangeFacts
  <2> QED BY <2>2, <2>3, <2>4, CloneOrigins
<1> QED BY <1>2, <1>3 DEF DurableInv, NotAhead

LEMMA GapsStep ==
    ASSUME StatusTypeOK, GapsInv, [StatusNext]_statusVars
    PROVE  GapsInv'
<1>0. /\ status \in Snapshots /\ reportCopy \in Snapshots /\ callbackCopy \in Snapshots
      /\ summary \in Shown /\ retries \in 0..MaxU32 /\ fromSlot \in SlotOrNone
      /\ slotless \in 0..MaxU64
      /\ status.live.gaps \in 0..MaxU64 /\ reportCopy.live.gaps \in 0..MaxU64
      /\ callbackCopy.live.gaps \in 0..MaxU64
  BY SnapshotFields DEF StatusTypeOK, LoopTypeOK
<1>a. NoClone.live.gaps <= slotless
  BY <1>0, NoCloneFacts, StatusAssumption
<1> USE DEF GapsInv, ReceiverHoldsClone
<1>1. CASE StatusConfigure BY <1>1 DEF StatusConfigure, reportVars, receiverVars
<1>2. CASE Deliver BY <1>2 DEF Deliver, reportVars
<1>3. CASE ReportBorrows BY <1>3 DEF ReportBorrows, receiverVars
<1>4. CASE ReportSends
  <2> DEFINE next == IF fromSlot # None THEN reportCopy.live.gaps
                     ELSE Next64(reportCopy.live.gaps)
  <2>1. status'.live.gaps = next
    BY <1>0, <1>4, ReconnectingFacts DEF ReportSends
  <2>2. /\ slotless' = IF fromSlot = None THEN Next64(slotless) ELSE slotless
        /\ reportCopy' = NoClone /\ callbackCopy' = callbackCopy /\ callback' = callback
        /\ report' = "none"
        /\ ~gapOverlap' => ~gapOverlap /\ ~ReceiverHoldsClone
    BY <1>4 DEF ReportSends, receiverVars
  <2>3. next <= slotless' /\ slotless <= slotless' /\ slotless' \in 0..MaxU64
    <3>1. reportCopy.live.gaps <= slotless /\ slotless <= slotless
      BY <1>0
    <3> QED BY <1>0, <2>2, <3>1, Saturates
  <2>4. ~gapOverlap => next = slotless'
    BY <1>4, <2>2 DEF ReportSends
  <2> HIDE DEF next
  <2>5. \A y \in {status', reportCopy', callbackCopy'} : y.live.gaps <= slotless'
    BY <1>0, <1>a, NoCloneFacts, <2>1, <2>2, <2>3
  <2> QED BY <2>1, <2>2, <2>4, <2>5
<1>5. CASE StatusClock BY <1>5 DEF StatusClock, reportVars, receiverVars
<1>6. ASSUME NEW kind \in ConnectFailures \cup StreamFailures, StatusFails(kind)
      PROVE  GapsInv'
  <2>1. report' \in {"borrow", "none"}
    BY <1>6 DEF StatusFails
  <2> QED BY <1>6, <2>1 DEF StatusFails, receiverVars
<1>7. CASE ReceiveEvent
  <2>1. \/ callbackCopy' = callbackCopy /\ callback' = callback
        \/ callbackCopy'.live.gaps = status.live.gaps /\ callback' = "activity_send"
    BY <1>0, <1>7, EventObservedFacts DEF ReceiveEvent
  <2> QED BY <1>7, <2>1 DEF ReceiveEvent, reportVars
<1>8. CASE BatchWritten BY <1>8 DEF BatchWritten, reportVars
<1>9. CASE Finish BY <1>9 DEF Finish, reportVars
<1>10. CASE ProgressBorrows
  <2>1. callbackCopy'.live.gaps = status.live.gaps
    BY <1>0, <1>10, ProgressFacts DEF ProgressBorrows
  <2> QED BY <1>10, <2>1 DEF ProgressBorrows, reportVars
<1>11. CASE CallbackSends
  <2>1. callback' \in {"done", "idle"}
    BY <1>11 DEF CallbackSends
  <2> QED BY <1>11, <1>a, <2>1 DEF CallbackSends, reportVars
<1>12. CASE UNCHANGED statusVars BY <1>12 DEF statusVars, reportVars, receiverVars
<1> QED
  BY <1>1, <1>2, <1>3, <1>4, <1>5, <1>6, <1>7, <1>8, <1>9, <1>10, <1>11, <1>12
  DEF StatusNext, StatusProducer, StatusReceiver

LEMMA TasksStep == TasksInv /\ [StatusNext]_statusVars => TasksInv'
<1> SUFFICES ASSUME TasksInv, [StatusNext]_statusVars PROVE TasksInv'
  OBVIOUS
<1> USE DEF TasksInv, ProducerEnded
<1>1. CASE StatusConfigure
  BY <1>1 DEF StatusConfigure, Configure, reportVars, receiverVars
<1>2. CASE Deliver BY <1>2 DEF Deliver, loopVars, reportVars
<1>3. CASE ReportBorrows BY <1>3 DEF ReportBorrows, loopVars, receiverVars
<1>4. CASE ReportSends BY <1>4 DEF ReportSends, loopVars, receiverVars
<1>5. CASE StatusClock
  BY <1>5 DEF StatusClock, Opened, GracePasses, Wake, loopVars, reportVars, receiverVars
<1>6. ASSUME NEW kind \in ConnectFailures \cup StreamFailures, StatusFails(kind)
      PROVE  TasksInv'
  <2>1. loop \in {"connect", "stream"} /\ callback' = callback
    BY <1>6 DEF StatusFails, AttemptFails, receiverVars
  <2>2. report' # "none" => loop' = "backoff"
    BY <1>6 DEF StatusFails
  <2> QED BY <2>1, <2>2
<1>7. CASE ReceiveEvent BY <1>7 DEF ReceiveEvent, loopVars, reportVars
<1>8. CASE BatchWritten BY <1>8 DEF BatchWritten, Drained, loopVars, reportVars
<1>9. CASE Finish BY <1>9 DEF Finish, Drained, loopVars, reportVars
<1>10. CASE ProgressBorrows BY <1>10 DEF ProgressBorrows, loopVars, reportVars
<1>11. CASE CallbackSends BY <1>11 DEF CallbackSends, loopVars, reportVars
<1>12. CASE UNCHANGED statusVars
  BY <1>12 DEF statusVars, loopVars, reportVars, receiverVars
<1> QED
  BY <1>1, <1>2, <1>3, <1>4, <1>5, <1>6, <1>7, <1>8, <1>9, <1>10, <1>11, <1>12
  DEF StatusNext, StatusProducer, StatusReceiver

LEMMA CurrentStep ==
    ASSUME StatusTypeOK, TasksInv, CurrentInv, [StatusNext]_statusVars
    PROVE  CurrentInv'
<1>0. /\ status \in Snapshots /\ reportCopy \in Snapshots /\ summary \in Shown
      /\ retries \in 0..MaxU32 /\ fromSlot \in SlotOrNone
  BY DEF StatusTypeOK, LoopTypeOK
<1> USE DEF CurrentInv, LastWordIsSummary
<1>1. CASE StatusConfigure BY <1>1 DEF StatusConfigure, reportVars, receiverVars
<1>2. CASE Deliver BY <1>2 DEF Deliver, reportVars
<1>3. CASE ReportBorrows BY <1>3 DEF ReportBorrows, receiverVars
<1>4. CASE ReportSends
  <2>1. status'.shown = reportCopy.shown
    BY <1>0, <1>4, ReconnectingFacts DEF ReportSends
  <2>2. callback # "done"
    BY <1>4 DEF ReportSends, TasksInv, ProducerEnded
  <2> QED BY <1>4, <2>1, <2>2 DEF ReportSends, receiverVars
<1>5. CASE StatusClock BY <1>5 DEF StatusClock, reportVars, receiverVars
<1>6. ASSUME NEW kind \in ConnectFailures \cup StreamFailures, StatusFails(kind)
      PROVE  CurrentInv'
  <2>1. report' \in {"borrow", "none"}
    BY <1>6 DEF StatusFails
  <2> QED BY <1>6, <2>1 DEF StatusFails, receiverVars
<1>7. CASE ReceiveEvent BY <1>7 DEF ReceiveEvent, reportVars
<1>8. CASE BatchWritten
  <2>1. callback' \in {"progress", "final"} /\ callback = "idle"
    BY <1>8 DEF BatchWritten
  <2> QED BY <1>8, <2>1 DEF BatchWritten, reportVars
<1>9. CASE Finish BY <1>9 DEF Finish, reportVars
<1>10. CASE ProgressBorrows
  <2>1. callbackCopy'.shown = summary
    BY <1>0, <1>10, ProgressFacts DEF ProgressBorrows
  <2> QED BY <1>10, <2>1 DEF ProgressBorrows, reportVars
<1>11. CASE CallbackSends BY <1>11 DEF CallbackSends, reportVars
<1>12. CASE UNCHANGED statusVars BY <1>12 DEF statusVars, reportVars, receiverVars
<1> QED
  BY <1>1, <1>2, <1>3, <1>4, <1>5, <1>6, <1>7, <1>8, <1>9, <1>10, <1>11, <1>12
  DEF StatusNext, StatusProducer, StatusReceiver

LEMMA StatusInvStep == StatusInv /\ [StatusNext]_statusVars => StatusInv'
<1> SUFFICES ASSUME StatusInv, [StatusNext]_statusVars PROVE StatusInv'
  OBVIOUS
<1>1. StatusTypeOK'
  BY StatusTypeStep DEF StatusInv
<1>2. DurableInv'
  BY <1>1, DurableStep DEF StatusInv
<1>3. GapsInv' /\ TasksInv' /\ CurrentInv'
  BY GapsStep, TasksStep, CurrentStep DEF StatusInv
<1> QED BY <1>1, <1>2, <1>3 DEF StatusInv

LEMMA StatusInvHolds == StatusSpec => []StatusInv
BY StatusInvInit, StatusInvStep, PTL DEF StatusSpec

-----------------------------------------------------------------------------
\* Whichever clone was sent last, /status shows no cursor and no watermark the
\* database does not hold yet.
THEOREM NothingShownTooEarly == StatusSpec => []ShownIsDurable
<1>1. StatusInv => ShownIsDurable
  BY DEF StatusInv, DurableInv, NotAhead, ShownIsDurable
<1> QED BY <1>1, StatusInvHolds, PTL

\* gap_risk_count never exceeds the slotless reconnects reported, and falls
\* behind them only by a report sent while the receiver held a clone.
THEOREM GapsCountedRight == StatusSpec => []GapsCounted
<1>1. StatusInv => GapsCounted
  BY DEF StatusInv, GapsInv, GapsCounted
<1> QED BY <1>1, StatusInvHolds, PTL

\* Between two callbacks /status shows the last summary, unless on_reconnect held
\* a clone while the receiver sent.
THEOREM ShownCurrent == StatusSpec => []ShownIsCurrent
<1>1. StatusInv => ShownIsCurrent
  BY DEF StatusInv, CurrentInv, ShownIsCurrent
<1> QED BY <1>1, StatusInvHolds, PTL

\* Once the pipeline has resolved /status shows its last summary, in spite of any
\* overlap on the way.
THEOREM LastWordShown == StatusSpec => []LastWordIsSummary
<1>1. StatusInv => LastWordIsSummary
  BY DEF StatusInv, CurrentInv
<1> QED BY <1>1, StatusInvHolds, PTL
=============================================================================
