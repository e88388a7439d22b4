----------------------------- MODULE AppLifecycle -----------------------------
(***************************************************************************)
(* A process from its start to its exit (main.rs, app.rs and the serving    *)
(* part of http.rs in crates/app): the configuration is read, the replay    *)
(* file too, the database is opened, and then one task of main waits for    *)
(* the pipeline, the HTTP server and Ctrl-C, in replay mode one after the   *)
(* other, in live mode in one select!.                                      *)
(*                                                                          *)
(* The branch of the select! that wins decides what is still polled: the    *)
(* other futures stay as they are until run_yellowstone returns and drops   *)
(* them.  The producer is a task of its own and runs on until then, and a   *)
(* statement the database has received commits whether or not anybody       *)
(* waits for the answer.                                                    *)
(***************************************************************************)
EXTENDS Configuration, FiniteSets

CONSTANTS
    Starts,         \* the environments and command lines a process may be started with
    ReplayFiles,    \* sequences of lines: the slot of an event, {} for a line that is none
    Cursors,        \* the slots a stream's cursor may be at; -1 for no cursor
    MaxEvents,      \* bound: events a live producer sends
    MaxOpen         \* bound: requests in progress at a time

ASSUME LifecycleAssumption ==
    /\ \A start \in Starts : GivenFor(Settings, start.env) /\ GivenFor(Flags, start.flags)
    /\ ReplayFiles \subseteq Seq(SUBSET Nat)
    /\ \A file \in ReplayFiles : \A i \in DOMAIN file : Cardinality(file[i]) <= 1
    /\ Cursors \subseteq Nat \cup {-1}
    /\ MaxEvents \in Nat /\ MaxOpen \in Nat

VARIABLES
    launch,     \* how the process was started
    settings,   \* what the lifecycle looks at of the configuration
    phase,      \* what main is waiting for
    exitCode,   \* of the process; -1 while it runs
    interrupt,  \* Ctrl-C was pressed while somebody listened for it
    stop,       \* the watch channel that asks the server to stop
    server,     \* the HTTP server
    open,       \* requests accepted and not answered
    pipeline,   \* the pipeline future
    producer,   \* the producer task
    sent,       \* events it has sent
    channel,    \* events in the bounded channel
    resume,     \* resume_after_slot; -1 for None
    pending,    \* events in the batcher, or in the batch being written
    statement,  \* the batch statement: "none", "sent" or "committed"
    stored,     \* events this process has put into the database
    \* --- history
    cut,        \* requests that were dropped with the server
    late        \* statements that committed after main had stopped polling

mainVars     == <<settings, phase, exitCode>>
serverVars   == <<server, open, cut>>
producerVars == <<producer, sent>>
batchVars    == <<resume, pending, statement, stored, late>>
lifeVars     == <<launch, mainVars, interrupt, stop, serverVars, pipeline, producerVars,
                  channel, batchVars>>

-----------------------------------------------------------------------------
Relevant(config) ==
    [mode |-> config.RUN_MODE[1], batch |-> config.BATCH_SIZE,
     capacity |-> config.CHANNEL_CAPACITY]

LiveMode == settings.mode = "yellowstone"

\* read_jsonl_events: the first line that is no event ends it.
Readable(file) == \A i \in DOMAIN file : file[i] # {}

\* What the producer has to send.
Supply == IF LiveMode THEN MaxEvents ELSE Len(launch.file)

\* should_skip_event, of the k-th event; use_slot_resume is off in live mode.
Covered(k) == ~LiveMode /\ \E slot \in launch.file[k] : slot <= resume

\* Of the first n events those that are to be stored.
Due(n) == {k \in 1..n : ~Covered(k)}

\* The channel and the batcher are created without a panic.
Allocates == settings.capacity <= MaxPermits /\ settings.batch <= MaxElements

Pollable == {"polled", "suspended"}

\* main returns or std::process::exit is called: every future is dropped.
Leave(code) ==
    /\ phase' = "exit"
    /\ exitCode' = code
    /\ server' = IF server = "none" THEN "none" ELSE "stopped"
    /\ cut' = cut + open
    /\ open' = 0
    /\ pipeline' = IF pipeline \in Pollable THEN "dropped" ELSE pipeline
    /\ producer' = IF producer = "running" THEN "aborted" ELSE producer

\* main goes on to wait for something else.
GoOn(to) ==
    /\ phase' = to
    /\ UNCHANGED <<exitCode, serverVars, pipeline, producer>>

LifeInit ==
    /\ \E start \in Starts, file \in ReplayFiles, once, feature \in BOOLEAN :
          launch = [env |-> start.env, flags |-> start.flags, file |-> file,
                    exitAfterReplay |-> once, feature |-> feature]
    /\ settings = Relevant(Default)
    /\ phase = "load"
    /\ exitCode = -1
    /\ interrupt = FALSE /\ stop = FALSE
    /\ server = "none" /\ open = 0 /\ cut = 0
    /\ pipeline = "none"
    /\ producer = "none" /\ sent = 0
    /\ channel = 0
    /\ resume = -1
    /\ pending = 0 /\ statement = "none" /\ stored = 0 /\ late = 0

-----------------------------------------------------------------------------
(***************************************************************************)
(* The start.                                                               *)
(***************************************************************************)
\* The environment and the flags are read once; what is not needed again is
\* forgotten.
LoadConfig ==
    /\ phase = "load"
    /\ LET config == ConfigOf(launch.env, launch.flags)
       IN  \/ /\ ~ConfigAccepted(launch.env, launch.flags)
              /\ Leave(2)
              /\ UNCHANGED settings
           \/ /\ ConfigAccepted(launch.env, launch.flags)
              /\ settings' = Relevant(config)
              /\ \/ config.RUN_MODE = <<"replay">> /\ GoOn("read")
                 \/ config.RUN_MODE = <<"yellowstone">> /\ launch.feature /\ GoOn("connect")
                 \/ config.RUN_MODE = <<"yellowstone">> /\ ~launch.feature /\ Leave(7)
    /\ launch' = [launch EXCEPT !.env = <<>>, !.flags = <<>>]
    /\ UNCHANGED <<interrupt, stop, sent, channel, batchVars>>

\* RUST_LOG may be no filter, or a subscriber be installed already.
TelemetryFails ==
    /\ phase = "load"
    /\ Leave(2)
    /\ UNCHANGED <<launch, settings, interrupt, stop, sent, channel, batchVars>>

ReadFile ==
    /\ phase = "read"
    /\ \/ Readable(launch.file) /\ GoOn("connect")
       \/ ~Readable(launch.file) /\ Leave(3)
    /\ UNCHANGED <<launch, settings, interrupt, stop, sent, channel, batchVars>>

\* The file cannot be opened, the pool, the migrations, the cursor, the
\* frontier or the metrics fail.
StartFails ==
    /\ \/ phase = "read" /\ \E code \in {3, 8} : Leave(code)
       \/ phase = "connect" /\ \E code \in {4, 5} : Leave(code)
       \/ phase = "connect" /\ LiveMode /\ Leave(8)
    /\ UNCHANGED <<launch, settings, interrupt, stop, sent, channel, batchVars>>

\* The pipeline is polled for the first time, with the cursor that get_cursor
\* found; in live mode the server too.
StartPipeline ==
    /\ phase = "connect"
    /\ \/ /\ Allocates
          /\ phase' = IF LiveMode THEN "select" ELSE "replay"
          /\ server' = IF LiveMode THEN "bind" ELSE "none"
          /\ pipeline' = "polled"
          /\ producer' = "running"
          /\ resume' \in Cursors
          /\ UNCHANGED <<exitCode, open, cut>>
       \/ ~Allocates /\ Leave(101) /\ UNCHANGED resume
    /\ UNCHANGED <<launch, settings, interrupt, stop, sent, channel, pending, statement, stored,
                   late>>

-----------------------------------------------------------------------------
(***************************************************************************)
(* The producer task.                                                       *)
(***************************************************************************)
ProducerSends ==
    /\ producer = "running"
    /\ sent < Supply
    /\ channel < settings.capacity
    /\ sent' = sent + 1
    /\ channel' = channel + 1
    /\ UNCHANGED <<launch, mainVars, interrupt, stop, serverVars, pipeline, producer, batchVars>>

\* A file is read to its end; a live producer only ever returns an error.
ProducerEnds ==
    /\ producer = "running"
    /\ LiveMode \/ sent = Supply
    /\ producer' = IF LiveMode THEN "error" ELSE "ok"
    /\ UNCHANGED <<launch, mainVars, interrupt, stop, serverVars, pipeline, sent, channel, batchVars>>

-----------------------------------------------------------------------------
(***************************************************************************)
(* The pipeline future.                                                     *)
(***************************************************************************)
ProducerGone == producer \in {"ok", "error"}

\* Mutant: the batcher is filled past its size.
PipelineReceivesMore ==
    /\ pipeline = "polled"
    /\ statement = "none"
    /\ channel > 0
    /\ channel' = channel - 1
    /\ pending' = IF Covered(sent - channel + 1) THEN pending ELSE pending + 1
    /\ UNCHANGED <<launch, mainVars, interrupt, stop, serverVars, pipeline, producerVars,
                   resume, statement, stored, late>>

\* The oldest event of the channel is skipped or goes into the batcher.
PipelineReceives ==
    /\ pipeline = "polled"
    /\ statement = "none"
    /\ channel > 0
    /\ pending < settings.batch
    /\ channel' = channel - 1
    /\ pending' = IF Covered(sent - channel + 1) THEN pending ELSE pending + 1
    /\ UNCHANGED <<launch, mainVars, interrupt, stop, serverVars, pipeline, producerVars,
                   resume, statement, stored, late>>

BatchDue ==
    pending > 0 /\ (pending = settings.batch \/ (ProducerGone /\ channel = 0))

SendStatement ==
    /\ pipeline = "polled"
    /\ statement = "none"
    /\ BatchDue
    /\ statement' = "sent"
    /\ UNCHANGED <<launch, mainVars, interrupt, stop, serverVars, pipeline, producerVars,
                   channel, resume, pending, stored, late>>

\* In the database, whatever has become of the process.
StatementCommits ==
    /\ statement = "sent"
    /\ statement' = "committed"
    /\ stored' = stored + pending
    /\ late' = IF phase \in {"drain", "exit"} THEN late + 1 ELSE late
    /\ UNCHANGED <<launch, mainVars, interrupt, stop, serverVars, pipeline, producerVars,
                   channel, resume, pending>>

StatementAnswered ==
    /\ pipeline = "polled"
    /\ statement = "committed"
    /\ statement' = "none"
    /\ pending' = 0
    /\ UNCHANGED <<launch, mainVars, interrupt, stop, serverVars, pipeline, producerVars,
                   channel, resume, stored, late>>

\* The statement fails or its answer is lost; the pipeline aborts the producer.
PipelineFails ==
    /\ pipeline = "polled"
    /\ statement # "none"
    /\ pipeline' = "error"
    /\ producer' = IF producer = "running" THEN "aborted" ELSE producer
    /\ UNCHANGED <<launch, mainVars, interrupt, stop, serverVars, sent, channel, batchVars>>

\* Mutant: the rest in the batcher is not flushed.
PipelineResolvesUnflushed ==
    /\ pipeline = "polled"
    /\ ProducerGone
    /\ channel = 0 /\ statement = "none"
    /\ pipeline' = producer
    /\ UNCHANGED <<launch, mainVars, interrupt, stop, serverVars, producerVars, channel, batchVars>>

PipelineResolves ==
    /\ pipeline = "polled"
    /\ ProducerGone
    /\ channel = 0 /\ pending = 0
    /\ pipeline' = producer
    /\ UNCHANGED <<launch, mainVars, interrupt, stop, serverVars, producerVars, channel, batchVars>>

-----------------------------------------------------------------------------
(***************************************************************************)
(* The HTTP server.                                                         *)
(***************************************************************************)
ServerPolled == phase \in {"select", "drain", "serve"}

Bind ==
    /\ ServerPolled
    /\ server = "bind"
    /\ server' \in {"serving", "failed"}
    /\ UNCHANGED <<launch, mainVars, interrupt, stop, open, cut, pipeline, producerVars,
                   channel, batchVars>>

\* Mutant: a server that is asked to stop goes on accepting.
AcceptWhileDraining ==
    /\ server \in {"serving", "draining"}
    /\ open < MaxOpen
    /\ open' = open + 1
    /\ UNCHANGED <<launch, mainVars, interrupt, stop, server, cut, pipeline, producerVars,
                   channel, batchVars>>

Accept ==
    /\ server = "serving"
    /\ open < MaxOpen
    /\ open' = open + 1
    /\ UNCHANGED <<launch, mainVars, interrupt, stop, server, cut, pipeline, producerVars,
                   channel, batchVars>>

Answer ==
    /\ open > 0
    /\ open' = open - 1
    /\ UNCHANGED <<launch, mainVars, interrupt, stop, server, cut, pipeline, producerVars,
                   channel, batchVars>>

\* with_graceful_shutdown: of wait_for_shutdown, in replay mode of Ctrl-C.
StopListening ==
    /\ server = "serving"
    /\ IF LiveMode THEN stop ELSE interrupt
    /\ server' = "draining"
    /\ UNCHANGED <<launch, mainVars, interrupt, stop, open, cut, pipeline, producerVars,
                   channel, batchVars>>

Drained ==
    /\ server = "draining"
    /\ open = 0
    /\ server' = "stopped"
    /\ UNCHANGED <<launch, mainVars, interrupt, stop, open, cut, pipeline, producerVars,
                   channel, batchVars>>

-----------------------------------------------------------------------------
(***************************************************************************)
(* What main waits for.                                                     *)
(***************************************************************************)
\* run_replay: the pipeline, then the server.
ReplayDone ==
    /\ phase = "replay"
    /\ \/ pipeline = "error" /\ Leave(5)
       \/ pipeline = "ok" /\ launch.exitAfterReplay /\ Leave(0)
       \/ /\ pipeline = "ok" /\ ~launch.exitAfterReplay
          /\ phase' = "serve"
          /\ server' = "bind"
          /\ UNCHANGED <<exitCode, open, cut, pipeline, producer>>
    /\ UNCHANGED <<launch, settings, interrupt, stop, sent, channel, batchVars>>

\* Mutant: the pipeline goes on while the server drains.
SelectShutdownPolling ==
    /\ phase = "select" /\ interrupt
    /\ stop' = TRUE
    /\ phase' = "drain"
    /\ UNCHANGED <<launch, settings, exitCode, interrupt, serverVars, pipeline, producerVars,
                   channel, batchVars>>

\* The first branch: the server is told to stop, and only it is polled.
SelectShutdown ==
    /\ phase = "select" /\ interrupt
    /\ stop' = TRUE
    /\ phase' = "drain"
    /\ pipeline' = IF pipeline = "polled" THEN "suspended" ELSE pipeline
    /\ UNCHANGED <<launch, settings, exitCode, interrupt, serverVars, producerVars,
                   channel, batchVars>>

\* The third branch: an error returns at once and drops the server; a
\* summary would end as Ctrl-C does.
SelectPipeline ==
    /\ phase = "select"
    /\ \/ pipeline = "error" /\ Leave(5) /\ UNCHANGED stop
       \/ pipeline = "ok" /\ GoOn("drain") /\ stop' = TRUE
    /\ UNCHANGED <<launch, settings, interrupt, sent, channel, batchVars>>

\* The second branch, and the server awaited on its own.
ServerReturns ==
    /\ ServerPolled
    /\ \/ server = "stopped" /\ Leave(0)
       \/ server = "failed" /\ Leave(6)
    /\ UNCHANGED <<launch, settings, interrupt, stop, sent, channel, batchVars>>

\* Ctrl-C, where it is listened for.
Interrupt ==
    /\ ~interrupt
    /\ phase = "select" \/ (phase = "serve" /\ server = "serving")
    /\ interrupt' = TRUE
    /\ UNCHANGED <<launch, mainVars, stop, serverVars, pipeline, producerVars, channel, batchVars>>

\* Ctrl-C, where nothing handles it.
Killed ==
    /\ phase \in {"load", "read", "connect", "replay"} \/ (phase = "serve" /\ server = "bind")
    /\ Leave(130)
    /\ UNCHANGED <<launch, settings, interrupt, stop, sent, channel, batchVars>>

-----------------------------------------------------------------------------
Start  == LoadConfig \/ ReadFile \/ StartPipeline
Main   == ReplayDone \/ SelectShutdown \/ SelectPipeline \/ ServerReturns
Source == ProducerSends \/ ProducerEnds
Batch  == PipelineReceives \/ SendStatement \/ StatementAnswered \/ PipelineResolves
Http   == Bind \/ StopListening \/ Drained

LifeNext ==
    \/ Start \/ TelemetryFails \/ StartFails
    \/ Main \/ Interrupt \/ Killed
    \/ Source \/ Batch \/ StatementCommits \/ PipelineFails
    \/ Http \/ Accept \/ Answer

LifeSpec == LifeInit /\ [][LifeNext]_lifeVars

(***************************************************************************)
(* The tasks are polled, the database commits what it received, and a       *)
(* request is answered or its connection closed; nobody has to ask for      *)
(* anything, and a live stream need not end.                                *)
(***************************************************************************)
LifeFairSpec ==
    /\ LifeSpec
    /\ WF_lifeVars(Start) /\ WF_lifeVars(Main) /\ WF_lifeVars(Http)
    /\ WF_lifeVars(Batch) /\ WF_lifeVars(StatementCommits) /\ WF_lifeVars(Answer)
    /\ WF_lifeVars(~LiveMode /\ Source)

-----------------------------------------------------------------------------
\* Every counter stays within its bound and every state is a named one.
LifeTypeOK ==
    /\ settings.mode \in {"replay", "yellowstone"}
    /\ settings.batch \in 1..MaxUsize /\ settings.capacity \in 1..MaxUsize
    /\ phase \in {"load", "read", "connect", "replay", "select", "serve", "drain", "exit"}
    /\ exitCode \in {-1, 0, 2, 3, 4, 5, 6, 7, 8, 101, 130}
    /\ interrupt \in BOOLEAN /\ stop \in BOOLEAN
    /\ server \in {"none", "bind", "serving", "draining", "stopped", "failed"}
    /\ open \in 0..MaxOpen /\ cut \in 0..MaxOpen
    /\ pipeline \in {"none", "polled", "suspended", "ok", "error", "dropped"}
    /\ producer \in {"none", "running", "ok", "error", "aborted"}
    /\ sent \in 0..Supply
    /\ channel \in 0..sent /\ pending \in 0..sent /\ stored \in 0..sent
    /\ channel <= settings.capacity /\ pending <= settings.batch
    /\ statement \in {"none", "sent", "committed"}
    /\ late \in Nat
    /\ resume \in Cursors \cup {-1}

(***************************************************************************)
(* A configuration that is accepted holds together wherever its parts come  *)
(* from: sizes and delays are positive, the delays in order, a retry limit  *)
(* allows a retry, and in live mode there is an endpoint and a request that *)
(* asks for something and names no empty account, so that no attempt fails  *)
(* for its own request. That the sizes can be allocated it does not say:    *)
(* config.rs lets through what StartPipeline then ends with 101.            *)
(***************************************************************************)
Consistent(config) ==
    /\ config.BATCH_SIZE > 0 /\ config.CHANNEL_CAPACITY > 0
    /\ 0 < config.INITIAL_DELAY /\ config.INITIAL_DELAY <= config.MAX_DELAY
    /\ config.MAX_ATTEMPTS = Forever \/ config.MAX_ATTEMPTS > 0
    /\ config.RUN_MODE = <<"yellowstone">> =>
         /\ config.ENDPOINT # {}
         /\ ValidRequest(config)
         /\ LET request == SubscribeRequest(config)
            IN  /\ request.filters # {}
                /\ "" \notin request.include \cup request.exclude \cup request.required

AcceptedConfigConsistent ==
    phase = "load" /\ ConfigAccepted(launch.env, launch.flags) =>
        Consistent(ConfigOf(launch.env, launch.flags))

ReplayStored == stored = Cardinality(Due(Supply))

(***************************************************************************)
(* The exit code is the truth: 0 is a replay that has stored every event of *)
(* its file that the cursor it found does not cover, or a live process that *)
(* was asked to stop, and no request that was accepted went unanswered; 6   *)
(* in replay mode still means that much is stored; a code of the start      *)
(* means that nothing was sent; 101 that the sizes asked for cannot be      *)
(* allocated. Events at or below the cursor are skipped on the cursor's     *)
(* word; they may be missing, as ReplayIngest shows.                        *)
(***************************************************************************)
ExitCodeTells ==
    /\ exitCode = 0 =>
         /\ cut = 0
         /\ IF LiveMode THEN interrupt ELSE ReplayStored
    /\ exitCode = 6 /\ ~LiveMode => ReplayStored
    /\ exitCode \in {2, 3, 4, 7, 8, 101} => sent = 0
    /\ exitCode = 101 => ~Allocates

(***************************************************************************)
(* Once main has stopped polling the pipeline, at most the statement that   *)
(* was on its way takes effect: no batch begins while the server drains,    *)
(* however long that takes and whatever the producer still sends.           *)
(***************************************************************************)
OneStatementAfterShutdown == late <= 1

(***************************************************************************)
(* Ctrl-C ends the process once the requests in progress are answered, and  *)
(* a one-shot replay ends by itself, whatever else is running.              *)
(***************************************************************************)
MustEnd == interrupt \/ (~LiveMode /\ launch.exitAfterReplay /\ phase # "load")

ProcessEnds == MustEnd ~> phase = "exit"
=============================================================================
