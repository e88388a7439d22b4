-------------------------- MODULE AppLifecycleProofs --------------------------
(***************************************************************************)
(* Proofs about AppLifecycle, for every environment, command line, file,    *)
(* cursor and bound: an accepted configuration holds together, the counters *)
(* stay within their bounds, at most one statement takes effect after the   *)
(* shutdown, and the exit code tells the truth.                             *)
(***************************************************************************)
EXTENDS AppLifecycle, FiniteSetTheorems, TLAPS

-----------------------------------------------------------------------------
(***************************************************************************)
(* Configuration.                                                           *)
(***************************************************************************)
LEMMA FlagsAreSettings == Flags \subseteq Settings
  BY DEF Flags, Settings, Kind

LEMMA PositiveDefaults ==
    \A s \in Settings : Kind[s] = "positive" => Default[s] \in 1..MaxUsize
  BY ConfigurationAssumption DEF Default, Settings, Kind

\* A setting has the value of the flag, of the environment, or its default.
LEMMA WhereFrom ==
    ASSUME NEW env, NEW flags, NEW s \in Settings,
           GivenFor(Settings, env), GivenFor(Flags, flags), ConfigAccepted(env, flags)
    PROVE  \/ ConfigOf(env, flags)[s] = Default[s]
           \/ \E raw \in Seq(STRING) \ {<<>>} :
                Accepts(Kind[s], raw) /\ ConfigOf(env, flags)[s] = Parsed(Kind[s], raw)
<1>1. CASE s \in DOMAIN flags
  <2>1. ConfigOf(env, flags)[s] = Parsed(Kind[s], flags[s])
    BY <1>1 DEF ConfigOf, Override
  <2>2. Accepts(Kind[s], flags[s])
    BY <1>1 DEF ConfigAccepted, AllAccepted
  <2> QED BY <1>1, <2>1, <2>2 DEF GivenFor
<1>2. CASE s \notin DOMAIN flags /\ s \in DOMAIN env
  <2>1. ConfigOf(env, flags)[s] = Parsed(Kind[s], env[s])
    BY <1>2 DEF ConfigOf, Override
  <2>2. Accepts(Kind[s], env[s])
    BY <1>2 DEF ConfigAccepted, AllAccepted
  <2> QED BY <1>2, <2>1, <2>2 DEF GivenFor
<1>3. CASE s \notin DOMAIN flags /\ s \notin DOMAIN env
  BY <1>3 DEF ConfigOf, Override
<1> QED BY <1>1, <1>2, <1>3

LEMMA PositiveSettings ==
    ASSUME NEW env, NEW flags, NEW s \in Settings, Kind[s] = "positive",
           GivenFor(Settings, env), GivenFor(Flags, flags), ConfigAccepted(env, flags)
    PROVE  ConfigOf(env, flags)[s] \in 1..MaxUsize
<1>1. ASSUME NEW raw \in Seq(STRING) \ {<<>>}, Accepts("positive", raw)
      PROVE  Parsed("positive", raw) \in 1..MaxUsize
  BY <1>1, ConfigurationAssumption DEF Accepts, Parsed, IsNumber
<1> QED BY <1>1, WhereFrom, PositiveDefaults

LEMMA ModeSetting ==
    ASSUME NEW env, NEW flags,
           GivenFor(Settings, env), GivenFor(Flags, flags), ConfigAccepted(env, flags)
    PROVE  ConfigOf(env, flags)["RUN_MODE"] \in Modes
<1>1. "RUN_MODE" \in Settings /\ Kind["RUN_MODE"] = "mode"
  BY DEF Settings, Kind
<1>2. Default["RUN_MODE"] \in Modes
  BY DEF Default, Modes
<1>3. ASSUME NEW raw, Accepts("mode", raw) PROVE Parsed("mode", raw) \in Modes
  BY <1>3 DEF Accepts, Parsed
<1> QED BY <1>1, <1>2, <1>3, WhereFrom

LEMMA TextSettings ==
    ASSUME NEW env, NEW flags, NEW s \in {"CLUSTER", "STREAM_NAME"},
           GivenFor(Settings, env), GivenFor(Flags, flags), ConfigAccepted(env, flags)
    PROVE  ~Blank(ConfigOf(env, flags)[s])
<1>1. s \in Settings /\ Kind[s] = "text"
  BY DEF Settings, Kind
<1>2. ~Blank(Default[s])
  <2>1. Default["CLUSTER"] = <<"mainnet-beta">> /\ Default["STREAM_NAME"] = <<"replay">>
    BY DEF Default
  <2>2. <<"mainnet-beta">>[1] # <<"">>[1] /\ <<"replay">>[1] # <<"">>[1]
    OBVIOUS
  <2> QED BY <2>1, <2>2 DEF Blank
<1>3. ASSUME NEW raw, Accepts("text", raw) PROVE ~Blank(Parsed("text", raw))
  BY <1>3 DEF Accepts, Parsed
<1> QED BY <1>1, <1>2, <1>3, WhereFrom

LEMMA FilterSetting ==
    ASSUME NEW env, NEW flags,
           GivenFor(Settings, env), GivenFor(Flags, flags), ConfigAccepted(env, flags)
    PROVE  ConfigOf(env, flags)["SUBSCRIPTIONS"] # {}
<1>1. "SUBSCRIPTIONS" \in Settings /\ Kind["SUBSCRIPTIONS"] = "filters"
  BY DEF Settings, Kind
<1>2. Default["SUBSCRIPTIONS"] # {}
  BY DEF Default
<1>3. ASSUME NEW raw \in Seq(STRING) \ {<<>>} PROVE Parsed("filters", raw) # {}
  <2>1. 1 \in DOMAIN raw
    BY <1>3
  <2> QED BY <2>1 DEF Parsed, Items
<1> QED BY <1>1, <1>2, <1>3, WhereFrom

LEMMA EndpointSetting ==
    ASSUME NEW env, NEW flags,
           GivenFor(Settings, env), GivenFor(Flags, flags), ConfigAccepted(env, flags)
    PROVE  \A endpoint \in ConfigOf(env, flags)["ENDPOINT"] : ~Blank(endpoint)
<1>1. "ENDPOINT" \in Settings /\ Kind["ENDPOINT"] = "optional"
  BY DEF Settings, Kind
<1>2. Default["ENDPOINT"] = {}
  BY DEF Default
<1>3. ASSUME NEW raw, Accepts("optional", raw)
      PROVE  \A endpoint \in Parsed("optional", raw) : ~Blank(endpoint)
  BY <1>3 DEF Accepts, Parsed
<1> QED BY <1>1, <1>2, <1>3, WhereFrom

LEMMA AccountSettings ==
    ASSUME NEW env, NEW flags, NEW s \in {"INCLUDE", "EXCLUDE", "REQUIRED"},
           GivenFor(Settings, env), GivenFor(Flags, flags), ConfigAccepted(env, flags)
    PROVE  "" \notin ConfigOf(env, flags)[s]
<1>1. s \in Settings /\ Kind[s] = "accounts"
  BY DEF Settings, Kind
<1>2. Default[s] = {}
  <2>1. CASE s = "INCLUDE"
    BY <2>1 DEF Default
  <2>2. CASE s = "EXCLUDE"
    BY <2>2 DEF Default
  <2>3. CASE s = "REQUIRED"
    BY <2>3 DEF Default
  <2> QED BY <2>1, <2>2, <2>3
<1>3. ASSUME NEW raw PROVE "" \notin Parsed("accounts", raw)
  BY DEF Parsed
<1>4. \/ ConfigOf(env, flags)[s] = Default[s]
      \/ \E raw : ConfigOf(env, flags)[s] = Parsed("accounts", raw)
  BY <1>1, WhereFrom
<1> QED BY <1>2, <1>3, <1>4

LEMMA RetrySetting ==
    ASSUME NEW env, NEW flags,
           GivenFor(Settings, env), GivenFor(Flags, flags), ConfigAccepted(env, flags)
    PROVE  \/ ConfigOf(env, flags)["MAX_ATTEMPTS"] = Forever
           \/ ConfigOf(env, flags)["MAX_ATTEMPTS"] > 0
<1>1. "MAX_ATTEMPTS" \in Settings /\ Kind["MAX_ATTEMPTS"] = "retries"
  BY DEF Settings, Kind
<1>2. Default["MAX_ATTEMPTS"] = Forever
  BY DEF Default
<1>3. ASSUME NEW raw \in Seq(STRING) \ {<<>>}, Accepts("retries", raw)
      PROVE  Parsed("retries", raw) = Forever \/ Parsed("retries", raw) > 0
  BY <1>3, ConfigurationAssumption DEF Accepts, Parsed, IsNumber
<1> QED BY <1>1, <1>2, <1>3, WhereFrom

\* What every configuration that is accepted fulfils, wherever it came from.
LEMMA AcceptedIsConsistent ==
    ASSUME NEW env, NEW flags,
           GivenFor(Settings, env), GivenFor(Flags, flags), ConfigAccepted(env, flags)
    PROVE  Consistent(ConfigOf(env, flags))
<1> DEFINE config == ConfigOf(env, flags)
<1>1. /\ config["BATCH_SIZE"] \in 1..MaxUsize /\ config["CHANNEL_CAPACITY"] \in 1..MaxUsize
      /\ config["INITIAL_DELAY"] \in 1..MaxUsize
  BY PositiveSettings DEF Settings, Kind
<1>2. config["INITIAL_DELAY"] <= config["MAX_DELAY"]
  <2>1. config["MAX_DELAY"] \in 1..MaxUsize
    BY PositiveSettings DEF Settings, Kind
  <2> QED BY <1>1, <2>1, ConfigurationAssumption DEF ConfigAccepted, DelaysInOrder
<1>3. ValidRequest(config)
  BY TextSettings, FilterSetting, EndpointSetting DEF ValidRequest
<1>4. SubscribeRequest(config).filters # {}
  BY FilterSetting DEF SubscribeRequest
<1>5. LET request == SubscribeRequest(config)
      IN  "" \notin request.include \cup request.exclude \cup request.required
  <2>1. "" \notin config.INCLUDE /\ "" \notin config.EXCLUDE /\ "" \notin config.REQUIRED
    BY AccountSettings
  <2> QED BY <2>1 DEF SubscribeRequest
<1>6. config.RUN_MODE = <<"yellowstone">> => config.ENDPOINT # {}
  BY DEF ConfigAccepted, RequirementsMet
<1>7. config.MAX_ATTEMPTS = Forever \/ config.MAX_ATTEMPTS > 0
  BY RetrySetting
<1> HIDE DEF config
<1>8. config.BATCH_SIZE > 0 /\ config.CHANNEL_CAPACITY > 0 /\ 0 < config.INITIAL_DELAY
  BY <1>1, ConfigurationAssumption
<1>9. Consistent(config)
  BY <1>2, <1>3, <1>4, <1>5, <1>6, <1>7, <1>8 DEF Consistent
<1> QED
  BY <1>9 DEF config

-----------------------------------------------------------------------------
\* What a process is started with does not change until it is read.
LaunchInv ==
    phase = "load" =>
        \E start \in Starts : launch.env = start.env /\ launch.flags = start.flags

LEMMA LaunchKept ==
    LaunchInv /\ [LifeNext]_lifeVars => LaunchInv'
<1> SUFFICES ASSUME LaunchInv, [LifeNext]_lifeVars, phase' = "load"
             PROVE  phase = "load" /\ launch' = launch
  BY DEF LaunchInv
<1>1. CASE LoadConfig
  BY <1>1 DEF LoadConfig, Leave, GoOn
<1>2. CASE ReadFile \/ StartPipeline \/ TelemetryFails \/ StartFails
  BY <1>2 DEF ReadFile, StartPipeline, TelemetryFails, StartFails, Leave, GoOn
<1>3. CASE Main \/ Interrupt \/ Killed
  BY <1>3 DEF Main, ReplayDone, SelectShutdown, SelectPipeline, ServerReturns,
              Interrupt, Killed, Leave, GoOn, mainVars
<1>4. CASE Source \/ Batch \/ StatementCommits \/ PipelineFails
  BY <1>4 DEF Source, ProducerSends, ProducerEnds, Batch, PipelineReceives, SendStatement,
              StatementAnswered, PipelineResolves, StatementCommits, PipelineFails, mainVars
<1>5. CASE Http \/ Accept \/ Answer
  BY <1>5 DEF Http, Bind, StopListening, Drained, Accept, Answer, mainVars
<1>6. CASE UNCHANGED lifeVars
  BY <1>6 DEF lifeVars, mainVars
<1> QED
  BY <1>1, <1>2, <1>3, <1>4, <1>5, <1>6 DEF LifeNext, Start

(***************************************************************************)
(* Whatever the environment and the command line, a configuration that main *)
(* accepts holds together: what one setting means for another is checked    *)
(* wherever the two come from.                                              *)
(***************************************************************************)
THEOREM ConfigurationConsistent == LifeSpec => []AcceptedConfigConsistent
<1>1. LifeInit => LaunchInv
  BY DEF LifeInit, LaunchInv
<1>2. LaunchInv => AcceptedConfigConsistent
  BY AcceptedIsConsistent, LifecycleAssumption DEF LaunchInv, AcceptedConfigConsistent
<1> QED
  BY <1>1, <1>2, LaunchKept, PTL DEF LifeSpec

-----------------------------------------------------------------------------
(***************************************************************************)
(* The shutdown.                                                            *)
(***************************************************************************)
\* Once main has stopped polling the pipeline nobody sends a statement, and
\* the one that may be on its way is the only one that can still count.
ShutdownInv ==
    /\ late \in Nat
    /\ IF phase \in {"drain", "exit"}
         THEN /\ pipeline # "polled"
              /\ late + (IF statement = "sent" THEN 1 ELSE 0) <= 1
         ELSE late = 0

\* The server and the requests have no part in it.
LEMMA HttpKeepsShutdownInv ==
    ShutdownInv /\ (Http \/ Accept \/ Answer) => ShutdownInv'
  BY DEF ShutdownInv, Http, Bind, StopListening, Drained, Accept, Answer, mainVars,
         batchVars, ServerPolled

\* Neither has the producer.
LEMMA SourceKeepsShutdownInv ==
    ShutdownInv /\ Source => ShutdownInv'
  BY DEF ShutdownInv, Source, ProducerSends, ProducerEnds, mainVars, batchVars

\* The pipeline only moves while main polls it; the database commits late.
LEMMA BatchKeepsShutdownInv ==
    ShutdownInv /\ (Batch \/ StatementCommits \/ PipelineFails) => ShutdownInv'
<1> SUFFICES ASSUME ShutdownInv, Batch \/ StatementCommits \/ PipelineFails
             PROVE  ShutdownInv'
  OBVIOUS
<1>1. CASE PipelineReceives \/ SendStatement \/ StatementAnswered
  BY <1>1 DEF PipelineReceives, SendStatement, StatementAnswered, ShutdownInv, mainVars
<1>2. CASE PipelineResolves \/ PipelineFails
  BY <1>2 DEF PipelineResolves, PipelineFails, ProducerGone, ShutdownInv, mainVars, batchVars
<1>3. CASE StatementCommits
  BY <1>3 DEF StatementCommits, ShutdownInv, mainVars
<1> QED
  BY <1>1, <1>2, <1>3 DEF Batch

\* Main leaves the pipeline where it is, or drops it with everything else.
LEMMA MainKeepsShutdownInv ==
    ASSUME ShutdownInv,
           Start \/ TelemetryFails \/ StartFails \/ Main \/ Interrupt \/ Killed
    PROVE  ShutdownInv'
<1>1. ASSUME NEW code, Leave(code), UNCHANGED <<statement, late>> PROVE ShutdownInv'
  BY <1>1 DEF Leave, Pollable, ShutdownInv
<1>2. CASE LoadConfig
  BY <1>1, <1>2 DEF LoadConfig, GoOn, ShutdownInv, batchVars
<1>3. CASE ReadFile \/ StartPipeline
  BY <1>1, <1>3 DEF ReadFile, StartPipeline, GoOn, ShutdownInv, batchVars
<1>4. CASE TelemetryFails \/ StartFails \/ Killed
  BY <1>1, <1>4 DEF TelemetryFails, StartFails, Killed, batchVars
<1>5. CASE ReplayDone
  BY <1>1, <1>5 DEF ReplayDone, ShutdownInv, batchVars
<1>6. CASE SelectShutdown \/ Interrupt
  BY <1>6 DEF SelectShutdown, Interrupt, ShutdownInv, mainVars, batchVars
<1>7. CASE SelectPipeline
  BY <1>1, <1>7 DEF SelectPipeline, GoOn, ShutdownInv, batchVars
<1>8. CASE ServerReturns
  BY <1>1, <1>8 DEF ServerReturns, batchVars
<1> QED
  BY <1>2, <1>3, <1>4, <1>5, <1>6, <1>7, <1>8 DEF Start, Main

(***************************************************************************)
(* However long the server drains and whatever the producer still sends, at *)
(* most one statement takes effect once the shutdown has begun.             *)
(***************************************************************************)
THEOREM ShutdownStopsWriting == LifeSpec => []OneStatementAfterShutdown
<1>1. LifeInit => ShutdownInv
  BY DEF LifeInit, ShutdownInv
<1>2. ShutdownInv /\ [LifeNext]_lifeVars => ShutdownInv'
  <2>1. ShutdownInv /\ UNCHANGED lifeVars => ShutdownInv'
    BY DEF ShutdownInv, lifeVars, mainVars, batchVars
  <2> QED
    BY <2>1, HttpKeepsShutdownInv, SourceKeepsShutdownInv, BatchKeepsShutdownInv,
       MainKeepsShutdownInv DEF LifeNext
<1>3. ShutdownInv => OneStatementAfterShutdown
  BY DEF ShutdownInv, OneStatementAfterShutdown
<1> QED
  BY <1>1, <1>2, <1>3, PTL DEF LifeSpec

-----------------------------------------------------------------------------
(***************************************************************************)
(* The exit code.                                                           *)
(***************************************************************************)
\* Before the pipeline is started there is nothing to lose.
BeforeStart ==
    phase \in {"load", "read", "connect"} =>
        /\ pipeline = "none" /\ producer = "none" /\ server = "none"
        /\ ~interrupt

\* How many of the events the pipeline has received are to be stored.
Taken == Cardinality(Due(sent - channel))

\* Every event is in the channel, was skipped, is in the batch that is not
\* committed, or is stored.
EventsInv ==
    /\ "file" \in DOMAIN launch /\ Len(launch.file) \in Nat
    /\ Taken = (IF statement = "committed" THEN 0 ELSE pending) + stored
    /\ statement # "none" => pending > 0
    /\ producer = "none" => sent = 0
    /\ producer = "ok" => ~LiveMode /\ sent = Supply
    /\ pipeline = "ok" => producer = "ok" /\ channel = 0 /\ pending = 0

\* At most all of them.
LEMMA TakenBound ==
    ASSUME sent \in Nat, channel \in 0..sent
    PROVE  Taken \in 0..(sent - channel)
<1> DEFINE n == sent - channel
<1>1. n \in Nat
  OBVIOUS
<1>2. IsFiniteSet(1..n) /\ Cardinality(1..n) = n
  <2>1. IsFiniteSet(1..n) /\ Cardinality(1..n) = IF 1 > n THEN 0 ELSE n - 1 + 1
    BY <1>1, FS_Interval
  <2> QED BY <1>1, <2>1
<1>3. Due(n) \in SUBSET (1..n)
  BY DEF Due
<1>4. IsFiniteSet(Due(n)) /\ Cardinality(Due(n)) <= Cardinality(1..n)
  BY <1>2, <1>3, FS_Subset
<1>5. Cardinality(Due(n)) \in Nat
  BY <1>4, FS_CardinalityType
<1> QED
  <2> HIDE DEF n
  <2>1. Cardinality(Due(n)) \in 0..n
    BY <1>1, <1>2, <1>4, <1>5
  <2> QED BY <2>1 DEF n, Taken

\* What is received is not affected by what is sent or written meanwhile.
LEMMA TakenKept ==
    ASSUME launch'.file = launch.file, settings' = settings, resume' = resume,
           sent' - channel' = sent - channel
    PROVE  Taken' = Taken
  BY DEF Taken, Due, Covered, LiveMode

\* Nothing is, where nothing was sent.
LEMMA TakenNone ==
    sent' = 0 /\ channel' = 0 => Taken' = 0
<1> SUFFICES ASSUME sent' = 0, channel' = 0 PROVE Taken' = 0
  OBVIOUS
<1>1. 1..(sent' - channel') = {}
  OBVIOUS
<1>2. Due(sent - channel)' = {}
  BY <1>1 DEF Due
<1> QED
  BY <1>2, FS_EmptySet DEF Taken

\* One event more, unless the cursor covers it.
LEMMA TakenMore ==
    ASSUME sent \in Nat, channel \in 0..sent, channel > 0, PipelineReceives
    PROVE  Taken' = IF Covered(sent - channel + 1) THEN Taken ELSE Taken + 1
<1> DEFINE n == sent - channel
<1>1. n \in Nat /\ sent' - channel' = n + 1
  BY DEF PipelineReceives, producerVars
<1>2. Due(sent - channel)' = Due(n + 1)
  BY <1>1 DEF PipelineReceives, Due, Covered, LiveMode, mainVars
<1>3. IsFiniteSet(Due(n)) /\ Cardinality(Due(n)) \in Nat
  <2>1. IsFiniteSet(1..n)
    BY <1>1, FS_Interval
  <2>2. Due(n) \in SUBSET (1..n)
    BY DEF Due
  <2>3. IsFiniteSet(Due(n))
    BY <2>1, <2>2, FS_Subset
  <2> QED
    BY <2>3, FS_CardinalityType
<1> HIDE DEF n
<1>4. Due(n + 1) = IF Covered(n + 1) THEN Due(n) ELSE Due(n) \cup {n + 1}
  <2>1. 1..(n + 1) = (1..n) \cup {n + 1} /\ n + 1 \notin 1..n
    BY <1>1
  <2> QED
    BY <2>1, Zenon DEF Due
<1>5. Cardinality(Due(n) \cup {n + 1}) = Cardinality(Due(n)) + 1
  <2>1. n + 1 \notin Due(n)
    BY <1>1 DEF Due
  <2> QED
    BY <1>3, <2>1, FS_AddElement
<1>6. Cardinality(Due(n + 1)) =
        IF Covered(n + 1) THEN Cardinality(Due(n)) ELSE Cardinality(Due(n)) + 1
  BY <1>4, <1>5
<1> QED
  BY <1>2, <1>6 DEF Taken, n

\* Who is asked to stop, and what is open meanwhile.
ServerInv ==
    /\ stop => interrupt
    /\ server \in {"draining", "stopped"} /\ phase # "exit" => interrupt
    /\ server \notin {"serving", "draining"} => open = 0
    /\ phase # "exit" => cut = 0

\* Which mode waits for what, and what the end of the wait means.
PhaseInv ==
    /\ phase \in {"select", "drain"} => LiveMode
    /\ phase \in {"read", "replay", "serve"} => ~LiveMode
    /\ phase = "replay" => server = "none"
    /\ phase = "serve" => pipeline = "ok"
    /\ phase = "drain" => interrupt
    /\ phase # "exit" => exitCode = -1
    /\ phase = "exit" =>
         pipeline # "polled" /\ producer # "running" /\ server \in {"none", "stopped"}

\* What each code stands for.
CodeInv ==
    /\ exitCode = 0 => cut = 0
    /\ exitCode = 0 /\ LiveMode => interrupt
    /\ exitCode \in {0, 6} /\ ~LiveMode => pipeline = "ok"
    /\ exitCode \in {2, 3, 4, 7, 8, 101} => producer = "none"
    /\ exitCode = 101 => ~Allocates

LifeInv ==
    LifeTypeOK /\ BeforeStart /\ EventsInv /\ ServerInv /\ PhaseInv /\ CodeInv

\* Everything but the phase and the exit code is dropped or stays.
LEMMA LeaveKeepsLifeInv ==
    ASSUME LifeInv, phase # "exit", NEW code \in {0, 2, 3, 4, 5, 6, 7, 8, 101, 130},
           Leave(code),
           settings'.mode \in {"replay", "yellowstone"},
           settings'.batch \in 1..MaxUsize, settings'.capacity \in 1..MaxUsize,
           settings' = settings \/ (producer = "none" /\ sent = 0),
           launch'.file = launch.file, DOMAIN launch' = DOMAIN launch,
           UNCHANGED <<interrupt, stop, sent, channel, batchVars>>,
           code = 0 => open = 0,
           code = 0 /\ LiveMode' => interrupt,
           code \in {0, 6} /\ ~LiveMode' => pipeline = "ok",
           code \in {2, 3, 4, 7, 8, 101} => producer = "none",
           code = 101 => ~Allocates'
    PROVE  LifeInv'
<1>1. LifeTypeOK'
  <2>1. Supply' \in Nat /\ (settings' = settings => Supply' = Supply)
    BY LifecycleAssumption DEF LifeInv, EventsInv, Supply, LiveMode
  <2>2. /\ sent \in 0..Supply' /\ channel <= settings'.capacity /\ pending <= settings'.batch
    BY <2>1 DEF LifeInv, LifeTypeOK
  <2>3. cut' \in 0..MaxOpen
    BY DEF LifeInv, LifeTypeOK, ServerInv, Leave
  <2>4. /\ settings'.mode \in {"replay", "yellowstone"}
        /\ settings'.batch \in 1..MaxUsize /\ settings'.capacity \in 1..MaxUsize
    OBVIOUS
  <2>5. open' \in 0..MaxOpen
    BY LifecycleAssumption DEF Leave
  <2>6. phase' = "exit" /\ exitCode' \in {-1, 0, 2, 3, 4, 5, 6, 7, 8, 101, 130}
    BY DEF Leave
  <2>7. /\ server' \in {"none", "stopped"}
        /\ pipeline' \in {"none", "polled", "suspended", "ok", "error", "dropped"}
        /\ producer' \in {"none", "running", "ok", "error", "aborted"}
    BY DEF LifeInv, LifeTypeOK, Leave
  <2> QED
    BY <2>2, <2>3, <2>4, <2>5, <2>6, <2>7 DEF LifeInv, LifeTypeOK, batchVars
<1>2. BeforeStart'
  BY DEF LifeInv, BeforeStart, Leave
<1>3. EventsInv'
  <2>1. Taken' = Taken
    <3>1. CASE settings' = settings
      BY <3>1, TakenKept DEF batchVars
    <3>2. CASE sent = 0
      <4>1. channel = 0 /\ pending = 0 /\ stored = 0
        BY <3>2 DEF LifeInv, LifeTypeOK
      <4> QED
        BY <3>2, <4>1, TakenNone DEF LifeInv, EventsInv
    <3> QED
      BY <3>1, <3>2
  <2> QED
    BY <2>1 DEF LifeInv, EventsInv, Leave, batchVars, Pollable, Supply, LiveMode
<1>4. ServerInv'
  BY DEF LifeInv, ServerInv, Leave
<1>5. PhaseInv'
  BY DEF LifeInv, PhaseInv, LifeTypeOK, Leave, Pollable
<1>6. CodeInv'
  BY DEF LifeInv, CodeInv, PhaseInv, ServerInv, LifeTypeOK, Leave, Pollable
<1> QED
  BY <1>1, <1>2, <1>3, <1>4, <1>5, <1>6 DEF LifeInv

LEMMA HttpKeepsLifeInv ==
    ASSUME LifeInv, Http \/ Accept \/ Answer PROVE LifeInv'
<1> USE DEF LifeInv, Http, Bind, StopListening, Drained, Accept, Answer, ServerPolled
<1>1. LifeTypeOK'
  <2>1. open' \in 0..MaxOpen /\ cut' = cut
    BY LifecycleAssumption DEF LifeTypeOK
  <2>2. server' \in {"none", "bind", "serving", "draining", "stopped", "failed"}
    BY DEF LifeTypeOK
  <2>3. UNCHANGED <<launch, mainVars, interrupt, stop, pipeline, producerVars, channel, batchVars>>
    OBVIOUS
  <2> QED
    BY <2>1, <2>2, <2>3
       DEF LifeTypeOK, Supply, LiveMode, mainVars, producerVars, batchVars
<1>2. BeforeStart' /\ EventsInv'
  <2>1. Taken' = Taken
    BY TakenKept DEF mainVars, producerVars, batchVars
  <2> QED
    BY <2>1 DEF BeforeStart, EventsInv, Supply, LiveMode, mainVars, producerVars, batchVars
<1>3. ServerInv'
  BY DEF ServerInv, PhaseInv, LifeTypeOK, mainVars
<1>4. PhaseInv' /\ CodeInv'
  BY DEF PhaseInv, CodeInv, Allocates, LiveMode, mainVars, producerVars
<1> QED
  BY <1>1, <1>2, <1>3, <1>4

LEMMA SourceKeepsLifeInv ==
    ASSUME LifeInv, Source PROVE LifeInv'
<1> USE DEF LifeInv, Source, ProducerSends, ProducerEnds
<1>1. Supply \in Nat /\ Supply' = Supply
  BY LifecycleAssumption DEF EventsInv, Supply, LiveMode, mainVars
<1>2. LifeTypeOK'
  BY <1>1 DEF LifeTypeOK, mainVars, serverVars, batchVars
<1>3. BeforeStart' /\ ServerInv'
  BY DEF BeforeStart, ServerInv, mainVars, serverVars
<1>4. EventsInv'
  <2>1. Taken' = Taken
    BY TakenKept DEF LifeTypeOK, mainVars, batchVars
  <2>2. CASE ProducerSends
    BY <1>1, <2>1, <2>2 DEF EventsInv, LifeTypeOK, LiveMode, mainVars, batchVars
  <2>3. CASE ProducerEnds
    BY <1>1, <2>1, <2>3 DEF EventsInv, LifeTypeOK, LiveMode, mainVars, batchVars
  <2> QED BY <2>2, <2>3
<1>5. PhaseInv' /\ CodeInv'
  BY DEF PhaseInv, CodeInv, Allocates, LiveMode, mainVars, serverVars
<1> QED
  BY <1>2, <1>3, <1>4, <1>5

\* The counters of the pipeline, one action at a time.
LEMMA BatchKeepsCounters ==
    ASSUME LifeInv, Batch \/ StatementCommits \/ PipelineFails
    PROVE  /\ channel' \in 0..sent /\ pending' \in 0..sent /\ stored' \in 0..sent
           /\ channel' <= settings.capacity /\ pending' <= settings.batch
           /\ late' \in Nat
           /\ Taken' = (IF statement' = "committed" THEN 0 ELSE pending') + stored'
           /\ statement' # "none" => pending' > 0
<1> DEFINE Counters(c, p, state, s, taken) ==
             /\ c \in 0..sent /\ p \in 0..sent /\ s \in 0..sent
             /\ c <= settings.capacity /\ p <= settings.batch
             /\ taken = (IF state = "committed" THEN 0 ELSE p) + s
             /\ state # "none" => p > 0
<1>1. /\ sent \in Nat /\ settings.batch \in Nat /\ settings.capacity \in Nat /\ late \in Nat
      /\ Counters(channel, pending, statement, stored, Taken)
  BY ConfigurationAssumption DEF LifeInv, LifeTypeOK, EventsInv
<1>2. Taken \in 0..(sent - channel)
  BY <1>1, TakenBound
<1>3. CASE PipelineReceives
  <2>1. Taken' = IF Covered(sent - channel + 1) THEN Taken ELSE Taken + 1
    BY <1>1, <1>3, TakenMore DEF PipelineReceives
  <2>2. pending' = IF Covered(sent - channel + 1) THEN pending ELSE pending + 1
    BY <1>3 DEF PipelineReceives
  <2>3. /\ statement = "none" /\ statement' = "none" /\ UNCHANGED <<stored, late>>
        /\ channel > 0 /\ channel' = channel - 1 /\ pending < settings.batch
    BY <1>3 DEF PipelineReceives
  <2> QED
    BY <1>1, <1>2, <2>1, <2>2, <2>3
<1>4. CASE ~PipelineReceives
  <2>1. Taken' = Taken
    BY <1>1, <1>4, TakenKept
       DEF Batch, SendStatement, StatementAnswered, PipelineResolves, StatementCommits,
           PipelineFails, mainVars, producerVars, batchVars
  <2>2. CASE SendStatement
    BY <1>1, <2>1, <2>2 DEF SendStatement, BatchDue
  <2>3. CASE StatementAnswered
    BY <1>1, <2>1, <2>3 DEF StatementAnswered
  <2>4. CASE StatementCommits
    BY <1>1, <1>2, <2>1, <2>4 DEF StatementCommits
  <2>5. CASE PipelineResolves \/ PipelineFails
    BY <1>1, <2>1, <2>5 DEF PipelineResolves, PipelineFails, batchVars
  <2> QED
    BY <1>4, <2>2, <2>3, <2>4, <2>5 DEF Batch
<1> QED
  BY <1>3, <1>4

LEMMA BatchKeepsLifeInv ==
    ASSUME LifeInv, Batch \/ StatementCommits \/ PipelineFails PROVE LifeInv'
<1> USE DEF LifeInv, Batch, PipelineReceives, SendStatement, StatementAnswered,
            PipelineResolves, StatementCommits, PipelineFails, ProducerGone
<1>1. Supply \in Nat /\ Supply' = Supply
  BY LifecycleAssumption DEF EventsInv, Supply, LiveMode, mainVars
<1>2. LifeTypeOK'
  <2>1. /\ pipeline' \in {"none", "polled", "suspended", "ok", "error", "dropped"}
        /\ producer' \in {"none", "running", "ok", "error", "aborted"}
        /\ statement' \in {"none", "sent", "committed"}
    BY DEF LifeTypeOK, producerVars, batchVars
  <2>2. UNCHANGED <<launch, mainVars, interrupt, stop, serverVars, sent, resume>>
    BY DEF producerVars, batchVars
  <2> QED
    BY <1>1, <2>1, <2>2, BatchKeepsCounters DEF LifeTypeOK, mainVars, serverVars
<1>3. BeforeStart' /\ ServerInv'
  BY DEF BeforeStart, ServerInv, mainVars, serverVars, producerVars
<1>4. EventsInv'
  <2>1. UNCHANGED <<launch, settings, sent>> /\ (producer' # producer => producer' = "aborted")
    BY DEF mainVars, producerVars
  <2>2. pipeline' = "ok" => producer' = "ok" /\ channel' = 0 /\ pending' = 0
    BY DEF EventsInv, producerVars, batchVars
  <2> QED
    BY <1>1, <2>1, <2>2, BatchKeepsCounters DEF EventsInv, LiveMode
<1>5. PhaseInv' /\ CodeInv'
  BY DEF PhaseInv, CodeInv, EventsInv, Allocates, LiveMode, mainVars, serverVars, producerVars
<1> QED
  BY <1>2, <1>3, <1>4, <1>5

\* The configuration is read, and its sizes are positive.
LEMMA LoadConfigKeepsLifeInv ==
    ASSUME LifeInv, LaunchInv, LoadConfig PROVE LifeInv'
<1> DEFINE config == ConfigOf(launch.env, launch.flags)
           accepted == ConfigAccepted(launch.env, launch.flags)
<1>1. /\ settings'.mode \in {"replay", "yellowstone"}
      /\ settings'.batch \in 1..MaxUsize /\ settings'.capacity \in 1..MaxUsize
      /\ config.RUN_MODE = <<settings'.mode>> \/ settings' = settings
  <2>1. CASE accepted
    <3>1. GivenFor(Settings, launch.env) /\ GivenFor(Flags, launch.flags)
      BY LifecycleAssumption DEF LoadConfig, LaunchInv
    <3>2. config["RUN_MODE"] \in Modes
      BY <2>1, <3>1, ModeSetting
    <3>3. config["BATCH_SIZE"] \in 1..MaxUsize /\ config["CHANNEL_CAPACITY"] \in 1..MaxUsize
      BY <2>1, <3>1, PositiveSettings DEF Settings, Kind
    <3>4. settings' = Relevant(config)
      BY <2>1 DEF LoadConfig
    <3> HIDE DEF config
    <3> QED
      BY <3>2, <3>3, <3>4 DEF Relevant, Modes
  <2>2. CASE ~accepted
    BY <2>2 DEF LoadConfig, LifeInv, LifeTypeOK
  <2> QED
    BY <2>1, <2>2
<1>2. launch'.file = launch.file /\ DOMAIN launch' = DOMAIN launch
  BY DEF LoadConfig, LifeInv, EventsInv
<1>3. /\ phase = "load" /\ producer = "none" /\ pipeline = "none" /\ server = "none"
      /\ sent = 0 /\ ~interrupt
      /\ UNCHANGED <<interrupt, stop, sent, channel, batchVars>>
  BY DEF LoadConfig, LifeInv, BeforeStart, EventsInv
<1>4. ASSUME NEW code \in {2, 7}, Leave(code) PROVE LifeInv'
  BY <1>1, <1>2, <1>3, <1>4, LeaveKeepsLifeInv
<1>5. CASE \/ GoOn("read") /\ settings'.mode = "replay"
           \/ GoOn("connect")
  <2> USE <1>1, <1>2, <1>3, <1>5 DEF LifeInv, GoOn, serverVars, batchVars
  <2>1. LifeTypeOK' /\ EventsInv'
    <3>1. Supply' \in Nat /\ channel = 0 /\ pending = 0 /\ stored = 0
      BY LifecycleAssumption DEF EventsInv, Supply, LiveMode, LifeTypeOK
    <3>2. Taken' = 0
      BY <3>1, TakenNone
    <3> QED
      BY <3>1, <3>2 DEF LifeTypeOK, EventsInv
  <2>2. BeforeStart' /\ ServerInv' /\ PhaseInv' /\ CodeInv'
    BY DEF BeforeStart, ServerInv, PhaseInv, CodeInv, LiveMode
  <2> QED
    BY <2>1, <2>2
<1> QED
  <2> HIDE DEF config
  <2>1. \/ \E code \in {2, 7} : Leave(code)
        \/ GoOn("read") /\ config.RUN_MODE = <<"replay">> /\ settings' = Relevant(config)
        \/ GoOn("connect")
    BY DEF LoadConfig, config
  <2>2. settings' = Relevant(config) /\ config.RUN_MODE = <<"replay">> => settings'.mode = "replay"
    BY DEF Relevant
  <2> QED
    BY <1>4, <1>5, <2>1, <2>2

\* The rest of the start.
LEMMA StartKeepsLifeInv ==
    ASSUME LifeInv, ReadFile \/ StartPipeline \/ TelemetryFails \/ StartFails
    PROVE  LifeInv'
<1>1. ASSUME NEW code \in {2, 3, 4, 5, 8, 101}, Leave(code), code = 101 => ~Allocates,
             phase \in {"load", "read", "connect"},
             UNCHANGED <<launch, settings, interrupt, stop, sent, channel, batchVars>>
      PROVE  LifeInv'
  <2>1. producer = "none" /\ (code = 101 => ~Allocates')
    BY <1>1 DEF LifeInv, BeforeStart, Allocates
  <2>2. /\ settings'.mode \in {"replay", "yellowstone"}
        /\ settings'.batch \in 1..MaxUsize /\ settings'.capacity \in 1..MaxUsize
    BY <1>1 DEF LifeInv, LifeTypeOK
  <2> QED
    BY <1>1, <2>1, <2>2, LeaveKeepsLifeInv
<1>2. CASE ReadFile /\ GoOn("connect")
  <2>1. Taken' = Taken
    BY <1>2, TakenKept DEF ReadFile, GoOn, batchVars
  <2> QED
    BY <1>2, <2>1 DEF ReadFile, GoOn, LifeInv, LifeTypeOK, BeforeStart, EventsInv, ServerInv,
         PhaseInv, CodeInv, Supply, LiveMode, Allocates, serverVars, batchVars
<1>3. CASE StartPipeline /\ Allocates
  <2>1. sent = 0 /\ channel = 0 /\ pending = 0 /\ stored = 0 /\ statement = "none"
    BY <1>3 DEF StartPipeline, LifeInv, LifeTypeOK, BeforeStart, EventsInv
  <2>2. Taken' = 0
    BY <1>3, <2>1, TakenNone DEF StartPipeline
  <2>3. LifeTypeOK' /\ EventsInv'
    <3>1. /\ phase' \in {"select", "replay"} /\ server' \in {"none", "bind"}
          /\ pipeline' = "polled" /\ producer' = "running" /\ resume' \in Cursors
          /\ UNCHANGED <<launch, settings, interrupt, stop, sent, channel, pending, statement,
                         stored, late, open, cut, exitCode>>
      BY <1>3, LifecycleAssumption DEF StartPipeline, Leave
    <3>2. Supply' = Supply
      BY <3>1 DEF Supply, LiveMode
    <3>3. LifeTypeOK'
      BY <3>1, <3>2 DEF LifeInv, LifeTypeOK
    <3>4. EventsInv'
      BY <2>1, <2>2, <3>1, <3>2 DEF LifeInv, EventsInv
    <3> QED
      BY <3>3, <3>4
  <2>4. BeforeStart' /\ ServerInv' /\ PhaseInv' /\ CodeInv'
    BY <1>3, <2>1 DEF StartPipeline, LifeInv, BeforeStart, ServerInv, PhaseInv, CodeInv, LiveMode,
         Allocates
  <2> QED
    BY <2>3, <2>4 DEF LifeInv
<1> QED
  BY <1>1, <1>2, <1>3 DEF ReadFile, StartPipeline, TelemetryFails, StartFails, batchVars

\* What main waits for.
LEMMA MainKeepsLifeInv ==
    ASSUME LifeInv, Main \/ Interrupt \/ Killed PROVE LifeInv'
<1>1. ASSUME NEW code \in {0, 5, 6, 130}, Leave(code), phase # "exit",
             UNCHANGED <<launch, settings, interrupt, stop, sent, channel, batchVars>>,
             code = 0 => open = 0,
             code = 0 /\ LiveMode => interrupt,
             code \in {0, 6} /\ ~LiveMode => pipeline = "ok"
      PROVE  LifeInv'
  <2>1. /\ settings'.mode \in {"replay", "yellowstone"}
        /\ settings'.batch \in 1..MaxUsize /\ settings'.capacity \in 1..MaxUsize
        /\ LiveMode' = LiveMode
    BY <1>1 DEF LifeInv, LifeTypeOK, LiveMode
  <2> QED
    BY <1>1, <2>1, LeaveKeepsLifeInv
<1>2. ASSUME ReplayDone PROVE LifeInv'
  <2>1. CASE \E code \in {0, 5} : Leave(code)
    BY <1>1, <1>2, <2>1 DEF ReplayDone, Leave, LifeInv, PhaseInv, ServerInv
  <2>2. CASE phase' = "serve"
    <3>1. Taken' = Taken
      BY <1>2, TakenKept DEF ReplayDone, batchVars
    <3> QED
      BY <1>2, <2>2, <3>1 DEF ReplayDone, Leave, LifeInv, LifeTypeOK, BeforeStart, EventsInv, ServerInv,
         PhaseInv, CodeInv, Supply, LiveMode, Allocates, batchVars
  <2> QED
    BY <1>2, <2>1, <2>2 DEF ReplayDone
<1>3. ASSUME SelectShutdown PROVE LifeInv'
  <2>1. Taken' = Taken
    BY <1>3, TakenKept DEF SelectShutdown, producerVars, batchVars
  <2> QED
    BY <1>3, <2>1 DEF SelectShutdown, LifeInv, LifeTypeOK, BeforeStart, EventsInv, ServerInv,
       PhaseInv, CodeInv, Supply, LiveMode, Allocates, serverVars, producerVars, batchVars
<1>4. ASSUME SelectPipeline PROVE LifeInv'
  <2>1. pipeline # "ok"
    BY <1>4 DEF SelectPipeline, LifeInv, PhaseInv, EventsInv
  <2> QED
    BY <1>1, <1>4, <2>1 DEF SelectPipeline
<1>5. ASSUME ServerReturns PROVE LifeInv'
  BY <1>1, <1>5 DEF ServerReturns, ServerPolled, LifeInv, PhaseInv, ServerInv, EventsInv
<1>6. ASSUME Interrupt PROVE LifeInv'
  <2>1. Taken' = Taken
    BY <1>6, TakenKept DEF Interrupt, mainVars, producerVars, batchVars
  <2> QED
    BY <1>6, <2>1 DEF Interrupt, LifeInv, LifeTypeOK, BeforeStart, EventsInv, ServerInv, PhaseInv,
       CodeInv, Supply, LiveMode, Allocates, mainVars, serverVars, producerVars, batchVars
<1>7. ASSUME Killed PROVE LifeInv'
  BY <1>1, <1>7 DEF Killed
<1> QED
  BY <1>2, <1>3, <1>4, <1>5, <1>6, <1>7 DEF Main

\* The process can be in no other state.
LEMMA LifeInvariant == LifeSpec => []LifeInv
<1>1. LifeInit => LifeInv
  <2> SUFFICES ASSUME LifeInit PROVE LifeInv
    OBVIOUS
  <2>1. "file" \in DOMAIN launch /\ Len(launch.file) \in Nat
    BY LifecycleAssumption DEF LifeInit
  <2>2. settings.mode = "replay" /\ settings.batch = 500 /\ settings.capacity = 10000
    BY DEF LifeInit, Relevant, Default
  <2>3. Supply \in Nat
    BY <2>1, LifecycleAssumption DEF Supply
  <2>4. settings.batch \in 1..MaxUsize /\ settings.capacity \in 1..MaxUsize
    BY <2>2, ConfigurationAssumption
  <2>5. LifeTypeOK
    <3>1. /\ phase = "load" /\ exitCode = -1 /\ interrupt = FALSE /\ stop = FALSE
          /\ server = "none" /\ pipeline = "none" /\ producer = "none" /\ statement = "none"
          /\ open = 0 /\ cut = 0 /\ sent = 0 /\ channel = 0 /\ pending = 0 /\ stored = 0
          /\ late = 0 /\ resume = -1
      BY DEF LifeInit
    <3>2. interrupt \in BOOLEAN /\ stop \in BOOLEAN
      BY <3>1
    <3>3. 0 \in 0..Supply /\ 0 \in 0..MaxOpen
      BY <2>3, LifecycleAssumption
    <3> QED
      BY <2>2, <2>4, <3>1, <3>2, <3>3, ConfigurationAssumption DEF LifeTypeOK
  <2>6. BeforeStart /\ EventsInv /\ ServerInv /\ PhaseInv /\ CodeInv
    <3>1. Taken = 0
      <4>1. Taken \in 0..(sent - channel)
        BY TakenBound DEF LifeInit
      <4> QED
        BY <4>1 DEF LifeInit
    <3> QED
      BY <2>1, <2>2, <3>1
         DEF LifeInit, BeforeStart, EventsInv, ServerInv, PhaseInv, CodeInv, LiveMode
  <2> QED
    BY <2>5, <2>6 DEF LifeInv
<1>2. LifeInv /\ LaunchInv /\ [LifeNext]_lifeVars => LifeInv'
  <2>1. ASSUME LifeInv, UNCHANGED lifeVars PROVE LifeInv'
    <3>1. Taken' = Taken
      BY <2>1, TakenKept DEF lifeVars, mainVars, producerVars, batchVars
    <3> QED
      BY <2>1, <3>1 DEF lifeVars, mainVars, serverVars, producerVars, batchVars, LifeInv, LifeTypeOK,
         BeforeStart, EventsInv, ServerInv, PhaseInv, CodeInv, Supply, LiveMode, Allocates
  <2> QED
    BY <2>1, LoadConfigKeepsLifeInv, StartKeepsLifeInv, MainKeepsLifeInv, SourceKeepsLifeInv,
       BatchKeepsLifeInv, HttpKeepsLifeInv DEF LifeNext, Start
<1>3. LifeInit => LaunchInv
  BY DEF LifeInit, LaunchInv
<1> QED
  BY <1>1, <1>2, <1>3, LaunchKept, PTL DEF LifeSpec

\* Every counter of a process stays within its bound.
THEOREM LifeTypeCorrect == LifeSpec => []LifeTypeOK
<1>1. LifeInv => LifeTypeOK
  BY DEF LifeInv
<1> QED
  BY <1>1, LifeInvariant, PTL

(***************************************************************************)
(* A process that exits with 0 has stored every event of the file that its  *)
(* cursor does not cover or was asked to stop, and left no request          *)
(* unanswered; a code of the start means that nothing was sent.             *)
(***************************************************************************)
THEOREM ExitCodesTell == LifeSpec => []ExitCodeTells
<1>1. LifeInv => ExitCodeTells
  <2> SUFFICES ASSUME LifeInv PROVE ExitCodeTells
    OBVIOUS
  <2>1. ASSUME pipeline = "ok" PROVE ReplayStored
    <3>1. sent = Supply /\ channel = 0 /\ pending = 0 /\ Taken = stored
      BY <2>1 DEF LifeInv, LifeTypeOK, EventsInv
    <3>2. sent - channel = Supply
      BY <3>1 DEF LifeInv, LifeTypeOK
    <3> QED
      BY <3>1, <3>2 DEF Taken, ReplayStored
  <2> QED
    BY <2>1 DEF LifeInv, CodeInv, EventsInv, ExitCodeTells
<1> QED
  BY <1>1, LifeInvariant, PTL
=============================================================================
