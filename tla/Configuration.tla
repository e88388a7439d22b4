---------------------------- MODULE Configuration ----------------------------
(***************************************************************************)
(* The configuration of a process (crates/app/src/config.rs and cli.rs):    *)
(* settings are read from the environment, the command line overrides some  *)
(* of them, and the first setting that is rejected ends the start.          *)
(*                                                                          *)
(* A raw value is the sequence of its comma-separated items, so <<"">> is a *)
(* blank one.  An environment and a command line are functions from the     *)
(* settings they give to raw values.  A command-line flag goes by the name  *)
(* of the setting it overrides; YELLOWSTONE_ is left out of the names.      *)
(***************************************************************************)
EXTENDS Integers, Sequences

CONSTANTS
    Number,         \* the number an item is, for the items that are one
    MaxUsize,       \* usize::MAX and u64::MAX
    MaxU32,         \* u32::MAX
    MaxPermits,     \* the largest capacity tokio::sync::mpsc::channel accepts
    MaxElements     \* the most events a Vec can be given room for

ASSUME ConfigurationAssumption ==
    /\ DOMAIN Number \subseteq STRING
    /\ \A item \in DOMAIN Number : Number[item] \in Nat
    /\ MaxUsize \in Nat /\ MaxUsize >= 30000
    /\ MaxU32 \in Nat
    /\ MaxPermits \in 10000..MaxUsize
    /\ MaxElements \in 500..MaxUsize

-----------------------------------------------------------------------------
\* max_retries: None
Forever == -1

\* What kind of value each setting takes.
Kind == [RUN_MODE |-> "mode", DATABASE_URL |-> "text", HTTP_ADDR |-> "text",
         RUST_LOG |-> "text", REPLAY_PATH |-> "text", STREAM_NAME |-> "text",
         BATCH_SIZE |-> "positive", CHANNEL_CAPACITY |-> "positive",
         ENDPOINT |-> "optional", X_TOKEN |-> "optional", CLUSTER |-> "text",
         SUBSCRIPTIONS |-> "filters", INCLUDE |-> "accounts",
         EXCLUDE |-> "accounts", REQUIRED |-> "accounts",
         INITIAL_DELAY |-> "positive", MAX_DELAY |-> "positive",
         MAX_ATTEMPTS |-> "retries", RESET_AFTER |-> "positive"]

Settings == DOMAIN Kind

\* The settings a command-line flag overrides.
Flags ==
    {"RUN_MODE", "HTTP_ADDR", "REPLAY_PATH", "STREAM_NAME", "ENDPOINT", "CLUSTER",
     "SUBSCRIPTIONS", "INCLUDE", "EXCLUDE", "REQUIRED", "INITIAL_DELAY", "MAX_DELAY",
     "MAX_ATTEMPTS"}

\* Raw values for some of these settings.
GivenFor(settable, given) ==
    /\ DOMAIN given \subseteq settable
    /\ \A s \in DOMAIN given : given[s] \in Seq(STRING) \ {<<>>}

Default ==
    [RUN_MODE |-> <<"replay">>, DATABASE_URL |-> <<"local">>,
     HTTP_ADDR |-> <<"127.0.0.1:8080">>, RUST_LOG |-> <<"info">>,
     REPLAY_PATH |-> <<"sample_stream.jsonl">>, STREAM_NAME |-> <<"replay">>,
     BATCH_SIZE |-> 500, CHANNEL_CAPACITY |-> 10000, ENDPOINT |-> {}, X_TOKEN |-> {},
     CLUSTER |-> <<"mainnet-beta">>, SUBSCRIPTIONS |-> {"slots"}, INCLUDE |-> {},
     EXCLUDE |-> {}, REQUIRED |-> {}, INITIAL_DELAY |-> 1000, MAX_DELAY |-> 30000,
     MAX_ATTEMPTS |-> Forever, RESET_AFTER |-> 30000]

-----------------------------------------------------------------------------
\* The items of a raw value.
Items(raw) == {raw[i] : i \in DOMAIN raw}

\* value.trim().is_empty()
Blank(raw) == raw = <<"">>

\* What std::env::var refuses to return.
NotUnicode == <<"(not unicode)">>

\* raw.parse() to an integer no larger than max
IsNumber(raw, max) ==
    Len(raw) = 1 /\ raw[1] \in DOMAIN Number /\ Number[raw[1]] <= max

Modes == {<<"replay">>, <<"yellowstone">>}

Filters == {"slots", "transactions", "blocks", "entries"}

\* The parsers of config.rs: only an account list may be blank.
Accepts(kind, raw) ==
    /\ raw # NotUnicode
    /\ kind # "accounts" => ~Blank(raw)
    /\ CASE kind \in {"text", "optional"} -> TRUE
         [] kind = "mode" -> raw \in Modes
         [] kind = "positive" -> IsNumber(raw, MaxUsize) /\ Number[raw[1]] > 0
         [] kind = "retries" -> IsNumber(raw, MaxU32)
         [] kind = "filters" -> Items(raw) \subseteq Filters
         [] kind = "accounts" -> Blank(raw) \/ "" \notin Items(raw)

\* What an accepted value is parsed to.
Parsed(kind, raw) ==
    CASE kind \in {"text", "mode"} -> raw
      [] kind = "optional" -> {raw}
      [] kind = "positive" -> Number[raw[1]]
      [] kind = "retries" -> IF Number[raw[1]] = 0 THEN Forever ELSE Number[raw[1]]
      [] kind = "filters" -> Items(raw)
      [] kind = "accounts" -> Items(raw) \ {""}

\* Every value that is given passes the parser of its setting.
AllAccepted(given) == \A s \in DOMAIN given : Accepts(Kind[s], given[s])

\* The given values over what was there before.
Override(config, given) ==
    [s \in Settings |-> IF s \in DOMAIN given THEN Parsed(Kind[s], given[s]) ELSE config[s]]

\* validate_yellowstone_reconnect_settings
DelaysInOrder(config) == config.MAX_DELAY >= config.INITIAL_DELAY

\* validate_runtime_requirements
RequirementsMet(config) == config.RUN_MODE = <<"yellowstone">> => config.ENDPOINT # {}

\* from_env, then apply_overrides; without an error the configuration is
ConfigOf(env, flags) == Override(Override(Default, env), flags)

\* Mutant: the delays are not compared again once the flags are applied.
ConfigAcceptedEarly(env, flags) ==
    /\ AllAccepted(env)
    /\ DelaysInOrder(Override(Default, env))
    /\ AllAccepted(flags)
    /\ RequirementsMet(ConfigOf(env, flags))

\* There is no ConfigError: in the environment, on the command line, in both.
ConfigAccepted(env, flags) ==
    /\ AllAccepted(env)
    /\ DelaysInOrder(Override(Default, env))
    /\ AllAccepted(flags)
    /\ DelaysInOrder(ConfigOf(env, flags))
    /\ RequirementsMet(ConfigOf(env, flags))

-----------------------------------------------------------------------------
\* YellowstoneGrpcConfig::validate, for the one run_yellowstone builds: the
\* stream's name is the name of every filter.
ValidRequest(config) ==
    /\ \A endpoint \in config.ENDPOINT : ~Blank(endpoint)
    /\ ~Blank(config.CLUSTER)
    /\ ~Blank(config.STREAM_NAME)
    /\ config.SUBSCRIPTIONS # {}

\* subscribe_request: which filter maps have an entry, and the accounts the
\* transaction filter includes, excludes and requires; there is none without
\* a transaction subscription.
SubscribeRequest(config) ==
    LET listed(accounts) == IF "transactions" \in config.SUBSCRIPTIONS THEN accounts ELSE {}
    IN  [filters |-> config.SUBSCRIPTIONS, include |-> listed(config.INCLUDE),
         exclude |-> listed(config.EXCLUDE), required |-> listed(config.REQUIRED)]
=============================================================================
