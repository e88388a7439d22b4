---------------------------- MODULE ReconnectLoop ----------------------------
(***************************************************************************)
(* The reconnect loop around the Yellowstone producer                       *)
(* (run_yellowstone_reconnect_loop and next_backoff_delay in                *)
(* crates/stream/src/yellowstone_live.rs): attempts, backoff with jitter,   *)
(* the retry limit, and the grace period after which both start afresh.     *)
(*                                                                          *)
(* Delays are numbers of milliseconds.  Of the clock the model keeps what   *)
(* the code compares: whether reset_after has passed since the attempt      *)
(* started.  An attempt never ends with Ok: the producer's stream can only  *)
(* close, and that is an error (StreamClosed).                              *)
(***************************************************************************)
EXTENDS Integers, FiniteSetsExt

CONSTANTS
    InitialDelay,   \* YellowstoneReconnectConfig.initial_delay
    DefaultDelay,   \* DEFAULT_RECONNECT_INITIAL_DELAY
    MaxDelay,       \* YellowstoneReconnectConfig.max_delay
    MaxRetries,     \* YellowstoneReconnectConfig.max_retries, or Unlimited
    Unlimited,      \* max_retries: None
    HasGrace,       \* reset_after is Some
    MaxU32          \* where retry_attempt saturates

ASSUME ReconnectAssumption ==
    /\ InitialDelay \in Nat
    /\ DefaultDelay \in Nat \ {0}
    /\ MaxDelay \in Nat
    /\ MaxU32 \in Nat
    /\ MaxRetries \in 0..MaxU32 \/ MaxRetries = Unlimited
    /\ Unlimited \notin 0..MaxU32
    /\ HasGrace \in BOOLEAN

VARIABLES
    loop,       \* where the loop is
    retries,    \* retry_attempt
    delay,      \* the current backoff delay
    graceOver   \* reset_after has passed since the attempt started

loopVars == <<loop, retries, delay, graceOver>>

-----------------------------------------------------------------------------
\* normalized(): a zero delay is replaced, the maximum is no less than it.
FirstDelay == IF InitialDelay = 0 THEN DefaultDelay ELSE InitialDelay
LongestDelay == Max({MaxDelay, FirstDelay})

\* Mutant: the jitter is added after the cap.
NextDelaysUncapped(d) == {Min({2 * d, LongestDelay}) + jitter : jitter \in 0..d}

\* next_backoff_delay: doubled, a random part of the old delay added, capped.
NextDelays(d) == {Min({2 * d + jitter, LongestDelay}) : jitter \in 0..d}

\* Mutant: the retry count is left alone when the delay grows.
RetryUncounted(r) == r

\* retry_attempt.saturating_add(1)
NextRetry(r) == Min({r + 1, MaxU32})

Exhausted(r) == MaxRetries # Unlimited /\ r > MaxRetries

(***************************************************************************)
(* How an attempt fails.  "refused" stands for the three gRPC codes that    *)
(* is_retryable rejects: invalid argument, unauthenticated, permission      *)
(* denied.                                                                  *)
(***************************************************************************)
ConnectFailures == {"invalid_config", "connect", "invalid_metadata", "subscribe",
                    "subscribe_refused"}
StreamFailures  == {"receive", "receive_refused", "stream_closed", "receiver_closed"}

Retryable == {"connect", "subscribe", "receive", "stream_closed"}

-----------------------------------------------------------------------------
LoopInit ==
    /\ loop = "configure"
    /\ retries = 0
    /\ delay = FirstDelay
    /\ graceOver = FALSE

\* configure_attempt, then the attempt starts its clock.
Configure ==
    /\ loop = "configure"
    /\ loop' = "connect"
    /\ graceOver' = FALSE
    /\ UNCHANGED <<retries, delay>>

\* GeyserClient::connect and subscribe succeeded: updates can flow.
Opened ==
    /\ loop = "connect"
    /\ loop' = "stream"
    /\ UNCHANGED <<retries, delay, graceOver>>

\* Time: the grace period, measured from the start of the attempt, connecting
\* and subscribing included.
GracePasses ==
    /\ HasGrace
    /\ loop \in {"connect", "stream"}
    /\ ~graceOver
    /\ graceOver' = TRUE
    /\ UNCHANGED <<loop, retries, delay>>

FatalFailure(kind) ==
    /\ kind \notin Retryable
    /\ loop' = "failed"
    /\ UNCHANGED <<retries, delay, graceOver>>

\* Mutant: the retry count is reset, the delay is not.
FailureAfterGraceKeepsDelay(kind) ==
    /\ kind \in Retryable
    /\ graceOver
    /\ retries' = 0
    /\ loop' = "backoff"
    /\ UNCHANGED <<delay, graceOver>>

FailureAfterGrace(kind) ==
    /\ kind \in Retryable
    /\ graceOver
    /\ retries' = 0
    /\ delay' = FirstDelay
    /\ loop' = "backoff"
    /\ UNCHANGED graceOver

QuickFailure(kind) ==
    /\ kind \in Retryable
    /\ ~graceOver
    /\ retries' = NextRetry(retries)
    /\ \/ /\ Exhausted(retries')
          /\ loop' = "gave_up"
          /\ UNCHANGED delay
       \/ /\ ~Exhausted(retries')
          /\ delay' \in NextDelays(delay)
          /\ loop' = "backoff"
    /\ UNCHANGED graceOver

AttemptFails(kind) ==
    /\ \/ loop = "connect" /\ kind \in ConnectFailures
       \/ loop = "stream" /\ kind \in StreamFailures
    /\ FatalFailure(kind) \/ FailureAfterGrace(kind) \/ QuickFailure(kind)

\* sleep(delay).await returns.
Wake ==
    /\ loop = "backoff"
    /\ loop' = "configure"
    /\ UNCHANGED <<retries, delay, graceOver>>

LoopNext ==
    \/ Configure \/ Opened \/ GracePasses \/ Wake
    \/ \E kind \in ConnectFailures \cup StreamFailures : AttemptFails(kind)

LoopSpec == LoopInit /\ [][LoopNext]_loopVars

-----------------------------------------------------------------------------
\* b^n, for the retry counts there are.
Power(b, n) ==
    LET power[k \in 0..MaxU32] == IF k = 0 THEN 1 ELSE b * power[k - 1] IN power[n]

\* Every variable of the loop has a value of its kind.
LoopTypeOK ==
    /\ loop \in {"configure", "connect", "stream", "backoff", "gave_up", "failed"}
    /\ retries \in 0..MaxU32
    /\ delay \in FirstDelay..LongestDelay
    /\ graceOver \in BOOLEAN

(***************************************************************************)
(* The backoff follows the retry count however the failures mix with long   *)
(* attempts: after r quick failures in a row the delay lies between 2^r and *)
(* 3^r times the first one, cut at the maximum, so a reset never leaves one *)
(* of the two behind.                                                       *)
(***************************************************************************)
BackoffEnvelope ==
    loop # "gave_up" /\ retries < MaxU32 =>
        /\ delay >= Min({FirstDelay * Power(2, retries), LongestDelay})
        /\ delay <= Min({FirstDelay * Power(3, retries), LongestDelay})

(***************************************************************************)
(* With a retry limit, a loop whose attempts all end within the grace       *)
(* period does not reconnect for ever.                                      *)
(***************************************************************************)
RetriesEnd ==
    MaxRetries # Unlimited /\ MaxRetries < MaxU32 =>
        (<>[](~graceOver) => <>[](loop # "backoff"))
=============================================================================
