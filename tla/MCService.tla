------------------------------ MODULE MCService ------------------------------
(***************************************************************************)
(* Starts that differ from the defaults, or from a live mode that works, in *)
(* one setting of the environment or of the command line, in both sizes, or *)
(* in the two delays wherever they come from.  "9" is a number no u32       *)
(* holds, "7" a size that cannot be allocated.                              *)
(***************************************************************************)
EXTENDS AppLifecycle, TLC

MCNumber == ("0" :> 0) @@ ("1" :> 1) @@ ("2" :> 2) @@ ("7" :> 700000) @@ ("9" :> 900000)

LiveEnv == ("RUN_MODE" :> <<"yellowstone">>) @@ ("ENDPOINT" :> <<"url">>)

\* One value of each sort a setting can be given.
Tries(setting) ==
    CASE Kind[setting] = "mode" -> {<<"replay">>, <<"yellowstone">>, <<"live">>}
      [] Kind[setting] \in {"text", "optional"} -> {<<"">>, <<"x">>, NotUnicode}
      [] Kind[setting] = "positive" -> {<<"">>, <<"0">>, <<"1">>, <<"2">>, <<"7">>, <<"x">>}
      [] Kind[setting] = "retries" -> {<<"0">>, <<"2">>, <<"9">>}
      [] Kind[setting] = "filters" -> {<<"">>, <<"blocks", "transactions">>, <<"slots", "">>}
      [] Kind[setting] = "accounts" -> {<<"">>, <<"a", "b", "a">>, <<"a", "">>}

\* Only one of these settings is given.
OneOf(some) == UNION {{(s :> v) : v \in Tries(s)} : s \in some}

Both(s, t) == {f @@ g : f \in OneOf({s}), g \in OneOf({t})}

Delays == {<<>>} \cup OneOf({"INITIAL_DELAY", "MAX_DELAY"}) \cup Both("INITIAL_DELAY", "MAX_DELAY")

\* The command line is text that clap has accepted.
CommandLines ==
    OneOf(Flags) \ ({(s :> NotUnicode) : s \in Flags} \cup {("RUN_MODE" :> <<"live">>)})

Launches ==
    {[env |-> e, flags |-> <<>>] :
        e \in OneOf(Settings) \cup Both("BATCH_SIZE", "CHANNEL_CAPACITY")}
    \cup {[env |-> <<>>, flags |-> f] : f \in CommandLines}
    \cup {[env |-> e, flags |-> f] : e, f \in Delays}

MCStarts ==
    {[env |-> s.env @@ base, flags |-> s.flags] : s \in Launches, base \in {<<>>, LiveEnv}}

MCCursors == {-1, 1, 2}

MCReplayFiles == {<<>>, <<{1}, {2}, {1}>>, <<{1}, {}>>}
=============================================================================
