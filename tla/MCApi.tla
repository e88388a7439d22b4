-------------------------------- MODULE MCApi --------------------------------
(***************************************************************************)
(* The replay files of MCReplay.  The event "a1" carries token balances    *)
(* that are a swap (the account of mint A appears twice), "huge" a swap in  *)
(* a slot no column holds, "a2" none for the direction of its legs, "a3"   *)
(* one with an amount no i64 holds; the other events carry none.            *)
(***************************************************************************)
EXTENDS ConsumerApi, MCReplay

\* The files of this run are those the theorems about replays speak of.
ASSUME OnePerSlot

MCTypeOf == [id \in MCEventId |-> IF id \in {"b0", "b1"} THEN "slot" ELSE "transaction"]

MCSignatureOf == [id \in MCEventId |->
    CASE id \in {"b0", "b1"} -> 0 [] id = "a0" -> 3 [] id = "a1" -> 5
      [] id = "a2" -> 2 [] id = "a3" -> 1 [] id = "huge" -> 4]

MCRankOf == [id \in MCEventId |->
    CASE id = "a0" -> 6 [] id = "b0" -> 2 [] id = "a1" -> 4 [] id = "b1" -> 5
      [] id = "a2" -> 1 [] id = "a3" -> 3 [] id = "huge" -> 7]

Entry(mint, pre, post) == [mint |-> mint, pre |-> pre, post |-> post]

MCPayloadOf == [id \in MCEventId |->
    CASE id = "a1" -> {<<Entry("A", 1, 1), Entry("B", 0, 2), Entry("A", 3, 2)>>}
      [] id = "a2" -> {<<Entry("A", 3, 2), Entry("B", 0, 2), Entry("B", 0, 1)>>}
      [] id = "a3" -> {<<Entry("A", 4, 2), Entry("B", 0, 1)>>}
      [] id = "huge" -> {<<Entry("A", 1, 0), Entry("B", 1, 2)>>}
      [] OTHER -> {}]

MCProgramOf == [id \in MCEventId |-> IF id = "a1" THEN "amm" ELSE "none"]
=============================================================================
