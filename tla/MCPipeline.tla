----------------------------- MODULE MCPipeline -----------------------------
(***************************************************************************)
(* A ledger whose finalized slots are 0, 1 and 3 (slot 2 is dead), slot 3   *)
(* being finalized once without and once with its parent, a transaction in  *)
(* slot 1, and a transaction in a slot no BIGINT holds.                     *)
(***************************************************************************)
EXTENDS IngestPipeline

MCEventId == {"fin0", "fin1", "fin3", "tx1", "dead2", "txHuge"}

MCSlotOf == [id \in MCEventId |->
    CASE id = "fin0" -> 0 [] id = "fin1" -> 1 [] id = "fin3" -> 3
      [] id = "tx1" -> 1 [] id = "dead2" -> 2 [] id = "txHuge" -> 4]

MCStatusOf == [id \in MCEventId |->
    CASE id \in {"fin0", "fin1", "fin3"} -> "finalized"
      [] id = "dead2" -> "dead"
      [] OTHER -> "other"]

MCRooted == {0, 1, 3}

Delivery(id, parent) == [id |-> id, parent |-> parent]

MCEvent == {Delivery("fin0", None), Delivery("fin1", 0), Delivery("fin3", None),
            Delivery("fin3", 1), Delivery("tx1", None), Delivery("dead2", 4),
            Delivery("dead2", 1), Delivery("txHuge", None)}

\* Every event converts: nothing but the batcher can keep it from the database.
MCStorableEvents == {Delivery("fin0", None), Delivery("tx1", None)}
=============================================================================
