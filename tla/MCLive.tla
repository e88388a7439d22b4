------------------------------- MODULE MCLive -------------------------------
(***************************************************************************)
(* A provider's log over the slots 0, 1 and 2: slot 1 is a fork that is     *)
(* never finalized, its transaction arrives after one of slot 2, and the    *)
(* parent of slot 2 is slot 0.                                              *)
(***************************************************************************)
EXTENDS LiveIngest

MCEventId == {"tx0", "fin0", "tx2", "fork1", "fin2"}

MCSlotOf == [id \in MCEventId |->
    CASE id \in {"tx0", "fin0"} -> 0 [] id = "fork1" -> 1 [] OTHER -> 2]

MCStatusOf == [id \in MCEventId |-> IF id \in {"fin0", "fin2"} THEN "finalized" ELSE "other"]

MCRooted == {0, 2}

Update(id, parent) == [id |-> id, parent |-> parent]

MCLog == <<Update("tx0", None), Update("fin0", None), Update("tx2", None),
           Update("fork1", None), Update("fin2", 0)>>

MCEvent == {MCLog[i] : i \in DOMAIN MCLog}
=============================================================================
