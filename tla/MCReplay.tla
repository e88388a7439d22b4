------------------------------ MODULE MCReplay ------------------------------
(***************************************************************************)
(* Small replay files over slots 0..4, the last of which no BIGINT holds.   *)
(* MCOnePerSlot: slots strictly rise.  MCManyPerSlot: slots never fall, and *)
(* a slot may hold several events, as generate_fixture --events-per-slot    *)
(* writes them.                                                             *)
(***************************************************************************)
EXTENDS ReplayIngest

MCEventId == {"a0", "b0", "a1", "b1", "a2", "a3", "huge"}

MCSlotOf == [id \in MCEventId |->
    CASE id \in {"a0", "b0"} -> 0 [] id \in {"a1", "b1"} -> 1
      [] id = "a2" -> 2 [] id = "a3" -> 3 [] id = "huge" -> 4]

MCStatusOf == [id \in MCEventId |-> "other"]

MCEvent == {[id |-> i, parent |-> None] : i \in MCEventId}

FilesWhere(InOrder(_, _)) ==
    LET extended(files) ==
            {Append(f, e) : f \in files, e \in MCEvent}
        files[n \in 0..4] ==
            IF n = 0 THEN {<<>>}
            ELSE {f \in extended(files[n - 1]) :
                    n = 1 \/ InOrder(MCSlotOf[f[n - 1].id], MCSlotOf[f[n].id])}
    IN  UNION {files[n] : n \in 0..4}

MCOnePerSlot == FilesWhere(LAMBDA a, b : a < b)

MCManyPerSlot == FilesWhere(LAMBDA a, b : a <= b)
=============================================================================
