----------------------------- MODULE MCTaskQueue -----------------------------
(* Four tasks, two of which share an id, on two workers and one buffer slot. *)
EXTENDS TaskQueue

MCIdOf == [j \in Jobs |-> IF j \in {"j1", "j2"} THEN "a" ELSE j]
=============================================================================
