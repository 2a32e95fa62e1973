----------------------------- MODULE MCCronQueue -----------------------------
(* One worker, one slot: "a" fires every minute and its task registers "b".  *)
EXTENDS CronQueue

MCIdOf == [j \in Jobs |-> CASE j \in {"a1", "a2"} -> "a"
                            [] j = "b1" -> "b"
                            [] OTHER -> j]

MCSchedule == [e \in Entries |-> IF e = "a" THEN Minutes ELSE {1}]
=============================================================================
