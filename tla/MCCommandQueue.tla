--------------------------- MODULE MCCommandQueue ---------------------------
(* Two of three callers call: two turns compete for the main lane, or a    *)
(* turn and a cron run for a session, or they work side by side.           *)
EXTENDS CommandQueue

CONSTANT otherTurn   \* the turn of the second session

MCSessionOf == [r \in Caller |-> IF r = otherTurn THEN "s2" ELSE "s1"]

MCLaneConfigs == {[main |-> n, cron |-> n] : n \in {0, 2}}
=============================================================================
