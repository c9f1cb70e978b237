--------------------------- MODULE MCPushRegistry ---------------------------
(* Small instances of PushRegistry.  One tick is about two seconds for the *)
(* retry delays; lifetimes are scaled down to a few ticks.                 *)
EXTENDS PushRegistry, TLC

CONSTANTS phoneA, phoneB, phoneC, direct, retry,
          charge, started, ended, secured, drained, home, cabin

(* One live-activity session with its start and its terminal event, and an *)
(* ordinary alert or two.                                                    *)
MCEventFeature == [e \in Events |->
  CASE e = secured -> "lock_secure" [] e = drained -> "low_battery"
    [] OTHER -> "live_activity"]
MCEventKind == [e \in Events |->
  CASE e \in {secured, drained} -> "alert" [] e = ended -> "terminal"
    [] OTHER -> "running"]
MCEventSession == [e \in Events |-> charge]
MCEventTTL == [e \in Events |-> IF e \in {started, ended} THEN 2 ELSE 1]

MCAllOn == {Features}
MCOnOff == {{}, {"live_activity"}}

Phones == Permutations(Installations)
=============================================================================
