---------------------------- MODULE MCLowBattery ----------------------------
(* Small instances of LowBattery.  Percentages are scaled down: 0 is below *)
(* the severe threshold 1, 1 is low, 2 lies between entering and rearming, *)
(* 3 rearms.                                                               *)
EXTENDS LowBattery, TLC

CONSTANTS phoneA, first, loop, e1, e2, e3

MCCharging ==
  ({"battery_level"} \X Levels) \cup {<<"state", "online">>}
    \cup ({"charging_state"} \X {"stopped", "charging"})
MCDriving ==
  ({"battery_level"} \X (Levels \cup {NoLevel})) \cup {<<"state", "online">>}
    \cup {<<"charging_state", "stopped">>, <<"shift_state", "D">>}

Renamings == Permutations(Episodes)
=============================================================================
