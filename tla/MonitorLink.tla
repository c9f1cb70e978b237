---------------------------- MODULE MonitorLink ----------------------------
(***************************************************************************)
(* What a monitor may rely on about its MQTT connection, whatever the      *)
(* order of the client's handlers, SUBACKs and retries: messages come from *)
(* the present connection only, the monitor starts over at least once      *)
(* after a connection opens and before its handlers are done, and it calls *)
(* itself connected for long only while it is subscribed.  MqttSource      *)
(* implements this; LockSecure is built on it.                             *)
(***************************************************************************)
VARIABLES
  line,       \* the connection [up, subscribed]
  owed,       \* a connection handler has not run yet
  connected   \* m.connected

linkVars == <<line, owed, connected>>

LinkInit ==
  /\ line = [up |-> FALSE, subscribed |-> FALSE]
  /\ owed = FALSE /\ connected = FALSE

Opens ==
  /\ ~line.up
  /\ line' = [up |-> TRUE, subscribed |-> FALSE]
  /\ owed' = TRUE
  /\ UNCHANGED connected

Breaks ==
  /\ line.up
  /\ line' = [up |-> FALSE, subscribed |-> FALSE]
  /\ owed' = TRUE
  /\ UNCHANGED connected

Subscribes ==
  /\ line.up
  /\ line' = [line EXCEPT !.subscribed = TRUE]
  /\ UNCHANGED <<owed, connected>>

(* A handler of a connection runs, and the monitor starts over.  The last  *)
(* one owed leaves it connected only if it is subscribed.                  *)
StartsOver ==
  /\ owed
  /\ owed' \in BOOLEAN
  /\ connected' \in {FALSE, connected}
  /\ connected' /\ ~owed' => line.subscribed
  /\ UNCHANGED line

(* A connect handler that finds its connection gone does nothing. *)
Skips ==
  /\ owed /\ ~line.up
  /\ owed' \in BOOLEAN
  /\ ~owed' => ~connected
  /\ UNCHANGED <<line, connected>>

Confirms ==
  /\ owed \/ line.subscribed
  /\ connected' = TRUE
  /\ UNCHANGED <<line, owed>>

Denies ==
  /\ connected' = FALSE
  /\ UNCHANGED <<line, owed>>

(* The process starts again. *)
Forgets ==
  /\ line' = [up |-> FALSE, subscribed |-> FALSE]
  /\ owed' = FALSE /\ connected' = FALSE

LinkNext ==
  \/ Opens \/ Breaks \/ Subscribes \/ StartsOver \/ Skips \/ Confirms
  \/ Denies \/ Forgets

LinkSpec == LinkInit /\ [][LinkNext]_linkVars
=============================================================================
