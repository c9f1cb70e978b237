----------------------------- MODULE MqttSource -----------------------------
(***************************************************************************)
(* The MQTT connection of one monitor of src/mqtt_source.go and            *)
(* src/mqtt_monitor_lifecycle.go, and the fleet snapshot that decides      *)
(* which cars it may listen to.                                            *)
(*                                                                         *)
(* The client is external: it connects, loses the connection, reconnects   *)
(* and runs the monitor's two handlers in goroutines of their own, in any  *)
(* order.  Only the connection epoch ties a SUBACK to its connection.  One *)
(* goroutine reads the fleet, has the monitor forget removed cars, and     *)
(* subscribes again for a new car or after a failed subscription.          *)
(*                                                                         *)
(* ConnectionLost, Connected and Reconcile are where the monitor starts    *)
(* over or forgets a car; what it makes of that is in its own module.      *)
(***************************************************************************)
EXTENDS Naturals

CONSTANT MaxLinks   \* bound: connections of one process

ASSUME LinksAreBounded == MaxLinks \in Nat \ {0}

Links == 1..MaxLinks
Handlers == [what : {"lost", "connect"}, link : Links]
Asks == [who : {"connect", "refresh"}, epoch : 0..(2 * MaxLinks),
         link : 0..MaxLinks, is : {"unsent", "asked", "acked", "failed"}]
Fleets == {"unknown", "removed", "enabled"}
Reads == {"idle", "reconcile", "reconcile and subscribe", "subscribing"}

VARIABLES
  link,        \* external: the connection [id, up, subscribed]
  handlers,    \* connection handlers that have not taken m.mu yet
  asks,        \* subscriptions whose outcome has not been recorded
  epoch,       \* r.connections[kind].Epoch
  connected,   \* m.connected
  retry,       \* r.baselineRetryAt is set
  fleet,       \* r.cars[id], for one car; "removed" is absent or disabled
  fresh,       \* r.lastFleetSuccess is at most mqttFleetGrace ago
  reader,      \* what the goroutine of the fleet is doing
  replay,      \* what became of the car's retained baseline since the monitor
               \* started over
  late         \* history: the lost handler of an earlier connection ran after
               \* the last connect handler

connection == <<link, handlers, asks, epoch, connected, late>>
source == <<fleet, fresh, reader>>
vars == <<connection, retry, source, replay>>

TypeOK ==
  /\ link \in [id : 0..MaxLinks, up : BOOLEAN, subscribed : BOOLEAN]
  /\ handlers \subseteq Handlers
  /\ asks \subseteq Asks
  /\ epoch \in 0..(2 * MaxLinks)
  /\ {connected, retry, fresh, late} \subseteq BOOLEAN
  /\ fleet \in Fleets
  /\ reader \in Reads
  /\ replay \in {"none", "taken", "refused", "lost"}

(* A process that has just started, and its client *)
Init ==
  /\ link = [id |-> 0, up |-> FALSE, subscribed |-> FALSE]
  /\ handlers = {} /\ asks = {} /\ epoch = 0
  /\ connected = FALSE /\ retry = FALSE /\ late = FALSE
  /\ fleet = "unknown" /\ fresh = FALSE /\ reader = "idle" /\ replay = "none"

-----------------------------------------------------------------------------
(* The client *)

(* It reconnects by itself, once the message it was handing over has been  *)
(* dealt with.                                                             *)
LinkUp ==
  /\ ~link.up /\ link.id < MaxLinks
  /\ link' = [id |-> link.id + 1, up |-> TRUE, subscribed |-> FALSE]
  /\ handlers' = handlers \cup {[what |-> "connect", link |-> link.id + 1]}
  /\ UNCHANGED <<asks, epoch, connected, late, retry, source, replay>>

LinkDown ==
  /\ link.up
  /\ link' = [link EXCEPT !.up = FALSE, !.subscribed = FALSE]
  /\ handlers' = handlers \cup {[what |-> "lost", link |-> link.id]}
  /\ UNCHANGED <<asks, epoch, connected, late, retry, source, replay>>

(* The goroutine of the fleet waits for its own subscription. *)
RefreshEnds(a) == reader' = IF a.who = "refresh" THEN "idle" ELSE reader

(* client.IsConnected() may also be true while the client reconnects.      *)
IsConnected == IF link.up THEN {TRUE} ELSE BOOLEAN

(* SubscribeMultiple; without a connection it fails, or a refresh does not *)
(* try it.                                                                 *)
Send(a) ==
  /\ a.is = "unsent"
  /\ \E tried \in IF a.who = "connect" THEN {TRUE} ELSE IsConnected :
       /\ asks' = (asks \ {a}) \cup
            (IF ~tried THEN {}
             ELSE IF link.up THEN {[a EXCEPT !.is = "asked", !.link = link.id]}
             ELSE {[a EXCEPT !.is = "failed"]})
       /\ IF tried THEN UNCHANGED reader ELSE RefreshEnds(a)
  /\ UNCHANGED <<link, handlers, epoch, connected, late, retry, fleet, fresh, replay>>

(* mqttCarEligible, for each message of the replay.  One refused because   *)
(* there is no usable snapshot is lost: no later snapshot brings it back,  *)
(* as only a car that was not enabled before counts as added.              *)
Eligible == fleet = "enabled" /\ fresh
Replayed ==
  IF Eligible \/ replay = "taken" THEN "taken"
  ELSE IF fleet = "removed" /\ replay # "lost" THEN "refused" ELSE "lost"

(* The broker replays the retained values to a new subscription. *)
SubAck(a) ==
  /\ a.is = "asked" /\ link.up /\ a.link = link.id
  /\ asks' = (asks \ {a}) \cup {[a EXCEPT !.is = "acked"]}
  /\ link' = [link EXCEPT !.subscribed = TRUE]
  /\ replay' = Replayed
  /\ UNCHANGED <<handlers, epoch, connected, late, retry, source>>

(* Refused, lost with its connection, or too late to be waited for: the    *)
(* broker may have subscribed the client all the same.                     *)
SubFails(a) ==
  /\ a.is = "asked"
  /\ asks' = (asks \ {a}) \cup {[a EXCEPT !.is = "failed"]}
  /\ \E subscribed \in {link.subscribed, link.up /\ a.link = link.id} :
       link' = [link EXCEPT !.subscribed = link.subscribed \/ subscribed]
  /\ UNCHANGED <<handlers, epoch, connected, late, retry, source, replay>>

-----------------------------------------------------------------------------
(* The handlers of the monitor *)

(* Mutation: a connection that opens or breaks keeps the epoch. *)
NextEpochKept == epoch

(* Mutation: an epoch is taken twice. *)
NextEpochTwice == epoch + 2

(* recordMQTTConnection(kind, false) and beginMQTTConnection *)
NextEpoch == epoch + 1

(* Mutation: any SUBACK of the client counts. *)
AnyEpoch(a) == TRUE

(* recordMQTTConnection(kind, true, epoch) and mqttConnectionEpoch *)
OfThisEpoch(a) == a.epoch = epoch

(* The connect handler of the next connection has run before. *)
Overtaken(h) ==
  h.link < link.id /\ [what |-> "connect", link |-> h.link + 1] \notin handlers

(* OnConnectionLost *)
ConnectionLost(h) ==
  /\ h.what = "lost"
  /\ handlers' = handlers \ {h}
  /\ epoch' = NextEpoch /\ connected' = FALSE
  /\ late' = (late \/ Overtaken(h))
  /\ replay' = "none"
  /\ UNCHANGED <<link, asks, retry, source>>

(* OnConnect, up to its subscription; a handler whose connection is gone   *)
(* by then leaves it to the next one.                                      *)
Connected(h) ==
  /\ h.what = "connect"
  /\ handlers' = handlers \ {h}
  /\ epoch' = NextEpoch
  /\ asks' = asks \cup {[who |-> "connect", epoch |-> epoch', link |-> 0,
                         is |-> "unsent"]}
  /\ late' = FALSE /\ replay' = "none"
  /\ UNCHANGED <<link, connected, retry, source>>

ConnectedTooLate(h) ==
  /\ h.what = "connect" /\ FALSE \in IsConnected
  /\ handlers' = handlers \ {h}
  /\ UNCHANGED <<link, asks, epoch, connected, late, retry, source, replay>>

(* Mutation: a failed first subscription is not tried again. *)
NoRetry(a) == retry' = retry

(* requestMQTTBaselineRetry *)
RequestRetry(a) == retry' = TRUE

(* The end of OnConnect or of refreshFleetSubscription: the outcome counts *)
(* only on the connection and in the epoch it was asked in.                *)
Acked(a) ==
  /\ a.is = "acked"
  /\ asks' = asks \ {a}
  /\ \E still \in IsConnected : connected' = (connected \/ (still /\ OfThisEpoch(a)))
  /\ RefreshEnds(a)
  /\ UNCHANGED <<link, handlers, epoch, late, retry, fleet, fresh, replay>>

Failed(a) ==
  /\ a.is = "failed"
  /\ asks' = asks \ {a}
  /\ IF a.who = "refresh"
     THEN retry' = TRUE /\ UNCHANGED connected
     ELSE IF OfThisEpoch(a)
          THEN RequestRetry(a) /\ connected' = FALSE
          ELSE UNCHANGED <<retry, connected>>
  /\ RefreshEnds(a)
  /\ UNCHANGED <<link, handlers, epoch, late, fleet, fresh, replay>>

-----------------------------------------------------------------------------
(* The fleet *)

(* Mutation: only the first snapshot adds cars. *)
AddedAtFirst(found) == found = "enabled" /\ fleet = "unknown"

Added(found) == found = "enabled" /\ fleet # "enabled"

(* refreshFleet and applyFleet: the snapshot is replaced, the monitor is   *)
(* told (which is of no account while it listens to the car).  The first   *)
(* snapshot adds every car but subscribes to none.                         *)
FleetIsRead(found) ==
  /\ reader = "idle"
  /\ fleet' = found /\ fresh' = TRUE
  /\ reader' = IF Added(found) /\ fleet # "unknown"
               THEN "reconcile and subscribe"
               ELSE IF found = "removed" /\ replay = "taken" THEN "reconcile"
               ELSE "idle"
  /\ UNCHANGED <<connection, retry, replay>>

(* Every read has failed for mqttFleetGrace; fleetFailure keeps the        *)
(* snapshot.                                                               *)
FleetGoesStale ==
  /\ fresh /\ fresh' = FALSE
  /\ UNCHANGED <<connection, retry, fleet, reader, replay>>

(* refreshMQTTFleetSubscriptions: the epoch is read before the             *)
(* subscription is sent.                                                   *)
Subscribing ==
  /\ reader' = "subscribing"
  /\ asks' = asks \cup {[who |-> "refresh", epoch |-> epoch, link |-> 0,
                         is |-> "unsent"]}

(* The monitor's reconcileFleet, also when it registers.                   *)
Reconcile ==
  /\ \/ reader = "reconcile" /\ reader' = "idle" /\ UNCHANGED asks
     \/ reader = "reconcile and subscribe" /\ Subscribing
  /\ replay' = IF fleet = "removed" /\ replay = "taken" THEN "none" ELSE replay
  /\ UNCHANGED <<link, handlers, epoch, connected, late, retry, fleet, fresh>>

(* retryBaselines, once the 30 seconds are over                            *)
RetryBaselines ==
  /\ reader = "idle" /\ retry
  /\ retry' = FALSE
  /\ Subscribing
  /\ UNCHANGED <<link, handlers, epoch, connected, late, fleet, fresh, replay>>

-----------------------------------------------------------------------------
Next ==
  \/ LinkUp \/ LinkDown \/ FleetGoesStale
  \/ Reconcile \/ RetryBaselines
  \/ \E h \in handlers : ConnectionLost(h) \/ Connected(h) \/ ConnectedTooLate(h)
  \/ \E a \in asks : Send(a) \/ SubAck(a) \/ SubFails(a) \/ Acked(a) \/ Failed(a)
  \/ \E found \in {"removed", "enabled"} : FleetIsRead(found)

Spec == Init /\ [][Next]_vars

(* Goroutines run; no subscription is waited for for ever; the broker does *)
(* not refuse every repeated subscription; each pass of the fleet          *)
(* goroutine ends with retryBaselines, whatever its fleet read did.        *)
Fairness ==
  /\ WF_vars(\E h \in handlers : ConnectionLost(h) \/ Connected(h))
  /\ WF_vars(\E a \in asks : Send(a) \/ Acked(a) \/ Failed(a))
  /\ WF_vars(\E a \in asks : SubFails(a))
  /\ SF_vars(\E a \in asks : SubAck(a))
  /\ WF_vars(Reconcile)
  /\ SF_vars(RetryBaselines)

FairSpec == Spec /\ Fairness

-----------------------------------------------------------------------------
(* Once every handler has run, a monitor that calls itself connected is    *)
(* subscribed on the present connection: neither a SUBACK of an earlier    *)
(* connection nor a late handler revives it (mqtt_source.go:178).          *)
ConnectedMeansSubscribed ==
  connected /\ handlers = {} => link.up /\ link.subscribed

(* An open connection ends up subscribed, or it breaks, unless the lost    *)
(* handler of an earlier connection ran after the last connect handler and *)
(* took its epoch: no failed subscription strands a monitor                *)
(* (mqtt_source.go:258).                                                   *)
Recovers == link.up ~> connected \/ ~link.up \/ late

(* A car in the fleet gets the baseline its monitor waits for, also when   *)
(* it joined the fleet only after the broker had replayed it; a replay     *)
(* that came while no usable snapshot existed is the exception             *)
(* (mqtt_source.go:444).                                                   *)
BaselinesArrive ==
  link.up /\ Eligible ~>
    replay \in {"taken", "lost"} \/ ~link.up \/ ~Eligible \/ late

(* The epochs and handlers of mqtt_source.go give the monitors the         *)
(* connection MonitorLink describes.                                       *)
Link == INSTANCE MonitorLink WITH
  line <- [up |-> link.up, subscribed |-> link.subscribed], owed <- (handlers # {})
ImplementsLink == Link!LinkSpec
=============================================================================
