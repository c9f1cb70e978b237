# A verification of My T Companion

My T Companion is a Go server that sits beside a TeslaMate installation on the
owner's VPS. It watches TeslaMate's MQTT topics and database, decides when an
iPhone deserves a push (charging, navigation, low battery, unlocked doors, new
software), signs the pushes and hands them to a relay, keeps the failed ones for
a retry, and answers the owner's app over HTTP. This directory holds TLA+
modules of its stateful core, the TLC configurations that check them on small
instances, and TLAPS proofs that hold for every size of the system.

Paths below are relative to `src/`.

## 1. Inventory

| Component | State | Operations | Works with |
|---|---|---|---|
| **Push registry and outbox** `push_subscribers.go`, `storage_policy.go` | paired phones (active/paused, source, categories), queued rows, live-activity cleanup bindings; all in `push-subscribers.json` | `upsert` (pair), `pause`, `unsubscribe`, `setLockSecure`, `deliverJSON`, `enqueue`, `retryLoop`, `load`/`saveLocked` | every monitor delivers through it; the relay answers it; it asks the monitors whether they know a session |
| **Legacy pairing file** `notification.go`, `push_subscribers.go:951` | `software-push-pairing.json` | `configure`, `disable`, `syncLegacyPairingLocked`, `migrateLegacyPairingLocked` | registry, software monitor, `applyRegistryToMonitors` of `main.go` |
| **Low-battery monitor** `low_battery_notification.go` | per car: readings, `Initialized`, latches, episode, owners' choices; settling timers; `low-battery-state.json` | `observeMessage`, `evaluate`, `fanOut`, `applyAction`, `processDueReminders`, `loadState` | MQTT source, registry |
| **Lock-secure monitor** `lock_secure_notification.go`, `lock_secure_evidence.go` | evidence with receipt times, pending settling timers, `LastPushedAt` | observe, `finishPending`, reset | MQTT source, registry |
| **MQTT source** `mqtt_source.go`, `mqtt_monitor_lifecycle.go` | eligible cars, time of the last fleet snapshot, connection epochs, receipts | `applyFleet`, `recordMQTTConnection`, `retryBaselines`, subscriptions | PostgreSQL, all monitors |
| **Charging monitor** `charging_notification.go`, `charging_observation.go`, `charging_settings_sync.go` | sessions with sequence numbers, database observations, delivery queue | observe, start, update, end, replay, reconcile | MQTT source, database, registry |
| **Navigation monitor** `navigation_notification.go`, `navigation_leg.go` | legs with phases and revisions, pending alerts and updates, history | observe, redirect, `flushUpdate`, `expireStaleSessions`, replay, resolution | MQTT source, database, registry, ETA share |
| **Software monitor** `notification.go` | versions seen, per-phone delivery records, pairing | observe, `fanOutSoftware`, `configure` | MQTT source, registry |
| **Parking events** `parking_event_monitor.go` | last values, bounded event log, persistence worker | observe, prune, snapshot, stop | MQTT source, HTTP readers |
| **Friend Together** `friend_together.go`, `internal/friendtogether/` | invitations, join requests, grants, nonces, audit | create, redeem, decide, restrict, revoke, expire, snapshot | owner and guest HTTP servers |
| **ETA share** `eta_share.go` | shares, tokens, rate windows | create, revoke, extend, public read | navigation monitor, database |
| **HTTP and wiring** `main.go`, `owner_api.go` | none of its own | pair, pause, unpair, status, history | everything |
| **History queries** `tire_pressure_history.go`, `road_*.go`, ... | none | read-only SQL | database |
| **Scripts** `install.sh`, `update.sh`, `backup.sh`, `restore.sh`, `install-source-transaction.sh` | files and containers | install, update, backup, restore | operator |

What makes them hard, and what makes each correct:

* *Registry.* `deliverJSONResult` holds no lock across the POST; pause, unpair,
  pairing, other deliveries and the retry loop all run in between, and the retry
  loop itself works from copies. Correct means: the limits hold, no queued push
  is lost in silence or kept for ever, one owner's act never silences another
  phone, and a restart undoes nobody's decision that reached the state file and
  the pairing file, which are written one after the other and the second of which
  requests write back without a lock.
* *Low battery.* Readings arrive field by field, retained replays among live
  ones; a timer callback may already be waiting for the lock when its timer is
  stopped, and removes the map entry of a later one; the state file outlives the
  evidence it was written from. Correct means: alerts follow live evidence only,
  one alert per descent, one reminder per snooze, and a low car is noticed.
* *Lock-secure.* Settling time, episode lifetime, heartbeat and cooldown run
  side by side; an episode must be answered at most once and never from evidence
  of an earlier connection.
* *MQTT source.* A late SUBACK of an old connection must not revive it; a fleet
  snapshot goes stale after five minutes; a new car needs its retained baseline.
* *Charging and navigation.* Sessions end by different paths (MQTT, database,
  watchdog, fleet) that race each other, and every start that was posted must be
  followed by an end that may be posted.
* *Friend Together.* An invitation is used once, a revoked or expired grant
  serves nothing, a decision is answered the same way when it is repeated, and
  every collection stays within its bound.
* *Parking.* The persistence worker must write the last event before `stop`
  returns, and the log is pruned by age and by count.

`PROJECT.json` lists the hazards with the line where each bites and the property
that covers it, or the reason why none does yet.

## 2. Plan

Order: what every push depends on first, then the monitor with the richest
episode logic, then the parts that feed or resemble them.

| Module | Composes or implements | State |
|---|---|---|
| `PushRegistry` | registry, outbox, deliveries, retry loop, the state file and the pairing file | done |
| `PushRegistryProofs` | types, limits, agreement of memory and file, restarts, who silences a phone, why a row leaves | done |
| `LowBattery` | the monitor with MQTT, timers, reminders, file | done |
| `LowBatteryProofs` | types, coherence of episodes, alerts from live evidence, one alert a descent, one reminder a snooze | done |
| `FriendStore`, `FriendTogether` | the policy store; over it invitations, requests, grants, reads, revocation, the journal, restart | done |
| `FriendTogetherProofs` | types, and that no active grant runs out of revisions; an invitation yields one grant, agreement of the two copies, consent only shrinks | done |
| `FriendCounting`, `FriendRecordsProofs` | counting lemmas; the limits, reachable consent, secrets, durable stops, what is handed out and shown | done |
| `MonitorLink` | what a monitor may rely on about its MQTT connection | done |
| `MqttSource` | handlers, epochs, SUBACKs, baselines and the fleet; implements `MonitorLink` | done |
| `MqttSourceProofs` | types, a connected monitor is subscribed or about to be told, `MonitorLink` is implemented | done |
| `LockEpisodes` | the promise of the lock-secure monitor: one round for a lock, rounds rest in between | done |
| `LockSecure` | evidence, timer, rounds and file of one car over `MonitorLink`; implements `LockEpisodes` | done |
| `LockSecureProofs` | types, watched episodes, evidence of the present connection, `LockEpisodes` is implemented | done |
| `NavigationLegs`, `Navigation` | when a route is a new leg; over it sessions, timers, queues, history, watchdog, restart | done |
| `NavigationProofs` | types, the record the App reads agrees with the car, recovered sessions stay quiet | done |
| `Charging` | sessions fed by MQTT and by the database, the sequence of its events | later |
| `ParkingLog` | log, pruning and the persistence worker | later |

Each gets one TLC run, a second one where a documented promise turns out not to
hold, and a proof module when its invariant has a compact inductive form. The
modules meet at `MonitorLink`: `MqttSource` is shown to implement it, and
`LockSecure` is built on its actions, so that what is shown of the monitor holds
over every order of handlers and SUBACKs the source allows.

## 3. What is modelled

### PushRegistry

| TLA+ | Code |
|---|---|
| `mem`, `disk`, `dirty` | `r.store`; the state file; whether `saveLocked` failed last |
| `mem.subs[i]`, `.outbox[<<i, e>>]`, `.auth[<<i, source, session>>]` | subscribers, rows by ID (installation and event), `LiveActivityAuthorizations` |
| `threads[t]` | program counter of a `deliverJSONResult` or of the retry loop inside `postJSON` |
| `pass` | the copies of rows and active phones `retryDue` took |
| `accepted` | the relay's side: what it has accepted (also when its answer was lost) |
| `legacy`, `unsynced` | the phone `software-push-pairing.json` names; history: that file is not as the last decision left it |
| `applying` | what requests inside `applyRegistryToMonitors` are about to do to that file |
| `Pair`, `PairRejected` | `upsert`: pruning, eviction, "replace", and the early return of `subscriber_limit` |
| `Pause`, `Unsubscribe`, `UnsubscribeAll`, `SetLockSecure`, `RememberKnownCleanup` | the methods of those names |
| `SaveThenSync`, `Sync` | `saveLocked` followed by `syncLegacyPairingLocked`, whose errors are ignored |
| `ApplyBegins`, `ApplyEnds` | the reading and the writing half of `applyRegistryToMonitors`, which hold no lock in between |
| `Begin`, `GateTimeout`, `FirstCheck`, `RememberSession`, `SecondCheck`, `RelayAnswers`, `FinishDirect` | one delivery, cut where it releases the lock |
| `StartPass`, `DropItem`, `PostItem`, `FinishRetry` | `retryDue`, cut likewise |
| `Tick`, `Restart` | time; death of the process and `newPushSubscriberRegistry` with `migrateLegacyPairingLocked` |

Stored times are kept as the time left, in memory and in the file alike, so time
is unbounded while the state space stays finite. Category preferences are the
set of categories a phone wants; the category `live_activity` stands for
charging (whose delivery gate may time out) and for navigation (which has no
gate, a subset of the behaviours). Whether a car is eligible, a charging
payload current or a session known to its monitor belongs to other components
and may be anything at every check.

A save of either file may fail; a read does not (a pairing file that cannot be
read counts as one that is not there). The order of the phones is not kept, so
`Sync` may name any active one for the first.

Not in the model: the credentials inside the pairing file, the daily vehicle
statistics, the cap of 1024 bindings, per-car preferences, HTTP decoding and
signatures, and the order of the outbox, which is a set of rows by ID. Two payloads queued under one event ID are one row, as in the code, but are
not told apart.

### LowBattery

| TLA+ | Code |
|---|---|
| `car`, `disk`, `dirty` | `m.store.Cars[id]`, the same in the file, a failed save |
| `armed`, `orphans` | the timer `m.timers` names; running timers it has forgotten |
| `threads[t]` | fired callbacks waiting for `m.mu`, fan-outs going from phone to phone, the reminder goroutine |
| `linked`, `inFleet` | subscribed on the present connection; `mqttCarEligible` |
| `evidence`, `handed`, `credit` | history only: where the knowledge comes from, what was sent since the last rearming, snoozes not yet reminded of |
| `Observe` | `observeMessage` for each field, retained or live, usable level or not |
| `TimerFires`, `Evaluate` (`TakeBaseline`, `OpenEpisode`, `Escalate`, `NothingNew`) | the timer and `evaluate`, with its `delete(m.timers, carID)` |
| `HandOver`, `GiveUp` | `fanOut` with its `currentEpisode` check before each phone |
| `RemindersDue`, `ApplyAction` | `processDueReminders`, `applyAction` |
| `Connect`, `ConnectionLost`, `FleetChanges`, `ReconcileFleet`, `Tick`, `Restart` | connection callbacks, the fleet, time, death and `loadState` |

One car: cars share nothing but the lock and the file. The five seconds of
settling are left out (a timer may fire at any time), and so are the display
name and the texts. Which phones a fan-out reaches is the registry's matter and
any set here. Only the vehicle states `online` and `driving`, and the charging
states charging and not, are told apart, as `lowBatteryEligible` does. The epoch
check that protects a connection from a late SUBACK is taken for granted.

### FriendStore and FriendTogether

| TLA+ | Code |
|---|---|
| `store` (`FriendStore`: `Create`, `Restrict`, `Revoke`, `Project`, `Prune` with their conditions `CanCreate`, `MayRestrict`, `Matches`, `MayProject`) | `Store` and its methods, each one locked section; `active`, `checkOrder`, `project` |
| `svc`, `disk`, `healthy` | `s.state` with `returnInvitations` and `lastSourceReadMS`; the journal; `s.healthy` |
| `readers[r]` | a handler that has given `s.mu` up: in `OwnsCar` (`asking`), in `ReadSource` (`waiting`), about to take the lock again (`answered`), with the values it captured |
| `vehicle` | outside the service: newest position, route revision and its time |
| `clock`, `clock'` | the time a handler opens at, and the time its later `s.now()` calls read |
| `origin`, `basis`, `ended`, `shown`, `served` | history only: what each record was ever made from, which stops were acknowledged, what a guest has seen, the snapshot of this step |
| `Opened`, with `Swept` and `SweptStore` | `clockHealthyLocked` and `expireLocked`, which open every handler; an action's parameter `s` is the state they leave |
| `BeginInvite`, `FinishInvite`; `BeginRead`, `SourceAnswers`, `FinishRead`, `ReadTooLate`, `Abandon`, `AbandonShut` | `createInvitationLocked` and the snapshot handler, cut where they unlock |
| `Redeem`, `Reject`, `Approve`, `ApproveMismatched`, `RestrictGrant`, `RestrictTooLate`, `Stop`, `StopAgain`, `CancelInvitation`, `CancelRequest` | the handlers of those requests, one action each |
| `Look`, `Status`, `Refuse` | requests that are answered from the state or turned away; a clock that went back |
| `Save`, `Restart` | `saveLocked` with its two ways to fail, `NewHTTPService` over `load` |

Who may call is left out: owner authentication, tokens, proofs, nonces and the
request rate turn a request into `Look` or `Refuse`. So are the binding and
source checks between values the service copies from its own record (the grant
ID stands for them), the validation of projected values, and the MQTT
generations of the navigation source, of which `RouteSeen` and `RouteGone` keep
what a reader can see. Of the permissions, `location` is always given and
`navigation` stands for the optional ones. `revokeLocked` shuts the service when
the policy store does not know the grant at its revision; `StoresAgree` is the
invariant that this cannot happen, and `Stop` is defined for the other case.

### MonitorLink and MqttSource

| TLA+ | Code |
|---|---|
| `link`, `handlers` | the client's connection, and `OnConnectionLost` and `OnConnect` callbacks that have not taken `m.mu` yet |
| `asks` | a `SubscribeMultiple` of the connect handler or of `refreshFleetSubscription`, with the epoch read before it was sent |
| `epoch`, `connected`, `retry` | `r.connections[kind].Epoch`, `m.connected`, `r.baselineRetryAt` |
| `fleet`, `fresh`, `reader` | one car in `r.cars`; `lastFleetSuccess` within its grace; what the goroutine of the fleet is doing |
| `replay`, `late` | history only: what became of the retained baseline; a lost handler that overtook its connection |
| `ConnectionLost`, `Connected`, `ConnectedTooLate`, `Acked`, `Failed` | the two handlers, and the end of a subscription |
| `Send`, `SubAck`, `SubFails`, `LinkUp`, `LinkDown` | the client and the broker |
| `FleetIsRead`, `FleetGoesStale`, `Reconcile`, `RetryBaselines` | `refreshFleet` with `applyFleet`, the passing of `mqttFleetGrace`, a monitor's `reconcileFleet`, `retryBaselines` |

`MonitorLink` keeps of this `line` (up, subscribed), `owed` (a handler has not
run) and `connected`. `ImplementsLink` is the refinement.

### LockEpisodes and LockSecure

| TLA+ | Code |
|---|---|
| `car`, `delivered`, `disk` | `m.store.Cars[id]`, `m.store.Delivered` of this minute, the state file |
| `unsaved` | history: the save of the last round's time failed, and none succeeded since |
| `evidence` | `m.evidence[id]`; times are ages, and one past its limit is none |
| `pending`, `stale` | `m.pending[id]`; a callback whose timer was stopped too late |
| `straggler` | a message `handleMQTTMessage` accepted that has not got the lock yet |
| `rounds[r]` | a `fanOutLockSecure`: called, before a check, or in its POST |
| `origin`, `missed` | history only: which connection the evidence is from; a timer that ended while nobody could be told |
| `Observe` (`Noted`, `EndsEpisode`, `EndsPresence`) | `observeMessage` with `evidence.observe` |
| `TimerFires`, `FinishPending`, `StaleCallback` | the timer and `finishPending` |
| `Check`, `Delivers` | one turn of the fan-out, cut around the POST |
| `LinkHandler`, `LinkStep` | the connection handlers over `MonitorLink`, with `resetEvidenceLocked` |
| `FleetChanges`, `ReconcileFleet`, `PreferenceChanges`, `Tick`, `Restart` | the fleet, owners, time, death and `loadState` |

A save (`Save`) may fail, which no caller notices: memory goes on ahead of the
file, and `LockEpisodes` lets a restart forget a round only then. No second
passes while a handler, an accepted message or a stopped callback waits for the
lock. Sounds, names and texts are
left out, as is the legacy pairing of one phone without the registry.

### NavigationLegs and Navigation

| TLA+ | Code |
|---|---|
| `Classify`, `Applied`, `Stage`, `Confirmed`, ... | `navigation_leg.go`, coordinates being cells and distances being units of 10 m |
| `car`, `baseline` | `m.store.Cars[id]`, `m.mqttBaselines[id]` |
| `update`, `alert`, `late` | `m.pending`, `m.pendingStartAlerts`; callbacks whose timers were stopped or replaced too late |
| `reading` | `enrichNavigationSession` reading the database |
| `leaving` | events a handler has made but enqueues only after it has released the lock |
| `queue`, `priority`, `tries`, `history` | the two channels with the event their worker is at; the history |
| `carFile`, `historyFile` | the two state files, which saves that fail leave behind memory |
| `sessions`, `minted`, `again` | session IDs in the order of their first use; the ID of the present second, if one was made in it; sessions begun again under the name of an ended one |
| `earned`, `lost`, `owing` | history only: sessions with an observed departure; sessions a crash lost something of; a reading not yet sent |
| `Observe` (`Noted`, `Read`, `Outcome`, then `RecoverRoute`, `Redirect`, `Begin`, `End`, `Continue`) | `observeMessage` and the functions it ends in |
| `FlushUpdate`, `FlushAlert`, `Enrich` | timer callbacks and enrichment |
| `EnqueueLeaving`, `DeliverOrdinary`, `DeliverTerminal` | `enqueue`, and a worker of each queue |
| `Expire`, `ReconcileRestored`, `ReconcileFleet`, `Replay`, `Reset`, `Restart` | the watchdog, orphans after a restart, the fleet, a newly enabled phone, connection handlers, death and `load` |
| `SavesBoth`, `SavesHistory` | `saveLocked` and `saveHistoryLocked` at the end of each of these, whose errors are ignored |
| `TimePasses`, `SecondPasses` | ages of the stored times; the second a session is named after |

A session is named by a hash of the car and the whole second it begins in
(`SessionID`), so a redirect, or an end and a begin, within that second takes
the name of the session that has just ended; `RecoverRoute` alone makes a name of
its own. What `expireStaleSessions` compares with the age limit is
`SessionStartedAt`, or `SessionObservedAt` where that is empty, as it is in a
recovered session: each is empty, "new" or "old". The wall clock is not set back.

The client of this monitor runs its handlers concurrently
(`SetOrderMatters(false)`), so readings come in any order, around a reconnect
too. Which phones take an event is the registry's matter; a delivery is
accepted, queued there, or fails. `Started` and `Enrich` leave open whether the
database knows a name. Left out: the texts and figures of a card other than the
remaining distance, the per-phone delivery status inside the history, trip
summaries, and the 200 entries the history keeps. In the run a live change of
stop near the end of a route waits for its confirmation only after a replay; the
other way to the same staging (`StartsLeg` with a live near route) is in the
module and the proofs.

## 4. The runs

| Run | Instance | Shows |
|---|---|---|
| `registry_restart` | 1 phone, 1 start event, 1 source, crashes, saves of either file that fail, 1 thing at a time requests are about to do to the pairing file | `TypeOK`, `DiskAgrees`, `RestartKeepsDecisions` |
| `registry_phones` | 3 phones for 2 places, 1 row, 1 alert | `Capacity`, `ActiveUntilOwnerActs` |
| `registry_live` | 1 phone with changing preferences, 1 terminal event, fair retry loop | `RowsLeaveForAReason`, `RowsDrain` |
| `low_battery` | 1 phone, 1 callback, 4 levels, crashes | `TypeOK`, `EpisodesCoherent`, `AlertsNeedLiveEvidence`, `OneLowAlertPerDescent`, `OneReminderPerSnooze` |
| `low_battery_live` | 1 level, driving and unusable levels, fair timers | `LowIsNoticed`, `SnoozesEnd` |
| `low_battery_severe` | as `low_battery` | violates `OneSevereAlertPerDescent` |
| `friend_shares` | 2 handlers, 2 invitations, requests and grants, room for 1 of each, failed saves, restarts, clock set back | `TypeOK`, `WithinCapacity`, `SpentOnce`, `StoresAgree`, `ReachableConsent`, `SecretsAreForgotten`, `ServedInForce`, `StopsAreDurable`, `ConsentOnlyShrinks` |
| `friend_reads` | 2 overlapping reads of one grant, restrictions, a moving car, 2 route revisions | `ServedInForce`, `ShownMovesForward` |
| `friend_refused` | one invitation | violates `RefusedApprovalLeavesNoGrant` |
| `mqtt_source` | 2 connections of one process, a car that leaves and joins the fleet | `TypeOK`, `ConnectedMeansSubscribed`, `ImplementsLink`, `Recovers`, `BaselinesArrive` |
| `lock_secure` | 1 car, 1 phone, 1 round at a time, failing saves, restarts | `TypeOK`, `EpisodesAreWatched`, `PresenceIsCurrent`, `RoundsRestOnOneLink`, `ImplementsEpisodes` |
| `navigation` | 2 routes, 2 sessions, places for 1 event beside the one a worker holds, a session named like the one before, failing saves, restarts | `TypeOK`, `HistoryAgrees`, `RecoveriesAreQuiet`, `ProgressIsSent`, `StaleSessionsEnd` |

*Bounds, and why they are enough.* `registry_phones` has one place less than
phones, so joining, eviction, rejection and replacement all occur, and two phones
compete for the only row. `registry_restart` and `registry_live` follow one
target: rows of different targets meet only at the cap and in a pass, and both
meetings are in `registry_phones`. One worker beside the retry loop gives the
races between a direct delivery and a pass; two direct deliveries meet only in
`enqueue`, which is one locked section. Lifetimes of one or two ticks order
retention, backoff and expiry in every way. The number of sources is one in the
runs (a phone that changes its source makes a delivery ineligible just as one
that no longer wants it); several are covered by the proofs only.

Where a run has the fault "oneSave", a save may fail, but not again while the file
is still behind; in `registry_restart` also not while a request is about to do
something to the pairing file, in `navigation` only with the last session, both
files failing together, and before a crash has lost anything. The fault "save" has no
such bound; the proofs hold for both, and for any `MaxApplying`. `registry_phones`
and `registry_live` ask nothing of the pairing file and have `MaxApplying = 0`.

In `LowBattery` the levels 0..3 stand for below 10, below 20, between 20 and 25
and from 25 per cent. Three episode IDs cover the car's, the file's and a
fan-out's; a fresh ID is never one of those, as with the code's random ones, and
they are interchangeable (symmetry). `MaxOrphans = 1` bounds the timers that
`m.timers` has forgotten: more of them call the same `evaluate`. `SnoozeDelay`
is one tick. The runs have one callback goroutine; the proofs any number.

In `FriendTogether` a tick stands for ten minutes of an invitation or for the
second between two reads; only the order in which things fall due matters, and
three ticks let an invitation, its request and its grant lapse and be reclaimed
in turn. Two handlers meet each other in `OwnsCar` and in `ReadSource`, and fill
both source slots; with room for one record of each kind and two IDs of each,
the second of anything needs the place of the first. `MaxRevision` is where the
revision stops advancing. In `friend_shares` the vehicle is not heard of and
snapshots are empty: `ServedInForce` asks there whether one may be handed out at
all, under restrictions and restarts. What it contains is asked in
`friend_reads`, where nothing fails.

In `MqttSource` two connections give a lost handler of the first that runs
after the connect handler of the second, and a SUBACK of the first during the
second; a third would only repeat this. In `LockSecure` every lifetime is one
tick and the cooldown two, so that each runs out before and after the others;
live readings open and lock the car and its openings are none, since all of them
take the same two branches. A round that is not over keeps `Rounds` busy, which
bounds the rounds under way, not those of a behaviour.

In `Navigation` one route is nearly at its end (a change to it has to be
confirmed) and comes live, the other is far and comes with the replay; so a
session begins by a departure, is redirected, or is found under way, and ends
each way. `MaxSessions` and `MaxRevision` bound sessions and events; a reading
that makes no event is taken at the bound too. One handler at a time is between
its two locked sections. A session grows too old only when nothing that takes
seconds is under way, since its age is hours. The car leaves the fleet only in
its last session.

*Fairness.* `registry_live` assumes that time goes on and that the retry
goroutine is scheduled and its HTTP client times out (12 s): nothing of the
relay, the owners or the direct deliveries. `low_battery_live` assumes that
fired timers run, callbacks proceed (each fan-out is bounded by the delivery's
timeout) and the one-minute ticker goes on; nothing is asked of the broker, the
car or the owners, and a broken connection discharges the promise.

`mqtt_source` assumes that goroutines run, that a subscription is waited for ten
seconds at most, and that each pass of the fleet goroutine ends with
`retryBaselines`; of the broker, that it does not refuse every subscription it
is asked for again and again (strong fairness of `SubAck`), without which no
code could promise a baseline. `navigation` assumes that timers fire and that
the watchdog ticks, nothing of the broker, the relay or the database.

Nothing is asked of liveness of Friend Together: every handler is one locked
section or waits three seconds at most, and there is no loop.

No run switches the deadlock check off: each system can always move.

## 5. What is proved

For any number of phones, events, sources, sessions, goroutines, levels,
messages, connections, subscriptions and rounds, and any limits that satisfy the
named ASSUMEs (positive limits, retry delays within the maximum, ordered
thresholds, finitely many phones and events, and for `Navigation` that a route
which parses names a destination, as `parseActiveRouteCandidate` demands at
`navigation_leg.go:45`):

* `PushRegistryProofs`: `TypeCorrect`, `CapacityHolds`, `DiskAlwaysAgrees`,
  `RestartKeeps`. `TypeOK` is inductive by itself; it carries the cap of the
  backoff. `Capacity` needs it, and a counting argument per operation: an
  operation either maps the store to one with no more phones and rows
  (`FewerWithinLimits`) or adds one after a test under the same lock.
  `DiskAgrees` is not inductive alone: a restart that prunes compares the file
  with what it loads, and an early return of `upsert` prunes without saving,
  which is harmless only because a full registry with no paused phone has
  nothing to prune, and that takes `Capacity`. Nor do restarts
  keep decisions by `DiskAgrees` alone, because a restart that finds no phone
  reads the pairing file: `EmptyIsSynced` says that this file is gone whenever no
  phone is left, unless its own write failed, was not reached or was undone
  (`unsynced`). Their conjunction `IInv` is the
  invariant, and three action properties are drawn from it: `RestartKeeps`,
  `OwnersDecide` (`ActiveUntilOwnerActs`) and `RowsLeaveJustly`
  (`RowsLeaveForAReason`). For the last two every operation is reduced to
  `PhonesStay` and `RowsStay`: what removes rows removes those of phones that
  were not active before or are not afterwards, pruning and eviction included,
  because they look at paused phones only; a restart from a file that agrees
  with memory loses no active phone and only expired rows of it. Three steps
  take the rows of active phones all the same. The pass drops an obsolete copy
  and gives up a refused row, which the property names; and it removes an
  accepted one, which needs one more invariant, `AnsweredOk`: a goroutine that
  holds the answer "ok" has been accepted.
* `LowBatteryProofs`: `TypeCorrect`, `EpisodesStayCoherent`,
  `AlertsFollowLiveEvidence`, `LowAlertsOnce`, `RemindersOnce`. Types and
  latches are inductive only together (`Inductive`): a reminder's fan-out names
  an episode because a latched car has one. The third theorem adds
  `EvidenceKnown`: without evidence, either the car waits for its baseline or no
  connection, timer or waiting callback exists that could evaluate the values a
  restart found in the file; after a mere baseline everything the level deserves
  is latched. The last two (`OneLowAlertPerDescent` and `OneReminderPerSnooze`)
  rest on `Accounts`, which keeps two books. `AnnouncedOnce`: phones that were
  told have an episode to show for it, in the file too unless a save failed, so
  that no restart opens a second one; an episode is announced by one fan-out at
  most, and to phones it has not told yet. `Credited`: the snoozes a phone has
  left and the reminder on its way to it are no more than the snoozes it chose,
  counted in memory and in the file. Both are needed for the file as well as for
  memory, since a crash makes the one the other. An evaluation goes on with the
  episode, ends it or opens one (`EvaluatedCases`); most other operations only
  calm the car (`Calmer`: the same episode, and no new snooze).
* `FriendTogetherProofs`: `TypeCorrect`, `SpentOnceHolds`, `StoresAgreeHolds`,
  `ConsentShrinks`, for any IDs, categories, durations, number of handlers and
  limits. `TypeOK` needs `Advanceable`: `NewHTTPService` counts the revision of
  every active grant on without asking whether it can advance, so no active
  grant, in memory or in the journal, may be past `MaxRevision`.
  `SpentOnceHolds` rests on `SpendInv`: an invitation that can still be redeemed
  was never redeemed, a request that can still be approved was never approved,
  and memory and journal trace a request to the same invitation. A step either
  leaves less open than before (`Narrower`, which the sweep, a save and both
  cancellations satisfy) or is one of invite, redeem and approve. The journal
  may be older than what was answered; nothing in it is open after a restart,
  which is why that does no harm. `StoresAgree` is inductive given the types
  (`AgreeInv`); the sweep is where it could break, because the two stores are
  cleaned by different rules. `ConsentShrinks` is drawn from it: what the policy
  store checks a restriction against is what the service shows.
* `FriendRecordsProofs`: `CapacityHolds`, `ReachableHolds`, `SecretsHold`,
  `ServedInForceHolds`, `ShownForward`, `StopsDurable`. The first three need one
  invariant, `RecordsInv`: memory and journal are each a chain from grant to
  request to invitation, and a return invitation belongs to a pending request or
  an active grant. The limit of the grants is not guarded where they are made,
  since an approval counts the policy store, which a restart empties; it holds
  because grants are no more than requests, and those are counted when they are
  redeemed (`FriendCounting` has the counting lemmas, apart because the
  library's theorems bring in a `Restrict` of their own). The chain is also why
  an acknowledged stop reaches every grant it is for (`EndedInv`), which with
  `StoresAgree` gives `ServedInForce`. `ShownForward` rests on `MarksInv`: the
  policy store has, for every active grant, the marks of all its guest was
  shown, although it is pruned and emptied by a restart. `StopsDurable` rests on
  `DurableInv`: an active grant of the journal is active in memory too, until
  the same time, unless it has expired since the last save; only that lets a
  stop of a grant that is over already be answered without a save.

* `MqttSourceProofs`: `TypeCorrect`, `ConnectedIsSubscribed`,
  `ImplementsMonitorLink`. Types need `Counted`: a connection advances the epoch
  twice at most, once in each of its two handlers, and handlers still waiting
  are among them. The second rests on `LinkInv`: a monitor that is connected,
  and a SUBACK that would pass the comparison of epochs, have a subscription of
  the present connection behind them, or a lost handler is still to run that
  ends the belief and the epoch. The refinement is shown step by step from both.
* `LockSecureProofs`: `TypeCorrect`, `EpisodesWatched`, `PresenceCurrent`,
  `RoundsOneLink`, `Implements`. The types carry the lifetimes of all evidence.
  Watched episodes need `Settling`: a timer is never older than the reading it
  settles, and fires exactly when that reading has settled. The third and fourth
  need `OriginInv`: on a connection whose handlers have run nothing known comes
  from an earlier one, and a presence and a lock of two connections, which can
  be together only while a handler is owed, never settle. No second passes while
  a handler is owed (section 3), and the last part rests on that. The refinement
  of `LockEpisodes` needs, beside the types, `Remembers`: the file has the
  last round as recent as memory has it, unless `unsaved` holds. `LockSecure` takes its
  connections from `MonitorLink`; with `ImplementsMonitorLink` these theorems
  hold over every order of handlers and SUBACKs the source allows.
* `NavigationProofs`: `TypeCorrect`, `HistoryAgreesHolds`, `RecoveriesQuiet`,
  for any stops, queue sizes, attempts and bounds. The types need `TypeInv`: an
  active car has a session that was begun and a destination, and the route a
  baseline has kept back has a destination. That the record agrees with the car
  is far from inductive. It needs to be known what has yet to be recorded: of
  the session under way, that no end of it exists anywhere, unless it has begun
  again under the name of an ended one, and that nothing on record is newer than
  the car (`Running`), since `Outdated` compares revisions; of any other, that its
  end is on record or held by a handler as the last that is said of it (`Over`),
  or the record would take it for outdated; that nothing on its way is newer than
  the car, on whose count a session of the same name goes on (`Behind`); and that
  only sessions that were begun are heard of (`Known`). `Quiet` adds that a banner may still
  be sent only for a session that was seen to begin; it speaks of the car as
  well as of the events on their way, because a recovered car is quiet by its
  `alerted` mark. The files are held to the same (`FileInv`), since a restart
  makes them the car and the record. The conjunction is
  inductive (`Inv`). Reading, timers, enrichment,
  reconnects, replay, the watchdog and the fleet have in common what the
  invariants see of them, which `Shape` states: the session goes on, ends or
  gives way to the next; events speak of it or end it; whoever leaves one ends
  it; no end is lost; a session takes the name of another only in its second.
  Each action is shown to have that shape, with the events
  it makes, and the invariants to survive anything that has it. Workers and
  crashes, which make no events, are shown to have it with none.

The strengthenings were checked by TLC on the instances of section 4 before
they were proved.

Every safety property, action property and refinement the passing runs check is
proved. Only model-checked: liveness (`RowsDrain`, `LowIsNoticed`, `SnoozesEnd`,
`Recovers`, `BaselinesArrive`, `ProgressIsSent`, `StaleSessionsEnd`), since
fairness and `ENABLED` are beyond the prover. Not proved either, because they do
not hold, are the two properties of the runs that end in a violation (section 6).

Each property has a mutant in `PROJECT.json`: a definition changed the way a
plausible bug would change it, under which TLC finds the property violated.

## 6. Findings

* (no run of its own) `enqueue` does not look whether the phone is still active, so
  a phone that paused or unpaired during a POST gets a pending retry afterwards,
  in the file too. `DATA_LIFECYCLE.md:80` and `README.md:73` say pending retries
  are removed on pause and unpair. The retry loop drops the row unsent on its
  next pass.
* `low_battery_severe`: the baseline taken after a reconnect sets the severe
  latch from the level alone. An episode that has escalated, reconnects between
  10 and 20 per cent and falls below 10 again escalates twice; `README.md:66` and
  `RELEASE_NOTES_1.10.35.md:10` promise one.
* (no run of its own) `Initialized` and the readings are restored from the
  file, and the reminder loop may send before any message of the new process;
  the comment at `low_battery_notification.go:508` has a snooze wait for a
  baseline.

* (no run of its own) `unsubscribe` saves the state file and then removes the
  pairing file, ignoring the error (`push_subscribers.go:793-796`, 964). When
  that fails, or the process dies in between, or a request that read the pairing
  file earlier writes it back (`main.go:376-386`, `notification.go:310`), the next
  start finds no phone, migrates the pairing file and has the unpaired phone
  active again; `DATA_LIFECYCLE.md:16` keeps a pairing "Until unpaired or
  replaced". `RestartKeepsDecisions` excepts these states (`unsynced`) and no
  others. An unpair that was answered with an error, on the other hand, takes
  effect with the next save of anything.
* `friend_refused`: `decideRequestLocked` lets the policy store create the grant
  (`http_service.go:527`) and compares the owner device after that (532). A
  mismatch is answered 400, as `CHANGELOG.md:55` says, but an active grant stays
  in the policy store that no list shows and no revocation reaches; it takes one
  of the 64 places until ten minutes after its expiry.

Met while modelling the other parts, and outside their properties:

* A replay that comes while no usable fleet snapshot exists is refused for good:
  the next snapshot adds only cars that were not in the previous one
  (`mqtt_source.go:430`). `BaselinesArrive` excepts it (`replay = "lost"`), and
  so it does a lost handler that runs after the connect handler of the next
  connection and takes its epoch (`late`).
* A start may be delivered after the end of its session: the comment at
  `navigation_notification.go:293` gives terminal events a worker of their own
  so that an ordinary one "can never keep a finished trip alive", but an
  ordinary event that was slow is posted after the end that overtook it. The
  history is protected from this (`HistoryAgrees`), the card is not.
* The end of a session is saved with the car and enqueued in memory after that;
  a crash in between, or a full queue (line 1446), loses it, and nothing sends
  another. `HistoryAgrees` excepts sessions a crash lost (`lost`).
* The comment at `navigation_notification.go:797` makes the name of a recovered
  session unique because it could "collide with an old leg that happened to start
  in the same second"; a redirect, or an end and a begin, within one second has
  no such care (line 821). The new session shares the ID of the ended one, its
  start is refused by the record (line 1842), and the App reads that the trip
  under way has ended until it really does. `HistoryAgrees` excepts it (`again`).
* A lock-secure round whose save failed is forgotten by a crash
  (`lock_secure_notification.go:359`, 420 and 483 ignore the error), so the next
  may come within the cooldown. `LockEpisodes` excepts it (`unsaved`).
* A change of destination whose banner is suppressed forgets when the last one
  was sent (`beginNavigationLegLocked` clears `LastRerouteAlertAt`), so of several
  quick changes every second one is announced; the comment at line 30 has changes
  within 45 seconds "collapse into one banner".

## 7. Not modelled, and why

Listed in `PROJECT.json` under components: history queries and vehicle
statistics are read-only SQL without state; the scripts are shell transactions
over the operator's files; HTTP decoding and authentication are pure functions
of a request. The nonces and proofs of Friend Together, which do have bounds,
the charging monitor, software updates, parking events and ETA share do have
state of their own and are still to come (section 2).
