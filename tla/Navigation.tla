----------------------------- MODULE Navigation -----------------------------
(***************************************************************************)
(* The navigation Live Activity monitor of src/navigation_notification.go  *)
(* for one car: MQTT readings and their baseline, the legs of a trip as    *)
(* sessions, start alerts and throttled updates, database enrichment, the  *)
(* two delivery queues, the history the App reads, the watchdog and        *)
(* restarts.                                                               *)
(*                                                                         *)
(* Every handler and callback works under m.mu and is one action; what it  *)
(* hands over after it released the lock is in "leaving".  The client runs *)
(* its message handlers concurrently, so that readings come in any order,  *)
(* also around a reconnect.  Timers fire at any time once they are set.    *)
(* A session is named after the second it begins in, so that two that      *)
(* begin within one second are one.                                        *)
(***************************************************************************)
EXTENDS NavigationLegs, Sequences, FiniteSets

CONSTANTS
  Published,      \* readings that may come live ...
  Retained,       \* ... and in the replay of a subscription
  QueueSize,      \* capacity of m.queue and of m.priorityQueue
  Attempts,       \* tries of a delivery
  MaxSessions,    \* bound: sessions of the car
  MaxRevision,    \* bound: events before the readings end
  MaxLeaving,     \* bound: handlers between their two critical sections
  Faults          \* the faults of the environment: "crash", "relay" (the relay
                  \* refuses), "save" (any save fails), "oneSave" (OneSaveFails)

ASSUME BoundsArePositive ==
  {QueueSize, Attempts, MaxSessions, MaxRevision, MaxLeaving} \subseteq Nat \ {0}

Sessions == 1..MaxSessions
States == {"", "driving", "online", "offline"}
Healths == {"yes", "no"}

(* A route reading without a valid route; a valid one has a destination. *)
Invalid == NoRoute

ASSUME ReadingsAreReadings ==
  Published \cup Retained \subseteq
    ({"state"} \X States) \cup ({"healthy"} \X Healths)
    \cup ({"active_route"} \X ({r \in Routes : r.to # Nowhere} \cup {Invalid}))

VARIABLES
  car,       \* m.store.Cars[id]
  baseline,  \* m.mqttBaselines[id]
  update,    \* m.pending[id] is set
  alert,     \* the session of m.pendingStartAlerts[id], or 0
  late,      \* callbacks of timers no longer in these maps: sessions of start
             \* alerts, 0 for an update
  reading,   \* the sessions whose enrichment reads the database
  leaving,   \* events of handlers that have not enqueued them yet
  queue,     \* m.queue, with the event its worker is at
  priority,  \* m.priorityQueue likewise
  tries,     \* attempts at the head of each queue
  history,   \* m.history
  grace,     \* reconcileRestoredSessions has not run yet
  carFile, historyFile,
             \* what a restart loads: the last car and history written
  sessions,  \* sessions named so far
  minted,    \* the session named after the present second, or 0
  again,     \* history: sessions begun more than once
  earned,    \* history: sessions that began with an observed departure or a
             \* redirect
  lost,      \* history: sessions of which a crash lost an event on its way,
             \* or something that a save had failed to write
  owing      \* history: a reading of a started session is not in an event yet,
             \* and the baseline has been ready since

timers == <<update, alert, late>>
delivery == <<queue, priority, tries, history>>
file == <<carFile, historyFile>>
naming == <<sessions, minted, again>>
ghosts == <<earned, lost>>
vars == <<car, baseline, timers, reading, leaving, delivery, grace, file, naming,
          ghosts, owing>>

-----------------------------------------------------------------------------
NewCar == [state |-> "", leg |-> NoRoute, staged |-> NothingStaged,
           active |-> FALSE, session |-> 0, mode |-> "live", kind |-> "origin",
           named |-> FALSE, started |-> FALSE, alerted |-> FALSE,
           recent |-> FALSE, rerouted |-> FALSE, startedAt |-> "",
           observedAt |-> "", observed |-> FALSE, revision |-> 0]

NoBaseline == [state |-> "none", route |-> "none", healthy |-> "",
               inactive |-> FALSE, changed |-> NoRoute]

Parking(state) == state \in {"online", "charging"}
TransientUnknown(state) == state \in {"", "offline"}

(* navigationMQTTBaseline.ready *)
Ready(b) ==
  /\ b.healthy # "no" /\ b.state # "none" /\ b.route # "none"
  /\ b.state = "live" \/ b.route = "live" \/ b.healthy = "yes"

(* Departure and route were both observed on this connection. *)
Transition(b) == b.state = "live" /\ b.route = "live" /\ b.inactive

(* navigationShouldBeActive *)
ShouldBeActive(c, invalid) ==
  /\ ~invalid /\ c.leg.to # Nowhere
  /\ IF TransientUnknown(c.state) THEN c.active ELSE c.state = "driving"

(* Events: "card" goes to the Live Activity, "banner" to the trip alerts.  *)
Event(type, c, to) ==
  [type |-> type, session |-> c.session, revision |-> c.revision, to |-> to]

(* makeEventLocked *)
Made(c) == [c EXCEPT !.revision = @ + 1, !.recent = TRUE]

-----------------------------------------------------------------------------
(* History and the queues *)

NoHistory == [type |-> "none", revision |-> 0]

(* Mutation: the record takes events as they come. *)
NeverOutdated(h, e) == FALSE

(* What is on record stays: the event is older, or not the end of a session  *)
(* that has ended.                                                         *)
Outdated(h, e) ==
  (h.type = "ended" /\ e.type # "ended") \/ h.revision > e.revision

(* recordHistoryEventLocked *)
Recorded(hs, e) ==
  IF Outdated(hs[e.session], e) THEN hs
  ELSE [hs EXCEPT ![e.session] = [type |-> e.type, revision |-> e.revision]]

(* Mutation: the capacity is checked one too late. *)
PutBeyond(q, e) == IF Len(q) > QueueSize + 1 THEN q ELSE Append(q, e)

(* A full queue drops the event.  The worker holds the first one. *)
Put(q, e) == IF Len(q) > QueueSize THEN q ELSE Append(q, e)

(* enqueueAlreadyLocked *)
Enqueued(d, e) ==
  [history |-> Recorded(d.history, e),
   queue |-> IF e.type = "ended" THEN d.queue ELSE Put(d.queue, e),
   priority |-> IF e.type = "ended" THEN Put(d.priority, e) ELSE d.priority]

(* A critical section enqueues one event after the other, at most two. *)
Enqueue(d, events) ==
  LET first == IF events = <<>> THEN d ELSE Enqueued(d, Head(events))
      second == IF Len(events) < 2 THEN first ELSE Enqueued(first, events[2])
  IN history' = second.history /\ queue' = second.queue /\ priority' = second.priority

Holding(q) == [history |-> history, queue |-> q, priority |-> priority]
Enqueues(events) == Enqueue(Holding(queue), events) /\ UNCHANGED tries

(* After the lock is released. *)
Leaves(events) == leaving' = leaving \cup {events}

EnqueueLeaving(events) ==
  /\ events \in leaving
  /\ leaving' = (leaving \ {events})
                \cup (IF Len(events) = 1 THEN {} ELSE {Tail(events)})
  /\ Enqueues(<<Head(events)>>)
  /\ UNCHANGED <<car, baseline, timers, reading, grace, naming, ghosts, owing>>

-----------------------------------------------------------------------------
(* Timers.  A timer that is stopped may have fired: its callback then still *)
(* runs, knowing nothing of the timer that replaced its own.               *)

MayBeLate(names) == {late \cup waiting : waiting \in SUBSET names}

UpdateNames == IF update THEN {0} ELSE {}
AlertNames == IF alert = 0 THEN {} ELSE {alert}

StopUpdate == update' = FALSE /\ late' \in MayBeLate(UpdateNames) /\ UNCHANGED alert
StopBoth ==
  /\ update' = FALSE /\ alert' = 0
  /\ late' \in MayBeLate(UpdateNames \cup AlertNames)

-----------------------------------------------------------------------------
(* Sessions *)

(* navigationSessionID: a hash of the second it is called in *)
SessionID == IF minted = 0 THEN sessions + 1 ELSE minted

(* beginNavigationLegLocked.  SessionStartedAt and SessionObservedAt are     *)
(* empty, "new", or "old": past the age a session may reach.               *)
BeginLeg(c) ==
  [c EXCEPT !.active = TRUE, !.session = SessionID, !.mode = "live",
            !.kind = "origin", !.named = FALSE, !.started = FALSE,
            !.alerted = FALSE, !.recent = FALSE, !.rerouted = FALSE,
            !.startedAt = "new", !.observedAt = "new", !.staged = NothingStaged]

(* Mutation: a recovered session still has its banner to come. *)
RecoveredUnquietly(c) == [c EXCEPT !.mode = "recovered", !.startedAt = ""]

(* A session found under way has no start and no banner. *)
Recovered(c) == [c EXCEPT !.mode = "recovered", !.startedAt = "", !.alerted = TRUE]

(* enqueueNavigationStartedLocked.  Without a name the banner waits for the *)
(* alert timer or the database.                                            *)
Started(c, b, resolved) ==
  LET quiet == c.mode = "recovered" \/ ~Transition(b)
      named == c.kind = "origin" /\ (c.named \/ (resolved /\ ~quiet))
      told == ~quiet /\ (named \/ c.kind = "reroute")
      next == [Made(c) EXCEPT !.named = IF quiet THEN @ ELSE named,
                              !.alerted = @ \/ told]
  IN [car |-> next, waits |-> ~quiet /\ ~told,
      event |-> Event("started", next, IF told THEN "both" ELSE "card")]

(* The end of the session c is in, as it was before the reading. *)
EndOf(c, to) == Event("ended", Made(c), to)

(* What else a session leaves behind in the car is not read again.         *)
Idle(c) ==
  [NewCar EXCEPT !.state = c.state, !.leg = c.leg, !.session = c.session,
                 !.observed = c.observed, !.revision = c.revision]

-----------------------------------------------------------------------------
(* Readings: observeMessage *)

Readings ==
  {[field |-> m[1], value |-> m[2], retained |-> FALSE] : m \in Published}
  \cup {[field |-> m[1], value |-> m[2], retained |-> TRUE] : m \in Retained}

IsRoute(m) == m.field = "active_route" /\ m.value # Invalid
Clears(m) == m.field = "active_route" /\ m.value = Invalid

(* A retained route to another stop than the session's *)
ChangesStop(m) == IsRoute(m) /\ car.active /\ m.value.to # car.leg.to

Noted(m) ==
  CASE m.field = "state" ->
         [baseline EXCEPT
           !.state = IF m.value = "" THEN "none"
                     ELSE IF m.retained THEN "retained" ELSE "live",
           !.inactive = @ \/ Parking(m.value)]
    [] m.field = "healthy" ->
         [baseline EXCEPT !.healthy = IF m.value = "no" THEN "no"
                                      ELSE IF m.retained THEN "" ELSE "yes"]
    [] m.field = "active_route" ->
         [baseline EXCEPT
           !.route = IF Clears(m) \/ (m.retained /\ ChangesStop(m)) THEN "none"
                     ELSE IF m.retained THEN "retained" ELSE "live",
           !.changed = IF m.retained /\ ChangesStop(m) THEN m.value ELSE NoRoute]

(* A live route that starts a new leg, if the car is still driving *)
StartsLeg(m) ==
  /\ ~m.retained /\ IsRoute(m) /\ car.active
  /\ \/ Classify(car.leg, m.value) = "new"
     \/ /\ Classify(car.leg, m.value) = "stage"
        /\ car.state = "driving" /\ Confirmed(car.staged, m.value)

WithRoute(c, m) ==
  LET applied == [c EXCEPT !.leg = Applied(@, m.value), !.staged = NothingStaged]
      staged == [c EXCEPT !.staged = Stage(@, m.value)]
  IN
  IF Clears(m)
  THEN IF c.active THEN c ELSE [c EXCEPT !.leg = NoRoute, !.staged = NothingStaged]
  ELSE IF m.retained THEN IF ChangesStop(m) THEN staged ELSE applied
  ELSE IF StartsLeg(m) THEN c
  ELSE IF Classify(c.leg, m.value) = "stage" THEN staged ELSE applied

Read(m) ==
  LET c == IF m.field = "active_route" /\ ~m.retained
           THEN [car EXCEPT !.observed = grace] ELSE car
  IN
  CASE m.field = "state" -> [c EXCEPT !.state = m.value]
    [] m.field = "active_route" -> WithRoute(c, m)
    [] OTHER -> c

(* What becomes of a reading that left baseline b and car c.               *)
Outcome(m, b, c) ==
  LET lives == ShouldBeActive(c, Clears(m))
      terminal == ~m.retained /\ car.active
                  /\ (Clears(m) \/ (m.field = "state" /\ Parking(m.value)))
  IN
  IF /\ ~m.retained /\ b.healthy = "yes" /\ b.state # "none"
     /\ c.state = "driving" /\ car.active /\ b.changed # NoRoute
  THEN "recovers"
  ELSE IF (m.retained \/ ~Ready(b)) /\ ~terminal THEN "is noted"
  ELSE IF StartsLeg(m) /\ lives /\ c.state = "driving" THEN "redirects"
  ELSE IF lives = car.active THEN "continues"
  ELSE IF lives THEN "begins" ELSE "ends"

(* recoverChangedRetainedRouteLocked: the card of the old session goes, and *)
(* the retained route becomes a session nobody saw begin, under a name of  *)
(* its own.                                                                *)
RecoverRoute(b, c) ==
  LET leg == [c EXCEPT !.leg = Applied(NoRoute, b.changed), !.revision = @ + 1]
      found == [Recovered(BeginLeg(leg)) EXCEPT !.session = sessions + 1,
                                                !.observed = FALSE]
      start == Started(found, b, FALSE)
  IN
  /\ car' = start.car
  /\ baseline' = [b EXCEPT !.route = IF @ = "none" THEN "retained" ELSE @,
                           !.changed = NoRoute]
  /\ Leaves(<<EndOf(c, "card"), start.event>>)
  /\ StopBoth /\ UNCHANGED <<delivery, earned>>

(* commitRedirectedLegLocked *)
Redirect(b, c, route) ==
  LET near == NearArrival(car.leg.left)
      leg == [c EXCEPT !.leg = Applied(NoRoute, route), !.revision = @ + 1]
      begun == [BeginLeg(leg) EXCEPT !.kind = "reroute"]
      start == Started(begun, b, FALSE)
      quiet == near \/ c.rerouted
  IN
  /\ car' = IF quiet THEN [start.car EXCEPT !.alerted = TRUE]
            ELSE [start.car EXCEPT !.rerouted = TRUE]
  /\ Leaves(<<EndOf(c, "card"),
              IF quiet THEN [start.event EXCEPT !.to = "card"] ELSE start.event>>)
  /\ earned' = earned \cup {car'.session}
  /\ StopBoth /\ UNCHANGED delivery

(* The start of a session, or another try of one not delivered yet *)
SendStart(start) ==
  /\ car' = start.car /\ Leaves(<<start.event>>)
  /\ IF start.waits
     THEN alert' = start.car.session /\ late' \in MayBeLate(AlertNames) /\ UNCHANGED update
     ELSE UNCHANGED timers
  /\ UNCHANGED delivery

Begin(b, c) ==
  /\ \E resolved \in BOOLEAN :
       LET begun == BeginLeg(c) IN
       SendStart(Started(IF Transition(b) THEN begun ELSE Recovered(begun), b, resolved))
  /\ earned' = IF Transition(b) THEN earned \cup {car'.session} ELSE earned

End(m, c) ==
  LET arrived == LooksArrived(car.leg.left) /\ (Clears(m) \/ Parking(c.state)) IN
  /\ car' = [Idle(c) EXCEPT !.revision = @ + 1,
                            !.leg = IF Clears(m) THEN NoRoute ELSE @]
  /\ Leaves(<<EndOf(c, IF arrived THEN "both" ELSE "card")>>)
  /\ StopBoth /\ UNCHANGED <<delivery, earned>>

(* Mutation: a reading that comes too soon after an event is dropped. *)
UpdateDueAtOnce(c) == Ready(baseline') /\ c.active /\ c.started /\ ~c.recent

(* scheduleUpdateLocked *)
UpdateDue(c) == Ready(baseline') /\ c.active /\ c.started
UpdateNow(c) == UpdateDue(c) /\ ~c.recent
Scheduled(c) == IF UpdateNow(c) THEN Made(c) ELSE c
ScheduledEvents(c) == IF UpdateNow(c) THEN <<Event("updated", Made(c), "card")>> ELSE <<>>

Continue(c) ==
  /\ UNCHANGED earned
  /\ IF c.active /\ ~c.started /\ ~c.recent
     THEN \E resolved \in BOOLEAN : SendStart(Started(c, baseline', resolved))
     ELSE /\ car' = Scheduled(c) /\ Enqueues(ScheduledEvents(c))
          /\ update' = (update \/ (UpdateDue(c) /\ c.recent))
          /\ UNCHANGED <<alert, late, leaving>>

Observe(m) ==
  LET b == Noted(m)
      c == Read(m)
      outcome == Outcome(m, b, c)
      begins == outcome \in {"redirects", "begins"}
      fresh == outcome = "recovers" \/ (begins /\ minted = 0)
  IN
  /\ Cardinality(leaving) < MaxLeaving
  /\ \/ car.revision < MaxRevision
     \/ car.revision = MaxRevision /\ outcome = "continues" /\ car.recent /\ car.started
  /\ car.session # 0 \/ sessions < MaxSessions
  /\ fresh => sessions < MaxSessions
  /\ IF outcome = "recovers" THEN RecoverRoute(b, c)
     ELSE /\ baseline' = b
          /\ CASE outcome = "is noted" ->
                    /\ car' = c
                    /\ UNCHANGED <<timers, leaving, delivery, earned>>
               [] outcome = "redirects" -> Redirect(b, c, m.value)
               [] outcome = "begins" -> Begin(b, c)
               [] outcome = "ends" -> End(m, c)
               [] outcome = "continues" -> Continue(c)
  /\ sessions' = IF fresh THEN sessions + 1 ELSE sessions
  /\ minted' = IF begins THEN SessionID ELSE minted
  /\ again' = IF begins /\ ~fresh THEN again \cup {minted} ELSE again
  /\ reading' = reading \cup (IF outcome \in {"is noted", "ends"} \/ ~car'.active
                              THEN {} ELSE {car'.session})
  /\ owing' = (Ready(baseline') /\
               IF outcome = "is noted" THEN owing
               ELSE outcome = "continues" /\ car'.active
                    /\ (owing \/ car'.started) /\ car'.revision = car.revision)
  /\ UNCHANGED <<grace, lost>>

-----------------------------------------------------------------------------
(* Timers and enrichment *)

(* flushUpdate deletes whichever timer is there; if it was another's       *)
(* callback that ran, that timer goes on unknown.                          *)
FlushUpdate ==
  /\ \/ update /\ UNCHANGED late
     \/ 0 \in late /\ late' = IF update THEN late ELSE late \ {0}
  /\ update' = FALSE
  /\ IF Ready(baseline) /\ car.active /\ car.started
     THEN /\ car' = Made(car)
          /\ Enqueues(<<Event("updated", Made(car), "card")>>) /\ owing' = FALSE
     ELSE UNCHANGED <<car, delivery, owing>>
  /\ UNCHANGED <<alert, baseline, reading, leaving, grace, naming, ghosts>>

(* flushStartAlert: likewise, but it knows its session. *)
FlushAlert(s) ==
  /\ \/ s = alert /\ UNCHANGED late
     \/ s \in late /\ \E waiting \in SUBSET AlertNames : late' = (late \ {s}) \cup waiting
  /\ alert' = 0
  /\ IF car.active /\ car.session = s /\ ~car.alerted /\ Ready(baseline)
     THEN \E resolved \in BOOLEAN :
            LET told == [Made(car) EXCEPT !.alerted = TRUE,
                                          !.named = @ \/ (resolved /\ car.kind = "origin")]
            IN /\ car' = told
               /\ Enqueues(<<Event("started", told, "banner")>>) /\ owing' = FALSE
     ELSE UNCHANGED <<car, delivery, owing>>
  /\ UNCHANGED <<update, baseline, reading, leaving, grace, naming, ghosts>>

(* enrichNavigationSession: the database knows a start name, or that the   *)
(* car has moved at all ("first"), or further.                             *)
Enrich(s, resolved, distance) ==
  LET names == resolved /\ ~car.named /\ car.kind = "origin"
      known == [car EXCEPT !.named = @ \/ names]
      tells == names /\ car.started /\ ~car.alerted
      told == IF tells THEN [Made(known) EXCEPT !.alerted = TRUE] ELSE known
      prompt == car.started /\ (names \/ distance = "first")
      shown == IF prompt THEN Made(told) ELSE Scheduled(told)
  IN
  /\ resolved => ~car.named
  /\ s \in reading /\ reading' = reading \ {s}
  /\ UNCHANGED <<baseline, leaving, grace, naming, ghosts>>
  /\ IF car.active /\ car.session = s /\ (names \/ distance # "none")
     THEN /\ car' = shown
          /\ Enqueues((IF tells THEN <<Event("started", told, "banner")>> ELSE <<>>)
                      \o (IF prompt THEN <<Event("updated", shown, "card")>>
                          ELSE ScheduledEvents(told)))
          /\ alert' = IF tells THEN 0 ELSE alert
          /\ update' = IF prompt THEN FALSE ELSE update \/ (UpdateDue(told) /\ told.recent)
          /\ late' \in MayBeLate((IF tells THEN AlertNames ELSE {})
                                 \cup (IF prompt THEN UpdateNames ELSE {}))
          /\ owing' = (owing /\ car'.revision = car.revision)
     ELSE UNCHANGED <<car, timers, delivery, owing>>

-----------------------------------------------------------------------------
(* Delivery: deliveryWorker and deliver *)

(* The relay took the event, or the durable outbox did, or no phone wants it. *)
Settled(e, accepted) ==
  LET mine == e.type = "started" /\ car.active /\ car.session = e.session
      c == IF mine THEN [car EXCEPT !.started = TRUE, !.recent = FALSE,
                                    !.alerted = @ \/ e.to # "card"]
           ELSE car
      updates == mine /\ accepted /\ UpdateNow(c)
      d == Holding(Tail(queue))
      sent == IF updates THEN Enqueued(d, Event("updated", Made(c), "card")) ELSE d
  IN
  /\ UNCHANGED <<baseline, update>>
  /\ car' = IF updates THEN Made(c) ELSE c
  /\ owing' = (owing /\ ~updates)
  /\ queue' = sent.queue /\ priority' = sent.priority
  /\ history' = Recorded(sent.history, e)

GivesUp(n) == n + 1 = Attempts

DeliverOrdinary(outcome) ==
  /\ queue # <<>>
  /\ IF outcome = "failed"
     THEN /\ "relay" \in Faults
          /\ tries' = [tries EXCEPT !.ordinary = IF GivesUp(@) THEN 0 ELSE @ + 1]
          /\ queue' = IF GivesUp(tries.ordinary) THEN Tail(queue) ELSE queue
          /\ history' = Recorded(history, Head(queue))
          /\ UNCHANGED <<car, baseline, update, priority, owing>>
     ELSE Settled(Head(queue), outcome = "accepted") /\ tries' = [tries EXCEPT !.ordinary = 0]
  /\ UNCHANGED <<alert, late, reading, leaving, grace, naming, ghosts>>

DeliverTerminal(outcome) ==
  LET done == outcome # "failed" \/ GivesUp(tries.terminal) IN
  /\ priority # <<>>
  /\ outcome = "failed" => "relay" \in Faults
  /\ priority' = IF done THEN Tail(priority) ELSE priority
  /\ tries' = [tries EXCEPT !.terminal = IF done THEN 0 ELSE @ + 1]
  /\ history' = Recorded(history, Head(priority))
  /\ UNCHANGED <<car, baseline, timers, reading, leaving, queue, grace, naming,
                 ghosts, owing>>

-----------------------------------------------------------------------------
(* The watchdog, restarts, the fleet, the registry and time *)

(* A session ends without a reading of its own. *)
EndStale(c) ==
  /\ car' = Idle(Made(c))
  /\ Leaves(<<EndOf(c, "card")>>) /\ owing' = FALSE

(* Mutation: only sessions with a known start can be too old. *)
OldIfStarted(c) == c.startedAt = "old"

(* SessionStartedAt, else SessionObservedAt; neither is too old as well.   *)
TooOld(c) == (IF c.startedAt = "" THEN c.observedAt ELSE c.startedAt) # "new"

(* expireStaleSessions *)
Expire ==
  /\ car.active /\ TooOld(car)
  /\ EndStale(car) /\ StopUpdate
  /\ UNCHANGED <<baseline, reading, delivery, grace, naming, ghosts>>

(* reconcileRestoredSessionsNow *)
ReconcileRestored ==
  /\ grace /\ grace' = FALSE
  /\ LET c == [car EXCEPT !.observed = FALSE] IN
     IF car.active /\ ~car.observed /\ ~Ready(baseline)
     THEN EndStale(c)
     ELSE car' = c /\ UNCHANGED <<leaving, owing>>
  /\ UNCHANGED <<baseline, timers, reading, delivery, naming, ghosts>>

(* reconcileFleet, when the car has left the fleet *)
ReconcileFleet ==
  /\ car # NewCar /\ sessions = MaxSessions
  /\ car' = NewCar /\ baseline' = NoBaseline /\ owing' = FALSE
  /\ IF car.active THEN Leaves(<<EndOf(car, "card")>>) ELSE UNCHANGED leaving
  /\ StopBoth
  /\ UNCHANGED <<reading, delivery, grace, naming, ghosts>>

(* replayActiveStartsMatching, for a phone that has just turned this on *)
Replay ==
  /\ Cardinality(leaving) < MaxLeaving /\ car.revision < MaxRevision
  /\ Ready(baseline) /\ car.active
  /\ car' = Made(car) /\ Leaves(<<Event("started", Made(car), "card")>>)
  /\ owing' = FALSE
  /\ UNCHANGED <<baseline, timers, reading, delivery, grace, naming, ghosts>>

(* resetMQTTBaselineLocked, when the connection is lost or made *)
Reset ==
  /\ baseline' = NoBaseline /\ StopBoth /\ owing' = FALSE
  /\ UNCHANGED <<car, reading, leaving, delivery, grace, naming, ghosts>>

(* saveLocked and saveHistoryLocked, whose errors every caller ignores *)
Written(saved, memory) ==
  saved' = memory' \/ ("save" \in Faults /\ saved' = saved)

(* The bound on failing saves in an instance: one at a time, with the last  *)
(* of the sessions, before a crash has lost anything.                      *)
OneSaveFails ==
  /\ "oneSave" \in Faults /\ file = <<car, history>> /\ UNCHANGED file
  /\ sessions' = MaxSessions /\ lost = {}

SavesBoth ==
  \/ Written(carFile, car) /\ Written(historyFile, history)
  \/ OneSaveFails
SavesHistory ==
  \/ UNCHANGED carFile /\ Written(historyFile, history)
  \/ OneSaveFails

(* What a crash takes along: events that nobody has enqueued, and what the *)
(* files do not have.                                                      *)
LostNow ==
  (UNION {{es[i].session : i \in DOMAIN es} : es \in leaving})
  \cup {s \in Sessions : historyFile[s] # history[s]}
  \cup (IF carFile = car THEN {} ELSE {carFile.session, car.session} \ {0})

(* The process dies and loads its files again. *)
Restart ==
  /\ "crash" \in Faults
  /\ car' = [carFile EXCEPT !.observed = FALSE] /\ history' = historyFile
  /\ carFile' = car' /\ UNCHANGED historyFile /\ baseline' = NoBaseline
  /\ update' = FALSE /\ alert' = 0 /\ late' = {} /\ reading' = {}
  /\ leaving' = {} /\ queue' = <<>> /\ priority' = <<>>
  /\ tries' = [ordinary |-> 0, terminal |-> 0]
  /\ grace' = TRUE
  /\ lost' = lost \cup LostNow
  /\ owing' = FALSE
  /\ UNCHANGED <<naming, earned>>

(* The age of a session that is too old is hours: it is not reached while   *)
(* something is under way that takes seconds.                              *)
Calm ==
  /\ queue = <<>> /\ priority = <<>> /\ reading = {}
  /\ ~update /\ alert = 0 /\ ~grace /\ ~car.recent

Aged(at) == IF at = "" THEN "" ELSE "old"

Passed(c, what) ==
  CASE what = "recent"   -> [c EXCEPT !.recent = FALSE]
    [] what = "rerouted" -> [c EXCEPT !.rerouted = FALSE]
    [] what = "session"  -> [c EXCEPT !.startedAt = Aged(@), !.observedAt = Aged(@)]
    [] what = "staged"   -> [c EXCEPT !.staged = Older(@)]

(* Handlers and callbacks wait for nothing but the lock; what passes here  *)
(* takes more than the second a session began in.                          *)
TimePasses ==
  /\ leaving = {} /\ late = {} /\ minted = 0
  /\ \E what \in {"recent", "rerouted", "session", "staged"} :
       /\ what = "session" => Calm
       /\ car' = Passed(car, what) /\ car' # car
       /\ carFile' = Passed(carFile, what)
  /\ UNCHANGED <<baseline, timers, reading, leaving, delivery, grace, historyFile,
                 naming, ghosts, owing>>

(* The second a session began in is over. *)
SecondPasses ==
  /\ minted # 0 /\ minted' = 0
  /\ UNCHANGED <<car, baseline, timers, reading, leaving, delivery, grace, sessions,
                 again, ghosts, owing>>

Init ==
  /\ car = NewCar /\ baseline = NoBaseline
  /\ update = FALSE /\ alert = 0 /\ late = {} /\ reading = {} /\ leaving = {}
  /\ queue = <<>> /\ priority = <<>> /\ tries = [ordinary |-> 0, terminal |-> 0]
  /\ history = [s \in Sessions |-> NoHistory]
  /\ carFile = car /\ historyFile = history
  /\ grace = TRUE /\ sessions = 0 /\ minted = 0 /\ again = {}
  /\ earned = {} /\ lost = {} /\ owing = FALSE

Distances == {"none", "first", "further"}
Delivered == {"accepted", "queued"}

(* What works with the car saves it at the end. *)
Works ==
  \/ \E m \in Readings : Observe(m)
  \/ FlushUpdate
  \/ \E s \in Sessions : FlushAlert(s)
  \/ \E s \in reading, resolved \in BOOLEAN, distance \in Distances :
       Enrich(s, resolved, distance)
  \/ \E outcome \in Delivered : DeliverOrdinary(outcome) \/ DeliverTerminal(outcome)
  \/ Expire \/ ReconcileRestored \/ ReconcileFleet \/ Replay

(* What only records an event *)
Records ==
  \/ \E events \in leaving : EnqueueLeaving(events)
  \/ DeliverOrdinary("failed") \/ DeliverTerminal("failed")

Next ==
  \/ Works /\ SavesBoth
  \/ Records /\ SavesHistory
  \/ (Reset \/ SecondPasses) /\ UNCHANGED file
  \/ Restart \/ TimePasses

Spec == Init /\ [][Next]_vars

(* Timers fire and the watchdog ticks. *)
Fairness == WF_vars(FlushUpdate /\ SavesBoth) /\ WF_vars(Expire /\ SavesBoth)

FairSpec == Spec /\ Fairness

-----------------------------------------------------------------------------
Events == [type : {"started", "updated", "ended"}, session : Sessions,
           revision : Nat, to : {"card", "banner", "both"}]

Times == {"", "new", "old"}
Cars == [state : States, leg : Routes, staged : Staged, active : BOOLEAN,
         session : Sessions \cup {0}, mode : {"live", "recovered"},
         kind : {"origin", "reroute"}, named : BOOLEAN, started : BOOLEAN,
         alerted : BOOLEAN, recent : BOOLEAN, rerouted : BOOLEAN,
         startedAt : Times, observedAt : Times, observed : BOOLEAN, revision : Nat]

Baselines == [state : {"none", "retained", "live"},
              route : {"none", "retained", "live"},
              healthy : {"", "yes", "no"}, inactive : BOOLEAN, changed : Routes]

HistoryRecords == [type : {"none", "started", "updated", "ended"}, revision : Nat]

TypeOK ==
  /\ {car, carFile} \subseteq Cars /\ baseline \in Baselines
  /\ car.active => car.session # 0 /\ car.leg.to # Nowhere
  /\ {update, grace, owing} \subseteq BOOLEAN
  /\ alert \in Sessions \cup {0} /\ late \subseteq Sessions \cup {0}
  /\ reading \subseteq Sessions
  /\ leaving \subseteq Seq(Events)
  /\ queue \in Seq(Events) /\ \A i \in DOMAIN queue : queue[i].type # "ended"
  /\ priority \in Seq(Events) /\ \A i \in DOMAIN priority : priority[i].type = "ended"
  /\ Len(queue) <= QueueSize + 1 /\ Len(priority) <= QueueSize + 1
  /\ tries \in [ordinary : 0..(Attempts - 1), terminal : 0..(Attempts - 1)]
  /\ {history, historyFile} \subseteq [Sessions -> HistoryRecords]
  /\ sessions \in 0..MaxSessions /\ minted \in 0..sessions
  /\ again \cup earned \cup lost \subseteq Sessions

OnItsWay(s) == \E events \in leaving : \E i \in DOMAIN events : events[i].session = s

UnderWay(s) == car.active /\ car.session = s

(* What the App reads agrees with the car: once its events have reached    *)
(* the queues, a session is on record as ended exactly if it is not the    *)
(* one under way, in whatever order handlers, callbacks and the two        *)
(* workers got to the record (navigation_notification.go:1839).  It may be *)
(* on record as ended and under way if it began again within the second of *)
(* its name (line 821), and nothing is said of what a crash lost: events   *)
(* not yet enqueued, or a state that a save had failed to write.           *)
HistoryAgrees ==
  \A s \in 1..sessions \ lost :
    ~OnItsWay(s) =>
      IF UnderWay(s) THEN history[s].type = "ended" => s \in again
      ELSE history[s].type = "ended"

(* A session nobody saw begin is never announced as a departure: no retry, *)
(* late alert timer, name from the database or reconnect lets a banner out *)
(* for it (navigation_notification.go:691).                                *)
RecoveriesAreQuiet ==
  \A i \in DOMAIN queue :
    queue[i].type = "started" /\ queue[i].to # "card" => queue[i].session \in earned

(* The last progress of a trip is sent: a reading that came too soon after *)
(* the previous event goes out later, whatever stops or replaces the timer *)
(* it waits for, unless another event of the session is made first (as a   *)
(* banner or a replay), the session ends or the baseline is lost           *)
(* (navigation_notification.go:1117).                                      *)
ProgressIsSent == owing ~> ~owing

(* No trip stays on the phone for ever: one that has lasted too long is    *)
(* ended without any reading, also when nobody knows when it began         *)
(* (navigation_notification.go:1553).                                      *)
StaleSessionsEnd ==
  car.active /\ car.observedAt = "old" ~> ~car.active \/ car.observedAt # "old"

=============================================================================
