----------------------------- MODULE LowBattery -----------------------------
(***************************************************************************)
(* The low-battery monitor of src/low_battery_notification.go for one car: *)
(* the MQTT observations, the settling timer, the episode with its two     *)
(* alerts, the owners' acknowledgements and snoozes, the reminder loop,    *)
(* the state file, reconnects, fleet changes and restarts.                 *)
(*                                                                         *)
(* Every handler works under m.mu and is one action.  A timer callback     *)
(* first waits for the lock, evaluates, releases it and then fans out to   *)
(* the phones one by one, taking the lock for a recheck before each: those *)
(* are separate actions.  Stop on a timer that has fired does nothing, and *)
(* evaluate deletes the map entry whichever timer it names by then.        *)
(***************************************************************************)
EXTENDS Integers, FiniteSets

CONSTANTS
  Installations,    \* iPhones that may want low-battery alerts
  Callbacks,        \* goroutines of fired timers
  ReminderLoop,     \* the goroutine of reminderLoop
  Levels,           \* battery percentages
  EnterPercent, SeverePercent, RearmPercent,
  Messages,         \* <<field, value>> pairs TeslaMate may publish
  SnoozeDelay,      \* lowBatterySnoozeDelay
  Episodes,         \* episode IDs
  MaxOrphans,       \* bound: running timers that m.timers has forgotten
  Faults            \* the faults of the environment: "crash", "save"

Threads == Callbacks \cup {ReminderLoop}
NoLevel == -1
NoEpisode == "no episode"
Kinds == {"low", "severe", "reminder"}

ASSUME Thresholds ==
  /\ Levels \subseteq Nat /\ {EnterPercent, SeverePercent, RearmPercent} \subseteq Nat
  /\ SeverePercent < EnterPercent /\ EnterPercent < RearmPercent

ASSUME Bounds ==
  /\ SnoozeDelay \in Nat \ {0} /\ MaxOrphans \in Nat \ {0}
  /\ NoEpisode \notin Episodes /\ ReminderLoop \notin Callbacks

ASSUME MessageShape ==
  Messages \subseteq
    ({"battery_level"} \X (Levels \cup {NoLevel}))
    \cup ({"state"} \X {"online", "driving"})
    \cup ({"charging_state"} \X {"stopped", "charging"})
    \cup ({"shift_state"} \X {"", "D"})

Choices == [action : {"none", "ack", "cancelled", "superseded", "completed"},
            left : {0}]
           \cup [action : {"snooze_4h"}, left : 0..SnoozeDelay]
Car == [present : BOOLEAN, level : Levels \cup {NoLevel},
        state : {"", "online", "driving"}, shift : {"", "D"},
        charging : {"", "stopped", "charging"},
        initialized : BOOLEAN, latched : BOOLEAN, severe : BOOLEAN,
        episode : Episodes \cup {NoEpisode},
        actions : [Installations -> Choices]]
Idle == [pc |-> "idle"]
Waiting == [pc |-> "waiting"]
FanOuts == [pc : {"sending"}, kind : Kinds, episode : Episodes,
            to : SUBSET Installations]

VARIABLES
  car,        \* m.store.Cars[id]
  disk,       \* the same in low-battery-state.json
  dirty,      \* the last save failed
  armed,      \* the timer in m.timers is running
  orphans,    \* timers that run but are no longer in m.timers
  threads,    \* fired callbacks, fan-outs and the reminder loop
  linked,     \* subscribed on the present MQTT connection
  inFleet,    \* mqttCarEligible
  evidence,   \* history: "none", a "baseline", or a "live" message since one
  handed,     \* history: <<phone, alert>> handed over since the last rearm
  credit      \* history: snoozes since the last rearm without a reminder

vars == <<car, disk, dirty, armed, orphans, threads, linked, inFleet,
          evidence, handed, credit>>
store == <<car, disk, dirty>>
timers == <<armed, orphans>>
world == <<linked, inFleet>>
history == <<evidence, handed, credit>>

-----------------------------------------------------------------------------
NoChoices == [i \in Installations |-> [action |-> "none", left |-> 0]]

NewCar == [present |-> TRUE, level |-> NoLevel, state |-> "", shift |-> "",
           charging |-> "", initialized |-> FALSE, latched |-> FALSE,
           severe |-> FALSE, episode |-> NoEpisode, actions |-> NoChoices]
NoCar == [NewCar EXCEPT !.present = FALSE]

SaveOutcomes == IF "save" \in Faults THEN BOOLEAN ELSE {TRUE}

(* saveStateLocked *)
Save(ok) ==
  /\ disk' = IF ok THEN car' ELSE disk
  /\ dirty' = ~ok

(* The guard of evaluate and of processDueReminders *)
Complete(c) ==
  c.present /\ c.level # NoLevel /\ c.state # "" /\ c.charging # ""

IsCharging(c) == c.charging = "charging"

(* lowBatteryEligible; an unknown gear counts as parked *)
Eligible(c) ==
  /\ c.level # NoLevel /\ c.level < EnterPercent
  /\ c.shift # "D" /\ c.state # "driving" /\ ~IsCharging(c)

Snoozed(c, i) == c.actions[i].action = "snooze_4h"
Due(c, i) == Snoozed(c, i) /\ c.actions[i].left = 0

(* Pending snoozes become cancelled, superseded or completed. *)
EndSnoozes(c, which, outcome) ==
  [c EXCEPT !.actions = [i \in Installations |->
     IF i \in which THEN [action |-> outcome, left |-> 0] ELSE c.actions[i]]]
AllSnoozed(c) == {i \in Installations : Snoozed(c, i)}

(* Mutation: rearming keeps the owners' choices. *)
RearmKeepsChoices(c) == [c EXCEPT !.latched = FALSE, !.severe = FALSE,
                                  !.episode = NoEpisode]

Rearm(c) == [c EXCEPT !.latched = FALSE, !.severe = FALSE,
                      !.episode = NoEpisode, !.actions = NoChoices]

Init ==
  /\ car = NoCar /\ disk = NoCar /\ dirty = FALSE
  /\ armed = FALSE /\ orphans = 0
  /\ threads = [t \in Threads |-> Idle]
  /\ linked = FALSE /\ inFleet = TRUE
  /\ evidence = "none" /\ handed = {}
  /\ credit = [i \in Installations |-> 0]

-----------------------------------------------------------------------------
(* Observations *)

Known == IF car.present THEN car ELSE NewCar

WithField(c, field, value) ==
  CASE field = "battery_level"  -> [c EXCEPT !.level = value]
    [] field = "state"          -> [c EXCEPT !.state = value]
    [] field = "shift_state"    -> [c EXCEPT !.shift = value]
    [] field = "charging_state" -> [c EXCEPT !.charging = value]

(* Mutation: a retained replay counts as an observation like any other. *)
ObservedReplay(c, field, value, retained) ==
  LET updated == WithField(c, field, value)
  IN  [updated EXCEPT !.initialized = @ /\ updated.state # ""
                                        /\ updated.charging # ""]

(* What a valid value makes of the car.  A retained one, and an incomplete *)
(* snapshot, put it back to waiting for a baseline.                        *)
Observed(c, field, value, retained) ==
  LET updated == WithField(c, field, value)
  IN  [updated EXCEPT !.initialized = @ /\ ~retained /\ updated.state # ""
                                        /\ updated.charging # ""]

(* Mutation: the settling timer is only armed for an initialized car. *)
ArmLate(c) == armed' = (armed \/ c.initialized)

(* The previous timer is stopped and a new one started. *)
Arm(c) == armed' = TRUE

(* observeMessage.  An empty level, state or charging state changes        *)
(* nothing and is no action here; an unusable level neither saves nor arms.*)
Observe(message, retained, ok) ==
  LET field == message[1] value == message[2] IN
  /\ linked /\ inFleet
  /\ \/ /\ field = "battery_level" /\ value = NoLevel
        /\ car' = [Known EXCEPT !.level = NoLevel, !.initialized = FALSE]
        /\ UNCHANGED <<disk, dirty, armed>>
     \/ /\ <<field, value>> # <<"battery_level", NoLevel>>
        /\ car' = Observed(Known, field, value, retained)
        /\ Save(ok)
        /\ Arm(Known)
  /\ evidence' = IF retained THEN "none"
                 ELSE IF evidence = "baseline" THEN "live" ELSE evidence
  /\ UNCHANGED <<orphans, threads, linked, inFleet, handed, credit>>

-----------------------------------------------------------------------------
(* The settling timer and evaluate *)

TimerFires(t) ==
  /\ threads[t] = Idle
  /\ \/ armed /\ armed' = FALSE /\ UNCHANGED orphans
     \/ orphans > 0 /\ orphans' = orphans - 1 /\ UNCHANGED armed
  /\ threads' = [threads EXCEPT ![t] = Waiting]
  /\ UNCHANGED <<store, world, history>>

(* delete(m.timers, carID): a timer armed since is forgotten, not stopped. *)
ForgetTimer ==
  /\ armed' = FALSE
  /\ orphans' = IF armed /\ orphans < MaxOrphans THEN orphans + 1 ELSE orphans

Rearmed(c) == IF c.level >= RearmPercent THEN Rearm(c) ELSE c

(* IDs are random: never one that anything still refers to *)
FreshEpisodes ==
  Episodes \ ({car.episode, disk.episode}
              \cup {threads[t].episode : t \in {u \in Threads :
                                                  threads[u].pc = "sending"}})

(* Mutation: a car that is not low at the baseline loses its episode. *)
BaselineForgets(c, episode) ==
  LET settled == [Rearmed(c) EXCEPT !.initialized = TRUE]
  IN  IF Eligible(c)
      THEN [settled EXCEPT !.latched = TRUE, !.severe = c.level < SeverePercent,
              !.episode = episode,
              !.actions = IF c.episode = NoEpisode THEN NoChoices ELSE @]
      ELSE Rearm(settled)

(* Mutation: an episode found at the baseline gets no ID. *)
BaselineUnnamed(c, episode) ==
  LET settled == [Rearmed(c) EXCEPT !.initialized = TRUE]
  IN  IF Eligible(c)
      THEN [settled EXCEPT !.latched = TRUE, !.severe = c.level < SeverePercent]
      ELSE settled

(* The first complete snapshot only sets the latches, without any alert.   *)
Baseline(c, episode) ==
  LET settled == [Rearmed(c) EXCEPT !.initialized = TRUE]
  IN  IF Eligible(c)
      THEN [settled EXCEPT !.latched = TRUE, !.severe = c.level < SeverePercent,
              !.episode = episode,
              !.actions = IF c.episode = NoEpisode THEN NoChoices ELSE @]
      ELSE settled

(* What an evaluation after the baseline starts from: rearmed at 25 per    *)
(* cent, and charging cancels the pending snoozes.                         *)
Settled(c) ==
  IF IsCharging(c) THEN EndSnoozes(Rearmed(c), AllSnoozed(Rearmed(c)), "cancelled")
                   ELSE Rearmed(c)

Opened(c, episode) ==
  [c EXCEPT !.latched = TRUE, !.severe = c.level < SeverePercent,
            !.episode = episode, !.actions = NoChoices]

Escalated(c) ==
  EndSnoozes([c EXCEPT !.severe = TRUE], AllSnoozed(c), "superseded")

(* fanOut to the phones that want the alert just now *)
StartFanOut(t, kind, episode) ==
  \E to \in SUBSET Installations :
    threads' = [threads EXCEPT ![t] = IF to = {} THEN Idle ELSE
      [pc |-> "sending", kind |-> kind, episode |-> episode, to |-> to]]

RearmHistory ==
  IF car.level >= RearmPercent
  THEN handed' = {} /\ credit' = [i \in Installations |-> 0]
  ELSE UNCHANGED <<handed, credit>>

TakeBaseline(t) ==
  /\ ~car.initialized
  /\ \E episode \in IF car.episode = NoEpisode THEN FreshEpisodes ELSE {car.episode} :
       car' = Baseline(car, episode)
  /\ threads' = [threads EXCEPT ![t] = Idle]
  /\ evidence' = "baseline"

OpenEpisode(t) ==
  LET c == Settled(car) IN
  /\ car.initialized /\ Eligible(c) /\ ~c.latched
  /\ \E episode \in FreshEpisodes :
       /\ car' = Opened(c, episode)
       /\ StartFanOut(t, IF car'.severe THEN "severe" ELSE "low", episode)
  /\ UNCHANGED evidence

Escalate(t) ==
  LET c == Settled(car) IN
  /\ car.initialized /\ Eligible(c) /\ c.latched
  /\ c.level < SeverePercent /\ ~c.severe
  /\ car' = Escalated(c)
  /\ StartFanOut(t, "severe", c.episode)
  /\ UNCHANGED evidence

NothingNew(t) ==
  LET c == Settled(car) IN
  /\ car.initialized
  /\ (~Eligible(c) \/ (c.latched /\ (c.severe \/ c.level >= SeverePercent)))
  /\ car' = c
  /\ threads' = [threads EXCEPT ![t] = Idle]
  /\ UNCHANGED evidence

Evaluate(t, ok) ==
  /\ threads[t] = Waiting
  /\ ForgetTimer
  /\ \/ /\ ~Complete(car)
        /\ threads' = [threads EXCEPT ![t] = Idle]
        /\ UNCHANGED <<store, history>>
     \/ /\ Complete(car)
        /\ TakeBaseline(t) \/ OpenEpisode(t) \/ Escalate(t) \/ NothingNew(t)
        /\ Save(ok)
        /\ RearmHistory
  /\ UNCHANGED world

-----------------------------------------------------------------------------
(* The fan-out of an alert or of the due reminders *)

(* Mutation: any episode of the car will do. *)
StillCurrentAnyEpisode(t) ==
  car.present /\ car.initialized /\ Eligible(car)

(* currentEpisode of fanOut *)
StillCurrent(t) ==
  /\ car.present /\ car.initialized
  /\ car.episode = threads[t].episode /\ Eligible(car)

Remaining(t, i) == threads[t].to \ {i}
StillToDo(t, to) ==
  threads' = [threads EXCEPT ![t] = IF to = {} THEN Idle ELSE [@ EXCEPT !.to = to]]

(* One phone is handed its push; the registry does the rest.               *)
HandOver(t, i) ==
  /\ threads[t].pc = "sending" /\ i \in threads[t].to /\ StillCurrent(t)
  /\ StillToDo(t, Remaining(t, i))
  /\ IF threads[t].kind = "reminder"
     THEN /\ credit' = [credit EXCEPT ![i] = IF @ = 0 THEN 0 ELSE @ - 1]
          /\ UNCHANGED handed
     ELSE /\ handed' = handed \cup {<<i, threads[t].kind>>}
          /\ UNCHANGED credit
  /\ UNCHANGED <<store, timers, world, evidence>>

(* An alert that is no longer current is over for all its phones; each     *)
(* reminder is a fan-out of its own.                                       *)
GiveUp(t, i) ==
  /\ threads[t].pc = "sending" /\ i \in threads[t].to /\ ~StillCurrent(t)
  /\ StillToDo(t, IF threads[t].kind = "reminder" THEN Remaining(t, i) ELSE {})
  /\ UNCHANGED <<store, timers, world, history>>

(* Mutation: a snooze is kept when no reminder can be sent. *)
SnoozesOverWhileLow == {i \in Installations : Due(car, i) /\ Eligible(car)}

SnoozesOver == {i \in Installations : Due(car, i)}

(* processDueReminders, every minute *)
RemindersDue(ok) ==
  LET over == IF Complete(car) /\ car.initialized /\ inFleet THEN SnoozesOver ELSE {}
      due == IF car.latched /\ Eligible(car) THEN over ELSE {}
  IN
  /\ threads[ReminderLoop] = Idle
  /\ car' = EndSnoozes(car, over, "completed")
  /\ Save(ok)
  /\ \E to \in SUBSET due :
       threads' = [threads EXCEPT ![ReminderLoop] = IF to = {} THEN Idle ELSE
         [pc |-> "sending", kind |-> "reminder", episode |-> car.episode, to |-> to]]
  /\ UNCHANGED <<timers, world, history>>

(* applyAction; a request for another episode is answered and ignored.     *)
ApplyAction(i, action, episode, ok) ==
  /\ car.present /\ car.latched /\ car.episode = episode
  /\ car' = [car EXCEPT !.actions = [@ EXCEPT ![i] =
       [action |-> action, left |-> IF action = "snooze_4h" THEN SnoozeDelay ELSE 0]]]
  /\ Save(ok)
  /\ credit' = [credit EXCEPT ![i] = IF action = "snooze_4h" /\ @ < 2 THEN @ + 1 ELSE @]
  /\ UNCHANGED <<timers, threads, world, evidence, handed>>

-----------------------------------------------------------------------------
(* Connections, the fleet, time and restarts *)

(* resetObservationBaselineLocked; nothing is saved *)
ResetBaseline ==
  /\ car' = IF car.present
            THEN [car EXCEPT !.initialized = FALSE, !.state = "", !.shift = "",
                             !.charging = "", !.level = NoLevel]
            ELSE car
  /\ armed' = FALSE
  /\ evidence' = "none"
  /\ UNCHANGED <<disk, dirty, orphans, threads, inFleet, handed, credit>>

Connect == ~linked /\ linked' = TRUE /\ ResetBaseline
ConnectionLost == linked /\ linked' = FALSE /\ ResetBaseline

(* The fleet snapshot enables or disables the car, or grows stale ...      *)
FleetChanges ==
  /\ inFleet' = ~inFleet
  /\ UNCHANGED <<store, timers, threads, linked, history>>

(* ... and reconcileFleet forgets a car that is no longer in it.           *)
ReconcileFleet ==
  /\ ~inFleet /\ car.present
  /\ car' = NoCar /\ armed' = FALSE /\ handed' = {}
  /\ UNCHANGED <<disk, dirty, orphans, threads, world, evidence, credit>>

Aged(c) ==
  [c EXCEPT !.actions = [i \in Installations |->
     [c.actions[i] EXCEPT !.left = IF @ = 0 THEN 0 ELSE @ - 1]]]

Tick ==
  /\ car' = Aged(car) /\ disk' = Aged(disk)
  /\ UNCHANGED <<dirty, timers, threads, world, history>>

(* The process dies; loadState restores the file, Initialized and the      *)
(* observed values included, before any connection.                        *)
Restart ==
  /\ "crash" \in Faults
  /\ car' = disk /\ dirty' = FALSE /\ UNCHANGED disk
  /\ armed' = FALSE /\ orphans' = 0
  /\ threads' = [t \in Threads |-> Idle]
  /\ linked' = FALSE /\ evidence' = "none"
  /\ handed' = IF dirty THEN {} ELSE handed
  /\ credit' = IF dirty THEN [i \in Installations |-> 2] ELSE credit
  /\ UNCHANGED inFleet

-----------------------------------------------------------------------------
CallbackStep(t, ok) ==
  \/ TimerFires(t)
  \/ Evaluate(t, ok)
  \/ \E i \in Installations : HandOver(t, i) \/ GiveUp(t, i)

ReminderStep(ok) ==
  \/ RemindersDue(ok)
  \/ \E i \in Installations : HandOver(ReminderLoop, i) \/ GiveUp(ReminderLoop, i)

Environment(ok) ==
  \/ \E message \in Messages, retained \in BOOLEAN : Observe(message, retained, ok)
  \/ \E i \in Installations, action \in {"ack", "snooze_4h"}, episode \in Episodes :
       ApplyAction(i, action, episode, ok)

Next ==
  \/ \E ok \in SaveOutcomes :
       \/ \E t \in Callbacks : CallbackStep(t, ok)
       \/ ReminderStep(ok)
       \/ Environment(ok)
  \/ Connect \/ ConnectionLost \/ FleetChanges \/ ReconcileFleet
  \/ Tick \/ Restart

Spec == Init /\ [][Next]_vars

(* Go's timers fire, their callbacks run, and the reminder ticker and the  *)
(* clock go on; nothing is asked of the broker, the car or the owners.     *)
FairSpec ==
  /\ Spec
  /\ WF_vars(Tick)
  /\ WF_vars(\E ok \in SaveOutcomes : ReminderStep(ok))
  /\ \A t \in Callbacks : WF_vars(\E ok \in SaveOutcomes : CallbackStep(t, ok))

-----------------------------------------------------------------------------
(* Properties *)

(* The car in memory and in the file, the timers and the fan-outs are well *)
(* formed.                                                                 *)
TypeOK ==
  /\ car \in Car /\ disk \in Car /\ dirty \in BOOLEAN
  /\ armed \in BOOLEAN /\ orphans \in 0..MaxOrphans
  /\ threads \in [Threads -> FanOuts \cup {Idle, Waiting}]
  /\ linked \in BOOLEAN /\ inFleet \in BOOLEAN
  /\ evidence \in {"none", "baseline", "live"}
  /\ handed \subseteq Installations \X Kinds
  /\ credit \in [Installations -> 0..2]

(* The latch, the episode and the owners' choices stand and fall together, *)
(* in memory and in the file: nothing is escalated without an episode and  *)
(* no snooze outlives the episode it belongs to.                           *)
LatchCoherent(c) ==
  /\ c.latched <=> c.episode # NoEpisode
  /\ c.severe => c.latched
  /\ c.latched \/ c.actions = NoChoices
EpisodesCoherent == LatchCoherent(car) /\ LatchCoherent(disk)

(* A process start, a reconnect and a retained replay only ever set a      *)
(* baseline (README.md:64): an alert starts after a live message that came *)
(* after a complete baseline, whatever order the messages and the callbacks*)
(* of stopped and forgotten timers run in.                                 *)
Starts(t, kind) ==
  /\ threads[t].pc # "sending" /\ threads'[t].pc = "sending"
  /\ threads'[t].kind = kind
AlertsNeedLiveEvidence ==
  [][\A t \in Threads : Starts(t, "low") \/ Starts(t, "severe")
       => evidence = "live"]_vars

(* No phone is handed a second ordinary alert before the battery has been  *)
(* seen at 25 per cent again, or the car was removed from the fleet, or a  *)
(* failed save was followed by a crash: not after reconnects, restarts,    *)
(* charging or driving in between, and not by a fan-out that was overtaken.*)
Hands(t, i, kind) ==
  /\ threads[t].pc = "sending" /\ threads[t].kind = kind /\ i \in threads[t].to
  /\ HandOver(t, i)
OneLowAlertPerDescent ==
  [][\A t \in Threads, i \in Installations :
       Hands(t, i, "low") => <<i, "low">> \notin handed]_vars

(* RELEASE_NOTES_1.10.35.md:10 and README.md:66: one stronger alert per    *)
(* episode.                                                                *)
OneSevereAlertPerDescent ==
  [][\A t \in Threads, i \in Installations :
       Hands(t, i, "severe") => <<i, "severe">> \notin handed]_vars

(* A snooze yields at most one reminder, and only in its own episode: not  *)
(* after a restart, since it is completed and saved before the reminder is *)
(* sent, and not when the reminder was overtaken by a rearming.            *)
OneReminderPerSnooze ==
  [][\A t \in Threads, i \in Installations :
       Hands(t, i, "reminder") => credit[i] > 0]_vars

(* A car that is seen low, parked and not charging on a live connection    *)
(* does not stay unnoticed: it is latched, or it is no longer so.          *)
LowIsNoticed ==
  (linked /\ Complete(car) /\ Eligible(car))
    ~> (car.latched \/ ~linked \/ ~Complete(car) \/ ~Eligible(car))

(* An expired snooze does not stay pending while the baseline is known,    *)
(* whether or not the car still deserves a reminder.                       *)
SnoozesEnd ==
  <>[](Complete(car) /\ car.initialized /\ inFleet)
    => \A i \in Installations : Due(car, i) ~> ~Due(car, i)

=============================================================================
