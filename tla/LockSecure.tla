----------------------------- MODULE LockSecure -----------------------------
(***************************************************************************)
(* The lock-secure monitor of src/lock_secure_notification.go and its      *)
(* evidence (src/lock_secure_evidence.go) for one car: MQTT readings, the  *)
(* live evidence of the present connection, the settling timer, the        *)
(* episode a live lock opens, the cooldown, the rounds of pushes, the      *)
(* state file, reconnects, fleet changes and restarts.                     *)
(*                                                                         *)
(* A handler works under m.mu and is one action.  A message is accepted    *)
(* against the fleet before it takes the lock, a fired timer waits for it, *)
(* and a round releases it between its check and its POST: those are       *)
(* separate actions.  The connection is MonitorLink.  Times are ages in    *)
(* ticks; one that has passed the limit the code compares it with is none. *)
(***************************************************************************)
EXTENDS MonitorLink, Integers, FiniteSets

CONSTANTS
  Phones,             \* installations that may want lock-secure pushes
  Undecided,          \* those whose owners change their mind
  Rounds,             \* bound: rounds of pushes under way
  Openings,           \* doors_open, trunk_open, frunk_open
  Published,          \* <<field, value>> pairs that may come live ...
  Retained,           \* ... and in the replay of a subscription
  Settle, EpisodeLifetime, HeartbeatLifetime, Cooldown,
  Minute,             \* ticks in a minute
  Faults              \* the faults of the environment: "crash", "save" (any
                      \* save fails), "oneSave" (bound: not two in a row)

Tri == {"", "no", "yes"}
States == {"", "online", "charging", "driving", "asleep"}
Gears == {"", "P", "D"}

ASSUME TimesArePositive ==
  /\ {Settle, EpisodeLifetime, HeartbeatLifetime, Cooldown, Minute}
       \subseteq Nat \ {0}

ASSUME SomePhones == Undecided \subseteq Phones

ASSUME MessageShape ==
  Published \cup Retained \subseteq
    (({"locked", "is_user_present", "healthy"} \cup Openings) \X Tri)
    \cup ({"state"} \X States) \cup ({"shift_state"} \X Gears)
    \cup ({"display_name"} \X {""})

ASSUME OpeningNames ==
  Openings \cap {"locked", "is_user_present", "healthy", "state", "shift_state",
                 "display_name"} = {}

NoAge == -1
Ages(limit) == 0..limit \cup {NoAge}

(* Mutation: an age is never too old. *)
OlderForever(age, limit) == IF age = NoAge THEN NoAge ELSE age + 1

Older(age, limit) == IF age \in {NoAge, limit} THEN NoAge ELSE age + 1

NoTimer == [is |-> "none", age |-> 0]
NoRound == [is |-> "none", left |-> {}, phone |-> "", same |-> FALSE,
            ofMinute |-> FALSE, all |-> FALSE]

VARIABLES
  car,        \* m.store.Cars[id]
  delivered,  \* m.store.Delivered has the origin of the present minute
  disk,       \* LastPushedAt and Delivered in lock-secure-state.json
  unsaved,    \* history: the save of the last round's time failed, and none
              \* succeeded since
  evidence,   \* m.evidence[id]
  pending,    \* m.pending[id]; "fired": its callback waits for m.mu
  stale,      \* the callback of a timer no longer in m.pending waits for m.mu
  straggler,  \* handleMQTTMessage accepted a message before the connection
              \* broke or the car left the fleet, and waits for m.mu
  rounds,     \* the goroutines of fanOutLockSecure
  inFleet,    \* mqttCarEligible
  wants,      \* phones whose preferences ask for this car's pushes
  clock,      \* ticks since the minute began
  origin,     \* history: whether the evidence came from the "present"
              \* connection or an "earlier" one
  missed      \* history: the timer of the waiting lock ended unanswered, the
              \* monitor not being connected or wanted

file == <<disk, unsaved>>
store == <<car, delivered, file>>
timer == <<pending, stale>>
world == <<inFleet, wants, clock>>
history == <<origin, missed>>
vars == <<linkVars, store, evidence, timer, straggler, rounds, world, history>>

-----------------------------------------------------------------------------
NewCar == [locked |-> "", present |-> "", state |-> "",
           gear |-> "", lastGear |-> "", open |-> [o \in Openings |-> ""],
           pushed |-> NoAge]

NoEvidence == [presence |-> FALSE, healthy |-> NoAge, lock |-> NoAge,
               stable |-> Settle]
Origins == {"none", "present", "earlier"}
NoOrigin == [presence |-> "none", healthy |-> "none", lock |-> "none"]

(* saveStateLocked, whose error every caller ignores: memory goes on ahead *)
(* of the file.  A failure with nothing new to write makes no difference.  *)
(* The values of the car are saved too, but the first connect handler      *)
(* clears them.                                                            *)
Written == [pushed |-> car.pushed, delivered |-> delivered]
Save ==
  \/ disk' = Written' /\ unsaved' = FALSE
  \/ /\ "save" \in Faults \/ ("oneSave" \in Faults /\ disk = Written)
     /\ disk # Written' /\ disk' = disk /\ unsaved' = (unsaved \/ car'.pushed # car.pushed)

(* lockSecureIsParked *)
Parked(c) == c.gear = "P" \/ (c.gear = "" /\ c.lastGear = "P")

(* lockSecureIsSecure *)
Secure(c) ==
  /\ c.locked = "yes" /\ c.present = "no"
  /\ c.state \in {"online", "charging"}
  /\ Parked(c)
  /\ \A o \in Openings : c.open[o] = "no"

Healthy == evidence.healthy # NoAge

(* Everything ready() asks for but the settling time *)
Answerable ==
  /\ evidence.presence /\ Healthy /\ Secure(car)
  /\ evidence.lock # NoAge

Ready == Answerable /\ evidence.stable = Settle

(* The overlay's context_current (presenceSnapshot) *)
PresenceShown ==
  /\ connected /\ evidence.presence /\ Healthy
  /\ car.present # "" /\ car.state \in {"online", "charging", "driving"}

InFlight == \E r \in Rounds : rounds[r].is # "none" /\ rounds[r].ofMinute

Init ==
  /\ LinkInit
  /\ car = NewCar /\ delivered = FALSE
  /\ disk = [pushed |-> NoAge, delivered |-> FALSE] /\ unsaved = FALSE
  /\ evidence = NoEvidence /\ pending = NoTimer /\ stale = FALSE
  /\ straggler = FALSE /\ rounds = [r \in Rounds |-> NoRound]
  /\ inFleet = TRUE /\ wants = Phones /\ clock = 0
  /\ origin = NoOrigin /\ missed = FALSE

-----------------------------------------------------------------------------
(* Readings *)

(* acceptTeslaMateMQTTMessage.  The messages come one by one, so that at   *)
(* most one is accepted too early.                                         *)
Accepted ==
  \/ line.subscribed /\ inFleet /\ UNCHANGED straggler
  \/ straggler /\ straggler' = FALSE

Straggles == straggler' \in {straggler, line.subscribed /\ inFleet}

Readings ==
  {[field |-> m[1], value |-> m[2], retained |-> FALSE] : m \in Published}
  \cup {[field |-> m[1], value |-> m[2], retained |-> TRUE] : m \in Retained}

WithField(c, field, value) ==
  CASE field = "locked"          -> [c EXCEPT !.locked = value]
    [] field = "is_user_present" -> [c EXCEPT !.present = value]
    [] field = "state"           -> [c EXCEPT !.state = value]
    [] field = "shift_state"     ->
         [c EXCEPT !.gear = value, !.lastGear = IF value = "" THEN @ ELSE value]
    [] field \in Openings        -> [c EXCEPT !.open = [@ EXCEPT ![field] = value]]
    [] OTHER                     -> c

(* A live reading that ends a waiting lock *)
EndsEpisode(field, value) ==
  \/ field = "is_user_present" /\ value # "no"
  \/ field = "locked" /\ value # "yes"
  \/ field = "state" /\ value \notin {"online", "charging"}
  \/ field = "shift_state" /\ value # "P"
  \/ field \in Openings /\ value # "no"
  \/ field = "healthy" /\ value # "yes"

EndsPresence(field, value) ==
  \/ field = "is_user_present" /\ value = ""
  \/ field = "state" /\ value \notin {"online", "charging", "driving"}
  \/ field \in Openings /\ value # "no"
  \/ field = "healthy" /\ value # "yes"

Locks(previous, field, value) ==
  field = "locked" /\ value = "yes" /\ previous = "no"

NotedLive(e, previous, m) ==
  [presence |-> IF EndsPresence(m.field, m.value) THEN FALSE
                ELSE e.presence \/ m.field = "is_user_present",
   healthy |-> IF m.field # "healthy" THEN e.healthy
               ELSE IF m.value = "yes" THEN 0 ELSE NoAge,
   lock |-> IF EndsEpisode(m.field, m.value) THEN NoAge
            ELSE IF Locks(previous, m.field, m.value) THEN 0 ELSE e.lock,
   stable |-> IF m.field \in {"healthy", "display_name"} THEN e.stable ELSE 0]

(* evidence.observe *)
Noted(e, previous, m) ==
  IF m.retained
  THEN [e EXCEPT !.lock = NoAge, !.presence = @ /\ m.field # "is_user_present"]
  ELSE NotedLive(e, previous, m)

(* Where the evidence came from; nothing of the code. *)
Traced(m) ==
  [presence |-> IF ~evidence'.presence THEN "none"
                ELSE IF m.field = "is_user_present" THEN "present" ELSE origin.presence,
   healthy |-> IF evidence'.healthy = NoAge THEN "none"
               ELSE IF m.field = "healthy" THEN "present" ELSE origin.healthy,
   lock |-> IF evidence'.lock = NoAge THEN "none"
            ELSE IF Locks(car.locked, m.field, m.value) THEN "present" ELSE origin.lock]

(* timer.Stop and delete: a callback that waits for the lock is not stopped. *)
Dropped(t) == [pending |-> NoTimer, stale |-> stale \/ t.is = "fired"]
Kept(t) == [pending |-> t, stale |-> stale]
Armed(t) == IF t.pending = NoTimer
            THEN [t EXCEPT !.pending = [is |-> "running", age |-> 0]] ELSE t

(* A reading restarts the settling time, a heartbeat does not. *)
Restarts(m) == m.field \notin {"healthy", "display_name"}

(* Mutation: only a reading arms the timer, never a heartbeat. *)
ArmsOnReading(m) == evidence'.lock # NoAge /\ Restarts(m)

(* A waiting lock has a timer. *)
Arms(m) == evidence'.lock # NoAge

(* observeMessage *)
Observe(m) ==
  LET t == IF Restarts(m) \/ evidence'.lock = NoAge THEN Dropped(pending)
           ELSE Kept(pending)
      next == IF Arms(m) THEN Armed(t) ELSE t
  IN
  /\ Accepted
  /\ car' = WithField(car, m.field, m.value)
  /\ evidence' = Noted(evidence, car.locked, m)
  /\ UNCHANGED delivered
  /\ IF m.field = "healthy" THEN UNCHANGED file ELSE Save
  /\ pending' = next.pending /\ stale' = next.stale
  /\ missed' = (missed /\ evidence'.lock # NoAge /\ next.pending = pending)
  /\ rounds' = IF m.retained \/ m.field \in {"healthy", "display_name"}
               THEN rounds ELSE [r \in Rounds |-> [rounds[r] EXCEPT !.same = FALSE]]
  /\ origin' = Traced(m)
  /\ UNCHANGED <<linkVars, world>>

-----------------------------------------------------------------------------
(* The settling timer *)

TimerFires ==
  /\ pending.is = "running" /\ pending.age = Settle
  /\ pending' = [pending EXCEPT !.is = "fired"]
  /\ UNCHANGED <<linkVars, store, evidence, stale, straggler, rounds, world, history>>

(* Mutation: a callback works for whichever timer is there. *)
AnyCallback == pending.is = "fired" \/ (stale /\ pending # NoTimer)

(* The timer is the one its callback was made for. *)
OwnCallback == pending.is = "fired"

(* Mutation: the round begins before its time is noted. *)
Forgetting(c) == c

(* LastPushedAt *)
Pushed(c) == [c EXCEPT !.pushed = 0]

(* Mutation: the cooldown is only looked at for a delivered round. *)
RestedIfDelivered == car.pushed = NoAge \/ ~delivered

Rested == car.pushed = NoAge

(* Mutation: the lock goes on waiting while the cooldown lasts. *)
KeptWaiting == evidence

(* The episode is consumed, in the cooldown as well. *)
Consumed == [evidence EXCEPT !.lock = NoAge]

StartRound(r) ==
  /\ rounds[r] = NoRound
  /\ rounds' = [rounds EXCEPT ![r] = [NoRound EXCEPT
       !.is = "called", !.same = TRUE, !.ofMinute = TRUE, !.all = TRUE]]

(* finishPending *)
FinishPending ==
  /\ OwnCallback
  /\ pending' = NoTimer
  /\ \/ /\ ~connected \/ ~Ready \/ wants = {}
        /\ missed' = (missed \/ (evidence.lock # NoAge /\ (~connected \/ wants = {})))
        /\ UNCHANGED <<store, evidence, rounds, origin>>
     \/ /\ connected /\ Ready /\ wants # {}
        /\ evidence' = Consumed
        /\ origin' = [origin EXCEPT !.lock = "none"]
        /\ IF Rested /\ ~delivered /\ ~InFlight
           THEN /\ \E r \in Rounds : StartRound(r)
                /\ car' = Pushed(car) /\ UNCHANGED delivered /\ Save
           ELSE UNCHANGED <<store, rounds>>
        /\ UNCHANGED missed
  /\ UNCHANGED <<linkVars, stale, straggler, world>>

(* The callback of a stopped timer finds another timer or none. *)
StaleCallback ==
  /\ stale /\ stale' = FALSE
  /\ UNCHANGED <<linkVars, store, evidence, pending, straggler, rounds, world, history>>

-----------------------------------------------------------------------------
(* A round: fanOutLockSecure *)

SetRound(r, round) == rounds' = [rounds EXCEPT ![r] = round]

(* Mutation: a round is not stopped by readings that leave the car secure. *)
StillValidIfSecure(r) == connected /\ evidence.presence /\ Secure(car) /\ Healthy

StillValid(r) ==
  /\ connected /\ evidence.presence /\ rounds[r].same
  /\ Secure(car) /\ wants # {} /\ Healthy

Targets(r) == IF rounds[r].is = "called" THEN wants ELSE rounds[r].left

Check(r) ==
  /\ rounds[r].is \in {"called", "checking"}
  /\ IF StillValid(r)
     THEN \E p \in Targets(r) :
            SetRound(r, [rounds[r] EXCEPT !.is = "posting", !.left = Targets(r),
                                          !.phone = p])
     ELSE SetRound(r, NoRound)
  /\ UNCHANGED <<linkVars, store, evidence, timer, straggler, world, history>>

(* deliverTo.  A push the registry queues, or no longer finds wanted, *)
(* counts as sent.                                                     *)
Delivers(r, sent) ==
  LET left == rounds[r].left \ {rounds[r].phone}
      all == rounds[r].all /\ sent
  IN
  /\ rounds[r].is = "posting"
  /\ SetRound(r, IF left = {} THEN NoRound
                 ELSE [rounds[r] EXCEPT !.is = "checking", !.left = left,
                                        !.phone = "", !.all = all])
  /\ IF left = {} /\ all
     THEN /\ delivered' = (delivered \/ rounds[r].ofMinute)
          /\ UNCHANGED car /\ Save
     ELSE UNCHANGED store
  /\ UNCHANGED <<linkVars, evidence, timer, straggler, world, history>>

-----------------------------------------------------------------------------
(* Connections, the fleet, preferences, time and restarts *)

(* Mutation: the timers are stopped but the evidence is kept. *)
EvidenceKept == evidence

NoEvidenceLeft == NoEvidence

(* resetEvidenceLocked; nothing is saved *)
ResetEvidence ==
  /\ LET t == Dropped(pending) IN pending' = t.pending /\ stale' = t.stale
  /\ evidence' = NoEvidenceLeft
  /\ car' = [NewCar EXCEPT !.pushed = car.pushed]
  /\ rounds' = [r \in Rounds |-> [rounds[r] EXCEPT !.same = FALSE]]
  /\ origin' = IF evidence' = NoEvidence THEN NoOrigin ELSE origin
  /\ missed' = FALSE
  /\ UNCHANGED <<delivered, file, straggler, world>>

LinkHandler == StartsOver /\ ResetEvidence

OfBefore(whence) == IF whence = "none" THEN "none" ELSE "earlier"

(* The client hands no message over while it reconnects. *)
LinkStep ==
  /\ \/ /\ Opens /\ ~straggler /\ UNCHANGED straggler
        /\ origin' = [presence |-> OfBefore(origin.presence),
                      healthy |-> OfBefore(origin.healthy),
                      lock |-> OfBefore(origin.lock)]
     \/ Breaks /\ Straggles /\ UNCHANGED origin
     \/ (Subscribes \/ Skips \/ Confirms \/ Denies) /\ UNCHANGED <<straggler, origin>>
  /\ UNCHANGED <<store, evidence, timer, rounds, world, missed>>

FleetChanges ==
  /\ inFleet' = ~inFleet /\ Straggles
  /\ UNCHANGED <<linkVars, store, evidence, timer, rounds, wants, clock,
                 history>>

(* reconcileFleet: a car that has left the fleet is forgotten, its         *)
(* cooldown too; nothing is saved.                                         *)
ReconcileFleet ==
  /\ ~inFleet
  /\ car' = NewCar /\ evidence' = NoEvidence /\ origin' = NoOrigin
  /\ LET t == Dropped(pending) IN pending' = t.pending /\ stale' = t.stale
  /\ rounds' = [r \in Rounds |-> [rounds[r] EXCEPT !.same = FALSE]]
  /\ missed' = FALSE
  /\ UNCHANGED <<linkVars, delivered, file, straggler, world>>

(* applyPreferences, through the registry *)
PreferenceChanges(p) ==
  /\ wants' = IF p \in wants THEN wants \ {p} ELSE wants \cup {p}
  /\ UNCHANGED <<linkVars, store, evidence, timer, straggler, rounds, inFleet, clock,
                 history>>

(* Seconds do not pass while a handler, a message or a stopped timer's *)
(* callback waits for the lock.                                        *)
Tick ==
  LET over == clock + 1 = Minute IN
  /\ ~owed /\ ~straggler /\ ~stale
  /\ clock' = IF over THEN 0 ELSE clock + 1
  /\ car' = [car EXCEPT !.pushed = Older(@, Cooldown - 1)]
  /\ delivered' = (delivered /\ ~over)
  /\ disk' = [pushed |-> Older(disk.pushed, Cooldown - 1),
              delivered |-> disk.delivered /\ ~over]
  /\ rounds' = [r \in Rounds |-> [rounds[r] EXCEPT !.ofMinute = @ /\ ~over]]
  /\ evidence' = [evidence EXCEPT
       !.healthy = Older(@, HeartbeatLifetime),
       !.lock = Older(@, EpisodeLifetime),
       !.stable = IF @ = Settle THEN @ ELSE @ + 1]
  /\ pending' = IF pending.is = "running"
                /\ pending.age < Settle
                THEN [pending EXCEPT !.age = @ + 1] ELSE pending
  /\ unsaved' = (unsaved /\ car'.pushed # NoAge)
  /\ UNCHANGED <<linkVars, stale, straggler, inFleet, wants, history>>

(* The process dies; loadState restores the file. *)
Restart ==
  /\ "crash" \in Faults
  /\ Forgets
  /\ car' = [NewCar EXCEPT !.pushed = disk.pushed]
  /\ delivered' = disk.delivered /\ UNCHANGED disk /\ unsaved' = FALSE
  /\ evidence' = NoEvidence /\ pending' = NoTimer /\ stale' = FALSE
  /\ straggler' = FALSE /\ rounds' = [r \in Rounds |-> NoRound]
  /\ UNCHANGED world
  /\ origin' = NoOrigin /\ missed' = FALSE

Next ==
  \/ TimerFires \/ StaleCallback
  \/ \E m \in Readings : Observe(m)
  \/ FinishPending
  \/ \E r \in Rounds : Check(r)
  \/ \E r \in Rounds, sent \in BOOLEAN : Delivers(r, sent)
  \/ LinkHandler \/ LinkStep
  \/ FleetChanges \/ ReconcileFleet \/ Tick \/ Restart
  \/ \E p \in Undecided : PreferenceChanges(p)

Spec == Init /\ [][Next]_vars

-----------------------------------------------------------------------------
Cars == [locked : Tri, present : Tri, state : States,
         gear : Gears, lastGear : Gears, open : [Openings -> Tri],
         pushed : Ages(Cooldown - 1)]

TypeOK ==
  /\ line \in [up : BOOLEAN, subscribed : BOOLEAN]
  /\ {owed, connected, delivered, unsaved, stale, straggler, missed} \subseteq BOOLEAN
  /\ car \in Cars
  /\ disk \in [pushed : Ages(Cooldown - 1), delivered : BOOLEAN]
  /\ evidence \in [presence : BOOLEAN, healthy : Ages(HeartbeatLifetime),
                   lock : Ages(EpisodeLifetime), stable : 0..Settle]
  /\ pending \in [is : {"none", "running", "fired"}, age : 0..Settle]
  /\ rounds \in [Rounds -> [is : {"none", "called", "checking", "posting"},
                            left : SUBSET Phones, phone : Phones \cup {""},
                            same : BOOLEAN, ofMinute : BOOLEAN, all : BOOLEAN]]
  /\ inFleet \in BOOLEAN /\ wants \subseteq Phones /\ clock \in 0..(Minute - 1)
  /\ origin \in [presence : Origins, healthy : Origins, lock : Origins]

(* A lock that could be answered has its timer: no stale callback, no      *)
(* heartbeat and no reading leaves it without one, unless its timer ended  *)
(* while the monitor was not connected or nobody wanted the push           *)
(* (lock_secure_notification.go:362-376, 390).                             *)
EpisodesAreWatched == Answerable => pending # NoTimer \/ missed

(* What the overlay shows as the current presence was reported on the      *)
(* connection it is shown on (lock_secure_evidence.go:30).                 *)
PresenceIsCurrent ==
  PresenceShown /\ ~owed =>
    line.subscribed /\ origin.presence = "present" /\ origin.healthy = "present"

(* A round rests on one connection: its presence and its lock were both    *)
(* reported live on the present connection, or both before it, however     *)
(* late the handlers of a reconnect or the callback of the timer run; its  *)
(* heartbeat too, unless a handler of a reconnect still waits              *)
(* (lock_secure_evidence.go:110).                                          *)
RoundsRestOnOneLink ==
  [][\A r \in Rounds :
       rounds[r] = NoRound /\ rounds'[r] # NoRound =>
         /\ origin.lock # "none" /\ origin.presence = origin.lock
         /\ origin.healthy = origin.lock \/ owed]_vars

(* Seen from outside: open while a lock waits, and a round by whether the  *)
(* car has reported anything since it began.                               *)
Rest(age) == IF age = NoAge THEN Cooldown ELSE age

RoundState(r) ==
  IF rounds[r].is = "none" THEN "none"
  ELSE IF rounds[r].same THEN "current"
  ELSE IF rounds[r].is = "posting" THEN "about to tell" ELSE "over"

Promise == INSTANCE LockEpisodes WITH
  open <- evidence.lock # NoAge, rest <- Rest(car.pushed),
  saved <- Rest(disk.pushed), unsaved <- unsaved, round <- [r \in Rounds |-> RoundState(r)]

(* One lock is answered by at most one round, rounds rest in between even  *)
(* across a restart unless the save of the last one failed and none        *)
(* succeeded since, and a round whose car has reported anything since      *)
(* tells nobody but the phone it was at                                    *)
(* (lock_secure_notification.go:393, 406, 418-420, 446).                   *)
ImplementsEpisodes == Promise!PromiseSpec
=============================================================================
