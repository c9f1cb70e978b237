-------------------------- MODULE LowBatteryProofs --------------------------
(* Theorems about LowBattery, for any levels, messages, phones and timers. *)
EXTENDS LowBattery, TLAPS

LEMMA Constants ==
  /\ Levels \subseteq Nat /\ EnterPercent \in Nat /\ SeverePercent \in Nat
  /\ RearmPercent \in Nat /\ SeverePercent < EnterPercent
  /\ EnterPercent < RearmPercent
  /\ SnoozeDelay \in Nat \ {0} /\ MaxOrphans \in Nat \ {0}
  /\ NoEpisode \notin Episodes /\ ReminderLoop \notin Callbacks
BY Thresholds, Bounds

LEMMA MessageFields ==
  ASSUME NEW message \in Messages
  PROVE  /\ message = <<message[1], message[2]>>
         /\ \/ message[1] = "battery_level" /\ message[2] \in Levels \cup {NoLevel}
            \/ message[1] = "state" /\ message[2] \in {"online", "driving"}
            \/ message[1] = "charging_state" /\ message[2] \in {"stopped", "charging"}
            \/ message[1] = "shift_state" /\ message[2] \in {"", "D"}
<1>1. \/ message \in {"battery_level"} \X (Levels \cup {NoLevel})
      \/ message \in {"state"} \X {"online", "driving"}
      \/ message \in {"charging_state"} \X {"stopped", "charging"}
      \/ message \in {"shift_state"} \X {"", "D"}
  <2> HIDE DEF NoLevel
  <2> QED
    BY MessageShape, Zenon
<1>2. ASSUME NEW F, NEW V, message \in F \X V
      PROVE  /\ message = <<message[1], message[2]>>
             /\ message[1] \in F /\ message[2] \in V
  BY <1>2
<1>3. ASSUME NEW f, NEW V, message \in {f} \X V
      PROVE  /\ message = <<message[1], message[2]>>
             /\ message[1] = f /\ message[2] \in V
  BY <1>2, <1>3
<1> QED
  BY <1>1, <1>3

-----------------------------------------------------------------------------
(* The car                                                                 *)

LEMMA NewCarType == NoChoices \in [Installations -> Choices]
                    /\ NewCar \in Car /\ NoCar \in Car
<1>1. NoChoices \in [Installations -> Choices]
  BY DEF NoChoices, Choices
<1> QED
  BY <1>1 DEF NewCar, NoCar, Car

LEMMA RearmType == ASSUME NEW c \in Car PROVE Rearm(c) \in Car
BY NewCarType DEF Rearm, Car

LEMMA EndSnoozesType ==
  ASSUME NEW c \in Car, NEW which,
         NEW outcome \in {"none", "ack", "cancelled", "superseded", "completed"}
  PROVE  EndSnoozes(c, which, outcome) \in Car
<1>1. [action |-> outcome, left |-> 0] \in Choices
  BY DEF Choices
<1>2. c.actions \in [Installations -> Choices]
  BY DEF Car
<1>3. [i \in Installations |->
         IF i \in which THEN [action |-> outcome, left |-> 0] ELSE c.actions[i]]
      \in [Installations -> Choices]
  BY <1>1, <1>2
<1> QED
  BY <1>3 DEF EndSnoozes, Car

LEMMA SettledType ==
  ASSUME NEW c \in Car PROVE Rearmed(c) \in Car /\ Settled(c) \in Car
<1>1. Rearmed(c) \in Car
  BY RearmType DEF Rearmed
<1>2. EndSnoozes(Rearmed(c), AllSnoozed(Rearmed(c)), "cancelled") \in Car
  BY <1>1, EndSnoozesType
<1> QED
  BY <1>1, <1>2 DEF Settled

LEMMA BaselineType ==
  ASSUME NEW c \in Car, NEW episode \in Episodes
  PROVE  Baseline(c, episode) \in Car
<1>1. ASSUME NEW r \in Car, NEW severe \in BOOLEAN,
             NEW actions \in [Installations -> Choices]
      PROVE  /\ [r EXCEPT !.initialized = TRUE] \in Car
             /\ [[r EXCEPT !.initialized = TRUE] EXCEPT !.latched = TRUE,
                   !.severe = severe, !.episode = episode, !.actions = actions]
                \in Car
  BY DEF Car
<1>2. Rearmed(c) \in Car
  BY SettledType
<1>3. Rearmed(c).actions \in [Installations -> Choices]
      /\ [Rearmed(c) EXCEPT !.initialized = TRUE].actions = Rearmed(c).actions
  BY <1>2 DEF Car
<1> DEFINE settled == [Rearmed(c) EXCEPT !.initialized = TRUE]
           severe == c.level < SeverePercent
           actions == IF c.episode = NoEpisode THEN NoChoices ELSE settled.actions
<1>4. severe \in BOOLEAN /\ actions \in [Installations -> Choices]
  BY <1>3, NewCarType
<1>5. Baseline(c, episode) =
        IF Eligible(c)
        THEN [settled EXCEPT !.latched = TRUE, !.severe = severe,
                !.episode = episode, !.actions = actions]
        ELSE settled
  BY DEF Baseline
<1> HIDE DEF severe, actions
<1> QED
  BY <1>1, <1>2, <1>4, <1>5

LEMMA OpenedType ==
  ASSUME NEW c \in Car, NEW episode \in Episodes
  PROVE  Opened(c, episode) \in Car /\ Escalated(c) \in Car
<1>1. Opened(c, episode) \in Car
  <2> DEFINE severe == c.level < SeverePercent
  <2>1. severe \in BOOLEAN
    OBVIOUS
  <2>2. Opened(c, episode) = [c EXCEPT !.latched = TRUE, !.severe = severe,
                                !.episode = episode, !.actions = NoChoices]
    BY DEF Opened
  <2> HIDE DEF severe
  <2> QED
    BY <2>1, <2>2, NewCarType DEF Car
<1>2. [c EXCEPT !.severe = TRUE] \in Car
  BY DEF Car
<1> QED
  BY <1>1, <1>2, EndSnoozesType DEF Escalated

LEMMA ObservedType ==
  ASSUME NEW c \in Car, NEW message \in Messages, NEW retained \in BOOLEAN
  PROVE  /\ WithField(c, message[1], message[2]) \in Car
         /\ Observed(c, message[1], message[2], retained) \in Car
<1>1. ASSUME NEW r \in Car, NEW known \in BOOLEAN
      PROVE  [r EXCEPT !.initialized = known] \in Car
  BY DEF Car
<1>2. WithField(c, message[1], message[2]) \in Car
  <2>1. CASE message[1] = "battery_level" /\ message[2] \in Levels \cup {NoLevel}
    BY <2>1 DEF WithField, Car
  <2>2. CASE message[1] = "state" /\ message[2] \in {"online", "driving"}
    BY <2>2 DEF WithField, Car
  <2>3. CASE message[1] = "charging_state" /\ message[2] \in {"stopped", "charging"}
    BY <2>3 DEF WithField, Car
  <2>4. CASE message[1] = "shift_state" /\ message[2] \in {"", "D"}
    BY <2>4 DEF WithField, Car
  <2> QED
    BY <2>1, <2>2, <2>3, <2>4, MessageFields
<1> DEFINE updated == WithField(c, message[1], message[2])
           known == updated.initialized /\ ~retained /\ updated.state # ""
                    /\ updated.charging # ""
<1>3. known \in BOOLEAN
  BY <1>2 DEF Car
<1>4. Observed(c, message[1], message[2], retained)
        = [updated EXCEPT !.initialized = known]
  BY DEF Observed
<1> HIDE DEF updated, known
<1>5. updated \in Car
  BY <1>2 DEF updated
<1> QED
  BY <1>1, <1>2, <1>3, <1>4, <1>5

LEMMA ResetType ==
  ASSUME NEW c \in Car
  PROVE  [c EXCEPT !.initialized = FALSE, !.state = "", !.shift = "",
                   !.charging = "", !.level = NoLevel] \in Car
         /\ [c EXCEPT !.level = NoLevel, !.initialized = FALSE] \in Car
BY DEF Car

LEMMA AgedType == ASSUME NEW c \in Car PROVE Aged(c) \in Car
<1>1. ASSUME NEW choice \in Choices
      PROVE  [choice EXCEPT !.left = IF @ = 0 THEN 0 ELSE @ - 1] \in Choices
  <2>1. CASE choice \in [action : {"none", "ack", "cancelled", "superseded",
                                   "completed"}, left : {0}]
    BY <2>1 DEF Choices
  <2>2. CASE choice \in [action : {"snooze_4h"}, left : 0..SnoozeDelay]
    <3>1. (IF choice.left = 0 THEN 0 ELSE choice.left - 1) \in 0..SnoozeDelay
      BY <2>2, Constants
    <3> QED
      BY <2>2, <3>1 DEF Choices
  <2> QED
    BY <2>1, <2>2 DEF Choices
<1>2. c.actions \in [Installations -> Choices]
  BY DEF Car
<1>3. [i \in Installations |->
         [c.actions[i] EXCEPT !.left = IF @ = 0 THEN 0 ELSE @ - 1]]
      \in [Installations -> Choices]
  BY <1>1, <1>2
<1> QED
  BY <1>3 DEF Aged, Car

-----------------------------------------------------------------------------
(* The latch, the episode and the choices                                  *)

LEMMA NewCarLatch == LatchCoherent(NewCar) /\ LatchCoherent(NoCar)
BY DEF NewCar, NoCar, LatchCoherent

LEMMA RearmLatch ==
  ASSUME NEW c \in Car, LatchCoherent(c)
  PROVE  LatchCoherent(Rearm(c)) /\ LatchCoherent(Rearmed(c))
BY DEF LatchCoherent, Rearm, Rearmed, Car

LEMMA EndSnoozesLatch ==
  ASSUME NEW c \in Car, LatchCoherent(c), NEW which, which \subseteq AllSnoozed(c),
         NEW outcome
  PROVE  LatchCoherent(EndSnoozes(c, which, outcome))
<1>1. CASE c.latched
  BY <1>1 DEF LatchCoherent, EndSnoozes, Car
<1>2. CASE ~c.latched
  <2>1. c.actions = NoChoices
    BY <1>2 DEF LatchCoherent
  <2>2. which = {}
    BY <2>1 DEF AllSnoozed, Snoozed, NoChoices
  <2>3. [i \in Installations |->
           IF i \in which THEN [action |-> outcome, left |-> 0] ELSE c.actions[i]]
        = c.actions
    BY <2>2 DEF Car
  <2> QED
    BY <2>3 DEF LatchCoherent, EndSnoozes, Car
<1> QED
  BY <1>1, <1>2

LEMMA SettledLatch ==
  ASSUME NEW c \in Car, LatchCoherent(c) PROVE LatchCoherent(Settled(c))
BY RearmLatch, SettledType, EndSnoozesLatch DEF Settled

LEMMA NotRearmedWhileLow ==
  ASSUME NEW c \in Car, Eligible(c) PROVE Rearmed(c) = c
<1>1. c.level \in Levels /\ c.level < EnterPercent
  BY DEF Eligible, Car
<1>2. c.level \in Nat /\ EnterPercent \in Nat /\ RearmPercent \in Nat
      /\ EnterPercent < RearmPercent
  BY <1>1, Constants
<1>3. ~(c.level >= RearmPercent)
  BY <1>1, <1>2
<1> QED
  BY <1>3 DEF Rearmed

LEMMA BaselineLatch ==
  ASSUME NEW c \in Car, LatchCoherent(c), NEW episode \in Episodes,
         c.episode # NoEpisode => episode = c.episode
  PROVE  LatchCoherent(Baseline(c, episode))
<1>1. CASE Eligible(c)
  <2> DEFINE severe == c.level < SeverePercent
             d == Baseline(c, episode)
  <2>1. severe \in BOOLEAN
    OBVIOUS
  <2>2. d = [[c EXCEPT !.initialized = TRUE] EXCEPT !.latched = TRUE,
               !.severe = severe, !.episode = episode,
               !.actions = IF c.episode = NoEpisode THEN NoChoices ELSE @]
    BY <1>1, NotRearmedWhileLow DEF Baseline
  <2> HIDE DEF severe, d
  <2>3. d.latched /\ d.episode = episode
    BY <2>2 DEF Car
  <2>4. LatchCoherent(d)
    BY <2>3, Constants DEF LatchCoherent
  <2> QED
    BY <2>4 DEF d
<1>2. CASE ~Eligible(c)
  <2>1. Baseline(c, episode) = [Rearmed(c) EXCEPT !.initialized = TRUE]
    BY <1>2 DEF Baseline
  <2>2. ASSUME NEW r \in Car, LatchCoherent(r)
        PROVE  LatchCoherent([r EXCEPT !.initialized = TRUE])
    BY <2>2 DEF LatchCoherent, Car
  <2>3. LatchCoherent([Rearmed(c) EXCEPT !.initialized = TRUE])
    BY <2>2, RearmLatch, SettledType
  <2> QED
    BY <2>1, <2>3
<1> QED
  BY <1>1, <1>2

LEMMA OpenedLatch ==
  ASSUME NEW c \in Car, NEW episode \in Episodes
  PROVE  LatchCoherent(Opened(c, episode))
BY Constants DEF Opened, LatchCoherent, Car

LEMMA EscalatedLatch ==
  ASSUME NEW c \in Car, LatchCoherent(c), c.latched
  PROVE  LatchCoherent(Escalated(c))
<1> DEFINE d == [c EXCEPT !.severe = TRUE]
<1>1. d \in Car /\ LatchCoherent(d)
  BY DEF Car, LatchCoherent
<1>2. AllSnoozed(c) \subseteq AllSnoozed(d)
  BY DEF AllSnoozed, Snoozed, Car
<1> HIDE DEF d
<1>3. LatchCoherent(EndSnoozes(d, AllSnoozed(c), "superseded"))
  BY <1>1, <1>2, EndSnoozesLatch
<1> QED
  BY <1>3 DEF Escalated, d

LEMMA AgedLatch ==
  ASSUME NEW c \in Car, LatchCoherent(c) PROVE LatchCoherent(Aged(c))
<1>1. CASE c.latched
  BY <1>1 DEF Aged, LatchCoherent, Car
<1>2. CASE ~c.latched
  <2>1. c.actions = NoChoices
    BY <1>2 DEF LatchCoherent
  <2>2. Aged(c).actions = NoChoices
    <3>1. \A i \in Installations : [c.actions[i] EXCEPT !.left =
                                     IF @ = 0 THEN 0 ELSE @ - 1] = NoChoices[i]
      BY <2>1 DEF NoChoices
    <3>2. Aged(c).actions = [i \in Installations |-> NoChoices[i]]
      BY <3>1 DEF Aged, Car
    <3> QED
      BY <3>2 DEF NoChoices
  <2> QED
    BY <2>2 DEF Aged, LatchCoherent, Car
<1> QED
  BY <1>1, <1>2

LEMMA WithFieldKeeps ==
  ASSUME NEW c \in Car, NEW message \in Messages, NEW retained \in BOOLEAN,
         LatchCoherent(c)
  PROVE  LatchCoherent(Observed(c, message[1], message[2], retained))
<1> DEFINE w == WithField(c, message[1], message[2])
<1>1. w \in Car
  BY ObservedType
<1>2. /\ w.latched = c.latched /\ w.severe = c.severe
      /\ w.episode = c.episode /\ w.actions = c.actions
  <2>1. CASE message[1] = "battery_level"
    BY <2>1 DEF WithField, Car
  <2>2. CASE message[1] = "state"
    BY <2>2 DEF WithField, Car
  <2>3. CASE message[1] = "charging_state"
    BY <2>3 DEF WithField, Car
  <2>4. CASE message[1] = "shift_state"
    BY <2>4 DEF WithField, Car
  <2> QED
    BY <2>1, <2>2, <2>3, <2>4, MessageFields
<1> HIDE DEF w
<1>3. Observed(c, message[1], message[2], retained)
        = [w EXCEPT !.initialized = @ /\ ~retained /\ w.state # ""
                                      /\ w.charging # ""]
  BY DEF Observed, w
<1> QED
  BY <1>1, <1>2, <1>3 DEF LatchCoherent, Car

-----------------------------------------------------------------------------
(* The steps.  Types and latches hold together: a reminder's fan-out has an *)
(* episode only because a latched car has one.                              *)
Inductive == TypeOK /\ EpisodesCoherent

LEMMA InitInductive == ASSUME Init PROVE Inductive
<1>1. car \in Car /\ disk \in Car /\ EpisodesCoherent
  BY NewCarType, NewCarLatch DEF Init, EpisodesCoherent
<1>2. orphans \in 0..MaxOrphans /\ armed \in BOOLEAN /\ dirty \in BOOLEAN
      /\ linked \in BOOLEAN /\ inFleet \in BOOLEAN
  <2>1. MaxOrphans \in Nat /\ orphans = 0
    BY Constants DEF Init
  <2>2. orphans \in 0..MaxOrphans
    BY <2>1
  <2>3. armed \in BOOLEAN /\ dirty \in BOOLEAN /\ linked \in BOOLEAN /\ inFleet \in BOOLEAN
    BY DEF Init
  <2> QED
    BY <2>2, <2>3
<1>3. threads \in [Threads -> FanOuts \cup {Idle, Waiting}]
  BY DEF Init
<1>4. /\ evidence \in {"none", "baseline", "live"}
      /\ handed \subseteq Installations \X Kinds
      /\ credit \in [Installations -> 0..2]
  BY DEF Init
<1> QED
  BY <1>1, <1>2, <1>3, <1>4 DEF Inductive, TypeOK

LEMMA SaveInductive ==
  ASSUME Inductive, NEW ok \in BOOLEAN, Save(ok), car' \in Car, LatchCoherent(car')
  PROVE  disk' \in Car /\ dirty' \in BOOLEAN /\ EpisodesCoherent'
BY DEF Inductive, TypeOK, EpisodesCoherent, LatchCoherent, Save

LEMMA KnownInductive ==
  ASSUME Inductive PROVE Known \in Car /\ LatchCoherent(Known)
BY NewCarType, NewCarLatch DEF Inductive, TypeOK, EpisodesCoherent, Known

LEMMA ObserveInductive ==
  ASSUME Inductive, NEW message \in Messages, NEW retained \in BOOLEAN,
         NEW ok \in BOOLEAN, Observe(message, retained, ok)
  PROVE  Inductive'
<1>1. car' \in Car /\ LatchCoherent(car')
  <2>1. CASE car' = [Known EXCEPT !.level = NoLevel, !.initialized = FALSE]
    BY <2>1, KnownInductive, ResetType DEF LatchCoherent, Car
  <2>2. CASE car' = Observed(Known, message[1], message[2], retained)
    BY <2>2, KnownInductive, ObservedType, WithFieldKeeps
  <2> QED
    BY <2>1, <2>2 DEF Observe
<1>2. disk' \in Car /\ dirty' \in BOOLEAN /\ EpisodesCoherent'
  <2>1. CASE Save(ok)
    BY <1>1, <2>1, SaveInductive
  <2>2. CASE UNCHANGED <<disk, dirty>>
    BY <1>1, <2>2 DEF Inductive, TypeOK, EpisodesCoherent, LatchCoherent
  <2> QED
    BY <2>1, <2>2 DEF Observe
<1>3. armed' \in BOOLEAN /\ evidence' \in {"none", "baseline", "live"}
  BY DEF Observe, Arm, Inductive, TypeOK
<1>4. UNCHANGED <<orphans, threads, linked, inFleet, handed, credit>>
  BY DEF Observe
<1> QED
  BY <1>1, <1>2, <1>3, <1>4 DEF Inductive, TypeOK

LEMMA ThreadsType ==
  /\ Idle \in FanOuts \cup {Idle, Waiting} /\ Waiting \in FanOuts \cup {Idle, Waiting}
  /\ \A kind \in Kinds, episode \in Episodes, to \in SUBSET Installations :
       [pc |-> "sending", kind |-> kind, episode |-> episode, to |-> to] \in FanOuts
  /\ \A f \in FanOuts \cup {Idle, Waiting} : f.pc = "sending" => f \in FanOuts
  /\ \A f \in FanOuts : f.pc = "sending" /\ f.kind \in Kinds
                         /\ f.episode \in Episodes /\ f.to \subseteq Installations
BY DEF FanOuts, Idle, Waiting

LEMMA TimerInductive ==
  ASSUME Inductive, NEW t \in Threads, TimerFires(t) PROVE Inductive'
<1>1. armed' \in BOOLEAN /\ orphans' \in 0..MaxOrphans
  <2>1. MaxOrphans \in Nat /\ orphans \in 0..MaxOrphans /\ armed \in BOOLEAN
    BY Constants DEF Inductive, TypeOK
  <2>2. CASE armed' = FALSE /\ UNCHANGED orphans
    BY <2>1, <2>2
  <2>3. CASE orphans > 0 /\ orphans' = orphans - 1 /\ UNCHANGED armed
    BY <2>1, <2>3
  <2> QED
    BY <2>2, <2>3 DEF TimerFires
<1>2. threads' \in [Threads -> FanOuts \cup {Idle, Waiting}]
  BY ThreadsType DEF TimerFires, Inductive, TypeOK
<1>3. UNCHANGED <<store, world, history>>
  BY DEF TimerFires
<1> QED
  BY <1>1, <1>2, <1>3 DEF Inductive, TypeOK, EpisodesCoherent, LatchCoherent,
                          store, world, history

LEMMA StartFanOutType ==
  ASSUME Inductive, NEW t \in Threads, NEW kind \in Kinds, NEW episode \in Episodes,
         StartFanOut(t, kind, episode)
  PROVE  threads' \in [Threads -> FanOuts \cup {Idle, Waiting}]
<1>1. PICK to \in SUBSET Installations :
        threads' = [threads EXCEPT ![t] = IF to = {} THEN Idle ELSE
          [pc |-> "sending", kind |-> kind, episode |-> episode, to |-> to]]
  BY DEF StartFanOut
<1> QED
  BY <1>1, ThreadsType DEF Inductive, TypeOK

(* What an evaluation of a complete car leaves behind.                     *)
LEMMA EvaluatedInductive ==
  ASSUME Inductive, NEW t \in Threads,
         TakeBaseline(t) \/ OpenEpisode(t) \/ Escalate(t) \/ NothingNew(t)
  PROVE  /\ car' \in Car /\ LatchCoherent(car')
         /\ threads' \in [Threads -> FanOuts \cup {Idle, Waiting}]
         /\ evidence' \in {"none", "baseline", "live"}
<1> DEFINE c == Settled(car)
<1>1. car \in Car /\ LatchCoherent(car) /\ c \in Car /\ LatchCoherent(c)
  BY SettledType, SettledLatch DEF Inductive, TypeOK, EpisodesCoherent
<1> HIDE DEF c
<1>2. FreshEpisodes \subseteq Episodes
  BY DEF FreshEpisodes
<1>3. evidence' \in {"none", "baseline", "live"}
  BY DEF TakeBaseline, OpenEpisode, Escalate, NothingNew, Inductive, TypeOK
<1>4. CASE TakeBaseline(t)
  <2>1. PICK episode \in IF car.episode = NoEpisode THEN FreshEpisodes
                                                    ELSE {car.episode} :
          car' = Baseline(car, episode)
    BY <1>4 DEF TakeBaseline
  <2>2. episode \in Episodes /\ (car.episode # NoEpisode => episode = car.episode)
    BY <1>1, <1>2, <2>1 DEF Car
  <2>3. car' \in Car /\ LatchCoherent(car')
    BY <1>1, <2>1, <2>2, BaselineType, BaselineLatch
  <2>4. threads' \in [Threads -> FanOuts \cup {Idle, Waiting}]
    BY <1>4, ThreadsType DEF TakeBaseline, Inductive, TypeOK
  <2> QED
    BY <1>3, <2>3, <2>4
<1>5. CASE OpenEpisode(t)
  <2>1. PICK episode \in FreshEpisodes :
          /\ car' = Opened(c, episode)
          /\ StartFanOut(t, IF car'.severe THEN "severe" ELSE "low", episode)
    BY <1>5 DEF OpenEpisode, c
  <2>2. (IF car'.severe THEN "severe" ELSE "low") \in Kinds
    BY DEF Kinds
  <2>3. car' \in Car /\ LatchCoherent(car')
    BY <1>1, <1>2, <2>1, OpenedType, OpenedLatch
  <2> QED
    BY <1>2, <1>3, <2>1, <2>2, <2>3, StartFanOutType
<1>6. CASE Escalate(t)
  <2>1. c.latched /\ car' = Escalated(c) /\ StartFanOut(t, "severe", c.episode)
    BY <1>6 DEF Escalate, c
  <2>2. c.episode \in Episodes /\ "severe" \in Kinds
    BY <1>1, <2>1 DEF Kinds, Car, LatchCoherent
  <2>3. car' \in Car /\ LatchCoherent(car')
    BY <1>1, <2>1, <2>2, EscalatedLatch, OpenedType
  <2> QED
    BY <1>3, <2>1, <2>2, <2>3, StartFanOutType
<1>7. CASE NothingNew(t)
  <2>1. car' = c /\ threads' = [threads EXCEPT ![t] = Idle]
    BY <1>7 DEF NothingNew, c
  <2> QED
    BY <1>1, <1>3, <2>1, ThreadsType DEF Inductive, TypeOK
<1> QED
  BY <1>4, <1>5, <1>6, <1>7

LEMMA EvaluateInductive ==
  ASSUME Inductive, NEW t \in Threads, NEW ok \in BOOLEAN, Evaluate(t, ok)
  PROVE  Inductive'
<1>1. armed' \in BOOLEAN /\ orphans' \in 0..MaxOrphans
  <2>1. MaxOrphans \in Nat /\ orphans \in 0..MaxOrphans
    BY Constants DEF Inductive, TypeOK
  <2>2. orphans' = orphans \/ (orphans < MaxOrphans /\ orphans' = orphans + 1)
    BY DEF Evaluate, ForgetTimer
  <2>3. orphans' \in 0..MaxOrphans
    BY <2>1, <2>2
  <2>4. armed' \in BOOLEAN
    BY DEF Evaluate, ForgetTimer
  <2> QED
    BY <2>3, <2>4
<1>2. linked' \in BOOLEAN /\ inFleet' \in BOOLEAN
  BY DEF Evaluate, world, Inductive, TypeOK
<1>3. CASE UNCHANGED <<store, history>> /\ threads' = [threads EXCEPT ![t] = Idle]
  <2>1. threads' \in [Threads -> FanOuts \cup {Idle, Waiting}]
    BY <1>3, ThreadsType DEF Inductive, TypeOK
  <2> QED
    BY <1>1, <1>2, <1>3, <2>1 DEF Inductive, TypeOK, EpisodesCoherent,
                                  LatchCoherent, store, history
<1>4. CASE /\ TakeBaseline(t) \/ OpenEpisode(t) \/ Escalate(t) \/ NothingNew(t)
           /\ Save(ok) /\ RearmHistory
  <2>1. /\ car' \in Car /\ LatchCoherent(car')
        /\ threads' \in [Threads -> FanOuts \cup {Idle, Waiting}]
        /\ evidence' \in {"none", "baseline", "live"}
    BY <1>4, EvaluatedInductive
  <2>2. disk' \in Car /\ dirty' \in BOOLEAN /\ EpisodesCoherent'
    BY <1>4, <2>1, SaveInductive
  <2>3. handed' \subseteq Installations \X Kinds /\ credit' \in [Installations -> 0..2]
    BY <1>4 DEF RearmHistory, Inductive, TypeOK
  <2> QED
    BY <1>1, <1>2, <2>1, <2>2, <2>3 DEF Inductive, TypeOK
<1> QED
  BY <1>3, <1>4 DEF Evaluate

LEMMA HandOverInductive ==
  ASSUME Inductive, NEW t \in Threads, NEW i \in Installations,
         HandOver(t, i) \/ GiveUp(t, i)
  PROVE  Inductive'
<1>1. threads[t] \in FanOuts
  BY ThreadsType DEF HandOver, GiveUp, Inductive, TypeOK
<1>2. ASSUME NEW to, to \subseteq threads[t].to
      PROVE  [threads[t] EXCEPT !.to = to] \in FanOuts
  BY <1>1, <1>2 DEF FanOuts
<1>3. PICK to \in SUBSET threads[t].to :
        threads' = [threads EXCEPT ![t] = IF to = {} THEN Idle
                                          ELSE [@ EXCEPT !.to = to]]
  BY DEF HandOver, GiveUp, StillToDo, Remaining
<1>4. threads' \in [Threads -> FanOuts \cup {Idle, Waiting}]
  BY <1>2, <1>3, ThreadsType DEF Inductive, TypeOK
<1>5. handed' \subseteq Installations \X Kinds
  BY <1>1, ThreadsType DEF HandOver, GiveUp, history, Inductive, TypeOK
<1>6. credit' \in [Installations -> 0..2]
  BY DEF HandOver, GiveUp, history, Inductive, TypeOK
<1>7. UNCHANGED <<store, timers, world, evidence>>
  BY DEF HandOver, GiveUp, history
<1> QED
  BY <1>4, <1>5, <1>6, <1>7 DEF Inductive, TypeOK, EpisodesCoherent,
       LatchCoherent, store, timers, world

LEMMA RemindersInductive ==
  ASSUME Inductive, NEW ok \in BOOLEAN, RemindersDue(ok) PROVE Inductive'
<1> DEFINE over == IF Complete(car) /\ car.initialized /\ inFleet THEN SnoozesOver ELSE {}
           due == IF car.latched /\ Eligible(car) THEN over ELSE {}
<1>1. car \in Car /\ LatchCoherent(car)
  BY DEF Inductive, TypeOK, EpisodesCoherent
<1>2. over \subseteq AllSnoozed(car) /\ over \subseteq Installations
  BY DEF SnoozesOver, Due, AllSnoozed
<1>3. car' = EndSnoozes(car, over, "completed") /\ Save(ok)
  BY DEF RemindersDue
<1>4. PICK to \in SUBSET due :
        threads' = [threads EXCEPT ![ReminderLoop] = IF to = {} THEN Idle ELSE
          [pc |-> "sending", kind |-> "reminder", episode |-> car.episode, to |-> to]]
  BY DEF RemindersDue
<1>5. to # {} => car.latched
  OBVIOUS
<1> HIDE DEF over, due
<1>6. car' \in Car /\ LatchCoherent(car')
  BY <1>1, <1>2, <1>3, EndSnoozesType, EndSnoozesLatch
<1>7. disk' \in Car /\ dirty' \in BOOLEAN /\ EpisodesCoherent'
  BY <1>3, <1>6, SaveInductive
<1>8. threads' \in [Threads -> FanOuts \cup {Idle, Waiting}]
  <2>1. CASE to = {}
    BY <1>4, <2>1, ThreadsType DEF Inductive, TypeOK
  <2>2. CASE to # {}
    <3>1. car.episode \in Episodes
      BY <1>1, <1>5, <2>2 DEF Car, LatchCoherent
    <3>2. to \subseteq Installations /\ "reminder" \in Kinds
      BY <1>2 DEF due, Kinds
    <3> QED
      BY <1>4, <2>2, <3>1, <3>2, ThreadsType DEF Inductive, TypeOK
  <2> QED
    BY <2>1, <2>2
<1>9. UNCHANGED <<timers, world, history>>
  BY DEF RemindersDue
<1> QED
  BY <1>6, <1>7, <1>8, <1>9 DEF Inductive, TypeOK, timers, world, history

LEMMA ActionInductive ==
  ASSUME Inductive, NEW i \in Installations, NEW action \in {"ack", "snooze_4h"},
         NEW episode \in Episodes, NEW ok \in BOOLEAN,
         ApplyAction(i, action, episode, ok)
  PROVE  Inductive'
<1> DEFINE choice == [action |-> action,
                      left |-> IF action = "snooze_4h" THEN SnoozeDelay ELSE 0]
<1>1. choice \in Choices
  <2>1. CASE action = "ack"
    BY <2>1 DEF Choices
  <2>2. CASE action = "snooze_4h"
    <3>1. SnoozeDelay \in 0..SnoozeDelay
      BY Constants
    <3> QED
      BY <2>2, <3>1 DEF Choices
  <2> QED
    BY <2>1, <2>2
<1>2. car \in Car /\ LatchCoherent(car) /\ car.latched
  BY DEF Inductive, TypeOK, EpisodesCoherent, ApplyAction
<1>3. car' = [car EXCEPT !.actions = [@ EXCEPT ![i] = choice]] /\ Save(ok)
  BY DEF ApplyAction
<1> HIDE DEF choice
<1>4. car' \in Car /\ LatchCoherent(car')
  BY <1>1, <1>2, <1>3 DEF Car, LatchCoherent
<1>5. disk' \in Car /\ dirty' \in BOOLEAN /\ EpisodesCoherent'
  BY <1>3, <1>4, SaveInductive
<1>6. credit' \in [Installations -> 0..2]
  BY DEF ApplyAction, Inductive, TypeOK
<1>7. UNCHANGED <<timers, threads, world, evidence, handed>>
  BY DEF ApplyAction
<1> QED
  BY <1>4, <1>5, <1>6, <1>7 DEF Inductive, TypeOK, timers, world

LEMMA WorldInductive ==
  ASSUME Inductive, Connect \/ ConnectionLost \/ FleetChanges \/ ReconcileFleet
  PROVE  Inductive'
<1>1. car \in Car /\ LatchCoherent(car) /\ disk \in Car /\ LatchCoherent(disk)
  BY DEF Inductive, TypeOK, EpisodesCoherent
<1>2. CASE Connect \/ ConnectionLost
  <2>1. car' \in Car /\ LatchCoherent(car')
    <3> DEFINE reset == [car EXCEPT !.initialized = FALSE, !.state = "",
                           !.shift = "", !.charging = "", !.level = NoLevel]
    <3>1. /\ reset.latched = car.latched /\ reset.severe = car.severe
          /\ reset.episode = car.episode /\ reset.actions = car.actions
          /\ reset \in Car
      BY <1>1, ResetType DEF Car
    <3>2. car' = reset \/ car' = car
      BY <1>2 DEF Connect, ConnectionLost, ResetBaseline
    <3> QED
      BY <1>1, <3>1, <3>2 DEF LatchCoherent
  <2>2. /\ linked' \in BOOLEAN /\ armed' = FALSE /\ evidence' = "none"
        /\ UNCHANGED <<disk, dirty, orphans, threads, inFleet, handed, credit>>
    BY <1>2 DEF Connect, ConnectionLost, ResetBaseline
  <2> QED
    BY <1>1, <2>1, <2>2 DEF Inductive, TypeOK, EpisodesCoherent, LatchCoherent
<1>3. CASE FleetChanges
  BY <1>3 DEF FleetChanges, Inductive, TypeOK, EpisodesCoherent, LatchCoherent,
              store, timers, history
<1>4. CASE ReconcileFleet
  <2>1. car' = NoCar /\ armed' = FALSE /\ handed' = {}
        /\ UNCHANGED <<disk, dirty, orphans, threads, world, evidence, credit>>
    BY <1>4 DEF ReconcileFleet
  <2>2. car' \in Car /\ LatchCoherent(car')
    BY <2>1, NewCarType, NewCarLatch
  <2> QED
    BY <1>1, <2>1, <2>2 DEF Inductive, TypeOK, EpisodesCoherent, LatchCoherent, world
<1> QED
  BY <1>2, <1>3, <1>4

LEMMA TimeInductive ==
  ASSUME Inductive, Tick \/ Restart PROVE Inductive'
<1>1. car \in Car /\ LatchCoherent(car) /\ disk \in Car /\ LatchCoherent(disk)
  BY DEF Inductive, TypeOK, EpisodesCoherent
<1>2. CASE Tick
  <2>1. /\ car' \in Car /\ LatchCoherent(car')
        /\ disk' \in Car /\ LatchCoherent(disk')
    BY <1>1, <1>2, AgedType, AgedLatch DEF Tick
  <2>2. EpisodesCoherent'
    BY <2>1 DEF EpisodesCoherent, LatchCoherent
  <2> QED
    BY <1>2, <2>1, <2>2 DEF Tick, Inductive, TypeOK, timers, world, history
<1>3. CASE Restart
  <2>1. /\ car' \in Car /\ LatchCoherent(car')
        /\ disk' \in Car /\ LatchCoherent(disk')
    BY <1>1, <1>3 DEF Restart, LatchCoherent
  <2>2. EpisodesCoherent'
    BY <2>1 DEF EpisodesCoherent, LatchCoherent
  <2>3. orphans' \in 0..MaxOrphans
    <3>1. MaxOrphans \in Nat /\ orphans' = 0
      BY <1>3, Constants DEF Restart
    <3> QED
      BY <3>1
  <2>4. threads' \in [Threads -> FanOuts \cup {Idle, Waiting}]
    BY <1>3 DEF Restart
  <2>5. /\ handed' \subseteq Installations \X Kinds
        /\ credit' \in [Installations -> 0..2]
    BY <1>3 DEF Restart, Inductive, TypeOK
  <2>6. dirty' = FALSE /\ armed' = FALSE /\ linked' = FALSE /\ evidence' = "none"
        /\ UNCHANGED inFleet
    BY <1>3 DEF Restart
  <2> QED
    BY <2>1, <2>2, <2>3, <2>4, <2>5, <2>6 DEF Inductive, TypeOK
<1> QED
  BY <1>2, <1>3

LEMMA StepInductive == Inductive /\ [Next]_vars => Inductive'
<1> SUFFICES ASSUME Inductive, [Next]_vars PROVE Inductive'
  OBVIOUS
<1>1. SaveOutcomes \subseteq BOOLEAN
  BY DEF SaveOutcomes
<1>2. Callbacks \subseteq Threads /\ ReminderLoop \in Threads
  BY DEF Threads
<1>3. ASSUME NEW ok \in SaveOutcomes, NEW t \in Callbacks, CallbackStep(t, ok)
      PROVE  Inductive'
  BY <1>1, <1>2, <1>3, TimerInductive, EvaluateInductive, HandOverInductive
     DEF CallbackStep
<1>4. ASSUME NEW ok \in SaveOutcomes, ReminderStep(ok) PROVE Inductive'
  BY <1>1, <1>2, <1>4, RemindersInductive, HandOverInductive DEF ReminderStep
<1>5. ASSUME NEW ok \in SaveOutcomes, Environment(ok) PROVE Inductive'
  BY <1>1, <1>5, ObserveInductive, ActionInductive DEF Environment
<1>6. CASE UNCHANGED vars
  BY <1>6 DEF vars, Inductive, TypeOK, EpisodesCoherent, LatchCoherent
<1> QED
  BY <1>3, <1>4, <1>5, <1>6, WorldInductive, TimeInductive DEF Next

LEMMA InductiveHolds == Spec => []Inductive
BY InitInductive, StepInductive, PTL DEF Spec

(* The car in memory and in the file, the timers and the fan-outs stay     *)
(* well formed (lowBatteryStore and the callbacks of                       *)
(* src/low_battery_notification.go).                                       *)
THEOREM TypeCorrect == Spec => []TypeOK
<1>1. Inductive => TypeOK
  BY DEF Inductive
<1> QED
  BY <1>1, InductiveHolds, PTL

(* evaluate, applyAction and processDueReminders change the latch, the     *)
(* episode and the owners' choices together only, in memory and in the     *)
(* file, and every crash and failed save leaves them so.                   *)
THEOREM EpisodesStayCoherent == Spec => []EpisodesCoherent
<1>1. Inductive => EpisodesCoherent
  BY DEF Inductive
<1> QED
  BY <1>1, InductiveHolds, PTL

-----------------------------------------------------------------------------
(* Alerts follow live evidence                                             *)

(* Without evidence the car waits for its baseline, or nothing can evaluate *)
(* it: the values a restart found in the file are used by no callback       *)
(* before the connection resets them.  After a baseline everything that the *)
(* level deserves is already latched.                                       *)
EvidenceKnown ==
  /\ evidence = "none" /\ car.initialized =>
       ~linked /\ ~armed /\ orphans = 0 /\ \A t \in Callbacks : threads[t] # Waiting
  /\ evidence = "baseline" /\ car.initialized /\ Eligible(car) =>
       car.latched /\ (car.level < SeverePercent => car.severe)
  /\ (car.initialized => car.present) /\ (disk.initialized => disk.present)

LEMMA InitEvidence == Init => EvidenceKnown
BY DEF Init, EvidenceKnown, NoCar, NewCar

(* The helpers leave alone what eligibility depends on.                    *)
SameReadings(c, d) ==
  /\ d.level = c.level /\ d.state = c.state /\ d.shift = c.shift
  /\ d.charging = c.charging /\ d.present = c.present

LEMMA SameEligible ==
  ASSUME NEW c, NEW d, SameReadings(c, d) PROVE Eligible(d) <=> Eligible(c)
BY DEF SameReadings, Eligible, IsCharging

LEMMA HelpersKeepReadings ==
  ASSUME NEW c \in Car, NEW which, NEW outcome
  PROVE  LET d == EndSnoozes(c, which, outcome)
         IN  /\ SameReadings(c, d) /\ d.initialized = c.initialized
             /\ d.latched = c.latched /\ d.severe = c.severe
BY DEF EndSnoozes, SameReadings, Car

LEMMA SettledReadings ==
  ASSUME NEW c \in Car
  PROVE  /\ SameReadings(c, Settled(c)) /\ Settled(c).initialized = c.initialized
         /\ Eligible(c) => Settled(c) = c
<1>1. /\ SameReadings(c, Rearmed(c)) /\ Rearmed(c).initialized = c.initialized
      /\ Rearmed(c) \in Car
  BY SettledType DEF Rearmed, Rearm, SameReadings, Car
<1>2. Eligible(c) => Settled(c) = c
  BY NotRearmedWhileLow DEF Settled, Eligible
<1>3. CASE IsCharging(c)
  BY <1>1, <1>2, <1>3, HelpersKeepReadings DEF Settled, SameReadings
<1>4. CASE ~IsCharging(c)
  BY <1>1, <1>2, <1>4 DEF Settled
<1> QED
  BY <1>3, <1>4

LEMMA BaselineReadings ==
  ASSUME NEW c \in Car, NEW episode
  PROVE  /\ SameReadings(c, Baseline(c, episode))
         /\ Eligible(c) => Baseline(c, episode).latched
         /\ Eligible(c) => Baseline(c, episode).severe = (c.level < SeverePercent)
<1>1. CASE Eligible(c)
  <2> DEFINE severe == c.level < SeverePercent
             d == Baseline(c, episode)
  <2>1. d = [[c EXCEPT !.initialized = TRUE] EXCEPT !.latched = TRUE,
               !.severe = severe, !.episode = episode,
               !.actions = IF c.episode = NoEpisode THEN NoChoices ELSE @]
    BY <1>1, NotRearmedWhileLow DEF Baseline
  <2> HIDE DEF severe, d
  <2>2. SameReadings(c, d) /\ d.latched /\ d.severe = severe
    BY <2>1 DEF SameReadings, Car
  <2> QED
    BY <2>2 DEF severe, d
<1>2. CASE ~Eligible(c)
  BY <1>2 DEF Baseline, Rearmed, Rearm, SameReadings, Car
<1> QED
  BY <1>1, <1>2

LEMMA ObserveEvidence ==
  ASSUME Inductive, EvidenceKnown, NEW message \in Messages, NEW retained \in BOOLEAN,
         NEW ok \in BOOLEAN, Observe(message, retained, ok)
  PROVE  EvidenceKnown'
<1> DEFINE w == WithField(Known, message[1], message[2])
<1>1. Known \in Car /\ Known.present /\ (Known.initialized => car.initialized)
  BY KnownInductive DEF Known, NewCar
<1>2. w \in Car
  BY <1>1, ObservedType
<1>3. w.initialized = Known.initialized /\ w.present = Known.present
  <2>1. CASE message[1] = "battery_level"
    BY <1>1, <2>1 DEF WithField, Car
  <2>2. CASE message[1] = "state"
    BY <1>1, <2>2 DEF WithField, Car
  <2>3. CASE message[1] = "charging_state"
    BY <1>1, <2>3 DEF WithField, Car
  <2>4. CASE message[1] = "shift_state"
    BY <1>1, <2>4 DEF WithField, Car
  <2> QED
    BY <2>1, <2>2, <2>3, <2>4, MessageFields
<1>4. Observed(Known, message[1], message[2], retained)
        = [w EXCEPT !.initialized = @ /\ ~retained /\ w.state # ""
                                      /\ w.charging # ""]
  BY DEF Observed
<1> HIDE DEF w
<1>5. car'.present /\ (car'.initialized => car.initialized /\ ~retained)
  <2>1. CASE car' = [Known EXCEPT !.level = NoLevel, !.initialized = FALSE]
    BY <1>1, <2>1 DEF Car
  <2>2. CASE car' = Observed(Known, message[1], message[2], retained)
    BY <1>1, <1>2, <1>3, <1>4, <2>2 DEF Car
  <2> QED
    BY <2>1, <2>2 DEF Observe
<1>6. /\ linked /\ disk' \in {disk, car'}
      /\ evidence' = IF retained THEN "none"
                     ELSE IF evidence = "baseline" THEN "live" ELSE evidence
  BY DEF Observe, Save
<1>7. ~(evidence' = "none" /\ car'.initialized) /\ evidence' # "baseline"
  BY <1>5, <1>6 DEF EvidenceKnown
<1> QED
  BY <1>5, <1>6, <1>7 DEF EvidenceKnown

LEMMA TimerEvidence ==
  ASSUME Inductive, EvidenceKnown, NEW t \in Callbacks, TimerFires(t)
  PROVE  EvidenceKnown'
<1>1. UNCHANGED <<store, world, history>>
  BY DEF TimerFires
<1>2. ~(evidence = "none" /\ car.initialized)
  BY DEF TimerFires, EvidenceKnown
<1> QED
  BY <1>1, <1>2 DEF EvidenceKnown, store, world, history, Eligible, IsCharging

(* The only alerts without live evidence would start in an evaluation:     *)
(* there the latch already holds, or the car has no baseline.              *)
LEMMA EvaluateEvidence ==
  ASSUME Inductive, EvidenceKnown, NEW t \in Callbacks, NEW ok \in BOOLEAN,
         Evaluate(t, ok)
  PROVE  /\ EvidenceKnown'
         /\ OpenEpisode(t) \/ Escalate(t) => evidence = "live"
         /\ threads'[t].pc = "sending" => OpenEpisode(t) \/ Escalate(t)
<1> DEFINE c == Settled(car)
<1>1. car \in Car /\ SameReadings(car, c) /\ c.initialized = car.initialized
      /\ (Eligible(car) => c = car) /\ (Eligible(c) <=> Eligible(car))
  BY SettledReadings, SameEligible DEF Inductive, TypeOK
<1>2. ~(evidence = "none" /\ car.initialized)
  BY DEF Evaluate, EvidenceKnown
<1>3. OpenEpisode(t) \/ Escalate(t) => evidence = "live"
  <2>1. evidence \in {"none", "baseline", "live"}
    BY DEF Inductive, TypeOK
  <2>2. OpenEpisode(t) \/ Escalate(t) =>
          car.initialized /\ Eligible(c)
          /\ (~c.latched \/ (c.level < SeverePercent /\ ~c.severe))
    BY DEF OpenEpisode, Escalate
  <2> QED
    BY <1>1, <1>2, <2>1, <2>2 DEF EvidenceKnown
<1> HIDE DEF c
<1>4. threads \in [Threads -> FanOuts \cup {Idle, Waiting}] /\ t \in Threads
  BY DEF Inductive, TypeOK, Threads
<1>5. Idle.pc # "sending"
  BY DEF Idle
<1>6. threads'[t].pc = "sending" => OpenEpisode(t) \/ Escalate(t)
  BY <1>4, <1>5 DEF Evaluate, TakeBaseline, NothingNew
<1>7. EvidenceKnown'
  <2>1. CASE ~Complete(car) /\ UNCHANGED <<store, history>>
    BY <1>2, <2>1 DEF EvidenceKnown, store, history, Eligible, IsCharging
  <2>2. CASE Complete(car) /\ Save(ok) /\ TakeBaseline(t)
    <3>1. PICK episode : car' = Baseline(car, episode)
      BY <2>2 DEF TakeBaseline
    <3>2. evidence' = "baseline" /\ disk' \in {disk, car'}
      BY <2>2 DEF TakeBaseline, Save
    <3>3. SameReadings(car, car') /\ (Eligible(car') <=> Eligible(car))
      BY <1>1, <3>1, BaselineReadings, SameEligible
    <3>4. Eligible(car) => car'.latched /\ (car.level < SeverePercent => car'.severe)
      BY <1>1, <3>1, BaselineReadings
    <3> QED
      BY <2>2, <3>2, <3>3, <3>4 DEF EvidenceKnown, SameReadings, Complete,
                                    Eligible, IsCharging
  <2>3. CASE Complete(car) /\ Save(ok) /\ (OpenEpisode(t) \/ Escalate(t))
    <3>1. evidence' = "live"
      BY <1>3, <2>3 DEF OpenEpisode, Escalate
    <3>2. car'.present /\ disk' \in {disk, car'}
      <4>1. c.present /\ c \in Car
        BY <1>1, <2>3, SettledType DEF SameReadings, Complete, c
      <4>2. CASE OpenEpisode(t)
        <5>1. PICK episode : car' = Opened(c, episode)
          BY <4>2 DEF OpenEpisode, c
        <5> QED
          BY <2>3, <4>1, <5>1 DEF Opened, Car, Save
      <4>3. CASE Escalate(t)
        <5>1. car' = Escalated(c)
          BY <4>3 DEF Escalate, c
        <5> QED
          BY <2>3, <4>1, <5>1 DEF Escalated, EndSnoozes, Car, Save
      <4> QED
        BY <2>3, <4>2, <4>3
    <3> QED
      BY <3>1, <3>2 DEF EvidenceKnown
  <2>4. CASE Complete(car) /\ Save(ok) /\ NothingNew(t)
    <3>1. car' = c /\ evidence' = evidence /\ disk' \in {disk, car'}
      BY <2>4 DEF NothingNew, Save, c
    <3>2. car'.present
      BY <1>1, <2>4, <3>1 DEF SameReadings, Complete
    <3>3. ~(evidence' = "none" /\ car'.initialized)
      BY <1>1, <1>2, <3>1
    <3>4. evidence' = "baseline" /\ car'.initialized /\ Eligible(car') =>
            car'.latched /\ (car'.level < SeverePercent => car'.severe)
      BY <1>1, <3>1 DEF EvidenceKnown
    <3> QED
      BY <3>1, <3>2, <3>3, <3>4 DEF EvidenceKnown, Eligible, IsCharging
  <2> QED
    BY <2>1, <2>2, <2>3, <2>4 DEF Evaluate
<1> QED
  BY <1>3, <1>6, <1>7

LEMMA FanOutEvidence ==
  ASSUME Inductive, EvidenceKnown, NEW t \in Threads, NEW i \in Installations,
         HandOver(t, i) \/ GiveUp(t, i)
  PROVE  EvidenceKnown'
<1>1. UNCHANGED <<store, timers, world, evidence>>
  BY DEF HandOver, GiveUp, history
<1>2. \A u \in Callbacks : threads[u] # Waiting => threads'[u] # Waiting
  <2>1. PICK to : threads' = [threads EXCEPT ![t] = IF to = {} THEN Idle
                                                    ELSE [@ EXCEPT !.to = to]]
    BY DEF HandOver, GiveUp, StillToDo
  <2>2. threads \in [Threads -> FanOuts \cup {Idle, Waiting}] /\ threads[t] \in FanOuts
    BY ThreadsType DEF HandOver, GiveUp, Inductive, TypeOK
  <2>3. Idle # Waiting /\ [threads[t] EXCEPT !.to = to] # Waiting
    BY <2>2 DEF Idle, Waiting, FanOuts
  <2> QED
    BY <2>1, <2>2, <2>3 DEF Threads
<1> QED
  BY <1>1, <1>2 DEF EvidenceKnown, store, timers, world, Eligible, IsCharging

LEMMA OwnersEvidence ==
  ASSUME Inductive, EvidenceKnown, NEW ok \in BOOLEAN,
         \/ RemindersDue(ok)
         \/ \E i \in Installations, action \in {"ack", "snooze_4h"}, episode \in Episodes :
              ApplyAction(i, action, episode, ok)
  PROVE  EvidenceKnown'
<1>1. car \in Car
  BY DEF Inductive, TypeOK
<1>2. /\ SameReadings(car, car') /\ car'.initialized = car.initialized
      /\ car'.latched = car.latched /\ car'.severe = car.severe
  <2>1. CASE RemindersDue(ok)
    BY <1>1, <2>1, HelpersKeepReadings DEF RemindersDue
  <2>2. CASE \E i \in Installations, action \in {"ack", "snooze_4h"},
                episode \in Episodes : ApplyAction(i, action, episode, ok)
    BY <1>1, <2>2 DEF ApplyAction, SameReadings, Car
  <2> QED
    BY <2>1, <2>2
<1>3. /\ UNCHANGED <<timers, world, evidence>> /\ disk' \in {disk, car'}
      /\ \A u \in Callbacks : threads'[u] = threads[u]
  BY Constants DEF RemindersDue, ApplyAction, Save, history, Inductive, TypeOK, Threads
<1>4. Eligible(car') <=> Eligible(car)
  BY <1>2, SameEligible
<1> QED
  BY <1>2, <1>3, <1>4 DEF EvidenceKnown, SameReadings, timers, world

LEMMA WorldEvidence ==
  ASSUME Inductive, EvidenceKnown,
         \/ Connect \/ ConnectionLost \/ FleetChanges \/ ReconcileFleet
         \/ Tick \/ Restart
  PROVE  EvidenceKnown'
<1>1. car \in Car /\ disk \in Car
  BY DEF Inductive, TypeOK
<1>2. CASE Connect \/ ConnectionLost
  <2>1. ~car'.initialized /\ evidence' = "none" /\ disk' = disk
    BY <1>1, <1>2 DEF Connect, ConnectionLost, ResetBaseline, EvidenceKnown, Car
  <2> QED
    BY <2>1 DEF EvidenceKnown
<1>3. CASE FleetChanges
  BY <1>3 DEF FleetChanges, EvidenceKnown, store, timers, history, Eligible, IsCharging
<1>4. CASE ReconcileFleet
  <2>1. ~car'.initialized /\ disk' = disk
    BY <1>4 DEF ReconcileFleet, NoCar, NewCar
  <2> QED
    BY <2>1 DEF EvidenceKnown
<1>5. CASE Tick
  <2>1. ASSUME NEW c \in Car
        PROVE  /\ SameReadings(c, Aged(c)) /\ Aged(c).initialized = c.initialized
               /\ Aged(c).latched = c.latched /\ Aged(c).severe = c.severe
    BY DEF SameReadings, Aged, Car
  <2>2. Eligible(car') <=> Eligible(car)
    BY <1>1, <1>5, <2>1, SameEligible DEF Tick
  <2>3. car' = Aged(car) /\ disk' = Aged(disk) /\ UNCHANGED <<timers, threads, world, history>>
    BY <1>5 DEF Tick
  <2> QED
    BY <1>1, <2>1, <2>2, <2>3 DEF EvidenceKnown, SameReadings, timers, world, history
<1>6. CASE Restart
  <2>1. /\ car' = disk /\ disk' = disk /\ evidence' = "none" /\ linked' = FALSE
        /\ armed' = FALSE /\ orphans' = 0 /\ threads' = [t \in Threads |-> Idle]
    BY <1>6 DEF Restart
  <2>2. \A u \in Callbacks : threads'[u] # Waiting
    BY <2>1 DEF Threads, Idle, Waiting
  <2> QED
    BY <2>1, <2>2 DEF EvidenceKnown
<1> QED
  BY <1>2, <1>3, <1>4, <1>5, <1>6

LEMMA StepEvidence == Inductive /\ EvidenceKnown /\ [Next]_vars => EvidenceKnown'
<1> SUFFICES ASSUME Inductive, EvidenceKnown, [Next]_vars PROVE EvidenceKnown'
  OBVIOUS
<1>1. SaveOutcomes \subseteq BOOLEAN
  BY DEF SaveOutcomes
<1>2. Callbacks \subseteq Threads /\ ReminderLoop \in Threads
  BY DEF Threads
<1>3. ASSUME NEW ok \in SaveOutcomes, NEW t \in Callbacks, CallbackStep(t, ok)
      PROVE  EvidenceKnown'
  BY <1>1, <1>2, <1>3, TimerEvidence, EvaluateEvidence, FanOutEvidence
     DEF CallbackStep
<1>4. ASSUME NEW ok \in SaveOutcomes, ReminderStep(ok) PROVE EvidenceKnown'
  BY <1>1, <1>2, <1>4, OwnersEvidence, FanOutEvidence DEF ReminderStep
<1>5. ASSUME NEW ok \in SaveOutcomes, Environment(ok) PROVE EvidenceKnown'
  BY <1>1, <1>5, ObserveEvidence, OwnersEvidence DEF Environment
<1>6. CASE UNCHANGED vars
  BY <1>6 DEF vars, EvidenceKnown, Eligible, IsCharging
<1> QED
  BY <1>3, <1>4, <1>5, <1>6, WorldEvidence DEF Next

(* A thread that starts to send an alert does so in an evaluation.         *)
LEMMA StartsWithEvidence ==
  ASSUME Inductive, EvidenceKnown, [Next]_vars, NEW t \in Threads,
         Starts(t, "low") \/ Starts(t, "severe")
  PROVE  evidence = "live"
<1>1. /\ threads \in [Threads -> FanOuts \cup {Idle, Waiting}]
      /\ SaveOutcomes \subseteq BOOLEAN /\ Callbacks \subseteq Threads
      /\ ReminderLoop \in Threads
  BY DEF Inductive, TypeOK, SaveOutcomes, Threads
<1>2. /\ threads[t].pc # "sending" /\ threads'[t].pc = "sending"
      /\ threads'[t].kind # "reminder"
  BY DEF Starts
<1>3. Idle.pc # "sending" /\ Waiting.pc # "sending"
  BY DEF Idle, Waiting
<1>4. threads' # threads
  BY <1>2
<1>5. ASSUME NEW u \in Threads, TimerFires(u) PROVE FALSE
  BY <1>1, <1>2, <1>3, <1>5 DEF TimerFires
<1>6. ASSUME NEW u \in Threads, NEW i \in Installations, HandOver(u, i) \/ GiveUp(u, i)
      PROVE  FALSE
  <2>1. PICK to : threads' = [threads EXCEPT ![u] = IF to = {} THEN Idle
                                                    ELSE [@ EXCEPT !.to = to]]
    BY <1>6 DEF HandOver, GiveUp, StillToDo
  <2>2. u # t
    BY <1>2, <1>6 DEF HandOver, GiveUp
  <2> QED
    BY <1>1, <1>2, <2>1, <2>2
<1>7. ASSUME NEW ok, RemindersDue(ok) PROVE FALSE
  <2>1. PICK to : threads' = [threads EXCEPT ![ReminderLoop] =
          IF to = {} THEN Idle ELSE [pc |-> "sending", kind |-> "reminder",
                                     episode |-> car.episode, to |-> to]]
    BY <1>7 DEF RemindersDue
  <2> QED
    BY <1>1, <1>2, <1>3, <2>1
<1>8. ASSUME NEW u \in Callbacks, NEW ok \in BOOLEAN, Evaluate(u, ok)
      PROVE  evidence = "live"
  <2>1. u = t
    BY <1>1, <1>2, <1>8 DEF Evaluate, TakeBaseline, OpenEpisode, Escalate,
                            NothingNew, StartFanOut
  <2> QED
    BY <1>2, <1>8, <2>1, EvaluateEvidence
<1>9. ASSUME Restart PROVE FALSE
  BY <1>2, <1>3, <1>9 DEF Restart
<1>10. ASSUME NEW ok, Environment(ok) PROVE FALSE
  BY <1>4, <1>10 DEF Environment, Observe, ApplyAction
<1>11. ASSUME Connect \/ ConnectionLost \/ FleetChanges \/ ReconcileFleet \/ Tick
                \/ UNCHANGED vars
       PROVE  FALSE
  BY <1>4, <1>11 DEF Connect, ConnectionLost, ResetBaseline, FleetChanges,
                     ReconcileFleet, Tick, vars
<1> QED
  BY <1>1, <1>5, <1>6, <1>7, <1>8, <1>9, <1>10, <1>11
     DEF Next, CallbackStep, ReminderStep

(* evaluate never starts an alert from the first snapshot after a process  *)
(* start, a reconnect or a retained replay (observeMessage,                *)
(* resetObservationBaselineLocked and loadState), whichever stopped or     *)
(* forgotten timer calls it.                                               *)
THEOREM AlertsFollowLiveEvidence == Spec => AlertsNeedLiveEvidence
<1>1. Inductive /\ EvidenceKnown /\ [Next]_vars =>
        [\A t \in Threads : Starts(t, "low") \/ Starts(t, "severe")
            => evidence = "live"]_vars
  BY StartsWithEvidence
<1> QED
  BY <1>1, InductiveHolds, InitEvidence, StepEvidence, PTL
     DEF Spec, AlertsNeedLiveEvidence

-----------------------------------------------------------------------------
(* One alert for a descent, one reminder for a snooze                      *)

(* A pending snooze counts as one reminder to come, ...                    *)
Owed(c, i) == IF Snoozed(c, i) THEN 1 ELSE 0

(* ... and so does a fan-out of the reminder loop that may still reach i.  *)
Flying(i) ==
  IF /\ threads[ReminderLoop].pc = "sending" /\ i \in threads[ReminderLoop].to
     /\ threads[ReminderLoop].episode = car.episode
  THEN 1 ELSE 0

(* A car that is not there has no episode. *)
Anchored(c) == c.episode # NoEpisode => c.present

(* From c to d the episode stays, and no snooze begins. *)
Calmer(c, d) ==
  /\ d.episode = c.episode /\ (c.present => d.present)
  /\ \A i \in Installations : Owed(d, i) <= Owed(c, i)

Cleared(c) == c.episode = NoEpisode /\ \A i \in Installations : Owed(c, i) = 0

LEMMA SameCalm ==
  ASSUME NEW c, NEW d, d.episode = c.episode, d.present = c.present, d.actions = c.actions
  PROVE  Calmer(c, d)
BY DEF Calmer, Owed, Snoozed

LEMMA NothingSnoozed ==
  ASSUME NEW c, c.actions = NoChoices, NEW i \in Installations PROVE Owed(c, i) = 0
BY DEF NoChoices, Owed, Snoozed

LEMMA EndSnoozesCalms ==
  ASSUME NEW c \in Car, NEW which, NEW outcome, outcome # "snooze_4h"
  PROVE  LET d == EndSnoozes(c, which, outcome)
         IN  /\ Calmer(c, d)
             /\ \A i \in Installations : i \in which => Owed(d, i) = 0
<1> DEFINE d == EndSnoozes(c, which, outcome)
<1>1. d.episode = c.episode /\ d.present = c.present
  BY DEF EndSnoozes, Car
<1>2. ASSUME NEW i \in Installations
      PROVE  d.actions[i] = IF i \in which THEN [action |-> outcome, left |-> 0]
                            ELSE c.actions[i]
  BY <1>2 DEF EndSnoozes, Car
<1> HIDE DEF d
<1>3. ASSUME NEW i \in Installations
      PROVE  Owed(d, i) <= Owed(c, i) /\ (i \in which => Owed(d, i) = 0)
  <2>1. CASE i \in which
    <3>1. d.actions[i].action = outcome
      BY <1>2, <2>1
    <3> QED
      BY <3>1 DEF Owed, Snoozed
  <2>2. CASE i \notin which
    BY <1>2, <2>2 DEF Owed, Snoozed
  <2> QED
    BY <2>1, <2>2
<1> QED
  BY <1>1, <1>3 DEF Calmer, d

LEMMA AgedCalms == ASSUME NEW c \in Car PROVE Calmer(c, Aged(c))
<1> DEFINE d == Aged(c)
<1>1. d.episode = c.episode /\ d.present = c.present
  BY DEF Aged, Car
<1>2. ASSUME NEW i \in Installations PROVE d.actions[i].action = c.actions[i].action
  <2>1. d.actions[i] = [c.actions[i] EXCEPT !.left = IF @ = 0 THEN 0 ELSE @ - 1]
    BY <1>2 DEF Aged, Car
  <2>2. c.actions[i] \in Choices
    BY DEF Car
  <2> QED
    BY <2>1, <2>2 DEF Choices
<1> QED
  BY <1>1, <1>2 DEF Calmer, Owed, Snoozed

LEMMA RearmClears ==
  ASSUME NEW c \in Car PROVE Cleared(Rearm(c)) /\ Rearm(c).present = c.present
<1>1. Rearm(c).episode = NoEpisode /\ Rearm(c).actions = NoChoices
      /\ Rearm(c).present = c.present
  BY DEF Rearm, Car
<1> QED
  BY <1>1, NothingSnoozed DEF Cleared

LEMMA CalmIsClear ==
  ASSUME NEW c, NEW d, Cleared(c), Calmer(c, d) PROVE Cleared(d)
<1>1. ASSUME NEW i \in Installations PROVE Owed(d, i) = 0
  <2>1. Owed(d, i) <= 0 /\ Owed(d, i) \in {0, 1}
    BY DEF Cleared, Calmer, Owed
  <2> QED
    BY <2>1
<1> QED
  BY <1>1 DEF Cleared, Calmer

LEMMA SettledCalms ==
  ASSUME NEW c \in Car
  PROVE  /\ c.level >= RearmPercent => Cleared(Settled(c)) /\ (c.present => Settled(c).present)
         /\ ~(c.level >= RearmPercent) => Calmer(c, Settled(c))
<1> DEFINE r == Rearmed(c)
<1>1. r \in Car
  BY SettledType
<1>2. Calmer(r, Settled(c))
  <2>1. CASE IsCharging(c)
    <3>1. Settled(c) = EndSnoozes(r, AllSnoozed(r), "cancelled")
      BY <2>1 DEF Settled
    <3> QED
      BY <1>1, <3>1, EndSnoozesCalms
  <2>2. CASE ~IsCharging(c)
    BY <2>2, SameCalm DEF Settled
  <2> QED
    BY <2>1, <2>2
<1>3. CASE c.level >= RearmPercent
  <2>1. r = Rearm(c)
    BY <1>3 DEF Rearmed
  <2> QED
    BY <1>2, <1>3, <2>1, RearmClears, CalmIsClear DEF Calmer
<1>4. CASE ~(c.level >= RearmPercent)
  BY <1>2, <1>4 DEF Rearmed
<1> QED
  BY <1>3, <1>4

LEMMA ObservedCalms ==
  ASSUME NEW c \in Car, NEW message \in Messages, NEW retained \in BOOLEAN
  PROVE  Calmer(c, Observed(c, message[1], message[2], retained))
<1> DEFINE w == WithField(c, message[1], message[2])
           o == Observed(c, message[1], message[2], retained)
<1>1. w \in Car
  BY ObservedType
<1>2. w.episode = c.episode /\ w.present = c.present /\ w.actions = c.actions
  <2>1. CASE message[1] = "battery_level"
    BY <2>1 DEF WithField, Car
  <2>2. CASE message[1] = "state"
    BY <2>2 DEF WithField, Car
  <2>3. CASE message[1] = "charging_state"
    BY <2>3 DEF WithField, Car
  <2>4. CASE message[1] = "shift_state"
    BY <2>4 DEF WithField, Car
  <2> QED
    BY <2>1, <2>2, <2>3, <2>4, MessageFields
<1>3. o = [w EXCEPT !.initialized = @ /\ ~retained /\ w.state # "" /\ w.charging # ""]
  BY DEF Observed
<1> HIDE DEF w, o
<1>4. o.episode = w.episode /\ o.present = w.present /\ o.actions = w.actions
  BY <1>1, <1>3 DEF Car
<1> QED
  BY <1>2, <1>4, SameCalm DEF o

LEMMA KnownCalms ==
  ASSUME Inductive, Anchored(car)
  PROVE  /\ Known \in Car /\ Known.present /\ Known.episode = car.episode
         /\ \A i \in Installations : Owed(Known, i) <= Owed(car, i)
<1>1. Known \in Car /\ Known.present
  BY KnownInductive DEF Known, NewCar
<1>2. CASE car.present
  <2>1. Known = car
    BY <1>2 DEF Known
  <2> QED
    BY <1>1, <2>1 DEF Owed
<1>3. CASE ~car.present
  <2>1. Known = NewCar /\ car.episode = NoEpisode
    BY <1>3 DEF Known, Anchored
  <2>2. NewCar.episode = NoEpisode /\ NewCar.actions = NoChoices
    BY DEF NewCar
  <2> QED
    BY <1>1, <2>1, <2>2, NothingSnoozed DEF Owed
<1> QED
  BY <1>2, <1>3

(* What an evaluation makes of the episode: it goes on, it is over because *)
(* the battery was seen charged, or there is one no other thread knows.    *)
GoesOn(t) ==
  /\ Calmer(car, car') /\ UNCHANGED <<handed, credit>>
  /\ threads'[t].pc = "sending" => threads'[t].kind = "severe"
IsOver(t) ==
  /\ Cleared(car') /\ (car.present => car'.present)
  /\ handed' = {} /\ credit' = [i \in Installations |-> 0] /\ threads'[t].pc # "sending"
IsNew(t) ==
  /\ car.episode = NoEpisode /\ car'.episode \in FreshEpisodes
  /\ car.present => car'.present
  /\ (\A i \in Installations : Owed(car', i) = 0) /\ UNCHANGED <<handed, credit>>
  /\ threads'[t].pc = "sending" =>
       threads'[t].kind \in {"low", "severe"} /\ threads'[t].episode = car'.episode

LEMMA LowIsNotFull ==
  ASSUME NEW c \in Car, Eligible(c) PROVE ~(c.level >= RearmPercent)
<1>1. c.level \in Levels \cup {NoLevel}
  BY DEF Car
<1>2. c.level # NoLevel /\ c.level < EnterPercent
  BY DEF Eligible
<1>3. c.level \in Nat
  BY <1>1, <1>2, Constants
<1>4. ASSUME NEW n \in Nat, n < EnterPercent PROVE ~(n >= RearmPercent)
  BY <1>4, Constants
<1> QED
  BY <1>2, <1>3, <1>4

LEMMA BaselineCalms ==
  ASSUME NEW c \in Car, LatchCoherent(c), NEW episode,
         c.episode # NoEpisode => episode = c.episode
  PROVE  LET d == Baseline(c, episode)
         IN  /\ c.present => d.present
             /\ c.level >= RearmPercent => Cleared(d)
             /\ ~(c.level >= RearmPercent) =>
                  \/ Calmer(c, d)
                  \/ /\ c.episode = NoEpisode /\ d.episode = episode
                     /\ \A i \in Installations : Owed(d, i) = 0
<1> DEFINE d == Baseline(c, episode)
<1>1. CASE Eligible(c)
  <2> DEFINE severe == c.level < SeverePercent
  <2>1. d = [[c EXCEPT !.initialized = TRUE] EXCEPT !.latched = TRUE,
               !.severe = severe, !.episode = episode,
               !.actions = IF c.episode = NoEpisode THEN NoChoices ELSE @]
    BY <1>1, NotRearmedWhileLow DEF Baseline
  <2>2. ~(c.level >= RearmPercent)
    BY <1>1, LowIsNotFull
  <2> HIDE DEF severe, d
  <2>3. /\ d.present = c.present /\ d.episode = episode
        /\ d.actions = IF c.episode = NoEpisode THEN NoChoices ELSE c.actions
    BY <2>1 DEF Car
  <2>4. CASE c.episode = NoEpisode
    BY <2>2, <2>3, <2>4, NothingSnoozed DEF d
  <2>5. CASE c.episode # NoEpisode
    BY <2>2, <2>3, <2>5, SameCalm DEF d
  <2> QED
    BY <2>4, <2>5
<1>2. CASE ~Eligible(c)
  <2> DEFINE r == Rearmed(c)
  <2>1. r \in Car
    BY SettledType
  <2>2. d = [r EXCEPT !.initialized = TRUE]
    BY <1>2 DEF Baseline
  <2>3. c.level >= RearmPercent => Cleared(r) /\ r.present = c.present
    BY RearmClears DEF Rearmed
  <2>4. ~(c.level >= RearmPercent) => r = c
    BY DEF Rearmed
  <2> HIDE DEF r, d
  <2>5. Calmer(r, d)
    <3>1. d.episode = r.episode /\ d.present = r.present /\ d.actions = r.actions
      BY <2>1, <2>2 DEF Car
    <3> QED
      BY <3>1, SameCalm
  <2>6. c.level >= RearmPercent => Cleared(d) /\ (c.present => d.present)
    BY <2>3, <2>5, CalmIsClear DEF Calmer
  <2>7. ~(c.level >= RearmPercent) => Calmer(c, d) /\ (c.present => d.present)
    BY <2>4, <2>5 DEF Calmer
  <2> QED
    BY <2>6, <2>7 DEF d
<1> QED
  BY <1>1, <1>2

LEMMA OpenedCalms ==
  ASSUME NEW c \in Car, NEW episode
  PROVE  /\ Opened(c, episode).present = c.present /\ Opened(c, episode).episode = episode
         /\ \A i \in Installations : Owed(Opened(c, episode), i) = 0
         /\ Calmer(c, Escalated(c))
<1>1. /\ Opened(c, episode).present = c.present /\ Opened(c, episode).episode = episode
      /\ Opened(c, episode).actions = NoChoices
  BY DEF Opened, Car
<1>2. Calmer(c, Escalated(c))
  <2> DEFINE s == [c EXCEPT !.severe = TRUE]
             d == EndSnoozes(s, AllSnoozed(c), "superseded")
  <2>1. s \in Car /\ s.episode = c.episode /\ s.present = c.present /\ s.actions = c.actions
    BY DEF Car
  <2> HIDE DEF s
  <2>2. Calmer(c, s)
    BY <2>1, SameCalm
  <2>3. Calmer(s, d)
    BY <2>1, EndSnoozesCalms
  <2>4. ASSUME NEW i \in Installations PROVE Owed(d, i) <= Owed(c, i)
    <3>1. Owed(s, i) = Owed(c, i) /\ Owed(d, i) <= Owed(s, i)
      BY <2>1, <2>3 DEF Owed, Snoozed, Calmer
    <3> QED
      BY <3>1
  <2>5. Escalated(c) = d
    BY DEF Escalated, s
  <2> HIDE DEF d
  <2> QED
    BY <2>2, <2>3, <2>4, <2>5 DEF Calmer
<1> QED
  BY <1>1, <1>2, NothingSnoozed

(* An evaluation of a complete car, by its outcome                         *)
LEMMA EvaluatedCases ==
  ASSUME Inductive, NEW t \in Callbacks, RearmHistory,
         TakeBaseline(t) \/ OpenEpisode(t) \/ Escalate(t) \/ NothingNew(t)
  PROVE  GoesOn(t) \/ IsOver(t) \/ IsNew(t)
<1> DEFINE c == Settled(car)
<1>1. /\ car \in Car /\ LatchCoherent(car) /\ t \in Threads
      /\ threads \in [Threads -> FanOuts \cup {Idle, Waiting}]
  BY DEF Inductive, TypeOK, EpisodesCoherent, Threads
<1>2. /\ c.level = car.level /\ (Eligible(c) <=> Eligible(car)) /\ (Eligible(car) => c = car)
  BY <1>1, SettledReadings, SameEligible DEF SameReadings
<1>3. Eligible(car) => ~(car.level >= RearmPercent)
  BY <1>1, LowIsNotFull
<1>4. /\ car.level >= RearmPercent => handed' = {} /\ credit' = [i \in Installations |-> 0]
      /\ ~(car.level >= RearmPercent) => UNCHANGED <<handed, credit>>
  BY DEF RearmHistory
<1>5. Idle.pc # "sending"
  BY DEF Idle
<1>6. CASE TakeBaseline(t)
  <2>1. PICK episode \in IF car.episode = NoEpisode THEN FreshEpisodes ELSE {car.episode} :
          car' = Baseline(car, episode)
    BY <1>6 DEF TakeBaseline
  <2>2. threads'[t].pc # "sending"
    BY <1>1, <1>5, <1>6 DEF TakeBaseline
  <2>3. car.episode # NoEpisode => episode = car.episode
    BY <2>1
  <2>4. /\ car.present => car'.present
        /\ car.level >= RearmPercent => Cleared(car')
        /\ ~(car.level >= RearmPercent) =>
             \/ Calmer(car, car')
             \/ /\ car.episode = NoEpisode /\ car'.episode = episode
                /\ \A i \in Installations : Owed(car', i) = 0
    BY <1>1, <2>1, <2>3, BaselineCalms
  <2> QED
    BY <1>4, <2>1, <2>2, <2>4 DEF GoesOn, IsOver, IsNew
<1>7. CASE OpenEpisode(t)
  <2>1. Eligible(car) /\ c = car /\ ~car.latched
    BY <1>2, <1>7 DEF OpenEpisode
  <2>2. PICK episode \in FreshEpisodes :
          /\ car' = Opened(c, episode)
          /\ StartFanOut(t, IF car'.severe THEN "severe" ELSE "low", episode)
    BY <1>7 DEF OpenEpisode
  <2>3. /\ car'.present = car.present /\ car'.episode = episode
        /\ \A i \in Installations : Owed(car', i) = 0
    BY <1>1, <2>1, <2>2, OpenedCalms
  <2> DEFINE kind == IF car'.severe THEN "severe" ELSE "low"
  <2>4. kind \in {"low", "severe"}
    OBVIOUS
  <2>5. StartFanOut(t, kind, episode)
    BY <2>2
  <2> HIDE DEF kind
  <2>6. threads'[t].pc = "sending" => threads'[t].kind = kind /\ threads'[t].episode = episode
    BY <1>1, <1>5, <2>5 DEF StartFanOut
  <2>7. car.episode = NoEpisode
    BY <1>1, <2>1 DEF LatchCoherent
  <2> QED
    BY <1>3, <1>4, <2>1, <2>3, <2>4, <2>6, <2>7 DEF IsNew
<1>8. CASE Escalate(t)
  <2>1. Eligible(car) /\ c = car
    BY <1>2, <1>8 DEF Escalate
  <2>2. car' = Escalated(c) /\ StartFanOut(t, "severe", c.episode)
    BY <1>8 DEF Escalate
  <2>3. Calmer(car, car')
    BY <1>1, <2>1, <2>2, OpenedCalms
  <2>4. threads'[t].pc = "sending" => threads'[t].kind = "severe"
    BY <1>1, <1>5, <2>2 DEF StartFanOut
  <2> QED
    BY <1>3, <1>4, <2>1, <2>3, <2>4 DEF GoesOn
<1>9. CASE NothingNew(t)
  <2>1. car' = c /\ threads'[t].pc # "sending"
    BY <1>1, <1>5, <1>9 DEF NothingNew
  <2>2. /\ car.level >= RearmPercent => Cleared(c) /\ (car.present => c.present)
        /\ ~(car.level >= RearmPercent) => Calmer(car, c)
    BY <1>1, SettledCalms
  <2> HIDE DEF c
  <2> QED
    BY <1>4, <2>1, <2>2 DEF GoesOn, IsOver
<1> QED
  BY <1>6, <1>7, <1>8, <1>9

LowOn(t) == threads[t].pc = "sending" /\ threads[t].kind = "low"

(* Phones that were told have an episode to show for it, also on disk      *)
(* unless a save has failed; and each episode is announced by one fan-out, *)
(* to phones it has not told yet.                                          *)
AnnouncedOnce ==
  /\ Anchored(car) /\ Anchored(disk)
  /\ handed # {} => car.episode # NoEpisode
  /\ ~dirty /\ car.episode # NoEpisode => disk.episode = car.episode
  /\ \A t \in Threads : LowOn(t) /\ threads[t].episode = car.episode =>
       \A i \in threads[t].to : <<i, "low">> \notin handed
  /\ \A t, u \in Threads :
       LowOn(t) /\ LowOn(u) /\ threads[u].episode = threads[t].episode => u = t

(* There is a snooze for every reminder that may still come, and would be  *)
(* after a restart: the loop alone sends reminders.                        *)
Credited ==
  /\ \A t \in Callbacks : threads[t].pc = "sending" => threads[t].kind # "reminder"
  /\ \A i \in Installations :
       /\ Owed(car, i) + Flying(i) <= credit[i]
       /\ ~dirty => Owed(disk, i) + Flying(i) <= credit[i]

(* Threads do what they did before, or nothing, and no new alert begins.   *)
Dwindles(t) ==
  threads'[t].pc = "sending" =>
    /\ threads[t].pc = "sending" /\ threads'[t].kind = threads[t].kind
    /\ threads'[t].episode = threads[t].episode /\ threads'[t].to \subseteq threads[t].to

(* The file takes over the car, or the save failed, or nothing was saved.  *)
Kept ==
  \/ dirty' /\ disk' = disk
  \/ ~dirty' /\ disk' = car'
  \/ /\ UNCHANGED dirty /\ Calmer(disk, disk')
     /\ car'.episode \in {NoEpisode, car.episode}

LEMMA SaveKeeps ==
  ASSUME NEW ok \in BOOLEAN, Save(ok) PROVE Kept
BY DEF Save, Kept

LEMMA EpisodeTypes ==
  ASSUME Inductive
  PROVE  /\ \A t \in Threads : threads[t].pc = "sending" =>
              threads[t].episode \in Episodes /\ threads[t].episode # NoEpisode
              /\ threads[t].to \subseteq Installations
         /\ \A i \in Installations : credit[i] \in 0..2
         /\ ReminderLoop \in Threads /\ Callbacks \subseteq Threads
         /\ \A c, i : Owed(c, i) \in {0, 1}
         /\ \A i : Flying(i) \in {0, 1}
<1>1. ASSUME NEW t \in Threads, threads[t].pc = "sending"
      PROVE  threads[t].episode \in Episodes /\ threads[t].to \subseteq Installations
  BY <1>1, ThreadsType DEF Inductive, TypeOK
<1>2. \A i \in Installations : credit[i] \in 0..2
  BY DEF Inductive, TypeOK
<1> QED
  BY <1>1, <1>2, Constants DEF Threads, Owed, Flying

(* A step that starts no ordinary alert                                    *)
LEMMA AnnouncesNothing ==
  ASSUME Inductive, AnnouncedOnce, Kept, car'.episode # NoEpisode => car'.present,
         handed' \in {handed, {}}, handed' # {} => car'.episode # NoEpisode,
         \A t \in Threads : LowOn(t)' => Dwindles(t),
         \/ car'.episode = car.episode
         \/ \A t \in Threads : threads[t].pc = "sending" => threads[t].episode # car'.episode
  PROVE  AnnouncedOnce'
<1>1. \A t \in Threads : LowOn(t)' =>
         /\ LowOn(t) /\ threads'[t].episode = threads[t].episode
         /\ threads'[t].to \subseteq threads[t].to
  BY DEF LowOn, Dwindles
<1>2. Anchored(car)' /\ Anchored(disk)'
  BY DEF Kept, Anchored, AnnouncedOnce, Calmer
<1>3. ~dirty' /\ car'.episode # NoEpisode => disk'.episode = car'.episode
  BY DEF Kept, AnnouncedOnce, Calmer
<1>4. ASSUME NEW t \in Threads, LowOn(t)', threads'[t].episode = car'.episode,
             NEW i \in threads'[t].to
      PROVE  <<i, "low">> \notin handed'
  <2>1. LowOn(t) /\ threads[t].episode = car'.episode /\ i \in threads[t].to
    BY <1>1, <1>4
  <2>2. car'.episode = car.episode
    BY <2>1 DEF LowOn
  <2> QED
    BY <2>1, <2>2 DEF AnnouncedOnce
<1>5. ASSUME NEW t \in Threads, NEW u \in Threads, LowOn(t)', LowOn(u)',
             threads'[u].episode = threads'[t].episode
      PROVE  u = t
  BY <1>1, <1>5 DEF AnnouncedOnce
<1>6. handed' # {} => car'.episode # NoEpisode
  OBVIOUS
<1> QED
  BY <1>2, <1>3, <1>4, <1>5, <1>6 DEF AnnouncedOnce

(* A step after which no more reminders are to come than before            *)
LEMMA RemindsNobody ==
  ASSUME Inductive, Credited, Kept, Calmer(car, car'), UNCHANGED credit,
         Dwindles(ReminderLoop),
         \A t \in Callbacks : threads'[t].pc = "sending" => threads'[t].kind # "reminder"
  PROVE  Credited'
<1> SUFFICES ASSUME NEW i \in Installations
             PROVE  /\ Owed(car', i) + Flying(i)' <= credit'[i]
                    /\ ~dirty' => Owed(disk', i) + Flying(i)' <= credit'[i]
  BY DEF Credited
<1>1. Flying(i)' <= Flying(i)
  <2>1. car'.episode = car.episode
    BY DEF Calmer
  <2> QED
    BY <2>1 DEF Flying, Dwindles
<1>2. Owed(car', i) <= Owed(car, i)
  BY DEF Calmer
<1>3. /\ Owed(car, i) \in Nat /\ Owed(car', i) \in Nat /\ Owed(disk, i) \in Nat
      /\ Owed(disk', i) \in Nat /\ Flying(i) \in Nat /\ Flying(i)' \in Nat
      /\ credit[i] \in Nat
  BY EpisodeTypes DEF Owed, Flying
<1>4. /\ Owed(car, i) + Flying(i) <= credit[i]
      /\ ~dirty => Owed(disk, i) + Flying(i) <= credit[i]
  BY DEF Credited
<1>5. Owed(car', i) + Flying(i)' <= credit'[i]
  BY <1>1, <1>2, <1>3, <1>4
<1>6. ASSUME ~dirty' PROVE Owed(disk', i) + Flying(i)' <= credit'[i]
  <2>1. disk' = car' \/ (~dirty /\ Owed(disk', i) <= Owed(disk, i))
    BY <1>6 DEF Kept, Calmer
  <2> QED
    BY <1>1, <1>3, <1>4, <1>5, <2>1
<1> QED
  BY <1>5, <1>6

(* A step after which no snooze is pending and no reminder is current      *)
LEMMA NoneReminded ==
  ASSUME Inductive, Credited, \A i \in Installations : Owed(car', i) = 0 /\ credit'[i] \in Nat,
         \/ ~dirty' => disk' = car'
         \/ UNCHANGED <<disk, dirty, credit>>,
         threads'[ReminderLoop] = threads[ReminderLoop],
         threads[ReminderLoop].pc = "sending" => threads[ReminderLoop].episode # car'.episode,
         \A t \in Callbacks : threads'[t].pc = "sending" => threads'[t].kind # "reminder"
  PROVE  Credited'
<1> SUFFICES ASSUME NEW i \in Installations
             PROVE  /\ Owed(car', i) + Flying(i)' <= credit'[i]
                    /\ ~dirty' => Owed(disk', i) + Flying(i)' <= credit'[i]
  BY DEF Credited
<1>1. Flying(i)' = 0
  BY DEF Flying
<1>2. Owed(car', i) = 0 /\ credit'[i] \in Nat
  OBVIOUS
<1>3. ASSUME ~dirty' PROVE Owed(disk', i) <= credit'[i]
  <2>1. CASE disk' = car'
    BY <1>2, <2>1
  <2>2. CASE UNCHANGED <<disk, dirty, credit>>
    <3>1. Owed(disk, i) + Flying(i) <= credit[i]
      BY <1>3, <2>2 DEF Credited
    <3>2. Owed(disk, i) \in Nat /\ Flying(i) \in Nat /\ credit[i] \in Nat
      BY EpisodeTypes
    <3> QED
      BY <2>2, <3>1, <3>2
  <2> QED
    BY <1>3, <2>1, <2>2
<1>4. Owed(disk', i) \in Nat
  BY DEF Owed
<1> QED
  BY <1>1, <1>2, <1>3, <1>4

Accounts == AnnouncedOnce /\ Credited

LEMMA QuietStep ==
  ASSUME Inductive, Accounts, Kept, Calmer(car, car'), UNCHANGED <<handed, credit>>,
         \A t \in Threads : Dwindles(t)
  PROVE  Accounts'
<1>1. car'.episode = car.episode /\ (car'.episode # NoEpisode => car'.present)
  BY DEF Calmer, Accounts, AnnouncedOnce, Anchored
<1>2. handed' # {} => car'.episode # NoEpisode
  BY <1>1 DEF Accounts, AnnouncedOnce
<1>3. AnnouncedOnce'
  BY <1>1, <1>2, AnnouncesNothing DEF Accounts
<1>4. \A t \in Callbacks : threads'[t].pc = "sending" => threads'[t].kind # "reminder"
  BY EpisodeTypes DEF Dwindles, Accounts, Credited
<1>5. Credited'
  BY <1>4, RemindsNobody, EpisodeTypes DEF Accounts
<1> QED
  BY <1>3, <1>5 DEF Accounts

LEMMA StillDwindles ==
  ASSUME UNCHANGED threads PROVE \A t \in Threads : Dwindles(t)
BY DEF Dwindles

LEMMA OneDwindles ==
  ASSUME Inductive, NEW t \in Threads, NEW f, threads' = [threads EXCEPT ![t] = f],
         f.pc # "sending"
  PROVE  \A u \in Threads : Dwindles(u)
BY DEF Dwindles, Inductive, TypeOK

LEMMA ObserveAccounts ==
  ASSUME Inductive, Accounts, NEW message \in Messages, NEW retained \in BOOLEAN,
         NEW ok \in BOOLEAN, Observe(message, retained, ok)
  PROVE  Accounts'
<1>1. /\ Known \in Car /\ Known.present /\ Known.episode = car.episode
      /\ \A i \in Installations : Owed(Known, i) <= Owed(car, i)
  BY KnownCalms DEF Accounts, AnnouncedOnce
<1>2. Calmer(Known, car')
  <2>1. CASE car' = [Known EXCEPT !.level = NoLevel, !.initialized = FALSE]
    <3>1. /\ car'.episode = Known.episode /\ car'.present = Known.present
          /\ car'.actions = Known.actions
      BY <1>1, <2>1 DEF Car
    <3> QED
      BY <3>1, SameCalm
  <2>2. CASE car' = Observed(Known, message[1], message[2], retained)
    BY <1>1, <2>2, ObservedCalms
  <2> QED
    BY <2>1, <2>2 DEF Observe
<1>3. Calmer(car, car')
  <2>1. ASSUME NEW i \in Installations PROVE Owed(car', i) <= Owed(car, i)
    <3>1. Owed(car', i) <= Owed(Known, i) /\ Owed(Known, i) <= Owed(car, i)
      BY <1>1, <1>2 DEF Calmer
    <3>2. Owed(car', i) \in Nat /\ Owed(Known, i) \in Nat /\ Owed(car, i) \in Nat
      BY DEF Owed
    <3> QED
      BY <3>1, <3>2
  <2> QED
    BY <1>1, <1>2, <2>1 DEF Calmer
<1>4. UNCHANGED <<threads, handed, credit>>
  BY DEF Observe
<1>5. Kept
  <2>1. CASE UNCHANGED <<disk, dirty>>
    BY <1>3, <2>1, SameCalm DEF Kept, Calmer
  <2>2. CASE Save(ok)
    BY <2>2, SaveKeeps
  <2> QED
    BY <2>1, <2>2 DEF Observe
<1> QED
  BY <1>3, <1>4, <1>5, QuietStep, StillDwindles

LEMMA TimerAccounts ==
  ASSUME Inductive, Accounts, NEW t \in Callbacks, TimerFires(t)
  PROVE  Accounts'
<1>1. t \in Threads /\ Waiting.pc # "sending"
  BY DEF Threads, Waiting
<1>2. threads' = [threads EXCEPT ![t] = Waiting] /\ UNCHANGED <<car, disk, dirty, handed, credit>>
  BY DEF TimerFires, store, history
<1>3. Kept /\ Calmer(car, car')
  BY <1>2, SameCalm DEF Kept
<1> QED
  BY <1>1, <1>2, <1>3, OneDwindles, QuietStep

LEMMA GiveUpAccounts ==
  ASSUME Inductive, Accounts, NEW t \in Threads, NEW i \in Installations, GiveUp(t, i)
  PROVE  Accounts'
<1>1. UNCHANGED <<car, disk, dirty, handed, credit>>
  BY DEF GiveUp, store, history
<1>2. Kept /\ Calmer(car, car')
  BY <1>1, SameCalm DEF Kept
<1>3. PICK to \in SUBSET threads[t].to :
        threads' = [threads EXCEPT ![t] = IF to = {} THEN Idle
                                          ELSE [@ EXCEPT !.to = to]]
  BY DEF GiveUp, StillToDo, Remaining
<1>4. threads[t] \in FanOuts /\ threads[t].pc = "sending" /\ Idle.pc # "sending"
  BY ThreadsType DEF GiveUp, Inductive, TypeOK, Idle
<1>5. ASSUME NEW f, f = [threads[t] EXCEPT !.to = to]
      PROVE  f.kind = threads[t].kind /\ f.episode = threads[t].episode /\ f.to = to
  BY <1>4, <1>5 DEF FanOuts
<1>6. \A u \in Threads : Dwindles(u)
  BY <1>3, <1>4, <1>5 DEF Dwindles, Inductive, TypeOK
<1> QED
  BY <1>1, <1>2, <1>6, QuietStep

LEMMA ResetAccounts ==
  ASSUME Inductive, Accounts, Connect \/ ConnectionLost \/ FleetChanges \/ Tick
  PROVE  Accounts'
<1>1. car \in Car /\ disk \in Car
  BY DEF Inductive, TypeOK
<1>2. UNCHANGED <<threads, handed, credit, dirty>>
  BY DEF Connect, ConnectionLost, ResetBaseline, FleetChanges, Tick, store, history
<1>3. CASE Connect \/ ConnectionLost
  <2>1. disk' = disk
    BY <1>3 DEF Connect, ConnectionLost, ResetBaseline
  <2>2. /\ car'.episode = car.episode /\ car'.present = car.present
        /\ car'.actions = car.actions
    BY <1>1, <1>3 DEF Connect, ConnectionLost, ResetBaseline, Car
  <2>3. Kept /\ Calmer(car, car')
    BY <1>2, <2>1, <2>2, SameCalm DEF Kept
  <2> QED
    BY <1>2, <2>3, QuietStep, StillDwindles
<1>4. CASE FleetChanges
  <2>1. UNCHANGED <<car, disk>>
    BY <1>4 DEF FleetChanges, store
  <2>2. Kept /\ Calmer(car, car')
    BY <1>2, <2>1, SameCalm DEF Kept
  <2> QED
    BY <1>2, <2>2, QuietStep, StillDwindles
<1>5. CASE Tick
  <2>1. Calmer(car, car') /\ Calmer(disk, disk')
    BY <1>1, <1>5, AgedCalms DEF Tick
  <2>2. Kept
    BY <1>2, <2>1 DEF Kept, Calmer
  <2> QED
    BY <1>2, <2>1, <2>2, QuietStep, StillDwindles
<1> QED
  BY <1>3, <1>4, <1>5

LEMMA FleetAccounts ==
  ASSUME Inductive, Accounts, ReconcileFleet
  PROVE  Accounts'
<1>1. /\ car' = NoCar /\ handed' = {} /\ UNCHANGED <<threads, disk, dirty, credit>>
  BY DEF ReconcileFleet
<1>2. NoCar.episode = NoEpisode /\ NoCar.actions = NoChoices
  BY DEF NoCar, NewCar
<1>3. AnnouncedOnce'
  <2>1. Kept
    BY <1>1, <1>2, SameCalm DEF Kept
  <2>2. \A t \in Threads : threads[t].pc = "sending" => threads[t].episode # car'.episode
    BY <1>1, <1>2, EpisodeTypes
  <2> QED
    BY <1>1, <1>2, <2>1, <2>2, AnnouncesNothing, StillDwindles DEF Accounts
<1>4. Credited'
  <2>1. \A i \in Installations : Owed(car', i) = 0 /\ credit'[i] \in Nat
    BY <1>1, <1>2, NothingSnoozed, EpisodeTypes
  <2>2. threads[ReminderLoop].pc = "sending" => threads[ReminderLoop].episode # car'.episode
    BY <1>1, <1>2, EpisodeTypes
  <2>3. \A t \in Callbacks : threads'[t].pc = "sending" => threads'[t].kind # "reminder"
    BY <1>1 DEF Accounts, Credited
  <2> QED
    BY <1>1, <2>1, <2>2, <2>3, NoneReminded DEF Accounts
<1> QED
  BY <1>3, <1>4 DEF Accounts

LEMMA RestartAccounts ==
  ASSUME Inductive, Accounts, Restart
  PROVE  Accounts'
<1>1. /\ car' = disk /\ disk' = disk /\ dirty' = FALSE
      /\ threads' = [t \in Threads |-> Idle]
      /\ handed' = IF dirty THEN {} ELSE handed
      /\ credit' = IF dirty THEN [i \in Installations |-> 2] ELSE credit
  BY DEF Restart
<1>2. ReminderLoop \in Threads /\ Callbacks \subseteq Threads /\ Idle.pc # "sending"
  BY EpisodeTypes DEF Idle
<1>3. AnnouncedOnce'
  <2>1. handed' # {} => car'.episode # NoEpisode
    BY <1>1 DEF Accounts, AnnouncedOnce
  <2> QED
    BY <1>1, <1>2, <2>1 DEF Accounts, AnnouncedOnce, LowOn, Anchored
<1>4. Credited'
  <2> SUFFICES ASSUME NEW i \in Installations
               PROVE  Owed(disk, i) + Flying(i)' <= credit'[i]
    BY <1>1, <1>2 DEF Credited
  <2>1. Flying(i)' = 0
    BY <1>1, <1>2 DEF Flying
  <2>2. Owed(disk, i) \in {0, 1} /\ Flying(i) \in {0, 1} /\ credit[i] \in Nat
    BY EpisodeTypes
  <2>3. ~dirty => Owed(disk, i) + Flying(i) <= credit[i]
    BY DEF Accounts, Credited
  <2> QED
    BY <1>1, <2>1, <2>2, <2>3
<1> QED
  BY <1>3, <1>4 DEF Accounts

LEMMA FreshFacts ==
  ASSUME NEW episode \in FreshEpisodes
  PROVE  /\ episode \in Episodes /\ episode # NoEpisode
         /\ \A t \in Threads : threads[t].pc = "sending" => threads[t].episode # episode
BY Constants DEF FreshEpisodes

LEMMA EvaluateAccounts ==
  ASSUME Inductive, Accounts, NEW t \in Callbacks, NEW ok \in BOOLEAN, Evaluate(t, ok)
  PROVE  Accounts'
<1>1. /\ t \in Threads /\ threads[t] = Waiting /\ Waiting.pc # "sending" /\ t # ReminderLoop
      /\ threads \in [Threads -> FanOuts \cup {Idle, Waiting}] /\ Idle.pc # "sending"
      /\ ReminderLoop \in Threads /\ Callbacks \subseteq Threads
  BY Constants DEF Evaluate, Threads, Waiting, Idle, Inductive, TypeOK
<1>2. CASE ~Complete(car) /\ threads' = [threads EXCEPT ![t] = Idle]
           /\ UNCHANGED <<store, history>>
  <2>1. UNCHANGED <<car, disk, dirty, handed, credit>>
    BY <1>2 DEF store, history
  <2>2. Kept /\ Calmer(car, car')
    BY <2>1, SameCalm DEF Kept
  <2> QED
    BY <1>1, <1>2, <2>1, <2>2, OneDwindles, QuietStep
<1>3. CASE /\ Complete(car) /\ Save(ok) /\ RearmHistory
           /\ TakeBaseline(t) \/ OpenEpisode(t) \/ Escalate(t) \/ NothingNew(t)
  <2>1. Kept /\ (~dirty' => disk' = car')
    BY <1>3, SaveKeeps DEF Save
  <2>2. PICK f : threads' = [threads EXCEPT ![t] = f]
    BY <1>3 DEF TakeBaseline, OpenEpisode, Escalate, NothingNew, StartFanOut
  <2>3. /\ threads'[t] = f /\ \A u \in Threads : u # t => threads'[u] = threads[u]
        /\ threads'[ReminderLoop] = threads[ReminderLoop]
    BY <1>1, <2>2
  <2>4. \A u \in Threads : u # t => Dwindles(u)
    BY <2>3 DEF Dwindles
  <2>5. GoesOn(t) \/ IsOver(t) \/ IsNew(t)
    BY <1>3, EvaluatedCases DEF Complete
  <2>6. car.present
    BY <1>3 DEF Complete
  <2>7. ASSUME threads'[t].pc = "sending" => threads'[t].kind # "reminder"
        PROVE  \A u \in Callbacks : threads'[u].pc = "sending" => threads'[u].kind # "reminder"
    BY <1>1, <2>3, <2>7 DEF Accounts, Credited
  <2>8. CASE GoesOn(t)
    <3>1. AnnouncedOnce'
      <4>1. car'.episode = car.episode /\ car'.present /\ handed' = handed
        BY <2>6, <2>8 DEF GoesOn, Calmer
      <4>2. \A u \in Threads : LowOn(u)' => Dwindles(u)
        BY <2>4, <2>8 DEF LowOn, GoesOn
      <4>3. handed' # {} => car'.episode # NoEpisode
        BY <4>1 DEF Accounts, AnnouncedOnce
      <4> QED
        BY <2>1, <4>1, <4>2, <4>3, AnnouncesNothing DEF Accounts
    <3>2. Credited'
      <4>1. Calmer(car, car') /\ UNCHANGED credit
        BY <2>8 DEF GoesOn
      <4>2. Dwindles(ReminderLoop)
        BY <1>1, <2>4
      <4>3. \A u \in Callbacks : threads'[u].pc = "sending" => threads'[u].kind # "reminder"
        BY <2>7, <2>8 DEF GoesOn
      <4> QED
        BY <2>1, <4>1, <4>2, <4>3, RemindsNobody DEF Accounts
    <3> QED
      BY <3>1, <3>2 DEF Accounts
  <2>9. CASE IsOver(t)
    <3>1. /\ car'.episode = NoEpisode /\ handed' = {} /\ threads'[t].pc # "sending"
          /\ \A i \in Installations : Owed(car', i) = 0 /\ credit'[i] \in Nat
      BY <2>9 DEF IsOver, Cleared
    <3>2. \A u \in Threads : threads[u].pc = "sending" => threads[u].episode # car'.episode
      BY <3>1, EpisodeTypes
    <3>3. \A u \in Threads : LowOn(u)' => Dwindles(u)
      BY <2>4, <3>1 DEF LowOn
    <3>4. AnnouncedOnce'
      BY <2>1, <3>1, <3>2, <3>3, AnnouncesNothing DEF Accounts
    <3>5. Credited'
      BY <1>1, <2>1, <2>3, <2>7, <3>1, <3>2, NoneReminded DEF Accounts
    <3> QED
      BY <3>4, <3>5 DEF Accounts
  <2>10. CASE IsNew(t)
    <3>1. /\ car.episode = NoEpisode /\ car'.episode \in FreshEpisodes /\ car'.present
          /\ handed' = handed /\ credit' = credit
          /\ \A i \in Installations : Owed(car', i) = 0
      BY <2>6, <2>10 DEF IsNew
    <3>2. car'.episode # NoEpisode
          /\ \A u \in Threads : threads[u].pc = "sending" => threads[u].episode # car'.episode
      BY <3>1, FreshFacts
    <3>3. handed' = {}
      BY <3>1 DEF Accounts, AnnouncedOnce
    <3>4. AnnouncedOnce'
      <4>1. Anchored(car)' /\ Anchored(disk)'
        BY <2>1, <3>1 DEF Accounts, AnnouncedOnce, Anchored, Kept, Calmer
      <4>2. ~dirty' => disk'.episode = car'.episode
        BY <2>1
      <4>3. ASSUME NEW u \in Threads, LowOn(u)', threads'[u].episode = car'.episode
            PROVE  u = t
        BY <2>3, <3>2, <4>3 DEF LowOn
      <4>4. LowOn(t)' => threads'[t].episode = car'.episode
        BY <2>10 DEF IsNew, LowOn
      <4>5. ASSUME NEW u \in Threads, NEW v \in Threads, LowOn(u)', LowOn(v)',
                   threads'[v].episode = threads'[u].episode
            PROVE  v = u
        <5>1. CASE u = t \/ v = t
          BY <4>3, <4>4, <4>5, <5>1
        <5>2. CASE u # t /\ v # t
          BY <2>3, <4>5, <5>2 DEF LowOn, Accounts, AnnouncedOnce
        <5> QED
          BY <5>1, <5>2
      <4> QED
        BY <3>2, <3>3, <4>1, <4>2, <4>5 DEF AnnouncedOnce
    <3>5. Credited'
      <4>1. threads'[t].pc = "sending" => threads'[t].kind # "reminder"
        BY <2>10 DEF IsNew
      <4>2. \A i \in Installations : Owed(car', i) = 0 /\ credit'[i] \in Nat
        BY <3>1, EpisodeTypes
      <4> QED
        BY <1>1, <2>1, <2>3, <2>7, <3>2, <4>1, <4>2, NoneReminded DEF Accounts
    <3> QED
      BY <3>4, <3>5 DEF Accounts
  <2> QED
    BY <2>5, <2>8, <2>9, <2>10
<1> QED
  BY <1>2, <1>3 DEF Evaluate

LEMMA HandOverAccounts ==
  ASSUME Inductive, Accounts, NEW t \in Threads, NEW i \in Installations, HandOver(t, i)
  PROVE  Accounts'
<1>1. UNCHANGED <<car, disk, dirty>>
  BY DEF HandOver, store
<1>2. /\ threads[t].pc = "sending" /\ i \in threads[t].to /\ car.episode = threads[t].episode
      /\ threads[t] \in FanOuts /\ Idle.pc # "sending"
      /\ threads \in [Threads -> FanOuts \cup {Idle, Waiting}]
  BY ThreadsType DEF HandOver, StillCurrent, Inductive, TypeOK, Idle
<1>3. threads' = [threads EXCEPT ![t] = IF Remaining(t, i) = {} THEN Idle
                                        ELSE [@ EXCEPT !.to = Remaining(t, i)]]
  BY DEF HandOver, StillToDo
<1>4. /\ Dwindles(t) /\ \A u \in Threads : u # t => threads'[u] = threads[u]
      /\ threads'[t].pc = "sending" => i \notin threads'[t].to
  <2> DEFINE to == Remaining(t, i)
  <2>1. to \subseteq threads[t].to /\ i \notin to
    BY DEF Remaining
  <2> HIDE DEF to
  <2>2. ASSUME NEW f, f = [threads[t] EXCEPT !.to = to]
        PROVE  f.kind = threads[t].kind /\ f.episode = threads[t].episode /\ f.to = to
    BY <1>2, <2>2 DEF FanOuts
  <2>3. threads'[t] = IF to = {} THEN Idle ELSE [threads[t] EXCEPT !.to = to]
    BY <1>2, <1>3 DEF to
  <2>4. Dwindles(t) /\ (threads'[t].pc = "sending" => i \notin threads'[t].to)
    BY <1>2, <2>1, <2>2, <2>3 DEF Dwindles
  <2> QED
    BY <1>2, <1>3, <2>4
<1>5. \A u \in Threads : Dwindles(u)
  BY <1>4 DEF Dwindles
<1>6. AnnouncedOnce'
  <2>1. /\ Anchored(car)' /\ Anchored(disk)'
        /\ ~dirty' /\ car'.episode # NoEpisode => disk'.episode = car'.episode
    BY <1>1 DEF Accounts, AnnouncedOnce, Anchored
  <2>2. car'.episode # NoEpisode
    BY <1>1, <1>2, EpisodeTypes
  <2>3. ASSUME NEW u \in Threads, LowOn(u)'
        PROVE  /\ LowOn(u) /\ threads'[u].episode = threads[u].episode
               /\ threads'[u].to \subseteq threads[u].to
    BY <1>5, <2>3 DEF LowOn, Dwindles
  <2>4. ASSUME NEW u \in Threads, NEW v \in Threads, LowOn(u)', LowOn(v)',
               threads'[v].episode = threads'[u].episode
        PROVE  v = u
    BY <2>3, <2>4 DEF Accounts, AnnouncedOnce
  <2>5. ASSUME NEW u \in Threads, LowOn(u)', threads'[u].episode = car'.episode,
               NEW j \in threads'[u].to
        PROVE  <<j, "low">> \notin handed'
    <3>1. /\ LowOn(u) /\ threads[u].episode = car.episode /\ j \in threads[u].to
      BY <1>1, <2>3, <2>5
    <3>2. <<j, "low">> \notin handed
      BY <3>1 DEF Accounts, AnnouncedOnce
    <3>3. CASE threads[t].kind = "low"
      <4>1. u = t
        BY <1>2, <3>1, <3>3 DEF Accounts, AnnouncedOnce, LowOn
      <4>2. j # i
        BY <1>4, <2>5, <4>1 DEF LowOn
      <4>3. handed' \in {handed, handed \cup {<<i, threads[t].kind>>}}
        BY DEF HandOver
      <4> QED
        BY <3>2, <4>2, <4>3
    <3>4. CASE threads[t].kind # "low"
      <4>1. handed' \in {handed, handed \cup {<<i, threads[t].kind>>}}
        BY DEF HandOver
      <4> QED
        BY <3>2, <3>4, <4>1
    <3> QED
      BY <3>3, <3>4
  <2> QED
    BY <2>1, <2>2, <2>4, <2>5 DEF AnnouncedOnce
<1>7. Credited'
  <2>1. \A u \in Callbacks : threads'[u].pc = "sending" => threads'[u].kind # "reminder"
    BY <1>5, EpisodeTypes DEF Dwindles, Accounts, Credited
  <2>2. CASE threads[t].kind # "reminder"
    <3>1. UNCHANGED credit /\ Kept /\ Calmer(car, car')
      BY <1>1, <2>2, SameCalm DEF HandOver, Kept
    <3> QED
      BY <1>5, <2>1, <3>1, RemindsNobody, EpisodeTypes DEF Accounts
  <2>3. CASE threads[t].kind = "reminder"
    <3>1. t = ReminderLoop
      BY <1>2, <2>3 DEF Accounts, Credited, Threads
    <3>2. credit' = [credit EXCEPT ![i] = IF @ = 0 THEN 0 ELSE @ - 1]
      BY <2>3 DEF HandOver
    <3> SUFFICES ASSUME NEW j \in Installations
                 PROVE  /\ Owed(car, j) + Flying(j)' <= credit'[j]
                        /\ ~dirty => Owed(disk, j) + Flying(j)' <= credit'[j]
      BY <1>1, <2>1 DEF Credited
    <3>3. /\ Owed(car, j) \in {0, 1} /\ Owed(disk, j) \in {0, 1} /\ Flying(j) \in {0, 1}
          /\ Flying(j)' \in {0, 1} /\ credit[j] \in Nat /\ credit \in [Installations -> 0..2]
      BY EpisodeTypes DEF Flying, Inductive, TypeOK
    <3>4. /\ Owed(car, j) + Flying(j) <= credit[j]
          /\ ~dirty => Owed(disk, j) + Flying(j) <= credit[j]
      BY DEF Accounts, Credited
    <3>5. CASE j = i
      <4>1. Flying(i) = 1 /\ Flying(i)' = 0
        BY <1>2, <1>4, <3>1 DEF Flying
      <4>2. credit'[i] = IF credit[i] = 0 THEN 0 ELSE credit[i] - 1
        BY <3>2, <3>3
      <4> QED
        BY <3>3, <3>4, <3>5, <4>1, <4>2
    <3>6. CASE j # i
      <4>1. Flying(j)' <= Flying(j)
        BY <1>1, <1>5, EpisodeTypes DEF Flying, Dwindles
      <4>2. credit'[j] = credit[j]
        BY <3>2, <3>3, <3>6
      <4> QED
        BY <3>3, <3>4, <4>1, <4>2
    <3> QED
      BY <3>5, <3>6
  <2> QED
    BY <2>2, <2>3
<1> QED
  BY <1>6, <1>7 DEF Accounts

LEMMA RemindersAccounts ==
  ASSUME Inductive, Accounts, NEW ok \in BOOLEAN, RemindersDue(ok)
  PROVE  Accounts'
<1> DEFINE over == IF Complete(car) /\ car.initialized /\ inFleet THEN SnoozesOver ELSE {}
           due == IF car.latched /\ Eligible(car) THEN over ELSE {}
<1>1. /\ car \in Car /\ ReminderLoop \in Threads /\ Idle.pc # "sending"
      /\ threads \in [Threads -> FanOuts \cup {Idle, Waiting}]
  BY EpisodeTypes DEF Inductive, TypeOK, Idle
<1>2. \A i \in over : Snoozed(car, i)
  BY DEF SnoozesOver, Due
<1>3. /\ threads[ReminderLoop] = Idle /\ Save(ok) /\ UNCHANGED <<handed, credit>>
      /\ car' = EndSnoozes(car, over, "completed")
  BY DEF RemindersDue, history
<1>4. PICK to \in SUBSET due :
        threads' = [threads EXCEPT ![ReminderLoop] = IF to = {} THEN Idle ELSE
          [pc |-> "sending", kind |-> "reminder", episode |-> car.episode, to |-> to]]
  BY DEF RemindersDue
<1>5. to \subseteq over
  OBVIOUS
<1> HIDE DEF over, due
<1>6. Calmer(car, car') /\ \A i \in Installations : i \in over => Owed(car', i) = 0
  BY <1>1, <1>3, EndSnoozesCalms
<1>7. Kept /\ (~dirty' => disk' = car')
  BY <1>3, SaveKeeps DEF Save
<1>8. /\ \A u \in Threads : u # ReminderLoop => threads'[u] = threads[u]
      /\ threads'[ReminderLoop].pc = "sending" =>
           threads'[ReminderLoop].kind = "reminder" /\ threads'[ReminderLoop].to = to
  BY <1>1, <1>4
<1>9. AnnouncedOnce'
  <2>1. \A u \in Threads : LowOn(u)' => Dwindles(u)
    BY <1>8 DEF LowOn, Dwindles
  <2>2. car'.episode = car.episode /\ (car'.episode # NoEpisode => car'.present)
    BY <1>6 DEF Calmer, Accounts, AnnouncedOnce, Anchored
  <2>3. handed' # {} => car'.episode # NoEpisode
    BY <1>3, <2>2 DEF Accounts, AnnouncedOnce
  <2> QED
    BY <1>3, <1>7, <2>1, <2>2, <2>3, AnnouncesNothing DEF Accounts
<1>10. Credited'
  <2>1. \A u \in Callbacks : threads'[u].pc = "sending" => threads'[u].kind # "reminder"
    BY <1>8, Constants, EpisodeTypes DEF Accounts, Credited
  <2> SUFFICES ASSUME NEW i \in Installations
               PROVE  /\ Owed(car', i) + Flying(i)' <= credit'[i]
                      /\ ~dirty' => Owed(disk', i) + Flying(i)' <= credit'[i]
    BY <2>1 DEF Credited
  <2>2. /\ Owed(car, i) \in {0, 1} /\ Owed(car', i) \in {0, 1} /\ Flying(i)' \in {0, 1}
        /\ credit[i] \in Nat
    BY EpisodeTypes DEF Owed, Flying
  <2>3. Flying(i) = 0
    BY <1>1, <1>3 DEF Flying
  <2>4. Owed(car, i) <= credit[i]
    BY <2>2, <2>3 DEF Accounts, Credited
  <2>5. Owed(car', i) + Flying(i)' <= credit[i]
    <3>1. CASE i \in to
      <4>1. Owed(car', i) = 0 /\ Owed(car, i) = 1
        BY <1>2, <1>5, <1>6, <3>1 DEF Owed
      <4> QED
        BY <2>2, <2>4, <4>1
    <3>2. CASE i \notin to
      <4>1. Flying(i)' = 0
        BY <1>8, <3>2 DEF Flying
      <4>2. Owed(car', i) <= Owed(car, i)
        BY <1>6 DEF Calmer
      <4> QED
        BY <2>2, <2>4, <4>1, <4>2
    <3> QED
      BY <3>1, <3>2
  <2> QED
    BY <1>3, <1>7, <2>5
<1> QED
  BY <1>9, <1>10 DEF Accounts

LEMMA ActionAccounts ==
  ASSUME Inductive, Accounts, NEW i \in Installations, NEW action \in {"ack", "snooze_4h"},
         NEW episode \in Episodes, NEW ok \in BOOLEAN, ApplyAction(i, action, episode, ok)
  PROVE  Accounts'
<1> DEFINE choice == [action |-> action,
                      left |-> IF action = "snooze_4h" THEN SnoozeDelay ELSE 0]
<1>1. car \in Car /\ credit \in [Installations -> 0..2]
  BY DEF Inductive, TypeOK
<1>2. /\ car' = [car EXCEPT !.actions = [@ EXCEPT ![i] = choice]] /\ Save(ok)
      /\ credit' = [credit EXCEPT ![i] = IF action = "snooze_4h" /\ @ < 2 THEN @ + 1 ELSE @]
      /\ UNCHANGED <<threads, handed>>
  BY DEF ApplyAction
<1>3. choice.action = action
  OBVIOUS
<1> HIDE DEF choice
<1>4. /\ car'.episode = car.episode /\ car'.present = car.present
      /\ car'.actions = [car.actions EXCEPT ![i] = choice]
  BY <1>1, <1>2 DEF Car
<1>5. Kept /\ (~dirty' => disk' = car')
  BY <1>2, SaveKeeps DEF Save
<1>6. AnnouncedOnce'
  <2>1. handed' # {} => car'.episode # NoEpisode
    BY <1>2, <1>4 DEF Accounts, AnnouncedOnce
  <2>2. car'.episode # NoEpisode => car'.present
    BY <1>4 DEF Accounts, AnnouncedOnce, Anchored
  <2> QED
    BY <1>2, <1>4, <1>5, <2>1, <2>2, AnnouncesNothing, StillDwindles DEF Accounts
<1>7. Credited'
  <2>1. \A u \in Callbacks : threads'[u].pc = "sending" => threads'[u].kind # "reminder"
    BY <1>2 DEF Accounts, Credited
  <2> SUFFICES ASSUME NEW j \in Installations
               PROVE  /\ Owed(car', j) + Flying(j)' <= credit'[j]
                      /\ ~dirty' => Owed(disk', j) + Flying(j)' <= credit'[j]
    BY <2>1 DEF Credited
  <2>2. Flying(j)' = Flying(j)
    BY <1>2, <1>4 DEF Flying
  <2>3. /\ Owed(car, j) \in {0, 1} /\ Owed(car', j) \in {0, 1} /\ Flying(j) \in {0, 1}
        /\ credit[j] \in 0..2
    BY <1>1 DEF Owed, Flying
  <2>4. Owed(car, j) + Flying(j) <= credit[j]
    BY DEF Accounts, Credited
  <2>5. Owed(car', j) + Flying(j) <= credit'[j]
    <3>1. CASE j # i
      <4>1. Owed(car', j) = Owed(car, j) /\ credit'[j] = credit[j]
        BY <1>1, <1>2, <1>4, <3>1 DEF Owed, Snoozed, Car
      <4> QED
        BY <2>4, <4>1
    <3>2. CASE j = i /\ action = "snooze_4h"
      <4>1. credit'[j] = IF credit[j] < 2 THEN credit[j] + 1 ELSE credit[j]
        BY <1>1, <1>2, <3>2
      <4> QED
        BY <2>3, <2>4, <4>1
    <3>3. CASE j = i /\ action # "snooze_4h"
      <4>1. credit'[j] = credit[j]
        BY <1>1, <1>2, <3>3
      <4>2. Owed(car', j) = 0
        BY <1>1, <1>3, <1>4, <3>3 DEF Owed, Snoozed, Car
      <4> QED
        BY <2>3, <2>4, <4>1, <4>2
    <3> QED
      BY <3>1, <3>2, <3>3
  <2> QED
    BY <1>5, <2>2, <2>5
<1> QED
  BY <1>6, <1>7 DEF Accounts

LEMMA InitAccounts == Init => Accounts
<1> SUFFICES ASSUME Init PROVE Accounts
  OBVIOUS
<1>1. /\ car = NoCar /\ disk = NoCar /\ handed = {} /\ threads = [t \in Threads |-> Idle]
      /\ credit = [i \in Installations |-> 0]
  BY DEF Init
<1>2. NoCar.episode = NoEpisode /\ NoCar.actions = NoChoices /\ Idle.pc # "sending"
  BY DEF NoCar, NewCar, Idle
<1>3. AnnouncedOnce
  BY <1>1, <1>2 DEF AnnouncedOnce, Anchored, LowOn
<1>4. ReminderLoop \in Threads /\ Callbacks \subseteq Threads
  BY DEF Threads
<1>5. Credited
  <2>1. \A i \in Installations : Owed(NoCar, i) = 0 /\ Flying(i) = 0 /\ credit[i] = 0
    BY <1>1, <1>2, <1>4, NothingSnoozed DEF Flying
  <2> QED
    BY <1>1, <1>2, <1>4, <2>1 DEF Credited
<1> QED
  BY <1>3, <1>5 DEF Accounts

LEMMA StepAccounts == Inductive /\ Accounts /\ [Next]_vars => Accounts'
<1> SUFFICES ASSUME Inductive, Accounts, [Next]_vars PROVE Accounts'
  OBVIOUS
<1>1. SaveOutcomes \subseteq BOOLEAN /\ Callbacks \subseteq Threads /\ ReminderLoop \in Threads
  BY DEF SaveOutcomes, Threads
<1>2. ASSUME NEW ok \in SaveOutcomes, NEW t \in Callbacks, CallbackStep(t, ok)
      PROVE  Accounts'
  BY <1>1, <1>2, TimerAccounts, EvaluateAccounts, HandOverAccounts, GiveUpAccounts
     DEF CallbackStep
<1>3. ASSUME NEW ok \in SaveOutcomes, ReminderStep(ok) PROVE Accounts'
  BY <1>1, <1>3, RemindersAccounts, HandOverAccounts, GiveUpAccounts DEF ReminderStep
<1>4. ASSUME NEW ok \in SaveOutcomes, Environment(ok) PROVE Accounts'
  BY <1>1, <1>4, ObserveAccounts, ActionAccounts DEF Environment
<1>5. CASE UNCHANGED vars
  <2>1. UNCHANGED <<car, disk, dirty, threads, handed, credit>>
    BY <1>5 DEF vars
  <2>2. Kept /\ Calmer(car, car')
    BY <2>1, SameCalm DEF Kept
  <2> QED
    BY <2>1, <2>2, QuietStep, StillDwindles
<1> QED
  BY <1>2, <1>3, <1>4, <1>5, ResetAccounts, FleetAccounts, RestartAccounts DEF Next

LEMMA AccountsHold == Spec => []Accounts
BY InductiveHolds, InitAccounts, StepAccounts, PTL DEF Spec

(* fanOut never hands a phone a second ordinary alert before the battery   *)
(* was seen charged again, the car left the fleet or a crash followed a    *)
(* failed save: evaluate opens an episode only after the last one was      *)
(* closed, a restart finds the saved one again, and an overtaken fan-out   *)
(* gives up (src/low_battery_notification.go:311 and :420).                *)
THEOREM LowAlertsOnce == Spec => OneLowAlertPerDescent
<1>1. Inductive /\ Accounts /\ [Next]_vars =>
        [\A t \in Threads, i \in Installations :
           Hands(t, i, "low") => <<i, "low">> \notin handed]_vars
  BY DEF Accounts, AnnouncedOnce, LowOn, Hands, HandOver, StillCurrent
<1> QED
  BY <1>1, InductiveHolds, AccountsHold, PTL DEF Spec, OneLowAlertPerDescent

(* processDueReminders completes and saves a snooze before its reminder is *)
(* handed over, so that each snooze of applyAction pays for at most one,   *)
(* and a rearming cancels those on their way: also across fleet changes    *)
(* and restarts, unless the save failed before the crash                   *)
(* (src/low_battery_notification.go:499).                                  *)
THEOREM RemindersOnce == Spec => OneReminderPerSnooze
<1>1. Inductive /\ Accounts /\ [Next]_vars =>
        [\A t \in Threads, i \in Installations :
           Hands(t, i, "reminder") => credit[i] > 0]_vars
  <2> SUFFICES ASSUME Inductive, Accounts, NEW t \in Threads, NEW i \in Installations,
                      Hands(t, i, "reminder")
               PROVE  credit[i] > 0
    OBVIOUS
  <2>1. /\ threads[t].pc = "sending" /\ threads[t].kind = "reminder" /\ i \in threads[t].to
        /\ car.episode = threads[t].episode
    BY DEF Hands, HandOver, StillCurrent
  <2>2. t = ReminderLoop
    BY <2>1 DEF Accounts, Credited, Threads
  <2>3. Flying(i) = 1
    BY <2>1, <2>2 DEF Flying
  <2>4. Owed(car, i) \in {0, 1} /\ credit[i] \in Nat
    BY EpisodeTypes
  <2> QED
    BY <2>3, <2>4 DEF Accounts, Credited
<1> QED
  BY <1>1, InductiveHolds, AccountsHold, PTL DEF Spec, OneReminderPerSnooze

=============================================================================
