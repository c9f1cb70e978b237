-------------------------- MODULE LockSecureProofs --------------------------
(* Theorems about LockSecure, for any phones, times, messages and number   *)
(* of rounds: its types, the three promises of its evidence, and that it   *)
(* keeps what LockEpisodes promises about a car.                           *)
EXTENDS LockSecure, TLAPS

LEMMA Times ==
  /\ Settle \in Nat /\ Settle > 0
  /\ EpisodeLifetime \in Nat /\ HeartbeatLifetime \in Nat
  /\ Cooldown \in Nat /\ Cooldown > 0
  /\ Minute \in Nat /\ Minute > 0
BY TimesArePositive

(* The records of the state *)
Evidences == [presence : BOOLEAN, healthy : Ages(HeartbeatLifetime),
              lock : Ages(EpisodeLifetime), stable : 0..Settle]
Timers == [is : {"none", "running", "fired"}, age : 0..Settle]
RoundKinds == [is : {"none", "called", "checking", "posting"},
               left : SUBSET Phones, phone : Phones \cup {""},
               same : BOOLEAN, ofMinute : BOOLEAN, all : BOOLEAN]
OriginKinds == [presence : Origins, healthy : Origins, lock : Origins]
Disks == [pushed : Ages(Cooldown - 1), delivered : BOOLEAN]
Lines == [up : BOOLEAN, subscribed : BOOLEAN]

LEMMA Typed ==
  TypeOK <=>
    /\ line \in Lines
    /\ owed \in BOOLEAN /\ connected \in BOOLEAN /\ delivered \in BOOLEAN
    /\ unsaved \in BOOLEAN
    /\ stale \in BOOLEAN /\ straggler \in BOOLEAN /\ missed \in BOOLEAN
    /\ car \in Cars /\ disk \in Disks
    /\ evidence \in Evidences /\ pending \in Timers
    /\ rounds \in [Rounds -> RoundKinds]
    /\ inFleet \in BOOLEAN /\ wants \subseteq Phones /\ clock \in 0..(Minute - 1)
    /\ origin \in OriginKinds
BY DEF TypeOK, Evidences, Timers, RoundKinds, OriginKinds, Disks, Lines

LEMMA TypedNext ==
  ASSUME line' \in Lines,
         owed' \in BOOLEAN, connected' \in BOOLEAN, delivered' \in BOOLEAN,
         unsaved' \in BOOLEAN,
         stale' \in BOOLEAN, straggler' \in BOOLEAN, missed' \in BOOLEAN,
         car' \in Cars, disk' \in Disks,
         evidence' \in Evidences, pending' \in Timers,
         rounds' \in [Rounds -> RoundKinds],
         inFleet' \in BOOLEAN, wants' \subseteq Phones, clock' \in 0..(Minute - 1),
         origin' \in OriginKinds
  PROVE  TypeOK'
BY DEF TypeOK, Evidences, Timers, RoundKinds, OriginKinds, Disks, Lines

-----------------------------------------------------------------------------
(* What the helpers return *)

LEMMA OlderType ==
  ASSUME NEW limit \in Nat, NEW age \in Ages(limit)
  PROVE  /\ Older(age, limit) \in Ages(limit)
         /\ Older(age, limit) # NoAge => age # NoAge
BY DEF Older, Ages, NoAge

LEMMA ZeroAges ==
  ASSUME NEW limit \in Nat
  PROVE  0 \in Ages(limit) /\ NoAge \in Ages(limit) /\ 0 # NoAge
BY DEF Ages, NoAge

LEMMA PushedAges == Cooldown - 1 \in Nat
BY Times

LEMMA NewCarType == NewCar \in Cars /\ NewCar.pushed = NoAge
<1>1. [o \in Openings |-> ""] \in [Openings -> Tri]
  BY DEF Tri
<1>2. NoAge \in Ages(Cooldown - 1)
  BY PushedAges, ZeroAges
<1> QED
  BY <1>1, <1>2 DEF NewCar, Cars, Tri, States, Gears

LEMMA PushedCar ==
  ASSUME NEW c \in Cars, NEW age \in Ages(Cooldown - 1)
  PROVE  /\ [c EXCEPT !.pushed = age] \in Cars
         /\ [c EXCEPT !.pushed = age].pushed = age
         /\ Secure([c EXCEPT !.pushed = age]) <=> Secure(c)
BY DEF Cars, Secure, Parked

LEMMA EmptyEvidence ==
  /\ NoEvidence \in Evidences
  /\ NoEvidence.presence = FALSE /\ NoEvidence.healthy = NoAge
  /\ NoEvidence.lock = NoAge /\ NoEvidence.stable = Settle
BY Times DEF NoEvidence, Evidences, Ages, NoAge

LEMMA EmptyOrigin ==
  /\ NoOrigin \in OriginKinds
  /\ NoOrigin.presence = "none" /\ NoOrigin.healthy = "none" /\ NoOrigin.lock = "none"
BY DEF NoOrigin, OriginKinds, Origins

LEMMA EmptyTimer == NoTimer \in Timers /\ NoTimer.age = 0 /\ NoTimer.is = "none"
BY Times DEF NoTimer, Timers

LEMMA EmptyRound ==
  NoRound \in RoundKinds /\ NoRound.is = "none" /\ NoRound.same = FALSE
BY DEF NoRound, RoundKinds

LEMMA NoAgeType == NoAge \in Int
BY DEF NoAge

LEMMA ReadingType ==
  ASSUME NEW m \in Readings
  PROVE  /\ m.retained \in BOOLEAN
         /\ \/ /\ m.field \in {"locked", "is_user_present", "healthy"} \cup Openings
               /\ m.value \in Tri
            \/ m.field = "state" /\ m.value \in States
            \/ m.field = "shift_state" /\ m.value \in Gears
            \/ m.field = "display_name"
<1>1. PICK p \in Published \cup Retained, kept \in BOOLEAN :
        m = [field |-> p[1], value |-> p[2], retained |-> kept]
  BY DEF Readings
<1>2. m.field = p[1] /\ m.value = p[2] /\ m.retained = kept
  BY <1>1
<1>3. p \in (({"locked", "is_user_present", "healthy"} \cup Openings) \X Tri)
              \cup ({"state"} \X States) \cup ({"shift_state"} \X Gears)
              \cup ({"display_name"} \X {""})
  BY MessageShape
<1> QED
  BY <1>2, <1>3

LEMMA FieldType ==
  ASSUME NEW c \in Cars, NEW m \in Readings
  PROVE  /\ WithField(c, m.field, m.value) \in Cars
         /\ WithField(c, m.field, m.value).pushed = c.pushed
<1> DEFINE next == WithField(c, m.field, m.value)
<1>1. CASE m.field = "locked"
  <2>1. m.value \in Tri
    BY <1>1, ReadingType, OpeningNames
  <2>2. next = [c EXCEPT !.locked = m.value]
    BY <1>1, OpeningNames DEF WithField
  <2> QED
    BY <2>1, <2>2 DEF Cars
<1>2. CASE m.field = "is_user_present"
  <2>1. m.value \in Tri
    BY <1>2, ReadingType, OpeningNames
  <2>2. next = [c EXCEPT !.present = m.value]
    BY <1>2, OpeningNames DEF WithField
  <2> QED
    BY <2>1, <2>2 DEF Cars
<1>3. CASE m.field = "state"
  <2>1. m.value \in States
    BY <1>3, ReadingType, OpeningNames
  <2>2. next = [c EXCEPT !.state = m.value]
    BY <1>3, OpeningNames DEF WithField
  <2> QED
    BY <2>1, <2>2 DEF Cars
<1>4. CASE m.field = "shift_state"
  <2>1. m.value \in Gears
    BY <1>4, ReadingType, OpeningNames
  <2>2. next = [c EXCEPT !.gear = m.value,
                         !.lastGear = IF m.value = "" THEN @ ELSE m.value]
    BY <1>4, OpeningNames DEF WithField
  <2> QED
    BY <2>1, <2>2 DEF Cars
<1>5. CASE m.field \in Openings
  <2>1. m.value \in Tri
    BY <1>5, ReadingType, OpeningNames
  <2>2. next = [c EXCEPT !.open = [@ EXCEPT ![m.field] = m.value]]
    BY <1>5, OpeningNames DEF WithField
  <2>3. c.open \in [Openings -> Tri]
    BY DEF Cars
  <2>4. [c.open EXCEPT ![m.field] = m.value] \in [Openings -> Tri]
    BY <2>1, <2>3
  <2> QED
    BY <2>2, <2>4 DEF Cars
<1>6. CASE m.field \notin {"locked", "is_user_present", "state", "shift_state"} \cup Openings
  BY <1>6 DEF WithField
<1> QED
  BY <1>1, <1>2, <1>3, <1>4, <1>5, <1>6

(* What a message leaves of the evidence *)
LEMMA NotedType ==
  ASSUME NEW e \in Evidences, NEW previous, NEW m \in Readings
  PROVE  LET next == Noted(e, previous, m) IN
         /\ next \in Evidences
         /\ next.presence =>
              \/ m.field = "is_user_present" /\ ~m.retained
              \/ m.field # "is_user_present" /\ e.presence
         /\ next.healthy # NoAge => m.field = "healthy" \/ e.healthy # NoAge
         /\ next.lock # NoAge =>
              /\ ~m.retained
              /\ Locks(previous, m.field, m.value) \/ e.lock # NoAge
         /\ next.stable = IF m.retained \/ ~Restarts(m) THEN e.stable ELSE 0
<1> DEFINE next == Noted(e, previous, m)
<1>1. m.retained \in BOOLEAN
  BY ReadingType
<1>2. NoAge \in Ages(HeartbeatLifetime) /\ 0 \in Ages(HeartbeatLifetime)
  BY Times, ZeroAges
<1>3. NoAge \in Ages(EpisodeLifetime) /\ 0 \in Ages(EpisodeLifetime)
  BY Times, ZeroAges
<1>4. 0 \in 0..Settle
  BY Times
<1>5. CASE m.retained
  <2>1. next = [e EXCEPT !.lock = NoAge, !.presence = @ /\ m.field # "is_user_present"]
    BY <1>5 DEF Noted
  <2>2. e.presence \in BOOLEAN /\ (e.presence /\ m.field # "is_user_present") \in BOOLEAN
    BY DEF Evidences
  <2>3. /\ next \in Evidences
        /\ next.presence = (e.presence /\ m.field # "is_user_present")
        /\ next.healthy = e.healthy /\ next.lock = NoAge /\ next.stable = e.stable
    BY <1>3, <2>1, <2>2 DEF Evidences
  <2> QED
    BY <1>5, <2>3
<1>6. CASE ~m.retained
  <2>1. next = NotedLive(e, previous, m)
    BY <1>6 DEF Noted
  <2>2. /\ next.presence = IF EndsPresence(m.field, m.value) THEN FALSE
                           ELSE e.presence \/ m.field = "is_user_present"
        /\ next.healthy = IF m.field # "healthy" THEN e.healthy
                          ELSE IF m.value = "yes" THEN 0 ELSE NoAge
        /\ next.lock = IF EndsEpisode(m.field, m.value) THEN NoAge
                       ELSE IF Locks(previous, m.field, m.value) THEN 0 ELSE e.lock
        /\ next.stable = IF m.field \in {"healthy", "display_name"} THEN e.stable ELSE 0
    BY <2>1 DEF NotedLive
  <2>3. /\ next.presence \in BOOLEAN /\ next.healthy \in Ages(HeartbeatLifetime)
        /\ next.lock \in Ages(EpisodeLifetime) /\ next.stable \in 0..Settle
    BY <1>2, <1>3, <1>4, <2>2 DEF Evidences
  <2>4. next \in Evidences
    BY <2>1, <2>3 DEF NotedLive, Evidences
  <2> QED
    BY <1>6, <2>2, <2>4 DEF Restarts
<1> QED
  BY <1>1, <1>5, <1>6

-----------------------------------------------------------------------------
(* The connection and the clock may change beside what a step is about. *)
LEMMA LinkType ==
  ASSUME TypeOK, LinkNext
  PROVE  line' \in Lines /\ owed' \in BOOLEAN /\ connected' \in BOOLEAN
<1>1. line \in Lines /\ owed \in BOOLEAN /\ connected \in BOOLEAN
  BY Typed
<1>2. CASE Opens
  BY <1>1, <1>2 DEF Opens, Lines
<1>3. CASE Breaks
  BY <1>1, <1>3 DEF Breaks, Lines
<1>4. CASE Subscribes
  BY <1>1, <1>4 DEF Subscribes, Lines
<1>5. CASE StartsOver
  BY <1>1, <1>5 DEF StartsOver
<1>6. CASE Skips
  BY <1>1, <1>6 DEF Skips
<1>7. CASE Confirms
  BY <1>1, <1>7 DEF Confirms
<1>8. CASE Denies
  BY <1>1, <1>8 DEF Denies
<1>9. CASE Forgets
  BY <1>1, <1>9 DEF Forgets, Lines
<1> QED
  BY <1>2, <1>3, <1>4, <1>5, <1>6, <1>7, <1>8, <1>9 DEF LinkNext

(* The file follows the memory, or the save has failed. *)
FileFollows ==
  \/ disk'.pushed = car'.pushed /\ unsaved' = FALSE
  \/ disk' = disk /\ unsaved' = (unsaved \/ car'.pushed # car.pushed)

LEMMA SaveType ==
  ASSUME Save, disk \in Disks, unsaved \in BOOLEAN, car' \in Cars, delivered' \in BOOLEAN
  PROVE  disk' \in Disks /\ unsaved' \in BOOLEAN /\ FileFollows
<1>1. CASE disk' = [pushed |-> car'.pushed, delivered |-> delivered'] /\ unsaved' = FALSE
  <2>1. car'.pushed \in Ages(Cooldown - 1)
    BY DEF Cars
  <2>2. disk' \in Disks /\ disk'.pushed = car'.pushed
    BY <1>1, <2>1 DEF Disks
  <2> QED
    BY <1>1, <2>2 DEF FileFollows
<1>2. CASE disk' = disk /\ unsaved' = (unsaved \/ car'.pushed # car.pushed)
  BY <1>2 DEF FileFollows
<1> QED
  BY <1>1, <1>2 DEF Save, Written

LEMMA RoundSet ==
  ASSUME rounds \in [Rounds -> RoundKinds], NEW r \in Rounds, NEW to \in RoundKinds,
         SetRound(r, to)
  PROVE  /\ rounds' \in [Rounds -> RoundKinds]
         /\ rounds'[r] = to
         /\ \A q \in Rounds : q # r => rounds'[q] = rounds[q]
BY DEF SetRound

LEMMA RoundsEnded ==
  ASSUME rounds \in [Rounds -> RoundKinds],
         rounds' = [r \in Rounds |-> [rounds[r] EXCEPT !.same = FALSE]]
  PROVE  /\ rounds' \in [Rounds -> RoundKinds]
         /\ \A r \in Rounds : rounds'[r] = [rounds[r] EXCEPT !.same = FALSE]
<1>1. \A x \in RoundKinds : [x EXCEPT !.same = FALSE] \in RoundKinds
  BY DEF RoundKinds
<1> QED
  BY <1>1

LEMMA DropType ==
  ASSUME NEW t \in Timers, stale \in BOOLEAN
  PROVE  Dropped(t).pending = NoTimer /\ Dropped(t).stale \in BOOLEAN
BY DEF Dropped

(* What becomes of the timer with a message *)
LEMMA TimerOfMessage ==
  ASSUME TypeOK, NEW m \in Readings, Observe(m)
  PROVE  /\ \/ pending' = NoTimer
            \/ pending' = [is |-> "running", age |-> 0]
            \/ pending' = pending /\ ~Restarts(m)
         /\ evidence'.lock # NoAge => pending' # NoTimer
         /\ stale' \in BOOLEAN
<1> DEFINE t == IF Restarts(m) \/ evidence'.lock = NoAge THEN Dropped(pending)
                ELSE Kept(pending)
<1> DEFINE next == IF Arms(m) THEN Armed(t) ELSE t
<1>1. pending' = next.pending /\ stale' = next.stale
  BY DEF Observe
<1>2. stale \in BOOLEAN /\ pending \in Timers
  BY Typed
<1>3. /\ t.pending \in {NoTimer, pending} /\ t.stale \in BOOLEAN
      /\ t.pending # NoTimer => ~Restarts(m)
  BY <1>2 DEF Dropped, Kept
<1> DEFINE armed == [is |-> "running", age |-> 0]
<1>4. armed # NoTimer
  BY DEF NoTimer
<1>5. \/ t = [pending |-> NoTimer, stale |-> t.stale]
      \/ t = [pending |-> pending, stale |-> t.stale]
  BY DEF Dropped, Kept
<1> HIDE DEF t, armed
<1>6. CASE Arms(m) /\ t.pending = NoTimer
  <2>1. next = [t EXCEPT !.pending = armed]
    BY <1>6 DEF Armed, armed
  <2>2. next.pending = armed /\ next.stale = t.stale
    BY <2>1, <1>5
  <2> HIDE DEF next
  <2> QED
    BY <1>1, <1>3, <1>4, <2>2 DEF armed
<1>7. CASE Arms(m) /\ t.pending # NoTimer
  <2>1. next = t
    BY <1>7 DEF Armed
  <2> QED
    BY <1>1, <1>3, <1>7, <2>1
<1>8. CASE ~Arms(m)
  BY <1>1, <1>3, <1>8 DEF Arms
<1> QED
  BY <1>6, <1>7, <1>8

LEMMA TraceType ==
  ASSUME origin \in OriginKinds, NEW m \in Readings
  PROVE  Traced(m) \in OriginKinds
BY DEF Traced, OriginKinds, Origins

LEMMA ObserveType ==
  ASSUME TypeOK, NEW m \in Readings, Observe(m)
  PROVE  TypeOK'
<1>1. /\ car \in Cars /\ disk \in Disks /\ evidence \in Evidences /\ pending \in Timers
      /\ rounds \in [Rounds -> RoundKinds] /\ origin \in OriginKinds
      /\ straggler \in BOOLEAN /\ delivered \in BOOLEAN /\ missed \in BOOLEAN
  BY Typed
<1>2. car' \in Cars /\ evidence' \in Evidences
  BY <1>1, FieldType, NotedType DEF Observe
<1>3. disk' \in Disks /\ unsaved' \in BOOLEAN
  <2>1. delivered' \in BOOLEAN /\ (UNCHANGED file \/ Save)
    BY <1>1 DEF Observe
  <2>2. unsaved \in BOOLEAN
    BY Typed
  <2> QED
    BY <1>1, <1>2, <2>1, <2>2, SaveType DEF file
<1>4. rounds' \in [Rounds -> RoundKinds]
  BY <1>1, RoundsEnded DEF Observe
<1>5. origin' \in OriginKinds
  BY <1>1, TraceType DEF Observe
<1>6. pending' \in Timers /\ stale' \in BOOLEAN
  <2>1. [is |-> "running", age |-> 0] \in Timers
    BY Times DEF Timers
  <2> QED
    BY <1>1, <2>1, TimerOfMessage, EmptyTimer
<1>7. straggler' \in BOOLEAN /\ missed' \in BOOLEAN /\ delivered' \in BOOLEAN
  <2>1. straggler' \in BOOLEAN
    BY <1>1 DEF Observe, Accepted
  <2>2. delivered' = delivered
    BY DEF Observe
  <2>3. missed' \in BOOLEAN
    BY DEF Observe
  <2> QED
    BY <1>1, <2>1, <2>2, <2>3
<1>8. UNCHANGED <<linkVars, world>>
  BY DEF Observe
<1> QED
  BY <1>2, <1>3, <1>4, <1>5, <1>6, <1>7, <1>8, Typed, TypedNext DEF linkVars, world

(* The two ends of finishPending *)
Unanswered ==
  /\ ~connected \/ ~Ready \/ wants = {}
  /\ missed' = (missed \/ (evidence.lock # NoAge /\ (~connected \/ wants = {})))
  /\ UNCHANGED <<store, evidence, rounds, origin>>

Answered(r) ==
  /\ connected /\ Ready /\ wants # {}
  /\ evidence' = Consumed /\ origin' = [origin EXCEPT !.lock = "none"]
  /\ Rested /\ rounds[r] = NoRound
  /\ rounds' = [rounds EXCEPT ![r] = [NoRound EXCEPT
       !.is = "called", !.same = TRUE, !.ofMinute = TRUE, !.all = TRUE]]
  /\ car' = Pushed(car) /\ UNCHANGED <<delivered, missed>> /\ Save

NotAnswered ==
  /\ connected /\ Ready /\ wants # {}
  /\ evidence' = Consumed /\ origin' = [origin EXCEPT !.lock = "none"]
  /\ UNCHANGED <<store, rounds, missed>>

LEMMA PendingEnds ==
  ASSUME FinishPending
  PROVE  /\ pending.is = "fired" /\ pending' = NoTimer
         /\ UNCHANGED <<linkVars, stale, straggler, world>>
         /\ Unanswered \/ NotAnswered \/ \E r \in Rounds : Answered(r)
<1>1. CASE Unanswered
  BY <1>1 DEF FinishPending, OwnCallback
<1>2. ASSUME ~Unanswered
      PROVE  /\ connected /\ Ready /\ wants # {}
             /\ evidence' = Consumed /\ origin' = [origin EXCEPT !.lock = "none"]
             /\ \/ Rested /\ (\E r \in Rounds : StartRound(r)) /\ car' = Pushed(car)
                   /\ UNCHANGED delivered /\ Save
                \/ UNCHANGED <<store, rounds>>
             /\ UNCHANGED missed
  BY <1>2 DEF FinishPending, Unanswered
<1>3. CASE ~Unanswered
  BY <1>2, <1>3 DEF FinishPending, OwnCallback, StartRound, Answered, NotAnswered
<1> QED
  BY <1>1, <1>3

LEMMA ConsumedType ==
  ASSUME evidence \in Evidences
  PROVE  /\ Consumed \in Evidences /\ Consumed.lock = NoAge
         /\ Consumed.presence = evidence.presence /\ Consumed.healthy = evidence.healthy
         /\ Consumed.stable = evidence.stable
BY Times, ZeroAges DEF Consumed, Evidences

LEMMA OriginCut ==
  ASSUME origin \in OriginKinds
  PROVE  LET cut == [origin EXCEPT !.lock = "none"] IN
         /\ cut \in OriginKinds /\ cut.lock = "none"
         /\ cut.presence = origin.presence /\ cut.healthy = origin.healthy
BY DEF OriginKinds, Origins

LEMMA NewRound ==
  LET round == [NoRound EXCEPT !.is = "called", !.same = TRUE, !.ofMinute = TRUE,
                               !.all = TRUE]
  IN  round \in RoundKinds /\ round.is = "called" /\ round.same = TRUE
BY EmptyRound DEF RoundKinds

LEMMA AnsweredRounds ==
  ASSUME TypeOK, NEW r \in Rounds, Answered(r)
  PROVE  /\ rounds' \in [Rounds -> RoundKinds]
         /\ rounds'[r].is = "called" /\ rounds'[r].same
         /\ \A q \in Rounds : q # r => rounds'[q] = rounds[q]
<1> DEFINE round == [NoRound EXCEPT !.is = "called", !.same = TRUE, !.ofMinute = TRUE,
                                    !.all = TRUE]
<1>1. round \in RoundKinds /\ round.is = "called" /\ round.same
  BY NewRound
<1>2. SetRound(r, round)
  BY DEF Answered, SetRound
<1> HIDE DEF round
<1>3. rounds \in [Rounds -> RoundKinds]
  BY Typed
<1> QED
  BY <1>1, <1>2, <1>3, RoundSet

LEMMA FinishType ==
  ASSUME TypeOK, FinishPending
  PROVE  TypeOK'
<1>1. pending' \in Timers /\ UNCHANGED <<linkVars, stale, straggler, world>>
  BY PendingEnds, EmptyTimer
<1>2. evidence \in Evidences /\ missed \in BOOLEAN /\ origin \in OriginKinds /\ car \in Cars
  BY Typed
<1>3. CASE Unanswered
  <2>1. missed' \in BOOLEAN /\ UNCHANGED <<store, evidence, rounds, origin>>
    BY <1>2, <1>3 DEF Unanswered
  <2> QED
    BY <1>1, <2>1, Typed, TypedNext DEF store, file, linkVars, world
<1>4. CASE NotAnswered
  <2>1. evidence' \in Evidences /\ origin' \in OriginKinds
    BY <1>2, <1>4, ConsumedType, OriginCut DEF NotAnswered
  <2>2. UNCHANGED <<store, rounds, missed>>
    BY <1>4 DEF NotAnswered
  <2> QED
    BY <1>1, <2>1, <2>2, Typed, TypedNext DEF store, file, linkVars, world
<1>5. ASSUME NEW r \in Rounds, Answered(r) PROVE TypeOK'
  <2>1. evidence' \in Evidences /\ origin' \in OriginKinds
    BY <1>2, <1>5, ConsumedType, OriginCut DEF Answered
  <2>2. car' \in Cars
    BY <1>2, <1>5, PushedCar, PushedAges, ZeroAges DEF Answered, Pushed
  <2>3. UNCHANGED <<delivered, missed>>
    BY <1>5 DEF Answered
  <2>4. disk' \in Disks /\ unsaved' \in BOOLEAN
    BY <1>5, <2>2, <2>3, SaveType, Typed DEF Answered
  <2>5. rounds' \in [Rounds -> RoundKinds]
    BY <1>5, AnsweredRounds
  <2> QED
    BY <1>1, <2>1, <2>2, <2>3, <2>4, <2>5, Typed, TypedNext DEF linkVars, world
<1> QED
  BY <1>3, <1>4, <1>5, PendingEnds

(* The two ends of a check, and of a push *)
LEMMA CheckEnds ==
  ASSUME TypeOK, NEW r \in Rounds, Check(r)
  PROVE  /\ UNCHANGED <<linkVars, store, evidence, timer, straggler, world, history>>
         /\ rounds' \in [Rounds -> RoundKinds]
         /\ \A q \in Rounds : q # r => rounds'[q] = rounds[q]
         /\ \/ rounds'[r] = NoRound
            \/ /\ rounds[r].is \in {"called", "checking"} /\ rounds[r].same
               /\ rounds'[r].is = "posting" /\ rounds'[r].same
<1>1. rounds \in [Rounds -> RoundKinds] /\ wants \subseteq Phones
  BY Typed
<1>2. rounds[r] \in RoundKinds
  BY <1>1
<1>3. CASE ~StillValid(r)
  <2>1. SetRound(r, NoRound)
    BY <1>3 DEF Check
  <2> QED
    BY <1>1, <2>1, RoundSet, EmptyRound DEF Check
<1>4. ASSUME NEW p \in Targets(r), StillValid(r),
             SetRound(r, [rounds[r] EXCEPT !.is = "posting", !.left = Targets(r),
                                           !.phone = p])
      PROVE  /\ rounds' \in [Rounds -> RoundKinds]
             /\ \A q \in Rounds : q # r => rounds'[q] = rounds[q]
             /\ rounds[r].same /\ rounds'[r].is = "posting" /\ rounds'[r].same
  <2> DEFINE next == [rounds[r] EXCEPT !.is = "posting", !.left = Targets(r), !.phone = p]
  <2>1. Targets(r) \subseteq Phones
    BY <1>1, <1>2 DEF Targets, RoundKinds
  <2>2. next \in RoundKinds /\ next.is = "posting" /\ next.same = rounds[r].same
    BY <1>2, <2>1 DEF RoundKinds
  <2>3. SetRound(r, next)
    BY <1>4
  <2> HIDE DEF next
  <2> QED
    BY <1>1, <1>4, <2>2, <2>3, RoundSet DEF StillValid
<1> QED
  BY <1>3, <1>4 DEF Check

LEMMA DeliversEnds ==
  ASSUME TypeOK, NEW r \in Rounds, NEW sent \in BOOLEAN, Delivers(r, sent)
  PROVE  /\ UNCHANGED <<linkVars, car, evidence, timer, straggler, world, history>>
         /\ delivered' \in BOOLEAN
         /\ UNCHANGED file \/ FileFollows
         /\ disk' \in Disks /\ unsaved' \in BOOLEAN
         /\ rounds' \in [Rounds -> RoundKinds]
         /\ \A q \in Rounds : q # r => rounds'[q] = rounds[q]
         /\ rounds[r].is = "posting"
         /\ \/ rounds'[r] = NoRound
            \/ rounds'[r].is = "checking" /\ rounds'[r].same = rounds[r].same
<1> DEFINE left == rounds[r].left \ {rounds[r].phone}
           all == rounds[r].all /\ sent
           next == [rounds[r] EXCEPT !.is = "checking", !.left = left,
                                     !.phone = "", !.all = all]
<1>1. /\ rounds \in [Rounds -> RoundKinds] /\ rounds[r] \in RoundKinds
      /\ delivered \in BOOLEAN /\ car \in Cars /\ disk \in Disks /\ unsaved \in BOOLEAN
  BY Typed
<1>2. left \subseteq Phones /\ all \in BOOLEAN
  BY <1>1 DEF RoundKinds
<1> HIDE DEF left, all
<1>3. next \in RoundKinds /\ next.is = "checking" /\ next.same = rounds[r].same
  BY <1>1, <1>2 DEF RoundKinds
<1> HIDE DEF next
<1>4. rounds[r].is = "posting" /\ SetRound(r, IF left = {} THEN NoRound ELSE next)
  BY DEF Delivers, left, all, next
<1>5. /\ rounds' \in [Rounds -> RoundKinds]
      /\ \A q \in Rounds : q # r => rounds'[q] = rounds[q]
      /\ rounds'[r] \in {NoRound, next}
  BY <1>1, <1>3, <1>4, RoundSet, EmptyRound
<1>6. \/ delivered' = (delivered \/ rounds[r].ofMinute) /\ UNCHANGED car /\ Save
      \/ UNCHANGED store
  BY DEF Delivers
<1>7. UNCHANGED car /\ delivered' \in BOOLEAN
  BY <1>1, <1>6 DEF store, RoundKinds
<1>8. /\ disk' \in Disks /\ unsaved' \in BOOLEAN
      /\ UNCHANGED file \/ FileFollows
  BY <1>1, <1>6, <1>7, SaveType DEF store, file
<1>9. UNCHANGED <<linkVars, evidence, timer, straggler, world, history>>
  BY DEF Delivers
<1> QED
  BY <1>3, <1>4, <1>5, <1>7, <1>8, <1>9

LEMMA ResetType ==
  ASSUME TypeOK, ResetEvidence
  PROVE  /\ car' \in Cars /\ car'.pushed = car.pushed
         /\ evidence' = NoEvidence /\ origin' = NoOrigin /\ pending' = NoTimer
         /\ missed' = FALSE
         /\ stale' \in BOOLEAN
         /\ rounds' \in [Rounds -> RoundKinds]
         /\ \A r \in Rounds : rounds'[r] = [rounds[r] EXCEPT !.same = FALSE]
         /\ UNCHANGED <<delivered, file, straggler, world>>
<1>1. /\ car \in Cars /\ pending \in Timers /\ stale \in BOOLEAN
      /\ rounds \in [Rounds -> RoundKinds]
  BY Typed
<1>2. car.pushed \in Ages(Cooldown - 1)
  BY <1>1 DEF Cars
<1>3. car' \in Cars /\ car'.pushed = car.pushed
  BY <1>2, PushedCar, NewCarType DEF ResetEvidence
<1>4. evidence' = NoEvidence /\ origin' = NoOrigin
  BY DEF ResetEvidence, NoEvidenceLeft
<1>5. pending' = NoTimer /\ stale' \in BOOLEAN
  BY <1>1, DropType DEF ResetEvidence
<1>6. /\ rounds' \in [Rounds -> RoundKinds]
      /\ \A r \in Rounds : rounds'[r] = [rounds[r] EXCEPT !.same = FALSE]
  BY <1>1, RoundsEnded DEF ResetEvidence
<1> QED
  BY <1>3, <1>4, <1>5, <1>6 DEF ResetEvidence

LEMMA ReconcileType ==
  ASSUME TypeOK, ReconcileFleet
  PROVE  /\ car' = NewCar /\ evidence' = NoEvidence /\ origin' = NoOrigin
         /\ pending' = NoTimer /\ missed' = FALSE
         /\ stale' \in BOOLEAN
         /\ rounds' \in [Rounds -> RoundKinds]
         /\ \A r \in Rounds : rounds'[r] = [rounds[r] EXCEPT !.same = FALSE]
         /\ UNCHANGED <<linkVars, delivered, file, straggler, world>>
<1>1. pending \in Timers /\ stale \in BOOLEAN /\ rounds \in [Rounds -> RoundKinds]
  BY Typed
<1>2. pending' = NoTimer /\ stale' \in BOOLEAN
  BY <1>1, DropType DEF ReconcileFleet
<1>3. /\ rounds' \in [Rounds -> RoundKinds]
      /\ \A r \in Rounds : rounds'[r] = [rounds[r] EXCEPT !.same = FALSE]
  BY <1>1, RoundsEnded DEF ReconcileFleet
<1> QED
  BY <1>2, <1>3 DEF ReconcileFleet

LEMMA TickEffect ==
  ASSUME TypeOK, Tick
  PROVE  /\ ~owed
         /\ car' = [car EXCEPT !.pushed = Older(@, Cooldown - 1)]
         /\ car' \in Cars /\ car'.pushed = Older(car.pushed, Cooldown - 1)
         /\ disk' \in Disks /\ disk'.pushed = Older(disk.pushed, Cooldown - 1)
         /\ unsaved' \in BOOLEAN /\ unsaved' = (unsaved /\ car'.pushed # NoAge)
         /\ evidence' \in Evidences
         /\ evidence'.presence = evidence.presence
         /\ evidence'.healthy = Older(evidence.healthy, HeartbeatLifetime)
         /\ evidence'.lock = Older(evidence.lock, EpisodeLifetime)
         /\ evidence'.stable = IF evidence.stable = Settle THEN Settle
                               ELSE evidence.stable + 1
         /\ pending' \in Timers /\ pending'.is = pending.is
         /\ pending'.age = IF pending.is = "running" /\ pending.age < Settle
                           THEN pending.age + 1 ELSE pending.age
         /\ rounds' \in [Rounds -> RoundKinds]
         /\ \A r \in Rounds : rounds'[r].is = rounds[r].is
                              /\ rounds'[r].same = rounds[r].same
         /\ delivered' \in BOOLEAN /\ clock' \in 0..(Minute - 1)
         /\ UNCHANGED <<linkVars, stale, straggler, inFleet, wants, history>>
<1> DEFINE over == clock + 1 = Minute
<1>1. /\ car \in Cars /\ disk \in Disks /\ evidence \in Evidences /\ pending \in Timers
      /\ rounds \in [Rounds -> RoundKinds]
      /\ delivered \in BOOLEAN /\ clock \in 0..(Minute - 1)
  BY Typed
<1>2. /\ car.pushed \in Ages(Cooldown - 1) /\ disk.pushed \in Ages(Cooldown - 1)
      /\ evidence.healthy \in Ages(HeartbeatLifetime)
      /\ evidence.lock \in Ages(EpisodeLifetime) /\ evidence.stable \in 0..Settle
      /\ pending.age \in 0..Settle
  BY <1>1 DEF Cars, Disks, Evidences, Timers
<1>3. /\ Older(car.pushed, Cooldown - 1) \in Ages(Cooldown - 1)
      /\ Older(disk.pushed, Cooldown - 1) \in Ages(Cooldown - 1)
      /\ Older(evidence.healthy, HeartbeatLifetime) \in Ages(HeartbeatLifetime)
      /\ Older(evidence.lock, EpisodeLifetime) \in Ages(EpisodeLifetime)
  BY <1>2, OlderType, Times, PushedAges
<1>4. /\ car' = [car EXCEPT !.pushed = Older(@, Cooldown - 1)]
      /\ car' \in Cars /\ car'.pushed = Older(car.pushed, Cooldown - 1)
  BY <1>1, <1>3, PushedCar DEF Tick
<1>5. disk' \in Disks /\ disk'.pushed = Older(disk.pushed, Cooldown - 1)
  <2>1. disk' = [pushed |-> Older(disk.pushed, Cooldown - 1),
                 delivered |-> disk.delivered /\ ~over]
    BY DEF Tick
  <2>2. (disk.delivered /\ ~over) \in BOOLEAN
    OBVIOUS
  <2> QED
    BY <1>3, <2>1, <2>2 DEF Disks
<1>6. /\ evidence' \in Evidences
      /\ evidence'.presence = evidence.presence
      /\ evidence'.healthy = Older(evidence.healthy, HeartbeatLifetime)
      /\ evidence'.lock = Older(evidence.lock, EpisodeLifetime)
      /\ evidence'.stable = IF evidence.stable = Settle THEN Settle ELSE evidence.stable + 1
  <2> DEFINE stable == IF evidence.stable = Settle THEN Settle ELSE evidence.stable + 1
  <2>1. stable \in 0..Settle
    BY <1>2, Times
  <2>2. evidence' = [evidence EXCEPT
           !.healthy = Older(evidence.healthy, HeartbeatLifetime),
           !.lock = Older(evidence.lock, EpisodeLifetime), !.stable = stable]
    BY DEF Tick
  <2> HIDE DEF stable
  <2>3. /\ evidence' \in Evidences
        /\ evidence'.presence = evidence.presence
        /\ evidence'.healthy = Older(evidence.healthy, HeartbeatLifetime)
        /\ evidence'.lock = Older(evidence.lock, EpisodeLifetime)
        /\ evidence'.stable = stable
    BY <1>1, <1>3, <2>1, <2>2 DEF Evidences
  <2> QED
    BY <2>3 DEF stable
<1>7. /\ pending' \in Timers /\ pending'.is = pending.is
      /\ pending'.age = IF pending.is = "running" /\ pending.age < Settle
                        THEN pending.age + 1 ELSE pending.age
  <2>1. CASE pending.is = "running" /\ pending.age < Settle
    <3>1. pending.age + 1 \in 0..Settle
      BY <1>2, <2>1, Times
    <3>2. pending' = [pending EXCEPT !.age = pending.age + 1]
      BY <2>1 DEF Tick
    <3> QED
      BY <1>1, <2>1, <3>1, <3>2 DEF Timers
  <2>2. CASE ~(pending.is = "running" /\ pending.age < Settle)
    <3>1. pending' = pending
      BY <2>2 DEF Tick
    <3> QED
      BY <1>1, <2>2, <3>1
  <2> QED
    BY <2>1, <2>2
<1>8. /\ rounds' \in [Rounds -> RoundKinds]
      /\ \A r \in Rounds : rounds'[r].is = rounds[r].is
                           /\ rounds'[r].same = rounds[r].same
  <2>1. \A x \in RoundKinds :
          LET next == [x EXCEPT !.ofMinute = @ /\ ~over] IN
          next \in RoundKinds /\ next.is = x.is /\ next.same = x.same
    BY DEF RoundKinds
  <2>2. rounds' = [r \in Rounds |-> [rounds[r] EXCEPT !.ofMinute = @ /\ ~over]]
    BY DEF Tick
  <2> HIDE DEF over
  <2> QED
    BY <1>1, <2>1, <2>2
<1>9. delivered' \in BOOLEAN /\ clock' \in 0..(Minute - 1) /\ ~owed
  <2>1. delivered' \in BOOLEAN /\ ~owed
    BY DEF Tick
  <2>2. clock' = IF over THEN 0 ELSE clock + 1
    BY DEF Tick
  <2> QED
    BY <1>1, <2>1, <2>2, Times
<1>10. UNCHANGED <<linkVars, stale, straggler, inFleet, wants, history>>
  BY DEF Tick
<1>11. unsaved' = (unsaved /\ car'.pushed # NoAge) /\ unsaved' \in BOOLEAN
  BY Typed DEF Tick
<1> QED
  BY <1>4, <1>5, <1>6, <1>7, <1>8, <1>9, <1>10, <1>11

LEMMA RestartEffect ==
  ASSUME TypeOK, Restart
  PROVE  /\ ~owed' /\ ~connected'
         /\ car' \in Cars /\ car'.pushed = disk.pushed
         /\ evidence' = NoEvidence /\ origin' = NoOrigin /\ pending' = NoTimer
         /\ rounds' = [r \in Rounds |-> NoRound]
         /\ rounds' \in [Rounds -> RoundKinds]
         /\ delivered' \in BOOLEAN /\ stale' = FALSE /\ straggler' = FALSE
         /\ missed' = FALSE /\ unsaved' = FALSE
         /\ UNCHANGED <<disk, world>>
<1>1. disk.pushed \in Ages(Cooldown - 1) /\ disk.delivered \in BOOLEAN
  BY Typed DEF Disks
<1>2. car' \in Cars /\ car'.pushed = disk.pushed
  BY <1>1, PushedCar, NewCarType DEF Restart
<1> QED
  BY <1>1, <1>2, EmptyRound DEF Restart, Forgets

LEMMA StragglesType ==
  ASSUME TypeOK, Straggles
  PROVE  straggler' \in BOOLEAN
<1>1. straggler \in BOOLEAN /\ inFleet \in BOOLEAN /\ line.subscribed \in BOOLEAN
  BY Typed DEF Lines
<1> QED
  BY <1>1 DEF Straggles

LEMMA LinkStepEffect ==
  ASSUME TypeOK, LinkStep
  PROVE  /\ straggler' \in BOOLEAN
         /\ origin' \in OriginKinds
         /\ \/ /\ Opens
               /\ origin' = [presence |-> OfBefore(origin.presence),
                             healthy |-> OfBefore(origin.healthy),
                             lock |-> OfBefore(origin.lock)]
            \/ (Breaks \/ Subscribes \/ Skips \/ Confirms \/ Denies) /\ UNCHANGED origin
         /\ UNCHANGED <<store, evidence, timer, rounds, world, missed>>
<1>1. straggler \in BOOLEAN /\ origin \in OriginKinds
  BY Typed
<1>2. CASE Breaks /\ Straggles /\ UNCHANGED origin
  BY <1>1, <1>2, StragglesType DEF LinkStep
<1>3. CASE (Subscribes \/ Skips \/ Confirms \/ Denies) /\ UNCHANGED <<straggler, origin>>
  BY <1>1, <1>3 DEF LinkStep
<1>4. ASSUME Opens, UNCHANGED straggler,
             origin' = [presence |-> OfBefore(origin.presence),
                        healthy |-> OfBefore(origin.healthy),
                        lock |-> OfBefore(origin.lock)]
      PROVE  straggler' \in BOOLEAN /\ origin' \in OriginKinds
  BY <1>1, <1>4 DEF OriginKinds, Origins, OfBefore
<1> QED
  BY <1>2, <1>3, <1>4 DEF LinkStep

LEMMA InitTypeOK == Init => TypeOK
<1> SUFFICES ASSUME Init PROVE TypeOK
  OBVIOUS
<1>1. line \in Lines /\ owed \in BOOLEAN /\ connected \in BOOLEAN
  BY DEF Init, LinkInit, Lines
<1>2. disk \in Disks
  BY PushedAges, ZeroAges DEF Init, Disks
<1>3. rounds \in [Rounds -> RoundKinds]
  BY EmptyRound DEF Init
<1>4. clock \in 0..(Minute - 1)
  BY Times DEF Init
<1>5. car \in Cars /\ evidence \in Evidences /\ pending \in Timers /\ origin \in OriginKinds
  BY NewCarType, EmptyEvidence, EmptyTimer, EmptyOrigin DEF Init
<1> QED
  BY <1>1, <1>2, <1>3, <1>4, <1>5, Typed DEF Init

LEMMA TypeStep == TypeOK /\ [Next]_vars => TypeOK'
<1> SUFFICES ASSUME TypeOK, [Next]_vars PROVE TypeOK'
  OBVIOUS
<1> USE Typed, TypedNext
<1>0. CASE UNCHANGED vars
  BY <1>0 DEF vars, linkVars, store, file, timer, world, history
<1>1. CASE TimerFires
  <2>1. [pending EXCEPT !.is = "fired"] \in Timers
    BY DEF Timers
  <2> QED
    BY <1>1, <2>1 DEF TimerFires, linkVars, store, file, world, history
<1>2. CASE StaleCallback
  BY <1>2 DEF StaleCallback, linkVars, store, file, world, history
<1>3. ASSUME NEW m \in Readings, Observe(m) PROVE TypeOK'
  BY <1>3, ObserveType
<1>4. CASE FinishPending
  BY <1>4, FinishType
<1>5. ASSUME NEW r \in Rounds, Check(r) PROVE TypeOK'
  <2>1. /\ UNCHANGED <<linkVars, store, evidence, timer, straggler, world, history>>
        /\ rounds' \in [Rounds -> RoundKinds]
    BY <1>5, CheckEnds
  <2> QED
    BY <2>1 DEF linkVars, store, file, timer, world, history
<1>6. ASSUME NEW r \in Rounds, NEW sent \in BOOLEAN, Delivers(r, sent) PROVE TypeOK'
  <2>1. /\ UNCHANGED <<linkVars, car, evidence, timer, straggler, world, history>>
        /\ delivered' \in BOOLEAN /\ disk' \in Disks /\ unsaved' \in BOOLEAN
        /\ rounds' \in [Rounds -> RoundKinds]
    BY <1>6, DeliversEnds
  <2> QED
    BY <2>1 DEF linkVars, timer, world, history
<1>7. CASE LinkHandler
  <2>1. line' \in Lines /\ owed' \in BOOLEAN /\ connected' \in BOOLEAN
    BY <1>7, LinkType DEF LinkHandler, LinkNext
  <2>2. ResetEvidence
    BY <1>7 DEF LinkHandler
  <2>3. UNCHANGED <<delivered, file, straggler, world>>
    BY <2>2, ResetType
  <2>4. /\ car' \in Cars /\ evidence' \in Evidences /\ origin' \in OriginKinds
        /\ pending' \in Timers /\ missed' \in BOOLEAN /\ stale' \in BOOLEAN
        /\ rounds' \in [Rounds -> RoundKinds]
    BY <2>2, ResetType, EmptyEvidence, EmptyOrigin, EmptyTimer
  <2> QED
    BY <2>1, <2>3, <2>4 DEF file, world
<1>8. CASE LinkStep
  <2>1. LinkNext
    BY <1>8 DEF LinkStep, LinkNext
  <2>2. line' \in Lines /\ owed' \in BOOLEAN /\ connected' \in BOOLEAN
    BY <2>1, LinkType
  <2>3. /\ straggler' \in BOOLEAN /\ origin' \in OriginKinds
        /\ UNCHANGED <<store, evidence, timer, rounds, world, missed>>
    BY <1>8, LinkStepEffect
  <2> QED
    BY <2>2, <2>3 DEF store, file, timer, world
<1>9. CASE FleetChanges
  <2>1. straggler' \in BOOLEAN /\ inFleet' \in BOOLEAN
    BY <1>9, StragglesType DEF FleetChanges
  <2>2. UNCHANGED <<linkVars, store, evidence, timer, rounds, wants, clock, history>>
    BY <1>9 DEF FleetChanges
  <2> QED
    BY <2>1, <2>2 DEF linkVars, store, file, timer, history
<1>10. CASE ReconcileFleet
  <2>1. UNCHANGED <<linkVars, delivered, file, straggler, world>>
    BY <1>10, ReconcileType
  <2>2. /\ car' \in Cars /\ evidence' \in Evidences /\ origin' \in OriginKinds
        /\ pending' \in Timers /\ missed' \in BOOLEAN /\ stale' \in BOOLEAN
        /\ rounds' \in [Rounds -> RoundKinds]
    BY <1>10, ReconcileType, NewCarType, EmptyEvidence, EmptyOrigin, EmptyTimer
  <2> QED
    BY <2>1, <2>2 DEF file, linkVars, world
<1>11. CASE Tick
  <2>1. /\ car' \in Cars /\ disk' \in Disks /\ evidence' \in Evidences
        /\ pending' \in Timers /\ rounds' \in [Rounds -> RoundKinds]
        /\ delivered' \in BOOLEAN /\ clock' \in 0..(Minute - 1) /\ unsaved' \in BOOLEAN
    BY <1>11, TickEffect
  <2>2. UNCHANGED <<linkVars, stale, straggler, inFleet, wants, history>>
    BY <1>11, TickEffect
  <2> QED
    BY <2>1, <2>2 DEF linkVars, history
<1>12. CASE Restart
  <2>1. line' \in Lines /\ owed' \in BOOLEAN /\ connected' \in BOOLEAN
    BY <1>12 DEF Restart, Forgets, Lines
  <2>2. /\ car' \in Cars /\ evidence' \in Evidences /\ origin' \in OriginKinds
        /\ pending' \in Timers /\ missed' \in BOOLEAN /\ stale' \in BOOLEAN
        /\ rounds' \in [Rounds -> RoundKinds] /\ delivered' \in BOOLEAN
        /\ straggler' \in BOOLEAN /\ unsaved' \in BOOLEAN
    BY <1>12, RestartEffect, EmptyEvidence, EmptyOrigin, EmptyTimer
  <2>3. UNCHANGED <<disk, world>>
    BY <1>12, RestartEffect
  <2> QED
    BY <2>1, <2>2, <2>3 DEF world
<1>13. ASSUME NEW p \in Undecided, PreferenceChanges(p) PROVE TypeOK'
  <2>1. wants' \subseteq Phones
    BY <1>13, SomePhones DEF PreferenceChanges
  <2>2. UNCHANGED <<linkVars, store, evidence, timer, straggler, rounds, inFleet, clock,
                    history>>
    BY <1>13 DEF PreferenceChanges
  <2> QED
    BY <2>1, <2>2 DEF linkVars, store, file, timer, history
<1> QED
  BY <1>0, <1>1, <1>2, <1>3, <1>4, <1>5, <1>6, <1>7, <1>8, <1>9, <1>10, <1>11,
     <1>12, <1>13 DEF Next

(* Every age stays within the limit the code compares it with, whatever    *)
(* messages arrive, connections are lost or files are restored             *)
(* (lock_secure_evidence.go:5-7, lock_secure_notification.go:399).         *)
THEOREM TypeCorrect == Spec => []TypeOK
BY InitTypeOK, TypeStep, PTL DEF Spec

-----------------------------------------------------------------------------
LEMMA NothingAnswerable ==
  ASSUME evidence' = NoEvidence
  PROVE  ~Answerable'
BY EmptyEvidence DEF Answerable

(* The settling timer never runs ahead of the evidence it settles, so a    *)
(* callback finds its settling time over.                                  *)
Settling ==
  /\ pending.age <= evidence.stable
  /\ pending.is = "fired" => pending.age = Settle

LEMMA SettlingStep == TypeOK /\ Settling /\ [Next]_vars => Settling'
<1> SUFFICES ASSUME TypeOK, Settling, [Next]_vars PROVE Settling'
  OBVIOUS
<1>a. /\ evidence \in Evidences /\ pending \in Timers
      /\ evidence.stable \in 0..Settle /\ pending.age \in 0..Settle
  BY Typed DEF Evidences, Timers
<1>b. ASSUME UNCHANGED <<evidence, pending>> PROVE Settling'
  BY <1>b DEF Settling
<1>c. ASSUME pending' = NoTimer, evidence' \in Evidences PROVE Settling'
  <2>1. evidence'.stable \in 0..Settle
    BY <1>c DEF Evidences
  <2> QED
    BY <1>c, <2>1, EmptyTimer, Times DEF Settling
<1>d. ASSUME pending' = NoTimer, evidence' = NoEvidence PROVE Settling'
  BY <1>c, <1>d, EmptyEvidence
<1>0. CASE UNCHANGED vars
  BY <1>0, <1>b DEF vars, timer
<1>1. CASE TimerFires
  <2>1. pending.age = Settle /\ pending' = [pending EXCEPT !.is = "fired"]
        /\ UNCHANGED evidence
    BY <1>1 DEF TimerFires
  <2>2. pending'.age = Settle
    BY <1>a, <2>1 DEF Timers
  <2> QED
    BY <2>1, <2>2 DEF Settling
<1>2. CASE StaleCallback
  BY <1>2, <1>b DEF StaleCallback
<1>3. ASSUME NEW m \in Readings, Observe(m) PROVE Settling'
  <2>1. /\ evidence' \in Evidences
        /\ evidence'.stable = IF m.retained \/ ~Restarts(m) THEN evidence.stable ELSE 0
    BY <1>3, <1>a, NotedType DEF Observe
  <2>2. CASE pending' = NoTimer
    BY <1>c, <2>1, <2>2
  <2>3. CASE pending' = [is |-> "running", age |-> 0]
    <3>1. evidence'.stable \in 0..Settle
      BY <2>1 DEF Evidences
    <3> QED
      BY <2>3, <3>1, Times DEF Settling
  <2>4. CASE pending' = pending /\ ~Restarts(m)
    BY <2>1, <2>4 DEF Settling
  <2> QED
    BY <1>3, <2>2, <2>3, <2>4, TimerOfMessage
<1>4. CASE FinishPending
  <2>1. pending' = NoTimer
    BY <1>4, PendingEnds
  <2>2. evidence' \in Evidences
    BY <1>a, <1>4, PendingEnds, ConsumedType DEF Unanswered, Answered, NotAnswered
  <2> QED
    BY <1>c, <2>1, <2>2
<1>5. ASSUME NEW r \in Rounds, Check(r) PROVE Settling'
  BY <1>5, <1>b DEF Check, timer
<1>6. ASSUME NEW r \in Rounds, NEW sent \in BOOLEAN, Delivers(r, sent) PROVE Settling'
  BY <1>6, <1>b DEF Delivers, timer
<1>7. CASE LinkHandler
  BY <1>7, <1>d, ResetType DEF LinkHandler
<1>8. CASE LinkStep
  BY <1>8, <1>b DEF LinkStep, timer
<1>9. CASE FleetChanges
  BY <1>9, <1>b DEF FleetChanges, timer
<1>10. CASE ReconcileFleet
  BY <1>10, <1>d, ReconcileType
<1>11. CASE Tick
  <2>1. /\ evidence'.stable = IF evidence.stable = Settle THEN Settle
                              ELSE evidence.stable + 1
        /\ pending'.is = pending.is
        /\ pending'.age = IF pending.is = "running" /\ pending.age < Settle
                          THEN pending.age + 1 ELSE pending.age
    BY <1>11, TickEffect
  <2> QED
    BY <1>a, <2>1, Times DEF Settling
<1>12. CASE Restart
  BY <1>12, <1>d, RestartEffect
<1>13. ASSUME NEW p \in Undecided, PreferenceChanges(p) PROVE Settling'
  BY <1>13, <1>b DEF PreferenceChanges, timer
<1> QED
  BY <1>0, <1>1, <1>2, <1>3, <1>4, <1>5, <1>6, <1>7, <1>8, <1>9, <1>10, <1>11,
     <1>12, <1>13 DEF Next

LEMMA SettlingInit == Init => Settling
BY EmptyTimer, EmptyEvidence, Times DEF Init, Settling

LEMMA WatchedStep ==
  TypeOK /\ Settling /\ EpisodesAreWatched /\ [Next]_vars => EpisodesAreWatched'
<1> SUFFICES ASSUME TypeOK, Settling, EpisodesAreWatched, [Next]_vars
             PROVE  EpisodesAreWatched'
  OBVIOUS
<1>a. /\ evidence \in Evidences /\ pending \in Timers /\ car \in Cars
      /\ evidence.stable \in 0..Settle /\ pending.age \in 0..Settle
  BY Typed DEF Evidences, Timers
<1>b. ASSUME UNCHANGED <<evidence, car, pending, missed>> PROVE EpisodesAreWatched'
  BY <1>b DEF EpisodesAreWatched, Answerable, Healthy
<1>c. ASSUME evidence' = NoEvidence PROVE EpisodesAreWatched'
  BY <1>c, NothingAnswerable DEF EpisodesAreWatched
<1>0. CASE UNCHANGED vars
  BY <1>0, <1>b DEF vars, timer, store, history
<1>1. CASE TimerFires
  <2>1. pending'.is = "fired"
    BY <1>1, <1>a DEF TimerFires, Timers
  <2> QED
    BY <2>1, EmptyTimer DEF EpisodesAreWatched
<1>2. CASE StaleCallback
  BY <1>2, <1>b DEF StaleCallback, store, history
<1>3. ASSUME NEW m \in Readings, Observe(m) PROVE EpisodesAreWatched'
  BY <1>3, TimerOfMessage DEF EpisodesAreWatched, Answerable
<1>4. CASE FinishPending
  <2>1. evidence.stable = Settle
    BY <1>4, <1>a, PendingEnds DEF Settling
  <2>2. CASE Unanswered
    <3>1. Answerable' <=> Answerable
      BY <2>2 DEF Unanswered, store, Answerable, Healthy
    <3>2. connected /\ wants # {} => ~Answerable
      BY <2>1, <2>2 DEF Unanswered, Ready
    <3>3. Answerable => missed'
      BY <2>2, <3>2 DEF Unanswered, Answerable
    <3> QED
      BY <3>1, <3>3 DEF EpisodesAreWatched
  <2>3. ASSUME evidence' = Consumed PROVE EpisodesAreWatched'
    BY <1>a, <2>3, ConsumedType DEF EpisodesAreWatched, Answerable
  <2> QED
    BY <1>4, <2>2, <2>3, PendingEnds DEF Answered, NotAnswered
<1>5. ASSUME NEW r \in Rounds, Check(r) PROVE EpisodesAreWatched'
  BY <1>5, <1>b DEF Check, timer, store, history
<1>6. ASSUME NEW r \in Rounds, NEW sent \in BOOLEAN, Delivers(r, sent)
      PROVE  EpisodesAreWatched'
  BY <1>6, <1>b, DeliversEnds DEF timer, history
<1>7. CASE LinkHandler
  BY <1>7, <1>c, ResetType DEF LinkHandler
<1>8. CASE LinkStep
  BY <1>8, <1>b DEF LinkStep, timer, store
<1>9. CASE FleetChanges
  BY <1>9, <1>b DEF FleetChanges, timer, store, history
<1>10. CASE ReconcileFleet
  BY <1>10, <1>c, ReconcileType
<1>11. CASE Tick
  <2>1. car' = [car EXCEPT !.pushed = Older(@, Cooldown - 1)]
        /\ car'.pushed = Older(car.pushed, Cooldown - 1)
        /\ evidence'.presence = evidence.presence
        /\ evidence'.healthy = Older(evidence.healthy, HeartbeatLifetime)
        /\ evidence'.lock = Older(evidence.lock, EpisodeLifetime)
        /\ pending'.is = pending.is /\ pending' \in Timers
    BY <1>11, TickEffect
  <2>2. UNCHANGED missed
    BY <1>11 DEF Tick, history
  <2>3. Secure(car') <=> Secure(car)
    <3>1. Older(car.pushed, Cooldown - 1) \in Ages(Cooldown - 1)
      BY <1>a, OlderType, PushedAges DEF Cars
    <3> QED
      BY <1>a, <2>1, <3>1, PushedCar
  <2>4. Answerable' => Answerable
    BY <2>1, <2>3 DEF Answerable, Healthy, Older
  <2>5. pending # NoTimer => pending' # NoTimer
    <3>1. CASE pending.is = "none"
      <4>1. pending' = pending
        BY <1>11, <3>1 DEF Tick
      <4> QED
        BY <4>1
    <3>2. CASE pending.is # "none"
      BY <2>1, <3>2, EmptyTimer
    <3> QED
      BY <3>1, <3>2
  <2> QED
    BY <2>2, <2>4, <2>5 DEF EpisodesAreWatched
<1>12. CASE Restart
  BY <1>12, <1>c, RestartEffect
<1>13. ASSUME NEW p \in Undecided, PreferenceChanges(p) PROVE EpisodesAreWatched'
  BY <1>13, <1>b DEF PreferenceChanges, timer, store, history
<1> QED
  BY <1>0, <1>1, <1>2, <1>3, <1>4, <1>5, <1>6, <1>7, <1>8, <1>9, <1>10, <1>11,
     <1>12, <1>13 DEF Next

LEMMA WatchedInit == Init => EpisodesAreWatched
BY EmptyEvidence DEF Init, EpisodesAreWatched, Answerable

(* A lock that could be answered has its timer, or had it end while the    *)
(* monitor was not connected or nobody wanted the push: a callback finds   *)
(* its settling time over, so it never drops a lock for settling only      *)
(* (lock_secure_notification.go:362-376, 390).                             *)
THEOREM EpisodesWatched == Spec => []EpisodesAreWatched
<1>1. Init => TypeOK /\ Settling /\ EpisodesAreWatched
  BY InitTypeOK, SettlingInit, WatchedInit
<1>2. TypeOK /\ Settling /\ EpisodesAreWatched /\ [Next]_vars
        => (TypeOK /\ Settling /\ EpisodesAreWatched)'
  BY TypeStep, SettlingStep, WatchedStep
<1> QED
  BY <1>1, <1>2, PTL DEF Spec

-----------------------------------------------------------------------------
(* What the connection is to the evidence.  Linked is about the former     *)
(* alone; Fresh says when evidence of an earlier connection is gone.       *)
Linked ==
  /\ line.subscribed => line.up
  /\ connected /\ ~owed => line.subscribed

Fresh ==
  line.up /\ ~owed => /\ origin.presence # "earlier" /\ origin.healthy # "earlier"
                      /\ origin.lock # "earlier"

Sourced ==
  /\ evidence.presence => origin.presence # "none"
  /\ evidence.healthy # NoAge => origin.healthy # "none"
  /\ evidence.lock # NoAge => origin.lock # "none"

Mixed ==
  /\ origin.presence # "none" /\ origin.lock # "none"
  /\ origin.presence # origin.lock

(* A presence and a lock of two connections never settle.  Time stands     *)
(* still while a handler is owed; the handler forgets both.                *)
Unsettled == Mixed /\ owed => evidence.stable < Settle

OriginInv == Linked /\ Fresh /\ Sourced /\ Unsettled

LEMMA OriginInit == Init => OriginInv
<1> SUFFICES ASSUME Init PROVE OriginInv
  OBVIOUS
<1>1. ~line.up /\ ~line.subscribed /\ ~owed /\ ~connected
  BY DEF Init, LinkInit
<1>2. evidence = NoEvidence /\ origin = NoOrigin
  BY DEF Init
<1> QED
  BY <1>1, <1>2, EmptyEvidence, EmptyOrigin
     DEF OriginInv, Linked, Fresh, Sourced, Unsettled, Mixed

LEMMA ForgottenOrigin ==
  ASSUME evidence' = NoEvidence, origin' = NoOrigin
  PROVE  Fresh' /\ Sourced' /\ Unsettled'
BY EmptyEvidence, EmptyOrigin DEF Fresh, Sourced, Unsettled, Mixed

LEMMA ObserveOrigin ==
  ASSUME TypeOK, OriginInv, NEW m \in Readings, Observe(m)
  PROVE  OriginInv'
<1>1. evidence \in Evidences /\ origin \in OriginKinds /\ evidence.stable \in 0..Settle
  BY Typed DEF Evidences
<1>2. UNCHANGED <<line, owed, connected>>
  BY DEF Observe, linkVars
<1>3. /\ origin'.presence = IF ~evidence'.presence THEN "none"
                            ELSE IF m.field = "is_user_present" THEN "present"
                            ELSE origin.presence
      /\ origin'.healthy = IF evidence'.healthy = NoAge THEN "none"
                           ELSE IF m.field = "healthy" THEN "present"
                           ELSE origin.healthy
      /\ origin'.lock = IF evidence'.lock = NoAge THEN "none"
                        ELSE IF Locks(car.locked, m.field, m.value) THEN "present"
                        ELSE origin.lock
  BY DEF Observe, Traced
<1>4. /\ evidence'.presence =>
           \/ m.field = "is_user_present" /\ ~m.retained
           \/ m.field # "is_user_present" /\ evidence.presence
      /\ evidence'.healthy # NoAge => m.field = "healthy" \/ evidence.healthy # NoAge
      /\ evidence'.lock # NoAge =>
           /\ ~m.retained
           /\ Locks(car.locked, m.field, m.value) \/ evidence.lock # NoAge
      /\ evidence'.stable = IF m.retained \/ ~Restarts(m) THEN evidence.stable ELSE 0
  BY <1>1, NotedType DEF Observe
<1>5. Linked'
  BY <1>2 DEF OriginInv, Linked
<1>6. Fresh'
  BY <1>2, <1>3 DEF OriginInv, Fresh
<1>7. Sourced'
  BY <1>3, <1>4 DEF OriginInv, Sourced
<1>8. Unsettled'
  <2> SUFFICES ASSUME Mixed', owed' PROVE evidence'.stable < Settle
    BY DEF Unsettled
  <2>1. evidence'.lock # NoAge /\ evidence'.presence
    BY <1>3 DEF Mixed
  <2>2. ~m.retained
    BY <1>4, <2>1
  <2>3. CASE Restarts(m)
    BY <1>4, <2>2, <2>3, Times
  <2>4. CASE ~Restarts(m)
    <3>1. m.field # "is_user_present" /\ ~Locks(car.locked, m.field, m.value)
      BY <2>4 DEF Restarts, Locks
    <3>2. origin'.presence = origin.presence /\ origin'.lock = origin.lock
      BY <1>3, <2>1, <3>1
    <3>3. evidence.stable < Settle
      BY <1>2, <3>2 DEF OriginInv, Unsettled, Mixed
    <3> QED
      BY <1>4, <2>2, <2>4, <3>3
  <2> QED
    BY <2>3, <2>4
<1> QED
  BY <1>5, <1>6, <1>7, <1>8 DEF OriginInv

LEMMA LinkOrigin ==
  ASSUME TypeOK, OriginInv, LinkStep
  PROVE  OriginInv'
<1>1. /\ line \in Lines /\ origin \in OriginKinds
      /\ owed \in BOOLEAN /\ connected \in BOOLEAN
  BY Typed
<1>2. UNCHANGED evidence
  BY LinkStepEffect
<1>3. CASE Opens /\ origin' = [presence |-> OfBefore(origin.presence),
                               healthy |-> OfBefore(origin.healthy),
                               lock |-> OfBefore(origin.lock)]
  <2>1. /\ origin'.presence = OfBefore(origin.presence)
        /\ origin'.healthy = OfBefore(origin.healthy)
        /\ origin'.lock = OfBefore(origin.lock)
    BY <1>3
  <2>2. owed' /\ ~line'.subscribed
    BY <1>3 DEF Opens
  <2>3. Linked' /\ Fresh'
    BY <2>2 DEF Linked, Fresh
  <2>4. Sourced'
    BY <1>2, <2>1 DEF OriginInv, Sourced, OfBefore
  <2>5. ~Mixed'
    BY <2>1 DEF Mixed, OfBefore
  <2> QED
    BY <2>3, <2>4, <2>5 DEF OriginInv, Unsettled
<1>4. CASE Breaks /\ UNCHANGED origin
  <2>1. owed' /\ ~line'.subscribed /\ line.up
    BY <1>4 DEF Breaks
  <2>2. Linked' /\ Fresh' /\ Sourced'
    BY <1>2, <1>4, <2>1 DEF OriginInv, Linked, Fresh, Sourced
  <2>3. ~owed => ~Mixed
    BY <1>1, <2>1 DEF OriginInv, Fresh, Mixed, OriginKinds, Origins
  <2>4. Unsettled'
    BY <1>1, <1>2, <1>4, <2>3 DEF OriginInv, Unsettled, Mixed
  <2> QED
    BY <2>2, <2>4 DEF OriginInv
<1>5. CASE Subscribes /\ UNCHANGED origin
  <2>1. line.up /\ line'.up = line.up /\ line'.subscribed = TRUE
        /\ UNCHANGED <<owed, connected>>
    BY <1>1, <1>5 DEF Subscribes, Lines
  <2> QED
    BY <1>2, <1>5, <2>1 DEF OriginInv, Linked, Fresh, Sourced, Unsettled, Mixed
<1>6. CASE Skips /\ UNCHANGED origin
  <2>1. owed /\ ~line.up /\ (~owed' => ~connected) /\ UNCHANGED <<line, connected>>
    BY <1>6 DEF Skips
  <2> QED
    BY <1>2, <1>6, <2>1 DEF OriginInv, Linked, Fresh, Sourced, Unsettled, Mixed
<1>7. CASE Confirms /\ UNCHANGED origin
  <2>1. (owed \/ line.subscribed) /\ UNCHANGED <<line, owed>>
    BY <1>7 DEF Confirms
  <2> QED
    BY <1>2, <1>7, <2>1 DEF OriginInv, Linked, Fresh, Sourced, Unsettled, Mixed
<1>8. CASE Denies /\ UNCHANGED origin
  <2>1. connected' = FALSE /\ UNCHANGED <<line, owed>>
    BY <1>8 DEF Denies
  <2> QED
    BY <1>2, <1>8, <2>1 DEF OriginInv, Linked, Fresh, Sourced, Unsettled, Mixed
<1> QED
  BY <1>3, <1>4, <1>5, <1>6, <1>7, <1>8, LinkStepEffect

LEMMA OriginStep == TypeOK /\ OriginInv /\ [Next]_vars => OriginInv'
<1> SUFFICES ASSUME TypeOK, OriginInv, [Next]_vars PROVE OriginInv'
  OBVIOUS
<1>a. evidence \in Evidences /\ origin \in OriginKinds
  BY Typed
<1>b. ASSUME UNCHANGED <<linkVars, evidence, origin>> PROVE OriginInv'
  BY <1>b DEF linkVars, OriginInv, Linked, Fresh, Sourced, Unsettled, Mixed
<1>0. CASE UNCHANGED vars
  BY <1>0, <1>b DEF vars, history
<1>1. CASE TimerFires \/ StaleCallback \/ FleetChanges
  BY <1>1, <1>b DEF TimerFires, StaleCallback, FleetChanges, history
<1>3. ASSUME NEW m \in Readings, Observe(m) PROVE OriginInv'
  BY <1>3, ObserveOrigin
<1>4. CASE FinishPending
  <2>1. UNCHANGED linkVars
    BY <1>4, PendingEnds
  <2>2. CASE Unanswered
    BY <1>b, <2>1, <2>2 DEF Unanswered
  <2>3. ASSUME evidence' = Consumed, origin' = [origin EXCEPT !.lock = "none"]
        PROVE  OriginInv'
    BY <1>a, <2>1, <2>3, ConsumedType, OriginCut
       DEF linkVars, OriginInv, Linked, Fresh, Sourced, Unsettled, Mixed
  <2> QED
    BY <1>4, <2>2, <2>3, PendingEnds DEF Answered, NotAnswered
<1>5. ASSUME NEW r \in Rounds, Check(r) PROVE OriginInv'
  BY <1>5, <1>b DEF Check, history
<1>6. ASSUME NEW r \in Rounds, NEW sent \in BOOLEAN, Delivers(r, sent) PROVE OriginInv'
  BY <1>6, <1>b DEF Delivers, history
<1>7. CASE LinkHandler
  <2>1. evidence' = NoEvidence /\ origin' = NoOrigin
    BY <1>7, ResetType DEF LinkHandler
  <2>2. (connected' /\ ~owed' => line.subscribed) /\ UNCHANGED line
    BY <1>7 DEF LinkHandler, StartsOver
  <2>3. Linked'
    BY <2>2 DEF OriginInv, Linked
  <2> QED
    BY <2>1, <2>3, ForgottenOrigin DEF OriginInv
<1>8. CASE LinkStep
  BY <1>8, LinkOrigin
<1>10. CASE ReconcileFleet
  <2>1. evidence' = NoEvidence /\ origin' = NoOrigin /\ UNCHANGED linkVars
    BY <1>10, ReconcileType
  <2>2. Linked'
    BY <2>1 DEF linkVars, OriginInv, Linked
  <2> QED
    BY <2>1, <2>2, ForgottenOrigin DEF OriginInv
<1>11. CASE Tick
  <2>1. /\ ~owed /\ UNCHANGED <<linkVars, history>>
        /\ evidence'.presence = evidence.presence
        /\ evidence'.healthy = Older(evidence.healthy, HeartbeatLifetime)
        /\ evidence'.lock = Older(evidence.lock, EpisodeLifetime)
    BY <1>11, TickEffect
  <2> QED
    BY <2>1 DEF linkVars, history, Older, OriginInv, Linked, Fresh, Sourced, Unsettled, Mixed
<1>12. CASE Restart
  <2>1. evidence' = NoEvidence /\ origin' = NoOrigin
    BY <1>12, RestartEffect
  <2>2. ~line'.subscribed /\ ~connected'
    BY <1>12 DEF Restart, Forgets
  <2>3. Linked'
    BY <2>2 DEF Linked
  <2> QED
    BY <2>1, <2>3, ForgottenOrigin DEF OriginInv
<1>13. ASSUME NEW p \in Undecided, PreferenceChanges(p) PROVE OriginInv'
  BY <1>13, <1>b DEF PreferenceChanges, history
<1> QED
  BY <1>0, <1>1, <1>3, <1>4, <1>5, <1>6, <1>7, <1>8, <1>10, <1>11, <1>12, <1>13 DEF Next

LEMMA OriginHolds == Spec => [](TypeOK /\ OriginInv)
BY InitTypeOK, OriginInit, TypeStep, OriginStep, PTL DEF Spec

LEMMA PresentOrigin ==
  ASSUME TypeOK, OriginInv, connected, ~owed
  PROVE  /\ line.subscribed
         /\ evidence.presence => origin.presence = "present"
         /\ evidence.healthy # NoAge => origin.healthy = "present"
         /\ evidence.lock # NoAge => origin.lock = "present"
<1>1. line.subscribed /\ line.up
  BY DEF OriginInv, Linked
<1>2. origin \in OriginKinds
  BY Typed
<1> QED
  BY <1>1, <1>2 DEF OriginInv, Fresh, Sourced, OriginKinds, Origins

(* The overlay never shows the presence of an earlier connection as the    *)
(* current one once the handlers of a reconnect have run                   *)
(* (lock_secure_evidence.go:30).                                           *)
THEOREM PresenceCurrent == Spec => []PresenceIsCurrent
<1>1. TypeOK /\ OriginInv => PresenceIsCurrent
  BY PresentOrigin DEF PresenceIsCurrent, PresenceShown, Healthy
<1> QED
  BY <1>1, OriginHolds, PTL

LEMMA SameRound ==
  ASSUME NEW x \in RoundKinds,
         x.is = NoRound.is, x.left = NoRound.left, x.phone = NoRound.phone,
         x.same = NoRound.same, x.ofMinute = NoRound.ofMinute, x.all = NoRound.all
  PROVE  x = NoRound
<1>1. x = [is |-> x.is, left |-> x.left, phone |-> x.phone,
           same |-> x.same, ofMinute |-> x.ofMinute, all |-> x.all]
  BY DEF RoundKinds
<1>2. x = [is |-> "none", left |-> {}, phone |-> "", same |-> FALSE,
           ofMinute |-> FALSE, all |-> FALSE]
  BY <1>1 DEF NoRound
<1> QED
  BY <1>2 DEF NoRound

LEMMA NoRoundKept ==
  /\ [NoRound EXCEPT !.same = FALSE] = NoRound
  /\ \A b \in BOOLEAN : [NoRound EXCEPT !.ofMinute = @ /\ b] = NoRound
<1>1. NoRound \in RoundKinds /\ NoRound.same = FALSE /\ NoRound.ofMinute = FALSE
  BY EmptyRound DEF NoRound
<1>2. ASSUME NEW x \in RoundKinds, x.same = FALSE
      PROVE  LET y == [x EXCEPT !.same = FALSE] IN
             /\ y \in RoundKinds
             /\ y.is = x.is /\ y.left = x.left /\ y.phone = x.phone
             /\ y.same = x.same /\ y.ofMinute = x.ofMinute /\ y.all = x.all
  BY <1>2 DEF RoundKinds
<1>3. ASSUME NEW x \in RoundKinds, x.ofMinute = FALSE, NEW b \in BOOLEAN
      PROVE  LET y == [x EXCEPT !.ofMinute = @ /\ b] IN
             /\ y \in RoundKinds
             /\ y.is = x.is /\ y.left = x.left /\ y.phone = x.phone
             /\ y.same = x.same /\ y.ofMinute = x.ofMinute /\ y.all = x.all
  BY <1>3 DEF RoundKinds
<1>4. [NoRound EXCEPT !.same = FALSE] = NoRound
  BY <1>1, <1>2, SameRound
<1>5. \A b \in BOOLEAN : [NoRound EXCEPT !.ofMinute = @ /\ b] = NoRound
  BY <1>1, <1>3, SameRound
<1> QED
  BY <1>4, <1>5

(* Only finishPending begins a round. *)
LEMMA BeginsRound ==
  ASSUME TypeOK, Next, NEW r \in Rounds, rounds[r] = NoRound, rounds'[r] # NoRound
  PROVE  connected /\ Ready
<1>1. rounds \in [Rounds -> RoundKinds]
  BY Typed
<1>a. rounds' # rounds
  OBVIOUS
<1>b. ASSUME rounds'[r] = [rounds[r] EXCEPT !.same = FALSE] PROVE FALSE
  <2>1. [NoRound EXCEPT !.same = FALSE] = NoRound
    BY NoRoundKept
  <2> QED
    BY <1>b, <2>1
<1>2. CASE TimerFires \/ StaleCallback \/ FleetChanges \/ LinkStep
  BY <1>2, <1>a DEF TimerFires, StaleCallback, FleetChanges, LinkStep
<1>3. ASSUME NEW m \in Readings, Observe(m) PROVE FALSE
  <2>1. rounds' = [q \in Rounds |-> [rounds[q] EXCEPT !.same = FALSE]]
    BY <1>3, <1>a DEF Observe
  <2> QED
    BY <1>b, <2>1
<1>4. CASE FinishPending
  BY <1>4, <1>a, PendingEnds DEF Unanswered, Answered, NotAnswered
<1>5. ASSUME NEW q \in Rounds, Check(q) PROVE FALSE
  <2>1. CASE q = r
    BY <1>5, <2>1, EmptyRound, CheckEnds
  <2>2. CASE q # r
    BY <1>5, <2>2, CheckEnds
  <2> QED
    BY <2>1, <2>2
<1>6. ASSUME NEW q \in Rounds, NEW sent \in BOOLEAN, Delivers(q, sent) PROVE FALSE
  <2>1. CASE q = r
    BY <1>6, <2>1, EmptyRound, DeliversEnds
  <2>2. CASE q # r
    BY <1>6, <2>2, DeliversEnds
  <2> QED
    BY <2>1, <2>2
<1>7. CASE LinkHandler
  BY <1>7, <1>b, ResetType DEF LinkHandler
<1>8. CASE ReconcileFleet
  BY <1>8, <1>b, ReconcileType
<1>9. CASE Tick
  <2>1. rounds'[r] = [rounds[r] EXCEPT !.ofMinute = @ /\ ~(clock + 1 = Minute)]
    BY <1>9 DEF Tick
  <2>2. \A b \in BOOLEAN : [NoRound EXCEPT !.ofMinute = @ /\ b] = NoRound
    BY NoRoundKept
  <2> QED
    BY <2>1, <2>2
<1>10. CASE Restart
  BY <1>10 DEF Restart
<1>11. ASSUME NEW p \in Undecided, PreferenceChanges(p) PROVE FALSE
  BY <1>11, <1>a DEF PreferenceChanges
<1> QED
  BY <1>2, <1>3, <1>4, <1>5, <1>6, <1>7, <1>8, <1>9, <1>10, <1>11 DEF Next

(* A round begins only on a presence and a lock of one and the same side   *)
(* of a reconnect, however late its handlers or the timer's callback run   *)
(* (lock_secure_evidence.go:110, lock_secure_notification.go:390).         *)
THEOREM RoundsOneLink == Spec => RoundsRestOnOneLink
<1> DEFINE Rests ==
      \A r \in Rounds :
        rounds[r] = NoRound /\ rounds'[r] # NoRound =>
          /\ origin.lock # "none" /\ origin.presence = origin.lock
          /\ origin.healthy = origin.lock \/ owed
<1>1. TypeOK /\ OriginInv /\ [Next]_vars => [Rests]_vars
  <2> SUFFICES ASSUME TypeOK, OriginInv, Next,
                      NEW r \in Rounds, rounds[r] = NoRound, rounds'[r] # NoRound
               PROVE  /\ origin.lock # "none" /\ origin.presence = origin.lock
                      /\ origin.healthy = origin.lock \/ owed
    OBVIOUS
  <2>1. connected /\ Ready
    BY BeginsRound
  <2>2. /\ evidence.presence /\ evidence.healthy # NoAge /\ evidence.lock # NoAge
        /\ evidence.stable = Settle
    BY <2>1 DEF Ready, Answerable, Healthy
  <2>3. CASE ~owed
    BY <2>1, <2>2, <2>3, PresentOrigin
  <2>4. CASE owed
    <3>1. ~Mixed
      BY <2>2, <2>4, Times DEF OriginInv, Unsettled
    <3> QED
      BY <2>2, <2>4, <3>1 DEF OriginInv, Sourced, Mixed
  <2> QED
    BY <2>3, <2>4
<1> QED
  BY <1>1, OriginHolds, PTL DEF Spec, RoundsRestOnOneLink

-----------------------------------------------------------------------------
(* Each step is one of LockEpisodes', or none. *)
StateOf(x) ==
  IF x.is = "none" THEN "none"
  ELSE IF x.same THEN "current"
  ELSE IF x.is = "posting" THEN "about to tell" ELSE "over"

Open == evidence.lock # NoAge
RestNow == Rest(car.pushed)
RestSaved == Rest(disk.pushed)
RoundNow == [r \in Rounds |-> StateOf(rounds[r])]

(* What a step does to the file, seen from outside *)
SavedKept == UNCHANGED <<RestSaved, unsaved>>
SavedNow == RestSaved' = RestNow' /\ unsaved' = FALSE
NotSaved == RestSaved' = RestSaved /\ unsaved' = TRUE

(* A round is forgotten by the file only if its save has failed. *)
Remembers == unsaved \/ RestSaved <= RestNow

LEMMA StateNow ==
  /\ [r \in Rounds |-> RoundState(r)] = RoundNow
  /\ [r \in Rounds |-> RoundState(r)]' = RoundNow'
BY DEF RoundNow, RoundState, StateOf

LEMMA StateCases ==
  ASSUME NEW x \in RoundKinds
  PROVE  /\ StateOf(x) \in Promise!RoundStates
         /\ x.is = "none" => StateOf(x) = "none"
         /\ x.is # "none" /\ x.same => StateOf(x) = "current"
         /\ x.is = "posting" /\ ~x.same => StateOf(x) = "about to tell"
         /\ x.is \in {"called", "checking"} /\ ~x.same => StateOf(x) = "over"
BY DEF StateOf, RoundKinds, Promise!RoundStates

LEMMA StateLeft ==
  ASSUME NEW x \in RoundKinds
  PROVE  StateOf([x EXCEPT !.same = FALSE]) \in Promise!Aged(StateOf(x))
<1> DEFINE y == [x EXCEPT !.same = FALSE]
<1>1. y \in RoundKinds /\ y.is = x.is /\ y.same = FALSE
  BY DEF RoundKinds
<1> HIDE DEF y
<1>2. x.is \in {"none", "called", "checking", "posting"} /\ x.same \in BOOLEAN
  BY DEF RoundKinds
<1>3. CASE x.is = "none"
  <2>1. StateOf(y) = "none" /\ StateOf(x) = "none"
    BY <1>1, <1>3, StateCases
  <2> QED
    BY <2>1 DEF Promise!Aged, y
<1>4. CASE x.is = "posting"
  <2>1. StateOf(y) = "about to tell"
    BY <1>1, <1>4, StateCases
  <2>2. StateOf(x) = "current" \/ StateOf(x) = "about to tell"
    BY <1>2, <1>4, StateCases
  <2> QED
    BY <2>1, <2>2 DEF Promise!Aged, y
<1>5. CASE x.is \in {"called", "checking"}
  <2>1. StateOf(y) = "over"
    BY <1>1, <1>5, StateCases
  <2>2. StateOf(x) = "current" \/ StateOf(x) = "over"
    BY <1>2, <1>5, StateCases
  <2> QED
    BY <2>1, <2>2 DEF Promise!Aged, y
<1> QED
  BY <1>2, <1>3, <1>4, <1>5 DEF y

(* The readings of a round's car go on, or the monitor starts over. *)
LEMMA RoundsAge ==
  ASSUME TypeOK, rounds' \in [Rounds -> RoundKinds],
         \A r \in Rounds : rounds'[r] = [rounds[r] EXCEPT !.same = FALSE]
  PROVE  /\ RoundNow' \in [Rounds -> Promise!RoundStates]
         /\ \A r \in Rounds : RoundNow'[r] \in Promise!Aged(RoundNow[r])
<1>1. rounds \in [Rounds -> RoundKinds]
  BY Typed
<1>2. \A r \in Rounds : /\ StateOf(rounds'[r]) \in Promise!RoundStates
                        /\ StateOf(rounds'[r]) \in Promise!Aged(StateOf(rounds[r]))
  BY <1>1, StateCases, StateLeft
<1> QED
  BY <1>2 DEF RoundNow

(* One round changes and the others do not. *)
LEMMA RoundMoves ==
  ASSUME NEW r \in Rounds, \A q \in Rounds : q # r => rounds'[q] = rounds[q]
  PROVE  RoundNow' = [RoundNow EXCEPT ![r] = StateOf(rounds'[r])]
BY DEF RoundNow

LEMMA RoundsSame ==
  ASSUME \A r \in Rounds : StateOf(rounds'[r]) = StateOf(rounds[r])
  PROVE  RoundNow' = RoundNow
BY DEF RoundNow

LEMMA RestType ==
  ASSUME NEW age \in Ages(Cooldown - 1)
  PROVE  /\ Rest(age) = Cooldown <=> age = NoAge
         /\ Rest(Older(age, Cooldown - 1)) = Promise!Passes(Rest(age))
BY Times DEF Rest, Ages, NoAge, Older, Promise!Passes

LEMMA RestZero == Rest(0) = 0
BY DEF Rest, NoAge

LEMMA SeenAs ==
  ASSUME Promise!PromiseNext \/ UNCHANGED <<Open, RestNow, RestSaved, unsaved, RoundNow>>
  PROVE  [Promise!PromiseNext]_(Promise!promise)
BY StateNow DEF Promise!promise, Open, RestNow, RestSaved

(* The actions of LockEpisodes in these names *)
LEMMA ReportsSeen ==
  ASSUME \/ UNCHANGED RoundNow
         \/ /\ RoundNow' \in [Rounds -> Promise!RoundStates]
            /\ \A r \in Rounds : RoundNow'[r] \in Promise!Aged(RoundNow[r]),
         UNCHANGED RestNow, SavedNow \/ SavedKept
  PROVE  Promise!PromiseNext
<1>1. Promise!Reports
  BY StateNow DEF Promise!Reports, Promise!MayWrite, Promise!Written, SavedNow, SavedKept, Open, RestNow,
              RestSaved
<1> QED
  BY <1>1 DEF Promise!PromiseNext

LEMMA BeginsSeen ==
  ASSUME NEW r \in Rounds, Open, ~Open', RestNow = Cooldown, RestNow' = 0, SavedNow \/ NotSaved,
         RoundNow[r] = "none", RoundNow' = [RoundNow EXCEPT ![r] = "current"]
  PROVE  Promise!PromiseNext
<1>1. Promise!Begins(r)
  BY StateNow DEF Promise!Begins, Promise!Written, SavedNow, NotSaved, Open, RestNow, RestSaved
<1> QED
  BY <1>1 DEF Promise!PromiseNext

LEMMA EndsSeen ==
  ASSUME NEW r \in Rounds, RoundNow' = [RoundNow EXCEPT ![r] = "none"],
         SavedNow \/ SavedKept, UNCHANGED <<Open, RestNow>>
  PROVE  Promise!PromiseNext
<1>1. Promise!Ends(r)
  BY StateNow DEF Promise!Ends, Promise!MayWrite, Promise!Written, SavedNow, SavedKept, Open, RestNow,
              RestSaved
<1> QED
  BY <1>1 DEF Promise!PromiseNext

LEMMA TellsSeen ==
  ASSUME NEW r \in Rounds, RoundNow[r] \in {"current", "about to tell"},
         RoundNow' = [RoundNow EXCEPT ![r] = IF RoundNow[r] = "current" THEN "current"
                                             ELSE "over"],
         SavedNow \/ SavedKept, UNCHANGED <<Open, RestNow>>
  PROVE  Promise!PromiseNext
<1>1. Promise!Tells(r)
  BY StateNow DEF Promise!Tells, Promise!MayWrite, Promise!Written, SavedNow, SavedKept, Open, RestNow,
              RestSaved
<1> QED
  BY <1>1 DEF Promise!PromiseNext

LEMMA FinishSeen ==
  ASSUME TypeOK, FinishPending
  PROVE  [Promise!PromiseNext]_(Promise!promise)
<1>1. /\ evidence \in Evidences /\ rounds \in [Rounds -> RoundKinds]
      /\ car \in Cars /\ car.pushed \in Ages(Cooldown - 1)
  BY Typed DEF Cars
<1>2. CASE Unanswered
  BY <1>2, SeenAs DEF Unanswered, store, file, Open, RestNow, RestSaved, RoundNow
<1>3. CASE NotAnswered
  <2>1. ~Open' /\ UNCHANGED <<RestNow, RestSaved, unsaved, RoundNow>>
    BY <1>1, <1>3, ConsumedType DEF NotAnswered, store, file, Open, RestNow, RestSaved,
                                    RoundNow
  <2>2. Promise!Lapses
    BY <2>1, StateNow DEF Promise!Lapses, Open, RestNow, RestSaved
  <2> QED
    BY <2>2 DEF Promise!PromiseNext
<1>4. ASSUME NEW r \in Rounds, Answered(r) PROVE Promise!PromiseNext
  <2>1. Open
    BY <1>4 DEF Answered, Ready, Answerable, Open
  <2>2. ~Open'
    BY <1>1, <1>4, ConsumedType DEF Answered, Open
  <2>3. RestNow = Cooldown
    BY <1>1, <1>4, RestType DEF Answered, Rested, RestNow
  <2>4. car'.pushed = 0
    BY <1>1, <1>4, PushedCar, PushedAges, ZeroAges DEF Answered, Pushed
  <2>5. FileFollows
    <3>1. /\ car' \in Cars /\ disk \in Disks /\ unsaved \in BOOLEAN
          /\ delivered' \in BOOLEAN /\ Save
      BY <1>1, <1>4, PushedCar, PushedAges, ZeroAges, Typed DEF Answered, Pushed
    <3> QED
      BY <3>1, SaveType
  <2>6. RestNow' = 0 /\ (SavedNow \/ NotSaved)
    <3>1. car'.pushed # car.pushed
      BY <1>4, <2>4, PushedAges, ZeroAges DEF Answered, Rested
    <3> QED
      BY <2>4, <2>5, <3>1, RestZero DEF RestNow, RestSaved, FileFollows, SavedNow, NotSaved
  <2>7. /\ rounds' \in [Rounds -> RoundKinds]
        /\ rounds'[r].is = "called" /\ rounds'[r].same
        /\ \A q \in Rounds : q # r => rounds'[q] = rounds[q]
    BY <1>4, AnsweredRounds
  <2>8. RoundNow[r] = "none"
    BY <1>1, <1>4, EmptyRound, StateCases DEF Answered, RoundNow
  <2>9. RoundNow' = [RoundNow EXCEPT ![r] = "current"]
    <3>1. StateOf(rounds'[r]) = "current"
      BY <2>7, StateCases
    <3> QED
      BY <2>7, <3>1, RoundMoves
  <2> QED
    BY <2>1, <2>2, <2>3, <2>6, <2>8, <2>9, BeginsSeen
<1> QED
  BY <1>2, <1>3, <1>4, PendingEnds

LEMMA CheckSeen ==
  ASSUME TypeOK, NEW r \in Rounds, Check(r)
  PROVE  [Promise!PromiseNext]_(Promise!promise)
<1>1. /\ UNCHANGED <<Open, RestNow, RestSaved, unsaved>>
      /\ rounds' \in [Rounds -> RoundKinds] /\ rounds \in [Rounds -> RoundKinds]
      /\ \A q \in Rounds : q # r => rounds'[q] = rounds[q]
  BY CheckEnds, Typed DEF store, file, Open, RestNow, RestSaved
<1>2. CASE rounds'[r] = NoRound
  <2>1. StateOf(rounds'[r]) = "none"
    BY <1>2, EmptyRound, StateCases
  <2>2. RoundNow' = [RoundNow EXCEPT ![r] = "none"]
    BY <1>1, <2>1, RoundMoves
  <2> QED
    BY <1>1, <2>2, EndsSeen DEF SavedKept
<1>3. CASE /\ rounds[r].is \in {"called", "checking"} /\ rounds[r].same
           /\ rounds'[r].is = "posting" /\ rounds'[r].same
  <2>1. StateOf(rounds'[r]) = StateOf(rounds[r])
    BY <1>1, <1>3, StateCases
  <2>2. RoundNow' = RoundNow
    BY <1>1, <2>1, RoundsSame
  <2> QED
    BY <1>1, <2>2, SeenAs
<1> QED
  BY <1>2, <1>3, CheckEnds

LEMMA DeliversSeen ==
  ASSUME TypeOK, NEW r \in Rounds, NEW sent \in BOOLEAN, Delivers(r, sent)
  PROVE  Promise!PromiseNext
<1>1. /\ rounds' \in [Rounds -> RoundKinds] /\ rounds \in [Rounds -> RoundKinds]
      /\ rounds[r] \in RoundKinds
      /\ \A q \in Rounds : q # r => rounds'[q] = rounds[q]
      /\ rounds[r].is = "posting"
  BY DeliversEnds, Typed
<1>2. UNCHANGED <<Open, RestNow>> /\ (SavedNow \/ SavedKept)
  <2>1. car' = car /\ unsaved \in BOOLEAN /\ UNCHANGED Open
    BY DeliversEnds, Typed DEF Open
  <2>2. UNCHANGED file \/ FileFollows
    BY DeliversEnds
  <2> QED
    BY <2>1, <2>2 DEF RestNow, RestSaved, FileFollows, SavedNow, SavedKept, file
<1>3. CASE rounds'[r] = NoRound
  <2>1. StateOf(rounds'[r]) = "none"
    BY <1>3, EmptyRound, StateCases
  <2>2. RoundNow' = [RoundNow EXCEPT ![r] = "none"]
    BY <1>1, <2>1, RoundMoves
  <2> QED
    BY <1>2, <2>2, EndsSeen
<1>4. CASE rounds'[r].is = "checking" /\ rounds'[r].same = rounds[r].same
  <2>1. RoundNow[r] = StateOf(rounds[r])
    BY DEF RoundNow
  <2>2. /\ RoundNow[r] \in {"current", "about to tell"}
        /\ StateOf(rounds'[r]) = IF RoundNow[r] = "current" THEN "current" ELSE "over"
    <3>1. CASE rounds[r].same
      <4>1. RoundNow[r] = "current" /\ StateOf(rounds'[r]) = "current"
        BY <1>1, <1>4, <2>1, <3>1, StateCases
      <4> QED
        BY <4>1
    <3>2. CASE ~rounds[r].same
      <4>1. RoundNow[r] = "about to tell" /\ StateOf(rounds'[r]) = "over"
        BY <1>1, <1>4, <2>1, <3>2, StateCases
      <4> QED
        BY <4>1
    <3> QED
      BY <3>1, <3>2
  <2>3. RoundNow' = [RoundNow EXCEPT ![r] = IF RoundNow[r] = "current" THEN "current"
                                            ELSE "over"]
    BY <1>1, <2>2, RoundMoves
  <2> QED
    BY <1>2, <2>2, <2>3, TellsSeen
<1> QED
  BY <1>3, <1>4, DeliversEnds

LEMMA TickSeen ==
  ASSUME TypeOK, Tick
  PROVE  Promise!PromiseNext
<1>1. car.pushed \in Ages(Cooldown - 1) /\ disk.pushed \in Ages(Cooldown - 1)
  BY Typed DEF Cars, Disks
<1>2. /\ car'.pushed = Older(car.pushed, Cooldown - 1)
      /\ disk'.pushed = Older(disk.pushed, Cooldown - 1)
      /\ evidence'.lock = Older(evidence.lock, EpisodeLifetime)
      /\ \A r \in Rounds : rounds'[r].is = rounds[r].is /\ rounds'[r].same = rounds[r].same
  BY TickEffect
<1>3. RestNow' = Promise!Passes(RestNow) /\ RestSaved' = Promise!Passes(RestSaved)
  BY <1>1, <1>2, RestType DEF RestNow, RestSaved
<1>4. Open' \in {FALSE, Open}
  BY <1>2 DEF Open, Older
<1>5. RoundNow' = RoundNow
  <2>1. \A r \in Rounds : StateOf(rounds'[r]) = StateOf(rounds[r])
    BY <1>2 DEF StateOf
  <2> QED
    BY <2>1, RoundsSame
<1>6. unsaved' = (unsaved /\ RestNow' # Cooldown)
  BY <1>1, <1>2, OlderType, PushedAges, RestType, TickEffect DEF RestNow
<1>7. Promise!Waits
  BY <1>3, <1>4, <1>5, <1>6, StateNow DEF Promise!Waits, Open, RestNow, RestSaved
<1> QED
  BY <1>7 DEF Promise!PromiseNext

LEMMA ObserveSaves ==
  ASSUME TypeOK, NEW m \in Readings, Observe(m)
  PROVE  UNCHANGED file \/ FileFollows
<1>1. car \in Cars /\ disk \in Disks /\ delivered \in BOOLEAN /\ unsaved \in BOOLEAN
  BY Typed
<1>2. car' \in Cars /\ delivered' \in BOOLEAN
  BY <1>1, FieldType DEF Observe
<1>3. UNCHANGED file \/ Save
  BY DEF Observe
<1> QED
  BY <1>1, <1>2, <1>3, SaveType

LEMMA PromiseStep ==
  TypeOK /\ Remembers /\ [Next]_vars => [Promise!PromiseNext]_(Promise!promise)
<1> SUFFICES ASSUME TypeOK, Remembers, [Next]_vars
             PROVE  [Promise!PromiseNext]_(Promise!promise)
  OBVIOUS
<1>a. /\ car \in Cars /\ evidence \in Evidences /\ disk \in Disks /\ unsaved \in BOOLEAN
      /\ rounds \in [Rounds -> RoundKinds]
      /\ car.pushed \in Ages(Cooldown - 1)
  BY Typed DEF Cars
<1>b. ASSUME UNCHANGED <<store, evidence, rounds>>
      PROVE  [Promise!PromiseNext]_(Promise!promise)
  BY <1>b, SeenAs DEF store, file, Open, RestNow, RestSaved, RoundNow
<1>0. CASE UNCHANGED vars
  BY <1>0, <1>b DEF vars
<1>1. CASE TimerFires \/ StaleCallback \/ FleetChanges
  BY <1>1, <1>b DEF TimerFires, StaleCallback, FleetChanges
<1>2. ASSUME NEW p \in Undecided, PreferenceChanges(p)
      PROVE  [Promise!PromiseNext]_(Promise!promise)
  BY <1>2, <1>b DEF PreferenceChanges
<1>3. ASSUME NEW m \in Readings, Observe(m) PROVE Promise!PromiseNext
  <2>1. car'.pushed = car.pushed
    BY <1>3, <1>a, FieldType DEF Observe
  <2>2. UNCHANGED RestNow /\ (SavedNow \/ SavedKept)
    BY <1>3, <1>a, <2>1, ObserveSaves DEF RestNow, RestSaved, FileFollows, SavedNow, SavedKept,
                                    file
  <2>3. CASE rounds' = rounds
    BY <2>2, <2>3, ReportsSeen DEF RoundNow
  <2>4. CASE rounds' = [r \in Rounds |-> [rounds[r] EXCEPT !.same = FALSE]]
    BY <1>a, <2>2, <2>4, RoundsEnded, RoundsAge, ReportsSeen
  <2> QED
    BY <1>3, <2>3, <2>4 DEF Observe
<1>4. CASE FinishPending
  BY <1>4, FinishSeen
<1>5. ASSUME NEW r \in Rounds, Check(r)
      PROVE  [Promise!PromiseNext]_(Promise!promise)
  BY <1>5, CheckSeen
<1>6. ASSUME NEW r \in Rounds, NEW sent \in BOOLEAN, Delivers(r, sent)
      PROVE  Promise!PromiseNext
  BY <1>6, DeliversSeen
<1>7. CASE LinkHandler
  <2>1. /\ car'.pushed = car.pushed /\ UNCHANGED file
        /\ rounds' \in [Rounds -> RoundKinds]
        /\ \A r \in Rounds : rounds'[r] = [rounds[r] EXCEPT !.same = FALSE]
    BY <1>7, ResetType DEF LinkHandler
  <2>2. UNCHANGED RestNow /\ SavedKept
    BY <2>1 DEF RestNow, RestSaved, SavedKept, file
  <2> QED
    BY <2>1, <2>2, RoundsAge, ReportsSeen
<1>8. CASE LinkStep
  BY <1>8, <1>b, LinkStepEffect
<1>9. CASE ReconcileFleet
  <2>1. /\ car'.pushed = NoAge /\ ~Open' /\ UNCHANGED file
        /\ rounds' \in [Rounds -> RoundKinds]
        /\ \A r \in Rounds : rounds'[r] = [rounds[r] EXCEPT !.same = FALSE]
    BY <1>9, ReconcileType, NewCarType, EmptyEvidence DEF Open
  <2>2. RestNow' = Cooldown /\ UNCHANGED <<RestSaved, unsaved>>
    BY <2>1 DEF RestNow, RestSaved, Rest, file
  <2>3. /\ RoundNow' \in [Rounds -> Promise!RoundStates]
        /\ \A r \in Rounds : RoundNow'[r] \in Promise!Aged(RoundNow[r])
    BY <2>1, RoundsAge
  <2>4. Promise!Leaves
    BY <2>1, <2>2, <2>3, StateNow DEF Promise!Leaves, Open, RestNow, RestSaved
  <2> QED
    BY <2>4 DEF Promise!PromiseNext
<1>10. CASE Tick
  BY <1>10, TickSeen
<1>11. CASE Restart
  <2>1. /\ car'.pushed = disk.pushed /\ ~Open' /\ UNCHANGED disk /\ unsaved' = FALSE
        /\ rounds' = [r \in Rounds |-> NoRound]
    BY <1>11, RestartEffect, EmptyEvidence DEF Open
  <2>2. RestNow' = RestSaved /\ UNCHANGED RestSaved
    BY <2>1 DEF RestNow, RestSaved
  <2>3. RoundNow' = [r \in Rounds |-> "none"]
    BY <2>1, EmptyRound DEF RoundNow, StateOf
  <2>4. Promise!Restarts
    BY <2>1, <2>2, <2>3, StateNow DEF Remembers, Promise!Restarts, Open, RestNow, RestSaved
  <2> QED
    BY <2>4 DEF Promise!PromiseNext
<1> QED
  BY <1>0, <1>1, <1>2, <1>3, <1>4, <1>5, <1>6, <1>7, <1>8, <1>9, <1>10, <1>11 DEF Next

LEMMA PromiseBegins == Init => Promise!PromiseInit
<1> SUFFICES ASSUME Init PROVE Promise!PromiseInit
  OBVIOUS
<1>1. ~Open
  BY EmptyEvidence DEF Init, Open
<1>2. RestNow = Cooldown /\ RestSaved = Cooldown
  BY NewCarType DEF Init, RestNow, RestSaved, Rest
<1>2b. unsaved = FALSE
  BY DEF Init
<1>3. RoundNow = [r \in Rounds |-> "none"]
  BY EmptyRound DEF Init, RoundNow, StateOf
<1> QED
  BY <1>1, <1>2, <1>2b, <1>3, StateNow DEF Promise!PromiseInit, Open, RestNow, RestSaved

LEMMA RemembersInit == Init => Remembers
<1> SUFFICES ASSUME Init PROVE Remembers
  OBVIOUS
<1>1. RestNow = Cooldown /\ RestSaved = Cooldown
  BY NewCarType DEF Init, RestNow, RestSaved, Rest
<1> QED
  BY <1>1, Times DEF Remembers

LEMMA RemembersStep == TypeOK /\ Remembers /\ [Next]_vars => Remembers'
<1> SUFFICES ASSUME TypeOK, Remembers, [Next]_vars PROVE Remembers'
  OBVIOUS
<1>a. /\ car \in Cars /\ disk \in Disks /\ unsaved \in BOOLEAN
      /\ car.pushed \in Ages(Cooldown - 1) /\ disk.pushed \in Ages(Cooldown - 1)
  BY Typed DEF Cars, Disks
<1>b. RestNow \in 0..Cooldown /\ RestSaved \in 0..Cooldown
  BY <1>a, Times DEF RestNow, RestSaved, Rest, Ages, NoAge
<1>c. TypeOK'
  BY TypeStep
<1>d. RestNow' \in 0..Cooldown /\ RestSaved' \in 0..Cooldown
  <2>1. car'.pushed \in Ages(Cooldown - 1) /\ disk'.pushed \in Ages(Cooldown - 1)
    BY <1>c DEF TypeOK, Cars
  <2> QED
    BY <2>1, Times DEF RestNow, RestSaved, Rest, Ages, NoAge
<1>s. ASSUME FileFollows PROVE Remembers'
  <2>1. \/ unsaved' \/ RestSaved' = RestNow'
        \/ unsaved' = unsaved /\ RestSaved' = RestSaved /\ RestNow' = RestNow
    BY <1>a, <1>s DEF FileFollows, RestNow, RestSaved
  <2> QED
    BY <1>b, <1>d, <2>1 DEF Remembers
<1>k. ASSUME UNCHANGED file, RestNow' \in {RestNow, Cooldown} PROVE Remembers'
  <2>1. RestSaved' = RestSaved /\ unsaved' = unsaved
    BY <1>k DEF RestSaved, file
  <2> QED
    BY <1>b, <1>k, <2>1 DEF Remembers
<1>u. ASSUME UNCHANGED store PROVE Remembers'
  BY <1>k, <1>u DEF store, RestNow
<1>0. CASE UNCHANGED vars
  BY <1>0, <1>u DEF vars
<1>1. CASE TimerFires \/ StaleCallback \/ FleetChanges
  BY <1>1, <1>u DEF TimerFires, StaleCallback, FleetChanges
<1>2. ASSUME NEW p \in Undecided, PreferenceChanges(p) PROVE Remembers'
  BY <1>2, <1>u DEF PreferenceChanges
<1>3. ASSUME NEW m \in Readings, Observe(m) PROVE Remembers'
  <2>1. car'.pushed = car.pushed /\ (UNCHANGED file \/ FileFollows)
    BY <1>3, <1>a, FieldType, ObserveSaves DEF Observe
  <2> QED
    BY <1>k, <1>s, <2>1 DEF RestNow
<1>4. CASE FinishPending
  <2>1. CASE UNCHANGED store
    BY <1>u, <2>1
  <2>2. ASSUME NEW r \in Rounds, Answered(r) PROVE Remembers'
    <3>1. car' \in Cars /\ delivered' \in BOOLEAN /\ Save
      BY <1>a, <2>2, PushedCar, PushedAges, ZeroAges, Typed DEF Answered, Pushed
    <3> QED
      BY <1>a, <1>s, <3>1, SaveType
  <2> QED
    BY <1>4, <2>1, <2>2, PendingEnds DEF Unanswered, NotAnswered
<1>5. ASSUME NEW r \in Rounds, Check(r) PROVE Remembers'
  BY <1>5, <1>u, CheckEnds
<1>6. ASSUME NEW r \in Rounds, NEW sent \in BOOLEAN, Delivers(r, sent) PROVE Remembers'
  <2>1. car' = car /\ (UNCHANGED file \/ FileFollows)
    BY <1>6, DeliversEnds
  <2> QED
    BY <1>k, <1>s, <2>1 DEF RestNow
<1>7. CASE LinkHandler
  <2>1. car'.pushed = car.pushed /\ UNCHANGED file
    BY <1>7, ResetType DEF LinkHandler
  <2> QED
    BY <1>k, <2>1 DEF RestNow
<1>8. CASE LinkStep
  BY <1>8, <1>u, LinkStepEffect
<1>9. CASE ReconcileFleet
  <2>1. car'.pushed = NoAge /\ UNCHANGED file
    BY <1>9, ReconcileType, NewCarType
  <2> QED
    BY <1>k, <2>1 DEF RestNow, Rest
<1>10. CASE Tick
  <2>1. /\ car'.pushed = Older(car.pushed, Cooldown - 1)
        /\ disk'.pushed = Older(disk.pushed, Cooldown - 1)
        /\ unsaved' = (unsaved /\ car'.pushed # NoAge)
    BY <1>10, TickEffect
  <2>2. RestNow' = Promise!Passes(RestNow) /\ RestSaved' = Promise!Passes(RestSaved)
    BY <1>a, <2>1, RestType DEF RestNow, RestSaved
  <2> QED
    <3>1. CASE car'.pushed = NoAge
      <4>1. RestNow' = Cooldown
        BY <3>1 DEF RestNow, Rest
      <4> QED
        <5>1. RestSaved' <= RestNow'
          BY <1>d, <4>1, Times
        <5> QED
          BY <5>1 DEF Remembers
    <3>2. CASE car'.pushed # NoAge
      <4>1. unsaved' = unsaved
        BY <1>a, <2>1, <3>2
      <4>2. RestSaved <= RestNow => RestSaved' <= RestNow'
        BY <1>b, <2>2, Times DEF Promise!Passes
      <4> QED
        BY <4>1, <4>2 DEF Remembers
    <3> QED
      BY <3>1, <3>2
<1>11. CASE Restart
  <2>1. car'.pushed = disk.pushed /\ disk' = disk
    BY <1>11, RestartEffect
  <2>2. RestNow' = RestSaved'
    BY <2>1 DEF RestNow, RestSaved
  <2> QED
    BY <1>d, <2>2 DEF Remembers
<1> QED
  BY <1>0, <1>1, <1>2, <1>3, <1>4, <1>5, <1>6, <1>7, <1>8, <1>9, <1>10, <1>11 DEF Next

(* Whatever messages, reconnects, fleet reads, preferences, failed saves   *)
(* and restarts do to a car, its pushes are those of LockEpisodes: one     *)
(* live lock, one round; rounds Cooldown apart while the car stays in the  *)
(* fleet, and across a restart unless the last save failed before it; and  *)
(* a round that has been overtaken by a reading tells at most the phone it *)
(* was at (lock_secure_notification.go:359, 393, 406, 418-420, 446).       *)
THEOREM Implements == Spec => ImplementsEpisodes
BY InitTypeOK, TypeStep, RemembersInit, RemembersStep, PromiseBegins, PromiseStep, PTL
   DEF Spec, ImplementsEpisodes, Promise!PromiseSpec
=============================================================================
