-------------------------- MODULE NavigationProofs --------------------------
(***************************************************************************)
(* Proofs about Navigation for every value of its constants: the types,    *)
(* that the record the App reads agrees with the car, and that a session   *)
(* found under way is never announced.                                     *)
(*                                                                         *)
(* Each action is first reduced to what it does to the session under way,  *)
(* to the events on their way and to the record (Shape below); the         *)
(* invariants are then shown to survive anything of that shape.            *)
(***************************************************************************)
EXTENDS Navigation, TLAPS

(* The constants, in the form the leaves below need.                       *)
LEMMA Constants ==
  /\ QueueSize \in Nat \ {0} /\ Attempts \in Nat \ {0}
  /\ MaxSessions \in Nat \ {0} /\ MaxRevision \in Nat \ {0}
  /\ MaxLeaving \in Nat \ {0} /\ Lefts \subseteq Nat
BY BoundsArePositive, LeftsAreDistances

LEMMA ReadingShape ==
  ASSUME NEW m \in Readings
  PROVE  /\ m.field \in {"state", "healthy", "active_route"} /\ m.retained \in BOOLEAN
         /\ m.field = "state" => m.value \in States
         /\ m.field = "healthy" => m.value \in Healths
         /\ m.field = "active_route" => m.value \in Routes
         /\ IsRoute(m) => m.value.to # Nowhere
<1>1. PICK p \in Published \cup Retained :
        m.field = p[1] /\ m.value = p[2] /\ m.retained \in BOOLEAN
  <2>1. \/ \E p \in Published :
             m = [field |-> p[1], value |-> p[2], retained |-> FALSE]
        \/ \E p \in Retained :
             m = [field |-> p[1], value |-> p[2], retained |-> TRUE]
    BY Zenon DEF Readings
  <2>2. ASSUME NEW p \in Published \cup Retained, NEW retained \in BOOLEAN,
               m = [field |-> p[1], value |-> p[2], retained |-> retained]
        PROVE  m.field = p[1] /\ m.value = p[2] /\ m.retained \in BOOLEAN
    BY <2>2
  <2> QED
    BY <2>1, <2>2, Zenon
<1>2. p \in ({"state"} \X States) \cup ({"healthy"} \X Healths)
            \cup ({"active_route"} \X ({r \in Routes : r.to # Nowhere} \cup {Invalid}))
  BY ReadingsAreReadings
<1>3. NoRoute \in Routes
  BY DEF NoRoute, Routes
<1>4. CASE p \in {"state"} \X States
  BY <1>1, <1>4 DEF IsRoute
<1>5. CASE p \in {"healthy"} \X Healths
  BY <1>1, <1>5 DEF IsRoute
<1>6. CASE p \in {"active_route"} \X ({r \in Routes : r.to # Nowhere} \cup {Invalid})
  BY <1>1, <1>3, <1>6 DEF IsRoute, Invalid
<1> QED
  BY <1>2, <1>4, <1>5, <1>6

-----------------------------------------------------------------------------
(* The car                                                                 *)

LEMMA CarShape ==
  ASSUME NEW c \in Cars
  PROVE  /\ c.state \in States /\ c.leg \in Routes /\ c.staged \in Staged
         /\ c.active \in BOOLEAN /\ c.session \in Sessions \cup {0}
         /\ c.mode \in {"live", "recovered"} /\ c.kind \in {"origin", "reroute"}
         /\ c.named \in BOOLEAN /\ c.started \in BOOLEAN /\ c.alerted \in BOOLEAN
         /\ c.recent \in BOOLEAN /\ c.rerouted \in BOOLEAN
         /\ c.startedAt \in Times /\ c.observedAt \in Times
         /\ c.observed \in BOOLEAN /\ c.revision \in Nat
BY DEF Cars

LEMMA NothingIsStaged == NothingStaged \in Staged /\ NoRoute \in Routes
BY DEF NothingStaged, Staged, Ages, NoRoute, Routes

(* What the properties tell apart in a car.                                *)
SameSession(c, d) ==
  /\ d.active = c.active /\ d.session = c.session /\ d.mode = c.mode
  /\ c.alerted => d.alerted

LEMMA NewCarType == NewCar \in Cars /\ ~NewCar.active /\ NewCar.session = 0
BY NothingIsStaged DEF NewCar, Cars, States, Times

LEMMA MadeType ==
  ASSUME NEW c \in Cars
  PROVE  /\ Made(c) \in Cars /\ SameSession(c, Made(c))
         /\ Made(c).revision = c.revision + 1 /\ Made(c).leg = c.leg
         /\ Made(c).started = c.started /\ Made(c).alerted = c.alerted
         /\ Made(c).kind = c.kind /\ Made(c).named = c.named
<1>1. c.revision + 1 \in Nat
  BY CarShape
<1>2. Made(c) = [c EXCEPT !.revision = c.revision + 1, !.recent = TRUE]
  BY DEF Made
<1>3. ASSUME NEW n \in Nat
      PROVE  LET d == [c EXCEPT !.revision = n, !.recent = TRUE] IN
             /\ d \in Cars /\ d.active = c.active /\ d.session = c.session
             /\ d.mode = c.mode /\ d.revision = n /\ d.leg = c.leg
             /\ d.started = c.started /\ d.alerted = c.alerted
             /\ d.kind = c.kind /\ d.named = c.named
  BY DEF Cars
<1> DEFINE n == c.revision + 1
           d == [c EXCEPT !.revision = n, !.recent = TRUE]
<1>4. /\ d \in Cars /\ d.active = c.active /\ d.session = c.session
      /\ d.mode = c.mode /\ d.revision = n /\ d.leg = c.leg
      /\ d.started = c.started /\ d.alerted = c.alerted
      /\ d.kind = c.kind /\ d.named = c.named
  BY <1>1, <1>3, Zenon
<1> HIDE DEF d
<1> QED
  BY <1>2, <1>4, Zenon DEF SameSession, d

LEMMA BeginLegType ==
  ASSUME NEW c \in Cars, SessionID \in Sessions
  PROVE  LET d == BeginLeg(c) IN
         /\ d \in Cars /\ d.active /\ d.session = SessionID
         /\ d.mode = "live" /\ ~d.alerted
         /\ d.leg = c.leg /\ d.revision = c.revision
BY CarShape, NothingIsStaged DEF BeginLeg, Cars, Times

LEMMA RecoveredType ==
  ASSUME NEW c \in Cars
  PROVE  LET d == Recovered(c) IN
         /\ d \in Cars /\ d.active = c.active /\ d.session = c.session
         /\ d.mode = "recovered" /\ d.alerted
         /\ d.leg = c.leg /\ d.revision = c.revision
BY CarShape DEF Recovered, Cars, Times

LEMMA IdleType ==
  ASSUME NEW c \in Cars
  PROVE  LET d == Idle(c) IN
         /\ d \in Cars /\ ~d.active /\ d.session = c.session
         /\ d.leg = c.leg /\ d.revision = c.revision
<1>1. NewCar \in Cars /\ ~NewCar.active
  BY NewCarType
<1>2. ASSUME NEW n \in Cars, NEW d,
             d = [n EXCEPT !.state = c.state, !.leg = c.leg, !.session = c.session,
                           !.observed = c.observed, !.revision = c.revision]
      PROVE  /\ d \in Cars /\ d.active = n.active /\ d.session = c.session
             /\ d.leg = c.leg /\ d.revision = c.revision
  BY <1>2, CarShape DEF Cars
<1> HIDE DEF NewCar
<1> QED
  BY <1>1, <1>2 DEF Idle

LEMMA EventType ==
  ASSUME NEW c \in Cars, c.session # 0,
         NEW type \in {"started", "updated", "ended"}, NEW to \in {"card", "banner", "both"}
  PROVE  LET e == Event(type, c, to) IN
         /\ e \in Events /\ e.type = type /\ e.to = to
         /\ e.session = c.session /\ e.revision = c.revision
BY CarShape DEF Event, Events

LEMMA EndOfType ==
  ASSUME NEW c \in Cars, c.session # 0, NEW to \in {"card", "banner", "both"}
  PROVE  LET e == EndOf(c, to) IN
         /\ e \in Events /\ e.type = "ended"
         /\ e.session = c.session /\ e.revision = c.revision + 1
BY MadeType, EventType DEF EndOf, SameSession

(* A started event carries a banner only for a session that began before   *)
(* the eyes of the monitor.                                                *)
LEMMA StartedType ==
  ASSUME NEW c \in Cars, c.session # 0, NEW b \in Baselines, NEW resolved \in BOOLEAN
  PROVE  LET s == Started(c, b, resolved) IN
         /\ s.car \in Cars /\ SameSession(c, s.car)
         /\ s.car.revision = c.revision + 1 /\ s.car.leg = c.leg
         /\ s.waits \in BOOLEAN /\ s.event \in Events /\ s.event.type = "started"
         /\ s.event.session = c.session /\ s.event.revision = c.revision + 1
         /\ s.event.to # "card" => c.mode = "live" /\ Transition(b)
<1> DEFINE quiet == c.mode = "recovered" \/ ~Transition(b)
           named == c.kind = "origin" /\ (c.named \/ (resolved /\ ~quiet))
           told == ~quiet /\ (named \/ c.kind = "reroute")
           d == Made(c)
           next == [d EXCEPT !.named = IF quiet THEN @ ELSE named,
                             !.alerted = @ \/ told]
           to == IF told THEN "both" ELSE "card"
           s == Started(c, b, resolved)
<1>1. s.car = next /\ s.waits = (~quiet /\ ~told) /\ s.event = Event("started", next, to)
  BY DEF Started
<1>2. quiet \in BOOLEAN /\ told \in BOOLEAN /\ named \in BOOLEAN
  BY CarShape DEF Transition
<1>3. d \in Cars /\ SameSession(c, d) /\ d.revision = c.revision + 1 /\ d.leg = c.leg
  BY MadeType
<1> HIDE DEF quiet, named, told, d
<1>4. /\ next \in Cars /\ next.active = d.active /\ next.session = d.session
      /\ next.mode = d.mode /\ next.leg = d.leg /\ next.revision = d.revision
      /\ next.alerted = (d.alerted \/ told)
  <2>1. ASSUME NEW x \in BOOLEAN, NEW y \in BOOLEAN, NEW e,
               e = [d EXCEPT !.named = x, !.alerted = y]
        PROVE  /\ e \in Cars /\ e.active = d.active /\ e.session = d.session
               /\ e.mode = d.mode /\ e.leg = d.leg /\ e.revision = d.revision
               /\ e.alerted = y
    BY <1>3, <2>1 DEF Cars
  <2> DEFINE x == IF quiet THEN d.named ELSE named
             y == d.alerted \/ told
  <2>2. x \in BOOLEAN /\ y \in BOOLEAN
    BY <1>2, <1>3, CarShape, Zenon
  <2>3. next = [d EXCEPT !.named = x, !.alerted = y]
    OBVIOUS
  <2> HIDE DEF next, x, y
  <2>4. /\ next \in Cars /\ next.active = d.active /\ next.session = d.session
        /\ next.mode = d.mode /\ next.leg = d.leg /\ next.revision = d.revision
        /\ next.alerted = y
    BY <2>1, <2>2, <2>3
  <2> QED
    BY <2>4, Zenon DEF y
<1> HIDE DEF next
<1>5. /\ Event("started", next, to) \in Events
      /\ LET e == Event("started", next, to) IN
         e.type = "started" /\ e.to = to /\ e.session = next.session
         /\ e.revision = next.revision
  <2>1. to \in {"card", "banner", "both"} /\ next.session # 0
    BY <1>3, <1>4 DEF SameSession
  <2> QED
    BY <1>4, <2>1, EventType
<1>6. to # "card" => c.mode = "live" /\ Transition(b)
  BY CarShape DEF told, quiet
<1>7. SameSession(c, next)
  BY <1>3, <1>4 DEF SameSession
<1>8. s.waits \in BOOLEAN
  BY <1>1, <1>2, Zenon
<1>9. /\ s.car \in Cars /\ SameSession(c, s.car)
      /\ s.car.revision = c.revision + 1 /\ s.car.leg = c.leg
  BY <1>1, <1>3, <1>4, <1>7, Zenon
<1>10. /\ s.event \in Events /\ s.event.type = "started"
       /\ s.event.session = c.session /\ s.event.revision = c.revision + 1
       /\ s.event.to = to
  BY <1>1, <1>3, <1>4, <1>5, <1>7, Zenon DEF SameSession
<1> HIDE DEF s, to
<1> QED
  BY <1>6, <1>8, <1>9, <1>10, Zenon DEF s

-----------------------------------------------------------------------------
(* A reading changes the state and the leg, and no session                 *)

LEMMA LegTypes ==
  ASSUME NEW leg \in Routes, NEW route \in Routes, NEW staged \in Staged
  PROVE  /\ Applied(leg, route) \in Routes /\ Applied(leg, route).to = route.to
         /\ Stage(staged, route) \in Staged /\ Older(staged) \in Staged
<1>1. Applied(leg, route) \in Routes /\ Applied(leg, route).to = route.to
  BY DEF Applied, Routes
<1>2. Stage(staged, route) \in Staged
  BY DEF Stage, Staged, Routes, Ages
<1>3. Older(staged) \in Staged
  <2>1. CASE staged.to = Nowhere \/ staged.age = "ripe"
    BY <2>1, NothingIsStaged DEF Older
  <2>2. CASE ~(staged.to = Nowhere \/ staged.age = "ripe")
    <3>1. [staged EXCEPT !.age = "ripe"] \in Staged
      BY DEF Staged, Ages
    <3> QED
      BY <2>2, <3>1 DEF Older
  <2> QED
    BY <2>1, <2>2
<1> QED
  BY <1>1, <1>2, <1>3

SameRun(c, d) ==
  /\ d.active = c.active /\ d.session = c.session /\ d.mode = c.mode
  /\ d.started = c.started /\ d.alerted = c.alerted /\ d.revision = c.revision

LEMMA LegChanges ==
  ASSUME NEW c \in Cars, NEW leg \in Routes, NEW staged \in Staged
  PROVE  /\ LET d == [c EXCEPT !.leg = leg, !.staged = staged] IN
            d \in Cars /\ SameRun(c, d) /\ d.leg = leg
         /\ LET d == [c EXCEPT !.staged = staged] IN
            d \in Cars /\ SameRun(c, d) /\ d.leg = c.leg
         /\ LET d == [c EXCEPT !.leg = leg, !.revision = @ + 1] IN
            d \in Cars /\ d.leg = leg /\ d.revision = c.revision + 1
<1>1. ASSUME NEW d, d = [c EXCEPT !.leg = leg, !.staged = staged]
      PROVE  d \in Cars /\ SameRun(c, d) /\ d.leg = leg
  BY <1>1 DEF Cars, SameRun
<1>2. ASSUME NEW d, d = [c EXCEPT !.staged = staged]
      PROVE  d \in Cars /\ SameRun(c, d) /\ d.leg = c.leg
  BY <1>2 DEF Cars, SameRun
<1>3. ASSUME NEW n \in Nat, NEW d, d = [c EXCEPT !.leg = leg, !.revision = n]
      PROVE  d \in Cars /\ d.leg = leg /\ d.revision = n
  BY <1>3 DEF Cars
<1>4. c.revision + 1 \in Nat
  BY CarShape
<1> QED
  BY <1>1, <1>2, <1>3, <1>4, Zenon

LEMMA WithRouteType ==
  ASSUME NEW c \in Cars, c.active => c.leg.to # Nowhere, c.active = car.active,
         NEW m \in Readings, m.field = "active_route"
  PROVE  LET d == WithRoute(c, m) IN
         /\ d \in Cars /\ SameRun(c, d)
         /\ d.active => d.leg.to # Nowhere
<1> DEFINE applied == [c EXCEPT !.leg = Applied(c.leg, m.value), !.staged = NothingStaged]
           staged == [c EXCEPT !.staged = Stage(c.staged, m.value)]
           cleared == [c EXCEPT !.leg = NoRoute, !.staged = NothingStaged]
           d == WithRoute(c, m)
<1>1. \/ d = c \/ d = staged
      \/ d = cleared /\ ~c.active
      \/ d = applied /\ IsRoute(m)
  BY Zenon DEF WithRoute, Clears, IsRoute
<1>2. m.value \in Routes /\ (IsRoute(m) => m.value.to # Nowhere)
  BY ReadingShape
<1>3. /\ Applied(c.leg, m.value) \in Routes /\ Applied(c.leg, m.value).to = m.value.to
      /\ Stage(c.staged, m.value) \in Staged
  BY <1>2, CarShape, LegTypes
<1>4. /\ applied \in Cars /\ SameRun(c, applied) /\ applied.leg.to = m.value.to
      /\ staged \in Cars /\ SameRun(c, staged) /\ staged.leg = c.leg
      /\ cleared \in Cars /\ SameRun(c, cleared)
  BY <1>3, LegChanges, NothingIsStaged, Zenon
<1>5. SameRun(c, c)
  BY DEF SameRun
<1> HIDE DEF applied, staged, cleared, d
<1> QED
  <2>1. d \in Cars /\ SameRun(c, d)
    BY <1>1, <1>4, <1>5
  <2>2. d.active => d.leg.to # Nowhere
    BY <1>1, <1>2, <1>4 DEF SameRun
  <2> QED
    BY <2>1, <2>2 DEF d

LEMMA ReadType ==
  ASSUME car \in Cars, car.active => car.leg.to # Nowhere, grace \in BOOLEAN,
         NEW m \in Readings
  PROVE  LET d == Read(m) IN
         /\ d \in Cars /\ SameRun(car, d)
         /\ d.active => d.leg.to # Nowhere
<1> DEFINE c == IF m.field = "active_route" /\ ~m.retained
                THEN [car EXCEPT !.observed = grace] ELSE car
           d == Read(m)
<1>1. c \in Cars /\ SameRun(car, c) /\ c.leg = car.leg
  <2>1. ASSUME NEW e, e = [car EXCEPT !.observed = grace]
        PROVE  e \in Cars /\ SameRun(car, e) /\ e.leg = car.leg
    BY <2>1 DEF Cars, SameRun
  <2>2. SameRun(car, car)
    BY DEF SameRun
  <2> QED
    BY <2>1, <2>2
<1>2. \/ m.field = "state" /\ d = [c EXCEPT !.state = m.value]
      \/ m.field = "active_route" /\ d = WithRoute(c, m)
      \/ d = c
  BY DEF Read
<1> HIDE DEF c, d
<1>3. CASE m.field = "state" /\ d = [c EXCEPT !.state = m.value]
  <2>1. m.value \in States
    BY <1>3, ReadingShape
  <2>2. d \in Cars /\ SameRun(c, d) /\ d.leg = c.leg
    BY <1>1, <1>3, <2>1 DEF Cars, SameRun
  <2> QED
    BY <1>1, <2>2 DEF SameRun, d
<1>4. CASE m.field = "active_route" /\ d = WithRoute(c, m)
  <2>1. c.active = car.active /\ (c.active => c.leg.to # Nowhere)
    BY <1>1 DEF SameRun
  <2>2. d \in Cars /\ SameRun(c, d) /\ (d.active => d.leg.to # Nowhere)
    BY <1>1, <1>4, <2>1, WithRouteType
  <2> QED
    BY <1>1, <2>2 DEF SameRun, d
<1>5. CASE d = c
  BY <1>1, <1>5 DEF SameRun, d
<1> QED
  BY <1>2, <1>3, <1>4, <1>5

(* The baseline takes a retained route to another stop only if there is one. *)
LEMMA NotedType ==
  ASSUME baseline \in Baselines, NEW m \in Readings,
         baseline.changed # NoRoute => baseline.changed.to # Nowhere
  PROVE  LET b == Noted(m) IN
         b \in Baselines /\ (b.changed # NoRoute => b.changed.to # Nowhere)
<1>1. CASE m.field = "state"
  <2>1. (baseline.inactive \/ Parking(m.value)) \in BOOLEAN
    OBVIOUS
  <2>2. ASSUME NEW x \in {"none", "retained", "live"}, NEW y \in BOOLEAN, NEW b,
               b = [baseline EXCEPT !.state = x, !.inactive = y]
        PROVE  b \in Baselines /\ b.changed = baseline.changed
    BY <2>2 DEF Baselines
  <2> QED
    BY <1>1, <2>1, <2>2 DEF Noted
<1>2. CASE m.field = "healthy"
  <2>1. ASSUME NEW x \in {"", "yes", "no"}, NEW b, b = [baseline EXCEPT !.healthy = x]
        PROVE  b \in Baselines /\ b.changed = baseline.changed
    BY <2>1 DEF Baselines
  <2> QED
    BY <1>2, <2>1 DEF Noted
<1>3. CASE m.field = "active_route"
  <2>1. m.value \in Routes /\ (IsRoute(m) => m.value.to # Nowhere)
    BY <1>3, ReadingShape
  <2>2. ASSUME NEW x \in {"none", "retained", "live"}, NEW y \in Routes, NEW b,
               b = [baseline EXCEPT !.route = x, !.changed = y]
        PROVE  b \in Baselines /\ b.changed = y
    BY <2>2 DEF Baselines
  <2> QED
    <3> DEFINE x == IF Clears(m) \/ (m.retained /\ ChangesStop(m)) THEN "none"
                    ELSE IF m.retained THEN "retained" ELSE "live"
               y == IF m.retained /\ ChangesStop(m) THEN m.value ELSE NoRoute
               b == Noted(m)
    <3>1. x \in {"none", "retained", "live"}
      OBVIOUS
    <3>2. y \in Routes /\ (y # NoRoute => y.to # Nowhere)
      BY <2>1, NothingIsStaged DEF ChangesStop
    <3>3. b = [baseline EXCEPT !.route = x, !.changed = y]
      BY <1>3 DEF Noted
    <3> HIDE DEF x, y, b
    <3>4. b \in Baselines /\ b.changed = y
      BY <2>2, <3>1, <3>2, <3>3
    <3> QED
      BY <3>2, <3>4 DEF b
<1> QED
  BY <1>1, <1>2, <1>3, ReadingShape

-----------------------------------------------------------------------------
(* Lists of events, the queues and the record                              *)

Of(q) == {q[i] : i \in DOMAIN q}

LEMMA Lists ==
  ASSUME NEW q \in Seq(Events), NEW e \in Events
  PROVE  /\ Append(q, e) \in Seq(Events) /\ Len(Append(q, e)) = Len(q) + 1
         /\ Of(Append(q, e)) = Of(q) \cup {e}
         /\ Len(q) \in Nat /\ Of(q) \subseteq Events
<1>1. Append(q, e) \in Seq(Events) /\ Len(Append(q, e)) = Len(q) + 1 /\ Len(q) \in Nat
  OBVIOUS
<1>2. DOMAIN q = 1..Len(q) /\ DOMAIN Append(q, e) = 1..(Len(q) + 1)
  OBVIOUS
<1>3. \A i \in 1..(Len(q) + 1) :
        Append(q, e)[i] = IF i = Len(q) + 1 THEN e ELSE q[i]
  OBVIOUS
<1>4. Of(Append(q, e)) \subseteq Of(q) \cup {e}
  BY <1>1, <1>2, <1>3 DEF Of
<1>5. Of(q) \subseteq Of(Append(q, e))
  BY <1>1, <1>2, <1>3 DEF Of
<1>6. e \in Of(Append(q, e))
  BY <1>1, <1>2, <1>3 DEF Of
<1>7. Of(q) \subseteq Events
  BY <1>2 DEF Of
<1> QED
  BY <1>1, <1>4, <1>5, <1>6, <1>7

LEMMA NoList == <<>> \in Seq(Events) /\ Of(<<>>) = {} /\ Len(<<>>) = 0
BY DEF Of

LEMMA Singles ==
  ASSUME NEW e \in Events
  PROVE  /\ <<e>> \in Seq(Events) /\ Len(<<e>>) = 1 /\ Of(<<e>>) = {e}
         /\ Head(<<e>>) = e /\ <<e>> # <<>>
<1>1. DOMAIN <<e>> = {1} /\ <<e>>[1] = e
  OBVIOUS
<1> QED
  BY <1>1 DEF Of

LEMMA Pairs ==
  ASSUME NEW e \in Events, NEW f \in Events
  PROVE  <<e, f>> \in Seq(Events) /\ Len(<<e, f>>) = 2 /\ Of(<<e, f>>) = {e, f}
<1>1. DOMAIN <<e, f>> = 1..2 /\ <<e, f>>[1] = e /\ <<e, f>>[2] = f
  OBVIOUS
<1>2. Of(<<e, f>>) = {e, f}
  BY <1>1 DEF Of
<1> QED
  BY <1>2

LEMMA Tails ==
  ASSUME NEW q \in Seq(Events), q # <<>>
  PROVE  /\ Tail(q) \in Seq(Events) /\ Len(Tail(q)) = Len(q) - 1
         /\ Head(q) \in Of(q) /\ Head(q) = q[1] /\ Len(q) \in Nat \ {0}
         /\ Of(Tail(q)) \subseteq Of(q) /\ Of(q) = Of(Tail(q)) \cup {Head(q)}
         /\ Tail(q) = <<>> <=> Len(q) = 1
<1>1. Tail(q) \in Seq(Events) /\ Len(Tail(q)) = Len(q) - 1 /\ Len(q) \in Nat \ {0}
  OBVIOUS
<1>2. DOMAIN q = 1..Len(q) /\ DOMAIN Tail(q) = 1..(Len(q) - 1)
  OBVIOUS
<1>3. Head(q) = q[1] /\ \A i \in 1..(Len(q) - 1) : Tail(q)[i] = q[i + 1]
  OBVIOUS
<1>4. Head(q) \in Of(q)
  BY <1>1, <1>2, <1>3 DEF Of
<1>5. Of(Tail(q)) \subseteq Of(q)
  <2>1. ASSUME NEW i \in 1..(Len(q) - 1)
        PROVE  i + 1 \in 1..Len(q) /\ Tail(q)[i] = q[i + 1]
    BY <1>1, <1>3
  <2> QED
    BY <1>2, <2>1 DEF Of
<1>6. Of(q) \subseteq Of(Tail(q)) \cup {Head(q)}
  <2>1. ASSUME NEW i \in 1..Len(q), i # 1
        PROVE  i - 1 \in 1..(Len(q) - 1) /\ Tail(q)[i - 1] = q[i]
    BY <1>1, <1>3, <2>1
  <2>2. ASSUME NEW i \in 1..Len(q)
        PROVE  q[i] \in Of(Tail(q)) \cup {Head(q)}
    <3>1. CASE i = 1
      BY <1>3, <3>1
    <3>2. CASE i # 1
      BY <1>2, <2>1, <3>2 DEF Of
    <3> QED
      BY <3>1, <3>2
  <2> QED
    BY <1>2, <2>2 DEF Of
<1>7. Tail(q) = <<>> <=> Len(q) = 1
  BY <1>1
<1> QED
  BY <1>1, <1>3, <1>4, <1>5, <1>6, <1>7

OrdinaryQueue(q) ==
  q \in Seq(Events) /\ Len(q) <= QueueSize + 1 /\ \A e \in Of(q) : e.type # "ended"
TerminalQueue(q) ==
  q \in Seq(Events) /\ Len(q) <= QueueSize + 1 /\ \A e \in Of(q) : e.type = "ended"

LEMMA PutFits ==
  ASSUME NEW q \in Seq(Events), NEW e \in Events, Len(q) <= QueueSize + 1
  PROVE  /\ Put(q, e) \in Seq(Events) /\ Len(Put(q, e)) <= QueueSize + 1
         /\ Of(Put(q, e)) \subseteq Of(q) \cup {e}
<1>1. CASE Len(q) > QueueSize
  BY <1>1 DEF Put
<1>2. CASE ~(Len(q) > QueueSize)
  <2>1. Len(Append(q, e)) <= QueueSize + 1
    BY <1>2, Lists, Constants
  <2> QED
    BY <1>2, <2>1, Lists DEF Put
<1> QED
  BY <1>1, <1>2

LEMMA TailFits ==
  ASSUME NEW q, q # <<>>
  PROVE  /\ OrdinaryQueue(q) => OrdinaryQueue(Tail(q))
         /\ TerminalQueue(q) => TerminalQueue(Tail(q))
BY Tails, Constants DEF OrdinaryQueue, TerminalQueue

(* A record k comes from h by taking some of the events E: an end stays,   *)
(* and no revision goes back.                                              *)
Moved(h, k, E) ==
  \A s \in Sessions :
    /\ h[s].type = "ended" => k[s].type = "ended"
    /\ \/ k[s] = h[s]
       \/ /\ h[s].revision <= k[s].revision
          /\ \E e \in E : /\ e.session = s /\ k[s].type = e.type
                          /\ k[s].revision = e.revision

(* An end is taken unless something later is on record.                    *)
LEMMA RecordMoves ==
  ASSUME NEW h \in [Sessions -> HistoryRecords], NEW e \in Events
  PROVE  /\ Recorded(h, e) \in [Sessions -> HistoryRecords]
         /\ Moved(h, Recorded(h, e), {e})
         /\ e.type = "ended" =>
              \/ Recorded(h, e)[e.session].type = "ended"
              \/ h[e.session].revision > e.revision
<1> DEFINE r == [type |-> e.type, revision |-> e.revision]
           k == Recorded(h, e)
<1>1. /\ e.session \in Sessions /\ e.revision \in Nat
      /\ e.type \in {"started", "updated", "ended"} /\ r \in HistoryRecords
      /\ r.type = e.type /\ r.revision = e.revision
  BY DEF Events, HistoryRecords
<1>2. \A s \in Sessions : h[s].revision \in Nat
  BY DEF HistoryRecords
<1>3. CASE Outdated(h[e.session], e)
  <2>1. k = h
    BY <1>3 DEF Recorded
  <2> QED
    BY <1>1, <1>2, <1>3, <2>1 DEF Outdated, Moved
<1>4. CASE ~Outdated(h[e.session], e)
  <2>1. k = [h EXCEPT ![e.session] = r]
    BY <1>4 DEF Recorded
  <2> HIDE DEF k, r
  <2>2. k[e.session] = r /\ \A s \in Sessions : s # e.session => k[s] = h[s]
    BY <1>1, <2>1
  <2>3. k \in [Sessions -> HistoryRecords]
    BY <1>1, <2>1
  <2>4. ~(h[e.session].type = "ended" /\ e.type # "ended") /\ h[e.session].revision <= e.revision
    BY <1>1, <1>2, <1>4 DEF Outdated
  <2>5. Moved(h, k, {e})
    BY <1>1, <1>2, <2>2, <2>4 DEF Moved
  <2> QED
    BY <1>1, <2>2, <2>3, <2>5 DEF k
<1> QED
  BY <1>3, <1>4

LEMMA MovesCompose ==
  ASSUME NEW h \in [Sessions -> HistoryRecords], NEW k \in [Sessions -> HistoryRecords],
         NEW l \in [Sessions -> HistoryRecords], NEW E, NEW F, Moved(h, k, E), Moved(k, l, F)
  PROVE  Moved(h, l, E \cup F)
BY DEF Moved, HistoryRecords

LEMMA NoMove ==
  ASSUME NEW h, NEW E
  PROVE  Moved(h, h, E)
BY DEF Moved

Deliverable(d) ==
  /\ d.history \in [Sessions -> HistoryRecords]
  /\ OrdinaryQueue(d.queue) /\ TerminalQueue(d.priority)

(* What may have become of d when the events E were enqueued               *)
Enqueuing(d, h, q, p, E) ==
  /\ h \in [Sessions -> HistoryRecords] /\ OrdinaryQueue(q) /\ TerminalQueue(p)
  /\ Moved(d.history, h, E)
  /\ Of(q) \subseteq Of(d.queue) \cup E /\ Of(p) \subseteq Of(d.priority) \cup E

LEMMA EnqueuedFacts ==
  ASSUME NEW d, Deliverable(d), NEW e \in Events
  PROVE  LET n == Enqueued(d, e) IN
         /\ Deliverable(n) /\ Enqueuing(d, n.history, n.queue, n.priority, {e})
         /\ e.type = "ended" =>
              \/ n.history[e.session].type = "ended"
              \/ d.history[e.session].revision > e.revision
<1> DEFINE n == Enqueued(d, e)
<1>1. /\ n.history = Recorded(d.history, e)
      /\ n.queue = IF e.type = "ended" THEN d.queue ELSE Put(d.queue, e)
      /\ n.priority = IF e.type = "ended" THEN Put(d.priority, e) ELSE d.priority
  BY DEF Enqueued
<1> HIDE DEF n
<1>2. /\ d.history \in [Sessions -> HistoryRecords]
      /\ OrdinaryQueue(d.queue) /\ TerminalQueue(d.priority)
  BY DEF Deliverable
<1>3. OrdinaryQueue(n.queue) /\ Of(n.queue) \subseteq Of(d.queue) \cup {e}
  BY <1>1, <1>2, PutFits DEF OrdinaryQueue
<1>4. TerminalQueue(n.priority) /\ Of(n.priority) \subseteq Of(d.priority) \cup {e}
  BY <1>1, <1>2, PutFits DEF TerminalQueue
<1>5. /\ n.history \in [Sessions -> HistoryRecords] /\ Moved(d.history, n.history, {e})
      /\ e.type = "ended" =>
           \/ n.history[e.session].type = "ended"
           \/ d.history[e.session].revision > e.revision
  BY <1>1, <1>2, RecordMoves
<1> QED
  BY <1>3, <1>4, <1>5 DEF Deliverable, Enqueuing, n

LEMMA EnqueueFacts ==
  ASSUME NEW d, Deliverable(d), NEW events \in Seq(Events), Enqueue(d, events)
  PROVE  Enqueuing(d, history', queue', priority', Of(events))
<1> DEFINE first == IF events = <<>> THEN d ELSE Enqueued(d, Head(events))
           second == IF Len(events) < 2 THEN first ELSE Enqueued(first, events[2])
<1>1. history' = second.history /\ queue' = second.queue /\ priority' = second.priority
  BY DEF Enqueue
<1>2. /\ Deliverable(first)
      /\ Enqueuing(d, first.history, first.queue, first.priority, Of(events))
  <2>1. CASE events = <<>>
    BY <2>1, NoMove DEF Deliverable, Enqueuing
  <2>2. CASE events # <<>>
    <3>1. Head(events) \in Events /\ Head(events) \in Of(events)
      BY <2>2, Tails, Lists
    <3>2. /\ Deliverable(first)
          /\ Enqueuing(d, first.history, first.queue, first.priority, {Head(events)})
      BY <2>2, <3>1, EnqueuedFacts
    <3> HIDE DEF first
    <3> QED
      BY <3>1, <3>2 DEF Enqueuing, Moved
  <2> QED
    BY <2>1, <2>2
<1> HIDE DEF first
<1>3. CASE Len(events) < 2
  BY <1>1, <1>2, <1>3
<1>4. CASE ~(Len(events) < 2)
  <2>1. events[2] \in Events /\ events[2] \in Of(events)
    BY <1>4 DEF Of
  <2>2. Enqueuing(first, second.history, second.queue, second.priority, {events[2]})
    BY <1>2, <1>4, <2>1, EnqueuedFacts
  <2> HIDE DEF second
  <2>3. Moved(d.history, second.history, Of(events) \cup {events[2]})
    BY <1>2, <2>2, MovesCompose DEF Enqueuing, Deliverable
  <2>4. Of(events) \cup {events[2]} = Of(events)
    BY <2>1
  <2> QED
    BY <1>1, <1>2, <2>1, <2>2, <2>3, <2>4 DEF Enqueuing
<1> QED
  BY <1>3, <1>4

-----------------------------------------------------------------------------
(* The inductive invariant                                                 *)

(* Events of handlers that have not enqueued them, and all events on their way *)
Pending == UNION {Of(events) : events \in leaving}
Sent == Pending \cup Of(queue) \cup Of(priority)

(* The types, in parts *)
CarTyped ==
  /\ car \in Cars /\ (car.active => car.session # 0 /\ car.leg.to # Nowhere)
  /\ car.session <= sessions /\ sessions \in 0..MaxSessions
BaselineTyped ==
  baseline \in Baselines /\ (baseline.changed # NoRoute => baseline.changed.to # Nowhere)
FlowTyped ==
  /\ leaving \subseteq Seq(Events) /\ \A events \in leaving : events # <<>>
  /\ OrdinaryQueue(queue) /\ TerminalQueue(priority)
  /\ history \in [Sessions -> HistoryRecords]
TimersTyped ==
  /\ update \in BOOLEAN /\ alert \in Sessions \cup {0}
  /\ late \subseteq Sessions \cup {0} /\ reading \subseteq Sessions
TallyTyped ==
  /\ grace \in BOOLEAN /\ owing \in BOOLEAN
  /\ tries \in [ordinary : 0..(Attempts - 1), terminal : 0..(Attempts - 1)]
  /\ minted \in 0..sessions /\ again \subseteq Sessions
  /\ earned \subseteq Sessions /\ lost \subseteq Sessions

TypeInv == CarTyped /\ BaselineTyped /\ FlowTyped /\ TimersTyped /\ TallyTyped

(* The session under way *)
Under(c, s) == c.active /\ c.session = s

(* A banner may still come for a session that was seen to begin only.      *)
Discreet(c) == c.active /\ (c.mode = "live" \/ ~c.alerted) => c.session \in earned

(* What a restart finds: like the car and the record, but of some time ago *)
FileInv ==
  /\ carFile \in Cars /\ (carFile.active => carFile.session # 0 /\ carFile.leg.to # Nowhere)
  /\ carFile.session <= sessions /\ Discreet(carFile)
  /\ historyFile \in [Sessions -> HistoryRecords]
  /\ \A s \in Sessions : s > sessions => historyFile[s] = NoHistory

(* Only sessions that were begun are heard of.                             *)
Known ==
  /\ \A e \in Sent : e.session <= sessions
  /\ \A s \in Sessions : s > sessions => history[s] = NoHistory

(* The car has left the fleet for good, and its count of events is lost.   *)
Gone == car.session = 0 /\ sessions = MaxSessions

(* Nothing on its way or on record is newer than the car.                  *)
Bounded(s) ==
  /\ history[s].revision <= car.revision
  /\ \A e \in Sent : e.session = s => e.revision <= car.revision

(* The session under way has not ended anywhere, unless it has the name of *)
(* one that has.                                                           *)
Running ==
  car.active /\ car.session \notin lost =>
    /\ history[car.session].type = "ended" \/ Bounded(car.session)
    /\ car.session \notin again =>
         /\ history[car.session].type # "ended"
         /\ \A e \in Sent : e.session = car.session => e.type # "ended"

(* The last that is said of a session, so that the record will not take it *)
(* for outdated                                                            *)
Final(e) ==
  /\ e.type = "ended" /\ history[e.session].revision <= e.revision
  /\ \A f \in Sent : f.session = e.session => f.revision <= e.revision

(* Any other session has ended on record, or a handler holds its end.      *)
Over ==
  \A s \in 1..sessions \ lost :
    ~Under(car, s) =>
      \/ history[s].type = "ended"
      \/ \E e \in Pending : e.session = s /\ Final(e)

(* A session that takes the name of another goes on counting from there.   *)
Behind == \A e \in Pending : e.revision <= car.revision \/ Gone

Quiet ==
  /\ Discreet(car)
  /\ \A e \in Sent : e.type = "started" /\ e.to # "card" => e.session \in earned

SessionInv == Known /\ Running /\ Over /\ Behind /\ Quiet

-----------------------------------------------------------------------------
(* The shape of a step that makes the events "new"                         *)

(* The session goes on or ends, or another begins: under a name of its own *)
(* or under the one of the present second.                                 *)
Proceeds ==
  \/ /\ sessions' = sessions
     /\ car'.active => car.active /\ car'.session = car.session
  \/ sessions' = sessions + 1 /\ Under(car', sessions + 1)
  \/ sessions' = sessions /\ Under(car', minted) /\ minted \in again' /\ ~Gone

Leaving == car.active /\ ~Under(car', car.session)

Speaks(e) ==
  /\ Under(car', e.session) /\ e.revision <= car'.revision
  /\ e.type = "ended" => e.session \in again'
  /\ e.type = "started" /\ e.to # "card" => e.session \in earned'

Closes(e) ==
  /\ e.type = "ended" /\ e \in Pending' /\ Leaving
  /\ e.session = car.session /\ e.revision = car.revision + 1
  /\ Gone' \/ e.revision <= car'.revision

Shape(new) ==
  /\ new \subseteq Events
  /\ Pending' \subseteq Pending \cup new /\ Sent' \subseteq Sent \cup new
  /\ Moved(history, history', Sent \cup new)
  /\ lost \subseteq lost' /\ earned \subseteq earned' /\ again \subseteq again'
  /\ Proceeds /\ (Gone => Gone') /\ (Gone' \/ car.revision <= car'.revision)
  /\ Discreet(car)'
  /\ \A e \in new : Speaks(e) \/ Closes(e)
  /\ Leaving => \E e \in new : Closes(e)
  /\ \A e \in Pending : e.type = "ended" =>
       \/ e \in Pending' \/ e.session \in lost'
       \/ history'[e.session].type = "ended" \/ history[e.session].revision > e.revision

(* The types in the form the lemmas below need *)
Typed ==
  /\ car \in Cars /\ car.active \in BOOLEAN /\ car.revision \in Nat
  /\ car.session \in Sessions \cup {0} /\ (car.active => car.session \in Sessions)
  /\ sessions \in 0..MaxSessions
  /\ Pending \subseteq Events /\ Sent \subseteq Events
  /\ history \in [Sessions -> HistoryRecords]

LEMMA TypeParts == TypeInv => Typed
<1> SUFFICES ASSUME TypeInv PROVE Typed
  OBVIOUS
<1>1. /\ car \in Cars /\ car.active \in BOOLEAN /\ car.revision \in Nat
      /\ car.session \in Sessions \cup {0} /\ (car.active => car.session \in Sessions)
      /\ sessions \in 0..MaxSessions
  BY CarShape DEF TypeInv, CarTyped
<1>2. \A q \in Seq(Events) : Of(q) \subseteq Events
  <2>1. ASSUME NEW q \in Seq(Events), NEW i \in DOMAIN q
        PROVE  q[i] \in Events
    OBVIOUS
  <2> QED
    BY <2>1 DEF Of
<1>3. Pending \subseteq Events
  BY <1>2 DEF Pending, TypeInv, FlowTyped
<1>4. Sent \subseteq Events
  BY <1>2, <1>3 DEF Sent, OrdinaryQueue, TerminalQueue, TypeInv, FlowTyped
<1> QED
  BY <1>1, <1>3, <1>4 DEF TypeInv, FlowTyped, Typed

LEMMA ShapeTypes ==
  ASSUME TypeInv, TypeInv'
  PROVE  /\ car.revision \in Nat /\ car'.revision \in Nat /\ car.active \in BOOLEAN
         /\ car'.active \in BOOLEAN /\ sessions \in Nat /\ sessions' \in Nat
         /\ car.session \in Nat /\ car'.session \in Nat /\ car.session <= sessions
         /\ car'.session <= sessions' /\ Sent \subseteq Events /\ Pending \subseteq Sent
         /\ history \in [Sessions -> HistoryRecords] /\ Sent' \subseteq Events
         /\ history' \in [Sessions -> HistoryRecords] /\ Sessions \subseteq Nat
         /\ (car.active => car.session \in Sessions)
         /\ (car'.active => car'.session \in Sessions) /\ Pending' \subseteq Sent'
         /\ \A e \in Events : e.session \in Sessions /\ e.revision \in Nat
         /\ \A s \in Sessions : history[s].revision \in Nat /\ history'[s].revision \in Nat
<1>1. /\ car.revision \in Nat /\ car.active \in BOOLEAN /\ sessions \in 0..MaxSessions
      /\ car.session \in Sessions \cup {0} /\ car.session <= sessions
      /\ Sent \subseteq Events /\ history \in [Sessions -> HistoryRecords]
      /\ (car.active => car.session \in Sessions)
  BY TypeParts DEF TypeInv, CarTyped, Typed
<1>2. /\ car'.revision \in Nat /\ car'.active \in BOOLEAN /\ sessions' \in 0..MaxSessions
      /\ car'.session \in Sessions \cup {0} /\ car'.session <= sessions'
      /\ Sent' \subseteq Events /\ history' \in [Sessions -> HistoryRecords]
      /\ (car'.active => car'.session \in Sessions)
  <2>1. Typed'
    BY TypeParts, PTL
  <2> QED
    BY <2>1 DEF TypeInv, CarTyped, Typed
<1>3. Sessions \subseteq Nat
  BY DEF Sessions
<1>4. \A e \in Events : e.session \in Sessions /\ e.revision \in Nat
  BY DEF Events
<1>5. \A s \in Sessions : history[s].revision \in Nat /\ history'[s].revision \in Nat
  BY <1>1, <1>2 DEF HistoryRecords
<1>6. Pending \subseteq Sent /\ Pending' \subseteq Sent'
  BY DEF Sent
<1>7. sessions \in Nat /\ sessions' \in Nat /\ car.session \in Nat /\ car'.session \in Nat
  <2>1. \A n \in 0..MaxSessions : n \in Nat
    BY Constants
  <2>2. \A n \in Sessions \cup {0} : n \in Nat
    BY <1>3
  <2> QED
    BY <1>1, <1>2, <2>1, <2>2, Zenon
<1> QED
  BY <1>1, <1>2, <1>3, <1>4, <1>5, <1>6, <1>7, Zenon

LEMMA ShapeKeepsKnown ==
  ASSUME TypeInv, TypeInv', SessionInv, NEW new, Shape(new)
  PROVE  Known'
<1>1. sessions <= sessions'
  BY ShapeTypes DEF Shape, Proceeds
<1>2. \A e \in Sent \cup new : e.session <= sessions'
  BY <1>1, ShapeTypes DEF SessionInv, Known, Shape, Speaks, Closes, Under
<1>3. \A e \in Sent' : e.session <= sessions'
  BY <1>2 DEF Shape
<1>4. ASSUME NEW s \in Sessions, s > sessions'
      PROVE  history'[s] = NoHistory
  <2>1. history[s] = NoHistory
    BY <1>1, <1>4, ShapeTypes DEF SessionInv, Known
  <2>2. \A e \in Sent \cup new : e.session # s
    BY <1>2, <1>4, ShapeTypes DEF Shape
  <2> QED
    BY <2>1, <2>2 DEF Shape, Moved
<1> QED
  BY <1>3, <1>4 DEF Known

(* Nothing old is newer than the car of the session that is now under way. *)
LEMMA ShapeSpeaks ==
  ASSUME TypeInv, TypeInv', SessionInv, NEW new, Shape(new),
         car'.active, car'.session \notin lost'
  PROVE  \/ history[car'.session].type = "ended"
         \/ /\ history[car'.session].revision <= car'.revision
            /\ \A e \in Sent : e.session = car'.session => e.revision <= car'.revision
<1> DEFINE s == car'.session
<1>1. s \in Sessions /\ s \notin lost /\ car.revision <= car'.revision
  <2>1. s \in Sessions /\ ~Gone'
    BY ShapeTypes, Constants DEF Gone, Sessions
  <2> QED
    BY <2>1 DEF Shape
<1>2. CASE Under(car, s)
  <2>1. history[s].type = "ended" \/ Bounded(s)
    BY <1>1, <1>2 DEF SessionInv, Running, Under
  <2> QED
    BY <1>1, <2>1, ShapeTypes DEF Bounded
<1>3. CASE sessions' = sessions + 1 /\ s = sessions + 1
  <2>1. history[s] = NoHistory /\ s > sessions
    BY <1>1, <1>3, ShapeTypes DEF SessionInv, Known
  <2>2. \A e \in Sent : e.session # s
    BY <2>1, ShapeTypes DEF SessionInv, Known
  <2> QED
    BY <1>1, <2>1, <2>2, ShapeTypes DEF NoHistory
<1>4. CASE ~Under(car, s) /\ sessions' = sessions /\ ~Gone
  <2>1. s \in 1..sessions \ lost
    BY <1>1, <1>4, ShapeTypes DEF Sessions
  <2>2. CASE history[s].type = "ended"
    BY <2>2
  <2>3. ASSUME NEW e \in Pending, e.session = s, Final(e)
        PROVE  /\ history[s].revision <= car'.revision
               /\ \A f \in Sent : f.session = s => f.revision <= car'.revision
    <3>1. e.revision <= car.revision /\ e \in Events
      BY <1>4, ShapeTypes DEF SessionInv, Behind
    <3>2. e.revision <= car'.revision /\ e.revision \in Nat
      BY <1>1, <3>1, ShapeTypes
    <3> QED
      BY <1>1, <2>3, <3>2, ShapeTypes DEF Final
  <2> QED
    BY <1>4, <2>1, <2>2, <2>3 DEF SessionInv, Over
<1> QED
  BY <1>2, <1>3, <1>4 DEF Shape, Proceeds, Under

LEMMA ShapeKeepsBounded ==
  ASSUME TypeInv, TypeInv', SessionInv, NEW new, Shape(new),
         car'.active, car'.session \notin lost'
  PROVE  history'[car'.session].type = "ended" \/ Bounded(car.session)'
<1> DEFINE s == car'.session
<1>1. s \in Sessions /\ ~Gone'
  BY ShapeTypes, Constants DEF Gone, Sessions
<1>2. CASE history[s].type = "ended"
  BY <1>1, <1>2 DEF Shape, Moved
<1>3. CASE /\ history[s].revision <= car'.revision
           /\ \A e \in Sent : e.session = s => e.revision <= car'.revision
  <2>1. \A e \in Sent \cup new : e.session = s => e.revision <= car'.revision
    BY <1>1, <1>3 DEF Shape, Speaks, Closes
  <2>2. history'[s].revision <= car'.revision
    BY <1>1, <1>3, <2>1 DEF Shape, Moved
  <2> QED
    BY <2>1, <2>2 DEF Shape, Bounded
<1> QED
  BY <1>2, <1>3, ShapeSpeaks

LEMMA ShapeKeepsRunning ==
  ASSUME TypeInv, TypeInv', SessionInv, NEW new, Shape(new)
  PROVE  Running'
<1> SUFFICES ASSUME car'.active, car'.session \notin lost', car'.session \notin again'
             PROVE  /\ history'[car'.session].type # "ended"
                    /\ \A e \in Sent' : e.session = car'.session => e.type # "ended"
  BY ShapeKeepsBounded DEF Running
<1> DEFINE s == car'.session
<1>1. s \in Sessions /\ s \notin lost /\ s \notin again
  BY ShapeTypes DEF Shape
<1>2. /\ history[s].type # "ended"
      /\ \A e \in Sent : e.session = s => e.type # "ended"
  <2>1. CASE Under(car, s)
    BY <1>1, <2>1 DEF SessionInv, Running, Under
  <2>2. CASE sessions' = sessions + 1 /\ s = sessions + 1
    <3>1. history[s] = NoHistory /\ s > sessions
      BY <1>1, <2>2, ShapeTypes DEF SessionInv, Known
    <3>2. \A e \in Sent : e.session # s
      BY <3>1, ShapeTypes DEF SessionInv, Known
    <3> QED
      BY <3>1, <3>2 DEF NoHistory
  <2> QED
    BY <2>1, <2>2 DEF Shape, Proceeds, Under
<1>3. \A e \in new : e.session = s => e.type # "ended"
  BY DEF Shape, Speaks, Closes, Leaving, Under
<1>4. history'[s] = history[s]
      \/ \E e \in Sent \cup new : e.session = s /\ history'[s].type = e.type
  BY <1>1 DEF Shape, Moved
<1> QED
  BY <1>2, <1>3, <1>4 DEF Shape

LEMMA ShapeKeepsOver ==
  ASSUME TypeInv, TypeInv', SessionInv, NEW new, Shape(new)
  PROVE  Over'
<1> SUFFICES ASSUME NEW s \in 1..sessions', s \notin lost', ~Under(car', s),
                    history'[s].type # "ended"
             PROVE  \E e \in Pending' : e.session = s /\ Final(e)'
  BY DEF Over
<1>1. s \in 1..sessions \ lost
  <2>1. s <= sessions
    BY ShapeTypes DEF Shape, Proceeds, Under
  <2> QED
    BY <2>1, ShapeTypes DEF Shape
<1>2. s \in Sessions /\ history[s].type # "ended"
  <2>1. s \in Sessions
    BY <1>1, ShapeTypes, TypeParts, Constants DEF Typed, Sessions
  <2> QED
    BY <2>1 DEF Shape, Moved
(* An event that all on its way of the session is not newer than           *)
<1>3. ASSUME NEW e \in Pending', e \in Events, e.session = s, e.type = "ended",
             history[s].revision <= e.revision,
             \A f \in Sent \cup new : f.session = s => f.revision <= e.revision
      PROVE  Final(e)'
  <2>1. history'[s].revision <= e.revision
    BY <1>2, <1>3 DEF Shape, Moved
  <2> QED
    BY <1>3, <2>1 DEF Shape, Final
<1>4. \A f \in new : f.session = s => Closes(f)
  BY DEF Shape, Speaks
<1>5. CASE Under(car, s)
  <2>1. PICK e \in new : Closes(e)
    BY <1>5 DEF Shape, Leaving, Under
  <2>2. /\ e \in Pending' /\ e \in Events /\ e.session = s /\ e.type = "ended"
        /\ e.revision = car.revision + 1
    BY <1>5, <2>1 DEF Closes, Under, Shape
  <2>3. Bounded(s)
    BY <1>1, <1>2, <1>5 DEF SessionInv, Running, Under
  <2>4. /\ history[s].revision <= e.revision
        /\ \A f \in Sent : f.session = s => f.revision <= e.revision
    BY <1>2, <2>2, <2>3, ShapeTypes DEF Bounded
  <2>5. \A f \in new : f.session = s => f.revision <= e.revision
    BY <1>4, <2>2, ShapeTypes DEF Closes
  <2> QED
    BY <1>3, <2>2, <2>4, <2>5
<1>6. CASE ~Under(car, s)
  <2>1. PICK e \in Pending : e.session = s /\ Final(e)
    BY <1>1, <1>2, <1>6 DEF SessionInv, Over
  <2>2. \A f \in new : f.session # s
    BY <1>4, <1>6 DEF Closes, Leaving, Under
  <2>3. e \in Events /\ e \in Pending'
    <3>1. e \in Events /\ e.type = "ended" /\ ~(history[s].revision > e.revision)
      BY <1>2, <2>1, ShapeTypes DEF Final
    <3> QED
      BY <2>1, <3>1 DEF Shape
  <2> QED
    BY <1>3, <2>1, <2>2, <2>3 DEF Final
<1> QED
  BY <1>5, <1>6

LEMMA ShapeKeepsBehind ==
  ASSUME TypeInv, TypeInv', SessionInv, NEW new, Shape(new)
  PROVE  Behind'
<1> SUFFICES ASSUME NEW e \in Pending', ~Gone'
             PROVE  e.revision <= car'.revision
  BY DEF Behind
<1>1. e \in Events /\ car.revision <= car'.revision /\ ~Gone
  BY ShapeTypes DEF Shape
<1>2. CASE e \in Pending
  <2>1. e.revision <= car.revision
    BY <1>1, <1>2 DEF SessionInv, Behind
  <2> QED
    BY <1>1, <2>1, ShapeTypes
<1>3. CASE e \in new
  BY <1>3 DEF Shape, Speaks, Closes
<1> QED
  BY <1>2, <1>3 DEF Shape

LEMMA ShapeKeepsQuiet ==
  ASSUME TypeInv, TypeInv', SessionInv, NEW new, Shape(new)
  PROVE  Quiet'
<1>1. \A e \in Sent \cup new : e.type = "started" /\ e.to # "card" => e.session \in earned'
  BY DEF SessionInv, Quiet, Shape, Speaks, Closes
<1>2. \A e \in Sent' : e.type = "started" /\ e.to # "card" => e.session \in earned'
  BY <1>1 DEF Shape
<1> QED
  BY <1>2 DEF Shape, Quiet

LEMMA ShapeKeeps ==
  ASSUME TypeInv, TypeInv', SessionInv, NEW new, Shape(new)
  PROVE  SessionInv'
BY ShapeKeepsKnown, ShapeKeepsRunning, ShapeKeepsOver, ShapeKeepsBehind, ShapeKeepsQuiet
   DEF SessionInv

-----------------------------------------------------------------------------
(* What a step does to the events on their way                             *)

(* No handler's events are lost, and some new ones are on their way. *)
Carried(new) ==
  /\ new \subseteq Events
  /\ Pending \subseteq Pending' /\ Pending' \subseteq Pending \cup new
  /\ Sent' \subseteq Sent \cup new
  /\ Moved(history, history', Sent \cup new)

LEMMA FlowStays ==
  ASSUME TypeInv, UNCHANGED <<leaving, queue, priority, history>>
  PROVE  FlowTyped' /\ Carried({})
<1>1. FlowTyped
  BY DEF TypeInv
<1> QED
  BY <1>1, NoMove DEF FlowTyped, Carried, Pending, Sent

LEMMA FlowLeaves ==
  ASSUME TypeInv, NEW events \in Seq(Events), events # <<>>, Leaves(events),
         UNCHANGED <<queue, priority, history>>
  PROVE  FlowTyped' /\ Carried(Of(events)) /\ Of(events) \subseteq Pending'
<1>1. FlowTyped
  BY DEF TypeInv
<1>2. leaving' = leaving \cup {events}
  BY DEF Leaves
<1>3. Pending' = Pending \cup Of(events)
  BY <1>2 DEF Pending
<1>4. Of(events) \subseteq Events
  <2>1. ASSUME NEW i \in DOMAIN events PROVE events[i] \in Events
    OBVIOUS
  <2> QED
    BY <2>1 DEF Of
<1>5. Moved(history, history', Sent \cup Of(events))
  BY NoMove
<1>6. Sent' = Sent \cup Of(events)
  BY <1>3 DEF Sent
<1> QED
  BY <1>1, <1>2, <1>3, <1>4, <1>5, <1>6 DEF FlowTyped, Carried

LEMMA FlowEnqueues ==
  ASSUME TypeInv, NEW events \in Seq(Events), UNCHANGED leaving,
         \/ Enqueue(Holding(queue), events)
         \/ queue # <<>> /\ Enqueue(Holding(Tail(queue)), events)
  PROVE  FlowTyped' /\ Carried(Of(events))
<1>1. FlowTyped
  BY DEF TypeInv
<1>2. PICK q : /\ \/ q = queue
                  \/ queue # <<>> /\ q = Tail(queue)
               /\ Enqueue(Holding(q), events)
  <2>1. CASE Enqueue(Holding(queue), events)
    BY <2>1
  <2>2. CASE queue # <<>> /\ Enqueue(Holding(Tail(queue)), events)
    BY <2>2
  <2> QED
    BY <2>1, <2>2
<1>3. OrdinaryQueue(q) /\ Of(q) \subseteq Of(queue)
  BY <1>1, <1>2, TailFits, Tails DEF FlowTyped, OrdinaryQueue
<1>4. Holding(q).history = history /\ Holding(q).queue = q /\ Holding(q).priority = priority
  BY DEF Holding
<1>5. Deliverable(Holding(q))
  BY <1>1, <1>3, <1>4 DEF Deliverable, FlowTyped
<1>6. Enqueuing(Holding(q), history', queue', priority', Of(events))
  BY <1>2, <1>5, EnqueueFacts
<1>7. /\ history' \in [Sessions -> HistoryRecords] /\ OrdinaryQueue(queue') /\ TerminalQueue(priority')
      /\ Moved(history, history', Of(events))
      /\ Of(queue') \subseteq Of(queue) \cup Of(events)
      /\ Of(priority') \subseteq Of(priority) \cup Of(events)
  BY <1>3, <1>4, <1>6 DEF Enqueuing
<1>8. Of(events) \subseteq Events
  <2>1. ASSUME NEW i \in DOMAIN events PROVE events[i] \in Events
    OBVIOUS
  <2> QED
    BY <2>1 DEF Of
<1>9. Moved(history, history', Sent \cup Of(events))
  BY <1>7 DEF Moved
<1>10. Pending' = Pending
  BY DEF Pending
<1>11. Sent' \subseteq Sent \cup Of(events)
  BY <1>7, <1>10 DEF Sent
<1> QED
  BY <1>1, <1>7, <1>8, <1>9, <1>10, <1>11 DEF FlowTyped, Carried

-----------------------------------------------------------------------------
(* The shapes of the actions                                               *)

(* A step within the session under way, or without one *)
Stays(new) ==
  /\ SameSession(car, car') /\ car.revision <= car'.revision
  /\ UNCHANGED <<sessions, again, earned, lost>>
  /\ \A e \in new : /\ e.type # "ended" /\ car.active /\ e.session = car.session
                    /\ e.revision <= car'.revision
                    /\ e.type = "started" /\ e.to # "card" => e.session \in earned

LEMMA StaysShape ==
  ASSUME TypeInv, SessionInv, NEW new, Carried(new), Stays(new)
  PROVE  Shape(new)
<1>1. Proceeds /\ ~Leaving /\ (Gone => Gone')
  BY DEF Stays, SameSession, Proceeds, Leaving, Under, Gone
<1>2. Discreet(car)'
  BY DEF Stays, SameSession, SessionInv, Quiet, Discreet
<1>3. \A e \in new : Speaks(e)
  BY DEF Stays, SameSession, Speaks, Under
<1> QED
  BY <1>1, <1>2, <1>3 DEF Stays, Carried, Shape

(* A session ends and its end leaves. *)
LEMMA EndShape ==
  ASSUME TypeInv, SessionInv, NEW e, Carried({e}), e \in Pending',
         car.active, ~car'.active, UNCHANGED <<sessions, again, earned, lost>>,
         car.revision + 1 <= car'.revision \/ Gone', car'.revision \in Nat,
         e.type = "ended", e.session = car.session, e.revision = car.revision + 1
  PROVE  Shape({e})
<1>1. ~Gone /\ (car.revision <= car'.revision \/ Gone')
  BY CarShape DEF Gone, TypeInv, CarTyped
<1>2. Proceeds /\ Leaving /\ Discreet(car)'
  BY DEF Proceeds, Leaving, Under, Discreet
<1>3. Closes(e)
  BY <1>2 DEF Closes
<1> QED
  BY <1>1, <1>2, <1>3 DEF Carried, Shape

(* The name of a session that begins: its own, or that of the present second *)
Names(s) ==
  \/ s = sessions + 1 /\ sessions' = sessions + 1 /\ sessions < MaxSessions /\ again' = again
  \/ s = minted /\ minted # 0 /\ sessions' = sessions /\ again' = again \cup {s}

LEMMA NewSession ==
  ASSUME TypeInv, NEW s, Names(s)
  PROVE  /\ s \in Sessions /\ s # 0 /\ s <= sessions' /\ sessions' \in 0..MaxSessions
         /\ earned \subseteq Sessions /\ earned \cup {s} \subseteq Sessions
         /\ again' \subseteq Sessions
<1>1. /\ sessions \in 0..MaxSessions /\ minted \in 0..sessions
      /\ earned \subseteq Sessions /\ again \subseteq Sessions
  BY DEF TypeInv, CarTyped, TallyTyped
<1>2. CASE s = sessions + 1 /\ sessions' = sessions + 1 /\ sessions < MaxSessions /\ again' = again
  <2>1. s \in Sessions /\ s # 0 /\ s <= sessions' /\ sessions' \in 0..MaxSessions
    BY <1>1, <1>2, Constants DEF Sessions
  <2> QED
    BY <1>1, <1>2, <2>1
<1>3. CASE s = minted /\ minted # 0 /\ sessions' = sessions /\ again' = again \cup {s}
  <2>1. s \in Sessions /\ s # 0 /\ s <= sessions' /\ sessions' \in 0..MaxSessions
    BY <1>1, <1>3, Constants DEF Sessions
  <2> QED
    BY <1>1, <1>3, <2>1
<1> QED
  BY <1>2, <1>3 DEF Names

(* A session begins, after the end of the one before it if there was one;  *)
(* under the same name, both are spoken of together.                       *)
LEMMA BeginShape ==
  ASSUME TypeInv, SessionInv, NEW start, NEW new, Carried(new), new \subseteq Pending',
         NEW s, Names(s), ~Gone, Under(car', s), UNCHANGED lost,
         car'.revision \in Nat, car.revision + 1 <= car'.revision,
         start \in new, start.type = "started",
         start.session = s, start.revision <= car'.revision,
         earned \subseteq earned',
         car'.mode = "live" \/ ~car'.alerted \/ start.to # "card" => s \in earned',
         \/ new = {start} /\ ~car.active
         \/ \E end \in new : /\ new = {start, end} /\ end.type = "ended" /\ car.active
                             /\ end.session = car.session /\ end.revision = car.revision + 1
  PROVE  Shape(new)
<1>1. Proceeds /\ again \subseteq again'
  BY DEF Proceeds, Names, Under
<1>2. Speaks(start) /\ Discreet(car)'
  BY DEF Speaks, Under, Discreet
<1>3. car.revision <= car'.revision
  BY CarShape DEF TypeInv, CarTyped
<1>4. CASE new = {start} /\ ~car.active
  BY <1>1, <1>2, <1>3, <1>4 DEF Carried, Shape, Leaving
<1>5. ASSUME NEW end \in new, new = {start, end}, end.type = "ended", car.active,
             end.session = car.session, end.revision = car.revision + 1
      PROVE  Shape(new)
  <2>1. CASE s = car.session
    <3>1. s \in again'
      <4>1. car.session \in Nat /\ sessions \in Nat /\ car.session <= sessions
        BY CarShape, Constants DEF TypeInv, CarTyped, Sessions
      <4> QED
        BY <2>1, <4>1 DEF Names
    <3>2. Speaks(end) /\ ~Leaving
      BY <1>5, <2>1, <3>1 DEF Speaks, Leaving, Under
    <3> QED
      BY <1>1, <1>2, <1>3, <1>5, <3>2 DEF Carried, Shape
  <2>2. CASE s # car.session
    <3>1. Leaving
      BY <1>5, <2>2 DEF Leaving, Under
    <3>2. Closes(end)
      BY <1>5, <3>1 DEF Closes
    <3> QED
      BY <1>1, <1>2, <1>3, <1>5, <3>1, <3>2 DEF Carried, Shape
  <2> QED
    BY <2>1, <2>2
<1> QED
  BY <1>4, <1>5

-----------------------------------------------------------------------------
(* The actions                                                             *)

NewTypes == CarTyped' /\ BaselineTyped' /\ FlowTyped' /\ TimersTyped' /\ TallyTyped'

LEMMA NewTypesHold ==
  ASSUME NewTypes
  PROVE  TypeInv'
<1>1. CarTyped' /\ BaselineTyped' /\ FlowTyped' /\ TimersTyped' /\ TallyTyped'
  BY DEF NewTypes
<1> QED
  BY <1>1, PTL DEF TypeInv

LEMMA StayStep ==
  ASSUME TypeInv, SessionInv, NewTypes, NEW new, Carried(new), Stays(new)
  PROVE  TypeInv' /\ \E n : Shape(n)
BY NewTypesHold, StaysShape

LEMMA CarStays ==
  ASSUME CarTyped, car' \in Cars, SameSession(car, car'), car'.leg = car.leg,
         UNCHANGED sessions
  PROVE  CarTyped'
BY DEF CarTyped, SameSession

LEMMA CarIdles ==
  ASSUME CarTyped, car' \in Cars, ~car'.active, car'.session \in {0, car.session},
         UNCHANGED sessions
  PROVE  CarTyped'
BY DEF CarTyped

LEMMA LateTypes ==
  ASSUME TimersTyped, NEW names \in SUBSET (Sessions \cup {0})
  PROVE  /\ late' \in MayBeLate(names) => late' \subseteq Sessions \cup {0}
         /\ UpdateNames \subseteq Sessions \cup {0} /\ AlertNames \subseteq Sessions \cup {0}
BY DEF TimersTyped, MayBeLate, UpdateNames, AlertNames

LEMMA StoppedTypes ==
  ASSUME TimersTyped, StopBoth \/ StopUpdate \/ UNCHANGED timers, reading' \subseteq Sessions
  PROVE  TimersTyped'
<1>1. UpdateNames \subseteq Sessions \cup {0} /\ AlertNames \subseteq Sessions \cup {0}
  BY LateTypes
<1>2. CASE StopBoth
  <2>1. late' \subseteq Sessions \cup {0}
    BY <1>1, <1>2, LateTypes DEF StopBoth
  <2> QED
    BY <1>2, <2>1 DEF StopBoth, TimersTyped
<1>3. CASE StopUpdate
  <2>1. late' \subseteq Sessions \cup {0}
    BY <1>1, <1>3, LateTypes DEF StopUpdate
  <2> QED
    BY <1>3, <2>1 DEF StopUpdate, TimersTyped
<1>4. CASE UNCHANGED timers
  BY <1>4 DEF timers, TimersTyped
<1> QED
  BY <1>2, <1>3, <1>4

(* The car with an event of its own: an update, or its start once more *)
LEMMA Announces ==
  ASSUME CarTyped, car.active, car' \in Cars, SameSession(car, car'),
         car'.revision = car.revision + 1, NEW type \in {"started", "updated"},
         NEW to \in {"card", "banner", "both"}
  PROVE  LET e == Event(type, car', to) IN
         /\ e \in Events /\ e.type = type /\ e.type # "ended" /\ e.to = to
         /\ e.session = car.session /\ e.revision <= car'.revision
         /\ car.revision <= car'.revision
<1>1. car'.session # 0 /\ car'.session = car.session
  BY DEF CarTyped, SameSession
<1>2. LET e == Event(type, car', to) IN
      e \in Events /\ e.type = type /\ e.to = to /\ e.session = car.session
      /\ e.revision = car'.revision
  BY <1>1, EventType
<1>3. car.revision \in Nat /\ car'.revision \in Nat
  BY CarShape DEF CarTyped
<1> QED
  BY <1>2, <1>3

LEMMA FlushUpdateStep ==
  ASSUME TypeInv, SessionInv, FlushUpdate
  PROVE  TypeInv' /\ \E new : Shape(new)
<1>1. CarTyped /\ BaselineTyped /\ TimersTyped /\ TallyTyped
  BY DEF TypeInv
<1>2. TimersTyped'
  BY <1>1 DEF FlushUpdate, TimersTyped
<1>3. BaselineTyped' /\ UNCHANGED <<leaving, sessions, minted, again, earned, lost, grace>>
  BY <1>1 DEF FlushUpdate, BaselineTyped, naming, ghosts
<1>4. CASE Ready(baseline) /\ car.active /\ car.started
  <2> DEFINE e == Event("updated", car', "card")
  <2>1. car' = Made(car) /\ Enqueues(<<e>>) /\ owing' = FALSE
    BY <1>4 DEF FlushUpdate
  <2>2. /\ car' \in Cars /\ SameSession(car, car') /\ car'.revision = car.revision + 1
        /\ car'.leg = car.leg
    BY <1>1, <2>1, MadeType DEF CarTyped
  <2>3. /\ e \in Events /\ e.type = "updated" /\ e.to = "card" /\ e.session = car.session
        /\ e.revision <= car'.revision /\ car.revision <= car'.revision
    BY <1>1, <1>4, <2>2, Announces
  <2> HIDE DEF e
  <2>4. FlowTyped' /\ Carried({e})
    BY <1>3, <2>1, <2>3, FlowEnqueues, Singles DEF Enqueues
  <2>5. Stays({e})
    BY <1>3, <1>4, <2>2, <2>3 DEF Stays
  <2>6. CarTyped' /\ TallyTyped'
    BY <1>1, <1>3, <2>1, <2>2, CarStays DEF Enqueues, TallyTyped
  <2> QED
    BY <1>2, <1>3, <2>4, <2>5, <2>6, StayStep DEF NewTypes
<1>5. CASE ~(Ready(baseline) /\ car.active /\ car.started)
  <2>1. UNCHANGED <<car, delivery, owing>>
    BY <1>5 DEF FlushUpdate
  <2>2. FlowTyped' /\ Carried({})
    BY <1>3, <2>1, FlowStays DEF delivery
  <2>3. Stays({})
    BY <1>1, <1>3, <2>1, CarShape DEF Stays, SameSession, CarTyped
  <2>4. CarTyped' /\ TallyTyped'
    BY <1>1, <1>3, <2>1 DEF CarTyped, TallyTyped, delivery
  <2> QED
    BY <1>2, <1>3, <2>2, <2>3, <2>4, StayStep DEF NewTypes
<1> QED
  BY <1>4, <1>5

LEMMA ToldType ==
  ASSUME NEW c \in Cars, NEW named \in BOOLEAN, NEW d,
         d = [Made(c) EXCEPT !.alerted = TRUE, !.named = named]
  PROVE  /\ d \in Cars /\ SameSession(c, d) /\ d.leg = c.leg
         /\ d.revision = c.revision + 1 /\ d.alerted /\ d.started = c.started
<1> DEFINE m == Made(c)
<1>1. m \in Cars /\ SameSession(c, m) /\ m.revision = c.revision + 1
      /\ m.leg = c.leg /\ m.started = c.started
  BY MadeType
<1> HIDE DEF m
<1>2. d = [m EXCEPT !.alerted = TRUE, !.named = named]
  BY DEF m
<1>3. /\ d \in Cars /\ d.alerted = TRUE /\ d.active = m.active /\ d.session = m.session
      /\ d.mode = m.mode /\ d.leg = m.leg /\ d.revision = m.revision
      /\ d.started = m.started
  BY <1>1, <1>2 DEF Cars
<1> QED
  BY <1>1, <1>3 DEF SameSession

LEMMA FlushAlertStep ==
  ASSUME TypeInv, SessionInv, NEW s \in Sessions, FlushAlert(s)
  PROVE  TypeInv' /\ \E new : Shape(new)
<1>1. CarTyped /\ BaselineTyped /\ TimersTyped /\ TallyTyped
  BY DEF TypeInv
<1>2. TimersTyped'
  <2>1. AlertNames \subseteq Sessions \cup {0}
    BY <1>1, LateTypes
  <2>2. late' \subseteq late \cup AlertNames
    BY DEF FlushAlert
  <2> QED
    BY <1>1, <2>1, <2>2 DEF FlushAlert, TimersTyped
<1>3. BaselineTyped' /\ UNCHANGED <<leaving, sessions, minted, again, earned, lost, grace>>
  BY <1>1 DEF FlushAlert, BaselineTyped, naming, ghosts
<1>4. CASE car.active /\ car.session = s /\ ~car.alerted /\ Ready(baseline)
  <2> DEFINE e == Event("started", car', "banner")
  <2>1. PICK resolved \in BOOLEAN :
          /\ car' = [Made(car) EXCEPT !.alerted = TRUE,
                                      !.named = @ \/ (resolved /\ car.kind = "origin")]
          /\ Enqueues(<<e>>) /\ owing' = FALSE
    BY <1>4, Zenon DEF FlushAlert
  <2> DEFINE named == Made(car).named \/ (resolved /\ car.kind = "origin")
  <2>2. named \in BOOLEAN /\ car' = [Made(car) EXCEPT !.alerted = TRUE, !.named = named]
    BY <2>1, Zenon
  <2> HIDE DEF named
  <2>3. /\ car' \in Cars /\ SameSession(car, car') /\ car'.revision = car.revision + 1
        /\ car'.leg = car.leg
    BY <1>1, <2>2, ToldType DEF CarTyped
  <2>4. /\ e \in Events /\ e.type = "started" /\ e.session = car.session
        /\ e.revision <= car'.revision /\ car.revision <= car'.revision
    BY <1>1, <1>4, <2>3, Announces
  <2>5. e.session \in earned
    BY <1>4, <2>4 DEF SessionInv, Quiet, Discreet
  <2> HIDE DEF e
  <2>6. FlowTyped' /\ Carried({e})
    BY <1>3, <2>1, <2>4, FlowEnqueues, Singles DEF Enqueues
  <2>7. Stays({e})
    BY <1>3, <1>4, <2>3, <2>4, <2>5 DEF Stays
  <2>8. CarTyped' /\ TallyTyped'
    BY <1>1, <1>3, <2>1, <2>3, CarStays DEF Enqueues, TallyTyped
  <2> QED
    BY <1>2, <1>3, <2>6, <2>7, <2>8, StayStep DEF NewTypes
<1>5. CASE ~(car.active /\ car.session = s /\ ~car.alerted /\ Ready(baseline))
  <2>1. UNCHANGED <<car, delivery, owing>>
    BY <1>5, Zenon DEF FlushAlert
  <2>2. FlowTyped' /\ Carried({})
    BY <1>3, <2>1, FlowStays DEF delivery
  <2>3. Stays({})
    BY <1>1, <1>3, <2>1, CarShape DEF Stays, SameSession, CarTyped
  <2>4. CarTyped' /\ TallyTyped'
    BY <1>1, <1>3, <2>1 DEF CarTyped, TallyTyped, delivery
  <2> QED
    BY <1>2, <1>3, <2>2, <2>3, <2>4, StayStep DEF NewTypes
<1> QED
  BY <1>4, <1>5

LEMMA ReplayStep ==
  ASSUME TypeInv, SessionInv, Replay
  PROVE  TypeInv' /\ \E new : Shape(new)
<1> DEFINE e == Event("started", car', "card")
<1>1. CarTyped /\ BaselineTyped /\ TimersTyped /\ TallyTyped
  BY DEF TypeInv
<1>2. /\ car.active /\ car' = Made(car) /\ Leaves(<<e>>) /\ owing' = FALSE
      /\ UNCHANGED <<baseline, timers, reading, delivery, grace, sessions, minted, again, earned, lost>>
  BY DEF Replay, naming, ghosts
<1>3. /\ car' \in Cars /\ SameSession(car, car') /\ car'.revision = car.revision + 1
      /\ car'.leg = car.leg
  BY <1>1, <1>2, MadeType DEF CarTyped
<1>4. /\ e \in Events /\ e.type = "started" /\ e.to = "card" /\ e.session = car.session
      /\ e.revision <= car'.revision /\ car.revision <= car'.revision
  BY <1>1, <1>2, <1>3, Announces
<1> HIDE DEF e
<1>5. FlowTyped' /\ Carried({e})
  BY <1>2, <1>4, FlowLeaves, Singles DEF delivery
<1>6. Stays({e})
  BY <1>2, <1>3, <1>4 DEF Stays
<1>7. CarTyped' /\ BaselineTyped' /\ TimersTyped' /\ TallyTyped'
  BY <1>1, <1>2, <1>3, CarStays DEF BaselineTyped, TimersTyped, TallyTyped, timers, delivery
<1> QED
  BY <1>5, <1>6, <1>7, StayStep DEF NewTypes

LEMMA NoBaselineType == NoBaseline \in Baselines /\ NoBaseline.changed = NoRoute
BY NothingIsStaged DEF NoBaseline, Baselines

LEMMA ResetStep ==
  ASSUME TypeInv, SessionInv, Reset
  PROVE  TypeInv' /\ \E new : Shape(new)
<1>1. CarTyped /\ TimersTyped /\ TallyTyped
  BY DEF TypeInv
<1>2. /\ baseline' = NoBaseline /\ StopBoth /\ owing' = FALSE
      /\ UNCHANGED <<car, reading, leaving, delivery, grace, sessions, minted, again, earned, lost>>
  BY DEF Reset, naming, ghosts
<1>3. FlowTyped' /\ Carried({})
  BY <1>2, FlowStays DEF delivery
<1>4. Stays({})
  BY <1>1, <1>2, CarShape DEF Stays, SameSession, CarTyped
<1>5. CarTyped' /\ BaselineTyped' /\ TallyTyped'
  BY <1>1, <1>2, NoBaselineType DEF CarTyped, BaselineTyped, TallyTyped, delivery
<1>6. TimersTyped'
  BY <1>1, <1>2, StoppedTypes DEF TimersTyped
<1> QED
  BY <1>3, <1>4, <1>5, <1>6, StayStep DEF NewTypes

LEMMA PassedType ==
  ASSUME NEW c \in Cars, NEW what \in {"recent", "rerouted", "session", "staged"}
  PROVE  LET d == Passed(c, what) IN d \in Cars /\ SameRun(c, d) /\ d.leg = c.leg
<1>1. /\ Aged(c.startedAt) \in Times /\ Aged(c.observedAt) \in Times
      /\ Older(c.staged) \in Staged
  BY CarShape, NothingIsStaged, LegTypes DEF Aged, Times
<1>2. ASSUME NEW d, d = [c EXCEPT !.recent = FALSE]
      PROVE  d \in Cars /\ SameRun(c, d) /\ d.leg = c.leg
  BY <1>2 DEF Cars, SameRun
<1>3. ASSUME NEW d, d = [c EXCEPT !.rerouted = FALSE]
      PROVE  d \in Cars /\ SameRun(c, d) /\ d.leg = c.leg
  BY <1>3 DEF Cars, SameRun
<1>4. ASSUME NEW x \in Times, NEW y \in Times, NEW d,
             d = [c EXCEPT !.startedAt = x, !.observedAt = y]
      PROVE  d \in Cars /\ SameRun(c, d) /\ d.leg = c.leg
  BY <1>4 DEF Cars, SameRun
<1>5. ASSUME NEW x \in Staged, NEW d, d = [c EXCEPT !.staged = x]
      PROVE  d \in Cars /\ SameRun(c, d) /\ d.leg = c.leg
  BY <1>5 DEF Cars, SameRun
<1> QED
  BY <1>1, <1>2, <1>3, <1>4, <1>5 DEF Passed

LEMMA TimePassesStep ==
  ASSUME TypeInv, SessionInv, TimePasses
  PROVE  TypeInv' /\ \E new : Shape(new)
<1>1. CarTyped /\ BaselineTyped /\ TimersTyped /\ TallyTyped
  BY DEF TypeInv
<1>2. /\ \E what \in {"recent", "rerouted", "session", "staged"} : car' = Passed(car, what)
      /\ UNCHANGED <<baseline, timers, reading, leaving, delivery, grace, sessions, minted,
                     again, earned, lost, owing>>
  BY DEF TimePasses, naming, ghosts
<1>3. car' \in Cars /\ SameRun(car, car') /\ car'.leg = car.leg
  BY <1>1, <1>2, PassedType DEF CarTyped
<1>4. SameSession(car, car') /\ car.revision <= car'.revision
  BY <1>1, <1>3, CarShape DEF SameSession, SameRun, CarTyped
<1>5. FlowTyped' /\ Carried({})
  BY <1>2, FlowStays DEF delivery
<1>6. Stays({})
  BY <1>2, <1>4 DEF Stays
<1>7. CarTyped' /\ BaselineTyped' /\ TimersTyped' /\ TallyTyped'
  BY <1>1, <1>2, <1>3, <1>4, CarStays
     DEF BaselineTyped, TimersTyped, TallyTyped, timers, delivery
<1> QED
  BY <1>5, <1>6, <1>7, StayStep DEF NewTypes

LEMMA SecondPassesStep ==
  ASSUME TypeInv, SessionInv, SecondPasses
  PROVE  TypeInv' /\ \E new : Shape(new)
<1>1. CarTyped /\ BaselineTyped /\ TimersTyped /\ TallyTyped
  BY DEF TypeInv
<1>2. /\ minted' = 0
      /\ UNCHANGED <<car, baseline, timers, reading, leaving, delivery, grace, sessions,
                     again, earned, lost, owing>>
  BY DEF SecondPasses, ghosts
<1>3. FlowTyped' /\ Carried({})
  BY <1>2, FlowStays DEF delivery
<1>4. Stays({})
  BY <1>1, <1>2, CarShape DEF Stays, SameSession, CarTyped
<1>5. minted' \in 0..sessions'
  BY <1>1, <1>2, Constants DEF CarTyped
<1>6. CarTyped' /\ BaselineTyped' /\ TimersTyped' /\ TallyTyped'
  BY <1>1, <1>2, <1>5 DEF CarTyped, BaselineTyped, TimersTyped, TallyTyped, timers, delivery
<1> QED
  BY <1>3, <1>4, <1>6, StayStep DEF NewTypes

(* A session that ends without a reading of its own *)
LEMMA EndStaleStep ==
  ASSUME TypeInv, SessionInv, NEW c \in Cars, SameRun(car, c), car.active, EndStale(c),
         BaselineTyped', TimersTyped', grace' \in BOOLEAN,
         UNCHANGED <<delivery, sessions, minted, again, earned, lost>>
  PROVE  TypeInv' /\ \E new : Shape(new)
<1> DEFINE e == EndOf(c, "card")
<1>1. CarTyped /\ TallyTyped
  BY DEF TypeInv
<1>2. car' = Idle(Made(c)) /\ Leaves(<<e>>) /\ owing' = FALSE
  BY DEF EndStale
<1>3. c.session # 0 /\ c.session = car.session /\ c.revision = car.revision
  BY <1>1 DEF CarTyped, SameRun
<1>4. e \in Events /\ e.type = "ended" /\ e.session = c.session /\ e.revision = c.revision + 1
  BY <1>3, EndOfType
<1>5. /\ car' \in Cars /\ ~car'.active /\ car'.session = c.session
      /\ car'.revision \in Nat /\ car.revision + 1 <= car'.revision
  <2>1. car' \in Cars /\ ~car'.active /\ car'.session = c.session
        /\ car'.revision = car.revision + 1
    BY <1>2, <1>3, MadeType, IdleType DEF SameSession
  <2> QED
    BY <2>1, CarShape
<1> HIDE DEF e
<1>6. FlowTyped' /\ Carried({e}) /\ e \in Pending'
  BY <1>2, <1>4, FlowLeaves, Singles DEF delivery
<1>7. Shape({e})
  BY <1>3, <1>4, <1>5, <1>6, EndShape
<1>8. CarTyped' /\ TallyTyped'
  BY <1>1, <1>2, <1>3, <1>5, CarIdles DEF TallyTyped, delivery
<1> QED
  BY <1>6, <1>7, <1>8, NewTypesHold DEF NewTypes

LEMMA ExpireStep ==
  ASSUME TypeInv, SessionInv, Expire
  PROVE  TypeInv' /\ \E new : Shape(new)
<1>1. CarTyped /\ BaselineTyped /\ TimersTyped
  BY DEF TypeInv
<1>2. /\ car.active /\ EndStale(car) /\ StopUpdate
      /\ UNCHANGED <<baseline, reading, delivery, grace, sessions, minted, again, earned, lost>>
  BY DEF Expire, naming, ghosts
<1>3. BaselineTyped' /\ TimersTyped'
  BY <1>1, <1>2, StoppedTypes DEF BaselineTyped, TimersTyped
<1>4. car \in Cars /\ SameRun(car, car) /\ grace' \in BOOLEAN
  BY <1>1, <1>2 DEF TypeInv, CarTyped, SameRun, TallyTyped
<1> QED
  BY <1>2, <1>3, <1>4, EndStaleStep

LEMMA ReconcileRestoredStep ==
  ASSUME TypeInv, SessionInv, ReconcileRestored
  PROVE  TypeInv' /\ \E new : Shape(new)
<1> DEFINE c == [car EXCEPT !.observed = FALSE]
<1>1. CarTyped /\ BaselineTyped /\ TimersTyped /\ TallyTyped
  BY DEF TypeInv
<1>2. /\ grace' = FALSE
      /\ \/ car.active /\ EndStale(c)
         \/ car' = c /\ UNCHANGED <<leaving, owing>>
      /\ UNCHANGED <<baseline, timers, reading, delivery, sessions, minted, again, earned, lost>>
  BY DEF ReconcileRestored, naming, ghosts
<1>3. c \in Cars /\ SameRun(car, c) /\ c.leg = car.leg
  BY <1>1 DEF CarTyped, Cars, SameRun
<1> HIDE DEF c
<1>4. BaselineTyped' /\ TimersTyped'
  BY <1>1, <1>2 DEF BaselineTyped, TimersTyped, timers
<1>5. CASE car.active /\ EndStale(c)
  BY <1>2, <1>3, <1>4, <1>5, EndStaleStep
<1>6. CASE car' = c /\ UNCHANGED <<leaving, owing>>
  <2>1. SameSession(car, car') /\ car.revision <= car'.revision
    BY <1>1, <1>3, <1>6, CarShape DEF SameSession, SameRun, CarTyped
  <2>2. FlowTyped' /\ Carried({})
    BY <1>2, <1>6, FlowStays DEF delivery
  <2>3. Stays({})
    BY <1>2, <2>1 DEF Stays
  <2>4. CarTyped' /\ TallyTyped'
    BY <1>1, <1>2, <1>3, <1>6, <2>1, CarStays DEF TallyTyped, delivery
  <2> QED
    BY <1>4, <2>2, <2>3, <2>4, StayStep DEF NewTypes
<1> QED
  BY <1>2, <1>5, <1>6

LEMMA ReconcileFleetStep ==
  ASSUME TypeInv, SessionInv, ReconcileFleet
  PROVE  TypeInv' /\ \E new : Shape(new)
<1> DEFINE e == EndOf(car, "card")
<1>1. CarTyped /\ TimersTyped /\ TallyTyped
  BY DEF TypeInv
<1>2. /\ car' = NewCar /\ baseline' = NoBaseline /\ owing' = FALSE /\ StopBoth
      /\ IF car.active THEN Leaves(<<e>>) ELSE UNCHANGED leaving
      /\ UNCHANGED <<reading, delivery, grace, sessions, minted, again, earned, lost>>
      /\ sessions = MaxSessions
  BY DEF ReconcileFleet, naming, ghosts
<1>3. car' \in Cars /\ ~car'.active /\ car'.session = 0 /\ Gone' /\ car'.revision \in Nat
  BY <1>2, NewCarType, CarShape DEF Gone
<1>4. CarTyped' /\ BaselineTyped' /\ TallyTyped'
  BY <1>1, <1>2, <1>3, CarIdles, NoBaselineType DEF BaselineTyped, TallyTyped, delivery
<1>5. TimersTyped'
  BY <1>1, <1>2, StoppedTypes DEF TimersTyped
<1>6. CASE car.active
  <2>1. /\ e \in Events /\ e.type = "ended" /\ e.session = car.session
        /\ e.revision = car.revision + 1
    BY <1>1, <1>6, EndOfType DEF CarTyped
  <2> HIDE DEF e
  <2>2. FlowTyped' /\ Carried({e}) /\ e \in Pending'
    BY <1>2, <1>6, <2>1, FlowLeaves, Singles DEF delivery
  <2>3. Shape({e})
    BY <1>2, <1>3, <1>6, <2>1, <2>2, EndShape
  <2> QED
    BY <1>4, <1>5, <2>2, <2>3, NewTypesHold DEF NewTypes
<1>7. CASE ~car.active
  <2>1. FlowTyped' /\ Carried({})
    BY <1>2, <1>7, FlowStays DEF delivery
  <2>2. Proceeds /\ ~Leaving /\ Discreet(car)'
    BY <1>2, <1>3, <1>7 DEF Proceeds, Leaving, Discreet
  <2>3. Shape({})
    BY <1>2, <1>3, <2>1, <2>2 DEF Shape, Carried
  <2> QED
    BY <1>4, <1>5, <2>1, <2>3, NewTypesHold DEF NewTypes
<1> QED
  BY <1>6, <1>7

(* A step that leaves the car alone says nothing new.                      *)
LEMMA StillShape ==
  ASSUME TypeInv, SessionInv, UNCHANGED <<car, sessions, again, earned>>,
         lost \subseteq lost',
         Pending' \subseteq Pending, Sent' \subseteq Sent, Moved(history, history', Sent),
         \A e \in Pending : e.type = "ended" =>
           \/ e \in Pending' \/ e.session \in lost'
           \/ history'[e.session].type = "ended" \/ history[e.session].revision > e.revision
  PROVE  Shape({})
<1>1. car.revision <= car.revision
  BY CarShape DEF TypeInv, CarTyped
<1>2. Proceeds /\ ~Leaving /\ (Gone => Gone')
  BY <1>1 DEF Proceeds, Leaving, Under, Gone
<1>3. Discreet(car)'
  BY DEF SessionInv, Quiet, Discreet
<1> QED
  BY <1>1, <1>2, <1>3 DEF Shape

LEMMA EnqueueLeavingStep ==
  ASSUME TypeInv, SessionInv, NEW events \in leaving, EnqueueLeaving(events)
  PROVE  TypeInv' /\ \E new : Shape(new)
<1> DEFINE e == Head(events)
           rest == IF Len(events) = 1 THEN {} ELSE {Tail(events)}
           d == Holding(queue)
<1>1. CarTyped /\ BaselineTyped /\ FlowTyped /\ TimersTyped /\ TallyTyped
  BY DEF TypeInv
<1>2. /\ leaving' = (leaving \ {events}) \cup rest
      /\ Enqueue(d, <<e>>) /\ UNCHANGED tries
      /\ UNCHANGED <<car, baseline, timers, reading, grace, sessions, minted, again, earned, lost, owing>>
  BY DEF EnqueueLeaving, Enqueues, naming, ghosts
<1>3. events \in Seq(Events) /\ events # <<>>
  BY <1>1 DEF FlowTyped
<1>4. /\ Tail(events) \in Seq(Events) /\ Len(Tail(events)) = Len(events) - 1
      /\ e \in Of(events) /\ Len(events) \in Nat \ {0}
      /\ Of(events) = Of(Tail(events)) \cup {e}
      /\ Tail(events) = <<>> <=> Len(events) = 1
  BY <1>3, Tails
<1>5. e \in Events /\ e \in Pending /\ Of(events) \subseteq Pending
  BY <1>3, <1>4, TypeParts DEF Typed, Pending
<1>6. Deliverable(d) /\ d.history = history /\ d.queue = queue /\ d.priority = priority
  BY <1>1 DEF Deliverable, Holding, FlowTyped
<1> HIDE DEF e, d
<1>7. /\ history' = Enqueued(d, e).history /\ queue' = Enqueued(d, e).queue
      /\ priority' = Enqueued(d, e).priority
  BY <1>2, <1>5, Singles DEF Enqueue
<1>8. /\ Enqueuing(d, history', queue', priority', {e})
      /\ e.type = "ended" => \/ history'[e.session].type = "ended"
                             \/ history[e.session].revision > e.revision
  BY <1>5, <1>6, <1>7, EnqueuedFacts
<1>9. /\ history' \in [Sessions -> HistoryRecords] /\ OrdinaryQueue(queue') /\ TerminalQueue(priority')
      /\ Moved(history, history', {e})
      /\ Of(queue') \subseteq Of(queue) \cup {e} /\ Of(priority') \subseteq Of(priority) \cup {e}
  BY <1>6, <1>8 DEF Enqueuing
<1>10. \A es \in rest : es \in Seq(Events) /\ es # <<>> /\ Of(es) \subseteq Pending
  <2>1. CASE Len(events) = 1
    BY <2>1
  <2>2. CASE Len(events) # 1
    BY <1>4, <1>5, <2>2
  <2> QED
    BY <2>1, <2>2
<1>11. \A x \in Of(events) : x = e \/ \E es \in rest : x \in Of(es)
  <2>1. CASE Len(events) = 1
    BY <1>4, <2>1, NoList
  <2>2. CASE Len(events) # 1
    BY <1>4, <2>2
  <2> QED
    BY <2>1, <2>2
<1> HIDE DEF rest
<1>12. Pending' \subseteq Pending
  BY <1>2, <1>10 DEF Pending
<1>13. Pending \subseteq Pending' \cup {e}
  <2> SUFFICES ASSUME NEW x \in Pending, x # e PROVE x \in Pending'
    OBVIOUS
  <2>1. PICK es \in leaving : x \in Of(es)
    BY DEF Pending
  <2>2. \E fs \in leaving' : x \in Of(fs)
    <3>1. CASE es = events
      BY <1>2, <1>11, <2>1, <3>1
    <3>2. CASE es # events
      BY <1>2, <2>1, <3>2
    <3> QED
      BY <3>1, <3>2
  <2> QED
    BY <2>2 DEF Pending
<1>14. Sent' \subseteq Sent /\ e \in Sent
  BY <1>5, <1>9, <1>12 DEF Sent
<1>15. Moved(history, history', Sent)
  BY <1>9, <1>14 DEF Moved
<1>16. Shape({})
  BY <1>2, <1>8, <1>12, <1>13, <1>14, <1>15, StillShape
<1>17. FlowTyped'
  BY <1>1, <1>2, <1>9, <1>10 DEF FlowTyped
<1>18. CarTyped' /\ BaselineTyped' /\ TimersTyped' /\ TallyTyped'
  BY <1>1, <1>2 DEF CarTyped, BaselineTyped, TimersTyped, TallyTyped, timers
<1> QED
  BY <1>16, <1>17, <1>18, NewTypesHold DEF NewTypes

LEMMA TriesTypes ==
  ASSUME tries \in [ordinary : 0..(Attempts - 1), terminal : 0..(Attempts - 1)],
         NEW n \in Nat, NEW field \in {"ordinary", "terminal"},
         n = 0 \/ (n = tries[field] + 1 /\ ~GivesUp(tries[field]))
  PROVE  [tries EXCEPT ![field] = n]
           \in [ordinary : 0..(Attempts - 1), terminal : 0..(Attempts - 1)]
<1>1. n \in 0..(Attempts - 1)
  BY Constants DEF GivesUp
<1> QED
  BY <1>1

LEMMA TriesCount ==
  ASSUME TallyTyped
  PROVE  tries.ordinary \in Nat /\ tries.terminal \in Nat
BY DEF TallyTyped

LEMMA DeliverTerminalStep ==
  ASSUME TypeInv, SessionInv, NEW outcome \in Delivered \cup {"failed"}, DeliverTerminal(outcome)
  PROVE  TypeInv' /\ \E new : Shape(new)
<1> DEFINE e == Head(priority)
           done == outcome # "failed" \/ GivesUp(tries.terminal)
           n == IF done THEN 0 ELSE tries.terminal + 1
<1>1. CarTyped /\ BaselineTyped /\ FlowTyped /\ TimersTyped /\ TallyTyped
  BY DEF TypeInv
<1>2. /\ priority # <<>> /\ priority' \in {priority, Tail(priority)}
      /\ tries' = [tries EXCEPT !.terminal = n]
      /\ history' = Recorded(history, e)
      /\ UNCHANGED <<car, baseline, timers, reading, leaving, queue, grace, sessions, minted, again,
                     earned, lost, owing>>
  BY DEF DeliverTerminal, naming, ghosts
<1>3. tries' \in [ordinary : 0..(Attempts - 1), terminal : 0..(Attempts - 1)]
  <2>1. n \in Nat /\ (n = 0 \/ (n = tries["terminal"] + 1 /\ ~GivesUp(tries["terminal"])))
    BY <1>1, TriesCount
  <2> HIDE DEF n
  <2> QED
    BY <1>1, <1>2, <2>1, TriesTypes DEF TallyTyped
<1>4. e \in Of(priority) /\ e \in Events
  BY <1>1, <1>2, Tails, Lists DEF FlowTyped, TerminalQueue
<1>5. TerminalQueue(priority') /\ Of(priority') \subseteq Of(priority)
  BY <1>1, <1>2, TailFits, Tails DEF FlowTyped, TerminalQueue
<1> HIDE DEF e
<1>6. history' \in [Sessions -> HistoryRecords] /\ Moved(history, history', {e})
  BY <1>1, <1>2, <1>4, RecordMoves DEF FlowTyped
<1>7. Pending' = Pending /\ Sent' \subseteq Sent /\ e \in Sent
  BY <1>2, <1>4, <1>5 DEF Pending, Sent
<1>8. Moved(history, history', Sent)
  BY <1>6, <1>7 DEF Moved
<1>9. Shape({})
  BY <1>2, <1>7, <1>8, StillShape
<1>10. NewTypes
  BY <1>1, <1>2, <1>3, <1>5, <1>6
     DEF NewTypes, CarTyped, BaselineTyped, FlowTyped, TimersTyped, TallyTyped, timers
<1> QED
  BY <1>9, <1>10, NewTypesHold

(* What may be enqueued together with a change of the car *)
LEMMA Speech ==
  ASSUME CarTyped, car.active, NEW c \in Cars, SameSession(car, c),
         car' \in Cars, c.revision <= car'.revision,
         NEW type \in {"started", "updated"}, NEW to \in {"card", "banner", "both"}
  PROVE  LET e == Event(type, c, to) IN
         /\ e \in Events /\ e.type = type /\ e.type # "ended" /\ e.to = to
         /\ e.session = car.session /\ e.revision <= car'.revision
<1>1. c.session # 0 /\ c.session = car.session
  BY DEF CarTyped, SameSession
<1> QED
  BY <1>1, EventType

LEMMA SameSessions ==
  ASSUME NEW c, NEW d, NEW e, SameSession(c, d), SameSession(d, e)
  PROVE  SameSession(c, e)
BY DEF SameSession

LEMMA ScheduledTypes ==
  ASSUME NEW c \in Cars
  PROVE  /\ Scheduled(c) \in Cars /\ SameSession(c, Scheduled(c)) /\ Scheduled(c).leg = c.leg
         /\ c.revision <= Scheduled(c).revision
         /\ \/ ScheduledEvents(c) = <<>>
            \/ c.active /\ ScheduledEvents(c) = <<Event("updated", Scheduled(c), "card")>>
<1>1. CASE UpdateNow(c)
  <2>1. /\ Scheduled(c) = Made(c) /\ c.active
        /\ ScheduledEvents(c) = <<Event("updated", Scheduled(c), "card")>>
    BY <1>1 DEF Scheduled, ScheduledEvents, UpdateNow, UpdateDue
  <2>2. c.revision \in Nat
    BY CarShape
  <2> QED
    BY <2>1, <2>2, MadeType
<1>2. CASE ~UpdateNow(c)
  BY <1>2, CarShape DEF Scheduled, ScheduledEvents, SameSession
<1> QED
  BY <1>1, <1>2

LEMMA SettledStep ==
  ASSUME TypeInv, SessionInv, NEW outcome \in Delivered, DeliverOrdinary(outcome)
  PROVE  TypeInv' /\ \E new : Shape(new)
<1> DEFINE e == Head(queue)
           mine == e.type = "started" /\ car.active /\ car.session = e.session
           c == IF mine THEN [car EXCEPT !.started = TRUE, !.recent = FALSE,
                                         !.alerted = @ \/ e.to # "card"]
                ELSE car
           updates == mine /\ outcome = "accepted" /\ UpdateNow(c)
           u == Event("updated", Made(c), "card")
           d == Holding(Tail(queue))
           sent == IF updates THEN Enqueued(d, u) ELSE d
           new == IF updates THEN {u} ELSE {}
<1>1. CarTyped /\ BaselineTyped /\ FlowTyped /\ TimersTyped /\ TallyTyped
  BY DEF TypeInv
<1>2. /\ queue # <<>> /\ Settled(e, outcome = "accepted")
      /\ tries' = [tries EXCEPT !.ordinary = 0]
      /\ UNCHANGED <<alert, late, reading, leaving, grace, sessions, minted, again,
                     earned, lost>>
  BY DEF DeliverOrdinary, Delivered, naming, ghosts
<1>3. /\ UNCHANGED <<baseline, update>>
      /\ car' = IF updates THEN Made(c) ELSE c
      /\ owing' = (owing /\ ~updates)
      /\ queue' = sent.queue /\ priority' = sent.priority
      /\ history' = Recorded(sent.history, e)
  BY <1>2 DEF Settled
<1>4. /\ c \in Cars /\ SameSession(car, c) /\ c.leg = car.leg /\ c.revision = car.revision
  <2>1. ASSUME NEW alerted \in BOOLEAN, NEW b, car.alerted => alerted,
               b = [car EXCEPT !.started = TRUE, !.recent = FALSE, !.alerted = alerted]
        PROVE  /\ b \in Cars /\ SameSession(car, b) /\ b.leg = car.leg
               /\ b.revision = car.revision
    <3>1. /\ b \in Cars /\ b.active = car.active /\ b.session = car.session
          /\ b.mode = car.mode /\ b.leg = car.leg /\ b.revision = car.revision
          /\ b.alerted = alerted
      BY <1>1, <2>1 DEF CarTyped, Cars
    <3> QED
      BY <2>1, <3>1 DEF SameSession
  <2> DEFINE alerted == car.alerted \/ e.to # "card"
  <2>2. alerted \in BOOLEAN /\ (car.alerted => alerted)
    BY Zenon
  <2>3. CASE mine
    <3>1. c = [car EXCEPT !.started = TRUE, !.recent = FALSE, !.alerted = alerted]
      BY <2>3
    <3> HIDE DEF c, alerted
    <3> QED
      BY <2>1, <2>2, <3>1
  <2>4. CASE ~mine
    BY <1>1, <2>4 DEF CarTyped, SameSession
  <2> QED
    BY <2>3, <2>4
<1>5. updates => car.active
  OBVIOUS
<1>6. e \in Events /\ e \in Of(queue)
  BY <1>1, <1>2, Tails, Lists DEF FlowTyped, OrdinaryQueue
<1>7. /\ Deliverable(d) /\ d.history = history
      /\ Of(d.queue) \subseteq Of(queue) /\ d.priority = priority
  <2>1. /\ OrdinaryQueue(Tail(queue)) /\ Of(Tail(queue)) \subseteq Of(queue)
        /\ TerminalQueue(priority) /\ history \in [Sessions -> HistoryRecords]
    BY <1>1, <1>2, TailFits, Tails DEF FlowTyped, OrdinaryQueue
  <2>2. d.history = history /\ d.queue = Tail(queue) /\ d.priority = priority
    BY DEF Holding
  <2> QED
    BY <2>1, <2>2 DEF Deliverable
<1> HIDE DEF c, mine, d, e, updates
<1>8. /\ car' \in Cars /\ SameSession(car, car') /\ car'.leg = car.leg
      /\ car.revision <= car'.revision
  BY <1>1, <1>3, <1>4, MadeType, SameSessions, CarShape DEF CarTyped
<1>9. updates => /\ u \in Events /\ u.type = "updated" /\ u.session = car.session
                 /\ u.revision <= car'.revision
  <2> SUFFICES ASSUME updates
               PROVE  /\ u \in Events /\ u.type = "updated" /\ u.session = car.session
                      /\ u.revision <= car'.revision
    OBVIOUS
  <2>1. Made(c) \in Cars /\ SameSession(car, Made(c)) /\ car' = Made(c)
    BY <1>3, <1>8
  <2>2. car'.revision <= car'.revision
    BY <1>8, CarShape
  <2> QED
    BY <1>1, <1>5, <1>8, <2>1, <2>2, Speech
<1> HIDE DEF u
<1>10. /\ new \subseteq Events /\ Deliverable(sent)
       /\ Enqueuing(d, sent.history, sent.queue, sent.priority, new)
  <2>1. CASE updates
    BY <1>7, <1>9, <2>1, EnqueuedFacts
  <2>2. CASE ~updates
    BY <1>7, <2>2, NoMove DEF Deliverable, Enqueuing
  <2> QED
    BY <2>1, <2>2
<1> HIDE DEF sent
<1>11. /\ sent.history \in [Sessions -> HistoryRecords]
       /\ OrdinaryQueue(queue') /\ TerminalQueue(priority')
       /\ Moved(history, sent.history, new)
       /\ Of(queue') \subseteq Of(queue) \cup new
       /\ Of(priority') \subseteq Of(priority) \cup new
  BY <1>3, <1>7, <1>10 DEF Enqueuing, Deliverable
<1>12. /\ history' \in [Sessions -> HistoryRecords]
       /\ Moved(sent.history, history', {e})
  BY <1>3, <1>6, <1>11, RecordMoves
<1>13. FlowTyped' /\ Carried(new)
  <2>1. Moved(history, history', new \cup {e})
    BY <1>1, <1>11, <1>12, MovesCompose DEF FlowTyped
  <2>2. Pending' = Pending
    BY <1>2 DEF Pending
  <2>3. Sent' \subseteq Sent \cup new /\ e \in Sent
    BY <1>6, <1>11, <2>2 DEF Sent
  <2>4. Moved(history, history', Sent \cup new)
    <3>1. new \cup {e} \subseteq Sent \cup new
      BY <2>3
    <3> HIDE DEF new
    <3> QED
      BY <2>1, <3>1 DEF Moved
  <2>5. FlowTyped'
    BY <1>1, <1>2, <1>11, <1>12 DEF FlowTyped
  <2> QED
    BY <1>10, <2>2, <2>3, <2>4, <2>5 DEF Carried
<1>14. Stays(new)
  BY <1>2, <1>5, <1>8, <1>9 DEF Stays
<1>15. owing' \in BOOLEAN
  BY <1>3, Zenon
<1>16. tries' \in [ordinary : 0..(Attempts - 1), terminal : 0..(Attempts - 1)]
  BY <1>1, <1>2, TriesTypes DEF TallyTyped
<1> HIDE DEF new
<1>17. NewTypes
  BY <1>1, <1>2, <1>3, <1>8, <1>13, <1>15, <1>16, CarStays
     DEF NewTypes, BaselineTyped, TimersTyped, TallyTyped
<1> QED
  BY <1>13, <1>14, <1>17, StayStep

LEMMA RefusedStep ==
  ASSUME TypeInv, SessionInv, DeliverOrdinary("failed")
  PROVE  TypeInv' /\ \E new : Shape(new)
<1> DEFINE e == Head(queue)
           n == IF GivesUp(tries.ordinary) THEN 0 ELSE tries.ordinary + 1
<1>1. CarTyped /\ BaselineTyped /\ FlowTyped /\ TimersTyped /\ TallyTyped
  BY DEF TypeInv
<1>2. /\ queue # <<>> /\ queue' \in {queue, Tail(queue)}
      /\ tries' = [tries EXCEPT !.ordinary = n]
      /\ history' = Recorded(history, e)
      /\ UNCHANGED <<car, baseline, update, priority, owing, alert, late, reading,
                     leaving, grace, sessions, minted, again, earned, lost>>
  BY DEF DeliverOrdinary, naming, ghosts
<1>3. tries' \in [ordinary : 0..(Attempts - 1), terminal : 0..(Attempts - 1)]
  <2>1. n \in Nat /\ (n = 0 \/ (n = tries["ordinary"] + 1 /\ ~GivesUp(tries["ordinary"])))
    BY <1>1, TriesCount
  <2> HIDE DEF n
  <2> QED
    BY <1>1, <1>2, <2>1, TriesTypes DEF TallyTyped
<1>4. e \in Of(queue) /\ e \in Events
  BY <1>1, <1>2, Tails, Lists DEF FlowTyped, OrdinaryQueue
<1>5. OrdinaryQueue(queue') /\ Of(queue') \subseteq Of(queue)
  BY <1>1, <1>2, TailFits, Tails DEF FlowTyped, OrdinaryQueue
<1> HIDE DEF e
<1>6. history' \in [Sessions -> HistoryRecords] /\ Moved(history, history', {e})
  BY <1>1, <1>2, <1>4, RecordMoves DEF FlowTyped
<1>7. Pending' = Pending /\ Sent' \subseteq Sent /\ e \in Sent
  BY <1>2, <1>4, <1>5 DEF Pending, Sent
<1>8. Moved(history, history', Sent)
  BY <1>6, <1>7 DEF Moved
<1>9. Shape({})
  BY <1>2, <1>7, <1>8, StillShape
<1>10. NewTypes
  BY <1>1, <1>2, <1>3, <1>5, <1>6
     DEF NewTypes, CarTyped, BaselineTyped, FlowTyped, TimersTyped, TallyTyped
<1> QED
  BY <1>9, <1>10, NewTypesHold

(* What the files do not have, and what was on its way, is lost; of the    *)
(* other sessions a restart finds car and record as they were.             *)
LEMMA RestartStep ==
  ASSUME TypeInv, FileInv, SessionInv, Restart
  PROVE  TypeInv' /\ FileInv' /\ SessionInv'
<1>1. CarTyped /\ FlowTyped /\ TallyTyped
  BY DEF TypeInv
<1>2. /\ car' = [carFile EXCEPT !.observed = FALSE] /\ history' = historyFile
      /\ carFile' = car' /\ historyFile' = historyFile /\ baseline' = NoBaseline
      /\ update' = FALSE /\ alert' = 0 /\ late' = {} /\ reading' = {}
      /\ leaving' = {} /\ queue' = <<>> /\ priority' = <<>>
      /\ tries' = [ordinary |-> 0, terminal |-> 0] /\ grace' = TRUE /\ owing' = FALSE
      /\ lost' = lost \cup LostNow
      /\ UNCHANGED <<sessions, minted, again, earned>>
  BY DEF Restart, naming
<1>3. car' \in Cars /\ SameRun(carFile, car') /\ car'.leg = carFile.leg
  BY <1>2 DEF FileInv, Cars, SameRun
<1>4. /\ \A e \in Pending : e.session \in lost'
      /\ \A s \in Sessions : s \notin lost' => historyFile[s] = history[s]
      /\ carFile # car => ({carFile.session, car.session} \ {0}) \subseteq lost'
  <2>1. \A e \in Pending : e.session \in LostNow
    BY DEF Pending, Of, LostNow
  <2>2. \A s \in Sessions : s \notin LostNow => historyFile[s] = history[s]
    BY DEF LostNow
  <2>3. carFile # car => ({carFile.session, car.session} \ {0}) \subseteq LostNow
    BY DEF LostNow
  <2> HIDE DEF LostNow
  <2> QED
    BY <1>2, <2>1, <2>2, <2>3
<1>5. lost' \subseteq Sessions
  <2>1. \A e \in Pending : e.session \in Sessions
    BY TypeParts DEF Typed, Events
  <2>2. \A es \in leaving : \A i \in DOMAIN es : es[i].session \in Sessions
    BY <2>1 DEF Pending, Of
  <2>3. {carFile.session, car.session} \ {0} \subseteq Sessions
    BY <1>1, CarShape DEF FileInv, CarTyped
  <2>4. LostNow \subseteq Sessions
    BY <2>2, <2>3 DEF LostNow
  <2> QED
    BY <1>1, <1>2, <2>4 DEF TallyTyped
<1>6. Of(queue') = {} /\ Of(priority') = {} /\ queue' \in Seq(Events)
      /\ priority' \in Seq(Events) /\ Len(queue') = 0 /\ Len(priority') = 0
  BY <1>2, NoList
<1>7. Pending' = {} /\ Sent' = {}
  BY <1>2, <1>6 DEF Pending, Sent
<1>8. TypeInv'
  <2>1. tries' \in [ordinary : 0..(Attempts - 1), terminal : 0..(Attempts - 1)]
    BY <1>2, Constants
  <2>2. FlowTyped'
    BY <1>2, <1>6, Constants DEF FileInv, FlowTyped, OrdinaryQueue, TerminalQueue
  <2>3. CarTyped'
    BY <1>1, <1>2, <1>3 DEF FileInv, CarTyped, SameRun
  <2>4. BaselineTyped' /\ TimersTyped' /\ TallyTyped'
    BY <1>1, <1>2, <1>5, <2>1, NoBaselineType DEF BaselineTyped, TimersTyped, TallyTyped
  <2> QED
    BY <2>2, <2>3, <2>4 DEF TypeInv
<1>9. Discreet(car)'
  BY <1>2, <1>3 DEF FileInv, Discreet, SameRun
<1>10. FileInv'
  <2>1. Discreet(carFile)'
    BY <1>2, <1>9 DEF Discreet
  <2> QED
    BY <1>2, <1>3, <2>1 DEF FileInv, SameRun
<1>11. Running'
  <2> SUFFICES ASSUME car'.active, car'.session \notin lost'
               PROVE  /\ history'[car'.session].type = "ended" \/ Bounded(car.session)'
                      /\ car'.session \notin again' => history'[car'.session].type # "ended"
    BY <1>7 DEF Running
  <2>1. carFile.active /\ carFile.session = car'.session /\ carFile.session # 0
        /\ carFile.session \in Sessions
    BY <1>3, CarShape DEF FileInv, SameRun
  <2>2. carFile = car
    BY <1>4, <2>1
  <2>3. history'[car'.session] = history[car.session] /\ car.session \notin lost
        /\ car'.revision = car.revision
    BY <1>2, <1>3, <1>4, <2>1, <2>2 DEF SameRun
  <2> QED
    BY <1>2, <1>7, <2>1, <2>2, <2>3 DEF SessionInv, Running, Bounded
<1>12. Over'
  <2> SUFFICES ASSUME NEW s \in 1..sessions, s \notin lost', ~Under(car', s)
               PROVE  history'[s].type = "ended"
    BY <1>2 DEF Over
  <2>1. s \in Sessions /\ s # 0
    BY <1>1, Constants DEF CarTyped, Sessions
  <2>2. history'[s] = history[s] /\ s \notin lost
    BY <1>2, <1>4, <2>1
  <2>3. ~Under(car, s)
    BY <1>3, <1>4, <2>1 DEF Under, SameRun
  <2>4. \A e \in Pending : e.session # s
    BY <1>4
  <2> QED
    BY <2>2, <2>3, <2>4 DEF SessionInv, Over
<1>13. Known' /\ Behind' /\ Quiet'
  BY <1>2, <1>7, <1>9 DEF FileInv, Known, Behind, Quiet
<1> QED
  BY <1>8, <1>10, <1>11, <1>12, <1>13 DEF SessionInv

-----------------------------------------------------------------------------
(* Enrichment                                                              *)

LEMMA Concats ==
  ASSUME NEW p \in Seq(Events), NEW q \in Seq(Events)
  PROVE  p \o q \in Seq(Events) /\ Of(p \o q) \subseteq Of(p) \cup Of(q)
<1>1. p \o q \in Seq(Events) /\ Len(p \o q) = Len(p) + Len(q)
  OBVIOUS
<1>2. \A i \in 1..(Len(p) + Len(q)) :
        (p \o q)[i] = IF i <= Len(p) THEN p[i] ELSE q[i - Len(p)]
  OBVIOUS
<1>3. Len(p) \in Nat /\ Len(q) \in Nat /\ DOMAIN p = 1..Len(p) /\ DOMAIN q = 1..Len(q)
      /\ DOMAIN (p \o q) = 1..(Len(p) + Len(q))
  OBVIOUS
<1>4. ASSUME NEW i \in 1..(Len(p) + Len(q))
      PROVE  (p \o q)[i] \in Of(p) \cup Of(q)
  <2>1. CASE i <= Len(p)
    BY <1>2, <1>3, <2>1 DEF Of
  <2>2. CASE ~(i <= Len(p))
    <3>1. i - Len(p) \in 1..Len(q) /\ (p \o q)[i] = q[i - Len(p)]
      BY <1>2, <1>3, <2>2
    <3> QED
      BY <1>3, <3>1 DEF Of
  <2> QED
    BY <2>1, <2>2
<1> QED
  BY <1>1, <1>3, <1>4 DEF Of

LEMMA EnrichStep ==
  ASSUME TypeInv, SessionInv, NEW s \in reading, NEW resolved \in BOOLEAN,
         NEW distance \in Distances, Enrich(s, resolved, distance)
  PROVE  TypeInv' /\ \E new : Shape(new)
<1> DEFINE names == resolved /\ ~car.named /\ car.kind = "origin"
           known == [car EXCEPT !.named = @ \/ names]
           tells == names /\ car.started /\ ~car.alerted
           told == IF tells THEN [Made(known) EXCEPT !.alerted = TRUE] ELSE known
           prompt == car.started /\ (names \/ distance = "first")
           shown == IF prompt THEN Made(told) ELSE Scheduled(told)
           first == IF tells THEN <<Event("started", told, "banner")>> ELSE <<>>
           second == IF prompt THEN <<Event("updated", shown, "card")>>
                     ELSE ScheduledEvents(told)
           stopped == (IF tells THEN AlertNames ELSE {}) \cup (IF prompt THEN UpdateNames ELSE {})
           knows == car.active /\ car.session = s /\ (names \/ distance # "none")
<1>1. CarTyped /\ BaselineTyped /\ FlowTyped /\ TimersTyped /\ TallyTyped
  BY DEF TypeInv
<1>2. /\ reading' = reading \ {s}
      /\ UNCHANGED <<baseline, leaving, grace, sessions, minted, again, earned, lost>>
      /\ IF knows
         THEN /\ car' = shown /\ Enqueues(first \o second)
              /\ alert' = IF tells THEN 0 ELSE alert
              /\ update' = IF prompt THEN FALSE
                           ELSE update \/ (UpdateDue(told) /\ told.recent)
              /\ late' \in MayBeLate(stopped)
              /\ owing' = (owing /\ car'.revision = car.revision)
         ELSE UNCHANGED <<car, timers, delivery, owing>>
  BY Zenon DEF Enrich, naming, ghosts
<1>3. BaselineTyped'
  BY <1>1, <1>2 DEF BaselineTyped
<1>4. CASE ~knows
  <2>1. UNCHANGED <<car, timers, delivery, owing>>
    BY <1>2, <1>4
  <2>2. FlowTyped' /\ Carried({})
    BY <1>2, <2>1, FlowStays DEF delivery
  <2>3. Stays({})
    BY <1>1, <1>2, <2>1, CarShape DEF Stays, SameSession, CarTyped
  <2>4. CarTyped' /\ TimersTyped' /\ TallyTyped'
    BY <1>1, <1>2, <2>1 DEF CarTyped, TimersTyped, TallyTyped, delivery, timers
  <2> QED
    BY <1>3, <2>2, <2>3, <2>4, StayStep DEF NewTypes
<1>5. CASE knows
  <2>1. known \in Cars /\ SameRun(car, known) /\ known.leg = car.leg
    <3>1. ASSUME NEW named \in BOOLEAN, NEW d, d = [car EXCEPT !.named = named]
          PROVE  d \in Cars /\ SameRun(car, d) /\ d.leg = car.leg
      BY <1>1, <3>1 DEF CarTyped, Cars, SameRun
    <3>2. (car.named \/ names) \in BOOLEAN
      BY Zenon
    <3> QED
      BY <3>1, <3>2, Zenon
  <2> HIDE DEF known
  <2>2. /\ told \in Cars /\ SameSession(car, told) /\ told.leg = car.leg
        /\ car.revision <= told.revision
    <3>1. CASE tells
      <4>1. known.named \in BOOLEAN
            /\ [Made(known) EXCEPT !.alerted = TRUE]
                 = [Made(known) EXCEPT !.alerted = TRUE, !.named = known.named]
        <5>1. Made(known).named = known.named /\ Made(known) \in Cars /\ known.named \in BOOLEAN
          BY <2>1, MadeType, CarShape
        <5> QED
          BY <5>1 DEF Cars
      <4>2. /\ told \in Cars /\ SameSession(known, told) /\ told.leg = known.leg
            /\ told.revision = known.revision + 1
        <5>1. told = [Made(known) EXCEPT !.alerted = TRUE, !.named = known.named]
          BY <3>1, <4>1
        <5> HIDE DEF told
        <5> QED
          BY <2>1, <4>1, <5>1, ToldType
      <4> QED
        BY <2>1, <4>2, CarShape DEF SameRun, SameSession
    <3>2. CASE ~tells
      BY <1>1, <2>1, <3>2, CarShape DEF SameRun, SameSession, CarTyped
    <3> QED
      BY <3>1, <3>2
  <2> HIDE DEF told
  <2>3. /\ shown \in Cars /\ SameSession(told, shown) /\ shown.leg = told.leg
        /\ told.revision <= shown.revision
    <3>1. CASE prompt
      BY <2>2, <3>1, MadeType, CarShape
    <3>2. CASE ~prompt
      BY <2>2, <3>2, ScheduledTypes
    <3> QED
      BY <3>1, <3>2
  <2>4. /\ car' \in Cars /\ SameSession(car, car') /\ car'.leg = car.leg
        /\ car.revision <= car'.revision /\ told.revision <= car'.revision
        /\ car' = shown
    <3> HIDE DEF shown
    <3>1. car' = shown
      BY <1>2, <1>5
    <3> QED
      BY <1>1, <2>2, <2>3, <3>1, SameSessions, CarShape DEF CarTyped
  <2>5. /\ first \in Seq(Events)
        /\ \A d \in Of(first) : /\ d.type = "started" /\ d.session = car.session
                                /\ d.revision <= car'.revision /\ d.session \in earned
    <3>1. CASE tells
      <4> DEFINE d == Event("started", told, "banner")
      <4>1. d \in Events /\ d.type = "started" /\ d.session = car.session
            /\ d.revision <= car'.revision
        BY <1>1, <1>5, <2>2, <2>4, Speech
      <4>2. d.session \in earned
        BY <1>5, <3>1, <4>1 DEF SessionInv, Quiet, Discreet
      <4>3. first = <<d>>
        BY <3>1
      <4> HIDE DEF d, first
      <4> QED
        BY <4>1, <4>2, <4>3, Singles
    <3>2. CASE ~tells
      BY <3>2, NoList
    <3> QED
      BY <3>1, <3>2
  <2>6. /\ second \in Seq(Events)
        /\ \A d \in Of(second) : /\ d.type = "updated" /\ d.session = car.session
                                 /\ d.revision <= car'.revision
    <3>1. CASE second = <<Event("updated", shown, "card")>>
      <4> DEFINE d == Event("updated", car', "card")
      <4>1. d \in Events /\ d.type = "updated" /\ d.session = car.session
            /\ d.revision <= car'.revision
        BY <1>1, <1>5, <2>4, CarShape, Speech
      <4>2. second = <<d>>
        BY <2>4, <3>1
      <4> HIDE DEF d, second
      <4> QED
        BY <4>1, <4>2, Singles
    <3>2. CASE second = <<>>
      BY <3>2, NoList
    <3>3. second = <<Event("updated", shown, "card")>> \/ second = <<>>
      BY <2>2, ScheduledTypes
    <3> QED
      BY <3>1, <3>2, <3>3
  <2> DEFINE events == first \o second
  <2>7. /\ events \in Seq(Events) /\ Of(events) \subseteq Of(first) \cup Of(second)
    <3> HIDE DEF first, second
    <3> QED
      BY <2>5, <2>6, Concats
  <2> HIDE DEF first, second
  <2>8. Enqueue(Holding(queue), events) /\ UNCHANGED tries
    BY <1>2, <1>5 DEF Enqueues
  <2> HIDE DEF events
  <2>9. FlowTyped' /\ Carried(Of(events))
    BY <1>2, <2>7, <2>8, FlowEnqueues
  <2>10. Stays(Of(events))
    BY <1>2, <1>5, <2>4, <2>5, <2>6, <2>7 DEF Stays
  <2>11. TimersTyped'
    <3>1. stopped \subseteq Sessions \cup {0}
      BY <1>1, LateTypes
    <3>2. late' \subseteq Sessions \cup {0}
      <4> HIDE DEF stopped
      <4> QED
        BY <1>1, <1>2, <1>5, <3>1, LateTypes
    <3>3. update' \in BOOLEAN
      BY <1>1, <1>2, <1>5, Zenon DEF TimersTyped
    <3> QED
      BY <1>1, <1>2, <1>5, <3>2, <3>3 DEF TimersTyped
  <2>12. owing' \in BOOLEAN
    BY <1>2, <1>5, Zenon
  <2>13. CarTyped' /\ TallyTyped'
    BY <1>1, <1>2, <2>4, <2>8, <2>12, CarStays DEF TallyTyped
  <2> QED
    BY <1>3, <2>9, <2>10, <2>11, <2>13, StayStep DEF NewTypes
<1> QED
  BY <1>4, <1>5

-----------------------------------------------------------------------------
(* Readings                                                                *)

(* What a reading makes of the car and the events, whatever timers do      *)
ReadingStep ==
  /\ CarTyped' /\ FlowTyped' /\ earned' \subseteq Sessions /\ UNCHANGED tries
  /\ update' \in BOOLEAN /\ alert' \in Sessions \cup {0} /\ late' \subseteq Sessions \cup {0}
  /\ \E new : Shape(new)

LEMMA TimersOfStop ==
  ASSUME TypeInv, StopBoth
  PROVE  update' \in BOOLEAN /\ alert' \in Sessions \cup {0} /\ late' \subseteq Sessions \cup {0}
<1>1. TimersTyped
  BY DEF TypeInv
<1>2. UpdateNames \cup AlertNames \subseteq Sessions \cup {0}
  BY <1>1, LateTypes
<1> QED
  BY <1>1, <1>2, LateTypes DEF StopBoth

(* One session ends and another begins, with a start the other says first. *)
LEMMA TurnsStep ==
  ASSUME TypeInv, SessionInv, NEW c \in Cars, SameRun(car, c), car.active,
         NEW s, Names(s), car' \in Cars, car'.active, car'.session = s,
         car'.leg.to # Nowhere, car.revision + 1 <= car'.revision,
         UNCHANGED <<lost, delivery>>,
         NEW start \in Events, start.type = "started", start.session = s,
         start.revision <= car'.revision, Leaves(<<EndOf(c, "card"), start>>), StopBoth,
         earned' \in {earned, earned \cup {s}},
         car'.mode = "live" \/ ~car'.alerted \/ start.to # "card" => s \in earned'
  PROVE  ReadingStep
<1> DEFINE end == EndOf(c, "card")
<1>1. CarTyped
  BY DEF TypeInv
<1>2. /\ c.session # 0 /\ c.session = car.session /\ c.revision = car.revision
      /\ ~Gone /\ car'.revision \in Nat
  BY <1>1, CarShape DEF CarTyped, SameRun, Gone
<1>3. /\ end \in Events /\ end.type = "ended" /\ end.session = car.session
      /\ end.revision = car.revision + 1
  BY <1>2, EndOfType
<1> HIDE DEF end
<1>4. /\ <<end, start>> \in Seq(Events) /\ <<end, start>> # <<>>
      /\ Of(<<end, start>>) = {end, start}
  BY <1>3, Pairs
<1>5. FlowTyped' /\ Carried({end, start}) /\ {end, start} \subseteq Pending'
  BY <1>4, FlowLeaves DEF delivery, end
<1>6. Under(car', s)
  BY DEF Under
<1>7. Shape({start, end})
  <2>1. {start, end} = {end, start} /\ earned \subseteq earned'
    OBVIOUS
  <2> QED
    BY <1>2, <1>3, <1>5, <1>6, <2>1, BeginShape
<1>8. CarTyped' /\ earned' \subseteq Sessions
  BY NewSession DEF CarTyped
<1> QED
  BY <1>5, <1>7, <1>8, TimersOfStop DEF ReadingStep, delivery

LEMMA RecoverRouteStep ==
  ASSUME TypeInv, SessionInv, NEW c \in Cars, SameRun(car, c), car.active,
         NEW b \in Baselines, b.changed.to # Nowhere, RecoverRoute(b, c),
         Names(sessions + 1), SessionID \in Sessions, UNCHANGED lost
  PROVE  ReadingStep /\ BaselineTyped' /\ car'.active
<1> DEFINE leg == [c EXCEPT !.leg = Applied(NoRoute, b.changed), !.revision = @ + 1]
           found == [Recovered(BeginLeg(leg)) EXCEPT !.session = sessions + 1,
                                                     !.observed = FALSE]
           start == Started(found, b, FALSE)
<1>1. /\ car' = start.car /\ Leaves(<<EndOf(c, "card"), start.event>>)
      /\ baseline' = [b EXCEPT !.route = IF @ = "none" THEN "retained" ELSE @,
                               !.changed = NoRoute]
      /\ StopBoth /\ UNCHANGED <<delivery, earned>>
  BY DEF RecoverRoute
<1>2. Applied(NoRoute, b.changed) \in Routes /\ Applied(NoRoute, b.changed).to # Nowhere
  <2>1. b.changed \in Routes
    BY DEF Baselines
  <2> QED
    BY <2>1, NothingIsStaged, LegTypes
<1>3. leg \in Cars /\ leg.leg.to # Nowhere /\ leg.revision = car.revision + 1
  <2>1. leg \in Cars /\ leg.leg.to # Nowhere /\ leg.revision = c.revision + 1
    BY <1>2, NothingIsStaged, LegChanges
  <2> HIDE DEF leg
  <2> QED
    BY <2>1 DEF SameRun
<1> HIDE DEF leg
<1>4. /\ found \in Cars /\ found.active /\ found.session = sessions + 1
      /\ found.mode = "recovered" /\ found.alerted /\ found.leg.to # Nowhere
      /\ found.revision = car.revision + 1
  <2> DEFINE r == Recovered(BeginLeg(leg))
  <2>1. /\ r \in Cars /\ r.active /\ r.mode = "recovered" /\ r.alerted /\ r.leg.to # Nowhere
        /\ r.revision = car.revision + 1
    BY <1>3, BeginLegType, RecoveredType
  <2> HIDE DEF r
  <2>2. found = [r EXCEPT !.session = sessions + 1, !.observed = FALSE]
    BY DEF r
  <2>3. sessions + 1 \in Sessions
    BY NewSession
  <2> HIDE DEF found
  <2> QED
    BY <2>1, <2>2, <2>3 DEF Cars
<1> HIDE DEF found
<1>5. /\ start.car \in Cars /\ SameSession(found, start.car)
      /\ start.car.leg = found.leg /\ start.car.revision = found.revision + 1
      /\ start.event \in Events /\ start.event.type = "started"
      /\ start.event.session = found.session /\ start.event.revision = found.revision + 1
      /\ start.event.to # "card" => found.mode = "live"
  <2>1. found.session # 0
    BY <1>4, NewSession
  <2> QED
    BY <1>4, <2>1, StartedType
<1> HIDE DEF start
<1>6. ReadingStep
  <2>1. start.event.revision <= car'.revision /\ car.revision + 1 <= car'.revision
    BY <1>1, <1>4, <1>5, CarShape DEF TypeInv, CarTyped
  <2>2. /\ car' \in Cars /\ car'.active /\ car'.session = sessions + 1
        /\ car'.leg.to # Nowhere /\ car'.mode = "recovered" /\ car'.alerted
    BY <1>1, <1>4, <1>5 DEF SameSession
  <2> QED
    BY <1>1, <1>4, <1>5, <2>1, <2>2, TurnsStep
<1>7. BaselineTyped'
  <2>1. ASSUME NEW x \in {"none", "retained", "live"}, NEW d,
               d = [b EXCEPT !.route = x, !.changed = NoRoute]
        PROVE  d \in Baselines /\ d.changed = NoRoute
    BY <2>1, NothingIsStaged DEF Baselines
  <2>2. (IF b.route = "none" THEN "retained" ELSE b.route) \in {"none", "retained", "live"}
    BY DEF Baselines
  <2> QED
    BY <1>1, <2>1, <2>2 DEF BaselineTyped
<1> QED
  BY <1>1, <1>4, <1>5, <1>6, <1>7 DEF SameSession

LEMMA RedirectStep ==
  ASSUME TypeInv, SessionInv, NEW c \in Cars, SameRun(car, c), car.active,
         NEW b \in Baselines, NEW route \in Routes, route.to # Nowhere,
         Redirect(b, c, route), Names(SessionID), UNCHANGED lost
  PROVE  ReadingStep
<1> DEFINE leg == [c EXCEPT !.leg = Applied(NoRoute, route), !.revision = @ + 1]
           begun == [BeginLeg(leg) EXCEPT !.kind = "reroute"]
           start == Started(begun, b, FALSE)
           quiet == NearArrival(car.leg.left) \/ c.rerouted
           event == IF quiet THEN [start.event EXCEPT !.to = "card"] ELSE start.event
<1>1. /\ car' = IF quiet THEN [start.car EXCEPT !.alerted = TRUE]
                ELSE [start.car EXCEPT !.rerouted = TRUE]
      /\ Leaves(<<EndOf(c, "card"), event>>)
      /\ earned' = earned \cup {car'.session} /\ StopBoth /\ UNCHANGED delivery
  BY DEF Redirect
<1>2. Applied(NoRoute, route) \in Routes /\ Applied(NoRoute, route).to # Nowhere
  BY NothingIsStaged, LegTypes
<1>3. leg \in Cars /\ leg.leg.to # Nowhere /\ leg.revision = car.revision + 1
  <2>1. leg \in Cars /\ leg.leg.to # Nowhere /\ leg.revision = c.revision + 1
    BY <1>2, NothingIsStaged, LegChanges
  <2> HIDE DEF leg
  <2> QED
    BY <2>1 DEF SameRun
<1> HIDE DEF leg
<1>4. /\ begun \in Cars /\ begun.active /\ begun.session = SessionID
      /\ begun.leg.to # Nowhere /\ begun.revision = car.revision + 1
  <2> DEFINE r == BeginLeg(leg)
  <2>1. /\ r \in Cars /\ r.active /\ r.session = SessionID /\ r.leg.to # Nowhere
        /\ r.revision = car.revision + 1
    BY <1>3, NewSession, BeginLegType
  <2> HIDE DEF r
  <2>2. begun = [r EXCEPT !.kind = "reroute"]
    BY DEF r
  <2> HIDE DEF begun
  <2> QED
    BY <2>1, <2>2 DEF Cars
<1> HIDE DEF begun
<1>5. /\ start.car \in Cars /\ SameSession(begun, start.car)
      /\ start.car.leg = begun.leg /\ start.car.revision = begun.revision + 1
      /\ start.event \in Events /\ start.event.type = "started"
      /\ start.event.session = begun.session /\ start.event.revision = begun.revision + 1
  BY <1>4, NewSession, StartedType
<1> HIDE DEF start
<1>6. /\ event \in Events /\ event.type = "started"
      /\ event.session = SessionID /\ event.revision = begun.revision + 1
  <2>1. ASSUME NEW e \in Events, NEW d, d = [e EXCEPT !.to = "card"]
        PROVE  d \in Events /\ d.type = e.type /\ d.session = e.session
               /\ d.revision = e.revision
    BY <2>1 DEF Events
  <2> QED
    BY <1>4, <1>5, <2>1
<1>7. /\ car' \in Cars /\ car'.active /\ car'.session = SessionID
      /\ car'.leg.to # Nowhere /\ car'.revision = begun.revision + 1
  <2>1. ASSUME NEW e \in Cars, NEW d,
               d = [e EXCEPT !.alerted = TRUE] \/ d = [e EXCEPT !.rerouted = TRUE]
        PROVE  /\ d \in Cars /\ d.active = e.active /\ d.session = e.session
               /\ d.leg = e.leg /\ d.revision = e.revision
    BY <2>1 DEF Cars
  <2> QED
    BY <1>1, <1>4, <1>5, <2>1 DEF SameSession
<1> HIDE DEF event
<1>8. event.revision <= car'.revision /\ car.revision + 1 <= car'.revision
  BY <1>4, <1>6, <1>7, CarShape DEF TypeInv, CarTyped
<1>9. SessionID \in earned' /\ earned' = earned \cup {SessionID}
  BY <1>1, <1>7
<1> QED
  BY <1>1, <1>6, <1>7, <1>8, <1>9, TurnsStep

(* The start a handler sends, and the alert that may wait *)
LEMMA SendTypes ==
  ASSUME TypeInv, NEW start, start.car \in Cars, start.car.session \in Sessions,
         start.event \in Events, SendStart(start)
  PROVE  /\ FlowTyped' /\ Carried({start.event}) /\ start.event \in Pending'
         /\ car' = start.car /\ UNCHANGED tries /\ update' \in BOOLEAN
         /\ alert' \in Sessions \cup {0} /\ late' \subseteq Sessions \cup {0}
<1>1. TimersTyped
  BY DEF TypeInv
<1>2. /\ <<start.event>> \in Seq(Events) /\ <<start.event>> # <<>>
      /\ Of(<<start.event>>) = {start.event}
  BY Singles
<1>3. Leaves(<<start.event>>) /\ UNCHANGED delivery
  BY DEF SendStart
<1>4. FlowTyped' /\ Carried({start.event}) /\ {start.event} \subseteq Pending'
  BY <1>2, <1>3, FlowLeaves DEF delivery
<1>5. update' \in BOOLEAN /\ alert' \in Sessions \cup {0} /\ late' \subseteq Sessions \cup {0}
  <2>1. CASE start.waits
    <3>1. alert' = start.car.session /\ late' \in MayBeLate(AlertNames) /\ UNCHANGED update
      BY <2>1 DEF SendStart
    <3> QED
      BY <1>1, <3>1, LateTypes DEF TimersTyped
  <2>2. CASE ~start.waits
    BY <1>1, <2>2 DEF SendStart, TimersTyped, timers
  <2> QED
    BY <2>1, <2>2
<1> QED
  BY <1>3, <1>4, <1>5 DEF SendStart, delivery

LEMMA BeginStep ==
  ASSUME TypeInv, SessionInv, NEW c \in Cars, SameRun(car, c), ~car.active,
         c.leg.to # Nowhere, NEW b \in Baselines, Begin(b, c),
         Names(SessionID), ~Gone, UNCHANGED lost
  PROVE  ReadingStep
<1> DEFINE begun == BeginLeg(c)
           found == IF Transition(b) THEN begun ELSE Recovered(begun)
<1>1. PICK resolved \in BOOLEAN : SendStart(Started(found, b, resolved))
  BY DEF Begin
<1>2. earned' = IF Transition(b) THEN earned \cup {car'.session} ELSE earned
  BY DEF Begin
<1>3. /\ begun \in Cars /\ begun.active /\ begun.session = SessionID
      /\ begun.mode = "live" /\ begun.leg = c.leg /\ begun.revision = car.revision
  BY NewSession, BeginLegType DEF SameRun
<1> HIDE DEF begun
<1>4. /\ found \in Cars /\ found.active /\ found.session = SessionID
      /\ found.leg = c.leg /\ found.revision = car.revision
      /\ Transition(b) \/ (found.mode = "recovered" /\ found.alerted)
  BY <1>3, RecoveredType
<1> DEFINE start == Started(found, b, resolved)
<1> HIDE DEF found
<1>5. /\ start.car \in Cars /\ SameSession(found, start.car)
      /\ start.car.leg = found.leg /\ start.car.revision = found.revision + 1
      /\ start.event \in Events /\ start.event.type = "started"
      /\ start.event.session = found.session /\ start.event.revision = found.revision + 1
      /\ start.event.to # "card" => Transition(b)
  BY <1>4, NewSession, StartedType
<1>6. SendStart(start)
  BY <1>1
<1> HIDE DEF start
<1>7. /\ FlowTyped' /\ Carried({start.event}) /\ start.event \in Pending'
      /\ car' = start.car /\ UNCHANGED tries /\ update' \in BOOLEAN
      /\ alert' \in Sessions \cup {0} /\ late' \subseteq Sessions \cup {0}
  <2>1. start.car.session \in Sessions
    BY <1>4, <1>5, NewSession DEF SameSession
  <2> QED
    BY <1>5, <1>6, <2>1, SendTypes
<1>8. /\ car' \in Cars /\ car'.active /\ car'.session = SessionID /\ car'.leg.to # Nowhere
      /\ Transition(b) \/ (car'.mode = "recovered" /\ car'.alerted)
  BY <1>4, <1>5, <1>7 DEF SameSession
<1>9. /\ earned \subseteq earned' /\ earned' \subseteq Sessions
      /\ Transition(b) => SessionID \in earned'
  BY <1>2, <1>8, NewSession
<1>10. Shape({start.event})
  <2>1. start.event.session = SessionID
    BY <1>4, <1>5
  <2>2. /\ start.event.revision <= car'.revision /\ car.revision + 1 <= car'.revision
        /\ car'.revision \in Nat
    BY <1>4, <1>5, <1>7, <1>8, CarShape DEF TypeInv, CarTyped
  <2>3. Under(car', SessionID) /\ {start.event} \subseteq Pending'
    BY <1>7, <1>8 DEF Under
  <2>4. car'.mode = "live" \/ ~car'.alerted \/ start.event.to # "card"
          => SessionID \in earned'
    <3>1. CASE Transition(b)
      BY <1>9, <3>1
    <3>2. CASE ~Transition(b)
      BY <1>5, <1>8, <3>2
    <3> QED
      BY <3>1, <3>2
  <2>5. start.event \in {start.event}
    OBVIOUS
  <2> QED
    BY <1>5, <1>7, <1>9, <2>1, <2>2, <2>3, <2>4, <2>5, BeginShape
<1>11. CarTyped'
  BY <1>8, NewSession DEF CarTyped
<1> QED
  BY <1>7, <1>9, <1>10, <1>11 DEF ReadingStep

LEMMA EndStep ==
  ASSUME TypeInv, SessionInv, NEW c \in Cars, SameRun(car, c), car.active,
         NEW m \in Readings, End(m, c), UNCHANGED <<sessions, again, lost>>
  PROVE  ReadingStep /\ ~car'.active
<1> DEFINE arrived == LooksArrived(car.leg.left) /\ (Clears(m) \/ Parking(c.state))
           to == IF arrived THEN "both" ELSE "card"
           e == EndOf(c, to)
<1>1. /\ car' = [Idle(c) EXCEPT !.revision = @ + 1, !.leg = IF Clears(m) THEN NoRoute ELSE @]
      /\ Leaves(<<e>>) /\ StopBoth /\ UNCHANGED <<delivery, earned>>
  BY DEF End
<1>2. CarTyped
  BY DEF TypeInv
<1>3. c.session # 0 /\ c.session = car.session /\ c.revision = car.revision
  BY <1>2 DEF CarTyped, SameRun
<1>4. /\ e \in Events /\ e.type = "ended" /\ e.session = car.session
      /\ e.revision = car.revision + 1
  <2>1. to \in {"card", "banner", "both"}
    OBVIOUS
  <2> HIDE DEF to
  <2> QED
    BY <1>3, <2>1, EndOfType
<1> HIDE DEF e
<1>5. FlowTyped' /\ Carried({e}) /\ {e} \subseteq Pending'
  <2>1. <<e>> \in Seq(Events) /\ <<e>> # <<>> /\ Of(<<e>>) = {e}
    BY <1>4, Singles
  <2> QED
    BY <1>1, <2>1, FlowLeaves DEF delivery
<1>6. /\ car' \in Cars /\ ~car'.active /\ car'.session = car.session
      /\ car'.revision = car.revision + 1 /\ car'.revision \in Nat
  <2> DEFINE d == Idle(c)
             f == [d EXCEPT !.revision = @ + 1]
             leg == IF Clears(m) THEN NoRoute ELSE d.leg
  <2>1. d \in Cars /\ ~d.active /\ d.session = car.session /\ d.revision = car.revision
    BY <1>3, IdleType
  <2>2. leg \in Routes
    BY <2>1, CarShape, NothingIsStaged
  <2>3. car' = [f EXCEPT !.leg = leg]
    BY <1>1
  <2> HIDE DEF d, leg
  <2>4. /\ f \in Cars /\ f.active = d.active /\ f.session = d.session
        /\ f.revision = car.revision + 1
    BY <2>1 DEF Cars
  <2> HIDE DEF f
  <2>5. ASSUME NEW g, g = [f EXCEPT !.leg = leg]
        PROVE  /\ g \in Cars /\ g.active = f.active /\ g.session = f.session
               /\ g.revision = f.revision
    BY <2>2, <2>4, <2>5 DEF Cars
  <2> QED
    BY <2>1, <2>3, <2>4, <2>5, CarShape
<1>7. Shape({e})
  <2>1. car.revision + 1 <= car'.revision
    BY <1>6
  <2> QED
    BY <1>1, <1>4, <1>5, <1>6, <2>1, EndShape
<1>8. CarTyped'
  BY <1>2, <1>6, CarIdles
<1>9. earned' \subseteq Sessions /\ UNCHANGED tries
  <2>1. TallyTyped
    BY DEF TypeInv
  <2> QED
    BY <1>1, <2>1 DEF TallyTyped, delivery
<1> QED
  BY <1>1, <1>5, <1>6, <1>7, <1>8, <1>9, TimersOfStop DEF ReadingStep

(* A car that a reading has changed, in the session of before              *)
LEMMA SameRuns ==
  ASSUME NEW c, NEW d, SameRun(c, d)
  PROVE  SameSession(c, d) /\ d.revision = c.revision /\ d.active = c.active
BY DEF SameRun, SameSession

LEMMA CarGoesOn ==
  ASSUME CarTyped, car' \in Cars, SameSession(car, car'),
         car'.active => car'.leg.to # Nowhere, UNCHANGED sessions
  PROVE  CarTyped'
BY DEF CarTyped, SameSession

(* Nothing but an event of the session under way is said. *)
LEMMA ContinueStep ==
  ASSUME TypeInv, SessionInv, NEW c \in Cars, SameRun(car, c),
         c.active => c.leg.to # Nowhere, baseline' \in Baselines, Continue(c),
         UNCHANGED <<sessions, again, lost>>
  PROVE  ReadingStep
<1>1. CarTyped /\ TimersTyped /\ TallyTyped
  BY DEF TypeInv
<1>2. car \in Cars /\ car.revision \in Nat /\ c.revision = car.revision
  BY <1>1, CarShape DEF CarTyped, SameRun
<1>3. UNCHANGED earned /\ earned' \subseteq Sessions
  BY <1>1 DEF Continue, TallyTyped
<1>4. SameSession(car, c)
  BY SameRuns
<1>5. CASE c.active /\ ~c.started /\ ~c.recent
  <2>1. PICK resolved \in BOOLEAN : SendStart(Started(c, baseline', resolved))
    BY <1>5 DEF Continue
  <2>2. car.active /\ c.session = car.session /\ c.session # 0 /\ c.session \in Sessions
    BY <1>1, <1>5, CarShape DEF CarTyped, SameRun
  <2> DEFINE start == Started(c, baseline', resolved)
  <2>3. /\ start.car \in Cars /\ SameSession(c, start.car)
        /\ start.car.revision = c.revision + 1 /\ start.car.leg = c.leg
        /\ start.event \in Events /\ start.event.type = "started"
        /\ start.event.session = c.session /\ start.event.revision = c.revision + 1
        /\ start.event.to # "card" => c.mode = "live"
    BY <2>2, StartedType
  <2>4. SendStart(start)
    BY <2>1
  <2> HIDE DEF start
  <2>5. start.car.session \in Sessions
    BY <2>2, <2>3 DEF SameSession
  <2>6. /\ FlowTyped' /\ Carried({start.event}) /\ start.event \in Pending'
        /\ car' = start.car /\ UNCHANGED tries /\ update' \in BOOLEAN
        /\ alert' \in Sessions \cup {0} /\ late' \subseteq Sessions \cup {0}
    BY <2>3, <2>4, <2>5, SendTypes
  <2>7. SameSession(car, car') /\ car' \in Cars /\ car'.leg = c.leg
        /\ car'.active = c.active
    BY <1>4, <2>3, <2>6, SameSessions DEF SameSession
  <2>8. CarTyped'
    BY <1>1, <2>7, CarGoesOn
  <2>9. start.event.to # "card" => start.event.session \in earned
    BY <2>2, <2>3 DEF SameRun, SessionInv, Quiet, Discreet
  <2>10. car.revision <= car'.revision /\ start.event.revision <= car'.revision
    BY <1>2, <2>3, <2>6
  <2>11. Stays({start.event})
    BY <1>3, <2>2, <2>3, <2>7, <2>9, <2>10 DEF Stays
  <2> QED
    BY <1>3, <2>6, <2>8, <2>11, StaysShape DEF ReadingStep
<1>6. CASE ~(c.active /\ ~c.started /\ ~c.recent)
  <2>1. /\ car' = Scheduled(c) /\ Enqueue(Holding(queue), ScheduledEvents(c))
        /\ update' = (update \/ (UpdateDue(c) /\ c.recent))
        /\ UNCHANGED <<tries, alert, late, leaving>>
    BY <1>6 DEF Continue, Enqueues
  <2>2. /\ car' \in Cars /\ SameSession(c, car') /\ car'.leg = c.leg
        /\ c.revision <= car'.revision
        /\ \/ ScheduledEvents(c) = <<>>
           \/ c.active /\ ScheduledEvents(c) = <<Event("updated", car', "card")>>
    BY <2>1, ScheduledTypes
  <2>3. SameSession(car, car') /\ car'.active = c.active
    BY <1>4, <2>2, SameSessions DEF SameSession
  <2>4. CarTyped'
    BY <1>1, <2>2, <2>3, CarGoesOn
  <2>5. update' \in BOOLEAN
    BY <2>1
  <2>6. alert' \in Sessions \cup {0} /\ late' \subseteq Sessions \cup {0}
    BY <1>1, <2>1 DEF TimersTyped
  <2>7. /\ ScheduledEvents(c) \in Seq(Events)
        /\ \A e \in Of(ScheduledEvents(c)) :
             /\ e.type = "updated" /\ car.active /\ e.session = car.session
             /\ e.revision <= car'.revision
    <3>1. CASE ScheduledEvents(c) = <<>>
      BY <3>1, NoList
    <3>2. CASE c.active /\ ScheduledEvents(c) = <<Event("updated", car', "card")>>
      <4> DEFINE e == Event("updated", car', "card")
      <4>1. car.active /\ car'.revision <= car'.revision
        BY <2>2, <3>2, CarShape DEF SameRun
      <4>2. /\ e \in Events /\ e.type = "updated" /\ e.session = car.session
            /\ e.revision <= car'.revision
        BY <1>1, <2>2, <2>3, <4>1, Speech
      <4> HIDE DEF e
      <4> QED
        BY <3>2, <4>1, <4>2, Singles DEF e
    <3> QED
      BY <2>2, <3>1, <3>2
  <2>8. FlowTyped' /\ Carried(Of(ScheduledEvents(c)))
    BY <2>1, <2>7, FlowEnqueues
  <2>9. Stays(Of(ScheduledEvents(c)))
    BY <1>2, <1>3, <2>2, <2>3, <2>7 DEF Stays
  <2> QED
    BY <1>3, <2>1, <2>4, <2>5, <2>6, <2>8, <2>9, StaysShape DEF ReadingStep
<1> QED
  BY <1>5, <1>6

LEMMA OutcomeFacts ==
  ASSUME car.active \in BOOLEAN, NEW m \in Readings, NEW b, NEW c
  PROVE  LET outcome == Outcome(m, b, c) IN
         /\ outcome \in {"recovers", "is noted", "redirects", "continues", "begins", "ends"}
         /\ outcome = "recovers" => car.active /\ b.changed # NoRoute
         /\ outcome = "redirects" => StartsLeg(m)
         /\ outcome = "begins" => ~car.active /\ c.leg.to # Nowhere
         /\ outcome = "ends" => car.active
<1> DEFINE lives == ShouldBeActive(c, Clears(m))
<1>1. lives \in BOOLEAN /\ (lives => c.leg.to # Nowhere)
  BY DEF ShouldBeActive
<1> HIDE DEF lives
<1> DEFINE quiet == (m.retained \/ ~Ready(b))
                    /\ ~(~m.retained /\ car.active
                         /\ (Clears(m) \/ (m.field = "state" /\ Parking(m.value))))
           redirects == StartsLeg(m) /\ lives /\ c.state = "driving"
           recovers == /\ ~m.retained /\ b.healthy = "yes" /\ b.state # "none"
                       /\ c.state = "driving" /\ car.active /\ b.changed # NoRoute
<1>2. Outcome(m, b, c) = IF recovers THEN "recovers"
                         ELSE IF quiet THEN "is noted"
                         ELSE IF redirects THEN "redirects"
                         ELSE IF lives = car.active THEN "continues"
                         ELSE IF lives THEN "begins" ELSE "ends"
  BY DEF Outcome, lives
<1>3. (redirects => StartsLeg(m)) /\ (recovers => car.active /\ b.changed # NoRoute)
  OBVIOUS
<1> HIDE DEF quiet, redirects, recovers
<1> QED
  BY <1>1, <1>2, <1>3

LEMMA ObserveStep ==
  ASSUME TypeInv, SessionInv, NEW m \in Readings, Observe(m)
  PROVE  TypeInv' /\ \E new : Shape(new)
<1> DEFINE b == Noted(m)
           c == Read(m)
           outcome == Outcome(m, b, c)
           begins == outcome \in {"redirects", "begins"}
           fresh == outcome = "recovers" \/ (begins /\ minted = 0)
<1>1. CarTyped /\ BaselineTyped /\ TimersTyped /\ TallyTyped /\ car.active \in BOOLEAN
  BY CarShape DEF TypeInv, CarTyped
<1>2. c \in Cars /\ SameRun(car, c) /\ (c.active => c.leg.to # Nowhere)
  BY <1>1, ReadType DEF CarTyped, TallyTyped
<1>3. b \in Baselines /\ (b.changed # NoRoute => b.changed.to # Nowhere)
  BY <1>1, NotedType DEF BaselineTyped
<1>4. /\ outcome \in {"recovers", "is noted", "redirects", "continues", "begins", "ends"}
      /\ outcome = "recovers" => car.active /\ b.changed # NoRoute
      /\ outcome = "redirects" => StartsLeg(m)
      /\ outcome = "begins" => ~car.active /\ c.leg.to # Nowhere
      /\ outcome = "ends" => car.active
  BY <1>1, OutcomeFacts
<1>5. /\ fresh => sessions < MaxSessions
      /\ car.session # 0 \/ sessions < MaxSessions
  BY DEF Observe
<1>6. IF outcome = "recovers" THEN RecoverRoute(b, c)
      ELSE /\ baseline' = b
           /\ outcome = "is noted" => /\ car' = c
                                      /\ UNCHANGED <<timers, leaving, delivery, earned>>
           /\ outcome = "redirects" => Redirect(b, c, m.value)
           /\ outcome = "begins" => Begin(b, c)
           /\ outcome = "ends" => End(m, c)
           /\ outcome = "continues" => Continue(c)
  BY <1>4 DEF Observe
<1>7. /\ sessions' = IF fresh THEN sessions + 1 ELSE sessions
      /\ minted' = IF begins THEN SessionID ELSE minted
      /\ again' = IF begins /\ ~fresh THEN again \cup {minted} ELSE again
  BY DEF Observe
<1>8. reading' = reading \cup (IF outcome \in {"is noted", "ends"} \/ ~car'.active
                               THEN {} ELSE {car'.session})
  BY DEF Observe
<1>9. owing' \in BOOLEAN
  <2>1. owing' = (Ready(baseline') /\
                  IF outcome = "is noted" THEN owing
                  ELSE outcome = "continues" /\ car'.active
                       /\ (owing \/ car'.started) /\ car'.revision = car.revision)
    BY DEF Observe
  <2> QED
    BY <1>1, <2>1 DEF TallyTyped, Ready
<1>10. UNCHANGED <<grace, lost>>
  BY DEF Observe
<1> HIDE DEF b, c, outcome
<1>11. ~Gone
  BY <1>5, Constants DEF Gone
<1>12. begins => Names(SessionID)
  BY <1>5, <1>7 DEF Names, SessionID
<1>13. outcome = "recovers" => Names(sessions + 1) /\ SessionID \in Sessions
  BY <1>1, <1>5, <1>7, Constants DEF Names, SessionID, CarTyped, TallyTyped, Sessions
<1>14. minted' \in 0..sessions' /\ again' \subseteq Sessions
  <2>1. minted \in 0..sessions /\ again \subseteq Sessions /\ sessions \in 0..MaxSessions
    BY <1>1 DEF CarTyped, TallyTyped
  <2>2. minted # 0 => minted \in Sessions
    BY <2>1, Constants DEF Sessions
  <2> QED
    BY <1>7, <2>1, <2>2, Constants DEF SessionID
<1>15. BaselineTyped'
  <2>1. CASE outcome = "recovers"
    BY <1>2, <1>3, <1>4, <1>6, <1>10, <1>13, <2>1, RecoverRouteStep
  <2>2. CASE outcome # "recovers"
    BY <1>3, <1>6, <2>2 DEF BaselineTyped
  <2> QED
    BY <2>1, <2>2
<1>16. ReadingStep
  <2>1. CASE outcome = "recovers"
    BY <1>2, <1>3, <1>4, <1>6, <1>10, <1>13, <2>1, RecoverRouteStep
  <2>2. CASE outcome = "redirects"
    <3>1. car.active /\ m.value \in Routes /\ m.value.to # Nowhere
      BY <1>4, <2>2, ReadingShape DEF StartsLeg, IsRoute
    <3> QED
      BY <1>2, <1>3, <1>6, <1>10, <1>12, <2>2, <3>1, RedirectStep
  <2>3. CASE outcome = "begins"
    BY <1>2, <1>3, <1>4, <1>6, <1>10, <1>11, <1>12, <2>3, BeginStep
  <2>4. CASE outcome = "ends"
    BY <1>2, <1>4, <1>6, <1>7, <1>10, <2>4, EndStep
  <2>5. CASE outcome = "continues"
    BY <1>2, <1>3, <1>6, <1>7, <1>10, <2>5, ContinueStep
  <2>6. CASE outcome = "is noted"
    <3>1. /\ car' = c /\ UNCHANGED <<sessions, again, earned, lost, leaving, delivery, timers>>
      BY <1>6, <1>7, <1>10, <2>6
    <3>2. SameSession(car, car') /\ car'.revision = car.revision /\ car'.active = c.active
      BY <1>2, <3>1, SameRuns
    <3>3. CarTyped'
      BY <1>1, <1>2, <3>1, <3>2, CarGoesOn
    <3>4. FlowTyped' /\ Carried({})
      BY <3>1, FlowStays DEF delivery
    <3>5. Stays({})
      BY <1>1, <3>1, <3>2, CarShape DEF Stays, CarTyped
    <3>6. /\ update' \in BOOLEAN /\ alert' \in Sessions \cup {0}
          /\ late' \subseteq Sessions \cup {0} /\ earned' \subseteq Sessions /\ UNCHANGED tries
      BY <1>1, <3>1 DEF TimersTyped, TallyTyped, timers, delivery
    <3> QED
      BY <3>3, <3>4, <3>5, <3>6, StaysShape DEF ReadingStep
  <2> QED
    BY <1>4, <2>1, <2>2, <2>3, <2>4, <2>5, <2>6
<1>17. reading' \subseteq Sessions
  <2>1. car'.active => car'.session \in Sessions
    BY <1>16, CarShape DEF ReadingStep, CarTyped
  <2> QED
    BY <1>1, <1>8, <2>1 DEF TimersTyped
<1>18. NewTypes
  <2>1. CarTyped' /\ FlowTyped'
    BY <1>16 DEF ReadingStep
  <2>2. TimersTyped'
    BY <1>16, <1>17 DEF ReadingStep, TimersTyped
  <2>3. TallyTyped'
    BY <1>1, <1>9, <1>10, <1>14, <1>16 DEF ReadingStep, TallyTyped
  <2> QED
    BY <1>15, <2>1, <2>2, <2>3 DEF NewTypes
<1> QED
  BY <1>16, <1>18, NewTypesHold DEF ReadingStep

-----------------------------------------------------------------------------
(* The theorems                                                            *)

LEMMA InitHolds ==
  ASSUME Init
  PROVE  TypeInv /\ FileInv /\ SessionInv
<1>1. /\ car = NewCar /\ baseline = NoBaseline /\ sessions = 0
      /\ update = FALSE /\ alert = 0 /\ late = {} /\ reading = {} /\ leaving = {}
      /\ queue = <<>> /\ priority = <<>> /\ tries = [ordinary |-> 0, terminal |-> 0]
      /\ history = [s \in Sessions |-> NoHistory]
      /\ carFile = car /\ historyFile = history
      /\ grace = TRUE /\ minted = 0 /\ again = {} /\ earned = {} /\ lost = {}
      /\ owing = FALSE
  BY DEF Init
<1>2. NewCar \in Cars /\ ~NewCar.active /\ NewCar.session = 0
  BY NewCarType
<1>3. CarTyped /\ BaselineTyped /\ TimersTyped
  <2>1. CarTyped
    <3>1. 0 <= sessions /\ sessions \in 0..MaxSessions
      BY <1>1, Constants
    <3>2. car \in Cars /\ ~car.active /\ car.session = 0
      BY <1>1, <1>2
    <3> QED
      BY <3>1, <3>2 DEF CarTyped
  <2>2. BaselineTyped
    BY <1>1, NoBaselineType DEF BaselineTyped
  <2>3. TimersTyped
    BY <1>1 DEF TimersTyped
  <2> QED
    BY <2>1, <2>2, <2>3
<1>4. history \in [Sessions -> HistoryRecords] /\ \A s \in Sessions : history[s] = NoHistory
  BY <1>1 DEF NoHistory, HistoryRecords
<1>5. FlowTyped /\ Pending = {} /\ Sent = {}
  <2>1. Pending = {}
    BY <1>1 DEF Pending
  <2>2. OrdinaryQueue(queue) /\ TerminalQueue(priority)
    BY <1>1, NoList, Constants DEF OrdinaryQueue, TerminalQueue
  <2>3. Sent = {}
    BY <1>1, <2>1, NoList DEF Sent
  <2> QED
    BY <1>1, <1>4, <2>1, <2>2, <2>3 DEF FlowTyped
<1>6. TallyTyped
  <2>1. 0 \in 0..(Attempts - 1)
    BY Constants
  <2>2. tries \in [ordinary : 0..(Attempts - 1), terminal : 0..(Attempts - 1)]
    BY <1>1, <2>1
  <2>3. minted \in 0..sessions
    BY <1>1
  <2> QED
    BY <1>1, <2>2, <2>3 DEF TallyTyped
<1>7. SessionInv
  <2>1. Known
    BY <1>4, <1>5 DEF Known
  <2>2. Running /\ Quiet
    BY <1>1, <1>2, <1>5 DEF Running, Quiet, Discreet
  <2>3. Over
    BY <1>1 DEF Over
  <2>4. Behind
    BY <1>5 DEF Behind
  <2> QED
    BY <2>1, <2>2, <2>3, <2>4 DEF SessionInv
<1>8. FileInv
  BY <1>1, <1>2, <1>4 DEF FileInv, Discreet
<1> QED
  BY <1>3, <1>5, <1>6, <1>7, <1>8 DEF TypeInv

LEMMA StutterStep ==
  ASSUME TypeInv, SessionInv, UNCHANGED vars
  PROVE  TypeInv' /\ \E new : Shape(new)
<1>1. /\ UNCHANGED <<car, baseline, reading, leaving, grace, sessions, minted, again, owing>>
      /\ UNCHANGED <<update, alert, late, queue, priority, tries, history, earned, lost>>
  BY DEF vars, timers, delivery, naming, ghosts
<1>2. CarTyped /\ BaselineTyped /\ FlowTyped /\ TimersTyped /\ TallyTyped
  BY DEF TypeInv
<1>3. FlowTyped' /\ Carried({})
  BY <1>1, FlowStays
<1>4. CarTyped' /\ BaselineTyped' /\ TimersTyped' /\ TallyTyped'
  BY <1>1, <1>2 DEF CarTyped, BaselineTyped, TimersTyped, TallyTyped
<1>5. Stays({})
  BY <1>1, <1>2, CarShape DEF Stays, SameSession, CarTyped
<1> QED
  BY <1>3, <1>4, <1>5, StayStep DEF NewTypes

(* A save writes what is in memory; where it fails, the files stay.        *)
LEMMA FileStep ==
  ASSUME FileInv, TypeInv', SessionInv', sessions <= sessions', sessions' \in Nat,
         sessions \in Nat, earned \subseteq earned',
         \/ carFile' \in {carFile, car'}
         \/ \E what \in {"recent", "rerouted", "session", "staged"} :
              carFile' = Passed(carFile, what),
         historyFile' \in {historyFile, history'}
  PROVE  FileInv'
<1>1. /\ carFile' \in Cars
      /\ carFile'.active => carFile'.session # 0 /\ carFile'.leg.to # Nowhere
      /\ carFile'.session <= sessions' /\ Discreet(carFile)'
  <2>1. CASE carFile' = car'
    BY <2>1 DEF TypeInv, CarTyped, SessionInv, Quiet, Discreet
  <2>2. CASE carFile' \in Cars /\ SameRun(carFile, carFile') /\ carFile'.leg = carFile.leg
    <3>1. carFile.session \in Nat
      BY CarShape DEF FileInv, Sessions
    <3> QED
      BY <2>2, <3>1 DEF FileInv, SameRun, Discreet
  <2>3. SameRun(carFile, carFile)
    BY DEF SameRun
  <2> QED
    BY <2>1, <2>2, <2>3, PassedType DEF FileInv
<1>2. /\ historyFile' \in [Sessions -> HistoryRecords]
      /\ \A s \in Sessions : s > sessions' => historyFile'[s] = NoHistory
  <2>1. CASE historyFile' = history'
    BY <2>1 DEF TypeInv, FlowTyped, SessionInv, Known
  <2>2. CASE historyFile' = historyFile
    <3>1. ASSUME NEW s \in Sessions, s > sessions'
          PROVE  s > sessions
      BY <3>1 DEF Sessions
    <3> QED
      BY <2>2, <3>1 DEF FileInv
  <2> QED
    BY <2>1, <2>2
<1> QED
  BY <1>1, <1>2 DEF FileInv

LEMMA SavesWrite ==
  SavesBoth \/ SavesHistory =>
    carFile' \in {carFile, car'} /\ historyFile' \in {historyFile, history'}
BY DEF SavesBoth, SavesHistory, Written, OneSaveFails, file

LEMMA WorksStep ==
  ASSUME TypeInv, SessionInv, Works
  PROVE  TypeInv' /\ \E new : Shape(new)
<1>1. CASE \E m \in Readings : Observe(m)
  BY <1>1, ObserveStep
<1>2. CASE FlushUpdate
  BY <1>2, FlushUpdateStep
<1>3. CASE \E s \in Sessions : FlushAlert(s)
  BY <1>3, FlushAlertStep
<1>4. CASE \E s \in reading, resolved \in BOOLEAN, distance \in Distances :
             Enrich(s, resolved, distance)
  BY <1>4, EnrichStep
<1>5. CASE \E outcome \in Delivered : DeliverOrdinary(outcome)
  BY <1>5, SettledStep
<1>6. CASE \E outcome \in Delivered : DeliverTerminal(outcome)
  BY <1>6, DeliverTerminalStep
<1>7. CASE Expire
  BY <1>7, ExpireStep
<1>8. CASE ReconcileRestored
  BY <1>8, ReconcileRestoredStep
<1>9. CASE ReconcileFleet
  BY <1>9, ReconcileFleetStep
<1>10. CASE Replay
  BY <1>10, ReplayStep
<1> QED
  BY <1>1, <1>2, <1>3, <1>4, <1>5, <1>6, <1>7, <1>8, <1>9, <1>10 DEF Works

LEMMA RecordsStep ==
  ASSUME TypeInv, SessionInv, Records
  PROVE  TypeInv' /\ \E new : Shape(new)
<1>1. CASE \E events \in leaving : EnqueueLeaving(events)
  BY <1>1, EnqueueLeavingStep
<1>2. CASE DeliverOrdinary("failed")
  BY <1>2, RefusedStep
<1>3. CASE DeliverTerminal("failed")
  BY <1>3, DeliverTerminalStep
<1> QED
  BY <1>1, <1>2, <1>3 DEF Records

LEMMA ShapeStep ==
  ASSUME TypeInv, FileInv, SessionInv, TypeInv', NEW new, Shape(new),
         \/ carFile' \in {carFile, car'}
         \/ \E what \in {"recent", "rerouted", "session", "staged"} :
              carFile' = Passed(carFile, what),
         historyFile' \in {historyFile, history'}
  PROVE  FileInv' /\ SessionInv'
<1>1. SessionInv'
  BY ShapeKeeps
<1>2. sessions <= sessions' /\ sessions \in Nat /\ sessions' \in Nat
  BY ShapeTypes DEF Shape, Proceeds
<1>3. earned \subseteq earned'
  BY DEF Shape
<1> QED
  BY <1>1, <1>2, <1>3, FileStep

LEMMA NextStep ==
  ASSUME TypeInv, FileInv, SessionInv, [Next]_vars
  PROVE  TypeInv' /\ FileInv' /\ SessionInv'
<1>1. CASE Works /\ SavesBoth
  BY <1>1, WorksStep, SavesWrite, ShapeStep
<1>2. CASE Records /\ SavesHistory
  BY <1>2, RecordsStep, SavesWrite, ShapeStep
<1>3. CASE (Reset \/ SecondPasses) /\ UNCHANGED file
  <2>1. carFile' = carFile /\ historyFile' = historyFile
    BY <1>3 DEF file
  <2>2. TypeInv' /\ \E new : Shape(new)
    BY <1>3, ResetStep, SecondPassesStep
  <2> QED
    BY <2>1, <2>2, ShapeStep
<1>4. CASE Restart
  BY <1>4, RestartStep
<1>5. CASE TimePasses
  <2>1. /\ \E what \in {"recent", "rerouted", "session", "staged"} :
             carFile' = Passed(carFile, what)
        /\ historyFile' = historyFile
    BY <1>5 DEF TimePasses
  <2>2. TypeInv' /\ \E new : Shape(new)
    BY <1>5, TimePassesStep
  <2> QED
    BY <2>1, <2>2, ShapeStep
<1>6. CASE UNCHANGED vars
  <2>1. carFile' = carFile /\ historyFile' = historyFile
    BY <1>6 DEF vars, file
  <2>2. TypeInv' /\ \E new : Shape(new)
    BY <1>6, StutterStep
  <2> QED
    BY <2>1, <2>2, ShapeStep
<1> QED
  BY <1>1, <1>2, <1>3, <1>4, <1>5, <1>6 DEF Next

Inv == TypeInv /\ FileInv /\ SessionInv

LEMMA InvHolds == Spec => []Inv
<1>1. Init => Inv
  BY InitHolds DEF Inv
<1>2. Inv /\ [Next]_vars => Inv'
  BY NextStep DEF Inv
<1> QED
  BY <1>1, <1>2, PTL DEF Spec

(* The queues never hold more than their capacity and the event at their   *)
(* worker, ends go through the one and all else through the other, every   *)
(* session under way has a destination, also in the file a restart loads,  *)
(* and every field keeps its range (navigation_notification.go:1435, the   *)
(* two channels, and :86, the car).                                        *)
THEOREM TypeCorrect == Spec => []TypeOK
<1>1. Inv => TypeOK
  <2> SUFFICES ASSUME Inv PROVE TypeOK
    OBVIOUS
  <2>1. /\ OrdinaryQueue(queue) /\ TerminalQueue(priority)
        /\ car \in Cars /\ carFile \in Cars /\ history \in [Sessions -> HistoryRecords]
        /\ historyFile \in [Sessions -> HistoryRecords]
    BY DEF Inv, TypeInv, FileInv, CarTyped, FlowTyped
  <2>2. /\ queue \in Seq(Events) /\ Len(queue) <= QueueSize + 1
        /\ \A i \in DOMAIN queue : queue[i].type # "ended"
        /\ priority \in Seq(Events) /\ Len(priority) <= QueueSize + 1
        /\ \A i \in DOMAIN priority : priority[i].type = "ended"
    BY <2>1 DEF OrdinaryQueue, TerminalQueue, Of
  <2> QED
    BY <2>1, <2>2 DEF TypeOK, Inv, TypeInv, CarTyped, BaselineTyped, FlowTyped,
       TimersTyped, TallyTyped
<1> QED
  BY <1>1, InvHolds, PTL

(* Once its events have reached the queues, a session that is not the one  *)
(* under way is on record as ended, and the one under way is not, in       *)
(* whatever order handlers, timers, enrichment and the two workers got to  *)
(* the record, whatever the relay refuses, and over restarts.  Excepted is *)
(* what a crash lost, with what a failed save had not written; and the     *)
(* session under way if it was begun twice: its name is that of a second,  *)
(* and the end of its first run may stay on record                         *)
(* (navigation_notification.go:1839, :821).                                *)
THEOREM HistoryAgreesHolds == Spec => []HistoryAgrees
<1>1. Inv => HistoryAgrees
  <2> SUFFICES ASSUME SessionInv, NEW s \in 1..sessions \ lost, ~OnItsWay(s)
               PROVE  IF UnderWay(s) THEN history[s].type = "ended" => s \in again
                      ELSE history[s].type = "ended"
    BY DEF HistoryAgrees, Inv
  <2>1. CASE UnderWay(s)
    BY <2>1 DEF SessionInv, Running, UnderWay
  <2>2. CASE ~UnderWay(s)
    <3>1. ~\E e \in Pending : e.session = s
      BY DEF OnItsWay, Pending, Of
    <3> QED
      BY <2>2, <3>1 DEF SessionInv, Over, Under, UnderWay
  <2> QED
    BY <2>1, <2>2
<1> QED
  BY <1>1, InvHolds, PTL

(* No start with a banner is ever in the queue for a session nobody saw    *)
(* begin: no retry, late alert timer, name from the database, reconnect or *)
(* restart lets one out (navigation_notification.go:691).                  *)
THEOREM RecoveriesQuiet == Spec => []RecoveriesAreQuiet
<1>1. Inv => RecoveriesAreQuiet
  <2> SUFFICES ASSUME SessionInv, NEW i \in DOMAIN queue,
                      queue[i].type = "started" /\ queue[i].to # "card"
               PROVE  queue[i].session \in earned
    BY DEF RecoveriesAreQuiet, Inv
  <2>1. queue[i] \in Sent
    BY DEF Sent, Of
  <2> QED
    BY <2>1 DEF SessionInv, Quiet
<1> QED
  BY <1>1, InvHolds, PTL
=============================================================================
