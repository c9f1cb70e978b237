-------------------------- MODULE MqttSourceProofs --------------------------
(* Theorems about MqttSource, for any number of connections: its epochs    *)
(* are bounded, and it gives the monitors the connection of MonitorLink.   *)
EXTENDS MqttSource, FiniteSetTheorems, TLAPS

LEMMA Constants == MaxLinks \in Nat \ {0}
BY LinksAreBounded

-----------------------------------------------------------------------------
(* Each connection counts the epoch on at most twice: for its connect      *)
(* handler and for its lost handler.                                       *)
Spare == IF link.up THEN 1 ELSE 0

Counted ==
  /\ IsFiniteSet(handlers)
  /\ epoch + Cardinality(handlers) + Spare <= 2 * link.id

TypeInv == TypeOK /\ Counted

LEMMA OneMore ==
  ASSUME NEW S, IsFiniteSet(S), NEW x
  PROVE  IsFiniteSet(S \cup {x}) /\ Cardinality(S \cup {x}) <= Cardinality(S) + 1
<1>1. /\ IsFiniteSet(S \cup {x})
      /\ Cardinality(S \cup {x})
           = IF x \in S THEN Cardinality(S) ELSE Cardinality(S) + 1
  BY FS_AddElement, Zenon
<1>2. Cardinality(S) \in Nat
  BY FS_CardinalityType
<1> QED
  BY <1>1, <1>2

LEMMA InitType == Init => TypeInv
<1> SUFFICES ASSUME Init PROVE TypeInv
  OBVIOUS
<1>1. IsFiniteSet({}) /\ Cardinality({}) = 0
  BY FS_EmptySet
<1>2. Counted
  BY <1>1 DEF Init, Counted, Spare
<1>3. 0 \in 0..MaxLinks /\ 0 \in 0..(2 * MaxLinks)
  BY Constants
<1>4. TypeOK
  BY <1>3 DEF Init, TypeOK, Fleets, Reads
<1> QED
  BY <1>2, <1>4 DEF TypeInv

LEMMA HandlersType ==
  ASSUME TypeInv
  PROVE  /\ IsFiniteSet(handlers) /\ Cardinality(handlers) \in Nat
         /\ epoch \in Nat /\ link.id \in Nat
BY Constants, FS_CardinalityType DEF TypeInv, TypeOK, Counted

LEMMA LinkUpType == ASSUME TypeInv, LinkUp PROVE TypeInv'
<1> DEFINE h == [what |-> "connect", link |-> link.id + 1]
<1>1. h \in Handlers /\ link'.id \in 0..MaxLinks
  BY Constants DEF TypeInv, TypeOK, LinkUp, Handlers, Links
<1>2. IsFiniteSet(handlers') /\ Cardinality(handlers') <= Cardinality(handlers) + 1
  BY HandlersType, OneMore DEF LinkUp
<1>3. Counted'
  BY <1>2, HandlersType, FS_CardinalityType DEF TypeInv, Counted, LinkUp, Spare
<1>4. TypeOK'
  BY <1>1 DEF TypeInv, TypeOK, LinkUp, source
<1> QED
  BY <1>3, <1>4 DEF TypeInv

LEMMA LinkDownType == ASSUME TypeInv, LinkDown PROVE TypeInv'
<1> DEFINE h == [what |-> "lost", link |-> link.id]
<1>1. link.id # 0
  BY HandlersType DEF TypeInv, Counted, Spare, LinkDown
<1>2. link.id \in 0..MaxLinks
  BY DEF TypeInv, TypeOK
<1>3. link.id \in Links
  BY <1>1, <1>2, Constants DEF Links
<1>4. link.id \in Links /\ link' = [id |-> link.id, up |-> FALSE, subscribed |-> FALSE]
  BY <1>3 DEF TypeInv, TypeOK, LinkDown
<1>5. IsFiniteSet(handlers') /\ Cardinality(handlers') <= Cardinality(handlers) + 1
  BY HandlersType, OneMore DEF LinkDown
<1>6. Counted'
  BY <1>4, <1>5, HandlersType, FS_CardinalityType DEF TypeInv, Counted, LinkDown, Spare
<1>7. TypeOK'
  <2>1. h \in Handlers
    BY <1>4 DEF Handlers
  <2>2. handlers' = handlers \cup {h}
    BY DEF LinkDown
  <2> QED
    BY <1>2, <1>4, <2>1, <2>2 DEF TypeInv, TypeOK, LinkDown, source
<1> QED
  BY <1>6, <1>7 DEF TypeInv

LEMMA HandlerRuns ==
  ASSUME TypeInv, NEW h \in handlers, handlers' = handlers \ {h},
         epoch' = epoch + 1, UNCHANGED link
  PROVE  Counted' /\ handlers' \subseteq Handlers /\ epoch' \in 0..(2 * MaxLinks)
<1>1. IsFiniteSet(handlers') /\ Cardinality(handlers') = Cardinality(handlers) - 1
  BY HandlersType, FS_RemoveElement
<1>2. Counted'
  BY <1>1, HandlersType DEF TypeInv, Counted, Spare
<1>3. Cardinality(handlers') \in Nat /\ Spare' \in Nat
  BY <1>1, FS_CardinalityType DEF Spare
<1> QED
  BY <1>2, <1>3, HandlersType, Constants DEF TypeInv, TypeOK, Counted

LEMMA HandlerSkips ==
  ASSUME TypeInv, NEW h \in handlers, handlers' = handlers \ {h},
         UNCHANGED <<epoch, link>>
  PROVE  Counted' /\ handlers' \subseteq Handlers
<1>1. IsFiniteSet(handlers') /\ Cardinality(handlers') = Cardinality(handlers) - 1
  BY HandlersType, FS_RemoveElement
<1> QED
  BY <1>1, HandlersType DEF TypeInv, TypeOK, Counted, Spare

(* Steps that leave handlers and epochs alone                              *)
LEMMA SameCount ==
  ASSUME TypeInv, UNCHANGED <<handlers, epoch>>,
         link'.id = link.id, link'.up = link.up
  PROVE  Counted'
BY DEF TypeInv, Counted, Spare

LEMMA AsksType ==
  ASSUME TypeInv, NEW a \in asks, NEW s \in {"unsent", "asked", "acked", "failed"},
         NEW l \in 0..MaxLinks
  PROVE  [a EXCEPT !.is = s, !.link = l] \in Asks
BY DEF TypeInv, TypeOK, Asks

LEMMA OutcomeType ==
  ASSUME TypeInv, NEW a \in asks, NEW s \in {"unsent", "asked", "acked", "failed"}
  PROVE  (asks \ {a}) \cup {[a EXCEPT !.is = s]} \subseteq Asks
BY DEF TypeInv, TypeOK, Asks

LEMMA NextType == ASSUME TypeInv, [Next]_vars PROVE TypeInv'
<1>0. CASE UNCHANGED vars
  BY <1>0 DEF TypeInv, TypeOK, Counted, Spare, vars, connection, source
<1>1. CASE LinkUp
  BY <1>1, LinkUpType
<1>2. CASE LinkDown
  BY <1>2, LinkDownType
<1>3. CASE FleetGoesStale
  BY <1>3, SameCount DEF FleetGoesStale, TypeInv, TypeOK, connection
<1>4. ASSUME Subscribing, UNCHANGED <<link, handlers, epoch, connected, late, fleet, fresh>>,
             retry' \in BOOLEAN, replay' \in {"none", "taken", "refused", "lost"}
      PROVE  TypeInv'
  <2>1. [who |-> "refresh", epoch |-> epoch, link |-> 0, is |-> "unsent"] \in Asks
    BY Constants DEF Asks, TypeInv, TypeOK
  <2> QED
    BY <1>4, <2>1, SameCount DEF Subscribing, TypeInv, TypeOK, Reads
<1>5. CASE Reconcile
  <2>1. replay' \in {"none", "taken", "refused", "lost"}
    BY <1>5 DEF Reconcile, TypeInv, TypeOK
  <2>2. CASE Subscribing
    BY <1>4, <1>5, <2>1, <2>2 DEF Reconcile, TypeInv, TypeOK
  <2>3. CASE reader' = "idle" /\ UNCHANGED asks
    BY <1>5, <2>1, <2>3, SameCount DEF Reconcile, TypeInv, TypeOK, Reads
  <2> QED
    BY <1>5, <2>2, <2>3 DEF Reconcile
<1>6. CASE RetryBaselines
  BY <1>4, <1>6 DEF RetryBaselines, TypeInv, TypeOK
<1>7. ASSUME NEW h \in handlers, ConnectionLost(h) PROVE TypeInv'
  <2>1. Counted' /\ handlers' \subseteq Handlers /\ epoch' \in 0..(2 * MaxLinks)
    BY <1>7, HandlerRuns DEF ConnectionLost, NextEpoch
  <2>2. late' \in BOOLEAN
    BY <1>7 DEF ConnectionLost, TypeInv, TypeOK
  <2> QED
    BY <1>7, <2>1, <2>2 DEF ConnectionLost, TypeInv, TypeOK, source
<1>8. ASSUME NEW h \in handlers, Connected(h) PROVE TypeInv'
  <2>1. Counted' /\ handlers' \subseteq Handlers /\ epoch' \in 0..(2 * MaxLinks)
    BY <1>8, HandlerRuns DEF Connected, NextEpoch
  <2>2. asks' \subseteq Asks
    BY <1>8, <2>1, Constants DEF Connected, TypeInv, TypeOK, Asks
  <2> QED
    BY <1>8, <2>1, <2>2 DEF Connected, TypeInv, TypeOK, source
<1>9. ASSUME NEW h \in handlers, ConnectedTooLate(h) PROVE TypeInv'
  BY <1>9, HandlerSkips DEF ConnectedTooLate, TypeInv, TypeOK, source
<1>10. ASSUME NEW a \in asks, Send(a) PROVE TypeInv'
  <2>1. asks' \subseteq Asks
    <3>1. link.id \in 0..MaxLinks /\ asks \subseteq Asks
      BY DEF TypeInv, TypeOK
    <3>2. [a EXCEPT !.is = "asked", !.link = link.id] \in Asks
      BY <3>1, AsksType
    <3>3. (asks \ {a}) \cup {[a EXCEPT !.is = "failed"]} \subseteq Asks
      BY OutcomeType
    <3> QED
      BY <1>10, <3>1, <3>2, <3>3 DEF Send
  <2>2. reader' \in Reads
    BY <1>10 DEF Send, RefreshEnds, TypeInv, TypeOK, Reads
  <2> QED
    BY <1>10, <2>1, <2>2, SameCount DEF Send, TypeInv, TypeOK
<1>11. ASSUME NEW a \in asks, SubAck(a) PROVE TypeInv'
  <2>1. asks' \subseteq Asks
    BY <1>11, OutcomeType DEF SubAck
  <2>2. link' = [id |-> link.id, up |-> link.up, subscribed |-> TRUE]
    BY <1>11 DEF SubAck, TypeInv, TypeOK
  <2> QED
    BY <1>11, <2>1, <2>2, SameCount DEF SubAck, Replayed, TypeInv, TypeOK, source
<1>12. ASSUME NEW a \in asks, SubFails(a) PROVE TypeInv'
  <2>1. asks' \subseteq Asks
    BY <1>12, OutcomeType DEF SubFails
  <2>2. \E s \in BOOLEAN : link' = [id |-> link.id, up |-> link.up, subscribed |-> s]
    BY <1>12 DEF SubFails, TypeInv, TypeOK
  <2> QED
    BY <1>12, <2>1, <2>2, SameCount DEF SubFails, TypeInv, TypeOK, source
<1>13. ASSUME NEW a \in asks, Acked(a) PROVE TypeInv'
  <2>1. connected' \in BOOLEAN
    BY <1>13 DEF Acked, TypeInv, TypeOK
  <2> QED
    BY <1>13, <2>1, SameCount DEF Acked, RefreshEnds, TypeInv, TypeOK, Reads
<1>14. ASSUME NEW a \in asks, Failed(a) PROVE TypeInv'
  <2>1. connected' \in BOOLEAN /\ retry' \in BOOLEAN
    BY <1>14 DEF Failed, RequestRetry, TypeInv, TypeOK
  <2> QED
    BY <1>14, <2>1, SameCount DEF Failed, RefreshEnds, TypeInv, TypeOK, Reads
<1>15. ASSUME NEW found \in {"removed", "enabled"}, FleetIsRead(found) PROVE TypeInv'
  BY <1>15, SameCount DEF FleetIsRead, TypeInv, TypeOK, connection, Fleets, Reads
<1> QED
  BY <1>0, <1>1, <1>2, <1>3, <1>5, <1>6, <1>7, <1>8, <1>9, <1>10, <1>11, <1>12,
     <1>13, <1>14, <1>15 DEF Next

(* The variables keep their types, and no epoch is taken twice: counting   *)
(* stays within twice the number of connections, in whatever order the     *)
(* handlers run (mqtt_source.go:195).                                      *)
THEOREM TypeCorrect == Spec => []TypeOK
<1>1. TypeInv => TypeOK
  BY DEF TypeInv
<1> QED
  BY <1>1, InitType, NextType, PTL DEF Spec

-----------------------------------------------------------------------------
(* What may make the monitor believe in a subscription that is gone.       *)
Revoking == \E h \in handlers : h.what = "lost"
Subscribed == link.up /\ link.subscribed
Counts(a) == a.is = "acked" /\ OfThisEpoch(a)

(* Believing in it, or being about to, takes a subscription or a lost      *)
(* handler still to come, which ends the belief and the epoch.             *)
Trusted ==
  /\ connected => Subscribed \/ Revoking
  /\ \A a \in asks : Counts(a) => Subscribed \/ Revoking

EpochsPast == \A a \in asks : a.epoch <= epoch

LinkInv == TypeInv /\ EpochsPast /\ Trusted

LEMMA InitLinkInv == Init => LinkInv
BY InitType DEF Init, LinkInv, EpochsPast, Trusted

(* A handler takes the next epoch: no subscription asked for counts.       *)
LEMMA EpochTaken ==
  ASSUME LinkInv, epoch' = epoch + 1,
         \A a \in asks' : a \in asks \/ (a.is = "unsent" /\ a.epoch = epoch')
  PROVE  EpochsPast' /\ \A a \in asks' : ~Counts(a)'
<1>1. epoch \in Nat /\ \A a \in asks : a.epoch \in Nat /\ a.epoch <= epoch
  BY HandlersType DEF LinkInv, TypeInv, TypeOK, EpochsPast, Asks
<1> QED
  BY <1>1 DEF EpochsPast, Counts, OfThisEpoch

(* The other steps: what counts counted before, or has just been answered  *)
(* by the present connection.                                              *)
LEMMA EpochKept ==
  ASSUME LinkInv, UNCHANGED epoch,
         Subscribed \/ Revoking => Subscribed' \/ Revoking',
         connected' => connected \/ Subscribed' \/ Revoking',
         \A b \in asks' : \/ \E a \in asks : b.epoch = a.epoch /\ (b.is = "acked" => a.is = "acked")
                          \/ b.epoch = epoch /\ b.is # "acked"
                          \/ Subscribed' /\ \E a \in asks : b.epoch = a.epoch
  PROVE  EpochsPast' /\ Trusted'
<1>1. epoch \in Nat
  BY HandlersType DEF LinkInv
<1> QED
  BY <1>1 DEF LinkInv, EpochsPast, Trusted, Counts, OfThisEpoch

LEMMA NextLinkInv == ASSUME LinkInv, [Next]_vars PROVE LinkInv'
<1> SUFFICES EpochsPast' /\ Trusted'
  BY NextType DEF LinkInv
<1>0. CASE UNCHANGED vars
  BY <1>0 DEF vars, connection, LinkInv, EpochsPast, Trusted, Counts, OfThisEpoch,
              Subscribed, Revoking
<1>1. CASE LinkUp
  <2>1. Subscribed \/ Revoking => Revoking'
    BY <1>1 DEF LinkUp, Subscribed, Revoking
  <2> QED
    BY <1>1, <2>1, EpochKept DEF LinkUp
<1>2. CASE LinkDown
  <2>1. Revoking'
    <3> DEFINE h == [what |-> "lost", link |-> link.id]
    <3>1. h \in handlers' /\ h.what = "lost"
      BY <1>2 DEF LinkDown
    <3> QED
      BY <3>1 DEF Revoking
  <2> QED
    BY <1>2, <2>1, EpochKept DEF LinkDown
<1>3. CASE FleetGoesStale
  BY <1>3, EpochKept DEF FleetGoesStale, connection, Subscribed, Revoking
<1>4. CASE Reconcile \/ RetryBaselines
  <2>1. UNCHANGED <<link, handlers, epoch, connected>>
    BY <1>4 DEF Reconcile, RetryBaselines
  <2>2. \A b \in asks' : b \in asks \/ (b.epoch = epoch /\ b.is # "acked")
    <3> DEFINE r == [who |-> "refresh", epoch |-> epoch, link |-> 0, is |-> "unsent"]
    <3>1. asks' = asks \/ asks' = asks \cup {r}
      BY <1>4 DEF Reconcile, RetryBaselines, Subscribing
    <3>2. r.epoch = epoch /\ r.is # "acked"
      OBVIOUS
    <3> HIDE DEF r
    <3> QED
      BY <3>1, <3>2
  <2> QED
    BY <2>1, <2>2, EpochKept DEF Subscribed, Revoking
<1>5. ASSUME NEW h \in handlers, ConnectionLost(h) PROVE EpochsPast' /\ Trusted'
  BY <1>5, EpochTaken DEF ConnectionLost, NextEpoch, Trusted
<1>6. ASSUME NEW h \in handlers, Connected(h) PROVE EpochsPast' /\ Trusted'
  <2>1. EpochsPast' /\ \A a \in asks' : ~Counts(a)'
    BY <1>6, EpochTaken DEF Connected, NextEpoch
  <2>2. Subscribed \/ Revoking => Subscribed' \/ Revoking'
    BY <1>6 DEF Connected, Subscribed, Revoking
  <2> QED
    BY <1>6, <2>1, <2>2 DEF Connected, LinkInv, Trusted
<1>7. ASSUME NEW h \in handlers, ConnectedTooLate(h) PROVE EpochsPast' /\ Trusted'
  <2>1. Subscribed \/ Revoking => Subscribed' \/ Revoking'
    BY <1>7 DEF ConnectedTooLate, Subscribed, Revoking
  <2> QED
    BY <1>7, <2>1, EpochKept DEF ConnectedTooLate
<1>8. ASSUME NEW a \in asks, Send(a) PROVE EpochsPast' /\ Trusted'
  <2>1. a \in Asks
    BY DEF LinkInv, TypeInv, TypeOK
  <2>2. \A b \in asks' : b \in asks \/ (b.epoch = a.epoch /\ b.is # "acked")
    <3> DEFINE sent == [a EXCEPT !.is = "asked", !.link = link.id]
               failed == [a EXCEPT !.is = "failed"]
    <3>1. /\ sent.epoch = a.epoch /\ sent.is # "acked"
          /\ failed.epoch = a.epoch /\ failed.is # "acked"
      BY <2>1 DEF Asks
    <3>2. asks' \subseteq asks \cup {sent, failed}
      BY <1>8 DEF Send
    <3> HIDE DEF sent, failed
    <3> QED
      BY <3>1, <3>2
  <2> QED
    BY <1>8, <2>2, EpochKept DEF Send, Subscribed, Revoking
<1>9. ASSUME NEW a \in asks, SubAck(a) PROVE EpochsPast' /\ Trusted'
  <2>1. a \in Asks /\ link \in [id : 0..MaxLinks, up : BOOLEAN, subscribed : BOOLEAN]
    BY DEF LinkInv, TypeInv, TypeOK
  <2>2. Subscribed'
    BY <1>9, <2>1 DEF SubAck, Subscribed
  <2>3. \A b \in asks' : b \in asks \/ b.epoch = a.epoch
    BY <1>9, <2>1 DEF SubAck, Asks
  <2> QED
    BY <1>9, <2>2, <2>3, EpochKept DEF SubAck
<1>10. ASSUME NEW a \in asks, SubFails(a) PROVE EpochsPast' /\ Trusted'
  <2>1. a \in Asks /\ link \in [id : 0..MaxLinks, up : BOOLEAN, subscribed : BOOLEAN]
    BY DEF LinkInv, TypeInv, TypeOK
  <2>2. Subscribed \/ Revoking => Subscribed' \/ Revoking'
    BY <1>10, <2>1 DEF SubFails, Subscribed, Revoking
  <2>3. \A b \in asks' : b \in asks \/ (b.epoch = a.epoch /\ b.is # "acked")
    BY <1>10, <2>1 DEF SubFails, Asks
  <2> QED
    BY <1>10, <2>2, <2>3, EpochKept DEF SubFails
<1>11. ASSUME NEW a \in asks, Acked(a) PROVE EpochsPast' /\ Trusted'
  <2>1. Subscribed \/ Revoking => Subscribed' \/ Revoking'
    BY <1>11 DEF Acked, Subscribed, Revoking
  <2>2. connected' => connected \/ Subscribed' \/ Revoking'
    BY <1>11, <2>1 DEF Acked, LinkInv, Trusted, Counts
  <2> QED
    BY <1>11, <2>1, <2>2, EpochKept DEF Acked
<1>12. ASSUME NEW a \in asks, Failed(a) PROVE EpochsPast' /\ Trusted'
  <2>1. Subscribed \/ Revoking => Subscribed' \/ Revoking'
    BY <1>12 DEF Failed, Subscribed, Revoking
  <2>2. connected' => connected
    BY <1>12 DEF Failed
  <2> QED
    BY <1>12, <2>1, <2>2, EpochKept DEF Failed
<1>13. ASSUME NEW found \in {"removed", "enabled"}, FleetIsRead(found)
       PROVE  EpochsPast' /\ Trusted'
  BY <1>13, EpochKept DEF FleetIsRead, connection, Subscribed, Revoking
<1> QED
  BY <1>0, <1>1, <1>2, <1>3, <1>4, <1>5, <1>6, <1>7, <1>8, <1>9, <1>10, <1>11,
     <1>12, <1>13 DEF Next

LEMMA LinkInvHolds == Spec => []LinkInv
BY InitLinkInv, NextLinkInv, PTL DEF Spec

(* A monitor all of whose handlers have run calls itself connected only    *)
(* while it is subscribed on the present connection: the epoch turns every *)
(* late SUBACK away (mqtt_source.go:178).                                  *)
THEOREM ConnectedIsSubscribed == Spec => []ConnectedMeansSubscribed
<1>1. LinkInv => ConnectedMeansSubscribed
  BY DEF LinkInv, Trusted, Subscribed, Revoking, ConnectedMeansSubscribed
<1> QED
  BY <1>1, LinkInvHolds, PTL

-----------------------------------------------------------------------------
(* Each step is one of MonitorLink's, or none.                             *)
Owed == handlers # {}
Line == [up |-> link.up, subscribed |-> link.subscribed]

LEMMA SubscribedLine ==
  ASSUME NEW u \in BOOLEAN, NEW s \in BOOLEAN
  PROVE  [[up |-> u, subscribed |-> s] EXCEPT !.subscribed = TRUE]
           = [up |-> u, subscribed |-> TRUE]
<1> DEFINE before == [up |-> u, subscribed |-> s]
<1> DEFINE after == [before EXCEPT !.subscribed = TRUE]
<1>1. before \in [up : BOOLEAN, subscribed : BOOLEAN] /\ before.up = u
  OBVIOUS
<1> HIDE DEF before
<1>2. /\ after \in [up : BOOLEAN, subscribed : BOOLEAN]
      /\ after.up = u /\ after.subscribed = TRUE
  BY <1>1
<1> HIDE DEF after
<1>3. after = [up |-> u, subscribed |-> TRUE]
  BY <1>2
<1> QED
  BY <1>3 DEF before, after

LEMMA LineMoves ==
  ASSUME LinkInv, LinkInv', Next
  PROVE  Link!LinkNext \/ UNCHANGED <<Line, Owed, connected>>
<1> USE DEF Owed, Line, Link!LinkNext
<1>1. CASE LinkUp
  BY <1>1 DEF LinkUp, Link!Opens
<1>2. CASE LinkDown
  <2>1. link \in [id : 0..MaxLinks, up : BOOLEAN, subscribed : BOOLEAN]
    BY DEF LinkInv, TypeInv, TypeOK
  <2>2. link.up /\ Owed' /\ UNCHANGED connected
    BY <1>2, <2>1 DEF LinkDown
  <2>3. link'.up = FALSE /\ link'.subscribed = FALSE
    BY <1>2, <2>1 DEF LinkDown
  <2> QED
    BY <2>2, <2>3 DEF Link!Breaks
<1>3. ASSUME FleetGoesStale \/ Reconcile \/ RetryBaselines
      PROVE  UNCHANGED <<Line, Owed, connected>>
  <2>1. UNCHANGED <<link, handlers, connected>>
    BY <1>3 DEF FleetGoesStale, Reconcile, RetryBaselines, connection
  <2> QED
    BY <2>1
<1>4. ASSUME NEW h \in handlers, ConnectionLost(h) PROVE Link!StartsOver
  BY <1>4 DEF ConnectionLost, Link!StartsOver
<1>5. ASSUME NEW h \in handlers, Connected(h) PROVE Link!StartsOver
  <2>1. connected' /\ ~Owed' => Subscribed
    BY <1>5 DEF Connected, LinkInv, Trusted, Revoking, Subscribed
  <2>2. connected \in BOOLEAN
    BY DEF LinkInv, TypeInv, TypeOK
  <2> QED
    BY <1>5, <2>1, <2>2 DEF Connected, Link!StartsOver, Subscribed
<1>6. ASSUME NEW h \in handlers, ConnectedTooLate(h) PROVE Link!Skips
  <2>1. ~Owed' => ~connected \/ link.up
    BY <1>6 DEF ConnectedTooLate, LinkInv, Trusted, Revoking, Subscribed
  <2> QED
    BY <1>6, <2>1 DEF ConnectedTooLate, IsConnected, Link!Skips
<1>7. ASSUME NEW a \in asks, Send(a) \/ Acked(a) \/ Failed(a)
      PROVE  Link!Confirms \/ Link!Denies \/ UNCHANGED <<Line, Owed, connected>>
  <2>1. UNCHANGED <<link, handlers>>
    BY <1>7 DEF Send, Acked, Failed
  <2>2. connected \in BOOLEAN /\ connected' \in BOOLEAN
    BY DEF LinkInv, TypeInv, TypeOK
  <2>3. connected' => Owed \/ link.subscribed
    BY <2>1 DEF LinkInv, Trusted, Revoking, Subscribed
  <2> QED
    BY <2>1, <2>2, <2>3 DEF Link!Confirms, Link!Denies
<1>8. ASSUME NEW a \in asks, SubAck(a) \/ SubFails(a)
      PROVE  Link!Subscribes \/ UNCHANGED <<Line, Owed, connected>>
  <2>1. link \in [id : 0..MaxLinks, up : BOOLEAN, subscribed : BOOLEAN]
    BY DEF LinkInv, TypeInv, TypeOK
  <2>2. UNCHANGED <<handlers, connected>> /\ link'.up = link.up
    BY <1>8, <2>1 DEF SubAck, SubFails
  <2>3. \/ link.up /\ link'.subscribed = TRUE
        \/ link'.subscribed = link.subscribed
    BY <1>8, <2>1 DEF SubAck, SubFails
  <2>4. CASE link'.subscribed = link.subscribed
    <3>1. Line' = Line
      BY <2>2, <2>4
    <3> QED
      BY <2>2, <3>1
  <2>5. CASE link.up /\ link'.subscribed = TRUE
    <3>1. Line' = [up |-> link'.up, subscribed |-> TRUE]
      BY <2>5
    <3>2. [Line EXCEPT !.subscribed = TRUE] = [up |-> link.up, subscribed |-> TRUE]
      BY <2>1, SubscribedLine
    <3>3. Line' = [Line EXCEPT !.subscribed = TRUE]
      BY <2>2, <3>1, <3>2
    <3> QED
      BY <2>2, <2>5, <3>3 DEF Link!Subscribes
  <2> QED
    BY <2>3, <2>4, <2>5
<1>9. ASSUME NEW found \in {"removed", "enabled"}, FleetIsRead(found)
      PROVE  UNCHANGED <<Line, Owed, connected>>
  BY <1>9 DEF FleetIsRead, connection
<1> QED
  BY <1>1, <1>2, <1>3, <1>4, <1>5, <1>6, <1>7, <1>8, <1>9 DEF Next

(* Whatever the order of handlers, SUBACKs, failed subscriptions and fleet *)
(* reads, the monitors see the connection MonitorLink describes, on which  *)
(* LockSecure is built (mqtt_source.go:178-215).                           *)
THEOREM ImplementsMonitorLink == Spec => ImplementsLink
<1>1. Init => Link!LinkInit
  BY DEF Init, Link!LinkInit
<1>2. LinkInv /\ LinkInv' /\ [Next]_vars => [Link!LinkNext]_(Link!linkVars)
  <2> SUFFICES ASSUME LinkInv, LinkInv', [Next]_vars
               PROVE  [Link!LinkNext]_(Link!linkVars)
    OBVIOUS
  <2>1. CASE UNCHANGED vars
    BY <2>1 DEF vars, connection, Link!linkVars
  <2>2. CASE Next
    BY <2>2, LineMoves DEF Link!linkVars, Line, Owed
  <2> QED
    BY <2>1, <2>2
<1> QED
  BY <1>1, <1>2, LinkInvHolds, PTL DEF Spec, ImplementsLink, Link!LinkSpec
=============================================================================
