------------------------- MODULE PushRegistryProofs -------------------------
(***************************************************************************)
(* Proofs about PushRegistry for every value of its constants: the type    *)
(* invariant, the limits, the agreement of memory and file, what a restart *)
(* keeps, who silences a phone and why a queued push leaves.               *)
(***************************************************************************)
EXTENDS PushRegistry, FiniteSetTheorems, TLAPS

(* The constants, in the form the leaves below need.                       *)
LEMMA Constants ==
  /\ MaxRetryDelay \in Nat \ {0} /\ RetryDelay \in 1..MaxRetryDelay
  /\ RetryAfters \subseteq 0..MaxRetryDelay
  /\ PausedRetention \in Nat \ {0} /\ SessionLife \in Nat \ {0}
  /\ AttemptCap \in Nat \ {0}
  /\ MaxSubscribers \in Nat \ {0} /\ MaxOutbox \in Nat \ {0}
  /\ EventTTL \in [Events -> Nat \ {0}] /\ EventSession \in [Events -> Sessions]
  /\ NoSource \in Sources /\ NoPhone \notin Installations
BY PositiveLimits, RetryBounds, EventShape, FiniteSystem

(* The helpers on stores keep a store well formed.                         *)
LEMMA RemoveOutboxForType ==
  ASSUME NEW store \in Stores, NEW gone
  PROVE  RemoveOutboxFor(store, gone) \in Stores
BY Constants DEF RemoveOutboxFor, Stores

LEMMA RemoveSubscribersType ==
  ASSUME NEW store \in Stores, NEW gone
  PROVE  RemoveSubscribers(store, gone) \in Stores
<1>1. Absent \in Subscriber
  BY Constants DEF Absent, Subscriber
<1>2. [store EXCEPT !.subs = [i \in Installations |->
          IF i \in gone THEN Absent ELSE store.subs[i]]] \in Stores
  BY <1>1 DEF Stores
<1> QED
  BY <1>2, RemoveOutboxForType DEF RemoveSubscribers

LEMMA PruneType ==
  ASSUME NEW store \in Stores
  PROVE  PruneExpiredPaused(store) \in Stores
BY RemoveSubscribersType DEF PruneExpiredPaused

LEMMA SetSubscriberType ==
  ASSUME NEW store \in Stores, NEW i \in Installations, NEW sub \in Subscriber
  PROVE  SetSubscriber(store, i, sub) \in Stores
BY DEF SetSubscriber, Stores

LEMMA SetRowType ==
  ASSUME NEW store \in Stores, NEW k \in Targets, NEW row \in Row \cup {NoRow}
  PROVE  SetRow(store, k, row) \in Stores
BY DEF SetRow, Stores

LEMMA PairIntoType ==
  ASSUME NEW store \in Stores, NEW i \in Installations,
         NEW source \in Sources, NEW wants \in SUBSET Features, NEW mode
  PROVE  PairInto(store, i, source, wants, mode) \in Stores
<1>1. Paired(source, wants) \in Subscriber
  BY Constants DEF Subscriber, Paired
<1> QED
  BY <1>1, RemoveSubscribersType, SetSubscriberType DEF PairInto

LEMMA SetStatusPausedType ==
  ASSUME NEW store \in Stores, NEW i \in Installations
  PROVE  SetStatusPaused(store, i) \in Stores
<1>1. store.subs[i] \in Subscriber
  BY DEF Stores
<1>2. ASSUME NEW sub \in Subscriber
      PROVE  [sub EXCEPT !.status = "paused", !.keep = PausedRetention]
               \in Subscriber
  <2>1. PausedRetention \in 0..PausedRetention
    BY Constants
  <2> QED
    BY <2>1 DEF Subscriber
<1> QED
  BY <1>1, <1>2, SetSubscriberType DEF SetStatusPaused

LEMMA PauseInvalidType ==
  ASSUME NEW store \in Stores, NEW i \in Installations
  PROVE  PauseInvalid(store, i) \in Stores
BY SetStatusPausedType, RemoveOutboxForType DEF PauseInvalid

LEMMA RemoveRowType ==
  ASSUME NEW store \in Stores, NEW k \in Targets
  PROVE  RemoveRow(store, k) \in Stores
BY SetRowType DEF RemoveRow

LEMMA LoadedType ==
  ASSUME NEW store \in Stores
  PROVE  Loaded(store) \in Stores
BY DEF Loaded, Stores

LEMMA EmptyStoreType == EmptyStore \in Stores
BY Constants DEF EmptyStore, Absent, Stores, Subscriber

LEMMA AgedType ==
  ASSUME NEW store \in Stores
  PROVE  Aged(store) \in Stores
<1>1. ASSUME NEW row \in Row \cup {NoRow} PROVE AgedRow(row) \in Row \cup {NoRow}
  <2>1. CASE row \in Row
    <3>1. Decrement(row.due) \in 0..MaxRetryDelay /\ Decrement(row.ttl) \in Nat
      BY <2>1, Constants DEF Row, Decrement
    <3>2. [row EXCEPT !.due = Decrement(@), !.ttl = Decrement(@)] \in Row
      BY <2>1, <3>1 DEF Row
    <3> QED
      BY <2>1, <3>2 DEF AgedRow
  <2>2. CASE row = NoRow
    BY <2>2 DEF AgedRow, NoRow
  <2> QED
    BY <1>1, <2>1, <2>2
<1>2. ASSUME NEW sub \in Subscriber PROVE AgedSubscriber(sub) \in Subscriber
  BY <1>2, Constants DEF AgedSubscriber, Subscriber, Decrement
<1>3. ASSUME NEW n \in 0..SessionLife PROVE Decrement(n) \in 0..SessionLife
  BY <1>3, Constants DEF Decrement
<1>4. store.subs \in [Installations -> Subscriber]
      /\ store.outbox \in [Targets -> Row \cup {NoRow}]
      /\ store.auth \in [Bindings -> 0..SessionLife]
  BY DEF Stores
<1>5. [i \in Installations |-> AgedSubscriber(store.subs[i])]
        \in [Installations -> Subscriber]
  BY <1>2, <1>4
<1>6. [k \in Targets |-> AgedRow(store.outbox[k])]
        \in [Targets -> Row \cup {NoRow}]
  BY <1>1, <1>4
<1>7. [b \in Bindings |-> Decrement(store.auth[b])]
        \in [Bindings -> 0..SessionLife]
  BY <1>3, <1>4
<1> QED
  BY <1>5, <1>6, <1>7 DEF Aged, Stores

-----------------------------------------------------------------------------
(* A goroutine that is inside a delivery holds a complete thread record.   *)
LEMMA ThreadFields ==
  ASSUME TypeOK, NEW t \in Threads, threads[t].pc # "idle"
  PROVE  /\ threads[t] \in Thread
         /\ threads[t].inst \in Installations /\ threads[t].event \in Events
         /\ threads[t].source \in Sources
         /\ TargetOf(t) \in Targets /\ BindingOf(t) \in Bindings
<1>1. threads[t] \in Thread
  BY DEF TypeOK, Idle
<1>2. /\ threads[t].inst \in Installations /\ threads[t].event \in Events
      /\ threads[t].source \in Sources
  BY <1>1 DEF Thread
<1>3. EventSession[threads[t].event] \in Sessions
  BY <1>2, Constants
<1> QED
  BY <1>1, <1>2, <1>3 DEF TargetOf, BindingOf, Targets, Bindings

LEMMA MoveType ==
  ASSUME TypeOK, NEW t \in Threads, threads[t].pc # "idle"
  PROVE  /\ \A pc \in {"check", "remember", "recheck", "posting", "answered"} :
              Goto(t, pc) => threads' \in [Threads -> Thread \cup {Idle}]
         /\ \A answer \in Answers :
              Answer(t, answer) => threads' \in [Threads -> Thread \cup {Idle}]
<1>1. threads \in [Threads -> Thread \cup {Idle}]
  BY DEF TypeOK
<1>2. ASSUME NEW th \in Thread,
             NEW pc \in {"check", "remember", "recheck", "posting", "answered"}
      PROVE  [th EXCEPT !.pc = pc] \in Thread
  BY DEF Thread
<1>3. ASSUME NEW th \in Thread, NEW answer \in Answers
      PROVE  [th EXCEPT !.pc = "answered", !.answer = answer] \in Thread
  BY DEF Thread
<1>4. threads[t] \in Thread
  BY ThreadFields
<1>5. ASSUME NEW th \in Thread
      PROVE  [threads EXCEPT ![t] = th] \in [Threads -> Thread \cup {Idle}]
  BY <1>1
<1>6. ASSUME NEW pc \in {"check", "remember", "recheck", "posting", "answered"},
             Goto(t, pc)
      PROVE  threads' \in [Threads -> Thread \cup {Idle}]
  <2>1. threads' = [threads EXCEPT ![t] = [threads[t] EXCEPT !.pc = pc]]
    BY <1>6 DEF Goto
  <2>2. [threads[t] EXCEPT !.pc = pc] \in Thread
    BY <1>2, <1>4
  <2> QED
    BY <1>5, <2>1, <2>2
<1>7. ASSUME NEW answer \in Answers, Answer(t, answer)
      PROVE  threads' \in [Threads -> Thread \cup {Idle}]
  <2>1. threads' = [threads EXCEPT ![t] =
           [threads[t] EXCEPT !.pc = "answered", !.answer = answer]]
    BY <1>7 DEF Answer
  <2>2. [threads[t] EXCEPT !.pc = "answered", !.answer = answer] \in Thread
    BY <1>3, <1>4
  <2> QED
    BY <1>5, <2>1, <2>2
<1> QED
  BY <1>6, <1>7

LEMMA IdleType ==
  ASSUME TypeOK, NEW t, threads' = [threads EXCEPT ![t] = Idle]
  PROVE  threads' \in [Threads -> Thread \cup {Idle}]
BY DEF TypeOK

(* A save leaves the file well formed when what it writes is.              *)
LEMMA SaveType ==
  ASSUME TypeOK, NEW store \in Stores, NEW ok \in BOOLEAN, Save(store, ok)
  PROVE  disk' \in Stores /\ dirty' \in BOOLEAN
BY DEF TypeOK, Save

(* Writing the pairing file, or not, leaves it well formed.                *)
PairingOK == legacy \in Installations \cup {NoPhone} /\ unsynced \in BOOLEAN

LEMMA PairingType ==
  ASSUME TypeOK, NEW store, NEW ok,
         UNCHANGED pairing \/ Sync(store) \/ SaveThenSync(store, ok)
  PROVE  PairingOK'
<1>1. Active(store) \subseteq Installations /\ PairingOK
  BY DEF Active, TypeOK, PairingOK
<1> QED
  BY <1>1 DEF PairingOK, pairing, Sync, SaveThenSync

LEMMA OutcomesType == SaveOutcomes \subseteq BOOLEAN
BY DEF SaveOutcomes

LEMMA EnqueuedType ==
  ASSUME NEW row \in Row \cup {NoRow}, NEW source \in Sources,
         NEW event \in Events, NEW delay \in 0..MaxRetryDelay
  PROVE  Enqueued(row, source, event, delay) \in Row
<1>1. CASE row \in Row
  <2>1. Larger(row.due, delay) \in 0..MaxRetryDelay
    BY <1>1, Constants DEF Row, Larger
  <2>2. [row EXCEPT !.source = source, !.due = Larger(row.due, delay)] \in Row
    BY <1>1, <2>1 DEF Row
  <2>3. row.queued
    BY <1>1 DEF Row
  <2> QED
    BY <2>2, <2>3 DEF Enqueued
<1>2. CASE row = NoRow
  <2>1. EventTTL[event] \in Nat /\ 0 \in 0..AttemptCap
    BY Constants
  <2> QED
    BY <1>2, <2>1 DEF Enqueued, NoRow, Row
<1> QED
  BY <1>1, <1>2

LEMMA RescheduledType ==
  ASSUME NEW row \in Row, NEW after \in 0..MaxRetryDelay,
         pass.elapsed \in 0..MaxRetryDelay
  PROVE  Rescheduled(row, after) \in Row
<1> DEFINE attempt == Smaller(row.attempts + 1, AttemptCap)
           delay == Larger(Backoff(attempt), after)
           capped == IF delay \in 0..MaxRetryDelay THEN delay ELSE MaxRetryDelay
           due == Larger(0, capped - pass.elapsed)
<1>1. attempt \in 0..AttemptCap
  BY Constants DEF Row, Smaller
<1> HIDE DEF delay
<1>2. capped \in 0..MaxRetryDelay
  BY Constants
<1> HIDE DEF capped, attempt
<1>3. due \in 0..MaxRetryDelay
  BY <1>2, Constants DEF Larger
<1> HIDE DEF due
<1>4. [row EXCEPT !.attempts = attempt, !.due = due] \in Row
  BY <1>1, <1>3 DEF Row
<1> QED
  BY <1>4 DEF Rescheduled, attempt, delay, capped, due

LEMMA PassWithoutType ==
  ASSUME pass \in Pass, NEW k \in Targets
  PROVE  PassWithout(k) \in Pass
<1>1. NoPass \in Pass
  BY Constants DEF NoPass, Pass
<1>2. [pass EXCEPT !.items = [pass.items EXCEPT ![k] = NoItem]] \in Pass
  BY DEF Pass
<1> QED
  BY <1>1, <1>2 DEF PassWithout

-----------------------------------------------------------------------------
(* Type correctness, one lemma per group of actions *)

LEMMA InitType == Init => TypeOK
<1> SUFFICES ASSUME Init PROVE TypeOK
  OBVIOUS
<1>1. NoPass \in Pass
  BY Constants DEF NoPass, Pass
<1> QED
  BY <1>1, EmptyStoreType DEF Init, TypeOK

LEMMA RequestsType ==
  ASSUME TypeOK, Requests,
         UNCHANGED applying
  PROVE  TypeOK'
<1> DEFINE pruned == PruneExpiredPaused(mem)
<1>1. mem \in Stores /\ pruned \in Stores
  BY PruneType DEF TypeOK
<1> HIDE DEF pruned
<1>2. ASSUME mem' \in Stores, NEW ok \in SaveOutcomes,
             SaveThenSync(mem', ok) \/ (Save(mem', ok) /\ UNCHANGED pairing),
             UNCHANGED <<threads, pass, accepted>>
      PROVE  TypeOK'
  <2>1. PairingOK'
    BY <1>2, PairingType
  <2>2. Save(mem', ok)
    BY <1>2 DEF SaveThenSync
  <2> QED
    BY <1>2, <2>1, <2>2, SaveType, OutcomesType DEF TypeOK, PairingOK
<1>3. ASSUME NEW ok \in SaveOutcomes, NEW i \in Installations,
             NEW source \in Sources, NEW wants \in PairedPrefs,
             NEW mode \in {"join", "replace"}, Pair(i, source, wants, mode, ok)
      PROVE  TypeOK'
  <2>1. wants \in SUBSET Features
    BY FiniteSystem
  <2>2. ASSUME NEW victim
        PROVE  RemoveSubscribers(pruned, {victim}) \in Stores
    BY <1>1, RemoveSubscribersType
  <2>3. mem' \in Stores
    BY <1>1, <1>3, <2>1, <2>2, PairIntoType DEF Pair, pruned
  <2> QED
    BY <1>2, <1>3, <2>3 DEF Pair
<1>4. ASSUME NEW i \in Installations, PairRejected(i)
      PROVE  TypeOK'
  BY <1>1, <1>4 DEF PairRejected, TypeOK, pruned, pairing
<1>5. ASSUME NEW ok \in SaveOutcomes, NEW i \in Installations, Pause(i, ok)
      PROVE  TypeOK'
  <2>1. mem' \in Stores
    BY <1>1, <1>5, SetStatusPausedType, RemoveOutboxForType DEF Pause
  <2> QED
    BY <1>2, <1>5, <2>1 DEF Pause
<1>6. ASSUME NEW ok \in SaveOutcomes, NEW i \in Installations, Unsubscribe(i, ok)
      PROVE  TypeOK'
  <2>1. mem' \in Stores
    BY <1>1, <1>6, RemoveSubscribersType DEF Unsubscribe
  <2> QED
    BY <1>2, <1>6, <2>1 DEF Unsubscribe
<1>7. ASSUME NEW ok \in SaveOutcomes, UnsubscribeAll(ok)
      PROVE  TypeOK'
  BY <1>2, <1>7, EmptyStoreType DEF UnsubscribeAll
<1>8. ASSUME NEW ok \in SaveOutcomes, NEW i \in Installations,
             NEW enabled \in BOOLEAN, SetLockSecure(i, enabled, ok)
      PROVE  TypeOK'
  <2> DEFINE wants == IF enabled THEN mem.subs[i].wants \cup {"lock_secure"}
                                 ELSE mem.subs[i].wants \ {"lock_secure"}
             sub == [mem.subs[i] EXCEPT !.wants = wants, !.keep = PausedRetention]
  <2>1. mem.subs[i] \in Subscriber
    BY <1>1 DEF Stores
  <2>2. wants \in SUBSET Features
    BY <1>8, <2>1 DEF SetLockSecure, Subscriber
  <2>3. PausedRetention \in 0..PausedRetention
    BY Constants
  <2> HIDE DEF wants
  <2>4. sub \in Subscriber
    BY <2>1, <2>2, <2>3 DEF Subscriber
  <2> HIDE DEF sub
  <2>5. mem' = SetSubscriber(mem, i, sub)
    BY <1>8 DEF SetLockSecure, sub, wants
  <2>6. mem' \in Stores
    BY <1>1, <2>4, <2>5, SetSubscriberType
  <2> QED
    BY <1>2, <1>8, <2>6 DEF SetLockSecure
<1>9. ASSUME NEW ok \in SaveOutcomes, NEW session \in Sessions,
             RememberKnownCleanup(session, ok)
      PROVE  TypeOK'
  <2> DEFINE auth == [b \in Bindings |->
         IF /\ b[1] \in Active(mem) /\ b[2] = mem.subs[b[1]].source
            /\ b[3] = session
         THEN SessionLife ELSE mem.auth[b]]
  <2>1. auth \in [Bindings -> 0..SessionLife]
    BY <1>1, Constants DEF Stores
  <2> HIDE DEF auth
  <2>2. [mem EXCEPT !.auth = auth] \in Stores
    BY <1>1, <2>1 DEF Stores
  <2>3. mem' \in Stores
    BY <1>9, <2>2 DEF RememberKnownCleanup, auth
  <2> QED
    BY <1>2, <1>9, <2>3 DEF RememberKnownCleanup
<1> QED
  BY <1>3, <1>4, <1>5, <1>6, <1>7, <1>8, <1>9 DEF Requests

LEMMA DeliverType ==
  ASSUME TypeOK, NEW t \in Threads, NEW ok \in SaveOutcomes, Deliver(t, ok),
         UNCHANGED applying
  PROVE  TypeOK'
<1>1. CASE GateTimeout(t)
  BY <1>1, MoveType DEF GateTimeout, At, TypeOK, Answers, pairing
<1>2. CASE FirstCheck(t)
  BY <1>2, MoveType DEF FirstCheck, At, TypeOK, Answers, pairing
<1>3. CASE RememberSession(t, ok)
  <2>1. threads' \in [Threads -> Thread \cup {Idle}]
    BY <1>3, MoveType DEF RememberSession, At
  <2>2. BindingOf(t) \in Bindings
    BY <1>3, ThreadFields DEF RememberSession, At
  <2>3. SessionLife \in 0..SessionLife /\ mem \in Stores
    BY Constants DEF TypeOK
  <2>4. mem' \in Stores
    BY <1>3, <2>2, <2>3 DEF RememberSession, Stores
  <2> QED
    BY <1>3, <2>1, <2>4, SaveType, OutcomesType
    DEF RememberSession, TypeOK, pairing
<1>4. CASE SecondCheck(t)
  BY <1>4, MoveType DEF SecondCheck, At, TypeOK, Answers, pairing
<1>5. CASE RelayAnswers(t)
  <2>1. threads' \in [Threads -> Thread \cup {Idle}]
    BY <1>5, MoveType DEF RelayAnswers, At, Answers
  <2>2. accepted' \subseteq Targets
    BY <1>5, ThreadFields DEF RelayAnswers, At, TypeOK
  <2> QED
    BY <1>5, <2>1, <2>2 DEF RelayAnswers, TypeOK, pairing
<1> QED
  BY <1>1, <1>2, <1>3, <1>4, <1>5 DEF Deliver

LEMMA BeginThreadType ==
  ASSUME TypeOK, NEW t \in Threads, NEW i \in Installations,
         NEW event \in Events, NEW source \in Sources,
         threads' = [threads EXCEPT ![t] =
           [pc |-> "check", inst |-> i, event |-> event,
            source |-> source, answer |-> "none"]]
  PROVE  threads' \in [Threads -> Thread \cup {Idle}]
<1>1. [pc |-> "check", inst |-> i, event |-> event,
       source |-> source, answer |-> "none"] \in Thread
  BY DEF Thread
<1> QED
  BY <1>1 DEF TypeOK

LEMMA AfterType ==
  ASSUME NEW t, NEW after \in AfterChoices(t)
  PROVE  after \in 0..MaxRetryDelay
BY Constants DEF AfterChoices

LEMMA FinishDirectType ==
  ASSUME TypeOK, NEW t \in Workers, NEW ok \in SaveOutcomes, FinishDirect(t, ok),
         UNCHANGED applying
  PROVE  TypeOK'
<1>1. t \in Threads /\ threads[t].pc # "idle"
  BY DEF FinishDirect, At, Threads
<1>2. TargetOf(t) \in Targets /\ threads[t].inst \in Installations
      /\ threads[t].event \in Events /\ threads[t].source \in Sources
  BY <1>1, ThreadFields
<1>3. mem \in Stores
  BY DEF TypeOK
<1>4. CASE Enqueue(t, ok)
  <2>1. PICK after \in AfterChoices(t) :
          mem' = SetRow(mem, TargetOf(t),
            Enqueued(mem.outbox[TargetOf(t)], threads[t].source,
                     threads[t].event, Larger(RetryDelay, after)))
    BY <1>4 DEF Enqueue
  <2>2. Larger(RetryDelay, after) \in 0..MaxRetryDelay
    BY <2>1, AfterType, Constants DEF Larger
  <2>3. mem.outbox[TargetOf(t)] \in Row \cup {NoRow}
    BY <1>2, <1>3 DEF Stores
  <2>4. mem' \in Stores
    BY <1>2, <1>3, <2>1, <2>2, <2>3, EnqueuedType, SetRowType
  <2> QED
    BY <1>4, <2>4, IdleType, SaveType, OutcomesType
    DEF FinishDirect, Enqueue, TypeOK, pairing
<1>5. CASE /\ mem' = PauseInvalid(mem, threads[t].inst)
           /\ Sync(mem') /\ Save(mem', ok)
  <2>1. mem' \in Stores
    BY <1>2, <1>3, <1>5, PauseInvalidType
  <2> QED
    BY <1>5, <2>1, IdleType, SaveType, OutcomesType, PairingType
    DEF FinishDirect, TypeOK, PairingOK
<1>6. CASE UNCHANGED <<mem, disk, dirty, pairing>>
  BY <1>6, IdleType DEF FinishDirect, TypeOK, pairing
<1> QED
  BY <1>4, <1>5, <1>6 DEF FinishDirect

LEMMA StartPassType ==
  ASSUME TypeOK, StartPass, UNCHANGED applying PROVE TypeOK'
<1> DEFINE items == [k \in Targets |->
                IF mem.outbox[k].queued
                THEN IF mem.outbox[k].ttl = 0 \/ mem.outbox[k].due = 0
                     THEN [pending |-> TRUE, source |-> mem.outbox[k].source,
                           expired |-> mem.outbox[k].ttl = 0]
                     ELSE NoItem
                ELSE NoItem]
<1>1. ASSUME NEW k \in Targets, mem.outbox[k].queued
      PROVE  mem.outbox[k].source \in Sources
  <2>1. mem.outbox[k] \in Row \cup {NoRow}
    BY DEF TypeOK, Stores
  <2>2. mem.outbox[k] \in Row
    BY <1>1, <2>1 DEF NoRow
  <2> QED
    BY <2>2 DEF Row
<1>2. items \in [Targets -> Item \cup {NoItem}]
  BY <1>1 DEF Item
<1>3. Active(mem) \subseteq Installations /\ 0 \in 0..MaxRetryDelay
  BY Constants DEF Active
<1> HIDE DEF items
<1>4. [items |-> items, active |-> Active(mem), elapsed |-> 0] \in Pass
  BY <1>2, <1>3 DEF Pass
<1>5. pass' \in Pass
  BY <1>4 DEF StartPass, items
<1> QED
  BY <1>5 DEF StartPass, TypeOK, pairing

LEMMA DropItemType ==
  ASSUME TypeOK, NEW k \in Targets, NEW ok \in SaveOutcomes, DropItem(k, ok),
         UNCHANGED applying
  PROVE  TypeOK'
<1>1. mem' \in Stores
  BY RemoveRowType DEF DropItem, TypeOK
<1>2. pass' \in Pass
  BY PassWithoutType DEF DropItem, TypeOK
<1> QED
  BY <1>1, <1>2, SaveType, OutcomesType DEF DropItem, TypeOK, pairing

LEMMA PostItemType ==
  ASSUME TypeOK, NEW k \in Targets, PostItem(k), UNCHANGED applying
  PROVE  TypeOK'
<1>1. pass.items[k] \in Item
  BY DEF TypeOK, Pass, PostItem, Waiting, NoItem
<1>2. pass.items[k].source \in Sources /\ k[1] \in Installations /\ k[2] \in Events
      /\ RetryLoop \in Threads
  BY <1>1 DEF Item, Targets, Threads
<1>3. threads' \in [Threads -> Thread \cup {Idle}]
  BY <1>2, BeginThreadType DEF PostItem
<1> QED
  BY <1>3 DEF PostItem, TypeOK, pairing

LEMMA FinishRetryType ==
  ASSUME TypeOK, NEW ok \in SaveOutcomes, FinishRetry(ok),
         UNCHANGED applying
  PROVE  TypeOK'
<1> DEFINE k == TargetOf(RetryLoop)
<1>1. RetryLoop \in Threads /\ threads[RetryLoop].pc # "idle"
  BY DEF FinishRetry, At, Threads
<1>2. k \in Targets /\ k[1] \in Installations
  BY <1>1, ThreadFields DEF Targets
<1>3. mem \in Stores /\ pass \in Pass
  BY DEF TypeOK
<1>4. pass' \in Pass
  BY <1>2, <1>3, PassWithoutType DEF FinishRetry
<1>5. threads' \in [Threads -> Thread \cup {Idle}]
  BY IdleType DEF FinishRetry
<1>6. CASE mem' \in Stores /\ Save(mem', ok) /\ (Sync(mem') \/ UNCHANGED pairing)
  <2>1. PairingOK'
    BY <1>6, PairingType
  <2> QED
    BY <1>4, <1>5, <1>6, <2>1, SaveType, OutcomesType
    DEF FinishRetry, TypeOK, PairingOK
<1>7. CASE UNCHANGED <<mem, disk, dirty, pairing>>
  BY <1>4, <1>5, <1>7 DEF FinishRetry, TypeOK, pairing
<1>8. ASSUME mem' = RemoveRow(mem, k) PROVE mem' \in Stores
  BY <1>2, <1>3, <1>8, RemoveRowType
<1>9. ASSUME mem' = PauseInvalid(mem, k[1]) PROVE mem' \in Stores
  BY <1>2, <1>3, <1>9, PauseInvalidType
<1>10. ASSUME k \in Queued(mem), NEW after \in AfterChoices(RetryLoop),
              mem' = SetRow(mem, k, Rescheduled(mem.outbox[k], after))
       PROVE  mem' \in Stores
  <2>1. mem.outbox[k] \in Row
    BY <1>2, <1>3, <1>10 DEF Stores, Queued, NoRow
  <2>2. pass.elapsed \in 0..MaxRetryDelay
    BY <1>3 DEF Pass
  <2>3. Rescheduled(mem.outbox[k], after) \in Row
    BY <2>1, <2>2, <1>10, AfterType, RescheduledType
  <2> QED
    BY <1>2, <1>3, <1>10, <2>3, SetRowType
<1> HIDE DEF k
<1> QED
  BY <1>6, <1>7, <1>8, <1>9, <1>10 DEF FinishRetry, k

LEMMA TickType == ASSUME TypeOK, Tick, UNCHANGED applying PROVE TypeOK'
<1>1. mem' \in Stores /\ disk' \in Stores
  BY AgedType DEF Tick, TypeOK
<1>2. Smaller(pass.elapsed + 1, MaxRetryDelay) \in 0..MaxRetryDelay
  BY Constants DEF TypeOK, Pass, Smaller
<1>3. pass' \in Pass
  BY <1>2 DEF Tick, TypeOK, Pass
<1> QED
  BY <1>1, <1>3 DEF Tick, TypeOK, pairing

(* Requests that reach the monitors touch nothing but the pairing file.    *)
LEMMA ApplyUnchanged ==
  ApplyToMonitors => UNCHANGED <<mem, disk, dirty, threads, pass, accepted>>
BY DEF ApplyToMonitors, ApplyBegins, ApplyEnds

LEMMA ApplyType == ASSUME TypeOK, ApplyToMonitors PROVE TypeOK'
<1>1. CASE ApplyBegins
  BY <1>1 DEF ApplyBegins, TypeOK, pairing
<1>2. ASSUME NEW phone \in applying, ApplyEnds(phone) PROVE TypeOK'
  <2>1. phone \in Installations \cup {NoPhone}
    BY DEF TypeOK
  <2>2. legacy' \in Installations \cup {NoPhone} /\ unsynced' \in BOOLEAN
    BY <1>2, <2>1 DEF ApplyEnds, TypeOK
  <2>3. applying' \subseteq Installations \cup {NoPhone}
    BY <1>2 DEF ApplyEnds, TypeOK
  <2> QED
    BY <1>2, <2>2, <2>3 DEF ApplyEnds, TypeOK
<1> QED
  BY <1>1, <1>2 DEF ApplyToMonitors

(* What a restart migrates is a store with one phone in it. *)
LEMMA MigratedType ==
  ASSUME TypeOK, NEW store \in Stores, legacy # NoPhone, NEW wants \in MigratedPrefs
  PROVE  /\ legacy \in Installations /\ Paired(NoSource, wants) \in Subscriber
         /\ Paired(NoSource, wants).status = "active"
         /\ SetSubscriber(store, legacy, Paired(NoSource, wants)) \in Stores
<1>1. wants \in SUBSET Features
  BY DEF MigratedPrefs
<1>2. Paired(NoSource, wants) \in Subscriber /\ Paired(NoSource, wants).status = "active"
  BY <1>1, Constants DEF Paired, Subscriber
<1>3. legacy \in Installations
  BY DEF TypeOK
<1> QED
  BY <1>2, <1>3, SetSubscriberType

LEMMA RestartType ==
  ASSUME TypeOK, NEW ok \in SaveOutcomes, Restart(ok)
  PROVE  TypeOK'
<1> DEFINE loaded == Loaded(disk)
<1>1. loaded \in Stores /\ PruneExpiredPaused(loaded) \in Stores
  BY LoadedType, PruneType DEF TypeOK
<1>2. mem' \in Stores
  <2>1. CASE MustMigrate(loaded)
    BY <1>1, <2>1, MigratedType DEF Restart, MustMigrate
  <2>2. CASE ~MustMigrate(loaded)
    BY <1>1, <2>2 DEF Restart
  <2> QED
    BY <2>1, <2>2
<1>3. disk' \in Stores /\ dirty' \in BOOLEAN
  <2>1. Save(mem', ok) \/ (UNCHANGED disk /\ dirty' = FALSE)
    BY DEF Restart
  <2> QED
    BY <1>2, <2>1, SaveType, OutcomesType DEF TypeOK
<1>4. PairingOK'
  BY PairingType DEF Restart
<1>5. NoPass \in Pass
  BY Constants DEF NoPass, Pass
<1> QED
  BY <1>2, <1>3, <1>4, <1>5 DEF Restart, TypeOK, PairingOK

(* Every store, delivery and pass stays well formed, for any number of     *)
(* phones, events and goroutines and any limits.                           *)
LEMMA TypeStep == TypeOK /\ [Next]_vars => TypeOK'
<1> SUFFICES ASSUME TypeOK, [Next]_vars PROVE TypeOK'
  OBVIOUS
<1>1. CASE Requests /\ UNCHANGED applying
  BY <1>1, RequestsType
<1>2. ASSUME NEW ok \in SaveOutcomes, RetryStep(ok), UNCHANGED applying
      PROVE  TypeOK'
  <2>1. RetryLoop \in Threads
    BY DEF Threads
  <2> QED
    BY <1>2, <2>1, StartPassType, DropItemType, PostItemType, DeliverType,
       FinishRetryType DEF RetryStep
<1>3. ASSUME NEW ok \in SaveOutcomes, DirectStep(ok), UNCHANGED applying
      PROVE  TypeOK'
  <2>1. ASSUME NEW t \in Workers, NEW i \in Installations, NEW event \in Events,
               Begin(t, i, event)
        PROVE  TypeOK'
    <3>1. mem.subs[i].source \in Sources /\ t \in Threads
      BY DEF TypeOK, Stores, Subscriber, Threads
    <3>2. threads' \in [Threads -> Thread \cup {Idle}]
      BY <2>1, <3>1, BeginThreadType DEF Begin
    <3> QED
      BY <1>3, <2>1, <3>2 DEF Begin, TypeOK, pairing
  <2> QED
    BY <1>3, <2>1, DeliverType, FinishDirectType DEF DirectStep, Threads
<1>4. ASSUME NEW ok \in SaveOutcomes, Restart(ok) PROVE TypeOK'
  BY <1>4, RestartType
<1>5. CASE Tick /\ UNCHANGED applying
  BY <1>5, TickType
<1>6. CASE UNCHANGED vars
  BY <1>6 DEF vars, TypeOK, pairing
<1>7. CASE ApplyToMonitors
  BY <1>7, ApplyType
<1> QED
  BY <1>1, <1>2, <1>3, <1>4, <1>5, <1>6, <1>7 DEF Next, Works

THEOREM TypeCorrect == Spec => []TypeOK
BY InitType, TypeStep, PTL DEF Spec

-----------------------------------------------------------------------------
(***************************************************************************)
(* The limits.  Each is inductive by itself for a store; the file is       *)
(* included because a restart reads it back.                               *)
(***************************************************************************)

LEMMA TargetsFinite == IsFiniteSet(Targets)
BY FiniteSystem, FS_Product DEF Targets

LEMMA PartsFinite ==
  ASSUME NEW store
  PROVE  /\ IsFiniteSet(Registered(store)) /\ IsFiniteSet(Queued(store))
         /\ Cardinality(Registered(store)) \in Nat
         /\ Cardinality(Queued(store)) \in Nat
<1>1. Registered(store) \subseteq Installations /\ Queued(store) \subseteq Targets
  BY DEF Registered, Queued
<1>2. IsFiniteSet(Registered(store)) /\ IsFiniteSet(Queued(store))
  BY <1>1, FiniteSystem, TargetsFinite, FS_Subset
<1> QED
  BY <1>2, FS_CardinalityType

(* A store with no more phones and no more rows keeps to the limits.       *)
LEMMA FewerWithinLimits ==
  ASSUME NEW old, NEW new, WithinLimits(old),
         Registered(new) \subseteq Registered(old),
         Queued(new) \subseteq Queued(old)
  PROVE  WithinLimits(new)
<1>1. /\ Cardinality(Registered(new)) <= Cardinality(Registered(old))
      /\ Cardinality(Queued(new)) <= Cardinality(Queued(old))
  BY PartsFinite, FS_Subset
<1>2. /\ Cardinality(Registered(new)) \in Nat /\ Cardinality(Queued(new)) \in Nat
      /\ Cardinality(Registered(old)) \in Nat /\ Cardinality(Queued(old)) \in Nat
  BY PartsFinite
<1> QED
  BY <1>1, <1>2, Constants DEF WithinLimits

LEMMA RemoveSubscribersParts ==
  ASSUME NEW store \in Stores, NEW gone
  PROVE  /\ Registered(RemoveSubscribers(store, gone)) = Registered(store) \ gone
         /\ Queued(RemoveSubscribers(store, gone))
              = {k \in Queued(store) : k[1] \notin gone}
         /\ \A i \in Installations : RemoveSubscribers(store, gone).subs[i]
              = IF i \in gone THEN Absent ELSE store.subs[i]
<1> DEFINE kept == RemoveSubscribers(store, gone)
<1>1. \A i \in Installations :
        kept.subs[i] = IF i \in gone THEN Absent ELSE store.subs[i]
  BY DEF RemoveSubscribers, RemoveOutboxFor, Stores
<1>2. \A k \in Targets :
        kept.outbox[k] = IF k[1] \in gone THEN NoRow ELSE store.outbox[k]
  BY DEF RemoveSubscribers, RemoveOutboxFor, Stores
<1> HIDE DEF kept
<1>3. Registered(kept) = Registered(store) \ gone
  BY <1>1 DEF Registered, Absent
<1>4. Queued(kept) = {k \in Queued(store) : k[1] \notin gone}
  BY <1>2 DEF Queued, NoRow
<1> QED
  BY <1>1, <1>3, <1>4 DEF kept

LEMMA SetSubscriberParts ==
  ASSUME NEW store \in Stores, NEW i \in Installations, NEW sub \in Subscriber
  PROVE  /\ Queued(SetSubscriber(store, i, sub)) = Queued(store)
         /\ sub.status # "absent" =>
              Registered(SetSubscriber(store, i, sub)) = Registered(store) \cup {i}
BY DEF SetSubscriber, Stores, Queued, Registered

LEMMA RemoveOutboxForParts ==
  ASSUME NEW store \in Stores, NEW gone
  PROVE  /\ Registered(RemoveOutboxFor(store, gone)) = Registered(store)
         /\ Queued(RemoveOutboxFor(store, gone)) \subseteq Queued(store)
BY DEF RemoveOutboxFor, Stores, Queued, Registered, NoRow

LEMMA SetStatusPausedParts ==
  ASSUME NEW store \in Stores, NEW i \in Registered(store)
  PROVE  /\ Registered(SetStatusPaused(store, i)) = Registered(store)
         /\ Queued(SetStatusPaused(store, i)) = Queued(store)
<1> DEFINE sub == [store.subs[i] EXCEPT !.status = "paused", !.keep = PausedRetention]
<1>1. i \in Installations /\ store.subs[i] \in Subscriber
  BY DEF Registered, Stores
<1>2. PausedRetention \in 0..PausedRetention
  BY Constants
<1>3. sub \in Subscriber /\ sub.status = "paused"
  BY <1>1, <1>2 DEF Subscriber
<1> HIDE DEF sub
<1>4. SetStatusPaused(store, i) = SetSubscriber(store, i, sub)
  BY DEF SetStatusPaused, sub
<1>5. Registered(store) \cup {i} = Registered(store)
  OBVIOUS
<1> QED
  BY <1>1, <1>3, <1>4, <1>5, SetSubscriberParts

LEMMA SetRowParts ==
  ASSUME NEW store \in Stores, NEW k \in Targets, NEW row \in Row \cup {NoRow}
  PROVE  /\ Registered(SetRow(store, k, row)) = Registered(store)
         /\ row \in Row => Queued(SetRow(store, k, row)) = Queued(store) \cup {k}
         /\ row = NoRow => Queued(SetRow(store, k, row)) = Queued(store) \ {k}
<1>1. row \in Row => row.queued
  BY DEF Row
<1>2. ~NoRow.queued
  BY DEF NoRow
<1> QED
  BY <1>1, <1>2 DEF SetRow, Stores, Queued, Registered

LEMMA LoadedParts ==
  ASSUME NEW store \in Stores
  PROVE  /\ Registered(Loaded(store)) = Registered(store)
         /\ Queued(Loaded(store)) \subseteq Queued(store)
<1>1. Loaded(store).subs = store.subs
  BY DEF Loaded
<1>2. \A k \in Targets : Loaded(store).outbox[k] \in {store.outbox[k], NoRow}
  BY DEF Loaded, Stores
<1> QED
  BY <1>1, <1>2 DEF Registered, Queued, NoRow

LEMMA AgedParts ==
  ASSUME NEW store \in Stores
  PROVE  /\ Registered(Aged(store)) = Registered(store)
         /\ Queued(Aged(store)) = Queued(store)
<1>1. ASSUME NEW sub \in Subscriber
      PROVE  AgedSubscriber(sub).status = sub.status
  BY DEF AgedSubscriber, Subscriber
<1>2. ASSUME NEW row \in Row \cup {NoRow} PROVE AgedRow(row).queued = row.queued
  <2>1. CASE row \in Row
    BY <2>1 DEF AgedRow, Row
  <2>2. CASE row = NoRow
    BY <2>2 DEF AgedRow, NoRow
  <2> QED
    BY <2>1, <2>2
<1>3. \A i \in Installations : Aged(store).subs[i].status = store.subs[i].status
  BY <1>1 DEF Aged, Stores
<1>4. \A k \in Targets : Aged(store).outbox[k].queued = store.outbox[k].queued
  BY <1>2 DEF Aged, Stores
<1> QED
  BY <1>3, <1>4 DEF Registered, Queued

LEMMA PauseInvalidParts ==
  ASSUME NEW store \in Stores, NEW i \in Installations
  PROVE  /\ Registered(PauseInvalid(store, i)) = Registered(store)
         /\ Queued(PauseInvalid(store, i)) \subseteq Queued(store)
<1> DEFINE new == IF i \in Registered(store) THEN SetStatusPaused(store, i) ELSE store
<1>1. new \in Stores /\ Registered(new) = Registered(store)
      /\ Queued(new) = Queued(store)
  BY SetStatusPausedType, SetStatusPausedParts
<1> HIDE DEF new
<1> QED
  BY <1>1, RemoveOutboxForParts DEF PauseInvalid, new

LEMMA PairIntoParts ==
  ASSUME NEW store \in Stores, NEW i \in Installations,
         NEW source \in Sources, NEW wants \in SUBSET Features,
         NEW mode \in {"join", "replace"}
  PROVE  /\ Registered(PairInto(store, i, source, wants, mode))
              = IF mode = "replace" THEN {i} ELSE Registered(store) \cup {i}
         /\ Queued(PairInto(store, i, source, wants, mode)) \subseteq Queued(store)
<1> DEFINE others == IF mode = "replace" THEN Installations \ {i} ELSE {}
           kept == RemoveSubscribers(store, others)
<1>1. kept \in Stores
  BY RemoveSubscribersType
<1>2. Registered(kept) = Registered(store) \ others /\ Queued(kept) \subseteq Queued(store)
  BY RemoveSubscribersParts
<1>3. Paired(source, wants) \in Subscriber /\ Paired(source, wants).status # "absent"
  BY Constants DEF Paired, Subscriber
<1>4. Registered(store) \subseteq Installations
  BY DEF Registered
<1> HIDE DEF kept
<1>5. /\ Registered(SetSubscriber(kept, i, Paired(source, wants)))
           = (Registered(store) \ others) \cup {i}
      /\ Queued(SetSubscriber(kept, i, Paired(source, wants))) \subseteq Queued(store)
  BY <1>1, <1>2, <1>3, SetSubscriberParts
<1>6. PairInto(store, i, source, wants, mode)
        = SetSubscriber(kept, i, Paired(source, wants))
  BY DEF PairInto, kept
<1> QED
  BY <1>4, <1>5, <1>6

LEMMA PruneParts ==
  ASSUME NEW store \in Stores
  PROVE  /\ Registered(PruneExpiredPaused(store)) \subseteq Registered(store)
         /\ Queued(PruneExpiredPaused(store)) \subseteq Queued(store)
BY RemoveSubscribersParts DEF PruneExpiredPaused

(* upsert: the new phone fits, takes the place of a paused one, or removes *)
(* all others.                                                             *)
LEMMA PairWithinLimits ==
  ASSUME TypeOK, WithinLimits(mem), NEW ok, NEW i \in Installations,
         NEW source \in Sources, NEW wants \in PairedPrefs,
         NEW mode \in {"join", "replace"}, Pair(i, source, wants, mode, ok)
  PROVE  WithinLimits(mem')
<1> DEFINE pruned == PruneExpiredPaused(mem)
<1>1. mem \in Stores /\ pruned \in Stores /\ WithinLimits(pruned)
  BY PruneType, PruneParts, FewerWithinLimits DEF TypeOK
<1>2. wants \in SUBSET Features
  BY FiniteSystem
<1> DEFINE limit(store) == Cardinality(Registered(store))
<1>3. limit(pruned) \in Nat /\ limit(pruned) <= MaxSubscribers
      /\ IsFiniteSet(Registered(pruned))
  BY <1>1, PartsFinite DEF WithinLimits
<1>4. ASSUME NEW store \in Stores, Queued(store) \subseteq Queued(pruned),
             mem' = PairInto(store, i, source, wants, mode),
             mode = "join" => Cardinality(Registered(store) \cup {i}) <= MaxSubscribers
      PROVE  WithinLimits(mem')
  <2>1. Cardinality({i}) = 1
    BY FS_Singleton
  <2>2. Cardinality(Registered(mem')) <= MaxSubscribers
    <3>1. Registered(mem')
            = IF mode = "replace" THEN {i} ELSE Registered(store) \cup {i}
      BY <1>2, <1>4, PairIntoParts
    <3>2. CASE mode = "replace"
      BY <2>1, <3>1, <3>2, Constants
    <3>3. CASE mode = "join"
      BY <1>4, <3>1, <3>3
    <3> QED
      BY <3>2, <3>3
  <2>3. Queued(mem') \subseteq Queued(pruned)
    BY <1>2, <1>4, PairIntoParts
  <2>4. Cardinality(Queued(mem')) <= Cardinality(Queued(pruned))
        /\ Cardinality(Queued(mem')) \in Nat /\ Cardinality(Queued(pruned)) \in Nat
    BY <2>3, PartsFinite, FS_Subset
  <2> QED
    BY <1>1, <2>2, <2>4, Constants DEF WithinLimits
<1> HIDE DEF pruned
<1>5. CASE ~NeedsRoom(pruned, i, mode) /\ mem' = PairInto(pruned, i, source, wants, mode)
  <2>1. ASSUME mode = "join" PROVE Cardinality(Registered(pruned) \cup {i}) <= MaxSubscribers
    <3>1. CASE i \in Registered(pruned)
      <4>1. Registered(pruned) \cup {i} = Registered(pruned)
        BY <3>1
      <4> QED
        BY <1>3, <4>1
    <3>2. CASE i \notin Registered(pruned)
      <4>1. limit(pruned) < MaxSubscribers
        BY <1>3, <1>5, <2>1, <3>2, Constants DEF NeedsRoom
      <4>2. Cardinality(Registered(pruned) \cup {i}) = limit(pruned) + 1
        BY <1>3, <3>2, FS_AddElement
      <4> QED
        BY <1>3, <4>1, <4>2, Constants
    <3> QED
      BY <3>1, <3>2
  <2> QED
    BY <1>1, <1>4, <1>5, <2>1
<1>6. ASSUME NeedsRoom(pruned, i, mode), NEW victim \in OldestPaused(pruned),
             mem' = PairInto(RemoveSubscribers(pruned, {victim}), i, source, wants, mode)
      PROVE  WithinLimits(mem')
  <2> DEFINE room == RemoveSubscribers(pruned, {victim})
  <2>1. victim \in Registered(pruned)
    BY DEF OldestPaused, Paused, Registered
  <2>2. room \in Stores /\ Queued(room) \subseteq Queued(pruned)
        /\ Registered(room) = Registered(pruned) \ {victim}
    BY <1>1, RemoveSubscribersType, RemoveSubscribersParts
  <2>3. i \notin Registered(pruned)
    BY <1>6 DEF NeedsRoom
  <2>4. Cardinality(Registered(pruned) \ {victim}) = limit(pruned) - 1
        /\ IsFiniteSet(Registered(pruned) \ {victim})
    BY <1>3, <2>1, FS_RemoveElement
  <2>5. Cardinality((Registered(pruned) \ {victim}) \cup {i}) = limit(pruned)
    <3>1. i \notin Registered(pruned) \ {victim}
      BY <2>3
    <3>2. Cardinality((Registered(pruned) \ {victim}) \cup {i})
            = Cardinality(Registered(pruned) \ {victim}) + 1
      BY <2>4, <3>1, FS_AddElement
    <3> QED
      BY <1>3, <2>4, <3>2
  <2> HIDE DEF room
  <2> QED
    BY <1>3, <1>4, <1>6, <2>2, <2>5 DEF room
<1> QED
  BY <1>5, <1>6 DEF Pair, pruned

(* enqueue: a new row only below the limit.                                *)
LEMMA EnqueueWithinLimits ==
  ASSUME TypeOK, WithinLimits(mem), NEW t \in Threads, threads[t].pc # "idle",
         NEW ok, Enqueue(t, ok)
  PROVE  WithinLimits(mem')
<1> DEFINE k == TargetOf(t)
<1>1. mem \in Stores /\ k \in Targets /\ threads[t].event \in Events
      /\ threads[t].source \in Sources
  BY ThreadFields DEF TypeOK
<1>2. PICK after \in AfterChoices(t) :
        mem' = SetRow(mem, k, Enqueued(mem.outbox[k], threads[t].source,
                 threads[t].event, Larger(RetryDelay, after)))
  BY DEF Enqueue
<1>3. Larger(RetryDelay, after) \in 0..MaxRetryDelay
  BY AfterType, Constants DEF Larger
<1>4. mem.outbox[k] \in Row \cup {NoRow}
  BY <1>1 DEF Stores
<1> HIDE DEF k
<1>5. /\ Registered(mem') = Registered(mem)
      /\ Queued(mem') = Queued(mem) \cup {k}
  BY <1>1, <1>2, <1>3, <1>4, EnqueuedType, SetRowParts
<1>6. k \in Queued(mem) \/ Cardinality(Queued(mem)) < MaxOutbox
  BY <1>1, PartsFinite, Constants DEF Enqueue, OutboxFull, k
<1>7. Cardinality(Queued(mem) \cup {k})
        = IF k \in Queued(mem) THEN Cardinality(Queued(mem))
                               ELSE Cardinality(Queued(mem)) + 1
  BY PartsFinite, FS_AddElement
<1> QED
  BY <1>5, <1>6, <1>7, PartsFinite, Constants DEF WithinLimits

LEMMA InitCapacity == Init => Capacity
<1> SUFFICES ASSUME Init PROVE Capacity
  OBVIOUS
<1>1. Registered(EmptyStore) = {} /\ Queued(EmptyStore) = {}
  BY DEF Registered, Queued, EmptyStore, Absent, NoRow
<1>2. mem = EmptyStore /\ disk = EmptyStore
  BY DEF Init
<1> QED
  BY <1>1, <1>2, FS_EmptySet, Constants DEF Capacity, WithinLimits

(* The file holds what memory holds, or what it held before.               *)
LEMMA SaveCapacity ==
  ASSUME WithinLimits(disk), NEW store, WithinLimits(store), NEW ok, Save(store, ok)
  PROVE  WithinLimits(disk')
<1>1. disk' = store \/ disk' = disk
  BY DEF Save
<1> QED
  BY <1>1 DEF WithinLimits, Registered, Queued

(* The one phone of a migration fits. *)
LEMMA MigratedWithinLimits ==
  ASSUME TypeOK, NEW store \in Stores, WithinLimits(store), MustMigrate(store),
         NEW wants \in MigratedPrefs
  PROVE  WithinLimits(SetSubscriber(store, legacy, Paired(NoSource, wants)))
<1> DEFINE sub == Paired(NoSource, wants)
           new == SetSubscriber(store, legacy, sub)
<1>1. legacy \in Installations /\ sub \in Subscriber /\ sub.status = "active"
  BY MigratedType DEF MustMigrate
<1> HIDE DEF sub
<1>2. Queued(new) = Queued(store) /\ Registered(new) = {legacy}
  BY <1>1, SetSubscriberParts DEF MustMigrate
<1> HIDE DEF new
<1>3. Cardinality(Registered(new)) = 1
  BY <1>2, FS_Singleton
<1> QED
  BY <1>2, <1>3, Constants DEF WithinLimits, new, sub

LEMMA CapacityStep == TypeOK /\ Capacity /\ [Next]_vars => Capacity'
<1> SUFFICES ASSUME TypeOK, Capacity, [Next]_vars PROVE Capacity'
  OBVIOUS
<1>1. /\ WithinLimits(mem) /\ WithinLimits(disk)
      /\ mem \in Stores /\ disk \in Stores
  BY DEF Capacity, TypeOK
<1>2. ASSUME WithinLimits(mem'), NEW ok, Save(mem', ok) PROVE Capacity'
  BY <1>1, <1>2, SaveCapacity DEF Capacity
<1>3. ASSUME UNCHANGED <<mem, disk>> PROVE Capacity'
  BY <1>1, <1>3 DEF Capacity, WithinLimits, Registered, Queued
<1>4. CASE Requests
  <2>1. ASSUME NEW ok \in SaveOutcomes, NEW i \in Installations,
               NEW source \in Sources, NEW wants \in PairedPrefs,
               NEW mode \in {"join", "replace"}, Pair(i, source, wants, mode, ok)
        PROVE  Capacity'
    BY <1>1, <1>2, <2>1, PairWithinLimits DEF Pair, SaveThenSync
  <2>2. ASSUME NEW i \in Installations, PairRejected(i) PROVE Capacity'
    <3>1. WithinLimits(mem')
      BY <1>1, <2>2, PruneParts, FewerWithinLimits DEF PairRejected
    <3>2. WithinLimits(disk')
      BY <1>1, <2>2 DEF PairRejected, WithinLimits, Registered, Queued
    <3> QED
      BY <3>1, <3>2 DEF Capacity
  <2>3. ASSUME NEW ok, NEW i \in Installations, Pause(i, ok) PROVE Capacity'
    <3>1. SetStatusPaused(mem, i) \in Stores
          /\ Registered(SetStatusPaused(mem, i)) = Registered(mem)
          /\ Queued(SetStatusPaused(mem, i)) = Queued(mem)
      BY <1>1, <2>3, SetStatusPausedType, SetStatusPausedParts DEF Pause
    <3>2. WithinLimits(mem')
      BY <1>1, <2>3, <3>1, RemoveOutboxForParts, FewerWithinLimits DEF Pause
    <3> QED
      BY <1>2, <2>3, <3>2 DEF Pause, SaveThenSync
  <2>4. ASSUME NEW ok, NEW i \in Installations, Unsubscribe(i, ok) PROVE Capacity'
    <3>1. WithinLimits(mem')
      BY <1>1, <2>4, RemoveSubscribersParts, FewerWithinLimits DEF Unsubscribe
    <3> QED
      BY <1>2, <2>4, <3>1 DEF Unsubscribe, SaveThenSync
  <2>5. ASSUME NEW ok, UnsubscribeAll(ok) PROVE Capacity'
    <3>1. Registered(mem') = {} /\ Queued(mem') = {}
      BY <2>5 DEF UnsubscribeAll, Registered, Queued, EmptyStore, Absent, NoRow
    <3>2. WithinLimits(mem')
      BY <1>1, <3>1, FewerWithinLimits
    <3> QED
      BY <1>2, <2>5, <3>2 DEF UnsubscribeAll, SaveThenSync
  <2>6. ASSUME NEW ok, NEW i \in Installations, NEW enabled \in BOOLEAN,
               SetLockSecure(i, enabled, ok)
        PROVE  Capacity'
    <3>1. PICK sub : sub.status = mem.subs[i].status /\ mem' = SetSubscriber(mem, i, sub)
      <4>1. mem.subs[i] \in Subscriber
        BY <1>1 DEF Stores
      <4> DEFINE wants == IF enabled THEN mem.subs[i].wants \cup {"lock_secure"}
                                     ELSE mem.subs[i].wants \ {"lock_secure"}
                 sub == [mem.subs[i] EXCEPT !.wants = wants, !.keep = PausedRetention]
      <4>2. mem' = SetSubscriber(mem, i, sub)
        BY <2>6 DEF SetLockSecure
      <4> HIDE DEF wants
      <4>3. sub.status = mem.subs[i].status
        BY <4>1 DEF Subscriber
      <4> QED
        BY <4>2, <4>3
    <3>2. Registered(mem') = Registered(mem) /\ Queued(mem') = Queued(mem)
      BY <1>1, <3>1 DEF SetSubscriber, Registered, Queued, Stores
    <3>3. WithinLimits(mem')
      BY <1>1, <3>2, FewerWithinLimits
    <3> QED
      BY <1>2, <2>6, <3>3 DEF SetLockSecure
  <2>7. ASSUME NEW ok, NEW session, RememberKnownCleanup(session, ok) PROVE Capacity'
    <3>1. Registered(mem') = Registered(mem) /\ Queued(mem') = Queued(mem)
      BY <1>1, <2>7 DEF RememberKnownCleanup, Registered, Queued, Stores
    <3>2. WithinLimits(mem')
      BY <1>1, <3>1, FewerWithinLimits
    <3> QED
      BY <1>2, <2>7, <3>2 DEF RememberKnownCleanup
  <2> QED
    BY <1>4, <2>1, <2>2, <2>3, <2>4, <2>5, <2>6, <2>7 DEF Requests
<1>5. ASSUME NEW t \in Threads, NEW ok, Deliver(t, ok) PROVE Capacity'
  <2>1. ASSUME RememberSession(t, ok) PROVE Capacity'
    <3>1. Registered(mem') = Registered(mem) /\ Queued(mem') = Queued(mem)
      BY <1>1, <2>1 DEF RememberSession, Registered, Queued, Stores
    <3>2. WithinLimits(mem')
      BY <1>1, <3>1, FewerWithinLimits
    <3> QED
      BY <1>2, <2>1, <3>2 DEF RememberSession
  <2> QED
    BY <1>3, <1>5, <2>1
    DEF Deliver, GateTimeout, FirstCheck, SecondCheck, RelayAnswers
<1>6. ASSUME NEW t \in Threads, threads[t].pc # "idle", NEW ok,
             mem' = PauseInvalid(mem, threads[t].inst), Save(mem', ok)
      PROVE  Capacity'
  <2>1. threads[t].inst \in Installations
    BY <1>6, ThreadFields
  <2>2. WithinLimits(mem')
    BY <1>1, <1>6, <2>1, PauseInvalidParts, FewerWithinLimits
  <2> QED
    BY <1>2, <1>6, <2>2
<1>7. ASSUME NEW ok, NEW t \in Workers, FinishDirect(t, ok) PROVE Capacity'
  <2>1. t \in Threads /\ threads[t].pc # "idle"
    BY <1>7 DEF FinishDirect, At, Threads
  <2>2. CASE Enqueue(t, ok)
    <3>1. WithinLimits(mem')
      BY <1>1, <2>1, <2>2, EnqueueWithinLimits
    <3> QED
      BY <1>2, <2>2, <3>1 DEF Enqueue
  <2> QED
    BY <1>3, <1>6, <1>7, <2>1, <2>2 DEF FinishDirect
<1>8. ASSUME NEW k \in Targets, NEW ok, mem' = RemoveRow(mem, k), Save(mem', ok)
      PROVE  Capacity'
  <2>1. /\ Registered(mem') = Registered(mem)
        /\ Queued(mem') \subseteq Queued(mem)
    BY <1>1, <1>8, SetRowParts DEF RemoveRow
  <2>2. WithinLimits(mem')
    BY <1>1, <2>1, FewerWithinLimits
  <2> QED
    BY <1>2, <1>8, <2>2
<1>9. ASSUME NEW ok, FinishRetry(ok) PROVE Capacity'
  <2> DEFINE k == TargetOf(RetryLoop)
  <2>1. RetryLoop \in Threads /\ threads[RetryLoop].pc # "idle"
    BY <1>9 DEF FinishRetry, At, Threads
  <2>2. k \in Targets /\ k[1] = threads[RetryLoop].inst
    BY <2>1, ThreadFields DEF TargetOf
  <2>3. ASSUME k \in Queued(mem), NEW after \in AfterChoices(RetryLoop),
               mem' = SetRow(mem, k, Rescheduled(mem.outbox[k], after)),
               Save(mem', ok)
        PROVE  Capacity'
    <3>1. mem.outbox[k] \in Row /\ pass.elapsed \in 0..MaxRetryDelay
      BY <1>1, <2>2, <2>3 DEF TypeOK, Pass, Stores, Queued, NoRow
    <3>2. Rescheduled(mem.outbox[k], after) \in Row
      BY <2>3, <3>1, AfterType, RescheduledType
    <3> HIDE DEF k
    <3>3. Registered(mem') = Registered(mem) /\ Queued(mem') \subseteq Queued(mem)
      BY <1>1, <2>2, <2>3, <3>2, SetRowParts
    <3>4. WithinLimits(mem')
      BY <1>1, <3>3, FewerWithinLimits
    <3> QED
      BY <1>2, <2>3, <3>4
  <2>4. CASE mem' = RemoveRow(mem, k) /\ Save(mem', ok)
    BY <1>8, <2>2, <2>4
  <2>5. CASE mem' = PauseInvalid(mem, k[1]) /\ Save(mem', ok)
    BY <1>6, <2>1, <2>2, <2>5
  <2> HIDE DEF k
  <2> QED
    BY <1>3, <1>9, <2>3, <2>4, <2>5 DEF FinishRetry, k
<1>10. ASSUME NEW ok, RetryStep(ok) PROVE Capacity'
  <2>1. ASSUME NEW k \in Targets, DropItem(k, ok) PROVE Capacity'
    BY <1>8, <2>1 DEF DropItem
  <2>2. RetryLoop \in Threads
    BY DEF Threads
  <2> QED
    BY <1>3, <1>5, <1>9, <1>10, <2>1, <2>2 DEF RetryStep, StartPass, PostItem
<1>11. ASSUME NEW ok, DirectStep(ok) PROVE Capacity'
  BY <1>3, <1>5, <1>7, <1>11 DEF DirectStep, Begin, Threads
<1>12. CASE Tick
  <2>1. WithinLimits(mem') /\ WithinLimits(disk')
    BY <1>1, <1>12, AgedParts, FewerWithinLimits DEF Tick
  <2> QED
    BY <2>1 DEF Capacity
<1>13. ASSUME NEW ok, Restart(ok) PROVE Capacity'
  <2>1. WithinLimits(Loaded(disk)) /\ Loaded(disk) \in Stores
    BY <1>1, LoadedParts, LoadedType, FewerWithinLimits
  <2>2. WithinLimits(mem')
    <3>1. CASE MustMigrate(Loaded(disk))
      BY <1>13, <2>1, <3>1, MigratedWithinLimits DEF Restart
    <3>2. CASE ~MustMigrate(Loaded(disk))
      BY <1>13, <2>1, <3>2, PruneParts, FewerWithinLimits DEF Restart
    <3> QED
      BY <3>1, <3>2
  <2>3. CASE UNCHANGED disk
    BY <1>1, <2>2, <2>3 DEF Capacity, WithinLimits, Registered, Queued
  <2>4. CASE Save(mem', ok)
    BY <1>2, <2>2, <2>4
  <2> QED
    BY <1>13, <2>3, <2>4 DEF Restart
<1>14. CASE UNCHANGED vars
  BY <1>3, <1>14 DEF vars
<1>15. CASE ApplyToMonitors
  BY <1>3, <1>15, ApplyUnchanged
<1> QED
  BY <1>4, <1>10, <1>11, <1>12, <1>13, <1>14, <1>15 DEF Next, Works

(* Never more phones or rows than the limits, in memory or in the file,    *)
(* for any limits: not after evictions, replacements, retries or restarts. *)
THEOREM CapacityHolds == Spec => []Capacity
<1>1. Init => TypeOK /\ Capacity
  BY InitType, InitCapacity
<1>2. TypeOK /\ Capacity /\ [Next]_vars => (TypeOK /\ Capacity)'
  BY TypeStep, CapacityStep
<1> QED
  BY <1>1, <1>2, PTL DEF Spec

-----------------------------------------------------------------------------
(***************************************************************************)
(* Memory and file.  DiskAgrees is inductive only with Capacity: upsert's  *)
(* subscriber_limit leaves memory pruned and unsaved, which changes        *)
(* nothing only because a registry that is full after pruning lost nobody. *)
(***************************************************************************)

(* An empty registry has no pairing file, unless the last sync failed or a *)
(* request has written the file since.                                     *)
EmptyIsSynced == ~unsynced /\ Registered(mem) = {} => legacy = NoPhone

IInv == TypeOK /\ Capacity /\ DiskAgrees /\ EmptyIsSynced

LEMMA PruneNothing ==
  ASSUME NEW store \in Stores,
         Registered(PruneExpiredPaused(store)) = Registered(store)
  PROVE  PruneExpiredPaused(store) = store
<1> DEFINE gone == {i \in Paused(store) : store.subs[i].keep = 0}
<1>1. gone \subseteq Registered(store)
  BY DEF Paused, Registered
<1>2. Registered(PruneExpiredPaused(store)) = Registered(store) \ gone
  BY RemoveSubscribersParts DEF PruneExpiredPaused
<1>3. gone = {}
  BY <1>1, <1>2
<1> HIDE DEF gone
<1>4. RemoveSubscribers(store, {}) = store
  BY DEF RemoveSubscribers, RemoveOutboxFor, Stores
<1> QED
  BY <1>3, <1>4 DEF PruneExpiredPaused, gone

LEMMA RowExpired ==
  ASSUME NEW row \in Row, ~(row.ttl > 0)
  PROVE  row.queued /\ row.ttl = 0
<1>1. row.queued = TRUE
  BY DEF Row
<1>2. row.ttl \in Nat
  BY DEF Row
<1>3. row.ttl = 0
  BY <1>2
<1> QED
  BY <1>1, <1>3

(* Ageing a store and loading it is ageing and loading what load keeps.    *)
LEMMA LoadedAged ==
  ASSUME NEW store \in Stores
  PROVE  Loaded(Aged(store)) = Loaded(Aged(Loaded(store)))
<1> DEFINE kept == Loaded(store)
<1>1. kept \in Stores /\ Aged(store) \in Stores /\ Aged(kept) \in Stores
  BY LoadedType, AgedType
<1>2. Registered(Aged(store)) = Registered(store)
      /\ Registered(Aged(kept)) = Registered(store)
  BY <1>1, AgedParts, LoadedParts
<1>3. /\ kept.subs = store.subs /\ kept.auth = store.auth
      /\ Aged(kept).subs = Aged(store).subs
      /\ Aged(kept).auth = Aged(store).auth
  BY DEF Loaded, Aged
<1> DEFINE surviving(s, k) ==
      IF k[1] \in Registered(store) /\ s.outbox[k].queued /\ s.outbox[k].ttl > 0
      THEN s.outbox[k] ELSE NoRow
<1>4. ASSUME NEW k \in Targets
      PROVE  surviving(Aged(store), k) = surviving(Aged(kept), k)
  <2>1. /\ Aged(store).outbox[k] = AgedRow(store.outbox[k])
        /\ Aged(kept).outbox[k] = AgedRow(kept.outbox[k])
    BY DEF Aged
  <2>2. kept.outbox[k] = surviving(store, k)
    BY DEF Loaded
  <2>3. CASE k[1] \in Registered(store) /\ store.outbox[k].queued
             /\ store.outbox[k].ttl > 0
    BY <2>1, <2>2, <2>3
  <2>4. CASE k[1] \notin Registered(store)
    BY <2>4
  <2>5. CASE store.outbox[k] = NoRow
    BY <2>1, <2>2, <2>5 DEF NoRow, AgedRow
  <2>6. CASE store.outbox[k] \in Row /\ ~(store.outbox[k].ttl > 0)
    <3>1. kept.outbox[k] = NoRow
      BY <2>2, <2>6
    <3>2. store.outbox[k].queued /\ store.outbox[k].ttl = 0
      BY <2>6, RowExpired
    <3>3. [store.outbox[k] EXCEPT !.due = Decrement(@), !.ttl = Decrement(@)].ttl = 0
      BY <2>6, <3>2 DEF Row, Decrement
    <3>4. ~(Aged(store).outbox[k].ttl > 0)
      BY <2>1, <3>2, <3>3 DEF AgedRow
    <3>5. ~Aged(kept).outbox[k].queued
      BY <2>1, <3>1 DEF AgedRow, NoRow
    <3> QED
      BY <3>4, <3>5
  <2>7. store.outbox[k] \in Row \cup {NoRow}
    BY DEF Stores
  <2>8. store.outbox[k] \in Row => store.outbox[k].queued
    BY DEF Row
  <2> HIDE DEF kept, surviving
  <2> QED
    BY <2>3, <2>4, <2>5, <2>6, <2>7, <2>8
<1>5. /\ Loaded(Aged(store)).outbox = [k \in Targets |-> surviving(Aged(store), k)]
      /\ Loaded(Aged(kept)).outbox = [k \in Targets |-> surviving(Aged(kept), k)]
  BY <1>2 DEF Loaded
<1> HIDE DEF kept, surviving
<1>6. Loaded(Aged(store)).outbox = Loaded(Aged(kept)).outbox
  BY <1>4, <1>5
<1> QED
  BY <1>3, <1>6 DEF Loaded, kept

LEMMA LoadedTwice ==
  ASSUME NEW store \in Stores
  PROVE  Loaded(Loaded(store)) = Loaded(store)
<1> DEFINE kept == Loaded(store)
<1>1. Registered(kept) = Registered(store)
  BY LoadedParts
<1>2. kept.outbox = [k \in Targets |->
         IF k[1] \in Registered(store) /\ store.outbox[k].queued
            /\ store.outbox[k].ttl > 0
         THEN store.outbox[k] ELSE NoRow]
  BY DEF Loaded
<1>3. \A k \in Targets :
        (IF k[1] \in Registered(kept) /\ kept.outbox[k].queued
            /\ kept.outbox[k].ttl > 0
         THEN kept.outbox[k] ELSE NoRow) = kept.outbox[k]
  BY <1>1, <1>2 DEF NoRow
<1>4. Loaded(kept).outbox = kept.outbox
  <2>1. Loaded(kept).outbox = [k \in Targets |->
         IF k[1] \in Registered(kept) /\ kept.outbox[k].queued
            /\ kept.outbox[k].ttl > 0
         THEN kept.outbox[k] ELSE NoRow]
    BY DEF Loaded
  <2>2. kept.outbox = [k \in Targets |-> kept.outbox[k]]
    BY <1>2
  <2> HIDE DEF kept
  <2> QED
    BY <1>3, <2>1, <2>2
<1> QED
  BY <1>4 DEF Loaded

(* A full registry that lost nobody to the retention is as it was.         *)
LEMMA RejectedUnchanged ==
  ASSUME TypeOK, Capacity, NEW i \in Installations, PairRejected(i)
  PROVE  mem' = mem
<1> DEFINE pruned == PruneExpiredPaused(mem)
<1>1. mem \in Stores
  BY DEF TypeOK
<1>2. Registered(pruned) \subseteq Registered(mem)
  BY <1>1, PruneParts
<1>3. Cardinality(Registered(pruned)) >= MaxSubscribers
  BY DEF PairRejected, NeedsRoom
<1>4. Cardinality(Registered(mem)) <= MaxSubscribers
  BY DEF Capacity, WithinLimits
<1>5. Cardinality(Registered(pruned)) <= Cardinality(Registered(mem))
  BY <1>2, PartsFinite, FS_Subset
<1>6. Cardinality(Registered(pruned)) = Cardinality(Registered(mem))
  BY <1>3, <1>4, <1>5, PartsFinite, Constants
<1>7. Registered(pruned) = Registered(mem)
  BY <1>2, <1>6, PartsFinite, FS_Subset
<1>8. pruned = mem
  BY <1>1, <1>7, PruneNothing
<1> QED
  BY <1>8 DEF PairRejected

LEMMA DiskStep == IInv /\ [Next]_vars => DiskAgrees'
<1> SUFFICES ASSUME IInv, [Next]_vars PROVE DiskAgrees'
  OBVIOUS
<1>1. TypeOK /\ Capacity /\ DiskAgrees /\ mem \in Stores /\ disk \in Stores
  BY DEF IInv, TypeOK
<1>2. ASSUME NEW ok \in SaveOutcomes, Save(mem', ok) PROVE DiskAgrees'
  <2>1. ok \in BOOLEAN
    BY <1>1, OutcomesType
  <2>2. CASE ok
    BY <1>2, <2>2 DEF Save, DiskAgrees
  <2>3. CASE ~ok
    BY <1>2, <2>3 DEF Save, DiskAgrees
  <2> QED
    BY <2>1, <2>2, <2>3
<1>3. ASSUME UNCHANGED <<mem, disk, dirty>> PROVE DiskAgrees'
  BY <1>1, <1>3 DEF DiskAgrees
<1>4. CASE Requests
  <2>1. ASSUME NEW i \in Installations, PairRejected(i) PROVE DiskAgrees'
    BY <1>1, <1>3, <2>1, RejectedUnchanged DEF PairRejected
  <2> QED
    BY <1>2, <1>4, <2>1 DEF Requests, Pair, Pause, Unsubscribe, UnsubscribeAll,
                            SetLockSecure, RememberKnownCleanup, SaveThenSync
<1>5. ASSUME NEW t \in Threads, NEW ok \in SaveOutcomes, Deliver(t, ok)
      PROVE  DiskAgrees'
  BY <1>2, <1>3, <1>5 DEF Deliver, GateTimeout, FirstCheck, RememberSession,
                          SecondCheck, RelayAnswers
<1>6. ASSUME NEW ok \in SaveOutcomes, NEW t \in Workers, FinishDirect(t, ok)
      PROVE  DiskAgrees'
  BY <1>2, <1>3, <1>6 DEF FinishDirect, Enqueue
<1>7. ASSUME NEW ok \in SaveOutcomes, FinishRetry(ok) PROVE DiskAgrees'
  BY <1>2, <1>3, <1>7 DEF FinishRetry
<1>8. ASSUME NEW ok \in SaveOutcomes, RetryStep(ok) PROVE DiskAgrees'
  <2>1. RetryLoop \in Threads
    BY DEF Threads
  <2> QED
    BY <1>2, <1>3, <1>5, <1>7, <1>8, <2>1
    DEF RetryStep, StartPass, DropItem, PostItem
<1>9. ASSUME NEW ok \in SaveOutcomes, DirectStep(ok) PROVE DiskAgrees'
  BY <1>3, <1>5, <1>6, <1>9 DEF DirectStep, Begin, Threads
<1>10. CASE Tick
  <2>1. Loaded(Aged(mem)) = Loaded(Aged(Loaded(mem)))
        /\ Loaded(Aged(disk)) = Loaded(Aged(Loaded(disk)))
    BY <1>1, LoadedAged
  <2>2. mem' = Aged(mem) /\ disk' = Aged(disk) /\ dirty' = dirty
    BY <1>10 DEF Tick
  <2> QED
    BY <1>1, <2>1, <2>2 DEF DiskAgrees
<1>11. ASSUME NEW ok \in SaveOutcomes, Restart(ok) PROVE DiskAgrees'
  <2> DEFINE loaded == Loaded(disk)
             pruned == PruneExpiredPaused(loaded)
  <2>1. loaded \in Stores /\ Loaded(loaded) = loaded
    BY <1>1, LoadedType, LoadedTwice
  <2>2. CASE Save(mem', ok)
    BY <1>2, <2>2
  <2>3. mem' = pruned \/ Save(mem', ok)
    BY <1>11 DEF Restart
  <2>4. CASE Registered(pruned) = Registered(loaded) /\ ~Save(mem', ok)
    <3>1. pruned = loaded
      BY <2>1, <2>4, PruneNothing
    <3>2. disk' = disk
      BY <1>11, <2>4 DEF Restart
    <3> HIDE DEF pruned
    <3> QED
      BY <2>1, <2>3, <2>4, <3>1, <3>2 DEF DiskAgrees
  <2>5. CASE Registered(pruned) # Registered(loaded) /\ ~Save(mem', ok)
    BY <1>11, <2>5 DEF Restart
  <2> QED
    BY <2>2, <2>4, <2>5
<1>12. CASE UNCHANGED vars
  BY <1>3, <1>12 DEF vars
<1>13. CASE ApplyToMonitors
  BY <1>3, <1>13, ApplyUnchanged
<1> QED
  BY <1>4, <1>8, <1>9, <1>10, <1>11, <1>12, <1>13 DEF Next, Works

(* The pairing file of an empty registry.  A step that changes nothing in  *)
(* that file leaves a registry with a phone in it; a step that may empty   *)
(* the registry writes the file, or is known not to have written it.       *)
LEMMA SyncedStep == IInv /\ [Next]_vars => EmptyIsSynced'
<1> SUFFICES ASSUME IInv, [Next]_vars PROVE EmptyIsSynced'
  OBVIOUS
<1>1. /\ TypeOK /\ Capacity /\ EmptyIsSynced /\ mem \in Stores /\ disk \in Stores
      /\ RetryLoop \in Threads
  BY DEF IInv, TypeOK, Threads
<1>2. ASSUME Sync(mem') PROVE EmptyIsSynced'
  <2>1. Registered(mem') = {} => Active(mem') = {}
    BY DEF Registered, Active
  <2>2. CASE unsynced' = FALSE
    BY <1>2, <2>1, <2>2 DEF Sync, EmptyIsSynced
  <2>3. CASE unsynced' = TRUE
    BY <2>3 DEF EmptyIsSynced
  <2> QED
    BY <1>2, <2>2, <2>3 DEF Sync
<1>3. ASSUME NEW ok, SaveThenSync(mem', ok) PROVE EmptyIsSynced'
  <2>1. CASE ok
    BY <1>2, <1>3, <2>1 DEF SaveThenSync
  <2>2. CASE ~ok
    BY <1>3, <2>2 DEF SaveThenSync, EmptyIsSynced
  <2> QED
    BY <2>1, <2>2
<1>4. ASSUME UNCHANGED pairing, Registered(mem) \subseteq Registered(mem')
      PROVE  EmptyIsSynced'
  BY <1>1, <1>4 DEF EmptyIsSynced, pairing
<1>5. ASSUME UNCHANGED <<mem, pairing>> PROVE EmptyIsSynced'
  BY <1>1, <1>5 DEF EmptyIsSynced, pairing
<1>6. ASSUME NEW k \in Targets, NEW row \in Row \cup {NoRow},
             mem' = SetRow(mem, k, row), UNCHANGED pairing
      PROVE  EmptyIsSynced'
  BY <1>1, <1>4, <1>6, SetRowParts
<1>7. CASE Requests
  <2>1. ASSUME NEW i \in Installations, PairRejected(i) PROVE EmptyIsSynced'
    BY <1>1, <1>5, <2>1, RejectedUnchanged DEF PairRejected
  <2>2. ASSUME NEW i \in Installations, NEW enabled, NEW ok,
               SetLockSecure(i, enabled, ok)
        PROVE  EmptyIsSynced'
    <3>1. mem.subs[i] \in Subscriber
      BY <1>1 DEF Stores
    <3>2. PICK wants : mem' = SetSubscriber(mem, i,
                         [mem.subs[i] EXCEPT !.wants = wants, !.keep = PausedRetention])
      BY <2>2 DEF SetLockSecure
    <3>3. [mem.subs[i] EXCEPT !.wants = wants, !.keep = PausedRetention].status
            = mem.subs[i].status
      BY <3>1 DEF Subscriber
    <3>4. Registered(mem) \subseteq Registered(mem')
      BY <1>1, <3>2, <3>3 DEF SetSubscriber, Registered, Stores
    <3> QED
      BY <1>4, <2>2, <3>4 DEF SetLockSecure, pairing
  <2>3. ASSUME NEW session, NEW ok, RememberKnownCleanup(session, ok)
        PROVE  EmptyIsSynced'
    <3>1. Registered(mem') = Registered(mem)
      BY <1>1, <2>3 DEF RememberKnownCleanup, Registered, Stores
    <3> QED
      BY <1>4, <2>3, <3>1 DEF RememberKnownCleanup, pairing
  <2> QED
    BY <1>3, <1>7, <2>1, <2>2, <2>3
    DEF Requests, Pair, Pause, Unsubscribe, UnsubscribeAll
<1>8. ASSUME NEW t \in Threads, NEW ok, Deliver(t, ok) PROVE EmptyIsSynced'
  <2>1. ASSUME RememberSession(t, ok) PROVE EmptyIsSynced'
    <3>1. Registered(mem') = Registered(mem)
      BY <1>1, <2>1 DEF RememberSession, Registered, Stores
    <3> QED
      BY <1>4, <2>1, <3>1 DEF RememberSession, pairing
  <2> QED
    BY <1>5, <1>8, <2>1
    DEF Deliver, GateTimeout, FirstCheck, SecondCheck, RelayAnswers
<1>9. ASSUME NEW ok \in SaveOutcomes, NEW t \in Workers, FinishDirect(t, ok)
      PROVE  EmptyIsSynced'
  <2>1. CASE Enqueue(t, ok)
    <3>1. t \in Threads /\ threads[t].pc # "idle"
      BY <1>9 DEF FinishDirect, At, Threads
    <3>2. /\ TargetOf(t) \in Targets /\ threads[t].event \in Events
          /\ threads[t].source \in Sources
          /\ mem.outbox[TargetOf(t)] \in Row \cup {NoRow}
      BY <1>1, <3>1, ThreadFields DEF Stores
    <3>3. PICK after \in AfterChoices(t) :
            mem' = SetRow(mem, TargetOf(t),
              Enqueued(mem.outbox[TargetOf(t)], threads[t].source,
                       threads[t].event, Larger(RetryDelay, after)))
      BY <2>1 DEF Enqueue
    <3>4. Larger(RetryDelay, after) \in 0..MaxRetryDelay
      BY Constants, AfterType DEF Larger
    <3> QED
      BY <1>6, <2>1, <3>2, <3>3, <3>4, EnqueuedType DEF Enqueue
  <2> QED
    BY <1>2, <1>5, <1>9, <2>1 DEF FinishDirect
<1>10. ASSUME NEW ok \in SaveOutcomes, FinishRetry(ok) PROVE EmptyIsSynced'
  <2> DEFINE k == TargetOf(RetryLoop)
  <2>1. k \in Targets /\ mem.outbox[k] \in Row \cup {NoRow}
    BY <1>1, <1>10, ThreadFields DEF FinishRetry, At, Stores
  <2>2. ASSUME k \in Queued(mem), NEW after \in AfterChoices(RetryLoop)
        PROVE  Rescheduled(mem.outbox[k], after) \in Row
    <3>1. mem.outbox[k] \in Row /\ pass.elapsed \in 0..MaxRetryDelay
      BY <1>1, <2>1, <2>2 DEF TypeOK, Pass, Queued, NoRow
    <3> QED
      BY <2>2, <3>1, AfterType, RescheduledType
  <2>3. CASE mem' = RemoveRow(mem, k) /\ UNCHANGED pairing
    BY <1>6, <2>1, <2>3 DEF RemoveRow
  <2>4. ASSUME k \in Queued(mem), NEW after \in AfterChoices(RetryLoop),
               mem' = SetRow(mem, k, Rescheduled(mem.outbox[k], after)),
               UNCHANGED pairing
        PROVE  EmptyIsSynced'
    BY <1>6, <2>1, <2>2, <2>4
  <2> HIDE DEF k
  <2> QED
    BY <1>2, <1>5, <1>10, <2>3, <2>4 DEF FinishRetry, k
<1>11. ASSUME NEW k \in Targets, NEW ok, DropItem(k, ok) PROVE EmptyIsSynced'
  BY <1>6, <1>11 DEF DropItem, RemoveRow, pairing
<1>12. ASSUME NEW ok \in SaveOutcomes, Restart(ok) PROVE EmptyIsSynced'
  <2> DEFINE loaded == Loaded(disk)
             pruned == PruneExpiredPaused(loaded)
  <2>1. loaded \in Stores
    BY <1>1, LoadedType
  <2>2. CASE MustMigrate(loaded)
    <3>1. legacy # NoPhone /\ UNCHANGED pairing
      BY <1>12, <2>2 DEF Restart, MustMigrate
    <3>2. PICK wants \in MigratedPrefs :
            mem' = SetSubscriber(loaded, legacy, Paired(NoSource, wants))
      BY <1>12, <2>2 DEF Restart
    <3>3. legacy \in Registered(mem')
      BY <1>1, <2>1, <3>1, <3>2, MigratedType, SetSubscriberParts
    <3> QED
      BY <3>3 DEF EmptyIsSynced
  <2>3. CASE ~MustMigrate(loaded) /\ Registered(pruned) = Registered(loaded)
    <3>1. mem' = pruned /\ UNCHANGED pairing
      BY <1>12, <2>3 DEF Restart
    <3> HIDE DEF pruned
    <3> QED
      BY <2>3, <3>1 DEF MustMigrate, EmptyIsSynced, pairing
  <2>4. CASE ~MustMigrate(loaded) /\ Registered(pruned) # Registered(loaded)
    BY <1>2, <1>12, <2>4 DEF Restart
  <2> QED
    BY <2>2, <2>3, <2>4
<1>13. CASE Tick
  BY <1>1, <1>4, <1>13, AgedParts DEF Tick, pairing
<1>14. CASE UNCHANGED vars
  BY <1>5, <1>14 DEF vars, pairing
<1>15. ASSUME NEW ok \in SaveOutcomes, RetryStep(ok) PROVE EmptyIsSynced'
  BY <1>1, <1>5, <1>8, <1>10, <1>11, <1>15 DEF RetryStep, StartPass, PostItem
<1>16. ASSUME NEW ok \in SaveOutcomes, DirectStep(ok) PROVE EmptyIsSynced'
  BY <1>5, <1>8, <1>9, <1>16 DEF DirectStep, Begin, Threads
<1>17. CASE ApplyToMonitors
  <2>1. ASSUME NEW phone \in applying, ApplyEnds(phone) PROVE EmptyIsSynced'
    <3>1. CASE unsynced'
      BY <3>1 DEF EmptyIsSynced
    <3>2. CASE ~unsynced'
      BY <1>1, <2>1, <3>2 DEF ApplyEnds, EmptyIsSynced, TypeOK
    <3> QED
      BY <3>1, <3>2
  <2> QED
    BY <1>5, <1>17, <2>1 DEF ApplyToMonitors, ApplyBegins
<1> QED
  BY <1>7, <1>12, <1>13, <1>14, <1>15, <1>16, <1>17 DEF Next, Works

LEMMA IInvHolds == Spec => []IInv
<1>1. Init => IInv
  <2>1. Init => DiskAgrees /\ EmptyIsSynced
    BY DEF Init, DiskAgrees, EmptyIsSynced
  <2> QED
    BY <2>1, InitType, InitCapacity DEF IInv
<1>2. IInv /\ [Next]_vars => IInv'
  BY TypeStep, CapacityStep, DiskStep, SyncedStep DEF IInv
<1> QED
  BY <1>1, <1>2, PTL DEF Spec

(* Whenever the last save succeeded, the state file would bring back what  *)
(* the process works with.                                                 *)
THEOREM DiskAlwaysAgrees == Spec => []DiskAgrees
BY IInvHolds, PTL DEF IInv

LEMMA KeptStep == IInv /\ [Next]_vars => [KeptByRestart]_vars
<1> SUFFICES ASSUME IInv, ~dirty, ~unsynced, NEW ok \in SaveOutcomes, Restart(ok)
             PROVE  \A i \in Active(mem) \cup Active(mem') : mem'.subs[i] = mem.subs[i]
  BY DEF KeptByRestart
<1> DEFINE loaded == Loaded(disk)
           gone == {i \in Paused(loaded) : loaded.subs[i].keep = 0}
<1>1. mem \in Stores /\ disk \in Stores /\ loaded \in Stores
  BY LoadedType DEF IInv, TypeOK
<1>2. loaded.subs = mem.subs
  <2>1. loaded = Loaded(mem)
    BY DEF IInv, DiskAgrees
  <2>2. Loaded(mem).subs = mem.subs
    BY DEF Loaded
  <2> QED
    BY <2>1, <2>2
<1> HIDE DEF loaded
<1>3. mem' = RemoveSubscribers(loaded, gone)
  <2>1. Registered(loaded) = Registered(mem)
    BY <1>2 DEF Registered
  <2>2. ~MustMigrate(loaded)
    BY <2>1 DEF MustMigrate, IInv, EmptyIsSynced
  <2> QED
    BY <2>2 DEF Restart, PruneExpiredPaused, loaded
<1>4. \A i \in Installations :
        mem'.subs[i] = IF i \in gone THEN Absent ELSE loaded.subs[i]
  BY <1>1, <1>3, RemoveSubscribersParts
<1>5. SUFFICES ASSUME NEW i \in Active(mem) \cup Active(mem')
               PROVE  mem'.subs[i] = mem.subs[i]
  OBVIOUS
<1>6. i \in Installations
  BY DEF Active
<1>7. i \notin gone
  <2>1. CASE i \in Active(mem)
    BY <1>2, <2>1 DEF Active, Paused
  <2>2. CASE i \in Active(mem')
    BY <1>4, <2>2 DEF Active, Absent
  <2> QED
    BY <2>1, <2>2
<1> QED
  BY <1>2, <1>4, <1>6, <1>7

(* No restart revives or silences an iPhone when the last save succeeded   *)
(* and the pairing file is as the last decision left it.                   *)
THEOREM RestartKeeps == Spec => RestartKeepsDecisions
BY IInvHolds, KeptStep, PTL DEF Spec, RestartKeepsDecisions

-----------------------------------------------------------------------------
(***************************************************************************)
(* Who silences an iPhone, and why a queued push leaves.  Both follow from *)
(* what each helper does to the active phones and to the rows: a helper    *)
(* that removes rows removes those of phones which were not active before  *)
(* or are not active afterwards.  Only a row that leaves because the relay *)
(* accepted its event takes an invariant, AnsweredOk.                      *)
(***************************************************************************)

LEMMA ActiveKnown ==
  ASSUME NEW store
  PROVE  Active(store) \subseteq Installations
         /\ Active(store) \cap Paused(store) = {}
BY DEF Active, Paused

LEMMA RemoveOutboxForActive ==
  ASSUME NEW store \in Stores, NEW gone
  PROVE  /\ Active(RemoveOutboxFor(store, gone)) = Active(store)
         /\ Queued(RemoveOutboxFor(store, gone))
              = {k \in Queued(store) : k[1] \notin gone}
<1> DEFINE kept == RemoveOutboxFor(store, gone)
<1>1. kept.subs = store.subs
  BY DEF RemoveOutboxFor
<1>2. \A k \in Targets :
        kept.outbox[k] = IF k[1] \in gone THEN NoRow ELSE store.outbox[k]
  BY DEF RemoveOutboxFor
<1> HIDE DEF kept
<1>3. Active(kept) = Active(store)
  BY <1>1 DEF Active
<1>4. Queued(kept) = {k \in Queued(store) : k[1] \notin gone}
  BY <1>2 DEF Queued, NoRow
<1> QED
  BY <1>3, <1>4 DEF kept

LEMMA RemoveSubscribersActive ==
  ASSUME NEW store \in Stores, NEW gone
  PROVE  Active(RemoveSubscribers(store, gone)) = Active(store) \ gone
<1> DEFINE kept == RemoveSubscribers(store, gone)
<1>1. \A i \in Installations :
        kept.subs[i] = IF i \in gone THEN Absent ELSE store.subs[i]
  BY RemoveSubscribersParts
<1> HIDE DEF kept
<1>2. Active(kept) = Active(store) \ gone
  BY <1>1 DEF Active, Absent
<1> QED
  BY <1>2 DEF kept

LEMMA SetSubscriberActive ==
  ASSUME NEW store \in Stores, NEW i \in Installations, NEW sub
  PROVE  Active(SetSubscriber(store, i, sub))
           = IF sub.status = "active" THEN Active(store) \cup {i}
                                      ELSE Active(store) \ {i}
<1> DEFINE new == SetSubscriber(store, i, sub)
<1>1. store.subs \in [Installations -> Subscriber]
  BY DEF Stores
<1>2. new.subs = [store.subs EXCEPT ![i] = sub]
  BY DEF SetSubscriber, Stores
<1>3. \A j \in Installations : new.subs[j] = IF j = i THEN sub ELSE store.subs[j]
  BY <1>1, <1>2
<1> HIDE DEF new
<1>4. Active(new) = IF sub.status = "active" THEN Active(store) \cup {i}
                                             ELSE Active(store) \ {i}
  BY <1>3 DEF Active
<1> QED
  BY <1>4 DEF new

LEMMA SetRowActive ==
  ASSUME NEW store \in Stores, NEW k, NEW row
  PROVE  Active(SetRow(store, k, row)) = Active(store)
<1>1. SetRow(store, k, row).subs = store.subs
  BY DEF SetRow, Stores
<1> QED
  BY <1>1 DEF Active

LEMMA AgedActive ==
  ASSUME NEW store \in Stores
  PROVE  Active(Aged(store)) = Active(store)
<1>1. ASSUME NEW sub \in Subscriber
      PROVE  AgedSubscriber(sub).status = sub.status
  BY DEF AgedSubscriber, Subscriber
<1>2. \A i \in Installations : Aged(store).subs[i].status = store.subs[i].status
  BY <1>1 DEF Aged, Stores
<1> QED
  BY <1>2 DEF Active

LEMMA PruneActive ==
  ASSUME NEW store \in Stores
  PROVE  /\ Active(PruneExpiredPaused(store)) = Active(store)
         /\ Paused(PruneExpiredPaused(store)) \subseteq Paused(store)
         /\ \A k \in Queued(store) :
              k[1] \in Active(store) => k \in Queued(PruneExpiredPaused(store))
<1> DEFINE gone == {i \in Paused(store) : store.subs[i].keep = 0}
           kept == RemoveSubscribers(store, gone)
<1>1. gone \cap Active(store) = {}
  BY ActiveKnown
<1>2. /\ Queued(kept) = {k \in Queued(store) : k[1] \notin gone}
      /\ \A i \in Installations :
           kept.subs[i] = IF i \in gone THEN Absent ELSE store.subs[i]
      /\ Active(kept) = Active(store) \ gone
  BY RemoveSubscribersParts, RemoveSubscribersActive
<1> HIDE DEF kept, gone
<1>3. Paused(kept) \subseteq Paused(store)
  BY <1>2 DEF Paused, Absent
<1>4. PruneExpiredPaused(store) = kept
  BY DEF PruneExpiredPaused, kept, gone
<1> QED
  BY <1>1, <1>2, <1>3, <1>4

LEMMA SetStatusPausedActive ==
  ASSUME NEW store \in Stores, NEW i \in Registered(store)
  PROVE  Active(SetStatusPaused(store, i)) = Active(store) \ {i}
<1> DEFINE sub == [store.subs[i] EXCEPT !.status = "paused", !.keep = PausedRetention]
<1>1. i \in Installations /\ store.subs[i] \in Subscriber
  BY DEF Registered, Stores
<1>2. sub.status = "paused"
  BY <1>1 DEF Subscriber
<1> HIDE DEF sub
<1>3. SetStatusPaused(store, i) = SetSubscriber(store, i, sub)
  BY DEF SetStatusPaused, sub
<1> QED
  BY <1>1, <1>2, <1>3, SetSubscriberActive

(* pause and pauseInvalidSubscriber: phone i and its rows, nobody else's.  *)
LEMMA PauseInvalidActive ==
  ASSUME NEW store \in Stores, NEW i \in Installations
  PROVE  /\ Active(PauseInvalid(store, i)) = Active(store) \ {i}
         /\ Queued(PauseInvalid(store, i)) = {k \in Queued(store) : k[1] # i}
<1> DEFINE new == IF i \in Registered(store) THEN SetStatusPaused(store, i) ELSE store
<1>1. new \in Stores /\ Queued(new) = Queued(store)
  BY SetStatusPausedType, SetStatusPausedParts
<1>2. i \notin Registered(store) => i \notin Active(store)
  BY DEF Registered, Active
<1>3. Active(new) = Active(store) \ {i}
  BY <1>2, SetStatusPausedActive
<1> HIDE DEF new
<1>4. PauseInvalid(store, i) = RemoveOutboxFor(new, {i})
  BY DEF PauseInvalid, new
<1> QED
  BY <1>1, <1>3, <1>4, RemoveOutboxForActive

LEMMA PairIntoActive ==
  ASSUME NEW store \in Stores, NEW i \in Installations,
         NEW source \in Sources, NEW wants \in SUBSET Features,
         NEW mode \in {"join", "replace"}
  PROVE  /\ mode # "replace" =>
              /\ Active(PairInto(store, i, source, wants, mode))
                   = Active(store) \cup {i}
              /\ Queued(PairInto(store, i, source, wants, mode)) = Queued(store)
         /\ mode = "replace" =>
              /\ Active(PairInto(store, i, source, wants, mode)) = {i}
              /\ Queued(PairInto(store, i, source, wants, mode))
                   = {k \in Queued(store) : k[1] = i}
<1> DEFINE others == IF mode = "replace" THEN Installations \ {i} ELSE {}
           kept == RemoveSubscribers(store, others)
           sub == Paired(source, wants)
<1>1. kept \in Stores
  BY RemoveSubscribersType
<1>2. Queued(kept) = {k \in Queued(store) : k[1] \notin others}
      /\ Active(kept) = Active(store) \ others
  BY RemoveSubscribersParts, RemoveSubscribersActive
<1>3. sub \in Subscriber /\ sub.status = "active"
  BY Constants DEF Paired, Subscriber
<1>4. PairInto(store, i, source, wants, mode) = SetSubscriber(kept, i, sub)
  BY DEF PairInto
<1> HIDE DEF kept, sub
<1>5. /\ Queued(SetSubscriber(kept, i, sub)) = Queued(kept)
      /\ Active(SetSubscriber(kept, i, sub)) = Active(kept) \cup {i}
  BY <1>1, <1>3, SetSubscriberParts, SetSubscriberActive
<1>6. \A k \in Queued(store) : k[1] \in Installations
  BY DEF Queued, Targets
<1> QED
  BY <1>2, <1>4, <1>5, <1>6, ActiveKnown

(* upsert: nobody but a replacing phone stops another, and the rows of the *)
(* phones that stay active stay.                                           *)
LEMMA PairKeeps ==
  ASSUME TypeOK, NEW ok, NEW i \in Installations,
         NEW source \in Sources, NEW wants \in PairedPrefs,
         NEW mode \in {"join", "replace"}, Pair(i, source, wants, mode, ok)
  PROVE  /\ mode # "replace" => Active(mem) \subseteq Active(mem')
         /\ mode = "replace" => Active(mem') = {i}
         /\ \A k \in Queued(mem) :
              k[1] \in Active(mem) \cap Active(mem') => k \in Queued(mem')
<1> DEFINE pruned == PruneExpiredPaused(mem)
<1>1. mem \in Stores /\ pruned \in Stores
  BY PruneType DEF TypeOK
<1>2. wants \in SUBSET Features
  BY FiniteSystem
<1>3. /\ Active(pruned) = Active(mem)
      /\ \A k \in Queued(mem) : k[1] \in Active(mem) => k \in Queued(pruned)
  BY <1>1, PruneActive
<1>4. ASSUME NEW store \in Stores, Active(store) = Active(mem),
             \A k \in Queued(mem) : k[1] \in Active(mem) => k \in Queued(store),
             mem' = PairInto(store, i, source, wants, mode)
      PROVE  /\ mode # "replace" => Active(mem) \subseteq Active(mem')
             /\ mode = "replace" => Active(mem') = {i}
             /\ \A k \in Queued(mem) :
                  k[1] \in Active(mem) \cap Active(mem') => k \in Queued(mem')
  <2>1. CASE mode # "replace"
    BY <1>2, <1>4, <2>1, PairIntoActive
  <2>2. CASE mode = "replace"
    BY <1>2, <1>4, <2>2, PairIntoActive
  <2> QED
    BY <2>1, <2>2
<1>5. CASE mem' = PairInto(pruned, i, source, wants, mode)
  BY <1>1, <1>3, <1>4, <1>5
<1>6. ASSUME NEW victim \in OldestPaused(pruned),
             mem' = PairInto(RemoveSubscribers(pruned, {victim}),
                             i, source, wants, mode)
      PROVE  /\ mode # "replace" => Active(mem) \subseteq Active(mem')
             /\ mode = "replace" => Active(mem') = {i}
             /\ \A k \in Queued(mem) :
                  k[1] \in Active(mem) \cap Active(mem') => k \in Queued(mem')
  <2> DEFINE store == RemoveSubscribers(pruned, {victim})
  <2>1. victim \notin Active(pruned)
    BY <1>6, ActiveKnown DEF OldestPaused
  <2>2. /\ store \in Stores /\ Active(store) = Active(pruned) \ {victim}
        /\ Queued(store) = {k \in Queued(pruned) : k[1] # victim}
    BY <1>1, RemoveSubscribersType, RemoveSubscribersParts, RemoveSubscribersActive
  <2>3. mem' = PairInto(store, i, source, wants, mode)
    BY <1>6
  <2> HIDE DEF store, pruned
  <2>4. Active(store) = Active(mem)
        /\ \A k \in Queued(mem) : k[1] \in Active(mem) => k \in Queued(store)
    BY <1>3, <2>1, <2>2
  <2> QED
    BY <1>4, <2>2, <2>3, <2>4
<1> QED
  BY <1>5, <1>6 DEF Pair

(* The rows of the phones that are active before and after a step stay.    *)
RowsStay ==
  \A k \in Queued(mem) :
    k[1] \in Active(mem) \cap Active(mem') => k \in Queued(mem')
PhonesStay == \A i \in Active(mem) : i \in Active(mem') \/ StopsBy(i)

LEMMA SameStays ==
  ASSUME mem'.subs = mem.subs, mem'.outbox = mem.outbox
  PROVE  PhonesStay /\ RowsStay
BY DEF PhonesStay, RowsStay, Active, Queued

LEMMA AuthStays ==
  ASSUME mem \in Stores, NEW auth, mem' = [mem EXCEPT !.auth = auth]
  PROVE  PhonesStay /\ RowsStay
<1>1. mem'.subs = mem.subs /\ mem'.outbox = mem.outbox
  BY DEF Stores
<1> QED
  BY <1>1, SameStays

LEMMA PairStays ==
  ASSUME TypeOK, NEW ok \in SaveOutcomes, NEW i \in Installations,
         NEW source \in Sources, NEW wants \in PairedPrefs,
         NEW mode \in {"join", "replace"}, Pair(i, source, wants, mode, ok)
  PROVE  PhonesStay /\ RowsStay
<1>1. /\ mode # "replace" => Active(mem) \subseteq Active(mem')
      /\ mode = "replace" => Active(mem') = {i}
      /\ RowsStay
  BY PairKeeps DEF RowsStay
<1>2. CASE mode # "replace"
  BY <1>1, <1>2 DEF PhonesStay
<1>3. CASE mode = "replace"
  <2>1. Active(mem') = {i}
    BY <1>1, <1>3
  <2>2. SUFFICES ASSUME NEW other \in Active(mem), other # i
                 PROVE  StopsBy(other)
    BY <1>1, <2>1 DEF PhonesStay
  <2>3. i \in Installations \ {other} /\ Pair(i, source, wants, "replace", ok)
    BY <1>3, <2>2
  <2> QED
    BY <2>3 DEF StopsBy
<1> QED
  BY <1>1, <1>2, <1>3

LEMMA RequestsStay ==
  ASSUME TypeOK, Requests
  PROVE  PhonesStay /\ RowsStay
<1>1. mem \in Stores
  BY DEF TypeOK
<1>2. ASSUME NEW i \in Installations, PairRejected(i)
      PROVE  PhonesStay /\ RowsStay
  <2>1. mem' = PruneExpiredPaused(mem)
    BY <1>2 DEF PairRejected
  <2> QED
    BY <1>1, <2>1, PruneActive DEF PhonesStay, RowsStay
<1>3. ASSUME NEW ok \in SaveOutcomes, NEW i \in Installations, Pause(i, ok)
      PROVE  PhonesStay /\ RowsStay
  <2>1. mem' = PauseInvalid(mem, i)
    BY <1>3 DEF Pause, PauseInvalid
  <2>2. /\ Active(mem') = Active(mem) \ {i}
        /\ Queued(mem') = {k \in Queued(mem) : k[1] # i}
    BY <1>1, <2>1, PauseInvalidActive
  <2>3. StopsBy(i)
    BY <1>3 DEF StopsBy
  <2> QED
    BY <2>2, <2>3 DEF PhonesStay, RowsStay
<1>4. ASSUME NEW ok \in SaveOutcomes, NEW i \in Installations, Unsubscribe(i, ok)
      PROVE  PhonesStay /\ RowsStay
  <2>1. /\ Active(mem') = Active(mem) \ {i}
        /\ Queued(mem') = {k \in Queued(mem) : k[1] \notin {i}}
    BY <1>1, <1>4, RemoveSubscribersParts, RemoveSubscribersActive DEF Unsubscribe
  <2>2. StopsBy(i)
    BY <1>4 DEF StopsBy
  <2> QED
    BY <2>1, <2>2 DEF PhonesStay, RowsStay
<1>5. ASSUME NEW ok \in SaveOutcomes, UnsubscribeAll(ok)
      PROVE  PhonesStay /\ RowsStay
  <2>1. Active(mem') = {}
    BY <1>5 DEF UnsubscribeAll, EmptyStore, Absent, Active
  <2>2. \A i : StopsBy(i)
    BY <1>5 DEF StopsBy
  <2> QED
    BY <2>1, <2>2 DEF PhonesStay, RowsStay
<1>6. ASSUME NEW ok \in SaveOutcomes, NEW i \in Installations,
             NEW enabled \in BOOLEAN, SetLockSecure(i, enabled, ok)
      PROVE  PhonesStay /\ RowsStay
  <2> DEFINE wants == IF enabled THEN mem.subs[i].wants \cup {"lock_secure"}
                                 ELSE mem.subs[i].wants \ {"lock_secure"}
             sub == [mem.subs[i] EXCEPT !.wants = wants, !.keep = PausedRetention]
  <2>1. mem.subs[i] \in Subscriber
    BY <1>1 DEF Stores
  <2>2. wants \in SUBSET Features
    BY <1>6, <2>1 DEF SetLockSecure, Subscriber
  <2>3. PausedRetention \in 0..PausedRetention
    BY Constants
  <2> HIDE DEF wants
  <2>4. sub \in Subscriber /\ sub.status = mem.subs[i].status
    BY <2>1, <2>2, <2>3 DEF Subscriber
  <2> HIDE DEF sub
  <2>5. mem' = SetSubscriber(mem, i, sub)
    BY <1>6 DEF SetLockSecure, sub, wants
  <2>6. Queued(mem') = Queued(mem)
    BY <1>1, <2>4, <2>5, SetSubscriberParts
  <2>7. mem.subs[i].status = "active" => i \in Active(mem)
    BY DEF Active
  <2>8. mem.subs[i].status # "active" => i \notin Active(mem)
    BY DEF Active
  <2>9. Active(mem') = Active(mem)
    BY <1>1, <2>4, <2>5, <2>7, <2>8, SetSubscriberActive
  <2> QED
    BY <2>6, <2>9 DEF PhonesStay, RowsStay
<1>7. ASSUME NEW ok \in SaveOutcomes, NEW session \in Sessions,
             RememberKnownCleanup(session, ok)
      PROVE  PhonesStay /\ RowsStay
  BY <1>1, <1>7, AuthStays DEF RememberKnownCleanup
<1> QED
  BY <1>2, <1>3, <1>4, <1>5, <1>6, <1>7, PairStays DEF Requests

LEMMA DeliverStays ==
  ASSUME TypeOK, NEW ok, NEW t \in Threads, Deliver(t, ok)
  PROVE  PhonesStay /\ RowsStay
<1>1. mem \in Stores
  BY DEF TypeOK
<1>2. CASE RememberSession(t, ok)
  BY <1>1, <1>2, AuthStays DEF RememberSession
<1>3. CASE ~RememberSession(t, ok)
  BY <1>3, SameStays
  DEF Deliver, GateTimeout, FirstCheck, SecondCheck, RelayAnswers
<1> QED
  BY <1>2, <1>3

(* A 404 or 410 pauses the phone the push was for.                         *)
LEMMA GoneStays ==
  ASSUME TypeOK, NEW ok \in SaveOutcomes, NEW t \in Threads, At(t, "answered"),
         threads[t].answer = "gone", mem' = PauseInvalid(mem, threads[t].inst)
  PROVE  PhonesStay /\ RowsStay
<1>1. mem \in Stores /\ threads[t].inst \in Installations
  BY ThreadFields DEF TypeOK, At
<1>2. /\ Active(mem') = Active(mem) \ {threads[t].inst}
      /\ Queued(mem') = {k \in Queued(mem) : k[1] # threads[t].inst}
  BY <1>1, PauseInvalidActive
<1>3. StopsBy(threads[t].inst)
  BY DEF StopsBy
<1> QED
  BY <1>2, <1>3 DEF PhonesStay, RowsStay

(* A row that is put or changed is the row of its target afterwards.       *)
LEMMA PutStays ==
  ASSUME TypeOK, NEW k \in Targets, NEW row \in Row, mem' = SetRow(mem, k, row)
  PROVE  PhonesStay /\ RowsStay
<1>1. Active(mem') = Active(mem) /\ Queued(mem') = Queued(mem) \cup {k}
  BY SetRowActive, SetRowParts DEF TypeOK
<1> QED
  BY <1>1 DEF PhonesStay, RowsStay

LEMMA FinishDirectStays ==
  ASSUME TypeOK, NEW ok \in SaveOutcomes, NEW t \in Workers, FinishDirect(t, ok)
  PROVE  PhonesStay /\ RowsStay
<1>1. t \in Threads /\ At(t, "answered") /\ threads[t].pc # "idle"
  BY DEF Threads, FinishDirect, At
<1>2. CASE Retryable(t) /\ Enqueue(t, ok)
  <2>1. /\ TargetOf(t) \in Targets /\ threads[t].source \in Sources
        /\ threads[t].event \in Events
        /\ mem.outbox[TargetOf(t)] \in Row \cup {NoRow}
    BY <1>1, ThreadFields DEF TypeOK, Stores
  <2>2. PICK after \in AfterChoices(t) :
          mem' = SetRow(mem, TargetOf(t),
                   Enqueued(mem.outbox[TargetOf(t)], threads[t].source,
                            threads[t].event, Larger(RetryDelay, after)))
    BY <1>2 DEF Enqueue
  <2>3. Larger(RetryDelay, after) \in 0..MaxRetryDelay
    BY Constants, AfterType DEF Larger
  <2> QED
    BY <2>1, <2>2, <2>3, EnqueuedType, PutStays
<1>3. CASE threads[t].answer = "gone" /\ mem' = PauseInvalid(mem, threads[t].inst)
  BY <1>1, <1>3, GoneStays
<1>4. CASE UNCHANGED mem
  BY <1>4, SameStays
<1> QED
  BY <1>2, <1>3, <1>4 DEF FinishDirect

LEMMA TickStays ==
  ASSUME TypeOK, Tick
  PROVE  PhonesStay /\ RowsStay
<1>1. mem \in Stores /\ mem' = Aged(mem)
  BY DEF TypeOK, Tick
<1> QED
  BY <1>1, AgedParts, AgedActive DEF PhonesStay, RowsStay

(* The retry loop removes the row of a phone that stays active only when   *)
(* the relay or the recheck has decided about it.                          *)
LEMMA FinishRetryStays ==
  ASSUME TypeOK, NEW ok \in SaveOutcomes, FinishRetry(ok)
  PROVE  /\ PhonesStay
         /\ \/ RowsStay
            \/ /\ threads[RetryLoop].answer \in {"ok", "permanent", "ineligible"}
               /\ Queued(mem') = Queued(mem) \ {TargetOf(RetryLoop)}
<1> DEFINE k == TargetOf(RetryLoop)
<1>1. /\ RetryLoop \in Threads /\ At(RetryLoop, "answered")
      /\ threads[RetryLoop].pc # "idle" /\ mem \in Stores
  BY DEF Threads, FinishRetry, At, TypeOK
<1>2. k \in Targets /\ k[1] = threads[RetryLoop].inst
      /\ mem.outbox[k] \in Row \cup {NoRow}
  BY <1>1, ThreadFields DEF Stores, TargetOf
<1> HIDE DEF k
<1>3. CASE /\ threads[RetryLoop].answer \in {"ok", "permanent", "ineligible"}
           /\ mem' = RemoveRow(mem, k)
  <2>1. Active(mem') = Active(mem) /\ Queued(mem') = Queued(mem) \ {k}
    BY <1>1, <1>2, <1>3, SetRowActive, SetRowParts DEF RemoveRow
  <2> QED
    BY <1>3, <2>1 DEF PhonesStay, k
<1>4. CASE threads[RetryLoop].answer = "gone" /\ mem' = PauseInvalid(mem, k[1])
  BY <1>1, <1>2, <1>4, GoneStays
<1>5. ASSUME k \in Queued(mem), NEW after \in AfterChoices(RetryLoop),
             mem' = SetRow(mem, k, Rescheduled(mem.outbox[k], after))
      PROVE  PhonesStay /\ RowsStay
  <2>1. mem.outbox[k] \in Row
    BY <1>2, <1>5 DEF Queued, NoRow
  <2>2. pass.elapsed \in 0..MaxRetryDelay
    BY DEF TypeOK, Pass
  <2>3. Rescheduled(mem.outbox[k], after) \in Row
    BY <1>5, <2>1, <2>2, AfterType, RescheduledType
  <2> QED
    BY <1>2, <1>5, <2>3, PutStays
<1>6. CASE UNCHANGED mem
  BY <1>6, SameStays
<1> QED
  BY <1>3, <1>4, <1>5, <1>6 DEF FinishRetry, k

(* A restart from a file that agrees with memory loses no active phone and *)
(* of the rows of active phones only those that have expired.              *)
LEMMA RestartLoses ==
  ASSUME IInv, ~dirty, NEW ok, Restart(ok)
  PROVE  /\ Active(mem) \subseteq Active(mem')
         /\ \A k \in Queued(mem) :
              k[1] \in Active(mem) => k \in Queued(mem') \/ mem.outbox[k].ttl = 0
<1> DEFINE loaded == Loaded(mem)
<1>1. mem \in Stores /\ loaded \in Stores
  BY LoadedType DEF IInv, TypeOK
<1>2. MustMigrate(loaded) \/ mem' = PruneExpiredPaused(loaded)
  BY DEF Restart, IInv, DiskAgrees
<1>3. loaded.subs = mem.subs
      /\ \A k \in Targets : loaded.outbox[k] =
           IF k[1] \in Registered(mem) /\ mem.outbox[k].queued
              /\ mem.outbox[k].ttl > 0
           THEN mem.outbox[k] ELSE NoRow
  BY DEF Loaded
<1> HIDE DEF loaded
<1>4. Active(loaded) = Active(mem)
  BY <1>3 DEF Active
<1>5. /\ Active(loaded) \subseteq Active(mem')
      /\ \A k \in Queued(loaded) : k[1] \in Active(loaded) => k \in Queued(mem')
  <2>1. MustMigrate(loaded) => Active(loaded) = {}
    BY DEF MustMigrate, Registered, Active
  <2> QED
    BY <1>1, <1>2, <2>1, PruneActive
<1>6. ASSUME NEW k \in Queued(mem), k[1] \in Active(mem), mem.outbox[k].ttl # 0
      PROVE  k \in Queued(loaded)
  <2>1. k \in Targets /\ mem.outbox[k].queued /\ k[1] \in Registered(mem)
    BY <1>6 DEF Queued, Active, Registered
  <2>2. mem.outbox[k] \in Row \cup {NoRow}
    BY <1>1, <2>1 DEF Stores
  <2>3. mem.outbox[k] # NoRow
    BY <2>1 DEF NoRow
  <2>4. mem.outbox[k].ttl > 0
    <3>1. mem.outbox[k] \in Row
      BY <2>2, <2>3
    <3>2. mem.outbox[k].ttl \in Nat
      BY <3>1 DEF Row
    <3> QED
      BY <1>6, <3>2
  <2>5. loaded.outbox[k].queued
    BY <1>3, <2>1, <2>4
  <2> QED
    BY <2>1, <2>5 DEF Queued
<1> QED
  BY <1>4, <1>5, <1>6

LEMMA PhonesStep == IInv /\ [Next]_vars => PhonesStay \/ UNCHANGED vars
<1> SUFFICES ASSUME IInv, Next PROVE PhonesStay
  OBVIOUS
<1>1. TypeOK /\ mem \in Stores /\ RetryLoop \in Threads
  BY DEF IInv, TypeOK, Threads
<1>2. ASSUME NEW ok \in SaveOutcomes, RetryStep(ok) PROVE PhonesStay
  <2>1. ASSUME NEW k \in Targets, DropItem(k, ok) PROVE PhonesStay
    <3>1. Active(mem') = Active(mem)
      BY <1>1, <2>1, SetRowActive DEF DropItem, RemoveRow
    <3> QED
      BY <3>1 DEF PhonesStay
  <2>2. CASE FinishRetry(ok)
    BY <1>1, <2>2, FinishRetryStays
  <2> QED
    BY <1>1, <1>2, <2>1, <2>2, DeliverStays, SameStays
    DEF RetryStep, StartPass, PostItem
<1>3. ASSUME NEW ok \in SaveOutcomes, DirectStep(ok) PROVE PhonesStay
  BY <1>1, <1>3, DeliverStays, FinishDirectStays, SameStays
  DEF DirectStep, Begin, Threads
<1>4. ASSUME NEW ok \in SaveOutcomes, Restart(ok) PROVE PhonesStay
  <2>1. CASE dirty
    BY <1>4, <2>1 DEF PhonesStay, StopsBy
  <2>2. CASE ~dirty
    BY <1>4, <2>2, RestartLoses DEF PhonesStay
  <2> QED
    BY <2>1, <2>2
<1> QED
  BY <1>1, <1>2, <1>3, <1>4, RequestsStay, TickStays, SameStays, ApplyUnchanged
  DEF Next, Works

(* Nobody silences another iPhone: an active phone stops being active only *)
(* by its own pause or unpair, a 404 or 410 for a push to it, a "replace"  *)
(* pairing, or a restart from a file older than memory.                    *)
THEOREM OwnersDecide == Spec => ActiveUntilOwnerActs
<1>1. IInv /\ [Next]_vars => [PhonesStay]_vars
  BY PhonesStep
<1>2. Spec => [][PhonesStay]_vars
  BY <1>1, IInvHolds, PTL DEF Spec
<1> QED
  BY <1>2 DEF PhonesStay, ActiveUntilOwnerActs

-----------------------------------------------------------------------------
(* A delivery that was answered "ok" has been accepted by the relay. *)
AnsweredOk ==
  \A t \in Threads :
    At(t, "answered") /\ threads[t].answer = "ok" => TargetOf(t) \in accepted

LEMMA AnsweredStep == TypeOK /\ AnsweredOk /\ [Next]_vars => AnsweredOk'
<1> SUFFICES ASSUME TypeOK, AnsweredOk, [Next]_vars PROVE AnsweredOk'
  OBVIOUS
<1>1. /\ threads \in [Threads -> Thread \cup {Idle}] /\ RetryLoop \in Threads
      /\ Workers \subseteq Threads /\ Idle.pc = "idle"
  BY DEF TypeOK, Threads, Idle
<1>2. ASSUME NEW t \in Threads, NEW th, threads' = [threads EXCEPT ![t] = th],
             accepted \subseteq accepted',
             \/ th.pc # "answered"
             \/ th.answer # "ok"
             \/ <<th.inst, th.event>> \in accepted'
      PROVE  AnsweredOk'
  <2> SUFFICES ASSUME NEW u \in Threads, At(u, "answered")',
                      threads'[u].answer = "ok"
               PROVE  TargetOf(u)' \in accepted'
    BY DEF AnsweredOk
  <2>1. CASE u = t
    BY <1>1, <1>2, <2>1 DEF At, TargetOf
  <2>2. CASE u # t
    <3>1. threads'[u] = threads[u]
      BY <1>1, <1>2, <2>2
    <3>2. At(u, "answered") /\ threads[u].answer = "ok"
      BY <3>1 DEF At
    <3>3. TargetOf(u) \in accepted
      BY <3>2 DEF AnsweredOk
    <3>4. TargetOf(u)' = TargetOf(u)
      BY <3>1 DEF TargetOf
    <3> QED
      BY <1>2, <3>3, <3>4
  <2> QED
    BY <2>1, <2>2
<1>3. ASSUME UNCHANGED <<threads, accepted>> PROVE AnsweredOk'
  BY <1>3 DEF AnsweredOk, At, TargetOf
<1>4. ASSUME NEW t \in Threads, threads[t].pc # "idle", UNCHANGED accepted,
             NEW pc \in {"check", "remember", "recheck", "posting"}, Goto(t, pc)
      PROVE  AnsweredOk'
  <2>1. threads[t] \in Thread
    BY <1>4, ThreadFields
  <2>2. [threads[t] EXCEPT !.pc = pc].pc # "answered"
    BY <1>4, <2>1 DEF Thread
  <2>3. threads' = [threads EXCEPT ![t] = [threads[t] EXCEPT !.pc = pc]]
    BY <1>4 DEF Goto
  <2> QED
    BY <1>2, <1>4, <2>2, <2>3
<1>5. ASSUME NEW t \in Threads, threads[t].pc # "idle", NEW answer \in Answers,
             Answer(t, answer), accepted \subseteq accepted',
             answer # "ok" \/ TargetOf(t) \in accepted'
      PROVE  AnsweredOk'
  <2> DEFINE th == [threads[t] EXCEPT !.pc = "answered", !.answer = answer]
  <2>1. threads[t] \in Thread
    BY <1>5, ThreadFields
  <2>2. th.answer = answer /\ <<th.inst, th.event>> = TargetOf(t)
    BY <2>1 DEF Thread, TargetOf
  <2>3. threads' = [threads EXCEPT ![t] = th]
    BY <1>5 DEF Answer
  <2> HIDE DEF th
  <2> QED
    BY <1>2, <1>5, <2>2, <2>3
<1>6. ASSUME NEW t \in Threads, threads' = [threads EXCEPT ![t] = Idle],
             UNCHANGED accepted
      PROVE  AnsweredOk'
  BY <1>1, <1>2, <1>6
<1>7. ASSUME NEW t \in Threads, NEW ok, Deliver(t, ok) PROVE AnsweredOk'
  <2>1. CASE GateTimeout(t)
    BY <1>5, <2>1 DEF GateTimeout, At, Answers
  <2>2. CASE FirstCheck(t)
    BY <1>4, <1>5, <2>2 DEF FirstCheck, At, Answers
  <2>3. CASE RememberSession(t, ok)
    BY <1>4, <2>3 DEF RememberSession, At
  <2>4. CASE SecondCheck(t)
    BY <1>4, <1>5, <2>4 DEF SecondCheck, At, Answers
  <2>5. CASE RelayAnswers(t)
    BY <1>5, <2>5 DEF RelayAnswers, At, Answers
  <2> QED
    BY <1>7, <2>1, <2>2, <2>3, <2>4, <2>5 DEF Deliver
<1>8. CASE Requests
  BY <1>3, <1>8 DEF Requests, Pair, PairRejected, Pause, Unsubscribe,
                    UnsubscribeAll, SetLockSecure, RememberKnownCleanup
<1>9. ASSUME NEW ok, RetryStep(ok) PROVE AnsweredOk'
  <2>1. ASSUME NEW k \in Targets, PostItem(k) PROVE AnsweredOk'
    <3> DEFINE th == [pc |-> "check", inst |-> k[1], event |-> k[2],
                      source |-> pass.items[k].source, answer |-> "none"]
    <3>1. threads' = [threads EXCEPT ![RetryLoop] = th] /\ th.pc # "answered"
          /\ UNCHANGED accepted
      BY <2>1 DEF PostItem
    <3> HIDE DEF th
    <3> QED
      BY <1>1, <1>2, <3>1
  <2>2. CASE FinishRetry(ok)
    BY <1>1, <1>6, <2>2 DEF FinishRetry
  <2> QED
    BY <1>1, <1>3, <1>7, <1>9, <2>1, <2>2 DEF RetryStep, StartPass, DropItem
<1>10. ASSUME NEW ok, DirectStep(ok) PROVE AnsweredOk'
  <2>1. ASSUME NEW t \in Workers, NEW i \in Installations, NEW event \in Events,
               Begin(t, i, event)
        PROVE  AnsweredOk'
    <3> DEFINE th == [pc |-> "check", inst |-> i, event |-> event,
                      source |-> mem.subs[i].source, answer |-> "none"]
    <3>1. threads' = [threads EXCEPT ![t] = th] /\ th.pc # "answered"
          /\ UNCHANGED accepted
      BY <2>1 DEF Begin
    <3> HIDE DEF th
    <3> QED
      BY <1>1, <1>2, <3>1
  <2>2. ASSUME NEW t \in Workers, FinishDirect(t, ok) PROVE AnsweredOk'
    BY <1>1, <1>6, <2>2 DEF FinishDirect
  <2> QED
    BY <1>1, <1>7, <1>10, <2>1, <2>2 DEF DirectStep
<1>11. CASE Tick
  BY <1>3, <1>11 DEF Tick
<1>12. ASSUME NEW ok, Restart(ok) PROVE AnsweredOk'
  <2>1. \A t \in Threads : threads'[t].pc = "idle"
    BY <1>12 DEF Restart, Idle
  <2> QED
    BY <2>1 DEF AnsweredOk, At
<1>13. CASE UNCHANGED vars
  BY <1>3, <1>13 DEF vars
<1>14. CASE ApplyToMonitors
  BY <1>3, <1>14, ApplyUnchanged
<1> QED
  BY <1>8, <1>9, <1>10, <1>11, <1>12, <1>13, <1>14 DEF Next, Works

(* What RowsLeaveForAReason says of one row. *)
LeavesForAReason(k) ==
  \/ k \in Queued(mem')
  \/ k \in accepted \/ mem.outbox[k].ttl = 0
  \/ GivenUp(k) \/ CopyObsolete(k)
  \/ k[1] \notin Active(mem) \cap Active(mem')
  \/ dirty /\ \E ok \in SaveOutcomes : Restart(ok)

LEMMA RowsStep ==
  IInv /\ AnsweredOk /\ [Next]_vars
    => (\A k \in Queued(mem) : LeavesForAReason(k)) \/ UNCHANGED vars
<1> SUFFICES ASSUME IInv, AnsweredOk, Next
             PROVE  \A k \in Queued(mem) : LeavesForAReason(k)
  OBVIOUS
<1>1. TypeOK /\ mem \in Stores /\ RetryLoop \in Threads
  BY DEF IInv, TypeOK, Threads
<1>2. ASSUME RowsStay PROVE \A k \in Queued(mem) : LeavesForAReason(k)
  BY <1>2 DEF RowsStay, LeavesForAReason
<1>3. ASSUME NEW ok \in SaveOutcomes, RetryStep(ok)
      PROVE  \A k \in Queued(mem) : LeavesForAReason(k)
  <2>1. ASSUME NEW k \in Targets, DropItem(k, ok)
        PROVE  \A l \in Queued(mem) : LeavesForAReason(l)
    <3>1. Queued(mem') = Queued(mem) \ {k}
      BY <1>1, <2>1, SetRowParts DEF DropItem, RemoveRow
    <3>2. CopyObsolete(k)
      BY <2>1 DEF DropItem, CopyObsolete
    <3> QED
      BY <3>1, <3>2 DEF LeavesForAReason
  <2>2. CASE FinishRetry(ok)
    <3> DEFINE k == TargetOf(RetryLoop)
    <3>1. CASE RowsStay
      BY <1>2, <3>1
    <3>2. CASE /\ threads[RetryLoop].answer \in {"ok", "permanent", "ineligible"}
               /\ Queued(mem') = Queued(mem) \ {k}
      <4>1. At(RetryLoop, "answered")
        BY <2>2 DEF FinishRetry
      <4>2. k \in accepted \/ GivenUp(k)
        BY <1>1, <3>2, <4>1 DEF AnsweredOk, GivenUp
      <4> QED
        BY <3>2, <4>2 DEF LeavesForAReason
    <3> QED
      BY <1>1, <2>2, <3>1, <3>2, FinishRetryStays
  <2> QED
    BY <1>1, <1>2, <1>3, <2>1, <2>2, DeliverStays, SameStays
    DEF RetryStep, StartPass, PostItem
<1>4. ASSUME NEW ok \in SaveOutcomes, DirectStep(ok)
      PROVE  \A k \in Queued(mem) : LeavesForAReason(k)
  BY <1>1, <1>2, <1>4, DeliverStays, FinishDirectStays, SameStays
  DEF DirectStep, Begin, Threads
<1>5. ASSUME NEW ok \in SaveOutcomes, Restart(ok)
      PROVE  \A k \in Queued(mem) : LeavesForAReason(k)
  <2>1. CASE dirty
    BY <1>5, <2>1 DEF LeavesForAReason
  <2>2. CASE ~dirty
    BY <1>5, <2>2, RestartLoses DEF LeavesForAReason
  <2> QED
    BY <2>1, <2>2
<1> QED
  BY <1>1, <1>2, <1>3, <1>4, <1>5, RequestsStay, TickStays, SameStays,
     ApplyUnchanged DEF Next, Works

(* A queued push is never lost in silence while its phone stays active:    *)
(* its row leaves only accepted, refused for good, no longer authorized,   *)
(* expired, or with a restart from a file older than memory.               *)
THEOREM RowsLeaveJustly == Spec => RowsLeaveForAReason
<1>1. Init => AnsweredOk
  BY DEF Init, AnsweredOk, At, Idle
<1>2. IInv /\ AnsweredOk /\ [Next]_vars
        => [\A k \in Queued(mem) : LeavesForAReason(k)]_vars
  BY RowsStep
<1>3. IInv /\ AnsweredOk /\ [Next]_vars => AnsweredOk'
  BY AnsweredStep DEF IInv
<1>4. Spec => [][\A k \in Queued(mem) : LeavesForAReason(k)]_vars
  BY <1>1, <1>2, <1>3, IInvHolds, PTL DEF Spec
<1> QED
  BY <1>4 DEF LeavesForAReason, RowsLeaveForAReason

=============================================================================
