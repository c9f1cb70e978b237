---------------------------- MODULE PushRegistry ----------------------------
(***************************************************************************)
(* The push subscriber registry of src/push_subscribers.go: the paired     *)
(* iPhones, the durable outbox of failed deliveries, the live-activity     *)
(* cleanup bindings, the goroutines that deliver directly, the retry loop, *)
(* the state file, the pairing file kept beside it for older versions, and *)
(* a process restart.                                                      *)
(*                                                                         *)
(* Every exported operation runs under r.mu and ends with saveLocked, so   *)
(* it is one action.  A delivery takes the lock several times and holds it *)
(* neither between its checks nor during the POST: each locked section is  *)
(* an action, and other goroutines interleave between them.                *)
(*                                                                         *)
(* Timestamps are kept as the time that is left: a row carries the time    *)
(* until NextAttemptAt and until ExpiresAt, a paused phone what is left of *)
(* its retention, a binding what is left of its 48 hours.  Tick ages all   *)
(* of them, those in the state file too, so time itself is unbounded.      *)
(***************************************************************************)
EXTENDS Integers, FiniteSets

CONSTANTS
  Installations,     \* installation IDs of the iPhones
  NoPhone,           \* the pairing file is not there
  Sources,           \* TeslaMate source IDs
  NoSource,          \* the empty source ID, of a pairing request without one
  Features,          \* push categories
  PairedPrefs,       \* the sets of categories a pairing request may end with
  Sessions,          \* live-activity session IDs
  Events,            \* logical event IDs, one payload each
  Workers,           \* goroutines that deliver directly
  RetryLoop,         \* the goroutine of retryLoop
  EventFeature,      \* pushEventFeature: the category of an event
  EventKind,         \* "alert", "running" (started, updated) or "terminal"
  EventSession,      \* the session of an event
  EventTTL,          \* pushEventTTL
  MaxSubscribers,    \* maxPushSubscribers
  MaxOutbox,         \* maxPushOutboxItems
  PausedRetention,   \* pausedPushSubscriberRetention
  SessionLife,       \* chargingTransientMaximumAge
  RetryDelay,        \* defaultPushRetryDelay
  MaxRetryDelay,     \* maxPushRetryDelay
  AttemptCap,        \* the 8 of min(attempt, 8)
  RetryAfters,       \* Retry-After values the relay may send, capped
  MaxApplying,       \* bound: what requests are about to do to the pairing file
  Faults             \* the faults of the environment: "crash", and "save" (a
                     \* write, or the removal, of either file); "oneSave" is
                     \* "save" with a bound: saveLocked does not fail twice in
                     \* a row, or while a request is about to do something;
                     \* "pairing": the pairing file cannot be written at all

SaveFaults == Faults \cap {"save", "oneSave"}
PairingFaults == Faults \cap {"save", "oneSave", "pairing"}
Threads == Workers \cup {RetryLoop}
Targets == Installations \X Events
Bindings == Installations \X Sources \X Sessions

ASSUME PositiveLimits ==
  {MaxSubscribers, MaxOutbox, PausedRetention, SessionLife,
   RetryDelay, MaxRetryDelay, AttemptCap} \subseteq Nat \ {0}

ASSUME ApplyingBound == MaxApplying \in Nat

ASSUME RetryBounds ==
  /\ RetryDelay <= MaxRetryDelay
  /\ RetryAfters \subseteq 0..MaxRetryDelay /\ 0 \in RetryAfters

ASSUME EventShape ==
  /\ EventFeature \in [Events -> Features]
  /\ EventKind \in [Events -> {"alert", "running", "terminal"}]
  /\ EventSession \in [Events -> Sessions]
  /\ EventTTL \in [Events -> Nat \ {0}]

ASSUME FiniteSystem ==
  /\ IsFiniteSet(Installations) /\ IsFiniteSet(Events)
  /\ RetryLoop \notin Workers
  /\ PairedPrefs \subseteq SUBSET Features
  /\ NoPhone \notin Installations
  /\ NoSource \in Sources

NoRow == [queued |-> FALSE]
NoItem == [pending |-> FALSE]

Row == [queued : {TRUE}, source : Sources, due : 0..MaxRetryDelay,
        ttl : Nat, attempts : 0..AttemptCap]
Subscriber == [status : {"absent", "active", "paused"}, source : Sources,
               wants : SUBSET Features, keep : 0..PausedRetention]
Item == [pending : {TRUE}, source : Sources, expired : BOOLEAN]
Stores == [subs : [Installations -> Subscriber],
           outbox : [Targets -> Row \cup {NoRow}],
           auth : [Bindings -> 0..SessionLife]]
Answers == {"ok", "retryable", "gone", "permanent", "error", "ineligible"}
Idle == [pc |-> "idle"]
Thread == [pc : {"check", "remember", "recheck", "posting", "answered"},
           inst : Installations, event : Events, source : Sources,
           answer : Answers \cup {"none"}]
Pass == [items : [Targets -> Item \cup {NoItem}],
         active : SUBSET Installations, elapsed : 0..MaxRetryDelay]

VARIABLES
  mem,        \* r.store
  disk,       \* push-subscribers.json
  dirty,      \* the last save failed, or there was none since
  legacy,     \* the phone software-push-pairing.json names, or NoPhone
  unsynced,   \* the last sync of that file failed or was not reached, or a
              \* request has written it since
  applying,   \* requests between two steps of applyRegistryToMonitors: the
              \* phone they have read, or NoPhone if they remove the file
  threads,    \* where each delivering goroutine is
  pass,       \* the copies retryDue works from
  accepted    \* targets the relay has accepted (external)

pairing == <<legacy, unsynced>>
vars == <<mem, disk, dirty, pairing, applying, threads, pass, accepted>>

-----------------------------------------------------------------------------
(* Helpers on a store *)

Smaller(a, b) == IF a < b THEN a ELSE b
Larger(a, b) == IF a < b THEN b ELSE a
Decrement(n) == IF n = 0 THEN 0 ELSE n - 1

Absent == [status |-> "absent", source |-> NoSource, wants |-> {},
           keep |-> 0]

EmptyStore == [subs   |-> [i \in Installations |-> Absent],
               outbox |-> [k \in Targets |-> NoRow],
               auth   |-> [b \in Bindings |-> 0]]

Registered(store) == {i \in Installations : store.subs[i].status # "absent"}
Active(store) == {i \in Installations : store.subs[i].status = "active"}
Paused(store) == {i \in Installations : store.subs[i].status = "paused"}
Queued(store) == {k \in Targets : store.outbox[k].queued}

SetSubscriber(store, i, sub) ==
  [store EXCEPT !.subs = [store.subs EXCEPT ![i] = sub]]
SetRow(store, k, row) ==
  [store EXCEPT !.outbox = [store.outbox EXCEPT ![k] = row]]

(* removeOutboxForLocked: the rows and the bindings of the installations   *)
RemoveOutboxFor(store, gone) ==
  [subs   |-> store.subs,
   outbox |-> [k \in Targets |-> IF k[1] \in gone THEN NoRow ELSE store.outbox[k]],
   auth   |-> [b \in Bindings |-> IF b[1] \in gone THEN 0 ELSE store.auth[b]]]

(* removeSubscriberAtLocked, for each of a set of installations            *)
RemoveSubscribers(store, gone) ==
  RemoveOutboxFor(
    [store EXCEPT !.subs = [i \in Installations |->
                              IF i \in gone THEN Absent ELSE store.subs[i]]],
    gone)

(* The stores pruneExpiredPausedLocked leaves: activity older than the     *)
(* retention is a keep of 0.                                               *)
PruneExpiredPaused(store) ==
  RemoveSubscribers(store, {i \in Paused(store) : store.subs[i].keep = 0})

(* Mutation: eviction considers active phones too. *)
OldestOfAnyStatus(store) ==
  {i \in Registered(store) :
     \A j \in Registered(store) : store.subs[i].keep <= store.subs[j].keep}

(* oldestPausedSubscriberIndexLocked; ties go by position, any one here    *)
OldestPaused(store) ==
  {i \in Paused(store) :
     \A j \in Paused(store) : store.subs[i].keep <= store.subs[j].keep}

SetStatusPaused(store, i) ==
  SetSubscriber(store, i, [store.subs[i] EXCEPT !.status = "paused",
                                                !.keep = PausedRetention])

(* removeOutboxItem *)
RemoveRow(store, k) == SetRow(store, k, NoRow)

(* load: expired rows, rows of unknown phones and stale bindings are left  *)
(* out.  A row of a paused phone is kept.                                  *)
Loaded(store) ==
  [subs   |-> store.subs,
   outbox |-> [k \in Targets |->
                IF k[1] \in Registered(store) /\ store.outbox[k].queued
                   /\ store.outbox[k].ttl > 0
                THEN store.outbox[k] ELSE NoRow],
   auth   |-> store.auth]

(* saveLocked: the temporary file is renamed over the state file, or the   *)
(* save fails and the file stays as it was.                                *)
Save(store, ok) ==
  /\ ok \/ "save" \in Faults \/ (~dirty /\ applying = {})
  /\ disk' = IF ok THEN store ELSE disk
  /\ dirty' = ~ok

SaveOutcomes == IF SaveFaults = {} THEN {TRUE} ELSE BOOLEAN

(* syncLegacyPairingLocked: the pairing file names the first active phone  *)
(* of the list (any one here), or is removed when there is none; an error  *)
(* is ignored and the file stays as it was.  A crash right before it is    *)
(* that outcome followed by Restart.                                       *)
Sync(store) ==
  \/ /\ "pairing" \notin Faults
     /\ legacy' \in IF Active(store) = {} THEN {NoPhone} ELSE Active(store)
     /\ unsynced' = FALSE
  \/ PairingFaults # {} /\ legacy' = legacy /\ unsynced' = TRUE

(* upsert, pause and unsubscribe return the error of a failed save before  *)
(* they come to it.                                                        *)
SaveThenSync(store, ok) ==
  /\ Save(store, ok)
  /\ IF ok THEN Sync(store) ELSE legacy' = legacy /\ unsynced' = TRUE

-----------------------------------------------------------------------------
NoPass == [items |-> [k \in Targets |-> NoItem], active |-> {}, elapsed |-> 0]

Init ==
  /\ mem = EmptyStore /\ disk = EmptyStore /\ dirty = FALSE
  /\ legacy = NoPhone /\ unsynced = FALSE /\ applying = {}
  /\ threads = [t \in Threads |-> Idle]
  /\ pass = NoPass
  /\ accepted = {}

-----------------------------------------------------------------------------
(* Pairing requests of an iPhone *)

Paired(source, wants) ==
  [status |-> "active", source |-> source, wants |-> wants, keep |-> PausedRetention]

(* Mutation: "replace" drops the pairing phone's own rows with the others'. *)
PairIntoDropsOwnRows(store, i, source, wants, mode) ==
  SetSubscriber(
    RemoveSubscribers(store, IF mode = "replace" THEN Installations ELSE {}),
    i, Paired(source, wants))

(* upsert with status active.  Expired paused phones are pruned first; a   *)
(* new phone that finds the registry full evicts the longest-paused one,   *)
(* and "replace" removes every other phone.                                *)
PairInto(store, i, source, wants, mode) ==
  SetSubscriber(
    RemoveSubscribers(store, IF mode = "replace" THEN Installations \ {i} ELSE {}),
    i, Paired(source, wants))

(* Mutation: the capacity test is off by one. *)
NeedsRoomTooLate(store, i, mode) ==
  /\ i \notin Registered(store) /\ mode # "replace"
  /\ Cardinality(Registered(store)) > MaxSubscribers

NeedsRoom(store, i, mode) ==
  /\ i \notin Registered(store) /\ mode # "replace"
  /\ Cardinality(Registered(store)) >= MaxSubscribers

Pair(i, source, wants, mode, ok) ==
  LET pruned == PruneExpiredPaused(mem) IN
  /\ \/ /\ ~NeedsRoom(pruned, i, mode)
        /\ mem' = PairInto(pruned, i, source, wants, mode)
     \/ /\ NeedsRoom(pruned, i, mode)
        /\ \E victim \in OldestPaused(pruned) :
             mem' = PairInto(RemoveSubscribers(pruned, {victim}),
                             i, source, wants, mode)
  /\ SaveThenSync(mem', ok)
  /\ UNCHANGED <<threads, pass, accepted>>

(* upsert answering subscriber_limit: what was pruned is not saved.        *)
PairRejected(i) ==
  LET pruned == PruneExpiredPaused(mem) IN
  /\ NeedsRoom(pruned, i, "join") /\ OldestPaused(pruned) = {}
  /\ mem' = pruned
  /\ UNCHANGED <<disk, dirty, pairing, threads, pass, accepted>>

(* Mutation: pause does not save. *)
PauseUnsaved(i, ok) ==
  /\ i \in Registered(mem)
  /\ mem' = RemoveOutboxFor(SetStatusPaused(mem, i), {i})
  /\ UNCHANGED <<disk, dirty, pairing, threads, pass, accepted>>

(* pause; an unknown phone is left alone *)
Pause(i, ok) ==
  /\ i \in Registered(mem)
  /\ mem' = RemoveOutboxFor(SetStatusPaused(mem, i), {i})
  /\ SaveThenSync(mem', ok)
  /\ UNCHANGED <<threads, pass, accepted>>

(* Mutation: unsubscribe leaves the pairing file alone. *)
UnsubscribeUnsynced(i, ok) ==
  /\ mem' = RemoveSubscribers(mem, {i})
  /\ Save(mem', ok)
  /\ UNCHANGED <<pairing, threads, pass, accepted>>

(* unsubscribe with an installation ID, known or not *)
Unsubscribe(i, ok) ==
  /\ mem' = RemoveSubscribers(mem, {i})
  /\ SaveThenSync(mem', ok)
  /\ UNCHANGED <<threads, pass, accepted>>

(* unsubscribe without one: refused while several phones are registered *)
UnsubscribeAll(ok) ==
  /\ Cardinality(Registered(mem)) <= 1
  /\ mem' = EmptyStore
  /\ SaveThenSync(mem', ok)
  /\ UNCHANGED <<threads, pass, accepted>>

(* setLockSecure, where that category is modelled *)
SetLockSecure(i, enabled, ok) ==
  /\ i \in Registered(mem) /\ "lock_secure" \in Features
  /\ mem' = SetSubscriber(mem, i, [mem.subs[i] EXCEPT
       !.wants = IF enabled THEN @ \cup {"lock_secure"}
                            ELSE @ \ {"lock_secure"},
       !.keep = PausedRetention])
  /\ Save(mem', ok)
  /\ UNCHANGED <<pairing, threads, pass, accepted>>

(* rememberKnownLiveActivityCleanup: fleet reconciliation is about to drop *)
(* a monitor's session, so every active phone is bound to its clean-up.    *)
RememberKnownCleanup(session, ok) ==
  /\ mem' = [mem EXCEPT !.auth = [b \in Bindings |->
       IF /\ b[1] \in Active(mem) /\ b[2] = mem.subs[b[1]].source
          /\ b[3] = session
       THEN SessionLife ELSE mem.auth[b]]]
  /\ Save(mem', ok)
  /\ UNCHANGED <<pairing, threads, pass, accepted>>

Requests ==
  \E ok \in SaveOutcomes :
    \/ \E i \in Installations, source \in Sources, wants \in PairedPrefs,
          mode \in {"join", "replace"} : Pair(i, source, wants, mode, ok)
    \/ \E i \in Installations :
         \/ PairRejected(i)
         \/ Pause(i, ok)
         \/ Unsubscribe(i, ok)
         \/ \E enabled \in BOOLEAN : SetLockSecure(i, enabled, ok)
    \/ UnsubscribeAll(ok)
    \/ \E session \in Sessions : RememberKnownCleanup(session, ok)

-----------------------------------------------------------------------------
(* One delivery: postJSON, run by a direct delivery or by the retry loop *)

TargetOf(t) == <<threads[t].inst, threads[t].event>>
BindingOf(t) == <<threads[t].inst, threads[t].source,
                  EventSession[threads[t].event]>>

At(t, pc) == threads[t].pc = pc
Goto(t, pc) == threads' = [threads EXCEPT ![t] = [@ EXCEPT !.pc = pc]]
Answer(t, answer) ==
  threads' = [threads EXCEPT ![t] = [@ EXCEPT !.pc = "answered",
                                              !.answer = answer]]

(* deliverySubscriber, under the lock.  carOk is mqttCarEligible and, for  *)
(* charging, chargingPayloadCurrent; known is monitorKnowsLiveActivity-    *)
(* Session.  Both belong to other components and may change at any time.   *)
Eligible(t, carOk, known) ==
  LET sub == mem.subs[threads[t].inst]
      event == threads[t].event
      ordinary == EventFeature[event] \in sub.wants /\ carOk
  IN  /\ sub.status = "active" /\ sub.source = threads[t].source
      /\ \/ ordinary
         \/ /\ EventKind[event] = "terminal"
            /\ mem.auth[BindingOf(t)] > 0 \/ known

Verdicts(t) == {Eligible(t, carOk, known) : carOk, known \in BOOLEAN}

(* fanOut of a monitor picks an active phone that wants the event (any     *)
(* active phone for a terminal one) and calls deliverJSON for it.          *)
Begin(t, i, event) ==
  /\ At(t, "idle")
  /\ mem.subs[i].status = "active"
  /\ EventKind[event] = "terminal" \/ EventFeature[event] \in mem.subs[i].wants
  /\ threads' = [threads EXCEPT ![t] =
       [pc |-> "check", inst |-> i, event |-> event,
        source |-> mem.subs[i].source, answer |-> "none"]]
  /\ UNCHANGED <<mem, disk, dirty, pairing, pass, accepted>>

(* acquireChargingDelivery gives up after 12 seconds *)
GateTimeout(t) ==
  /\ At(t, "check") /\ EventKind[threads[t].event] # "alert"
  /\ Answer(t, "error")
  /\ UNCHANGED <<mem, disk, dirty, pairing, pass, accepted>>

FirstCheck(t) ==
  /\ At(t, "check")
  /\ \E eligible \in Verdicts(t) :
       IF eligible
       THEN Goto(t, IF EventKind[threads[t].event] = "running"
                    THEN "remember" ELSE "recheck")
       ELSE Answer(t, "ineligible")
  /\ UNCHANGED <<mem, disk, dirty, pairing, pass, accepted>>

(* rememberLiveActivitySession, a locked section of its own, which does    *)
(* not look at the subscriber again.                                       *)
RememberSession(t, ok) ==
  /\ At(t, "remember")
  /\ mem' = [mem EXCEPT !.auth = [mem.auth EXCEPT ![BindingOf(t)] = SessionLife]]
  /\ Save(mem', ok)
  /\ Goto(t, "recheck")
  /\ UNCHANGED <<pairing, pass, accepted>>

SecondCheck(t) ==
  /\ At(t, "recheck")
  /\ \E eligible \in Verdicts(t) :
       IF eligible THEN Goto(t, "posting") ELSE Answer(t, "ineligible")
  /\ UNCHANGED <<mem, disk, dirty, pairing, pass, accepted>>

(* The relay accepts the event, refuses it, or the request fails with or   *)
(* without having reached the relay.                                       *)
RelayAnswers(t) ==
  /\ At(t, "posting")
  /\ \/ Answer(t, "ok") /\ accepted' = accepted \cup {TargetOf(t)}
     \/ Answer(t, "error") /\ accepted' = accepted \cup {TargetOf(t)}
     \/ /\ \E answer \in Answers \ {"ok", "ineligible"} : Answer(t, answer)
        /\ UNCHANGED accepted
  /\ UNCHANGED <<mem, disk, dirty, pairing, pass>>

(* pauseInvalidSubscriber *)
PauseInvalid(store, i) ==
  RemoveOutboxFor(IF i \in Registered(store) THEN SetStatusPaused(store, i)
                                             ELSE store, {i})

-----------------------------------------------------------------------------
(* What a direct delivery does with the answer: deliverJSONResult *)

Retryable(t) == threads[t].answer \in {"retryable", "error"}
AfterChoices(t) == IF threads[t].answer = "retryable" THEN RetryAfters ELSE {0}

(* Mutation: queuing the same event again starts a new lifetime. *)
EnqueuedAnew(row, source, event, delay) ==
  [queued |-> TRUE, source |-> source, due |-> delay,
   ttl |-> EventTTL[event], attempts |-> 0]

(* enqueue: a row of the same target takes the new payload and its next    *)
(* attempt never moves earlier; a full outbox refuses a new row.  Whether  *)
(* the phone is still registered is not looked at.                         *)
Enqueued(row, source, event, delay) ==
  IF row.queued
  THEN [row EXCEPT !.source = source, !.due = Larger(row.due, delay)]
  ELSE [queued |-> TRUE, source |-> source, due |-> delay,
        ttl |-> EventTTL[event], attempts |-> 0]

OutboxFull(store, k) ==
  k \notin Queued(store) /\ Cardinality(Queued(store)) >= MaxOutbox

Enqueue(t, ok) ==
  /\ ~OutboxFull(mem, TargetOf(t))
  /\ \E after \in AfterChoices(t) :
       mem' = SetRow(mem, TargetOf(t),
         Enqueued(mem.outbox[TargetOf(t)], threads[t].source, threads[t].event,
                  Larger(RetryDelay, after)))
  /\ Save(mem', ok)
  /\ UNCHANGED pairing

FinishDirect(t, ok) ==
  /\ t \in Workers /\ At(t, "answered")
  /\ threads' = [threads EXCEPT ![t] = Idle]
  /\ \/ Retryable(t) /\ Enqueue(t, ok)
     \/ /\ threads[t].answer = "gone"
        /\ mem' = PauseInvalid(mem, threads[t].inst)
        /\ Sync(mem') /\ Save(mem', ok)
     \/ /\ \/ threads[t].answer \in {"ok", "permanent", "ineligible"}
           \/ Retryable(t) /\ OutboxFull(mem, TargetOf(t))
        /\ UNCHANGED <<mem, disk, dirty, pairing>>
  /\ UNCHANGED <<pass, accepted>>

-----------------------------------------------------------------------------
(* The retry loop: retryDue works from a copy of the rows and of the       *)
(* active phones.  Rows that are neither expired nor due at the copy's     *)
(* time are skipped, so they are not copied.                               *)

Waiting(k) == pass.items[k].pending
Passing == \E k \in Targets : Waiting(k)

(* The pass without row k; the last row ends the pass. *)
PassWithout(k) ==
  IF \E other \in Targets \ {k} : Waiting(other)
  THEN [pass EXCEPT !.items = [pass.items EXCEPT ![k] = NoItem]]
  ELSE NoPass

StartPass ==
  /\ ~Passing /\ At(RetryLoop, "idle")
  /\ pass' = [items |-> [k \in Targets |->
                IF mem.outbox[k].queued
                THEN IF mem.outbox[k].ttl = 0 \/ mem.outbox[k].due = 0
                     THEN [pending |-> TRUE, source |-> mem.outbox[k].source,
                           expired |-> mem.outbox[k].ttl = 0]
                     ELSE NoItem
                ELSE NoItem],
              active |-> Active(mem), elapsed |-> 0]
  /\ \E k \in Targets : pass'.items[k].pending
  /\ UNCHANGED <<mem, disk, dirty, pairing, threads, accepted>>

(* A row that had expired, or whose phone was not active, is removed.      *)
DropItem(k, ok) ==
  /\ At(RetryLoop, "idle") /\ Waiting(k)
  /\ pass.items[k].expired \/ k[1] \notin pass.active
  /\ mem' = RemoveRow(mem, k)
  /\ Save(mem', ok)
  /\ pass' = PassWithout(k)
  /\ UNCHANGED <<pairing, threads, accepted>>

PostItem(k) ==
  /\ At(RetryLoop, "idle") /\ Waiting(k)
  /\ ~pass.items[k].expired /\ k[1] \in pass.active
  /\ threads' = [threads EXCEPT ![RetryLoop] =
       [pc |-> "check", inst |-> k[1], event |-> k[2],
        source |-> pass.items[k].source, answer |-> "none"]]
  /\ UNCHANGED <<mem, disk, dirty, pairing, pass, accepted>>

(* rescheduleOutboxItem counts from the time of the copy, which is elapsed *)
(* ago: 1<<min(attempt, 8) times two seconds, at least the relay's         *)
(* Retry-After, at most maxPushRetryDelay.                                 *)
Backoff(attempt) == RetryDelay * 2 ^ Smaller(attempt, AttemptCap)

(* Mutation: the backoff is not capped. *)
RescheduledUncapped(row, after) ==
  LET attempt == Smaller(row.attempts + 1, AttemptCap)
  IN  [row EXCEPT !.attempts = attempt,
         !.due = Larger(0, Larger(Backoff(attempt), after) - pass.elapsed)]

Rescheduled(row, after) ==
  LET attempt == Smaller(row.attempts + 1, AttemptCap)
      delay == Larger(Backoff(attempt), after)
      capped == IF delay \in 0..MaxRetryDelay THEN delay ELSE MaxRetryDelay
  IN  [row EXCEPT !.attempts = attempt,
                  !.due = Larger(0, capped - pass.elapsed)]

FinishRetry(ok) ==
  LET t == RetryLoop
      k == TargetOf(RetryLoop)
      answer == threads[RetryLoop].answer
  IN
  /\ At(t, "answered")
  /\ threads' = [threads EXCEPT ![t] = Idle]
  /\ pass' = PassWithout(k)
  /\ \/ /\ answer \in {"ok", "permanent", "ineligible"}
        /\ mem' = RemoveRow(mem, k)
        /\ Save(mem', ok) /\ UNCHANGED pairing
     \/ /\ answer = "gone"
        /\ mem' = PauseInvalid(mem, k[1])
        /\ Sync(mem') /\ Save(mem', ok)
     \/ /\ Retryable(t) /\ k \in Queued(mem)
        /\ \E after \in AfterChoices(t) :
             mem' = SetRow(mem, k, Rescheduled(mem.outbox[k], after))
        /\ Save(mem', ok) /\ UNCHANGED pairing
     \/ /\ Retryable(t) /\ k \notin Queued(mem)
        /\ UNCHANGED <<mem, disk, dirty, pairing>>
  /\ UNCHANGED accepted

-----------------------------------------------------------------------------
(* Time and restarts *)

AgedRow(row) ==
  IF row.queued
  THEN [row EXCEPT !.due = Decrement(@), !.ttl = Decrement(@)] ELSE row

AgedSubscriber(sub) ==
  IF sub.status = "paused" THEN [sub EXCEPT !.keep = Decrement(@)] ELSE sub

Aged(store) ==
  [subs   |-> [i \in Installations |-> AgedSubscriber(store.subs[i])],
   outbox |-> [k \in Targets |-> AgedRow(store.outbox[k])],
   auth   |-> [b \in Bindings |-> Decrement(store.auth[b])]]

Tick ==
  /\ mem' = Aged(mem) /\ disk' = Aged(disk)
  /\ pass' = IF Passing
             THEN [pass EXCEPT !.elapsed = Smaller(@ + 1, MaxRetryDelay)]
             ELSE pass
  /\ UNCHANGED <<dirty, pairing, threads, accepted>>

(* applyRegistryToMonitors, which an answered request comes to, holds no    *)
(* lock from one step to the next: it counts the active phones, reads the  *)
(* pairing file, and the software monitor writes back what was read, or    *)
(* removes the file when no phone was active.  (A pause of an unknown      *)
(* phone comes to it at any time, with nothing changed.)                   *)
ApplyBegins ==
  /\ Cardinality(applying) < MaxApplying /\ ("oneSave" \in Faults => ~dirty)
  /\ \/ Active(mem) = {} /\ applying' = applying \cup {NoPhone}
     \/ legacy # NoPhone /\ applying' = applying \cup {legacy}
  /\ UNCHANGED <<mem, disk, dirty, pairing, threads, pass, accepted>>

ApplyEnds(phone) ==
  /\ phone \in applying /\ applying' \in {applying, applying \ {phone}}
  /\ \/ "pairing" \notin Faults /\ legacy' = phone
     \/ PairingFaults # {} /\ legacy' = legacy
  /\ unsynced' = (unsynced \/ legacy' # legacy)
  /\ UNCHANGED <<mem, disk, dirty, threads, pass, accepted>>

ApplyToMonitors == ApplyBegins \/ \E phone \in applying : ApplyEnds(phone)

(* migrateLegacyPairingLocked: a file with no subscriber in it, and a      *)
(* pairing file that names a phone: it is active again, for live           *)
(* activities, software updates and, where lock-secure-prefs.json says so, *)
(* lock alerts.                                                            *)
MigratedPrefs ==
  {Features \cap ({"software_update", "live_activity"} \cup lock) :
     lock \in SUBSET {"lock_secure"}}
MustMigrate(store) == Registered(store) = {} /\ legacy # NoPhone

(* The process dies and newPushSubscriberRegistry reads the files back. It *)
(* saves what it migrated; it prunes expired paused phones, and syncs and  *)
(* saves when it removed one.                                              *)
Restart(ok) ==
  LET loaded == Loaded(disk)
      pruned == PruneExpiredPaused(loaded)
  IN
  /\ "crash" \in Faults
  /\ \/ /\ MustMigrate(loaded)
        /\ \E wants \in MigratedPrefs :
             mem' = SetSubscriber(loaded, legacy, Paired(NoSource, wants))
        /\ Save(mem', ok) /\ UNCHANGED pairing
     \/ /\ ~MustMigrate(loaded)
        /\ mem' = pruned
        /\ IF Registered(pruned) # Registered(loaded)
           THEN Sync(mem') /\ Save(mem', ok)
           ELSE dirty' = FALSE /\ UNCHANGED <<disk, pairing>>
  /\ threads' = [t \in Threads |-> Idle]
  /\ pass' = NoPass /\ applying' = {}
  /\ UNCHANGED accepted

-----------------------------------------------------------------------------
Deliver(t, ok) ==
  \/ GateTimeout(t)
  \/ FirstCheck(t)
  \/ RememberSession(t, ok)
  \/ SecondCheck(t)
  \/ RelayAnswers(t)

RetryStep(ok) ==
  \/ StartPass
  \/ \E k \in Targets : DropItem(k, ok) \/ PostItem(k)
  \/ Deliver(RetryLoop, ok)
  \/ FinishRetry(ok)

DirectStep(ok) ==
  \E t \in Workers :
    \/ \E i \in Installations, event \in Events : Begin(t, i, event)
    \/ Deliver(t, ok)
    \/ FinishDirect(t, ok)

Works ==
  \/ Requests \/ Tick
  \/ \E ok \in SaveOutcomes : RetryStep(ok) \/ DirectStep(ok)

Next ==
  \/ Works /\ UNCHANGED applying
  \/ ApplyToMonitors
  \/ \E ok \in SaveOutcomes : Restart(ok)

Spec == Init /\ [][Next]_vars

(* The ticker, the retry goroutine and the HTTP client's timeout always    *)
(* run on; a crash or a failing disk is not waited for.                    *)
FairSpec ==
  /\ Spec
  /\ WF_vars(Tick /\ UNCHANGED applying)
  /\ WF_vars(UNCHANGED applying /\ \E ok \in SaveOutcomes : RetryStep(ok))

-----------------------------------------------------------------------------
(* Properties *)

(* Every store, memory and file, every delivery and the pass are well      *)
(* formed.                                                                 *)
TypeOK ==
  /\ mem \in Stores /\ disk \in Stores /\ dirty \in BOOLEAN
  /\ legacy \in Installations \cup {NoPhone} /\ unsynced \in BOOLEAN
  /\ applying \subseteq Installations \cup {NoPhone}
  /\ threads \in [Threads -> Thread \cup {Idle}]
  /\ pass \in Pass
  /\ accepted \subseteq Targets

(* At most MaxSubscribers phones and MaxOutbox rows, in memory and in the  *)
(* file, whatever is paired, replaced, evicted, queued or reloaded.        *)
WithinLimits(store) ==
  /\ Cardinality(Registered(store)) <= MaxSubscribers
  /\ Cardinality(Queued(store)) <= MaxOutbox
Capacity == WithinLimits(mem) /\ WithinLimits(disk)

(* After a save that succeeded, a restart would bring back exactly what    *)
(* the process works with: the phones, their bindings and every row that   *)
(* load would keep.  No operation forgets to save, upsert's early return   *)
(* for subscriber_limit after pruning included.                            *)
DiskAgrees == ~dirty => Loaded(disk) = Loaded(mem)

(* What an owner was told stays so: when the last save succeeded and the   *)
(* pairing file is as the last decision left it, no restart turns an       *)
(* absent or paused phone active or an active phone anything else.  The    *)
(* second condition is needed: main.go's unpair answers 200 although the   *)
(* removal of that file failed, the process may die before it, or a        *)
(* request that read the file earlier writes it back afterwards, and the   *)
(* restart then brings the last phone back active.  It is enough only      *)
(* because every step that may leave the registry empty writes that file.  *)
KeptByRestart ==
  ~dirty /\ ~unsynced /\ (\E ok \in SaveOutcomes : Restart(ok))
    => \A i \in Active(mem) \cup Active(mem') : mem'.subs[i] = mem.subs[i]
RestartKeepsDecisions == [][KeptByRestart]_vars

(* A queued push is never lost in silence while its phone stays active:    *)
(* its row disappears only once the relay has accepted that event, the     *)
(* relay has refused it for good, the recheck found it no longer           *)
(* authorized, or it (or the row of that event the pass had copied, which  *)
(* retryDue removes by ID) has expired or belonged to an inactive phone.   *)
GivenUp(k) ==
  /\ At(RetryLoop, "answered") /\ TargetOf(RetryLoop) = k
  /\ threads[RetryLoop].answer \in {"permanent", "ineligible"}
CopyObsolete(k) ==
  Waiting(k) /\ (pass.items[k].expired \/ k[1] \notin pass.active)
RowsLeaveForAReason ==
  [][\A k \in Queued(mem) :
       \/ k \in Queued(mem')
       \/ k \in accepted \/ mem.outbox[k].ttl = 0
       \/ GivenUp(k) \/ CopyObsolete(k)
       \/ k[1] \notin Active(mem) \cap Active(mem')
       \/ dirty /\ \E ok \in SaveOutcomes : Restart(ok)]_vars

(* Nobody silences another iPhone: an active phone stops being active only *)
(* by its own pause or unpair, by a 404 or 410 for a push to it, by a      *)
(* "replace" pairing, or when the process restarts from an older file.     *)
(* In particular neither retention nor capacity evicts it.                 *)
StopsBy(i) ==
  \E ok \in SaveOutcomes :
    \/ Pause(i, ok) \/ Unsubscribe(i, ok) \/ UnsubscribeAll(ok)
    \/ \E j \in Installations \ {i}, source \in Sources, wants \in PairedPrefs :
         Pair(j, source, wants, "replace", ok)
    \/ \E t \in Threads : At(t, "answered") /\ threads[t].inst = i
                          /\ threads[t].answer = "gone"
    \/ Restart(ok) /\ dirty
ActiveUntilOwnerActs ==
  [][\A i \in Active(mem) : i \in Active(mem') \/ StopsBy(i)]_vars

(* Every row is eventually gone, delivered or not: a relay that is down or *)
(* keeps answering 5xx, and monitors that queue the same event again, do   *)
(* not keep one alive beyond its lifetime, and the row of a phone that is  *)
(* no longer active does not linger.                                       *)
RowsDrain == \A k \in Targets : k \in Queued(mem) ~> k \notin Queued(mem)

=============================================================================
