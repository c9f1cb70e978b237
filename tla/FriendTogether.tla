---------------------------- MODULE FriendTogether ----------------------------
(***************************************************************************)
(* The consent service of src/internal/friendtogether/http_service.go over *)
(* the policy store of FriendStore: one-use invitations, join requests the *)
(* owner decides, grants with an expiry, the private journal and a         *)
(* restart.                                                                *)
(*                                                                         *)
(* A handler runs under s.mu, so it is one action.  Two handlers give the  *)
(* lock up while the vehicle source answers: creating an invitation and    *)
(* reading a snapshot.  Each of these is a goroutine of Readers, with a    *)
(* locked section before and one after; anything may happen between them.  *)
(*                                                                         *)
(* A handler reads the clock several times.  It opens (clockHealthyLocked, *)
(* expireLocked) at clock and does the rest at clock', which may be a tick *)
(* later: a grant can lapse between the two.  Between requests the clock   *)
(* may also be set back.                                                   *)
(*                                                                         *)
(* Who may call (owner authentication, tokens, proofs, nonces, the request *)
(* rate) is abstracted: a request that is turned away is Look or Refuse.   *)
(***************************************************************************)
EXTENDS FriendStore

CONSTANTS
  InvitationIDs,     \* random invitation IDs
  RequestIDs,        \* random join request IDs
  Readers,           \* goroutines of the handlers that wait for the source
  None,              \* "no ID"
  SourceSlots,       \* capacity of sourceSlots
  InvitationLife,    \* invitationLifeMS, and how long terminal records stay
  ReadInterval,      \* the second between two reads of one grant
  Durations,         \* the sharing durations an invitation may ask for
  Offers,            \* the sets of categories an invitation may offer
  ReturnOffers,      \* whether a join request brings a return invitation
  MaxTime,           \* bound of the clock
  MaxRoutes,         \* bound of the route revisions
  PositionTimes,     \* when TeslaMate may store a position
  RouteTimes,        \* when a route message may arrive
  Faults             \* "crash", "save", "clock"

ASSUME ServiceLimits ==
  /\ {SourceSlots, InvitationLife, ReadInterval, MaxTime} \subseteq Nat \ {0}
  /\ Durations \subseteq 1..MaxGrantLifetime /\ Offers \subseteq SUBSET Optional
  /\ MaxRoutes \in Nat /\ ReturnOffers \subseteq BOOLEAN
  /\ PositionTimes \cup RouteTimes \subseteq Nat
  /\ IsFiniteSet(InvitationIDs) /\ IsFiniteSet(RequestIDs)
  /\ None \notin InvitationIDs \cup RequestIDs \cup GrantIDs

Times == 1..MaxTime

Invitation == [held : {TRUE}, until : Nat, duration : Durations,
               allowed : SUBSET Optional, used : BOOLEAN]
Request == [held : {TRUE}, invitation : InvitationIDs, until : Nat,
            status : {"pending", "approved", "rejected", "expired"},
            grant : GrantIDs \cup {None}]
Grant == [held : {TRUE}, request : RequestIDs, from : Nat, until : Nat,
          status : {"active", "expired", "revoked"}, revision : 1..(MaxRevision + 1),
          allowed : SUBSET Optional, readAt : Nat]
Service == [last        : Nat,
            invitations : [InvitationIDs -> Invitation \cup {NoRecord}],
            requests    : [RequestIDs -> Request \cup {NoRecord}],
            grants      : [GrantIDs -> Grant \cup {NoRecord}],
            returns     : SUBSET RequestIDs]

Idle == [pc |-> "idle"]
Asking == [pc : {"asking"}, allowed : SUBSET Optional, duration : Durations]
Waiting == [pc : {"waiting", "answered"}, grant : GrantIDs,
            revision : 1..MaxRevision, from : Nat, source : Reading]
Nothing == [motion |-> 0, route |-> 0, routeAt |-> 0]

NothingShown == [motion |-> 0, route |-> 0, routeAt |-> 0, over |-> FALSE]
NoSnapshot == [held |-> FALSE]
Snapshot == [held : {TRUE}, grant : GrantIDs, allowed : SUBSET Optional,
             out : Reading]

VARIABLES
  clock,      \* s.now()
  svc,        \* s.state, with returnInvitations and the read marks
  disk,       \* the journal
  healthy,    \* s.healthy; FALSE too when the service could not be set up
  store,      \* s.store
  readers,    \* where each waiting handler is, and what it captured
  vehicle,    \* newest observations of the vehicle source (external)
  origin,     \* the invitation each request was ever made from
  basis,      \* the request each grant was ever made from
  ended,      \* grants whose stop was acknowledged
  shown,      \* the newest of all that each guest was shown
  served      \* the snapshot this step hands out

consent == <<svc, disk, healthy, store>>
past == <<origin, basis, ended, shown>>
vars == <<clock, consent, readers, vehicle, past, served>>

-----------------------------------------------------------------------------
(* Helpers on the service state *)

Held(records) == {id \in DOMAIN records : records[id].held}
Pending(s) == {r \in Held(s.requests) : s.requests[r].status = "pending"}
Live(s) == {g \in Held(s.grants) : s.grants[g].status = "active"}
RequestsOn(s, i) == {r \in Held(s.requests) : s.requests[r].invitation = i}
Busy == {r \in Readers : readers[r].pc # "idle"}

(* What the journal holds: neither return invitations nor read marks.      *)
Durable(s) ==
  [last |-> s.last, invitations |-> s.invitations, requests |-> s.requests,
   grants |-> [g \in GrantIDs |-> IF s.grants[g].held
                                  THEN [s.grants[g] EXCEPT !.readAt = 0]
                                  ELSE NoRecord],
   returns |-> {}]

(* Mutation: a grant that expires keeps its return invitation. *)
LapsedKeepsReturns(s, now) ==
  LET overdue == {r \in Pending(s) : s.requests[r].until <= now}
      over    == {g \in Live(s) : s.grants[g].until <= now}
  IN [s EXCEPT
        !.requests = [r \in RequestIDs |->
           IF r \in overdue THEN [s.requests[r] EXCEPT !.status = "expired"]
           ELSE s.requests[r]],
        !.grants = [g \in GrantIDs |->
           IF g \in over THEN [s.grants[g] EXCEPT !.status = "expired"]
           ELSE s.grants[g]],
        !.returns = s.returns \ overdue]

(* expireLocked, first half: what is over becomes terminal.                *)
Lapsed(s, now) ==
  LET overdue == {r \in Pending(s) : s.requests[r].until <= now}
      over    == {g \in Live(s) : s.grants[g].until <= now}
  IN [s EXCEPT
        !.requests = [r \in RequestIDs |->
           IF r \in overdue THEN [s.requests[r] EXCEPT !.status = "expired"]
           ELSE s.requests[r]],
        !.grants = [g \in GrantIDs |->
           IF g \in over THEN [s.grants[g] EXCEPT !.status = "expired"]
           ELSE s.grants[g]],
        !.returns = s.returns \ (overdue \cup {s.grants[g].request : g \in over})]

(* expireLocked, second half: terminal records go after a while, a request *)
(* after its grant and an invitation after its requests.                   *)
Reclaimed(s, cutoff) ==
  LET grants == {g \in Held(s.grants) \ Live(s) : s.grants[g].until <= cutoff}
      requests == {r \in Held(s.requests) \ Pending(s) :
                     /\ s.requests[r].until <= cutoff
                     /\ s.requests[r].grant \notin Held(s.grants) \ grants}
      invitations == {i \in Held(s.invitations) :
                        /\ s.invitations[i].until <= cutoff
                        /\ RequestsOn(s, i) \subseteq requests}
  IN [last        |-> s.last,
      invitations |-> [i \in InvitationIDs |->
                         IF i \in invitations THEN NoRecord ELSE s.invitations[i]],
      requests    |-> [r \in RequestIDs |->
                         IF r \in requests THEN NoRecord ELSE s.requests[r]],
      grants      |-> [g \in GrantIDs |->
                         IF g \in grants THEN NoRecord ELSE s.grants[g]],
      returns     |-> s.returns \ requests]

(* The opening of every handler: the time is noted and expireLocked runs.  *)
(* Opened is the state it leaves, none if the service is shut; an action   *)
(* that has s among its parameters goes on from there.                     *)
Cutoff == clock - InvitationLife
Open == healthy /\ svc.last <= clock
Swept == Reclaimed(Lapsed([svc EXCEPT !.last = clock], clock), Cutoff)
SweptStore == Prune(store, Cutoff)
Opened == IF Open THEN {Swept} ELSE {}

(* The limit of 64 of each kind.                                           *)
Room(s) == /\ Cardinality(Held(s.invitations)) < MaxRecords
           /\ Cardinality(Held(s.requests)) < MaxRecords
           /\ Cardinality(Held(s.grants)) < MaxRecords

-----------------------------------------------------------------------------
(* Saving and restarting *)

(* saveLocked writes a temporary file, renames it and syncs the directory: *)
(* a failure leaves the old journal, or the new one if only the sync       *)
(* failed, and shuts the service either way.                               *)
Outcomes == {"saved"} \cup IF "save" \in Faults THEN {"lost", "unsure"} ELSE {}

SaveOver(written, s, outcome) ==
  /\ svc' = [s EXCEPT !.last = clock']
  /\ disk' = IF outcome = "lost" THEN written
             ELSE Durable([s EXCEPT !.last = clock'])
  /\ healthy' = (outcome = "saved")

Save(s, outcome) == SaveOver(disk, s, outcome)

(* Mutation: a restart leaves the invitations usable. *)
RestartedOpen(d) ==
  [d EXCEPT
     !.requests = [r \in RequestIDs |->
        IF d.requests[r].held THEN [d.requests[r] EXCEPT !.status = "expired"]
        ELSE NoRecord],
     !.grants = [g \in GrantIDs |->
        IF g \in Live(d)
        THEN [d.grants[g] EXCEPT !.status = "revoked",
                                 !.revision = d.grants[g].revision + 1]
        ELSE d.grants[g]]]

(* NewHTTPService ends everything the journal holds.                       *)
Restarted(d) ==
  [d EXCEPT
     !.invitations = [i \in InvitationIDs |->
        IF d.invitations[i].held THEN [d.invitations[i] EXCEPT !.used = TRUE]
        ELSE NoRecord],
     !.requests = [r \in RequestIDs |->
        IF d.requests[r].held THEN [d.requests[r] EXCEPT !.status = "expired"]
        ELSE NoRecord],
     !.grants = [g \in GrantIDs |->
        IF g \in Live(d)
        THEN [d.grants[g] EXCEPT !.status = "revoked",
                                 !.revision = d.grants[g].revision + 1]
        ELSE d.grants[g]]]

NoConsent == [last |-> 0,
              invitations |-> [i \in InvitationIDs |-> NoRecord],
              requests |-> [r \in RequestIDs |-> NoRecord],
              grants |-> [g \in GrantIDs |-> NoRecord],
              returns |-> {}]

Init ==
  /\ clock = 1
  /\ svc = [NoConsent EXCEPT !.last = 1]
  /\ disk = [NoConsent EXCEPT !.last = 1]
  /\ healthy = TRUE
  /\ store = EmptyStore
  /\ readers = [r \in Readers |-> Idle]
  /\ vehicle = [at |-> 0, route |-> 0, routeAt |-> 0, active |-> FALSE]
  /\ origin = [r \in RequestIDs |-> None]
  /\ basis = [g \in GrantIDs |-> None]
  /\ ended = {}
  /\ shown = [g \in GrantIDs |-> NothingShown]
  /\ served = NoSnapshot

-----------------------------------------------------------------------------
(* The environment *)

Tick ==
  /\ clock < MaxTime
  /\ clock' = clock + 1
  /\ served' = NoSnapshot
  /\ UNCHANGED <<consent, readers, vehicle, past>>

SetBack ==
  /\ "clock" \in Faults /\ clock > 1
  /\ clock' = clock - 1
  /\ served' = NoSnapshot
  /\ UNCHANGED <<consent, readers, vehicle, past>>

(* TeslaMate stores a position.                                            *)
Drive ==
  /\ vehicle.at < clock /\ clock \in PositionTimes
  /\ vehicle' = [vehicle EXCEPT !.at = clock]
  /\ served' = NoSnapshot
  /\ UNCHANGED <<clock, consent, readers, past>>

(* observeNavigationForGeneration: a live route message; another           *)
(* destination, or one after a withdrawal, is a new revision.              *)
RouteSeen(another) ==
  /\ vehicle.routeAt <= clock /\ clock \in RouteTimes
  /\ vehicle.route < MaxRoutes \/ (vehicle.active /\ ~another)
  /\ vehicle' = [vehicle EXCEPT !.routeAt = clock, !.active = TRUE,
                   !.route = IF vehicle.active /\ ~another THEN vehicle.route
                             ELSE vehicle.route + 1]
  /\ served' = NoSnapshot
  /\ UNCHANGED <<clock, consent, readers, past>>

(* A message without a route, or the connection the route came on is lost. *)
RouteGone(message) ==
  /\ vehicle.active
  /\ message => vehicle.routeAt <= clock /\ clock \in RouteTimes
  /\ vehicle' = [vehicle EXCEPT !.active = FALSE,
                   !.routeAt = IF message THEN clock ELSE vehicle.routeAt]
  /\ served' = NoSnapshot
  /\ UNCHANGED <<clock, consent, readers, past>>

(* The process restarts.  If the journal cannot be written, or is from     *)
(* the future, the service is not set up.                                  *)
Restart(outcome) ==
  /\ "crash" \in Faults
  /\ clock' = clock
  /\ IF disk.last <= clock
     THEN Save(Restarted(disk), outcome)
     ELSE svc' = Restarted(disk) /\ healthy' = FALSE /\ disk' = disk
  /\ store' = EmptyStore
  /\ readers' = [r \in Readers |-> Idle]
  /\ vehicle' = [vehicle EXCEPT !.active = FALSE, !.route = 0, !.routeAt = 0]
  /\ served' = NoSnapshot
  /\ UNCHANGED past

-----------------------------------------------------------------------------
(* Requests that change nothing of their own *)

(* One that is answered from the state, or turned away.                    *)
Look(s) ==
  /\ svc' = s /\ store' = SweptStore
  /\ served' = NoSnapshot
  /\ UNCHANGED <<clock, disk, healthy, readers, vehicle, past>>

(* GET status and Ready: the time is noted, nothing is swept.              *)
Status ==
  /\ Open
  /\ svc' = [svc EXCEPT !.last = clock]
  /\ served' = NoSnapshot
  /\ UNCHANGED <<clock, disk, healthy, store, readers, vehicle, past>>

(* The clock went back: the service is shut until a restart.               *)
Refuse ==
  /\ clock < svc.last
  /\ healthy' = FALSE
  /\ served' = NoSnapshot
  /\ UNCHANGED <<clock, svc, disk, store, readers, vehicle, past>>

-----------------------------------------------------------------------------
(* Requests that change the consent.  What follows the opening reads the   *)
(* clock again, at clock'.                                                 *)
MovesOn == clock' \in Times \cap {clock, clock + 1}

(* createInvitationLocked, up to the unlock around OwnsCar.                *)
BeginInvite(s, r, allowed, duration) ==
  /\ readers[r].pc = "idle" /\ Cardinality(Busy) < SourceSlots
  /\ Room(s)
  /\ readers' = [readers EXCEPT ![r] =
                   [pc |-> "asking", allowed |-> allowed, duration |-> duration]]
  /\ svc' = s /\ store' = SweptStore
  /\ served' = NoSnapshot
  /\ UNCHANGED <<clock, disk, healthy, vehicle, past>>

NewInvitation(asked) ==
  [held |-> TRUE, until |-> clock' + InvitationLife, duration |-> asked.duration,
   allowed |-> asked.allowed, used |-> FALSE]

(* Mutation: the limits are not looked at again after OwnsCar. *)
FinishInviteUnchecked(s, r, i, outcome) ==
  /\ readers[r].pc = "asking"
  /\ MovesOn
  /\ i \notin Held(svc.invitations) /\ \A q \in RequestIDs : origin[q] # i
  /\ Save([s EXCEPT !.invitations =
             [s.invitations EXCEPT ![i] = NewInvitation(readers[r])]], outcome)
  /\ store' = SweptStore
  /\ readers' = [readers EXCEPT ![r] = Idle]
  /\ served' = NoSnapshot
  /\ UNCHANGED <<vehicle, past>>

(* createInvitationLocked, after it: the car is the owner's.               *)
FinishInvite(s, r, i, outcome) ==
  /\ readers[r].pc = "asking"
  /\ MovesOn
  /\ Room(s)
  /\ i \notin Held(svc.invitations) /\ \A q \in RequestIDs : origin[q] # i
  /\ Save([s EXCEPT !.invitations =
             [s.invitations EXCEPT ![i] = NewInvitation(readers[r])]], outcome)
  /\ store' = SweptStore
  /\ readers' = [readers EXCEPT ![r] = Idle]
  /\ served' = NoSnapshot
  /\ UNCHANGED <<vehicle, past>>

(* redeemLocked: the invitation is spent on one pending request.           *)
Redeem(s, i, r, returns, outcome) ==
  /\ origin[r] = None
  /\ MovesOn
  /\ i \in Held(s.invitations)
  /\ ~s.invitations[i].used /\ clock' < s.invitations[i].until
  /\ Cardinality(Held(s.requests)) < MaxRecords
  /\ Save([s EXCEPT
             !.invitations = [s.invitations EXCEPT ![i] =
                                [s.invitations[i] EXCEPT !.used = TRUE]],
             !.requests = [s.requests EXCEPT ![r] =
                [held |-> TRUE, invitation |-> i, status |-> "pending",
                 until |-> s.invitations[i].until, grant |-> None]],
             !.returns = IF returns THEN s.returns \cup {r} ELSE s.returns],
          outcome)
  /\ origin' = [origin EXCEPT ![r] = i]
  /\ store' = SweptStore
  /\ served' = NoSnapshot
  /\ UNCHANGED <<readers, vehicle, basis, ended, shown>>

(* decideRequestLocked: what both decisions require of the request.        *)
Decidable(s, r) ==
  /\ MovesOn
  /\ r \in Pending(s) /\ clock' < s.requests[r].until

Reject(s, r, outcome) ==
  /\ Decidable(s, r)
  /\ Save([s EXCEPT !.requests = [s.requests EXCEPT ![r] =
                           [s.requests[r] EXCEPT !.status = "rejected"]],
                        !.returns = s.returns \ {r}], outcome)
  /\ store' = SweptStore
  /\ served' = NoSnapshot
  /\ UNCHANGED <<readers, vehicle, past>>

(* Mutation: the approval relies on the sweep for the expiry. *)
ApprovableSwept(s, r, g) ==
  /\ MovesOn
  /\ r \in Pending(s)
  /\ s.requests[r].invitation \in Held(s.invitations)
  /\ LET i == s.requests[r].invitation
     IN CanCreate(SweptStore, g, clock' + s.invitations[i].duration, clock')

(* An approval that gets as far as the policy store, and is let in.        *)
Approvable(s, r, g) ==
  /\ Decidable(s, r)
  /\ s.requests[r].invitation \in Held(s.invitations)
  /\ LET i == s.requests[r].invitation
     IN /\ clock' < s.invitations[i].until
        /\ CanCreate(SweptStore, g, clock' + s.invitations[i].duration, clock')

Consented(s, r, g) ==
  LET inv == s.invitations[s.requests[r].invitation]
  IN Create(SweptStore, g, inv.allowed, clock' + inv.duration, clock')

Approve(s, r, g, outcome) ==
  /\ basis[g] = None /\ Approvable(s, r, g)
  /\ store' = Consented(s, r, g)
  /\ Save([s EXCEPT
             !.requests = [s.requests EXCEPT ![r] =
                [s.requests[r] EXCEPT !.status = "approved", !.grant = g]],
             !.grants = [s.grants EXCEPT ![g] =
                [held |-> TRUE, request |-> r, from |-> store'[g].from,
                 until |-> store'[g].until, status |-> "active",
                 revision |-> store'[g].revision, allowed |-> store'[g].allowed,
                 readAt |-> 0]]], outcome)
  /\ basis' = [basis EXCEPT ![g] = r]
  /\ served' = NoSnapshot
  /\ UNCHANGED <<readers, vehicle, origin, ended, shown>>

(* The owner device named in the approval is not the invitation's: the     *)
(* request is refused, after the policy store has created the grant.       *)
ApproveMismatched(s, r, g) ==
  /\ basis[g] = None /\ Approvable(s, r, g)
  /\ store' = Consented(s, r, g)
  /\ svc' = s
  /\ served' = NoSnapshot
  /\ UNCHANGED <<disk, healthy, readers, vehicle, past>>

-----------------------------------------------------------------------------
(* Restricting and stopping *)

(* Mutation: the new revision is not copied into the record. *)
RestrictedStale(s, g, after) ==
  [s EXCEPT !.grants = [s.grants EXCEPT ![g] =
     [s.grants[g] EXCEPT !.until = after[g].until, !.allowed = after[g].allowed]]]

(* restrictLocked, after the policy store restricted the grant.            *)
RestrictedIn(s, g, after) ==
  [s EXCEPT !.grants = [s.grants EXCEPT ![g] =
     [s.grants[g] EXCEPT !.revision = after[g].revision,
                         !.until = after[g].until, !.allowed = after[g].allowed]]]

RestrictGrant(s, g, outcome) ==
  /\ MovesOn
  /\ g \in Live(s)
  /\ \E allowed \in SUBSET Optional, until \in 1..(MaxTime + MaxGrantLifetime) :
       /\ MayRestrict(SweptStore, g, s.grants[g].revision, allowed, until, clock')
       /\ store' = Restrict(SweptStore, g, allowed, until, clock')
  /\ Save(RestrictedIn(s, g, store'), outcome)
  /\ served' = NoSnapshot
  /\ UNCHANGED <<readers, vehicle, past>>

(* The grant lapsed since the sweep: the policy store notices and refuses. *)
RestrictTooLate(s, g) ==
  /\ MovesOn
  /\ g \in Live(s) /\ Matches(SweptStore, g, s.grants[g].revision)
  /\ ~Active(SweptStore[g], clock')
  /\ svc' = s /\ store' = Noticed(SweptStore, g, clock')
  /\ served' = NoSnapshot
  /\ UNCHANGED <<disk, healthy, readers, vehicle, past>>

(* revokeLocked on a set of grants: those that are not active are left.    *)
RevokedIn(s, gs) ==
  [s EXCEPT
     !.grants = [g \in GrantIDs |->
        IF g \in gs \cap Live(s)
        THEN [s.grants[g] EXCEPT !.status = "revoked",
                !.revision = NextRevision(s.grants[g].revision)]
        ELSE s.grants[g]],
     !.returns = s.returns \ {s.grants[g].request : g \in gs \cap Live(s)}]

RevokedAll(st, s, gs) ==
  [g \in GrantIDs |-> IF g \in gs \cap Live(s) THEN Revoke(st, g)[g] ELSE st[g]]

(* revokeLocked fails, and shuts the service, if the policy store does not *)
(* know the grant at the revision of the record.                           *)
Revocable(s, g) == Matches(SweptStore, g, s.grants[g].revision)

(* Mutation: the stop is acknowledged before it is durable. *)
StopEager(s, g, outcome) ==
  /\ MovesOn
  /\ g \in Live(s) /\ Revocable(s, g)
  /\ svc' = RevokedIn(s, {g}) /\ store' = RevokedAll(SweptStore, s, {g})
  /\ outcome = "saved" /\ UNCHANGED <<disk, healthy>>
  /\ ended' = ended \cup {g}
  /\ served' = NoSnapshot
  /\ UNCHANGED <<readers, vehicle, origin, basis, shown>>

(* The owner revokes, or the guest leaves.                                 *)
Stop(s, g, outcome) ==
  /\ MovesOn
  /\ g \in Live(s) /\ Revocable(s, g)
  /\ Save(RevokedIn(s, {g}), outcome)
  /\ store' = RevokedAll(SweptStore, s, {g})
  /\ ended' = IF outcome = "saved" THEN ended \cup {g} ELSE ended
  /\ served' = NoSnapshot
  /\ UNCHANGED <<readers, vehicle, origin, basis, shown>>

(* It was over already: the same answer, and nothing to save.              *)
StopAgain(s, g) ==
  /\ g \in Held(s.grants) \ Live(s)
  /\ svc' = s /\ store' = SweptStore
  /\ ended' = ended \cup {g}
  /\ served' = NoSnapshot
  /\ UNCHANGED <<clock, disk, healthy, readers, vehicle, origin, basis, shown>>

GrantsOf(s, rs) == {s.requests[r].grant : r \in rs} \cap Held(s.grants)

(* A cancellation saves once for the grant it revokes and once at its end. *)
(* If the first fails it is Stop that failed; if the second does, the      *)
(* journal has what the first wrote.                                       *)
Written(s, gs) ==
  IF gs \cap Live(s) = {} THEN disk
  ELSE Durable([RevokedIn(s, gs) EXCEPT !.last = clock'])

(* The owner cancels an invitation, and with it what was made from it.     *)
CancelInvitation(s, i, outcome) ==
  /\ MovesOn
  /\ LET rs == RequestsOn(s, i)
         gs == GrantsOf(s, rs)
         over == RevokedIn(s, gs)
     IN /\ \A g \in gs \cap Live(s) : Revocable(s, g)
        /\ SaveOver(Written(s, gs),
             [over EXCEPT
                !.invitations = [j \in InvitationIDs |->
                   IF j = i /\ s.invitations[i].held
                   THEN [s.invitations[i] EXCEPT !.used = TRUE]
                   ELSE s.invitations[j]],
                !.requests = [r \in RequestIDs |->
                   IF r \in rs \cap Pending(s)
                   THEN [s.requests[r] EXCEPT !.status = "rejected"]
                   ELSE s.requests[r]],
                !.returns = over.returns \ rs], outcome)
        /\ store' = RevokedAll(SweptStore, s, gs)
  /\ ended' = IF outcome = "saved"
              THEN ended \cup {g \in GrantIDs : basis[g] # None
                                                 /\ origin[basis[g]] = i}
              ELSE ended
  /\ served' = NoSnapshot
  /\ UNCHANGED <<readers, vehicle, origin, basis, shown>>

(* The guest withdraws the request, and stops the grant made from it.      *)
CancelRequest(s, r, outcome) ==
  /\ MovesOn
  /\ LET gs == GrantsOf(s, {r})
         over == RevokedIn(s, gs)
     IN /\ r \in Held(s.requests)
        /\ \A g \in gs \cap Live(s) : Revocable(s, g)
        /\ SaveOver(Written(s, gs),
             [over EXCEPT
                !.requests = [s.requests EXCEPT ![r] =
                   [s.requests[r] EXCEPT !.status = "rejected"]],
                !.returns = over.returns \ {r}], outcome)
        /\ store' = RevokedAll(SweptStore, s, gs)
  /\ ended' = IF outcome = "saved"
              THEN ended \cup {g \in GrantIDs : basis[g] = r} ELSE ended
  /\ served' = NoSnapshot
  /\ UNCHANGED <<readers, vehicle, origin, basis, shown>>

-----------------------------------------------------------------------------
(* Reading a snapshot *)

(* serveGuest, up to the unlock around ReadSource.  A grant's read mark is *)
(* set before the answer is known.                                         *)
BeginRead(s, r, g) ==
  /\ MovesOn
  /\ readers[r].pc = "idle" /\ Cardinality(Busy) < SourceSlots
  /\ g \in Live(s)
  /\ LET row == s.grants[g] IN
     /\ row.readAt = 0 \/ clock' - row.readAt >= ReadInterval
     /\ svc' = [s EXCEPT !.grants = [s.grants EXCEPT ![g] =
                                [row EXCEPT !.readAt = clock']]]
     /\ readers' = [readers EXCEPT ![r] =
          [pc |-> "waiting", grant |-> g, revision |-> row.revision,
           from |-> row.from, source |-> Nothing]]
  /\ store' = SweptStore
  /\ served' = NoSnapshot
  /\ UNCHANGED <<disk, healthy, vehicle, past>>

(* ReadSource: the newest position since consent, and the route as it is.  *)
SourceAnswers(r) ==
  /\ readers[r].pc = "waiting"
  /\ readers' = [readers EXCEPT ![r] = [readers[r] EXCEPT !.pc = "answered",
       !.source =
         [motion  |-> IF vehicle.at >= readers[r].from THEN vehicle.at ELSE 0,
          route   |-> IF vehicle.active THEN vehicle.route ELSE 0,
          routeAt |-> IF vehicle.active THEN vehicle.routeAt ELSE 0]]]
  /\ served' = NoSnapshot
  /\ UNCHANGED <<clock, consent, vehicle, past>>

(* What a guest who keeps the newest of everything has after a snapshot.   *)
Updated(was, out) ==
  [motion  |-> IF out.motion > 0 THEN out.motion ELSE was.motion,
   route   |-> IF out.route > 0 THEN out.route ELSE was.route,
   routeAt |-> IF out.route > 0 THEN out.routeAt ELSE was.routeAt,
   over    |-> was.route > 0 /\ out.route = 0]

(* serveGuest, after the source answered: everything is checked again.     *)
FinishRead(s, r) ==
  /\ readers[r].pc = "answered"
  /\ MovesOn
  /\ LET g == readers[r].grant  source == readers[r].source IN
     /\ g \in Live(s) /\ s.grants[g].revision = readers[r].revision
     /\ MayProject(SweptStore, g, readers[r].revision, source, clock')
     /\ store' = Project(SweptStore, g, source, clock')
     /\ served' = [held |-> TRUE, grant |-> g, allowed |-> store'[g].allowed,
                   out |-> Projected(SweptStore[g], source)]
     /\ shown' = [shown EXCEPT ![g] = Updated(shown[g], served'.out)]
  /\ svc' = [s EXCEPT !.last = clock']
  /\ readers' = [readers EXCEPT ![r] = Idle]
  /\ UNCHANGED <<disk, healthy, vehicle, origin, basis, ended>>

(* The handler that waited is turned away: the source failed or its answer *)
(* is of no use any more,                                                  *)
Abandon(s, r) ==
  /\ readers[r].pc # "idle"
  /\ readers' = [readers EXCEPT ![r] = Idle]
  /\ svc' = s /\ store' = SweptStore
  /\ served' = NoSnapshot
  /\ UNCHANGED <<clock, disk, healthy, vehicle, past>>

(* or the service has been shut meanwhile, or the clock set back.          *)
AbandonShut(r) ==
  /\ ~Open
  /\ readers[r].pc # "idle"
  /\ readers' = [readers EXCEPT ![r] = Idle]
  /\ healthy' = FALSE
  /\ served' = NoSnapshot
  /\ UNCHANGED <<clock, svc, disk, store, vehicle, past>>

(* The grant lapsed since the sweep: the policy store notices and refuses. *)
ReadTooLate(s, r) ==
  /\ readers[r].pc = "answered"
  /\ MovesOn
  /\ LET g == readers[r].grant IN
     /\ g \in Live(s) /\ s.grants[g].revision = readers[r].revision
     /\ Matches(SweptStore, g, readers[r].revision)
     /\ ~Active(SweptStore[g], clock')
     /\ store' = Noticed(SweptStore, g, clock')
  /\ svc' = s
  /\ readers' = [readers EXCEPT ![r] = Idle]
  /\ served' = NoSnapshot
  /\ UNCHANGED <<disk, healthy, vehicle, past>>

-----------------------------------------------------------------------------
(* The requests that save, and those that do not.                          *)
Saving(s, outcome) ==
  \/ \E r \in Readers, i \in InvitationIDs : FinishInvite(s, r, i, outcome)
  \/ \E i \in Held(s.invitations), r \in RequestIDs, returns \in ReturnOffers :
       Redeem(s, i, r, returns, outcome)
  \/ \E r \in Held(s.requests) :
       \/ Reject(s, r, outcome) \/ CancelRequest(s, r, outcome)
       \/ \E g \in GrantIDs : Approve(s, r, g, outcome)
  \/ \E g \in Live(s) : Stop(s, g, outcome) \/ RestrictGrant(s, g, outcome)
  \/ \E i \in InvitationIDs : CancelInvitation(s, i, outcome)

Passing(s) ==
  \/ Look(s)
  \/ \E r \in Pending(s), g \in GrantIDs : ApproveMismatched(s, r, g)
  \/ \E g \in Held(s.grants) : StopAgain(s, g) \/ RestrictTooLate(s, g)
  \/ \E r \in Readers :
       \/ FinishRead(s, r) \/ ReadTooLate(s, r) \/ Abandon(s, r)
       \/ \E g \in Live(s) : BeginRead(s, r, g)
       \/ \E allowed \in Offers, duration \in Durations :
            BeginInvite(s, r, allowed, duration)

Next ==
  \/ Tick \/ SetBack \/ Drive \/ Status \/ Refuse
  \/ \E yes \in BOOLEAN : RouteSeen(yes) \/ RouteGone(yes)
  \/ \E outcome \in Outcomes : Restart(outcome)
  \/ \E r \in Readers : SourceAnswers(r) \/ AbandonShut(r)
  \/ \E s \in Opened :
       Passing(s) \/ \E outcome \in Outcomes : Saving(s, outcome)

Spec == Init /\ [][Next]_vars

-----------------------------------------------------------------------------
(* Properties *)

(* Every variable has the shape the code's types give it.                  *)
TypeOK ==
  /\ clock \in Times
  /\ svc \in Service /\ disk \in Service
  /\ healthy \in BOOLEAN
  /\ store \in StoreType
  /\ readers \in [Readers -> {Idle} \cup Asking \cup Waiting]
  /\ vehicle \in [at : Nat, route : 0..MaxRoutes, routeAt : Nat, active : BOOLEAN]
  /\ origin \in [RequestIDs -> InvitationIDs \cup {None}]
  /\ basis \in [GrantIDs -> RequestIDs \cup {None}]
  /\ ended \subseteq GrantIDs
  /\ shown \in [GrantIDs -> [motion : Nat, route : Nat, routeAt : Nat,
                              over : BOOLEAN]]
  /\ served \in Snapshot \cup {NoSnapshot}

(* The limit of 64 holds for each kind of record and for the policy store, *)
(* although an invitation is counted in while the lock is given up for     *)
(* OwnsCar and a grant in two stores that are cleaned at different lines.  *)
WithinCapacity ==
  /\ \A s \in {svc, disk} :
       /\ Cardinality(Held(s.invitations)) <= MaxRecords
       /\ Cardinality(Held(s.requests)) <= MaxRecords
       /\ Cardinality(Held(s.grants)) <= MaxRecords
  /\ Cardinality(Known(store)) <= MaxRecords

(* An invitation is good for one request and a request for one grant, over *)
(* failed saves, cleanups and restarts from an older journal.              *)
SpentOnce ==
  /\ \A p, q \in RequestIDs : origin[p] = origin[q] /\ p # q => origin[p] = None
  /\ \A g, h \in GrantIDs : basis[g] = basis[h] /\ g # h => basis[g] = None

(* What the service answers from and what the policy store decides by are  *)
(* two copies of a grant.  They agree on every grant that is active, so a  *)
(* stop never fails for a revision that is out of step.                    *)
StoresAgree ==
  \A g \in Live(svc) : healthy =>
    /\ g \in Known(store) /\ ~store[g].revoked
    /\ store[g].revision = svc.grants[g].revision
    /\ store[g].from = svc.grants[g].from /\ store[g].until = svc.grants[g].until
    /\ store[g].allowed = svc.grants[g].allowed

(* A guest authenticates by the request record and the owner cancels by    *)
(* the invitation: a grant never outlives the records it is reached by,    *)
(* and never lasts longer than the invitation's expiry and its duration.   *)
ReachableConsent ==
  \A s \in {svc, disk} :
    /\ \A g \in Held(s.grants) :
         LET q == s.grants[g].request IN
         /\ q \in Held(s.requests) /\ s.requests[q].grant = g
         /\ s.requests[q].invitation \in Held(s.invitations)
         /\ LET i == s.requests[q].invitation
            IN s.grants[g].until < s.invitations[i].until + s.invitations[i].duration
    /\ \A q \in Held(s.requests) :
         s.requests[q].invitation \in Held(s.invitations)

(* The return invitation, which holds a secret in the clear, is forgotten  *)
(* when the request is decided against or what came of it has ended.       *)
SecretsAreForgotten ==
  \A q \in svc.returns :
    /\ q \in Held(svc.requests)
    /\ \/ svc.requests[q].status = "pending"
       \/ svc.requests[q].grant \in Live(svc)

(* Whatever happened while the source was read, a snapshot is handed out   *)
(* only for a grant that is active at that moment, not past its expiry,    *)
(* not acknowledged as stopped, and only with what is permitted now; and   *)
(* it holds nothing from before consent.                                   *)
ServedInForce ==
  served.held =>
    LET g == served.grant IN
    /\ g \in Live(svc) /\ clock < svc.grants[g].until /\ g \notin ended
    /\ served.allowed = svc.grants[g].allowed
    /\ served.out.motion # 0 => served.out.motion >= svc.grants[g].from
    /\ served.out.route # 0 => /\ "navigation" \in svc.grants[g].allowed
                               /\ served.out.routeAt >= svc.grants[g].from

(* Reads of one grant may overlap and finish in the other order.  What the *)
(* guest is shown never goes back: not to an older position, not to an     *)
(* older route, and not to a route it was shown the end of.                *)
ShownMovesForward ==
  [][served'.held =>
       LET was == shown[served'.grant]  out == served'.out IN
       /\ out.motion # 0 => out.motion >= was.motion
       /\ out.route # 0 => /\ out.route >= was.route
                           /\ out.routeAt >= was.routeAt
                           /\ was.over => out.route > was.route]_vars

(* When a stop is acknowledged the journal does not hold the grant as      *)
(* active, unless it has expired: a crash cannot undo what was confirmed.  *)
StopsAreDurable ==
  [][\A g \in ended' \ ended :
       g \in Live(disk') => disk'.grants[g].until <= clock']_vars

(* A grant that goes on is never widened, in categories or in time, and    *)
(* one that has ended never becomes active again.                          *)
ConsentOnlyShrinks ==
  [][\A g \in GrantIDs : basis[g] # None /\ g \in Live(svc') =>
       /\ g \in Live(svc)
       /\ svc'.grants[g].allowed \subseteq svc.grants[g].allowed
       /\ svc'.grants[g].until <= svc.grants[g].until
       /\ svc'.grants[g].revision >= svc.grants[g].revision]_vars

(* CHANGELOG.md:55 says a mismatched owner device is rejected.  Then the   *)
(* policy store knows no grant that the service does not list.  It does:   *)
(* the store creates the grant before the owner device is compared.        *)
RefusedApprovalLeavesNoGrant == Known(store) \subseteq Held(svc.grants)
=============================================================================
