----------------------------- MODULE FriendStore -----------------------------
(***************************************************************************)
(* The policy store of src/internal/friendtogether/store.go with the       *)
(* projection of projection.go: which grants exist, how they end, and      *)
(* what of a source reading each of them lets through.  Every method holds *)
(* s.mu from start to end, so each is an operator from a store to a store. *)
(*                                                                         *)
(* The scope checks (binding, source, principals) compare values the       *)
(* service copies from its own record; they are abstracted to the grant    *)
(* ID.  Of a snapshot the model keeps what the order checks look at: when  *)
(* the position was observed, and the revision and the time of the route.  *)
(* 0 stands for a time or a revision that is not there.                    *)
(***************************************************************************)
EXTENDS Integers, FiniteSets

CONSTANTS
  GrantIDs,          \* random grant IDs
  Optional,          \* the categories that are permitted one by one
  MaxRecords,        \* MaxGrants, and the service's limit of 64 of each kind
  MaxRevision,       \* math.MaxInt64, scaled down
  MaxGrantLifetime   \* MaxGrantLifetimeMS

ASSUME StoreLimits ==
  /\ IsFiniteSet(GrantIDs)
  /\ {MaxRecords, MaxRevision, MaxGrantLifetime} \subseteq Nat \ {0}

NoRecord == [held |-> FALSE]

StoreGrant == [held : {TRUE}, revision : 1..MaxRevision, from : Nat, until : Nat,
               allowed : SUBSET Optional, revoked : BOOLEAN, expired : BOOLEAN,
               server : Nat, motion : Nat, route : Nat, routeAt : Nat,
               withdrawn : BOOLEAN]
StoreType == [GrantIDs -> StoreGrant \cup {NoRecord}]
Reading == [motion : Nat, route : Nat, routeAt : Nat]

EmptyStore == [g \in GrantIDs |-> NoRecord]
Known(store) == {g \in GrantIDs : store[g].held}

(* Create: the expiry is absolute, and a known ID is never reassigned.     *)
CanCreate(store, g, until, now) ==
  /\ g \notin Known(store)
  /\ now < until /\ until - now <= MaxGrantLifetime
  /\ Cardinality(Known(store)) < MaxRecords

Create(store, g, allowed, until, now) ==
  [store EXCEPT ![g] =
     [held |-> TRUE, revision |-> 1, from |-> now, until |-> until,
      allowed |-> allowed, revoked |-> FALSE, expired |-> FALSE,
      server |-> now, motion |-> 0, route |-> 0, routeAt |-> 0,
      withdrawn |-> FALSE]]

(* ownerGrant: the grant exists at the revision the caller names.          *)
Matches(store, g, revision) ==
  g \in Known(store) /\ store[g].revision = revision

(* Mutation: a revision that cannot advance wraps. *)
NextRevisionUnguarded(n) == n + 1

(* Revoke works even when the revision cannot advance.                     *)
NextRevision(n) == IF n < MaxRevision THEN n + 1 ELSE n

Revoke(store, g) ==
  IF store[g].revoked THEN store
  ELSE [store EXCEPT ![g] = [store[g] EXCEPT !.revoked = TRUE,
                               !.revision = NextRevision(store[g].revision)]]

(* grant.active, and the mark it leaves on a grant it finds over.          *)
Usable(grant) == ~grant.revoked /\ ~grant.expired
Ordered(grant, now) == grant.from <= now /\ grant.server <= now

Active(grant, now) ==
  Usable(grant) /\ Ordered(grant, now) /\ now < grant.until

Noticed(store, g, now) ==
  IF Usable(store[g]) /\ Ordered(store[g], now) /\ store[g].until <= now
  THEN [store EXCEPT ![g] = [store[g] EXCEPT !.expired = TRUE]]
  ELSE store

(* Mutation: restricting may also extend the expiry. *)
MayRestrictLonger(store, g, revision, allowed, until, now) ==
  /\ Matches(store, g, revision) /\ Active(store[g], now)
  /\ allowed \subseteq store[g].allowed
  /\ now < until
  /\ revision < MaxRevision

(* Restrict removes categories or shortens the expiry, never the reverse.  *)
MayRestrict(store, g, revision, allowed, until, now) ==
  /\ Matches(store, g, revision) /\ Active(store[g], now)
  /\ allowed \subseteq store[g].allowed
  /\ now < until /\ until <= store[g].until
  /\ revision < MaxRevision

Restrict(store, g, allowed, until, now) ==
  [store EXCEPT ![g] = [store[g] EXCEPT !.revision = store[g].revision + 1,
                          !.allowed = allowed, !.until = until, !.server = now]]

-----------------------------------------------------------------------------
(* Mutation: the route is not held against the start of consent. *)
ProjectedEarlier(grant, source) ==
  LET routed == "navigation" \in grant.allowed /\ source.route > 0
  IN [motion  |-> IF source.motion >= grant.from THEN source.motion ELSE 0,
      route   |-> IF routed THEN source.route ELSE 0,
      routeAt |-> IF routed THEN source.routeAt ELSE 0]

(* grant.project: what is from before consent is left out, what is not     *)
(* permitted is left out unread.                                           *)
Projected(grant, source) ==
  LET routed == "navigation" \in grant.allowed /\ source.route > 0
                /\ source.routeAt >= grant.from
  IN [motion  |-> IF source.motion >= grant.from THEN source.motion ELSE 0,
      route   |-> IF routed THEN source.route ELSE 0,
      routeAt |-> IF routed THEN source.routeAt ELSE 0]

FromTheFuture(grant, source, now) ==
  \/ source.motion > now
  \/ "navigation" \in grant.allowed /\ source.routeAt > now

Regressed(current, previous) == current > 0 /\ current < previous

(* Mutation: only the time of the position is compared. *)
InOrderMotionOnly(grant, out) == ~Regressed(out.motion, grant.motion)

(* checkOrder: nothing older than what was shown, and no route that was    *)
(* shown as withdrawn.                                                     *)
InOrder(grant, out) ==
  /\ ~Regressed(out.motion, grant.motion)
  /\ out.route > 0 =>
       /\ ~Regressed(out.routeAt, grant.routeAt)
       /\ out.route >= grant.route
       /\ grant.withdrawn => out.route > grant.route

(* Mutation: the service has checked that the grant is active. *)
MayProjectTrusting(store, g, revision, source, now) ==
  /\ Matches(store, g, revision)
  /\ ~FromTheFuture(store[g], source, now)
  /\ InOrder(store[g], Projected(store[g], source))

MayProject(store, g, revision, source, now) ==
  /\ Matches(store, g, revision) /\ Active(store[g], now)
  /\ ~FromTheFuture(store[g], source, now)
  /\ InOrder(store[g], Projected(store[g], source))

(* Only a complete projection moves the order marks.                       *)
Advance(grant, out, now) ==
  [grant EXCEPT
     !.server    = now,
     !.motion    = IF out.motion > 0 THEN out.motion ELSE grant.motion,
     !.route     = IF out.route > 0 THEN out.route ELSE grant.route,
     !.routeAt   = IF out.route > 0 THEN out.routeAt ELSE grant.routeAt,
     !.withdrawn = out.route = 0 /\ grant.route > 0]

Project(store, g, source, now) ==
  [store EXCEPT ![g] = Advance(store[g], Projected(store[g], source), now)]

(* PruneTerminalBefore releases the tombstones that are long expired.      *)
Prune(store, cutoff) ==
  [g \in GrantIDs |->
     IF store[g].held /\ store[g].until <= cutoff THEN NoRecord ELSE store[g]]
=============================================================================
