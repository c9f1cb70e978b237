------------------------ MODULE FriendTogetherProofs ------------------------
(***************************************************************************)
(* Proofs about FriendTogether for every value of its constants: its types *)
(* with lemmas on what each of its operators returns, and what it promises *)
(* of consent: that it is given once, that both copies of a grant agree    *)
(* and that it only shrinks.  FriendRecordsProofs goes on from here.       *)
(***************************************************************************)
EXTENDS FriendTogether, TLAPS

(* The constants, in the form the leaves below need.                       *)
LEMMA Constants ==
  /\ SourceSlots \in Nat \ {0} /\ InvitationLife \in Nat \ {0}
  /\ ReadInterval \in Nat \ {0} /\ MaxTime \in Nat \ {0}
  /\ MaxRecords \in Nat \ {0} /\ MaxRevision \in Nat \ {0}
  /\ MaxGrantLifetime \in Nat \ {0}
  /\ Durations \subseteq Nat \ {0} /\ Offers \subseteq SUBSET Optional
  /\ MaxRoutes \in Nat
  /\ None \notin InvitationIDs /\ None \notin RequestIDs /\ None \notin GrantIDs
BY StoreLimits, ServiceLimits

-----------------------------------------------------------------------------
(* Types of the service state *)

(* No active grant has used up its revisions: a restart adds one more.     *)
Advanceable(s) == \A g \in Live(s) : s.grants[g].revision <= MaxRevision

LEMMA ServiceShape ==
  ASSUME NEW s \in Service
  PROVE  /\ s.last \in Nat
         /\ s.invitations \in [InvitationIDs -> Invitation \cup {NoRecord}]
         /\ s.requests \in [RequestIDs -> Request \cup {NoRecord}]
         /\ s.grants \in [GrantIDs -> Grant \cup {NoRecord}]
         /\ s.returns \subseteq RequestIDs
BY DEF Service

LEMMA HeldShape ==
  ASSUME NEW s \in Service
  PROVE  /\ Held(s.invitations) = {i \in InvitationIDs : s.invitations[i].held}
         /\ Held(s.requests) = {r \in RequestIDs : s.requests[r].held}
         /\ Held(s.grants) = {g \in GrantIDs : s.grants[g].held}
         /\ \A i \in Held(s.invitations) : s.invitations[i] \in Invitation
         /\ \A r \in Held(s.requests) : s.requests[r] \in Request
         /\ \A g \in Held(s.grants) : s.grants[g] \in Grant
         /\ \A i \in InvitationIDs \ Held(s.invitations) : s.invitations[i] = NoRecord
         /\ \A r \in RequestIDs \ Held(s.requests) : s.requests[r] = NoRecord
         /\ \A g \in GrantIDs \ Held(s.grants) : s.grants[g] = NoRecord
<1>1. NoRecord.held = FALSE
  BY DEF NoRecord
<1>2. \A x \in Invitation \cup Request \cup Grant : x.held = TRUE
  BY DEF Invitation, Request, Grant
<1> QED
  BY <1>1, <1>2, ServiceShape DEF Held

LEMMA RequestStatus ==
  ASSUME NEW q \in Request,
         NEW status \in {"pending", "approved", "rejected", "expired"}
  PROVE  [q EXCEPT !.status = status] \in Request
BY DEF Request

LEMMA GrantStatus ==
  ASSUME NEW x \in Grant, NEW status \in {"active", "expired", "revoked"}
  PROVE  [x EXCEPT !.status = status] \in Grant
BY DEF Grant

LEMMA GrantRevoked ==
  ASSUME NEW x \in Grant, NEW n \in 1..(MaxRevision + 1)
  PROVE  /\ [x EXCEPT !.status = "revoked", !.revision = n] \in Grant
         /\ [x EXCEPT !.status = "revoked", !.revision = n].status = "revoked"
BY DEF Grant

LEMMA GrantRead ==
  ASSUME NEW x \in Grant, NEW n \in Nat
  PROVE  /\ [x EXCEPT !.readAt = n] \in Grant
         /\ [x EXCEPT !.readAt = n].status = x.status
         /\ [x EXCEPT !.readAt = n].revision = x.revision
BY DEF Grant

LEMMA InvitationUsed ==
  ASSUME NEW x \in Invitation
  PROVE  [x EXCEPT !.used = TRUE] \in Invitation
BY DEF Invitation

LEMMA LapsedFields ==
  ASSUME NEW s \in Service, NEW now \in Nat
  PROVE  LET t == Lapsed(s, now) IN
         /\ /\ t.requests \in [RequestIDs -> Request \cup {NoRecord}]
            /\ t.grants \in [GrantIDs -> Grant \cup {NoRecord}]
            => t \in Service
         /\ t.requests = [r \in RequestIDs |-> t.requests[r]]
         /\ t.grants = [g \in GrantIDs |-> t.grants[g]]
         /\ t.last = s.last /\ t.invitations = s.invitations
         /\ t.requests = [r \in RequestIDs |->
              IF r \in {x \in Pending(s) : s.requests[x].until <= now}
              THEN [s.requests[r] EXCEPT !.status = "expired"]
              ELSE s.requests[r]]
         /\ t.grants = [g \in GrantIDs |->
              IF g \in {x \in Live(s) : s.grants[x].until <= now}
              THEN [s.grants[g] EXCEPT !.status = "expired"]
              ELSE s.grants[g]]
         /\ t.returns \subseteq s.returns
<1>1. ASSUME NEW a, NEW b, NEW c
      PROVE  LET t == [s EXCEPT !.requests = [r \in RequestIDs |-> a[r]],
                                !.grants = [g \in GrantIDs |-> b[g]],
                                !.returns = c]
             IN /\ t.requests = [r \in RequestIDs |-> t.requests[r]]
                /\ t.grants = [g \in GrantIDs |-> t.grants[g]]
  BY DEF Service
<1> QED
  BY <1>1 DEF Lapsed, Service

LEMMA LapsedRequests ==
  ASSUME NEW s \in Service, NEW now \in Nat, NEW r \in RequestIDs
  PROVE  LET t == Lapsed(s, now) IN
         /\ r \in Pending(s) /\ s.requests[r].until <= now =>
              t.requests[r] = [s.requests[r] EXCEPT !.status = "expired"]
         /\ ~(r \in Pending(s) /\ s.requests[r].until <= now) =>
              t.requests[r] = s.requests[r]
<1>1. Lapsed(s, now).requests = [x \in RequestIDs |->
              IF x \in {y \in Pending(s) : s.requests[y].until <= now}
              THEN [s.requests[x] EXCEPT !.status = "expired"]
              ELSE s.requests[x]]
  BY LapsedFields
<1> QED
  BY <1>1

LEMMA LapsedGrants ==
  ASSUME NEW s \in Service, NEW now \in Nat, NEW g \in GrantIDs
  PROVE  LET t == Lapsed(s, now) IN
         /\ g \in Live(s) /\ s.grants[g].until <= now =>
              t.grants[g] = [s.grants[g] EXCEPT !.status = "expired"]
         /\ ~(g \in Live(s) /\ s.grants[g].until <= now) =>
              t.grants[g] = s.grants[g]
<1>1. Lapsed(s, now).grants = [x \in GrantIDs |->
              IF x \in {y \in Live(s) : s.grants[y].until <= now}
              THEN [s.grants[x] EXCEPT !.status = "expired"]
              ELSE s.grants[x]]
  BY LapsedFields
<1> QED
  BY <1>1

LEMMA LapsedType ==
  ASSUME NEW s \in Service, Advanceable(s), NEW now \in Nat
  PROVE  Lapsed(s, now) \in Service /\ Advanceable(Lapsed(s, now))
<1> DEFINE t == Lapsed(s, now)
<1>1. ASSUME NEW r \in RequestIDs
      PROVE  t.requests[r] \in Request \cup {NoRecord}
  <2>1. CASE r \in Pending(s) /\ s.requests[r].until <= now
    <3>1. s.requests[r] \in Request
      BY <2>1, HeldShape DEF Pending
    <3>2. t.requests[r] = [s.requests[r] EXCEPT !.status = "expired"]
      BY <2>1, LapsedRequests
    <3> QED
      BY <3>1, <3>2, RequestStatus
  <2>2. CASE ~(r \in Pending(s) /\ s.requests[r].until <= now)
    <3>1. t.requests[r] = s.requests[r]
      BY <2>2, LapsedRequests
    <3> QED
      BY <3>1, ServiceShape
  <2> QED
    BY <2>1, <2>2
<1>2. ASSUME NEW g \in GrantIDs
      PROVE  /\ t.grants[g] \in Grant \cup {NoRecord}
             /\ t.grants[g].held /\ t.grants[g].status = "active" =>
                  g \in Live(s) /\ t.grants[g] = s.grants[g]
  <2>1. CASE g \in Live(s) /\ s.grants[g].until <= now
    <3>1. s.grants[g] \in Grant
      BY <2>1, HeldShape DEF Live
    <3>2. t.grants[g] = [s.grants[g] EXCEPT !.status = "expired"]
      BY <2>1, LapsedGrants
    <3>3. t.grants[g].status = "expired"
      BY <3>1, <3>2 DEF Grant
    <3> QED
      BY <3>1, <3>2, <3>3, GrantStatus
  <2>2. CASE ~(g \in Live(s) /\ s.grants[g].until <= now)
    <3>1. t.grants[g] = s.grants[g]
      BY <2>2, LapsedGrants
    <3> QED
      BY <3>1, ServiceShape, HeldShape DEF Live
  <2> QED
    BY <2>1, <2>2
<1>3. t \in Service
  <2>1. t.requests = [r \in RequestIDs |-> t.requests[r]]
    BY LapsedFields
  <2>2. t.grants = [g \in GrantIDs |-> t.grants[g]]
    BY LapsedFields
  <2>3. t.requests \in [RequestIDs -> Request \cup {NoRecord}]
    BY <1>1, <2>1
  <2>4. t.grants \in [GrantIDs -> Grant \cup {NoRecord}]
    BY <1>2, <2>2
  <2> QED
    BY <2>3, <2>4, LapsedFields
<1>4. ASSUME NEW g \in Live(t) PROVE t.grants[g].revision <= MaxRevision
  <2>1. g \in GrantIDs /\ t.grants[g].held /\ t.grants[g].status = "active"
    BY <1>3, <1>4, HeldShape DEF Live
  <2> QED
    BY <1>2, <2>1 DEF Advanceable
<1> QED
  BY <1>3, <1>4 DEF Advanceable

LEMMA ReclaimedType ==
  ASSUME NEW s \in Service, Advanceable(s), NEW cutoff \in Int
  PROVE  Reclaimed(s, cutoff) \in Service /\ Advanceable(Reclaimed(s, cutoff))
<1> DEFINE t == Reclaimed(s, cutoff)
<1>1. t \in Service
  BY ServiceShape DEF Reclaimed, Service
<1>2. \A g \in GrantIDs : t.grants[g] = s.grants[g] \/ t.grants[g] = NoRecord
  BY DEF Reclaimed
<1>3. ASSUME NEW g \in Live(t) PROVE t.grants[g].revision <= MaxRevision
  <2>1. g \in GrantIDs /\ t.grants[g].held /\ t.grants[g].status = "active"
    BY <1>1, <1>3, HeldShape DEF Live
  <2>2. t.grants[g] = s.grants[g]
    BY <1>2, <2>1 DEF NoRecord
  <2>3. g \in Live(s)
    BY <2>1, <2>2, HeldShape DEF Live
  <2> QED
    BY <2>2, <2>3 DEF Advanceable
<1> QED
  BY <1>1, <1>3 DEF Advanceable

LEMMA DurableType ==
  ASSUME NEW s \in Service, Advanceable(s)
  PROVE  Durable(s) \in Service /\ Advanceable(Durable(s))
<1> DEFINE t == Durable(s)
<1>1. t.grants = [g \in GrantIDs |-> IF s.grants[g].held
                                     THEN [s.grants[g] EXCEPT !.readAt = 0]
                                     ELSE NoRecord]
  BY DEF Durable
<1>2. ASSUME NEW g \in GrantIDs
      PROVE  /\ t.grants[g] \in Grant \cup {NoRecord}
             /\ t.grants[g].held /\ t.grants[g].status = "active" =>
                  g \in Live(s) /\ t.grants[g].revision = s.grants[g].revision
  <2>1. CASE g \in Held(s.grants)
    <3>1. s.grants[g] \in Grant /\ s.grants[g].held
      BY <2>1, HeldShape
    <3>2. t.grants[g] = [s.grants[g] EXCEPT !.readAt = 0]
      BY <1>1, <3>1
    <3> QED
      BY <2>1, <3>1, <3>2, GrantRead DEF Live
  <2>2. CASE g \notin Held(s.grants)
    BY <1>1, <2>2, HeldShape DEF NoRecord
  <2> QED
    BY <2>1, <2>2
<1>3. t \in Service
  <2>1. t.grants \in [GrantIDs -> Grant \cup {NoRecord}]
    BY <1>1, <1>2
  <2> QED
    BY <2>1, ServiceShape DEF Durable, Service
<1>4. ASSUME NEW g \in Live(t) PROVE t.grants[g].revision <= MaxRevision
  <2>1. g \in GrantIDs /\ t.grants[g].held /\ t.grants[g].status = "active"
    BY <1>3, <1>4, HeldShape DEF Live
  <2> QED
    BY <1>2, <2>1 DEF Advanceable
<1> QED
  BY <1>3, <1>4 DEF Advanceable

LEMMA RestartedFields ==
  ASSUME NEW d \in Service
  PROVE  LET t == Restarted(d) IN
         /\ /\ t.invitations \in [InvitationIDs -> Invitation \cup {NoRecord}]
            /\ t.requests \in [RequestIDs -> Request \cup {NoRecord}]
            /\ t.grants \in [GrantIDs -> Grant \cup {NoRecord}]
            => t \in Service
         /\ t.last = d.last /\ t.returns = d.returns
         /\ t.invitations = [i \in InvitationIDs |->
              IF d.invitations[i].held
              THEN [d.invitations[i] EXCEPT !.used = TRUE] ELSE NoRecord]
         /\ t.requests = [r \in RequestIDs |->
              IF d.requests[r].held
              THEN [d.requests[r] EXCEPT !.status = "expired"] ELSE NoRecord]
         /\ t.grants = [g \in GrantIDs |->
              IF g \in Live(d)
              THEN [d.grants[g] EXCEPT !.status = "revoked",
                                       !.revision = d.grants[g].revision + 1]
              ELSE d.grants[g]]
BY DEF Restarted, Service

LEMMA RestartedType ==
  ASSUME NEW d \in Service, Advanceable(d)
  PROVE  Restarted(d) \in Service /\ Live(Restarted(d)) = {}
<1> DEFINE t == Restarted(d)
<1>1. ASSUME NEW i \in InvitationIDs
      PROVE  t.invitations[i] \in Invitation \cup {NoRecord}
  <2>1. t.invitations[i] = IF d.invitations[i].held
                           THEN [d.invitations[i] EXCEPT !.used = TRUE]
                           ELSE NoRecord
    BY RestartedFields
  <2> QED
    BY <2>1, HeldShape, InvitationUsed
<1>2. ASSUME NEW r \in RequestIDs
      PROVE  t.requests[r] \in Request \cup {NoRecord}
  <2>1. t.requests[r] = IF d.requests[r].held
                        THEN [d.requests[r] EXCEPT !.status = "expired"]
                        ELSE NoRecord
    BY RestartedFields
  <2> QED
    BY <2>1, HeldShape, RequestStatus
<1>3. ASSUME NEW g \in GrantIDs
      PROVE  /\ t.grants[g] \in Grant \cup {NoRecord}
             /\ t.grants[g].held => t.grants[g].status # "active"
  <2>1. CASE g \in Live(d)
    <3>1. d.grants[g] \in Grant /\ d.grants[g].revision <= MaxRevision
      BY <2>1, HeldShape DEF Advanceable, Live
    <3>2. d.grants[g].revision + 1 \in 1..(MaxRevision + 1)
      <4>1. d.grants[g].revision \in 1..(MaxRevision + 1)
        BY <3>1 DEF Grant
      <4> QED
        BY <3>1, <4>1, Constants
    <3>3. t.grants[g] = [d.grants[g] EXCEPT !.status = "revoked",
                           !.revision = d.grants[g].revision + 1]
      BY <2>1, RestartedFields
    <3> QED
      BY <3>1, <3>2, <3>3, GrantRevoked
  <2>2. CASE g \notin Live(d)
    <3>1. t.grants[g] = d.grants[g]
      BY <2>2, RestartedFields
    <3> QED
      BY <2>2, <3>1, ServiceShape, HeldShape DEF Live
  <2> QED
    BY <2>1, <2>2
<1>4. t \in Service
  <2>1. /\ t.invitations = [i \in InvitationIDs |-> t.invitations[i]]
        /\ t.requests = [r \in RequestIDs |-> t.requests[r]]
        /\ t.grants = [g \in GrantIDs |-> t.grants[g]]
    BY RestartedFields
  <2>2. t.invitations \in [InvitationIDs -> Invitation \cup {NoRecord}]
    BY <1>1, <2>1
  <2>3. t.requests \in [RequestIDs -> Request \cup {NoRecord}]
    BY <1>2, <2>1
  <2>4. t.grants \in [GrantIDs -> Grant \cup {NoRecord}]
    BY <1>3, <2>1
  <2> QED
    BY <2>2, <2>3, <2>4, RestartedFields
<1> QED
  BY <1>3, <1>4, HeldShape DEF Live

-----------------------------------------------------------------------------
(* Types of the policy store *)

LEMMA StoreShape ==
  ASSUME NEW st \in StoreType
  PROVE  /\ Known(st) \subseteq GrantIDs
         /\ \A g \in GrantIDs : st[g].held <=> g \in Known(st)
         /\ \A g \in Known(st) : st[g] \in StoreGrant
         /\ \A g \in GrantIDs \ Known(st) : st[g] = NoRecord
<1>1. NoRecord.held = FALSE
  BY DEF NoRecord
<1>2. \A x \in StoreGrant : x.held = TRUE
  BY DEF StoreGrant
<1> QED
  BY <1>1, <1>2 DEF StoreType, Known

LEMMA StoreUpdate ==
  ASSUME NEW st \in StoreType, NEW g \in GrantIDs, NEW x \in StoreGrant
  PROVE  [st EXCEPT ![g] = x] \in StoreType
BY DEF StoreType

LEMMA PruneType ==
  ASSUME NEW st \in StoreType, NEW cutoff \in Int
  PROVE  Prune(st, cutoff) \in StoreType
BY DEF Prune, StoreType

LEMMA CreateType ==
  ASSUME NEW st \in StoreType, NEW g \in GrantIDs, NEW allowed \in SUBSET Optional,
         NEW until \in Nat, NEW now \in Nat
  PROVE  Create(st, g, allowed, until, now) \in StoreType
<1>1. 1 \in 1..MaxRevision
  BY Constants
<1> QED
  BY <1>1, StoreUpdate DEF Create, StoreGrant

LEMMA NextRevisionType ==
  ASSUME NEW n \in 1..MaxRevision
  PROVE  NextRevision(n) \in 1..MaxRevision
BY Constants DEF NextRevision

LEMMA RevokeType ==
  ASSUME NEW st \in StoreType, NEW g \in Known(st)
  PROVE  Revoke(st, g) \in StoreType
<1>1. st[g] \in StoreGrant /\ g \in GrantIDs
  BY StoreShape
<1>2. ASSUME NEW x \in StoreGrant
      PROVE  [x EXCEPT !.revoked = TRUE, !.revision = NextRevision(x.revision)]
               \in StoreGrant
  <2>1. NextRevision(x.revision) \in 1..MaxRevision
    BY NextRevisionType DEF StoreGrant
  <2> QED
    BY <2>1 DEF StoreGrant
<1> QED
  BY <1>1, <1>2, StoreUpdate DEF Revoke

LEMMA RestrictType ==
  ASSUME NEW st \in StoreType, NEW g \in Known(st), NEW allowed \in SUBSET Optional,
         NEW until \in Nat, NEW now \in Nat, st[g].revision < MaxRevision
  PROVE  Restrict(st, g, allowed, until, now) \in StoreType
<1>1. st[g] \in StoreGrant /\ g \in GrantIDs
  BY StoreShape
<1>2. ASSUME NEW x \in StoreGrant, x.revision < MaxRevision
      PROVE  [x EXCEPT !.revision = x.revision + 1, !.allowed = allowed,
                       !.until = until, !.server = now] \in StoreGrant
  <2>1. x.revision + 1 \in 1..MaxRevision
    BY <1>2, Constants DEF StoreGrant
  <2> QED
    BY <2>1 DEF StoreGrant
<1> QED
  BY <1>1, <1>2, StoreUpdate DEF Restrict

LEMMA NoticedType ==
  ASSUME NEW st \in StoreType, NEW g \in Known(st), NEW now
  PROVE  Noticed(st, g, now) \in StoreType
<1>1. st[g] \in StoreGrant /\ g \in GrantIDs
  BY StoreShape
<1>2. \A x \in StoreGrant : [x EXCEPT !.expired = TRUE] \in StoreGrant
  BY DEF StoreGrant
<1> QED
  BY <1>1, <1>2, StoreUpdate DEF Noticed

LEMMA ProjectedType ==
  ASSUME NEW x \in StoreGrant, NEW source \in Reading
  PROVE  Projected(x, source) \in Reading
BY DEF Projected, Reading

LEMMA ProjectType ==
  ASSUME NEW st \in StoreType, NEW g \in Known(st), NEW source \in Reading,
         NEW now \in Nat
  PROVE  Project(st, g, source, now) \in StoreType
<1>1. st[g] \in StoreGrant /\ g \in GrantIDs
  BY StoreShape
<1>2. ASSUME NEW x \in StoreGrant, NEW out \in Reading
      PROVE  Advance(x, out, now) \in StoreGrant
  <2>1. out.motion \in Nat /\ out.route \in Nat /\ out.routeAt \in Nat
    BY DEF Reading
  <2>2. x.motion \in Nat /\ x.route \in Nat /\ x.routeAt \in Nat
    BY DEF StoreGrant
  <2> QED
    BY <2>1, <2>2 DEF Advance, StoreGrant
<1> QED
  BY <1>1, <1>2, ProjectedType, StoreUpdate DEF Project

-----------------------------------------------------------------------------
(* The type invariant *)

TypeInv == TypeOK /\ Advanceable(svc) /\ Advanceable(disk)

LEMMA ServiceLast ==
  ASSUME NEW s \in Service, Advanceable(s), NEW n \in Nat
  PROVE  [s EXCEPT !.last = n] \in Service /\ Advanceable([s EXCEPT !.last = n])
<1>1. [s EXCEPT !.last = n] \in Service /\ [s EXCEPT !.last = n].grants = s.grants
  BY DEF Service
<1> QED
  BY <1>1 DEF Advanceable, Live

LEMMA SaveType ==
  ASSUME NEW s \in Service, Advanceable(s), NEW written \in Service,
         Advanceable(written), clock' \in Nat, NEW outcome,
         SaveOver(written, s, outcome)
  PROVE  /\ svc' \in Service /\ Advanceable(svc)'
         /\ disk' \in Service /\ Advanceable(disk)'
         /\ healthy' \in BOOLEAN
<1>1. svc' \in Service /\ Advanceable(svc')
  BY ServiceLast DEF SaveOver
<1>2. disk' \in Service /\ Advanceable(disk')
  BY <1>1, DurableType DEF SaveOver
<1>3. healthy' \in BOOLEAN
  BY DEF SaveOver
<1> QED
  BY <1>1, <1>2, <1>3 DEF Advanceable, Live, Held

LEMMA OpenedType ==
  ASSUME TypeInv, NEW s \in Opened
  PROVE  /\ s \in Service /\ Advanceable(s) /\ SweptStore \in StoreType
         /\ healthy = TRUE /\ clock \in Nat /\ clock \in Times
<1>1. clock \in Nat /\ Cutoff \in Int /\ healthy \in BOOLEAN
  BY Constants DEF TypeInv, TypeOK, Times, Cutoff
<1>2. healthy = TRUE /\ s = Swept
  BY <1>1 DEF Opened, Open
<1>3. svc \in Service /\ Advanceable(svc) /\ store \in StoreType
  BY DEF TypeInv, TypeOK
<1>4. LET t == [svc EXCEPT !.last = clock] IN t \in Service /\ Advanceable(t)
  BY <1>1, <1>3, ServiceLast
<1> QED
  BY <1>1, <1>2, <1>3, <1>4, LapsedType, ReclaimedType, PruneType
     DEF Swept, SweptStore, TypeInv, TypeOK

-----------------------------------------------------------------------------
(* What the requests do to the service state *)

LEMMA ServiceUpdates ==
  ASSUME NEW s \in Service, Advanceable(s),
         NEW invitations \in [InvitationIDs -> Invitation \cup {NoRecord}],
         NEW requests \in [RequestIDs -> Request \cup {NoRecord}],
         NEW returns \in SUBSET RequestIDs
  PROVE  LET a == [s EXCEPT !.invitations = invitations]
             b == [s EXCEPT !.requests = requests, !.returns = returns]
             c == [s EXCEPT !.invitations = invitations,
                            !.requests = requests, !.returns = returns]
         IN /\ a \in Service /\ b \in Service /\ c \in Service
            /\ a.grants = s.grants /\ b.grants = s.grants /\ c.grants = s.grants
            /\ Advanceable(a) /\ Advanceable(b) /\ Advanceable(c)
<1> DEFINE a == [s EXCEPT !.invitations = invitations]
           b == [s EXCEPT !.requests = requests, !.returns = returns]
           c == [s EXCEPT !.invitations = invitations,
                          !.requests = requests, !.returns = returns]
<1>1. /\ a \in Service /\ b \in Service /\ c \in Service
      /\ a.grants = s.grants /\ b.grants = s.grants /\ c.grants = s.grants
  BY DEF Service
<1> QED
  BY <1>1 DEF Advanceable, Live

LEMMA GrantsUpdate ==
  ASSUME NEW s \in Service, Advanceable(s),
         NEW requests \in [RequestIDs -> Request \cup {NoRecord}],
         NEW g \in GrantIDs, NEW x \in Grant, x.revision <= MaxRevision
  PROVE  LET a == [s EXCEPT !.grants = [s.grants EXCEPT ![g] = x]]
             b == [s EXCEPT !.requests = requests,
                            !.grants = [s.grants EXCEPT ![g] = x]]
         IN /\ a \in Service /\ b \in Service
            /\ Advanceable(a) /\ Advanceable(b)
<1> DEFINE grants == [s.grants EXCEPT ![g] = x]
           a == [s EXCEPT !.grants = grants]
           b == [s EXCEPT !.requests = requests, !.grants = grants]
<1>1. grants \in [GrantIDs -> Grant \cup {NoRecord}]
  BY ServiceShape
<1>2. \A h \in GrantIDs : grants[h] = IF h = g THEN x ELSE s.grants[h]
  BY ServiceShape
<1>3. /\ a \in Service /\ b \in Service
      /\ a.grants = grants /\ b.grants = grants
  <2> HIDE DEF grants
  <2> QED
    BY <1>1 DEF Service
<1>4. ASSUME NEW t \in Service, t.grants = grants PROVE Advanceable(t)
  <2> SUFFICES ASSUME NEW h \in Live(t) PROVE t.grants[h].revision <= MaxRevision
    BY DEF Advanceable
  <2>1. h \in GrantIDs /\ t.grants[h].held /\ t.grants[h].status = "active"
    BY HeldShape DEF Live
  <2>2. CASE h = g
    BY <1>2, <1>4, <2>1, <2>2
  <2>3. CASE h # g
    <3>1. t.grants[h] = s.grants[h]
      BY <1>2, <1>4, <2>1, <2>3
    <3>2. h \in Live(s)
      BY <2>1, <3>1, HeldShape DEF Live
    <3> QED
      BY <3>1, <3>2 DEF Advanceable
  <2> QED
    BY <2>2, <2>3
<1> QED
  BY <1>3, <1>4

LEMMA RevokedFields ==
  ASSUME NEW s \in Service, NEW gs \in SUBSET GrantIDs
  PROVE  LET t == RevokedIn(s, gs) IN
         /\ t.grants \in [GrantIDs -> Grant \cup {NoRecord}] => t \in Service
         /\ t.grants = [g \in GrantIDs |-> t.grants[g]]
         /\ t.last = s.last /\ t.invitations = s.invitations
         /\ t.requests = s.requests /\ t.returns \subseteq s.returns
         /\ t.grants = [g \in GrantIDs |->
              IF g \in gs \cap Live(s)
              THEN [s.grants[g] EXCEPT !.status = "revoked",
                      !.revision = NextRevision(s.grants[g].revision)]
              ELSE s.grants[g]]
BY DEF RevokedIn, Service

LEMMA RevokedGrants ==
  ASSUME NEW s \in Service, NEW gs \in SUBSET GrantIDs, NEW g \in GrantIDs
  PROVE  LET t == RevokedIn(s, gs) IN
         /\ g \in gs \cap Live(s) =>
              t.grants[g] = [s.grants[g] EXCEPT !.status = "revoked",
                               !.revision = NextRevision(s.grants[g].revision)]
         /\ g \notin gs \cap Live(s) => t.grants[g] = s.grants[g]
<1>1. RevokedIn(s, gs).grants = [x \in GrantIDs |->
              IF x \in gs \cap Live(s)
              THEN [s.grants[x] EXCEPT !.status = "revoked",
                      !.revision = NextRevision(s.grants[x].revision)]
              ELSE s.grants[x]]
  BY RevokedFields
<1> QED
  BY <1>1

LEMMA RevokedType ==
  ASSUME NEW s \in Service, Advanceable(s), NEW gs \in SUBSET GrantIDs
  PROVE  /\ RevokedIn(s, gs) \in Service /\ Advanceable(RevokedIn(s, gs))
         /\ Live(RevokedIn(s, gs)) = Live(s) \ gs
         /\ \A g \in Live(s) \ gs : RevokedIn(s, gs).grants[g] = s.grants[g]
<1> DEFINE t == RevokedIn(s, gs)
<1>1. ASSUME NEW g \in GrantIDs
      PROVE  /\ t.grants[g] \in Grant \cup {NoRecord}
             /\ t.grants[g].held /\ t.grants[g].status = "active" <=>
                  g \in Live(s) \ gs
             /\ g \in Live(s) \ gs => t.grants[g] = s.grants[g]
  <2>1. CASE g \in gs \cap Live(s)
    <3>1. s.grants[g] \in Grant /\ s.grants[g].revision <= MaxRevision
      BY <2>1, HeldShape DEF Advanceable, Live
    <3>2. s.grants[g].revision \in 1..MaxRevision
      <4>1. s.grants[g].revision \in 1..(MaxRevision + 1)
        BY <3>1 DEF Grant
      <4> QED
        BY <3>1, <4>1, Constants
    <3>3. NextRevision(s.grants[g].revision) \in 1..(MaxRevision + 1)
      BY <3>2, NextRevisionType, Constants
    <3>4. t.grants[g] = [s.grants[g] EXCEPT !.status = "revoked",
                           !.revision = NextRevision(s.grants[g].revision)]
      BY <2>1, RevokedGrants
    <3>5. t.grants[g] \in Grant /\ t.grants[g].status = "revoked"
      <4>1. ASSUME NEW n \in 1..(MaxRevision + 1)
            PROVE  /\ [s.grants[g] EXCEPT !.status = "revoked", !.revision = n] \in Grant
                   /\ [s.grants[g] EXCEPT !.status = "revoked",
                                         !.revision = n].status = "revoked"
        BY <3>1, GrantRevoked
      <4> HIDE DEF t
      <4> QED
        BY <3>3, <3>4, <4>1
    <3> QED
      BY <2>1, <3>5
  <2>2. CASE g \notin gs \cap Live(s)
    <3>1. t.grants[g] = s.grants[g]
      BY <2>2, RevokedGrants
    <3> QED
      BY <2>2, <3>1, ServiceShape, HeldShape DEF Live
  <2> QED
    BY <2>1, <2>2
<1>2. t.grants = [g \in GrantIDs |-> t.grants[g]]
  BY RevokedFields
<1>3. t.grants \in [GrantIDs -> Grant \cup {NoRecord}]
  BY <1>1, <1>2
<1>4. t \in Service
  BY <1>3, RevokedFields
<1>5. Live(t) = Live(s) \ gs
  <2>1. Live(t) = {g \in GrantIDs : t.grants[g].held /\ t.grants[g].status = "active"}
    BY <1>4, HeldShape DEF Live
  <2>2. Live(s) \subseteq GrantIDs
    BY HeldShape DEF Live
  <2> QED
    BY <1>1, <2>1, <2>2
<1>6. \A g \in Live(s) \ gs : t.grants[g] = s.grants[g]
  BY <1>1, HeldShape DEF Live
<1>7. Advanceable(t)
  BY <1>5, <1>6 DEF Advanceable
<1> QED
  BY <1>4, <1>5, <1>6, <1>7

LEMMA RevokedAllType ==
  ASSUME NEW st \in StoreType, NEW s \in Service, NEW gs \in SUBSET GrantIDs,
         \A g \in gs \cap Live(s) : g \in Known(st)
  PROVE  RevokedAll(st, s, gs) \in StoreType
<1>1. ASSUME NEW g \in GrantIDs
      PROVE  (IF g \in gs \cap Live(s) THEN Revoke(st, g)[g] ELSE st[g])
               \in StoreGrant \cup {NoRecord}
  BY RevokeType DEF StoreType
<1> QED
  BY <1>1 DEF RevokedAll, StoreType

-----------------------------------------------------------------------------
(* Type correctness, action by action *)

ReadersType == readers \in [Readers -> {Idle} \cup Asking \cup Waiting]

PastType ==
  /\ origin \in [RequestIDs -> InvitationIDs \cup {None}]
  /\ basis \in [GrantIDs -> RequestIDs \cup {None}]
  /\ ended \subseteq GrantIDs
  /\ shown \in [GrantIDs -> [motion : Nat, route : Nat, routeAt : Nat,
                              over : BOOLEAN]]

VehicleType == vehicle \in [at : Nat, route : 0..MaxRoutes, routeAt : Nat,
                            active : BOOLEAN]

ConsentType ==
  /\ svc \in Service /\ Advanceable(svc)
  /\ disk \in Service /\ Advanceable(disk)
  /\ healthy \in BOOLEAN /\ store \in StoreType

LEMMA TypeParts ==
  TypeInv <=> /\ clock \in Times /\ ConsentType /\ ReadersType /\ VehicleType
              /\ PastType /\ served \in Snapshot \cup {NoSnapshot}
BY DEF TypeInv, TypeOK, ConsentType, ReadersType, VehicleType, PastType

LEMMA TypePartsNext ==
  TypeInv' <=> /\ clock' \in Times /\ ConsentType' /\ ReadersType' /\ VehicleType'
               /\ PastType' /\ served' \in Snapshot \cup {NoSnapshot}
BY DEF TypeInv, TypeOK, ConsentType, ReadersType, VehicleType, PastType

LEMMA InitType == Init => TypeInv
<1> SUFFICES ASSUME Init PROVE TypeInv
  OBVIOUS
<1>1. NoConsent \in Service /\ Live(NoConsent) = {}
  BY DEF NoConsent, Service, NoRecord, Live, Held
<1>2. LET s == [NoConsent EXCEPT !.last = 1] IN s \in Service /\ Advanceable(s)
  BY <1>1, ServiceLast DEF Advanceable
<1>3. ConsentType
  BY <1>2 DEF Init, ConsentType, EmptyStore, StoreType
<1>4. ReadersType /\ VehicleType
  BY Constants DEF Init, ReadersType, VehicleType
<1>5. PastType
  BY Constants DEF Init, PastType, NothingShown
<1> QED
  BY <1>3, <1>4, <1>5, TypeParts, Constants DEF Init, Times

LEMMA VehicleUpdate ==
  ASSUME VehicleType, NEW n \in 0..MaxRoutes, NEW at \in Nat, NEW yes \in BOOLEAN
  PROVE  LET Vehicle == [at : Nat, route : 0..MaxRoutes, routeAt : Nat,
                         active : BOOLEAN]
         IN /\ [vehicle EXCEPT !.routeAt = at, !.active = yes, !.route = n] \in Vehicle
            /\ [vehicle EXCEPT !.active = yes, !.routeAt = at] \in Vehicle
            /\ [vehicle EXCEPT !.active = yes, !.route = n, !.routeAt = at] \in Vehicle
BY DEF VehicleType

LEMMA EnvironmentType ==
  ASSUME TypeInv,
         Tick \/ SetBack \/ Drive \/ Status \/ Refuse
         \/ (\E yes \in BOOLEAN : RouteSeen(yes) \/ RouteGone(yes))
  PROVE  TypeInv'
<1> USE TypeParts, TypePartsNext
<1>1. CASE Tick
  BY <1>1, Constants DEF Tick, Times, consent, past, ConsentType, ReadersType,
     VehicleType, PastType, Advanceable, Live, Held
<1>2. CASE SetBack
  BY <1>2, Constants DEF SetBack, Times, consent, past, ConsentType, ReadersType,
     VehicleType, PastType, Advanceable, Live, Held
<1>3. CASE Drive
  BY <1>3, Constants DEF Drive, Times, consent, past, ConsentType, ReadersType,
     VehicleType, PastType, Advanceable, Live, Held
<1>4. CASE Status
  <2>1. svc' \in Service /\ Advanceable(svc')
    BY <1>4, ServiceLast, Constants DEF Status, ConsentType, Times
  <2> QED
    BY <1>4, <2>1 DEF Status, past, ConsentType, ReadersType,
       VehicleType, PastType, Advanceable, Live, Held
<1>5. CASE Refuse
  BY <1>5 DEF Refuse, past, ConsentType, ReadersType,
     VehicleType, PastType, Advanceable, Live, Held
<1>6. ASSUME NEW yes \in BOOLEAN, RouteSeen(yes) PROVE TypeInv'
  <2>1. VehicleType'
    <3> DEFINE n == IF vehicle.active /\ ~yes THEN vehicle.route ELSE vehicle.route + 1
    <3>1. vehicle.route \in 0..MaxRoutes /\ clock \in Nat
      BY DEF VehicleType, Times
    <3>2. vehicle.route < MaxRoutes \/ (vehicle.active /\ ~yes)
      BY <1>6 DEF RouteSeen
    <3>3. n \in 0..MaxRoutes
      BY <3>1, <3>2, Constants
    <3>4. vehicle' = [vehicle EXCEPT !.routeAt = clock, !.active = TRUE, !.route = n]
      BY <1>6 DEF RouteSeen
    <3> HIDE DEF n
    <3> QED
      BY <3>1, <3>3, <3>4, VehicleUpdate DEF VehicleType
  <2> QED
    BY <1>6, <2>1 DEF RouteSeen, consent, past, ConsentType, ReadersType,
       PastType, Advanceable, Live, Held
<1>7. ASSUME NEW yes \in BOOLEAN, RouteGone(yes) PROVE TypeInv'
  <2>1. VehicleType'
    <3> DEFINE at == IF yes THEN clock ELSE vehicle.routeAt
    <3>1. at \in Nat
      BY DEF VehicleType, Times
    <3>2. vehicle' = [vehicle EXCEPT !.active = FALSE, !.routeAt = at]
      BY <1>7 DEF RouteGone
    <3>3. 0 \in 0..MaxRoutes
      BY Constants
    <3> HIDE DEF at
    <3> QED
      BY <3>1, <3>2, <3>3, VehicleUpdate DEF VehicleType
  <2> QED
    BY <1>7, <2>1 DEF RouteGone, consent, past, ConsentType, ReadersType,
       PastType, Advanceable, Live, Held
<1> QED
  BY <1>1, <1>2, <1>3, <1>4, <1>5, <1>6, <1>7

LEMMA RestartType ==
  ASSUME TypeInv, NEW outcome, Restart(outcome)
  PROVE  TypeInv'
<1>1. Restarted(disk) \in Service /\ Live(Restarted(disk)) = {}
  BY RestartedType, TypeParts DEF ConsentType
<1>2. Advanceable(Restarted(disk)) /\ clock' \in Times /\ clock' \in Nat
  BY <1>1, TypeParts DEF Restart, Times, Advanceable
<1>3. ConsentType'
  <2>1. store' \in StoreType
    BY DEF Restart, EmptyStore, StoreType
  <2>2. CASE disk.last <= clock
    BY <1>1, <1>2, <2>1, <2>2, SaveType, TypeParts DEF Restart, Save, ConsentType
  <2>3. CASE ~(disk.last <= clock)
    <3>1. svc' = Restarted(disk) /\ healthy' = FALSE /\ disk' = disk
      BY <2>3 DEF Restart
    <3>2. Advanceable(svc') /\ Advanceable(disk')
      BY <1>2, <3>1, TypeParts DEF ConsentType
    <3> QED
      BY <1>1, <2>1, <3>1, <3>2, TypeParts DEF ConsentType, Advanceable, Live, Held
  <2> QED
    BY <2>2, <2>3
<1>4. VehicleType'
  <2>1. 0 \in 0..MaxRoutes /\ 0 \in Nat
    BY Constants
  <2>2. vehicle' = [vehicle EXCEPT !.active = FALSE, !.route = 0, !.routeAt = 0]
    BY DEF Restart
  <2> QED
    BY <2>1, <2>2, VehicleUpdate, TypeParts DEF VehicleType
<1>5. ReadersType' /\ PastType' /\ served' \in {NoSnapshot}
  BY TypeParts DEF Restart, ReadersType, PastType, past
<1> QED
  BY <1>2, <1>3, <1>4, <1>5, TypePartsNext

(* A request that saves a well-formed state leaves the rest as it is.      *)
LEMMA SavingType ==
  ASSUME TypeInv, NEW s \in Service, Advanceable(s), NEW written \in Service,
         Advanceable(written), NEW outcome, SaveOver(written, s, outcome),
         MovesOn, store' \in StoreType, PastType', ReadersType',
         served' = NoSnapshot, UNCHANGED vehicle
  PROVE  TypeInv'
<1>1. clock' \in Times /\ clock' \in Nat
  BY DEF MovesOn, Times
<1>2. ConsentType'
  BY <1>1, SaveType DEF ConsentType
<1> QED
  BY <1>1, <1>2, TypeParts, TypePartsNext DEF VehicleType

(* A request that saves nothing leaves the rest as it is.                  *)
LEMMA PassingType ==
  ASSUME TypeInv, NEW t \in Service, Advanceable(t), svc' = t,
         clock' \in Times, store' \in StoreType, PastType', ReadersType',
         served' \in Snapshot \cup {NoSnapshot}, UNCHANGED <<disk, healthy, vehicle>>
  PROVE  TypeInv'
<1>1. ConsentType'
  BY TypeParts DEF ConsentType, Advanceable, Live, Held
<1> QED
  BY <1>1, TypeParts, TypePartsNext DEF VehicleType

LEMMA MovedTime == TypeInv /\ MovesOn => clock' \in Times /\ clock' \in Nat
BY DEF MovesOn, Times

LEMMA SamePast == TypeInv /\ UNCHANGED past => PastType'
BY TypeParts DEF past, PastType

LEMMA SameReaders == TypeInv /\ UNCHANGED readers => ReadersType'
BY TypeParts DEF ReadersType

LEMMA ReaderMoves ==
  ASSUME TypeInv, NEW r \in Readers, NEW x \in {Idle} \cup Asking \cup Waiting,
         readers' = [readers EXCEPT ![r] = x]
  PROVE  ReadersType'
BY TypeParts DEF ReadersType

LEMMA ReaderShape ==
  ASSUME TypeInv, NEW r \in Readers
  PROVE  /\ readers[r].pc = "asking" => readers[r] \in Asking
         /\ readers[r].pc \in {"waiting", "answered"} => readers[r] \in Waiting
<1>1. readers[r] \in {Idle} \cup Asking \cup Waiting
  BY TypeParts DEF ReadersType
<1>2. Idle.pc = "idle"
  BY DEF Idle
<1>3. (\A x \in Asking : x.pc = "asking")
      /\ (\A x \in Waiting : x.pc \in {"waiting", "answered"})
  BY DEF Asking, Waiting
<1> QED
  BY <1>1, <1>2, <1>3

LEMMA EndedType ==
  ASSUME TypeInv, NEW more \in SUBSET GrantIDs,
         ended' = ended \/ ended' = ended \cup more,
         UNCHANGED <<origin, basis, shown>>
  PROVE  PastType'
BY TypeParts DEF PastType

-----------------------------------------------------------------------------
(* The requests that change nothing of their own, and the invitation       *)

LEMMA LookType ==
  ASSUME TypeInv, NEW s \in Opened, Look(s)
  PROVE  TypeInv'
BY OpenedType, PassingType, SamePast, SameReaders DEF Look

LEMMA StopAgainType ==
  ASSUME TypeInv, NEW s \in Opened, NEW g \in GrantIDs, StopAgain(s, g)
  PROVE  TypeInv'
<1>1. PastType'
  BY EndedType DEF StopAgain
<1> QED
  BY <1>1, OpenedType, PassingType, SameReaders DEF StopAgain

LEMMA AbandonType ==
  ASSUME TypeInv, NEW s \in Opened, NEW r \in Readers, Abandon(s, r)
  PROVE  TypeInv'
<1>1. ReadersType'
  BY ReaderMoves DEF Abandon
<1> QED
  BY <1>1, OpenedType, PassingType, SamePast DEF Abandon

LEMMA AbandonShutType ==
  ASSUME TypeInv, NEW r \in Readers, AbandonShut(r)
  PROVE  TypeInv'
<1>1. ReadersType'
  BY ReaderMoves DEF AbandonShut
<1>2. ConsentType'
  BY TypeParts DEF AbandonShut, ConsentType, Advanceable, Live, Held
<1> QED
  BY <1>1, <1>2, SamePast, TypeParts, TypePartsNext DEF AbandonShut, VehicleType

LEMMA BeginInviteType ==
  ASSUME TypeInv, NEW s \in Opened, NEW r \in Readers, NEW allowed \in Offers,
         NEW duration \in Durations, BeginInvite(s, r, allowed, duration)
  PROVE  TypeInv'
<1>1. [pc |-> "asking", allowed |-> allowed, duration |-> duration] \in Asking
  BY Constants DEF Asking
<1>2. ReadersType'
  BY <1>1, ReaderMoves DEF BeginInvite
<1> QED
  BY <1>2, OpenedType, PassingType, SamePast DEF BeginInvite

LEMMA FinishInviteType ==
  ASSUME TypeInv, NEW s \in Opened, NEW r \in Readers, NEW i \in InvitationIDs,
         NEW outcome, FinishInvite(s, r, i, outcome)
  PROVE  TypeInv'
<1> DEFINE asked == readers[r]
           invitations == [s.invitations EXCEPT ![i] = NewInvitation(asked)]
           t == [s EXCEPT !.invitations = invitations]
<1>1. /\ s \in Service /\ Advanceable(s) /\ SweptStore \in StoreType
      /\ clock' \in Nat
  BY OpenedType, MovedTime DEF FinishInvite
<1>2. NewInvitation(asked) \in Invitation
  <2>1. asked \in Asking
    BY ReaderShape DEF FinishInvite
  <2>2. asked.allowed \in SUBSET Optional /\ asked.duration \in Durations
    BY <2>1 DEF Asking
  <2>3. clock' + InvitationLife \in Nat
    <3>1. InvitationLife \in Nat /\ \A m, n \in Nat : m + n \in Nat
      BY Constants
    <3> QED
      BY <1>1, <3>1
  <2> QED
    BY <2>2, <2>3 DEF NewInvitation, Invitation
<1>3. t \in Service /\ Advanceable(t)
  <2>1. invitations \in [InvitationIDs -> Invitation \cup {NoRecord}]
    BY <1>1, <1>2, ServiceShape
  <2> HIDE DEF invitations
  <2> QED
    BY <1>1, <2>1, ServiceShape, ServiceUpdates
<1>4. SaveOver(disk, t, outcome)
  BY DEF FinishInvite, Save
<1>5. ReadersType' /\ PastType'
  BY ReaderMoves, SamePast DEF FinishInvite
<1> HIDE DEF t
<1> QED
  BY <1>1, <1>3, <1>4, <1>5, SavingType, TypeParts DEF FinishInvite, ConsentType

-----------------------------------------------------------------------------
(* Requests to join, and what the owner decides                            *)

LEMMA RedeemType ==
  ASSUME TypeInv, NEW s \in Opened, NEW i \in Held(s.invitations),
         NEW r \in RequestIDs, NEW returns \in BOOLEAN, NEW outcome,
         Redeem(s, i, r, returns, outcome)
  PROVE  TypeInv'
<1> DEFINE invitations == [s.invitations EXCEPT ![i] =
                             [s.invitations[i] EXCEPT !.used = TRUE]]
           asked == [held |-> TRUE, invitation |-> i, status |-> "pending",
                     until |-> s.invitations[i].until, grant |-> None]
           requests == [s.requests EXCEPT ![r] = asked]
           left == IF returns THEN s.returns \cup {r} ELSE s.returns
           t == [s EXCEPT !.invitations = invitations, !.requests = requests,
                          !.returns = left]
<1>1. s \in Service /\ Advanceable(s) /\ SweptStore \in StoreType
  BY OpenedType
<1>2. s.invitations[i] \in Invitation /\ i \in InvitationIDs
  BY <1>1, HeldShape
<1>3. asked \in Request
  BY <1>2 DEF Request, Invitation
<1>4. t \in Service /\ Advanceable(t)
  <2>1. invitations \in [InvitationIDs -> Invitation \cup {NoRecord}]
    BY <1>1, <1>2, InvitationUsed, ServiceShape
  <2>2. requests \in [RequestIDs -> Request \cup {NoRecord}]
    <3> HIDE DEF asked
    <3> QED
      BY <1>1, <1>3, ServiceShape
  <2>3. left \in SUBSET RequestIDs
    BY <1>1, ServiceShape
  <2> HIDE DEF invitations, requests, left
  <2> QED
    BY <1>1, <2>1, <2>2, <2>3, ServiceUpdates
<1>5. SaveOver(disk, t, outcome)
  BY DEF Redeem, Save
<1>6. ReadersType' /\ PastType'
  BY <1>2, SameReaders, TypeParts DEF Redeem, PastType
<1> HIDE DEF t
<1> QED
  BY <1>1, <1>4, <1>5, <1>6, SavingType, TypeParts DEF Redeem, ConsentType

LEMMA RejectType ==
  ASSUME TypeInv, NEW s \in Opened, NEW r \in Held(s.requests), NEW outcome,
         Reject(s, r, outcome)
  PROVE  TypeInv'
<1> DEFINE requests == [s.requests EXCEPT ![r] =
                          [s.requests[r] EXCEPT !.status = "rejected"]]
           left == s.returns \ {r}
           t == [s EXCEPT !.requests = requests, !.returns = left]
<1>1. s \in Service /\ Advanceable(s) /\ SweptStore \in StoreType
  BY OpenedType
<1>2. t \in Service /\ Advanceable(t)
  <2>1. requests \in [RequestIDs -> Request \cup {NoRecord}]
    BY <1>1, HeldShape, RequestStatus, ServiceShape
  <2>2. left \in SUBSET RequestIDs
    BY <1>1, ServiceShape
  <2> HIDE DEF requests, left
  <2> QED
    BY <1>1, <2>1, <2>2, ServiceShape, ServiceUpdates
<1>3. SaveOver(disk, t, outcome)
  BY DEF Reject, Save
<1> HIDE DEF t
<1> QED
  BY <1>1, <1>2, <1>3, SameReaders, SamePast, SavingType, TypeParts
     DEF Reject, Decidable, ConsentType

(* What an approval creates in the policy store, and the record of it.     *)
LEMMA ConsentedShape ==
  ASSUME TypeInv, NEW s \in Opened, NEW r \in Held(s.requests), NEW g \in GrantIDs,
         Approvable(s, r, g)
  PROVE  LET st == Consented(s, r, g)
             i == s.requests[r].invitation
         IN /\ st \in StoreType /\ st[g] \in StoreGrant
            /\ clock' \in Nat /\ clock' \in Times
            /\ i \in InvitationIDs /\ s.invitations[i] \in Invitation
            /\ st[g].held /\ ~st[g].revoked /\ st[g].revision = 1
            /\ st[g].from = clock' /\ st[g].allowed = s.invitations[i].allowed
            /\ st[g].until = clock' + s.invitations[i].duration
            /\ \A h \in GrantIDs \ {g} : st[h] = SweptStore[h]
<1> DEFINE i == s.requests[r].invitation
           inv == s.invitations[i]
<1>1. /\ s \in Service /\ SweptStore \in StoreType
      /\ clock' \in Nat /\ clock' \in Times
  BY OpenedType, MovedTime DEF Approvable, Decidable
<1>2. i \in Held(s.invitations)
  BY DEF Approvable
<1>3. i \in InvitationIDs /\ inv \in Invitation
  BY <1>1, <1>2, HeldShape
<1>4. inv.allowed \in SUBSET Optional /\ inv.duration \in Nat
  BY <1>3, Constants DEF Invitation
<1>5. clock' + inv.duration \in Nat
  <2>1. \A m, n \in Nat : m + n \in Nat
    OBVIOUS
  <2> QED
    BY <1>1, <1>4, <2>1
<1>6. ASSUME NEW allowed, NEW until, NEW now
      PROVE  LET st == Create(SweptStore, g, allowed, until, now)
             IN /\ st[g].held /\ ~st[g].revoked /\ st[g].revision = 1
                /\ st[g].from = now /\ st[g].allowed = allowed
                /\ st[g].until = until
                /\ \A h \in GrantIDs \ {g} : st[h] = SweptStore[h]
  BY <1>1 DEF Create, StoreType
<1>7. Consented(s, r, g) = Create(SweptStore, g, inv.allowed,
                                  clock' + inv.duration, clock')
  BY DEF Consented
<1>8. Consented(s, r, g) \in StoreType
  BY <1>1, <1>4, <1>5, <1>7, CreateType
<1> HIDE DEF inv
<1>9. Consented(s, r, g)[g].held /\ Consented(s, r, g)[g] \in StoreGrant
  <2>1. Consented(s, r, g)[g].held
    BY <1>6, <1>7
  <2> QED
    BY <1>8, <2>1, StoreShape
<1>10. LET st == Consented(s, r, g)
       IN /\ ~st[g].revoked /\ st[g].revision = 1
          /\ st[g].from = clock' /\ st[g].allowed = inv.allowed
          /\ st[g].until = clock' + inv.duration
          /\ \A h \in GrantIDs \ {g} : st[h] = SweptStore[h]
  BY <1>6, <1>7
<1> QED
  BY <1>1, <1>3, <1>8, <1>9, <1>10 DEF inv

LEMMA ApproveType ==
  ASSUME TypeInv, NEW s \in Opened, NEW r \in Held(s.requests), NEW g \in GrantIDs,
         NEW outcome, Approve(s, r, g, outcome)
  PROVE  TypeInv'
<1> DEFINE st == Consented(s, r, g)
           requests == [s.requests EXCEPT ![r] =
                          [s.requests[r] EXCEPT !.status = "approved", !.grant = g]]
           grant == [held |-> TRUE, request |-> r, from |-> st[g].from,
                     until |-> st[g].until, status |-> "active",
                     revision |-> st[g].revision, allowed |-> st[g].allowed,
                     readAt |-> 0]
           t == [s EXCEPT !.requests = requests,
                          !.grants = [s.grants EXCEPT ![g] = grant]]
<1>1. s \in Service /\ Advanceable(s) /\ Approvable(s, r, g) /\ store' = st
  BY OpenedType DEF Approve
<1>2. st \in StoreType /\ st[g] \in StoreGrant /\ st[g].revision = 1
  BY <1>1, ConsentedShape
<1>3. s.requests[r] \in Request /\ r \in RequestIDs
  BY <1>1, HeldShape
<1>4. grant \in Grant /\ grant.revision <= MaxRevision
  <2>1. /\ st[g].from \in Nat /\ st[g].until \in Nat
        /\ st[g].allowed \in SUBSET Optional
    BY <1>2 DEF StoreGrant
  <2>2. 1 \in 1..(MaxRevision + 1) /\ 1 <= MaxRevision /\ 0 \in Nat
    BY Constants
  <2> HIDE DEF st
  <2> QED
    BY <1>2, <1>3, <2>1, <2>2 DEF Grant
<1>5. requests \in [RequestIDs -> Request \cup {NoRecord}]
  <2>1. \A q \in Request : [q EXCEPT !.status = "approved", !.grant = g] \in Request
    BY DEF Request
  <2> QED
    BY <1>1, <1>3, <2>1, ServiceShape
<1>6. t \in Service /\ Advanceable(t)
  <2> HIDE DEF requests, grant
  <2> QED
    BY <1>1, <1>4, <1>5, GrantsUpdate
<1>7. SaveOver(disk, t, outcome)
  BY <1>1 DEF Approve, Save
<1>8. ReadersType' /\ PastType'
  BY <1>3, SameReaders, TypeParts DEF Approve, PastType
<1> HIDE DEF t, st
<1> QED
  BY <1>1, <1>2, <1>6, <1>7, <1>8, SavingType, TypeParts
     DEF Approve, Approvable, Decidable, ConsentType

LEMMA ApproveMismatchedType ==
  ASSUME TypeInv, NEW s \in Opened, NEW r \in Held(s.requests), NEW g \in GrantIDs,
         ApproveMismatched(s, r, g)
  PROVE  TypeInv'
<1>1. Approvable(s, r, g)
  BY DEF ApproveMismatched
<1>2. Consented(s, r, g) \in StoreType /\ clock' \in Times
  BY <1>1, ConsentedShape
<1> QED
  BY <1>2, OpenedType, PassingType, SamePast, SameReaders DEF ApproveMismatched

-----------------------------------------------------------------------------
(* Restricting and stopping                                                *)

(* A live grant of the swept state has a revision that can be counted on.  *)
LEMMA LiveShape ==
  ASSUME NEW s \in Service, Advanceable(s), NEW g \in Live(s)
  PROVE  /\ g \in GrantIDs /\ g \in Held(s.grants) /\ s.grants[g] \in Grant
         /\ s.grants[g].held /\ s.grants[g].status = "active"
         /\ s.grants[g].revision \in 1..MaxRevision
<1>1. /\ g \in GrantIDs /\ g \in Held(s.grants) /\ s.grants[g] \in Grant
      /\ s.grants[g].held /\ s.grants[g].status = "active"
  BY HeldShape DEF Live
<1>2. s.grants[g].revision \in 1..(MaxRevision + 1)
  BY <1>1 DEF Grant
<1> QED
  BY <1>1, <1>2, Constants DEF Advanceable

LEMMA GrantRestricted ==
  ASSUME NEW x \in Grant, NEW y \in StoreGrant
  PROVE  LET new == [x EXCEPT !.revision = y.revision, !.until = y.until,
                              !.allowed = y.allowed]
         IN new \in Grant /\ new.revision <= MaxRevision
<1>1. /\ y.revision \in 1..MaxRevision /\ y.until \in Nat
      /\ y.allowed \in SUBSET Optional
  BY DEF StoreGrant
<1>2. y.revision \in 1..(MaxRevision + 1) /\ y.revision <= MaxRevision
  BY <1>1, Constants
<1> QED
  BY <1>1, <1>2 DEF Grant

LEMMA RestrictGrantType ==
  ASSUME TypeInv, NEW s \in Opened, NEW g \in Live(s), NEW outcome,
         RestrictGrant(s, g, outcome)
  PROVE  TypeInv'
<1>1. /\ s \in Service /\ Advanceable(s) /\ SweptStore \in StoreType
      /\ clock' \in Nat
  BY OpenedType, MovedTime DEF RestrictGrant
<1>2. PICK allowed \in SUBSET Optional, until \in 1..(MaxTime + MaxGrantLifetime) :
        /\ MayRestrict(SweptStore, g, s.grants[g].revision, allowed, until, clock')
        /\ store' = Restrict(SweptStore, g, allowed, until, clock')
  BY DEF RestrictGrant
<1>3. g \in Known(SweptStore) /\ SweptStore[g].revision < MaxRevision
  BY <1>2 DEF MayRestrict, Matches
<1>4. store' \in StoreType
  BY <1>1, <1>2, <1>3, RestrictType, Constants
<1>5. g \in GrantIDs /\ s.grants[g] \in Grant
  BY <1>1, LiveShape
<1>6. store'[g] \in StoreGrant
  <2>1. store'[g].held
    <3>1. SweptStore[g] \in StoreGrant
      BY <1>1, <1>3, StoreShape
    <3>2. \A x \in StoreGrant : [x EXCEPT !.revision = x.revision + 1,
             !.allowed = allowed, !.until = until, !.server = clock'].held = TRUE
      BY DEF StoreGrant
    <3> QED
      BY <1>1, <1>2, <1>5, <3>1, <3>2 DEF Restrict, StoreType
  <2> QED
    BY <1>4, <1>5, <2>1, StoreShape
<1> DEFINE st == store'
           grant == [s.grants[g] EXCEPT !.revision = st[g].revision,
                       !.until = st[g].until, !.allowed = st[g].allowed]
           t == [s EXCEPT !.grants = [s.grants EXCEPT ![g] = grant]]
<1>7. grant \in Grant /\ grant.revision <= MaxRevision
  BY <1>5, <1>6, GrantRestricted
<1>8. t \in Service /\ Advanceable(t)
  <2> HIDE DEF grant
  <2> QED
    BY <1>1, <1>5, <1>7, ServiceShape, GrantsUpdate
<1>9. SaveOver(disk, t, outcome)
  BY DEF RestrictGrant, RestrictedIn, Save
<1> HIDE DEF t, st
<1> QED
  BY <1>4, <1>8, <1>9, SameReaders, SamePast, SavingType, TypeParts
     DEF RestrictGrant, ConsentType

LEMMA RestrictTooLateType ==
  ASSUME TypeInv, NEW s \in Opened, NEW g \in GrantIDs, RestrictTooLate(s, g)
  PROVE  TypeInv'
<1>1. Noticed(SweptStore, g, clock') \in StoreType
  BY OpenedType, NoticedType DEF RestrictTooLate, Matches
<1> QED
  BY <1>1, MovedTime, OpenedType, PassingType, SamePast, SameReaders
     DEF RestrictTooLate

LEMMA WrittenType ==
  ASSUME TypeInv, NEW s \in Service, Advanceable(s), NEW gs \in SUBSET GrantIDs,
         clock' \in Nat
  PROVE  Written(s, gs) \in Service /\ Advanceable(Written(s, gs))
<1>1. disk \in Service /\ Advanceable(disk)
  BY TypeParts DEF ConsentType
<1>2. /\ [RevokedIn(s, gs) EXCEPT !.last = clock'] \in Service
      /\ Advanceable([RevokedIn(s, gs) EXCEPT !.last = clock'])
  BY RevokedType, ServiceLast
<1> QED
  BY <1>1, <1>2, DurableType DEF Written

LEMMA StopType ==
  ASSUME TypeInv, NEW s \in Opened, NEW g \in Live(s), NEW outcome,
         Stop(s, g, outcome)
  PROVE  TypeInv'
<1>1. s \in Service /\ Advanceable(s) /\ SweptStore \in StoreType
  BY OpenedType
<1>2. g \in GrantIDs /\ {g} \in SUBSET GrantIDs
  BY <1>1, LiveShape
<1>3. store' \in StoreType
  BY <1>1, <1>2, RevokedAllType DEF Stop, Revocable, Matches
<1>4. PastType'
  BY <1>2, EndedType DEF Stop
<1>5. RevokedIn(s, {g}) \in Service /\ Advanceable(RevokedIn(s, {g}))
  BY <1>1, <1>2, RevokedType
<1>6. SaveOver(disk, RevokedIn(s, {g}), outcome)
  BY DEF Stop, Save
<1> QED
  BY <1>3, <1>4, <1>5, <1>6, SameReaders, SavingType, TypeParts DEF Stop, ConsentType

(* What both cancellations have in common: the grants gs are revoked, and  *)
(* invitations, requests and return invitations of the rest may change.    *)
LEMMA CancelledType ==
  ASSUME TypeInv, NEW s \in Opened, NEW gs \in SUBSET GrantIDs, NEW outcome,
         NEW invitations \in [InvitationIDs -> Invitation \cup {NoRecord}],
         NEW requests \in [RequestIDs -> Request \cup {NoRecord}],
         NEW returns \in SUBSET RequestIDs, MovesOn,
         \A g \in gs \cap Live(s) : Revocable(s, g),
         store' = RevokedAll(SweptStore, s, gs),
         SaveOver(Written(s, gs),
                  [RevokedIn(s, gs) EXCEPT !.invitations = invitations,
                     !.requests = requests, !.returns = returns], outcome),
         PastType', ReadersType', served' = NoSnapshot, UNCHANGED vehicle
  PROVE  TypeInv'
<1>1. /\ s \in Service /\ Advanceable(s) /\ SweptStore \in StoreType
      /\ clock' \in Nat
  BY OpenedType, MovedTime
<1>2. store' \in StoreType
  BY <1>1, RevokedAllType DEF Revocable, Matches
<1>3. Written(s, gs) \in Service /\ Advanceable(Written(s, gs))
  BY <1>1, WrittenType
<1>4. RevokedIn(s, gs) \in Service /\ Advanceable(RevokedIn(s, gs))
  BY <1>1, RevokedType
<1> DEFINE t == [RevokedIn(s, gs) EXCEPT !.invitations = invitations,
                   !.requests = requests, !.returns = returns]
<1>5. t \in Service /\ Advanceable(t)
  BY <1>4, ServiceUpdates
<1> HIDE DEF t
<1> QED
  BY <1>2, <1>3, <1>5, SavingType DEF t

LEMMA CancelInvitationType ==
  ASSUME TypeInv, NEW s \in Opened, NEW i \in InvitationIDs, NEW outcome,
         CancelInvitation(s, i, outcome)
  PROVE  TypeInv'
<1> DEFINE rs == RequestsOn(s, i)
           gs == GrantsOf(s, rs)
           over == RevokedIn(s, gs)
           invitations == [j \in InvitationIDs |->
                             IF j = i /\ s.invitations[i].held
                             THEN [s.invitations[i] EXCEPT !.used = TRUE]
                             ELSE s.invitations[j]]
           requests == [r \in RequestIDs |->
                          IF r \in rs \cap Pending(s)
                          THEN [s.requests[r] EXCEPT !.status = "rejected"]
                          ELSE s.requests[r]]
           left == over.returns \ rs
<1>1. s \in Service /\ Advanceable(s)
  BY OpenedType
<1>2. gs \in SUBSET GrantIDs
  BY <1>1, HeldShape DEF GrantsOf
<1>3. invitations \in [InvitationIDs -> Invitation \cup {NoRecord}]
  <2>1. ASSUME NEW j \in InvitationIDs
        PROVE  invitations[j] \in Invitation \cup {NoRecord}
    BY <1>1, HeldShape, InvitationUsed
  <2> QED
    BY <2>1
<1>4. requests \in [RequestIDs -> Request \cup {NoRecord}]
  <2>1. ASSUME NEW r \in RequestIDs
        PROVE  requests[r] \in Request \cup {NoRecord}
    BY <1>1, HeldShape, RequestStatus DEF Pending
  <2> QED
    BY <2>1
<1>5. left \in SUBSET RequestIDs
  BY <1>1, <1>2, RevokedType, ServiceShape
<1>6. PastType'
  BY EndedType DEF CancelInvitation
<1>7. /\ MovesOn /\ \A g \in gs \cap Live(s) : Revocable(s, g)
      /\ store' = RevokedAll(SweptStore, s, gs)
      /\ SaveOver(Written(s, gs),
                  [over EXCEPT !.invitations = invitations,
                     !.requests = requests, !.returns = left], outcome)
      /\ ReadersType' /\ served' = NoSnapshot /\ UNCHANGED vehicle
  BY SameReaders DEF CancelInvitation
<1> HIDE DEF gs, invitations, requests, left
<1> QED
  BY <1>2, <1>3, <1>4, <1>5, <1>6, <1>7, CancelledType

LEMMA CancelRequestType ==
  ASSUME TypeInv, NEW s \in Opened, NEW r \in Held(s.requests), NEW outcome,
         CancelRequest(s, r, outcome)
  PROVE  TypeInv'
<1> DEFINE gs == GrantsOf(s, {r})
           over == RevokedIn(s, gs)
           requests == [s.requests EXCEPT ![r] =
                          [s.requests[r] EXCEPT !.status = "rejected"]]
           left == over.returns \ {r}
<1>1. s \in Service /\ Advanceable(s)
  BY OpenedType
<1>2. gs \in SUBSET GrantIDs
  BY <1>1, HeldShape DEF GrantsOf
<1>3. over \in Service /\ over.invitations = s.invitations
  BY <1>1, <1>2, RevokedType, RevokedFields
<1>4. requests \in [RequestIDs -> Request \cup {NoRecord}]
  BY <1>1, HeldShape, RequestStatus, ServiceShape
<1>5. left \in SUBSET RequestIDs
  BY <1>3, ServiceShape
<1>6. PastType'
  BY EndedType DEF CancelRequest
<1>7. /\ MovesOn /\ \A g \in gs \cap Live(s) : Revocable(s, g)
      /\ store' = RevokedAll(SweptStore, s, gs)
      /\ SaveOver(Written(s, gs),
                  [over EXCEPT !.requests = requests, !.returns = left], outcome)
      /\ ReadersType' /\ served' = NoSnapshot /\ UNCHANGED vehicle
  BY SameReaders DEF CancelRequest
<1> HIDE DEF gs, requests, left
<1>8. [over EXCEPT !.requests = requests, !.returns = left]
        = [over EXCEPT !.invitations = over.invitations,
                       !.requests = requests, !.returns = left]
  BY <1>3 DEF Service
<1>9. over.invitations \in [InvitationIDs -> Invitation \cup {NoRecord}]
  BY <1>3, ServiceShape
<1> QED
  BY <1>2, <1>4, <1>5, <1>6, <1>7, <1>8, <1>9, CancelledType

-----------------------------------------------------------------------------
(* Reading a snapshot                                                      *)

LEMMA BeginReadType ==
  ASSUME TypeInv, NEW s \in Opened, NEW r \in Readers, NEW g \in Live(s),
         BeginRead(s, r, g)
  PROVE  TypeInv'
<1> DEFINE row == s.grants[g]
           grant == [row EXCEPT !.readAt = clock']
           t == [s EXCEPT !.grants = [s.grants EXCEPT ![g] = grant]]
           x == [pc |-> "waiting", grant |-> g, revision |-> row.revision,
                 from |-> row.from, source |-> Nothing]
<1>1. /\ s \in Service /\ Advanceable(s) /\ SweptStore \in StoreType
      /\ clock' \in Nat /\ clock' \in Times
  BY OpenedType, MovedTime DEF BeginRead
<1>2. g \in GrantIDs /\ row \in Grant /\ row.revision \in 1..MaxRevision
  BY <1>1, LiveShape
<1>3. grant \in Grant /\ grant.revision <= MaxRevision
  BY <1>1, <1>2, GrantRead
<1>4. t \in Service /\ Advanceable(t)
  <2> HIDE DEF grant
  <2> QED
    BY <1>1, <1>2, <1>3, ServiceShape, GrantsUpdate
<1>5. x \in Waiting
  <2>1. Nothing \in Reading
    BY DEF Nothing, Reading
  <2>2. row.from \in Nat
    BY <1>2 DEF Grant
  <2> HIDE DEF row
  <2> QED
    BY <1>2, <2>1, <2>2 DEF Waiting
<1>6. ReadersType'
  <2>1. readers' = [readers EXCEPT ![r] = x]
    BY DEF BeginRead
  <2> HIDE DEF x
  <2> QED
    BY <1>5, <2>1, ReaderMoves
<1>7. svc' = t /\ store' = SweptStore
  BY DEF BeginRead
<1> HIDE DEF t
<1> QED
  BY <1>1, <1>4, <1>6, <1>7, SamePast, PassingType DEF BeginRead

LEMMA SourceAnswersType ==
  ASSUME TypeInv, NEW r \in Readers, SourceAnswers(r)
  PROVE  TypeInv'
<1> DEFINE source ==
             [motion  |-> IF vehicle.at >= readers[r].from THEN vehicle.at ELSE 0,
              route   |-> IF vehicle.active THEN vehicle.route ELSE 0,
              routeAt |-> IF vehicle.active THEN vehicle.routeAt ELSE 0]
           x == [readers[r] EXCEPT !.pc = "answered", !.source = source]
<1>1. readers[r] \in Waiting
  BY ReaderShape DEF SourceAnswers
<1>2. source \in Reading
  <2>1. /\ vehicle.at \in Nat /\ vehicle.routeAt \in Nat
        /\ vehicle.route \in 0..MaxRoutes
    BY TypeParts DEF VehicleType
  <2>2. vehicle.route \in Nat
    BY <2>1, Constants
  <2> QED
    BY <2>1, <2>2 DEF Reading
<1>3. x \in Waiting
  <2>1. \A w \in Waiting, y \in Reading :
          [w EXCEPT !.pc = "answered", !.source = y] \in Waiting
    BY DEF Waiting
  <2> HIDE DEF source
  <2> QED
    BY <1>1, <1>2, <2>1
<1>4. ReadersType'
  <2>1. readers' = [readers EXCEPT ![r] = x]
    BY DEF SourceAnswers
  <2> HIDE DEF x
  <2> QED
    BY <1>3, <2>1, ReaderMoves
<1>5. ConsentType'
  BY TypeParts DEF SourceAnswers, consent, ConsentType, Advanceable, Live, Held
<1> QED
  BY <1>4, <1>5, SamePast, TypeParts, TypePartsNext DEF SourceAnswers, VehicleType

LEMMA ReadTooLateType ==
  ASSUME TypeInv, NEW s \in Opened, NEW r \in Readers, ReadTooLate(s, r)
  PROVE  TypeInv'
<1> DEFINE g == readers[r].grant
<1>1. /\ s \in Service /\ Advanceable(s) /\ SweptStore \in StoreType
      /\ clock' \in Times
  BY OpenedType, MovedTime DEF ReadTooLate
<1>2. g \in Known(SweptStore) /\ store' = Noticed(SweptStore, g, clock')
  BY DEF ReadTooLate, Matches
<1>3. store' \in StoreType
  BY <1>1, <1>2, NoticedType
<1>4. ReadersType'
  BY ReaderMoves DEF ReadTooLate
<1> QED
  BY <1>1, <1>3, <1>4, PassingType, SamePast DEF ReadTooLate

LEMMA UpdatedType ==
  ASSUME TypeInv, NEW g \in GrantIDs, NEW out \in Reading,
         shown' = [shown EXCEPT ![g] = Updated(shown[g], out)],
         UNCHANGED <<origin, basis, ended>>
  PROVE  PastType'
<1> DEFINE Marks == [motion : Nat, route : Nat, routeAt : Nat, over : BOOLEAN]
<1>1. shown \in [GrantIDs -> Marks]
  BY TypeParts DEF PastType
<1>2. ASSUME NEW was \in Marks PROVE Updated(was, out) \in Marks
  <2>1. /\ was.motion \in Nat /\ was.route \in Nat /\ was.routeAt \in Nat
        /\ out.motion \in Nat /\ out.route \in Nat /\ out.routeAt \in Nat
    BY DEF Reading
  <2> QED
    BY <2>1 DEF Updated
<1>3. shown' \in [GrantIDs -> Marks]
  <2> HIDE DEF Marks
  <2> QED
    BY <1>1, <1>2
<1> QED
  BY <1>3, TypeParts DEF PastType

LEMMA FinishReadType ==
  ASSUME TypeInv, NEW s \in Opened, NEW r \in Readers, FinishRead(s, r)
  PROVE  TypeInv'
<1> DEFINE g == readers[r].grant
           source == readers[r].source
           out == Projected(SweptStore[g], source)
<1>1. /\ s \in Service /\ Advanceable(s) /\ SweptStore \in StoreType
      /\ clock' \in Nat /\ clock' \in Times
  BY OpenedType, MovedTime DEF FinishRead
<1>2. g \in GrantIDs /\ source \in Reading
  <2>1. readers[r] \in Waiting
    BY ReaderShape DEF FinishRead
  <2> QED
    BY <2>1 DEF Waiting
<1>3. g \in Known(SweptStore) /\ SweptStore[g] \in StoreGrant
  BY <1>1, StoreShape DEF FinishRead, MayProject, Matches
<1>4. store' = Project(SweptStore, g, source, clock') /\ store' \in StoreType
  BY <1>1, <1>2, <1>3, ProjectType DEF FinishRead
<1>5. out \in Reading
  BY <1>2, <1>3, ProjectedType
<1>6. store'[g].allowed \in SUBSET Optional
  <2>1. store'[g] = Advance(SweptStore[g], out, clock')
    BY <1>1, <1>2, <1>4 DEF Project, StoreType
  <2>2. \A x \in StoreGrant : \A y, n : Advance(x, y, n).allowed = x.allowed
    BY DEF Advance, StoreGrant
  <2>3. SweptStore[g].allowed \in SUBSET Optional
    BY <1>3 DEF StoreGrant
  <2> QED
    BY <1>3, <2>1, <2>2, <2>3
<1>7. /\ served' = [held |-> TRUE, grant |-> g, allowed |-> store'[g].allowed,
                    out |-> out]
      /\ shown' = [shown EXCEPT ![g] = Updated(shown[g], served'.out)]
  BY DEF FinishRead
<1> HIDE DEF g, source, out
<1>8. served' \in Snapshot /\ served'.out = out
  BY <1>2, <1>5, <1>6, <1>7 DEF Snapshot
<1>9. PastType'
  BY <1>2, <1>5, <1>7, <1>8, UpdatedType DEF FinishRead
<1>10. ReadersType'
  BY ReaderMoves DEF FinishRead
<1> DEFINE t == [s EXCEPT !.last = clock']
<1>11. t \in Service /\ Advanceable(t)
  BY <1>1, ServiceLast
<1>12. svc' = t
  BY DEF FinishRead
<1> HIDE DEF t
<1> QED
  BY <1>1, <1>4, <1>8, <1>9, <1>10, <1>11, <1>12, PassingType DEF FinishRead

-----------------------------------------------------------------------------
(* Every step                                                              *)

LEMMA PassingStepType ==
  ASSUME TypeInv, NEW s \in Opened, Passing(s)
  PROVE  TypeInv'
<1>1. s \in Service /\ Advanceable(s)
  BY OpenedType
<1>2. Pending(s) \subseteq Held(s.requests) /\ Held(s.grants) \subseteq GrantIDs
  BY <1>1, HeldShape DEF Pending
<1>3. CASE Look(s)
  BY <1>3, LookType
<1>4. ASSUME NEW r \in Pending(s), NEW g \in GrantIDs, ApproveMismatched(s, r, g)
      PROVE  TypeInv'
  BY <1>2, <1>4, ApproveMismatchedType
<1>5. ASSUME NEW g \in Held(s.grants), StopAgain(s, g) \/ RestrictTooLate(s, g)
      PROVE  TypeInv'
  BY <1>2, <1>5, StopAgainType, RestrictTooLateType
<1>6. ASSUME NEW r \in Readers,
             \/ FinishRead(s, r) \/ ReadTooLate(s, r) \/ Abandon(s, r)
             \/ \E g \in Live(s) : BeginRead(s, r, g)
             \/ \E allowed \in Offers, duration \in Durations :
                  BeginInvite(s, r, allowed, duration)
      PROVE  TypeInv'
  BY <1>6, FinishReadType, ReadTooLateType, AbandonType, BeginReadType,
     BeginInviteType
<1> QED
  BY <1>3, <1>4, <1>5, <1>6 DEF Passing

LEMMA SavingStepType ==
  ASSUME TypeInv, NEW s \in Opened, NEW outcome, Saving(s, outcome)
  PROVE  TypeInv'
<1>1. ASSUME NEW r \in Readers, NEW i \in InvitationIDs,
             FinishInvite(s, r, i, outcome)
      PROVE  TypeInv'
  BY <1>1, FinishInviteType
<1>2. ASSUME NEW i \in Held(s.invitations), NEW r \in RequestIDs,
             NEW returns \in ReturnOffers, Redeem(s, i, r, returns, outcome)
      PROVE  TypeInv'
  <2>1. returns \in BOOLEAN
    BY ServiceLimits
  <2> QED
    BY <1>2, <2>1, RedeemType
<1>3. ASSUME NEW r \in Held(s.requests),
             \/ Reject(s, r, outcome) \/ CancelRequest(s, r, outcome)
             \/ \E g \in GrantIDs : Approve(s, r, g, outcome)
      PROVE  TypeInv'
  BY <1>3, RejectType, CancelRequestType, ApproveType
<1>4. ASSUME NEW g \in Live(s),
             Stop(s, g, outcome) \/ RestrictGrant(s, g, outcome)
      PROVE  TypeInv'
  BY <1>4, StopType, RestrictGrantType
<1>5. ASSUME NEW i \in InvitationIDs, CancelInvitation(s, i, outcome)
      PROVE  TypeInv'
  BY <1>5, CancelInvitationType
<1> QED
  BY <1>1, <1>2, <1>3, <1>4, <1>5 DEF Saving

LEMMA StepType == TypeInv /\ [Next]_vars => TypeInv'
<1> SUFFICES ASSUME TypeInv, [Next]_vars PROVE TypeInv'
  OBVIOUS
<1>1. CASE UNCHANGED vars
  BY <1>1, TypeParts, TypePartsNext DEF vars, consent, past, ConsentType,
     ReadersType, VehicleType, PastType, Advanceable, Live, Held
<1>2. ASSUME NEW outcome \in Outcomes, Restart(outcome) PROVE TypeInv'
  BY <1>2, RestartType
<1>3. ASSUME NEW r \in Readers, SourceAnswers(r) \/ AbandonShut(r) PROVE TypeInv'
  BY <1>3, SourceAnswersType, AbandonShutType
<1>4. ASSUME NEW s \in Opened,
             Passing(s) \/ \E outcome \in Outcomes : Saving(s, outcome)
      PROVE  TypeInv'
  BY <1>4, PassingStepType, SavingStepType
<1> QED
  BY <1>1, <1>2, <1>3, <1>4, EnvironmentType DEF Next

(* Every variable keeps the shape of the code's types, and no active grant *)
(* of the state or of the journal has run out of revisions: the restart,   *)
(* which counts one on without asking, stays within them.                  *)
THEOREM TypeCorrect == Spec => []TypeOK
<1>1. Spec => []TypeInv
  BY InitType, StepType, PTL DEF Spec
<1> QED
  BY <1>1, PTL DEF TypeInv

-----------------------------------------------------------------------------
(* Consent is given once: the inductive invariant                          *)

(* An invitation that can still be redeemed was never redeemed, and a      *)
(* request that can still be approved was never approved.                  *)
Fresh(s, made, given) ==
  /\ \A i \in InvitationIDs : s.invitations[i].held /\ ~s.invitations[i].used =>
       \A q \in RequestIDs : made[q] # i
  /\ \A q \in RequestIDs : s.requests[q].held /\ s.requests[q].status = "pending" =>
       \A g \in GrantIDs : given[g] # q

(* A request names the invitation it was made from, in every copy.         *)
Traced(s, made) ==
  \A q \in RequestIDs : s.requests[q].held => made[q] = s.requests[q].invitation

(* A grant was given for a request that was made.                          *)
Based(made, given) ==
  \A g \in GrantIDs : given[g] # None => made[given[g]] # None

Single(made, given) ==
  /\ \A p, q \in RequestIDs : made[p] = made[q] /\ p # q => made[p] = None
  /\ \A g, h \in GrantIDs : given[g] = given[h] /\ g # h => given[g] = None

SpendInv ==
  /\ TypeInv
  /\ Single(origin, basis) /\ Based(origin, basis)
  /\ Fresh(svc, origin, basis)
  /\ Traced(svc, origin) /\ Traced(disk, origin)

(* t has no invitation or request that s has not, and none of them is      *)
(* open again.                                                             *)
Narrower(t, s) ==
  /\ \A i \in InvitationIDs : t.invitations[i].held =>
       /\ s.invitations[i].held
       /\ s.invitations[i].used => t.invitations[i].used
  /\ \A q \in RequestIDs : t.requests[q].held =>
       /\ s.requests[q].held /\ t.requests[q].invitation = s.requests[q].invitation
       /\ t.requests[q].status = "pending" => s.requests[q].status = "pending"

LEMMA NarrowerSame ==
  ASSUME NEW s, NEW t, t.invitations = s.invitations, t.requests = s.requests
  PROVE  Narrower(t, s)
BY DEF Narrower

LEMMA NarrowerTransitive ==
  ASSUME NEW s, NEW t, NEW u, Narrower(t, s), Narrower(u, t)
  PROVE  Narrower(u, s)
BY DEF Narrower

LEMMA NarrowerKeeps ==
  ASSUME NEW s, NEW t, Narrower(t, s), NEW made, NEW given
  PROVE  /\ Fresh(s, made, given) => Fresh(t, made, given)
         /\ Traced(s, made) => Traced(t, made)
BY DEF Narrower, Fresh, Traced

LEMMA RequestExpired ==
  ASSUME NEW q \in Request
  PROVE  LET new == [q EXCEPT !.status = "expired"]
         IN new.status = "expired" /\ new.invitation = q.invitation
BY DEF Request

LEMMA LapsedNarrower ==
  ASSUME NEW s \in Service, NEW now \in Nat
  PROVE  Narrower(Lapsed(s, now), s)
<1> DEFINE t == Lapsed(s, now)
<1>1. t.invitations = s.invitations
  BY LapsedFields
<1>2. ASSUME NEW q \in RequestIDs, t.requests[q].held
      PROVE  /\ s.requests[q].held /\ t.requests[q].invitation = s.requests[q].invitation
             /\ t.requests[q].status = "pending" => s.requests[q].status = "pending"
  <2>1. CASE q \in Pending(s) /\ s.requests[q].until <= now
    <3>1. s.requests[q] \in Request /\ s.requests[q].held
      BY <2>1, HeldShape DEF Pending
    <3>2. t.requests[q] = [s.requests[q] EXCEPT !.status = "expired"]
      BY <2>1, LapsedRequests
    <3> HIDE DEF t
    <3>3. t.requests[q].status = "expired"
      BY <3>1, <3>2, RequestExpired
    <3>4. t.requests[q].invitation = s.requests[q].invitation
      BY <3>1, <3>2, RequestExpired
    <3> QED
      BY <3>1, <3>3, <3>4
  <2>2. CASE ~(q \in Pending(s) /\ s.requests[q].until <= now)
    <3>1. t.requests[q] = s.requests[q]
      BY <2>2, LapsedRequests
    <3> HIDE DEF t
    <3> QED
      BY <1>2, <3>1
  <2> QED
    BY <2>1, <2>2
<1> HIDE DEF t
<1> QED
  BY <1>1, <1>2 DEF Narrower, t

LEMMA ReclaimedNarrower ==
  ASSUME NEW s \in Service, NEW cutoff \in Int
  PROVE  Narrower(Reclaimed(s, cutoff), s)
<1> DEFINE t == Reclaimed(s, cutoff)
<1>1. \A i \in InvitationIDs : t.invitations[i] \in {NoRecord, s.invitations[i]}
  BY DEF Reclaimed
<1>2. \A q \in RequestIDs : t.requests[q] \in {NoRecord, s.requests[q]}
  BY DEF Reclaimed
<1> HIDE DEF t
<1> QED
  BY <1>1, <1>2 DEF Narrower, NoRecord, t

LEMMA OpenedNarrower ==
  ASSUME TypeInv, NEW s \in Opened
  PROVE  Narrower(s, svc)
<1> DEFINE t == [svc EXCEPT !.last = clock]
           u == Lapsed(t, clock)
<1>1. clock \in Nat /\ Cutoff \in Int /\ svc \in Service /\ Advanceable(svc)
  BY Constants DEF TypeInv, TypeOK, Times, Cutoff
<1>2. t \in Service /\ Advanceable(t)
  BY <1>1, ServiceLast
<1>3. Narrower(t, svc)
  BY <1>1, NarrowerSame DEF Service
<1>4. u \in Service /\ Narrower(u, t)
  BY <1>1, <1>2, LapsedType, LapsedNarrower
<1>5. s = Reclaimed(u, Cutoff)
  BY DEF Opened, Swept
<1>6. Narrower(s, u)
  BY <1>1, <1>4, <1>5, ReclaimedNarrower
<1> HIDE DEF t, u
<1> QED
  BY <1>3, <1>4, <1>6, NarrowerTransitive

-----------------------------------------------------------------------------
(* What saving does to the journal                                         *)

LEMMA DurableNarrower ==
  ASSUME NEW s
  PROVE  Narrower(Durable(s), s)
BY NarrowerSame DEF Durable

LEMMA LastNarrower ==
  ASSUME NEW s \in Service, NEW n
  PROVE  Narrower([s EXCEPT !.last = n], s)
<1>1. /\ [s EXCEPT !.last = n].invitations = s.invitations
      /\ [s EXCEPT !.last = n].requests = s.requests
  BY DEF Service
<1> QED
  BY <1>1, NarrowerSame

LEMMA SaveNarrower ==
  ASSUME NEW t \in Service, NEW written, NEW outcome, SaveOver(written, t, outcome)
  PROVE  Narrower(svc', t) /\ (disk' = written \/ Narrower(disk', t))
<1>1. Narrower([t EXCEPT !.last = clock'], t)
  BY LastNarrower
<1> QED
  BY <1>1, DurableNarrower, NarrowerTransitive DEF SaveOver

(* A step that makes nothing new, and leaves the journal as it is or no    *)
(* wider than the state.                                                   *)
LEMMA QuietSpend ==
  ASSUME SpendInv, TypeInv', UNCHANGED <<origin, basis>>,
         Narrower(svc', svc), disk' = disk \/ Narrower(disk', svc)
  PROVE  SpendInv'
<1>1. Fresh(svc', origin, basis) /\ Traced(svc', origin) /\ Traced(disk', origin)
  BY NarrowerKeeps DEF SpendInv
<1> QED
  BY <1>1 DEF SpendInv

(* The same of a step that goes on from the swept state.                   *)
LEMMA QuietSaveSpend ==
  ASSUME SpendInv, TypeInv', UNCHANGED <<origin, basis>>, NEW s \in Opened,
         NEW t \in Service, Narrower(t, s), NEW written, NEW outcome,
         SaveOver(written, t, outcome), written = disk \/ Narrower(written, s)
  PROVE  SpendInv'
<1>1. Narrower(s, svc)
  BY OpenedNarrower DEF SpendInv
<1>2. Narrower(svc', t) /\ (disk' = written \/ Narrower(disk', t))
  BY SaveNarrower
<1> QED
  BY <1>1, <1>2, NarrowerTransitive, QuietSpend

LEMMA PassingSpend ==
  ASSUME SpendInv, TypeInv', NEW s \in Opened, Passing(s)
  PROVE  SpendInv'
<1>1. TypeInv /\ Narrower(s, svc) /\ s \in Service
  BY OpenedNarrower, OpenedType DEF SpendInv
<1>2. UNCHANGED <<origin, basis, disk>>
  BY DEF Passing, Look, ApproveMismatched, StopAgain, RestrictTooLate, FinishRead,
     ReadTooLate, Abandon, BeginRead, BeginInvite, past
<1>3. Narrower(svc', s)
  <2>1. CASE svc' = s
    BY <2>1, NarrowerSame
  <2>2. ASSUME NEW r \in Readers, FinishRead(s, r) PROVE Narrower(svc', s)
    BY <1>1, <2>2, LastNarrower DEF FinishRead
  <2>3. ASSUME NEW r \in Readers, NEW g \in Live(s), BeginRead(s, r, g)
        PROVE  Narrower(svc', s)
    <3>1. ASSUME NEW grants
          PROVE  LET t == [s EXCEPT !.grants = grants]
                 IN t.invitations = s.invitations /\ t.requests = s.requests
      BY <1>1 DEF Service
    <3> QED
      BY <2>3, <3>1, NarrowerSame DEF BeginRead
  <2> QED
    BY <2>1, <2>2, <2>3 DEF Passing, Look, ApproveMismatched, StopAgain,
       RestrictTooLate, ReadTooLate, Abandon, BeginInvite
<1> QED
  BY <1>1, <1>2, <1>3, NarrowerTransitive, QuietSpend

-----------------------------------------------------------------------------
(* The requests that save and make nothing new                             *)

LEMMA GrantsOnlyNarrower ==
  ASSUME NEW s \in Service, NEW grants
  PROVE  Narrower([s EXCEPT !.grants = grants], s)
<1>1. /\ [s EXCEPT !.grants = grants].invitations = s.invitations
      /\ [s EXCEPT !.grants = grants].requests = s.requests
  BY DEF Service
<1> QED
  BY <1>1, NarrowerSame

LEMMA RevokedNarrower ==
  ASSUME NEW s \in Service, NEW gs \in SUBSET GrantIDs
  PROVE  Narrower(RevokedIn(s, gs), s)
BY RevokedFields, NarrowerSame

LEMMA WrittenNarrower ==
  ASSUME NEW s \in Service, Advanceable(s), NEW gs \in SUBSET GrantIDs
  PROVE  Written(s, gs) = disk \/ Narrower(Written(s, gs), s)
<1> DEFINE t == RevokedIn(s, gs)
           u == [t EXCEPT !.last = clock']
<1>1. t \in Service /\ Narrower(t, s)
  BY RevokedNarrower, RevokedType
<1>2. Narrower(u, t) /\ Narrower(Durable(u), u)
  BY <1>1, LastNarrower, DurableNarrower
<1>3. Written(s, gs) = disk \/ Written(s, gs) = Durable(u)
  BY DEF Written
<1> HIDE DEF t, u
<1> QED
  BY <1>1, <1>2, <1>3, NarrowerTransitive

LEMMA RejectSpend ==
  ASSUME SpendInv, TypeInv', NEW s \in Opened, NEW r \in Held(s.requests),
         NEW outcome, Reject(s, r, outcome)
  PROVE  SpendInv'
<1> DEFINE requests == [s.requests EXCEPT ![r] =
                          [s.requests[r] EXCEPT !.status = "rejected"]]
           left == s.returns \ {r}
           t == [s EXCEPT !.requests = requests, !.returns = left]
<1>1. TypeInv /\ s \in Service /\ Advanceable(s)
  BY OpenedType DEF SpendInv
<1>2. s.requests[r] \in Request /\ r \in RequestIDs /\ s.requests[r].held
  BY <1>1, HeldShape
<1>3. /\ t \in Service /\ t.invitations = s.invitations /\ t.requests = requests
      /\ \A q \in RequestIDs : requests[q] =
           IF q = r THEN [s.requests[r] EXCEPT !.status = "rejected"]
           ELSE s.requests[q]
  <2>1. requests \in [RequestIDs -> Request \cup {NoRecord}]
    BY <1>1, <1>2, RequestStatus, ServiceShape
  <2>2. \A q \in RequestIDs : requests[q] =
           IF q = r THEN [s.requests[r] EXCEPT !.status = "rejected"]
           ELSE s.requests[q]
    BY <1>1, ServiceShape
  <2>3. left \in SUBSET RequestIDs
    BY <1>1, ServiceShape
  <2> HIDE DEF requests, left
  <2> QED
    BY <1>1, <2>1, <2>2, <2>3 DEF Service
<1>4. Narrower(t, s)
  <2>1. LET q == [s.requests[r] EXCEPT !.status = "rejected"]
        IN q.invitation = s.requests[r].invitation /\ q.status = "rejected"
    BY <1>2 DEF Request
  <2> HIDE DEF t, requests
  <2> QED
    BY <1>2, <1>3, <2>1 DEF Narrower
<1>5. SaveOver(disk, t, outcome) /\ UNCHANGED <<origin, basis>>
  BY DEF Reject, Save, past
<1> HIDE DEF t
<1> QED
  BY <1>3, <1>4, <1>5, QuietSaveSpend

LEMMA StopSpend ==
  ASSUME SpendInv, TypeInv', NEW s \in Opened, NEW g \in Live(s), NEW outcome,
         Stop(s, g, outcome)
  PROVE  SpendInv'
<1>1. TypeInv /\ s \in Service /\ Advanceable(s)
  BY OpenedType DEF SpendInv
<1>2. {g} \in SUBSET GrantIDs
  BY <1>1, LiveShape
<1>3. RevokedIn(s, {g}) \in Service /\ Narrower(RevokedIn(s, {g}), s)
  BY <1>1, <1>2, RevokedType, RevokedNarrower
<1>4. SaveOver(disk, RevokedIn(s, {g}), outcome) /\ UNCHANGED <<origin, basis>>
  BY DEF Stop, Save
<1> QED
  BY <1>3, <1>4, QuietSaveSpend

LEMMA RestrictGrantSpend ==
  ASSUME SpendInv, TypeInv', NEW s \in Opened, NEW g \in Live(s), NEW outcome,
         RestrictGrant(s, g, outcome)
  PROVE  SpendInv'
<1>1. TypeInv /\ s \in Service
  BY OpenedType DEF SpendInv
<1>2. PICK grants : svc' = [[s EXCEPT !.grants = grants] EXCEPT !.last = clock']
                    /\ (disk' = disk \/ disk' = Durable(svc'))
  BY DEF RestrictGrant, RestrictedIn, Save, SaveOver
<1>3. svc'.invitations = s.invitations /\ svc'.requests = s.requests
  BY <1>1, <1>2 DEF Service
<1>4. Narrower(svc', s) /\ Narrower(Durable(svc'), svc') /\ Narrower(s, svc)
  BY <1>1, <1>3, NarrowerSame, DurableNarrower, OpenedNarrower
<1>5. UNCHANGED <<origin, basis>>
  BY DEF RestrictGrant, past
<1> QED
  BY <1>2, <1>4, <1>5, NarrowerTransitive, QuietSpend

(* Both cancellations: fewer open invitations and requests than before.    *)
LEMMA CancelledSpend ==
  ASSUME SpendInv, TypeInv', NEW s \in Opened, NEW gs \in SUBSET GrantIDs,
         NEW invitations \in [InvitationIDs -> Invitation \cup {NoRecord}],
         NEW requests \in [RequestIDs -> Request \cup {NoRecord}],
         NEW returns \in SUBSET RequestIDs, NEW outcome,
         \A j \in InvitationIDs : invitations[j].held =>
            /\ s.invitations[j].held
            /\ s.invitations[j].used => invitations[j].used,
         \A q \in RequestIDs : requests[q].held =>
            /\ s.requests[q].held
            /\ requests[q].invitation = s.requests[q].invitation
            /\ requests[q].status = "pending" => s.requests[q].status = "pending",
         SaveOver(Written(s, gs),
                  [RevokedIn(s, gs) EXCEPT !.invitations = invitations,
                     !.requests = requests, !.returns = returns], outcome),
         UNCHANGED <<origin, basis>>
  PROVE  SpendInv'
<1> DEFINE t == [RevokedIn(s, gs) EXCEPT !.invitations = invitations,
                   !.requests = requests, !.returns = returns]
<1>1. TypeInv /\ s \in Service /\ Advanceable(s)
  BY OpenedType DEF SpendInv
<1>2. RevokedIn(s, gs) \in Service /\ Advanceable(RevokedIn(s, gs))
  BY <1>1, RevokedType
<1>3. t \in Service
  BY <1>2, ServiceUpdates
<1>4. t.invitations = invitations /\ t.requests = requests
  BY <1>2 DEF Service
<1>5. Narrower(t, s)
  <2> HIDE DEF t
  <2> QED
    BY <1>4 DEF Narrower
<1>6. Written(s, gs) = disk \/ Narrower(Written(s, gs), s)
  BY <1>1, WrittenNarrower
<1> HIDE DEF t
<1> QED
  BY <1>3, <1>5, <1>6, QuietSaveSpend DEF t

LEMMA RequestRejected ==
  ASSUME NEW q \in Request
  PROVE  LET new == [q EXCEPT !.status = "rejected"]
         IN new.held /\ new.invitation = q.invitation /\ new.status = "rejected"
BY DEF Request

LEMMA CancelInvitationSpend ==
  ASSUME SpendInv, TypeInv', NEW s \in Opened, NEW i \in InvitationIDs, NEW outcome,
         CancelInvitation(s, i, outcome)
  PROVE  SpendInv'
<1> DEFINE rs == RequestsOn(s, i)
           gs == GrantsOf(s, rs)
           over == RevokedIn(s, gs)
           invitations == [j \in InvitationIDs |->
                             IF j = i /\ s.invitations[i].held
                             THEN [s.invitations[i] EXCEPT !.used = TRUE]
                             ELSE s.invitations[j]]
           requests == [r \in RequestIDs |->
                          IF r \in rs \cap Pending(s)
                          THEN [s.requests[r] EXCEPT !.status = "rejected"]
                          ELSE s.requests[r]]
           left == over.returns \ rs
<1>1. s \in Service /\ Advanceable(s)
  BY OpenedType DEF SpendInv
<1>2. gs \in SUBSET GrantIDs
  BY <1>1, HeldShape DEF GrantsOf
<1>3. ASSUME NEW j \in InvitationIDs
      PROVE  /\ invitations[j] \in Invitation \cup {NoRecord}
             /\ invitations[j].held =>
                  /\ s.invitations[j].held
                  /\ s.invitations[j].used => invitations[j].used
  <2>1. \A x \in Invitation : [x EXCEPT !.used = TRUE].used = TRUE
    BY DEF Invitation
  <2>2. CASE j = i /\ s.invitations[i].held
    <3>1. s.invitations[j] \in Invitation
      BY <1>1, <2>2, HeldShape
    <3>2. invitations[j] = [s.invitations[j] EXCEPT !.used = TRUE]
      BY <2>2
    <3> QED
      BY <2>1, <2>2, <3>1, <3>2, InvitationUsed
  <2>3. CASE ~(j = i /\ s.invitations[i].held)
    <3>1. invitations[j] = s.invitations[j]
      BY <2>3
    <3> HIDE DEF invitations
    <3> QED
      BY <1>1, <3>1, ServiceShape
  <2> QED
    BY <2>2, <2>3
<1>4. ASSUME NEW q \in RequestIDs
      PROVE  /\ requests[q] \in Request \cup {NoRecord}
             /\ requests[q].held =>
                  /\ s.requests[q].held
                  /\ requests[q].invitation = s.requests[q].invitation
                  /\ requests[q].status = "pending" => s.requests[q].status = "pending"
  <2>1. CASE q \in rs \cap Pending(s)
    <3>1. s.requests[q] \in Request /\ s.requests[q].held
      BY <1>1, <2>1, HeldShape DEF Pending
    <3>2. requests[q] = [s.requests[q] EXCEPT !.status = "rejected"]
      BY <2>1
    <3> HIDE DEF requests
    <3> QED
      BY <3>1, <3>2, RequestStatus, RequestRejected
  <2>2. CASE q \notin rs \cap Pending(s)
    <3>1. requests[q] = s.requests[q]
      BY <2>2
    <3> HIDE DEF requests
    <3> QED
      BY <1>1, <3>1, ServiceShape
  <2> QED
    BY <2>1, <2>2
<1>5. /\ invitations \in [InvitationIDs -> Invitation \cup {NoRecord}]
      /\ requests \in [RequestIDs -> Request \cup {NoRecord}]
      /\ left \in SUBSET RequestIDs
  BY <1>1, <1>2, <1>3, <1>4, RevokedType, ServiceShape
<1>6. /\ SaveOver(Written(s, gs),
                  [over EXCEPT !.invitations = invitations,
                     !.requests = requests, !.returns = left], outcome)
      /\ UNCHANGED <<origin, basis>>
  BY DEF CancelInvitation
<1>7. /\ \A j \in InvitationIDs : invitations[j].held =>
           /\ s.invitations[j].held
           /\ s.invitations[j].used => invitations[j].used
      /\ \A q \in RequestIDs : requests[q].held =>
           /\ s.requests[q].held
           /\ requests[q].invitation = s.requests[q].invitation
           /\ requests[q].status = "pending" => s.requests[q].status = "pending"
  BY <1>3, <1>4
<1> HIDE DEF gs, invitations, requests, left
<1> QED
  BY <1>2, <1>5, <1>6, <1>7, CancelledSpend

LEMMA CancelRequestSpend ==
  ASSUME SpendInv, TypeInv', NEW s \in Opened, NEW r \in Held(s.requests),
         NEW outcome, CancelRequest(s, r, outcome)
  PROVE  SpendInv'
<1> DEFINE gs == GrantsOf(s, {r})
           over == RevokedIn(s, gs)
           requests == [s.requests EXCEPT ![r] =
                          [s.requests[r] EXCEPT !.status = "rejected"]]
           left == over.returns \ {r}
<1>1. s \in Service /\ Advanceable(s)
  BY OpenedType DEF SpendInv
<1>2. gs \in SUBSET GrantIDs
  BY <1>1, HeldShape DEF GrantsOf
<1>3. over \in Service /\ over.invitations = s.invitations
  BY <1>1, <1>2, RevokedType, RevokedFields
<1>4. /\ s.requests[r] \in Request /\ r \in RequestIDs /\ s.requests[r].held
      /\ s.requests \in [RequestIDs -> Request \cup {NoRecord}]
  BY <1>1, HeldShape, ServiceShape
<1>5. ASSUME NEW q \in RequestIDs
      PROVE  /\ requests[q] \in Request \cup {NoRecord}
             /\ requests[q].held =>
                  /\ s.requests[q].held
                  /\ requests[q].invitation = s.requests[q].invitation
                  /\ requests[q].status = "pending" => s.requests[q].status = "pending"
  <2>1. CASE q = r
    <3>1. requests[q] = [s.requests[q] EXCEPT !.status = "rejected"]
      BY <1>4, <2>1
    <3> HIDE DEF requests
    <3> QED
      BY <1>4, <2>1, <3>1, RequestStatus, RequestRejected
  <2>2. CASE q # r
    <3>1. requests[q] = s.requests[q]
      BY <1>4, <2>2
    <3> HIDE DEF requests
    <3> QED
      BY <1>4, <3>1
  <2> QED
    BY <2>1, <2>2
<1>6. requests \in [RequestIDs -> Request \cup {NoRecord}]
  BY <1>4, RequestStatus
<1>7. left \in SUBSET RequestIDs
  BY <1>3, ServiceShape
<1>8. /\ SaveOver(Written(s, gs),
                  [over EXCEPT !.requests = requests, !.returns = left], outcome)
      /\ UNCHANGED <<origin, basis>>
  BY DEF CancelRequest
<1> HIDE DEF gs, requests, left
<1>9. [over EXCEPT !.requests = requests, !.returns = left]
        = [over EXCEPT !.invitations = over.invitations,
                       !.requests = requests, !.returns = left]
  BY <1>3 DEF Service
<1>10. s.invitations \in [InvitationIDs -> Invitation \cup {NoRecord}]
  BY <1>1, ServiceShape
<1>11. /\ SaveOver(Written(s, gs),
                   [RevokedIn(s, gs) EXCEPT !.invitations = s.invitations,
                      !.requests = requests, !.returns = left], outcome)
       /\ UNCHANGED <<origin, basis>>
  BY <1>3, <1>8, <1>9
<1>12. \A q \in RequestIDs : requests[q].held =>
         /\ s.requests[q].held
         /\ requests[q].invitation = s.requests[q].invitation
         /\ requests[q].status = "pending" => s.requests[q].status = "pending"
  BY <1>5
<1> QED
  BY <1>2, <1>6, <1>7, <1>10, <1>11, <1>12, CancelledSpend

-----------------------------------------------------------------------------
(* The requests that make something new, and the restart                   *)

LEMMA SweptSpend ==
  ASSUME SpendInv, NEW s \in Opened
  PROVE  /\ TypeInv /\ s \in Service /\ Advanceable(s)
         /\ Fresh(s, origin, basis) /\ Traced(s, origin)
BY OpenedType, OpenedNarrower, NarrowerKeeps DEF SpendInv

LEMMA SavedSpend ==
  ASSUME TypeInv', NEW t \in Service, NEW outcome, SaveOver(disk, t, outcome),
         Single(origin', basis'), Based(origin', basis'),
         Fresh(t, origin', basis'), Traced(t, origin'), Traced(disk, origin')
  PROVE  SpendInv'
<1>1. Narrower(svc', t) /\ (disk' = disk \/ Narrower(disk', t))
  BY SaveNarrower
<1>2. Fresh(svc', origin', basis') /\ Traced(svc', origin') /\ Traced(disk', origin')
  BY <1>1, NarrowerKeeps
<1> QED
  BY <1>2 DEF SpendInv

LEMMA FinishInviteSpend ==
  ASSUME SpendInv, TypeInv', NEW s \in Opened, NEW r \in Readers,
         NEW i \in InvitationIDs, NEW outcome, FinishInvite(s, r, i, outcome)
  PROVE  SpendInv'
<1> DEFINE x == NewInvitation(readers[r])
           t == [s EXCEPT !.invitations = [s.invitations EXCEPT ![i] = x]]
<1>1. s \in Service /\ Fresh(s, origin, basis) /\ Traced(s, origin)
  BY SweptSpend
<1>2. /\ t.requests = s.requests
      /\ \A j \in InvitationIDs :
           t.invitations[j] = IF j = i THEN x ELSE s.invitations[j]
  BY <1>1, ServiceShape DEF Service
<1>3. \A q \in RequestIDs : origin[q] # i
  BY DEF FinishInvite
<1>4. Fresh(t, origin, basis) /\ Traced(t, origin)
  <2> HIDE DEF t, x
  <2> QED
    BY <1>1, <1>2, <1>3 DEF Fresh, Traced
<1>5. t \in Service
  <2>1. readers[r] \in Asking /\ clock' \in Nat /\ clock' + InvitationLife \in Nat
    <3>1. readers[r] \in Asking /\ clock' \in Nat
      BY ReaderShape, MovedTime DEF FinishInvite, SpendInv
    <3>2. InvitationLife \in Nat /\ \A m, n \in Nat : m + n \in Nat
      BY Constants
    <3> QED
      BY <3>1, <3>2
  <2>2. x \in Invitation
    BY <2>1 DEF Asking, NewInvitation, Invitation
  <2> HIDE DEF x
  <2> QED
    BY <1>1, <2>2, ServiceShape DEF Service
<1>6. SaveOver(disk, t, outcome) /\ UNCHANGED <<origin, basis>>
  BY DEF FinishInvite, Save, past
<1> HIDE DEF t
<1> QED
  BY <1>4, <1>5, <1>6, SavedSpend DEF SpendInv

LEMMA RedeemSpend ==
  ASSUME SpendInv, TypeInv', NEW s \in Opened, NEW i \in Held(s.invitations),
         NEW r \in RequestIDs, NEW returns \in BOOLEAN, NEW outcome,
         Redeem(s, i, r, returns, outcome)
  PROVE  SpendInv'
<1> DEFINE spent == [s.invitations[i] EXCEPT !.used = TRUE]
           invitations == [s.invitations EXCEPT ![i] = spent]
           asked == [held |-> TRUE, invitation |-> i, status |-> "pending",
                     until |-> s.invitations[i].until, grant |-> None]
           requests == [s.requests EXCEPT ![r] = asked]
           left == IF returns THEN s.returns \cup {r} ELSE s.returns
           t == [s EXCEPT !.invitations = invitations, !.requests = requests,
                          !.returns = left]
<1>1. /\ s \in Service /\ Advanceable(s) /\ TypeInv
      /\ Fresh(s, origin, basis) /\ Traced(s, origin)
  BY SweptSpend
<1>2. /\ s.invitations[i] \in Invitation /\ i \in InvitationIDs
      /\ s.invitations[i].held /\ ~s.invitations[i].used
  BY <1>1, HeldShape DEF Redeem
<1>3. spent \in Invitation /\ spent.used = TRUE /\ asked \in Request
  BY <1>2 DEF Invitation, Request
<1>4. /\ t \in Service /\ t.invitations = invitations /\ t.requests = requests
  <2>1. invitations \in [InvitationIDs -> Invitation \cup {NoRecord}]
    BY <1>1, <1>2, <1>3, ServiceShape
  <2>2. requests \in [RequestIDs -> Request \cup {NoRecord}]
    BY <1>1, <1>3, ServiceShape
  <2>3. left \in SUBSET RequestIDs
    BY <1>1, ServiceShape
  <2> HIDE DEF invitations, requests, left
  <2> QED
    BY <1>1, <2>1, <2>2, <2>3 DEF Service
<1>5. /\ \A j \in InvitationIDs :
           t.invitations[j] = IF j = i THEN spent ELSE s.invitations[j]
      /\ \A q \in RequestIDs :
           t.requests[q] = IF q = r THEN asked ELSE s.requests[q]
  BY <1>1, <1>4, ServiceShape
<1>6. /\ origin[r] = None /\ origin' = [origin EXCEPT ![r] = i] /\ basis' = basis
      /\ origin \in [RequestIDs -> InvitationIDs \cup {None}]
      /\ basis \in [GrantIDs -> RequestIDs \cup {None}]
      /\ SaveOver(disk, t, outcome)
  BY <1>1, TypeParts DEF Redeem, Save, PastType
<1>7. asked.held /\ asked.invitation = i /\ i # None
  BY <1>2, Constants
<1>8. /\ \A q \in RequestIDs : origin'[q] = IF q = r THEN i ELSE origin[q]
      /\ \A q \in RequestIDs : origin[q] # i
      /\ \A g \in GrantIDs : basis[g] # r
  <2>1. \A q \in RequestIDs : origin[q] # i
    BY <1>1, <1>2 DEF Fresh
  <2>2. ASSUME NEW g \in GrantIDs, basis[g] = r PROVE FALSE
    BY <1>6, <2>2, Constants DEF SpendInv, Based
  <2> QED
    BY <1>6, <2>1, <2>2
<1> HIDE DEF t, spent, asked, requests, invitations
<1>9. Single(origin', basis') /\ Based(origin', basis')
  BY <1>6, <1>7, <1>8, Constants DEF SpendInv, Single, Based
<1>10. Traced(t, origin') /\ Traced(disk, origin')
  <2>1. ASSUME NEW u \in Service, Traced(u, origin), NEW q \in RequestIDs,
               u.requests[q].held
        PROVE  q # r
    <3>1. u.requests[q] \in Request
      BY <2>1, HeldShape
    <3>2. origin[q] \in InvitationIDs
      BY <2>1, <3>1 DEF Traced, Request
    <3> QED
      BY <1>6, <3>2, Constants
  <2>2. disk \in Service /\ Traced(disk, origin)
    BY TypeParts DEF SpendInv, ConsentType
  <2>3. Traced(disk, origin')
    BY <1>8, <2>1, <2>2 DEF Traced
  <2>4. Traced(t, origin')
    BY <1>1, <1>5, <1>7, <1>8 DEF Traced
  <2> QED
    BY <2>3, <2>4
<1>11. Fresh(t, origin', basis')
  <2>1. ASSUME NEW j \in InvitationIDs, t.invitations[j].held,
               ~t.invitations[j].used, NEW q \in RequestIDs
        PROVE  origin'[q] # j
    BY <1>1, <1>3, <1>5, <1>8, <2>1 DEF Fresh
  <2>2. ASSUME NEW q \in RequestIDs, t.requests[q].held,
               t.requests[q].status = "pending", NEW g \in GrantIDs
        PROVE  basis'[g] # q
    BY <1>1, <1>5, <1>6, <1>8, <2>2 DEF Fresh
  <2> QED
    BY <2>1, <2>2 DEF Fresh
<1> QED
  BY <1>4, <1>6, <1>9, <1>10, <1>11, SavedSpend

LEMMA ApproveSpend ==
  ASSUME SpendInv, TypeInv', NEW s \in Opened, NEW r \in Held(s.requests),
         NEW g \in GrantIDs, NEW outcome, Approve(s, r, g, outcome)
  PROVE  SpendInv'
<1> DEFINE decided == [s.requests[r] EXCEPT !.status = "approved", !.grant = g]
           requests == [s.requests EXCEPT ![r] = decided]
<1>1. /\ s \in Service /\ Advanceable(s) /\ TypeInv
      /\ Fresh(s, origin, basis) /\ Traced(s, origin)
  BY SweptSpend
<1>2. /\ s.requests[r] \in Request /\ r \in RequestIDs /\ s.requests[r].held
      /\ s.requests[r].status = "pending"
  BY <1>1, HeldShape DEF Approve, Approvable, Decidable, Pending
<1>3. /\ decided.held = TRUE /\ decided.invitation = s.requests[r].invitation
      /\ decided.status = "approved" /\ decided \in Request
  BY <1>2 DEF Request
<1>4. PICK grants : SaveOver(disk, [s EXCEPT !.requests = requests,
                                             !.grants = grants], outcome)
  BY DEF Approve, Save
<1> DEFINE t == [s EXCEPT !.requests = requests, !.grants = grants]
<1>5. /\ t.invitations = s.invitations /\ t.requests = requests
      /\ svc' = [t EXCEPT !.last = clock']
      /\ disk' = disk \/ disk' = Durable(svc')
  BY <1>1, <1>4 DEF Service, SaveOver
<1>6. \A q \in RequestIDs : requests[q] = IF q = r THEN decided ELSE s.requests[q]
  BY <1>1, ServiceShape
<1>7. /\ basis[g] = None /\ basis' = [basis EXCEPT ![g] = r] /\ origin' = origin
      /\ origin \in [RequestIDs -> InvitationIDs \cup {None}]
      /\ basis \in [GrantIDs -> RequestIDs \cup {None}]
  BY <1>1, TypeParts DEF Approve, PastType
<1>8. \A h \in GrantIDs : /\ basis'[h] = IF h = g THEN r ELSE basis[h]
                          /\ basis[h] # r
  BY <1>1, <1>2, <1>7 DEF Fresh
<1>9. origin[r] # None
  <2>1. s.requests[r].invitation \in InvitationIDs
    BY <1>2 DEF Request
  <2> QED
    BY <1>1, <1>2, <2>1, Constants DEF Traced
<1> HIDE DEF decided, requests
<1>10. Single(origin', basis') /\ Based(origin', basis')
  BY <1>2, <1>7, <1>8, <1>9, Constants DEF SpendInv, Single, Based
<1>11. /\ svc'.invitations = s.invitations /\ svc'.requests = requests
  BY <1>1, <1>5 DEF Service
<1>12. Fresh(svc', origin', basis')
  <2>1. ASSUME NEW q \in RequestIDs, svc'.requests[q].held,
               svc'.requests[q].status = "pending", NEW h \in GrantIDs
        PROVE  basis'[h] # q
    BY <1>1, <1>3, <1>6, <1>8, <1>11, <2>1 DEF Fresh
  <2> QED
    BY <1>1, <1>7, <1>11, <2>1 DEF Fresh
<1>13. Traced(svc', origin')
  BY <1>1, <1>2, <1>3, <1>6, <1>7, <1>11 DEF Traced
<1>14. Traced(disk', origin')
  <2>1. Traced(Durable(svc'), origin')
    BY <1>13, DurableNarrower, NarrowerKeeps
  <2> QED
    BY <1>5, <1>7, <2>1 DEF SpendInv
<1> QED
  BY <1>10, <1>12, <1>13, <1>14 DEF SpendInv

(* After a restart nothing can be redeemed and nothing be approved, so it  *)
(* does not matter that the journal may be older than what was answered.   *)
LEMMA RestartSpend ==
  ASSUME SpendInv, TypeInv', NEW outcome, Restart(outcome)
  PROVE  SpendInv'
<1> DEFINE t == Restarted(disk)
<1>1. disk \in Service /\ Advanceable(disk)
  BY TypeParts DEF SpendInv, ConsentType
<1>2. t \in Service
  BY <1>1, RestartedType
<1>3. ASSUME NEW i \in InvitationIDs, t.invitations[i].held
      PROVE  t.invitations[i].used
  <2>1. \A x \in Invitation : [x EXCEPT !.used = TRUE].used = TRUE
    BY DEF Invitation
  <2>2. t.invitations[i] = IF disk.invitations[i].held
                           THEN [disk.invitations[i] EXCEPT !.used = TRUE]
                           ELSE NoRecord
    BY <1>1, RestartedFields
  <2> HIDE DEF t
  <2> QED
    BY <1>1, <1>3, <2>1, <2>2, HeldShape DEF NoRecord
<1>4. ASSUME NEW q \in RequestIDs, t.requests[q].held
      PROVE  /\ t.requests[q].status = "expired" /\ disk.requests[q].held
             /\ t.requests[q].invitation = disk.requests[q].invitation
  <2>1. \A x \in Request : LET new == [x EXCEPT !.status = "expired"]
                           IN new.status = "expired" /\ new.invitation = x.invitation
    BY DEF Request
  <2>2. t.requests[q] = IF disk.requests[q].held
                        THEN [disk.requests[q] EXCEPT !.status = "expired"]
                        ELSE NoRecord
    BY <1>1, RestartedFields
  <2> HIDE DEF t
  <2> QED
    BY <1>1, <1>4, <2>1, <2>2, HeldShape DEF NoRecord
<1>5. UNCHANGED <<origin, basis>>
  BY DEF Restart, past
<1> HIDE DEF t
<1>6. Fresh(t, origin, basis) /\ Traced(t, origin)
  BY <1>3, <1>4 DEF Fresh, Traced, SpendInv
<1>7. CASE disk.last <= clock
  BY <1>2, <1>5, <1>6, <1>7, SavedSpend DEF Restart, Save, SpendInv, t
<1>8. CASE ~(disk.last <= clock)
  <2>1. svc' = t /\ disk' = disk
    BY <1>8 DEF Restart, t
  <2> QED
    BY <1>5, <1>6, <2>1 DEF SpendInv
<1> QED
  BY <1>7, <1>8

LEMMA SavingSpend ==
  ASSUME SpendInv, TypeInv', NEW s \in Opened, NEW outcome, Saving(s, outcome)
  PROVE  SpendInv'
<1>1. ASSUME NEW r \in Readers, NEW i \in InvitationIDs,
             FinishInvite(s, r, i, outcome)
      PROVE  SpendInv'
  BY <1>1, FinishInviteSpend
<1>2. ASSUME NEW i \in Held(s.invitations), NEW r \in RequestIDs,
             NEW returns \in ReturnOffers, Redeem(s, i, r, returns, outcome)
      PROVE  SpendInv'
  <2>1. returns \in BOOLEAN
    BY ServiceLimits
  <2> QED
    BY <1>2, <2>1, RedeemSpend
<1>3. ASSUME NEW r \in Held(s.requests),
             \/ Reject(s, r, outcome) \/ CancelRequest(s, r, outcome)
             \/ \E g \in GrantIDs : Approve(s, r, g, outcome)
      PROVE  SpendInv'
  BY <1>3, RejectSpend, CancelRequestSpend, ApproveSpend
<1>4. ASSUME NEW g \in Live(s),
             Stop(s, g, outcome) \/ RestrictGrant(s, g, outcome)
      PROVE  SpendInv'
  BY <1>4, StopSpend, RestrictGrantSpend
<1>5. ASSUME NEW i \in InvitationIDs, CancelInvitation(s, i, outcome)
      PROVE  SpendInv'
  BY <1>5, CancelInvitationSpend
<1> QED
  BY <1>1, <1>2, <1>3, <1>4, <1>5 DEF Saving

LEMMA SpendInit == Init => SpendInv
<1> SUFFICES ASSUME Init PROVE SpendInv
  OBVIOUS
<1>1. svc = [NoConsent EXCEPT !.last = 1] /\ disk = [NoConsent EXCEPT !.last = 1]
  BY DEF Init
<1>2. /\ \A i \in InvitationIDs : ~svc.invitations[i].held
      /\ \A q \in RequestIDs : ~svc.requests[q].held /\ ~disk.requests[q].held
  BY <1>1 DEF NoConsent, NoRecord
<1>3. /\ Fresh(svc, origin, basis) /\ Traced(svc, origin) /\ Traced(disk, origin)
  BY <1>2 DEF Fresh, Traced
<1>4. Single(origin, basis) /\ Based(origin, basis)
  BY DEF Init, Single, Based
<1> QED
  BY <1>3, <1>4, InitType DEF SpendInv

LEMMA SpendStep == SpendInv /\ [Next]_vars => SpendInv'
<1> SUFFICES ASSUME SpendInv, [Next]_vars PROVE SpendInv'
  OBVIOUS
<1>1. TypeInv'
  BY StepType DEF SpendInv
<1>2. CASE UNCHANGED <<svc.invitations, svc.requests, disk, origin, basis>>
  BY <1>1, <1>2, NarrowerSame, QuietSpend
<1>3. ASSUME NEW outcome \in Outcomes, Restart(outcome) PROVE SpendInv'
  BY <1>1, <1>3, RestartSpend
<1>4. ASSUME NEW s \in Opened,
             Passing(s) \/ \E outcome \in Outcomes : Saving(s, outcome)
      PROVE  SpendInv'
  BY <1>1, <1>4, PassingSpend, SavingSpend
<1>5. CASE Status
  <2>1. svc \in Service
    BY TypeParts DEF SpendInv, ConsentType
  <2> QED
    BY <1>2, <1>5, <2>1 DEF Status, past, Service
<1>6. CASE UNCHANGED <<svc, disk, past>>
  BY <1>2, <1>6 DEF past
<1> QED
  BY <1>3, <1>4, <1>5, <1>6 DEF Next, vars, consent, Tick, SetBack, Drive, Refuse,
     RouteSeen, RouteGone, SourceAnswers, AbandonShut

(* An invitation is good for one request and a request for one grant, over *)
(* failed saves, cleanups and restarts from an older journal.              *)
THEOREM SpentOnceHolds == Spec => []SpentOnce
<1>1. Spec => []SpendInv
  BY SpendInit, SpendStep, PTL DEF Spec
<1>2. SpendInv => SpentOnce
  BY DEF SpendInv, Single, SpentOnce
<1> QED
  BY <1>1, <1>2, PTL

-----------------------------------------------------------------------------
(* Both copies of a grant agree, and consent only shrinks                  *)

IsLive(s, g) == s.grants[g].held /\ s.grants[g].status = "active"

(* The four fields of a grant that both copies have.                       *)
SameTerms(x, y) ==
  x.revision = y.revision /\ x.from = y.from /\ x.until = y.until
  /\ x.allowed = y.allowed

Agree(s, st) ==
  \A g \in GrantIDs : IsLive(s, g) =>
    g \in Known(st) /\ ~st[g].revoked /\ SameTerms(st[g], s.grants[g])

AgreeInv == TypeInv /\ (healthy => Agree(svc, store))

(* The grants of t that are active are so in s, on the same terms.         *)
GrantsKept(t, s) ==
  \A g \in GrantIDs : IsLive(t, g) =>
    IsLive(s, g) /\ SameTerms(t.grants[g], s.grants[g])

(* The policy store keeps every grant of st, on the same terms.            *)
StoreKept(new, st) ==
  \A g \in Known(st) :
    g \in Known(new) /\ new[g].revoked = st[g].revoked /\ SameTerms(new[g], st[g])

(* A grant that is active in t is so in s, on terms at least as wide.      *)
Shrunk(t, s, g) ==
  IsLive(t, g) =>
    /\ IsLive(s, g)
    /\ t.grants[g].allowed \subseteq s.grants[g].allowed
    /\ t.grants[g].until <= s.grants[g].until
    /\ t.grants[g].revision >= s.grants[g].revision

LEMMA LiveIsLive ==
  ASSUME NEW s \in Service
  PROVE  Live(s) = {g \in GrantIDs : IsLive(s, g)}
BY HeldShape DEF Live, IsLive

LEMMA GrantsKeptSame ==
  ASSUME NEW s, NEW t, t.grants = s.grants
  PROVE  GrantsKept(t, s)
BY DEF GrantsKept, SameTerms, IsLive

LEMMA GrantsKeptTransitive ==
  ASSUME NEW s, NEW t, NEW u, GrantsKept(t, s), GrantsKept(u, t)
  PROVE  GrantsKept(u, s)
BY DEF GrantsKept, SameTerms

LEMMA AgreeKept ==
  ASSUME NEW s, NEW t, NEW st, NEW new, Agree(s, st), GrantsKept(t, s),
         StoreKept(new, st)
  PROVE  Agree(t, new)
BY DEF Agree, GrantsKept, StoreKept, SameTerms

LEMMA GrantNumbers ==
  ASSUME NEW s \in Service, NEW g \in GrantIDs, IsLive(s, g)
  PROVE  /\ s.grants[g] \in Grant /\ s.grants[g].until \in Nat
         /\ s.grants[g].revision \in Nat /\ s.grants[g].from \in Nat
         /\ s.grants[g].allowed \in SUBSET Optional
<1>1. s.grants[g] \in Grant
  BY HeldShape DEF IsLive
<1>2. \A n \in 1..(MaxRevision + 1) : n \in Nat
  BY Constants
<1> QED
  BY <1>1, <1>2 DEF Grant

LEMMA KeptShrunk ==
  ASSUME NEW s \in Service, NEW t, GrantsKept(t, s), NEW g \in GrantIDs
  PROVE  Shrunk(t, s, g)
<1> SUFFICES ASSUME IsLive(t, g) PROVE Shrunk(t, s, g)
  BY DEF Shrunk
<1>1. IsLive(s, g) /\ SameTerms(t.grants[g], s.grants[g])
  BY DEF GrantsKept
<1>2. s.grants[g].until \in Nat /\ s.grants[g].revision \in Nat
  BY <1>1, GrantNumbers
<1> QED
  BY <1>1, <1>2 DEF Shrunk, SameTerms

LEMMA LapsedKept ==
  ASSUME NEW s \in Service, NEW now \in Nat
  PROVE  /\ GrantsKept(Lapsed(s, now), s)
         /\ \A g \in GrantIDs : IsLive(Lapsed(s, now), g) =>
              Lapsed(s, now).grants[g].until > now
<1> DEFINE t == Lapsed(s, now)
<1> SUFFICES ASSUME NEW g \in GrantIDs, IsLive(t, g)
             PROVE  /\ IsLive(s, g) /\ SameTerms(t.grants[g], s.grants[g])
                    /\ t.grants[g].until > now
  BY DEF GrantsKept
<1>1. CASE g \in Live(s) /\ s.grants[g].until <= now
  <2>1. t.grants[g] = [s.grants[g] EXCEPT !.status = "expired"]
    BY <1>1, LapsedGrants
  <2>2. \A x \in Grant : [x EXCEPT !.status = "expired"].status = "expired"
    BY DEF Grant
  <2>3. s.grants[g] \in Grant
    BY <1>1, HeldShape DEF Live
  <2> HIDE DEF t
  <2> QED
    BY <2>1, <2>2, <2>3 DEF IsLive
<1>2. CASE ~(g \in Live(s) /\ s.grants[g].until <= now)
  <2>1. t.grants[g] = s.grants[g]
    BY <1>2, LapsedGrants
  <2>2. IsLive(s, g) /\ g \in Live(s)
    BY <2>1, LiveIsLive DEF IsLive
  <2>3. s.grants[g].until \in Nat
    BY <2>2, GrantNumbers
  <2> HIDE DEF t
  <2> QED
    BY <1>2, <2>1, <2>2, <2>3 DEF SameTerms
<1> QED
  BY <1>1, <1>2

LEMMA ReclaimedKept ==
  ASSUME NEW s \in Service, NEW cutoff \in Int
  PROVE  GrantsKept(Reclaimed(s, cutoff), s)
<1> DEFINE t == Reclaimed(s, cutoff)
<1>1. \A g \in GrantIDs : t.grants[g] = NoRecord \/ t.grants[g] = s.grants[g]
  BY DEF Reclaimed
<1> HIDE DEF t
<1> QED
  BY <1>1 DEF GrantsKept, IsLive, SameTerms, NoRecord, t

(* The opening of a handler keeps both copies together: what the policy    *)
(* store is cleaned of was over long ago.                                  *)
LEMMA OpenedAgree ==
  ASSUME AgreeInv, NEW s \in Opened
  PROVE  /\ TypeInv /\ s \in Service /\ Advanceable(s) /\ SweptStore \in StoreType
         /\ GrantsKept(s, svc) /\ Agree(s, SweptStore)
         /\ \A g \in GrantIDs : IsLive(s, g) => clock < s.grants[g].until
<1> DEFINE t == [svc EXCEPT !.last = clock]
           u == Lapsed(t, clock)
<1>1. /\ TypeInv /\ s \in Service /\ Advanceable(s) /\ SweptStore \in StoreType
      /\ clock \in Nat /\ Agree(svc, store)
  BY OpenedType DEF AgreeInv
<1>2. /\ Cutoff \in Int /\ Cutoff < clock /\ svc \in Service /\ Advanceable(svc)
      /\ store \in StoreType
  BY <1>1, Constants DEF TypeInv, TypeOK, Cutoff
<1>3. t \in Service /\ Advanceable(t) /\ t.grants = svc.grants
  BY <1>1, <1>2, ServiceLast DEF Service
<1>4. u \in Service /\ s = Reclaimed(u, Cutoff)
  BY <1>1, <1>3, LapsedType DEF Opened, Swept
<1> HIDE DEF t
<1>5. GrantsKept(t, svc) /\ GrantsKept(u, t) /\ GrantsKept(s, u)
  BY <1>1, <1>2, <1>3, <1>4, GrantsKeptSame, LapsedKept, ReclaimedKept
<1>6. \A g \in GrantIDs : IsLive(u, g) => clock < u.grants[g].until
  BY <1>1, <1>3, <1>4, LapsedKept, GrantNumbers
<1> HIDE DEF u
<1>7. GrantsKept(s, svc)
  BY <1>5, GrantsKeptTransitive
<1>8. ASSUME NEW g \in GrantIDs, IsLive(s, g)
      PROVE  clock < s.grants[g].until
  BY <1>5, <1>6, <1>8 DEF GrantsKept, SameTerms
<1>9. ASSUME NEW g \in GrantIDs, IsLive(s, g)
      PROVE  /\ g \in Known(SweptStore) /\ ~SweptStore[g].revoked
             /\ SameTerms(SweptStore[g], s.grants[g])
  <2>1. /\ IsLive(svc, g) /\ g \in Known(store) /\ ~store[g].revoked
        /\ SameTerms(store[g], svc.grants[g]) /\ SameTerms(s.grants[g], svc.grants[g])
    BY <1>1, <1>7, <1>9 DEF Agree, GrantsKept
  <2>2. store[g].until \in Nat /\ clock < store[g].until
    BY <1>2, <1>8, <1>9, <2>1, GrantNumbers DEF SameTerms
  <2>3. SweptStore[g] = store[g]
    BY <1>1, <1>2, <2>2 DEF SweptStore, Prune
  <2> QED
    BY <2>1, <2>3 DEF SameTerms, Known
<1> QED
  BY <1>1, <1>7, <1>8, <1>9 DEF Agree

-----------------------------------------------------------------------------
(* Operations of the policy store that keep the terms of every grant       *)

LEMMA SameStoreKept ==
  ASSUME NEW st \in StoreType
  PROVE  StoreKept(st, st)
BY DEF StoreKept, SameTerms

LEMMA UpdateKept ==
  ASSUME NEW st \in StoreType, NEW g \in GrantIDs, NEW x, x.held,
         g \in Known(st) => x.revoked = st[g].revoked /\ SameTerms(x, st[g])
  PROVE  StoreKept([st EXCEPT ![g] = x], st)
BY DEF StoreKept, StoreType, Known, SameTerms

LEMMA NoticedKept ==
  ASSUME NEW st \in StoreType, NEW g \in Known(st), NEW now
  PROVE  StoreKept(Noticed(st, g, now), st)
<1>1. st[g] \in StoreGrant /\ g \in GrantIDs
  BY StoreShape
<1>2. ASSUME NEW x \in StoreGrant
      PROVE  LET y == [x EXCEPT !.expired = TRUE]
             IN y.held /\ y.revoked = x.revoked /\ SameTerms(y, x)
  BY DEF StoreGrant, SameTerms
<1> QED
  BY <1>1, <1>2, UpdateKept, SameStoreKept DEF Noticed

LEMMA ProjectKept ==
  ASSUME NEW st \in StoreType, NEW g \in Known(st), NEW source, NEW now
  PROVE  StoreKept(Project(st, g, source, now), st)
<1>1. st[g] \in StoreGrant /\ g \in GrantIDs
  BY StoreShape
<1>2. ASSUME NEW x \in StoreGrant, NEW out
      PROVE  LET y == Advance(x, out, now)
             IN y.held /\ y.revoked = x.revoked /\ SameTerms(y, x)
  BY DEF Advance, StoreGrant, SameTerms
<1> QED
  BY <1>1, <1>2, UpdateKept DEF Project

LEMMA ConsentedKept ==
  ASSUME TypeInv, NEW s \in Opened, NEW r \in Held(s.requests), NEW g \in GrantIDs,
         Approvable(s, r, g)
  PROVE  /\ StoreKept(Consented(s, r, g), SweptStore)
         /\ g \notin Known(SweptStore) /\ g \in Known(Consented(s, r, g))
<1>1. /\ SweptStore \in StoreType /\ Consented(s, r, g) \in StoreType
      /\ Consented(s, r, g)[g].held
      /\ \A h \in GrantIDs \ {g} : Consented(s, r, g)[h] = SweptStore[h]
  BY OpenedType, ConsentedShape
<1>2. g \notin Known(SweptStore)
  BY DEF Approvable, CanCreate
<1> QED
  BY <1>1, <1>2 DEF StoreKept, Known, SameTerms

-----------------------------------------------------------------------------
(* The steps that change no terms                                          *)

(* What a step must do: keep both copies together, and shrink what had     *)
(* been given.                                                             *)
AgreeStep == AgreeInv' /\ \A g \in GrantIDs : basis[g] # None => Shrunk(svc', svc, g)

LEMMA OrderedShrunk ==
  ASSUME NEW s \in Service, NEW t \in Service, NEW u \in Service, NEW g \in GrantIDs,
         GrantsKept(t, s), Shrunk(u, t, g)
  PROVE  Shrunk(u, s, g)
<1> SUFFICES ASSUME IsLive(u, g) PROVE Shrunk(u, s, g)
  BY DEF Shrunk
<1>1. IsLive(t, g) /\ IsLive(s, g) /\ SameTerms(t.grants[g], s.grants[g])
  BY DEF Shrunk, GrantsKept
<1> QED
  BY <1>1 DEF Shrunk, SameTerms

LEMMA KeptStep ==
  ASSUME AgreeInv, TypeInv', NEW s \in Opened, GrantsKept(svc', s),
         StoreKept(store', SweptStore)
  PROVE  AgreeStep
<1>1. s \in Service /\ GrantsKept(s, svc) /\ Agree(s, SweptStore)
  BY OpenedAgree
<1>2. svc \in Service /\ svc' \in Service
  BY TypeParts, TypePartsNext DEF AgreeInv, ConsentType
<1>3. Agree(svc', store')
  BY <1>1, AgreeKept
<1>4. GrantsKept(svc', svc)
  BY <1>1, GrantsKeptTransitive
<1> QED
  BY <1>2, <1>3, <1>4, KeptShrunk DEF AgreeStep, AgreeInv

LEMMA PassingAgree ==
  ASSUME AgreeInv, TypeInv', NEW s \in Opened, Passing(s)
  PROVE  AgreeStep
<1>1. /\ TypeInv /\ s \in Service /\ Advanceable(s) /\ SweptStore \in StoreType
      /\ Agree(s, SweptStore)
  BY OpenedAgree
<1>2. Pending(s) \subseteq Held(s.requests) /\ Held(s.grants) \subseteq GrantIDs
  BY <1>1, HeldShape DEF Pending
<1>3. CASE svc' = s /\ store' = SweptStore
  BY <1>1, <1>3, GrantsKeptSame, SameStoreKept, KeptStep
<1>4. ASSUME NEW r \in Pending(s), NEW g \in GrantIDs, ApproveMismatched(s, r, g)
      PROVE  AgreeStep
  <2>1. svc' = s /\ store' = Consented(s, r, g) /\ Approvable(s, r, g)
    BY <1>4 DEF ApproveMismatched
  <2> QED
    BY <1>1, <1>2, <2>1, GrantsKeptSame, ConsentedKept, KeptStep
<1>5. ASSUME NEW g \in Known(SweptStore), svc' = s,
             store' = Noticed(SweptStore, g, clock')
      PROVE  AgreeStep
  BY <1>1, <1>5, GrantsKeptSame, NoticedKept, KeptStep
<1>6. ASSUME NEW r \in Readers, FinishRead(s, r) PROVE AgreeStep
  <2> DEFINE g == readers[r].grant
  <2>1. g \in Known(SweptStore)
    BY <1>6 DEF FinishRead, MayProject, Matches
  <2>2. StoreKept(store', SweptStore)
    BY <1>1, <1>6, <2>1, ProjectKept DEF FinishRead
  <2>3. svc'.grants = s.grants
    BY <1>1, <1>6 DEF FinishRead, Service
  <2> QED
    BY <1>1, <2>2, <2>3, GrantsKeptSame, KeptStep
<1>7. ASSUME NEW r \in Readers, NEW g \in Live(s), BeginRead(s, r, g)
      PROVE  AgreeStep
  <2> DEFINE grant == [s.grants[g] EXCEPT !.readAt = clock']
             grants == [s.grants EXCEPT ![g] = grant]
  <2>1. g \in GrantIDs /\ s.grants[g] \in Grant
    BY <1>1, LiveShape
  <2>2. SameTerms(grant, s.grants[g]) /\ grant.held = s.grants[g].held
        /\ grant.status = s.grants[g].status
    BY <2>1 DEF Grant, SameTerms
  <2>3. \A h \in GrantIDs : grants[h] = IF h = g THEN grant ELSE s.grants[h]
    BY <1>1, ServiceShape
  <2>4. svc'.grants = grants
    BY <1>1, <1>7 DEF BeginRead, Service
  <2> HIDE DEF grant, grants
  <2>5. GrantsKept(svc', s)
    BY <2>2, <2>3, <2>4 DEF GrantsKept, IsLive, SameTerms
  <2>6. store' = SweptStore
    BY <1>7 DEF BeginRead
  <2> QED
    BY <1>1, <2>5, <2>6, SameStoreKept, KeptStep
<1> QED
  BY <1>2, <1>3, <1>4, <1>5, <1>6, <1>7 DEF Passing, Look, StopAgain, Abandon,
     BeginInvite, RestrictTooLate, ReadTooLate, Matches

-----------------------------------------------------------------------------
(* The steps that save                                                     *)

LEMMA SavedGrants ==
  ASSUME NEW t \in Service, NEW written, NEW outcome, SaveOver(written, t, outcome)
  PROVE  svc'.grants = t.grants
BY DEF SaveOver, Service

LEMMA SameGrantsStep ==
  ASSUME AgreeInv, TypeInv', NEW s \in Opened, NEW t, t = svc', t.grants = s.grants,
         store' = SweptStore
  PROVE  AgreeStep
BY OpenedAgree, GrantsKeptSame, SameStoreKept, KeptStep

LEMMA OtherRecordsAgree ==
  ASSUME AgreeInv, TypeInv', NEW s \in Opened, NEW outcome,
         \/ \E r \in Readers, i \in InvitationIDs : FinishInvite(s, r, i, outcome)
         \/ \E i \in Held(s.invitations), r \in RequestIDs, returns \in ReturnOffers :
              Redeem(s, i, r, returns, outcome)
         \/ \E r \in Held(s.requests) : Reject(s, r, outcome)
  PROVE  AgreeStep
<1>1. s \in Service
  BY OpenedAgree
<1>2. ASSUME NEW a
      PROVE  [[s EXCEPT !.invitations = a] EXCEPT !.last = clock'].grants = s.grants
  BY <1>1 DEF Service
<1>3. ASSUME NEW a, NEW b, NEW c
      PROVE  [[s EXCEPT !.invitations = a, !.requests = b, !.returns = c]
                EXCEPT !.last = clock'].grants = s.grants
  BY <1>1 DEF Service
<1>4. ASSUME NEW b, NEW c
      PROVE  [[s EXCEPT !.requests = b, !.returns = c]
                EXCEPT !.last = clock'].grants = s.grants
  BY <1>1 DEF Service
<1>5. ASSUME NEW r \in Readers, NEW i \in InvitationIDs, FinishInvite(s, r, i, outcome)
      PROVE  svc'.grants = s.grants /\ store' = SweptStore
  BY <1>2, <1>5 DEF FinishInvite, Save, SaveOver
<1>6. ASSUME NEW i \in Held(s.invitations), NEW r \in RequestIDs,
             NEW returns \in ReturnOffers, Redeem(s, i, r, returns, outcome)
      PROVE  svc'.grants = s.grants /\ store' = SweptStore
  <2>1. PICK a, b, c : SaveOver(disk, [s EXCEPT !.invitations = a, !.requests = b,
                                                !.returns = c], outcome)
    BY <1>6 DEF Redeem, Save
  <2>2. store' = SweptStore
    BY <1>6 DEF Redeem
  <2> QED
    BY <1>3, <2>1, <2>2 DEF SaveOver
<1>7. ASSUME NEW r \in Held(s.requests), Reject(s, r, outcome)
      PROVE  svc'.grants = s.grants /\ store' = SweptStore
  BY <1>4, <1>7 DEF Reject, Save, SaveOver
<1>8. svc'.grants = s.grants /\ store' = SweptStore
  BY <1>5, <1>6, <1>7
<1> QED
  BY <1>8, SameGrantsStep

LEMMA ApproveAgree ==
  ASSUME AgreeInv, TypeInv', NEW s \in Opened, NEW r \in Held(s.requests),
         NEW g \in GrantIDs, NEW outcome, Approve(s, r, g, outcome)
  PROVE  AgreeStep
<1> DEFINE st == Consented(s, r, g)
           grant == [held |-> TRUE, request |-> r, from |-> st[g].from,
                     until |-> st[g].until, status |-> "active",
                     revision |-> st[g].revision, allowed |-> st[g].allowed,
                     readAt |-> 0]
           grants == [s.grants EXCEPT ![g] = grant]
<1>1. /\ TypeInv /\ s \in Service /\ GrantsKept(s, svc) /\ Agree(s, SweptStore)
      /\ svc \in Service /\ svc' \in Service
  BY OpenedAgree, TypeParts, TypePartsNext DEF AgreeInv, ConsentType
<1>2. Approvable(s, r, g) /\ basis[g] = None /\ store' = st
  BY DEF Approve
<1>3. StoreKept(st, SweptStore) /\ g \in Known(st) /\ ~st[g].revoked
  BY <1>1, <1>2, ConsentedKept, ConsentedShape
<1>4. svc'.grants = grants
  <2>1. ASSUME NEW a, NEW b
        PROVE  [[s EXCEPT !.requests = a, !.grants = b] EXCEPT !.last = clock'].grants = b
    BY <1>1 DEF Service
  <2> QED
    BY <1>2, <2>1 DEF Approve, Save, SaveOver
<1>5. \A h \in GrantIDs : grants[h] = IF h = g THEN grant ELSE s.grants[h]
  BY <1>1, ServiceShape
<1>6. SameTerms(st[g], grant)
  BY DEF SameTerms
<1> HIDE DEF grant, grants, st
<1>7. Agree(svc', store')
  BY <1>1, <1>2, <1>3, <1>4, <1>5, <1>6 DEF Agree, StoreKept, IsLive, SameTerms
<1>8. ASSUME NEW h \in GrantIDs, basis[h] # None
      PROVE  Shrunk(svc', svc, h)
  <2>1. Shrunk(s, svc, h)
    BY <1>1, KeptShrunk
  <2> QED
    BY <1>2, <1>4, <1>5, <1>8, <2>1 DEF Shrunk, IsLive
<1> QED
  BY <1>7, <1>8 DEF AgreeStep, AgreeInv

LEMMA RestrictGrantAgree ==
  ASSUME AgreeInv, TypeInv', NEW s \in Opened, NEW g \in Live(s), NEW outcome,
         RestrictGrant(s, g, outcome)
  PROVE  AgreeStep
<1>1. /\ TypeInv /\ s \in Service /\ Advanceable(s) /\ GrantsKept(s, svc)
      /\ Agree(s, SweptStore) /\ SweptStore \in StoreType
      /\ svc \in Service /\ svc' \in Service
  BY OpenedAgree, TypeParts, TypePartsNext DEF AgreeInv, ConsentType
<1>2. PICK allowed \in SUBSET Optional, until \in 1..(MaxTime + MaxGrantLifetime) :
        /\ MayRestrict(SweptStore, g, s.grants[g].revision, allowed, until, clock')
        /\ store' = Restrict(SweptStore, g, allowed, until, clock')
  BY DEF RestrictGrant
<1>3. /\ g \in GrantIDs /\ s.grants[g] \in Grant /\ IsLive(s, g)
      /\ s.grants[g].revision \in Nat
  BY <1>1, LiveShape, LiveIsLive, GrantNumbers
<1>4. /\ g \in Known(SweptStore) /\ ~SweptStore[g].revoked
      /\ SameTerms(SweptStore[g], s.grants[g]) /\ SweptStore[g] \in StoreGrant
  BY <1>1, <1>3, StoreShape DEF Agree
<1>5. allowed \subseteq s.grants[g].allowed /\ until <= s.grants[g].until
  BY <1>2, <1>4 DEF MayRestrict, SameTerms
<1> DEFINE x == store'[g]
           grant == [s.grants[g] EXCEPT !.revision = store'[g].revision,
                       !.until = store'[g].until, !.allowed = store'[g].allowed]
           grants == [s.grants EXCEPT ![g] = grant]
<1>6. /\ \A h \in GrantIDs \ {g} : store'[h] = SweptStore[h]
      /\ store'[g] = [SweptStore[g] EXCEPT
                        !.revision = SweptStore[g].revision + 1,
                        !.allowed = allowed, !.until = until, !.server = clock']
  BY <1>1, <1>2, <1>3 DEF Restrict, StoreType
<1>7. /\ x.held /\ ~x.revoked /\ x.revision = s.grants[g].revision + 1
      /\ x.from = s.grants[g].from /\ x.allowed = allowed /\ x.until = until
  <2>1. ASSUME NEW y \in StoreGrant, NEW n, NEW a, NEW u, NEW now
        PROVE  LET z == [y EXCEPT !.revision = n, !.allowed = a, !.until = u,
                                  !.server = now]
               IN /\ z.held /\ z.revoked = y.revoked /\ z.revision = n
                  /\ z.from = y.from /\ z.allowed = a /\ z.until = u
    BY DEF StoreGrant
  <2> QED
    BY <1>4, <1>6, <2>1 DEF SameTerms
<1>8. svc'.grants = grants
  <2>1. ASSUME NEW b
        PROVE  [[s EXCEPT !.grants = b] EXCEPT !.last = clock'].grants = b
    BY <1>1 DEF Service
  <2> QED
    BY <2>1 DEF RestrictGrant, RestrictedIn, Save, SaveOver
<1>9. \A h \in GrantIDs : grants[h] = IF h = g THEN grant ELSE s.grants[h]
  BY <1>1, ServiceShape
<1>10. SameTerms(x, grant)
  <2>1. ASSUME NEW y \in Grant, NEW n, NEW u, NEW a
        PROVE  LET z == [y EXCEPT !.revision = n, !.until = u, !.allowed = a]
               IN z.revision = n /\ z.until = u /\ z.allowed = a /\ z.from = y.from
    BY DEF Grant
  <2> QED
    BY <1>3, <1>7, <2>1 DEF SameTerms
<1> HIDE DEF x, grant, grants
<1>11. Agree(svc', store')
  <2>1. g \in Known(store') /\ ~store'[g].revoked /\ SameTerms(store'[g], grant)
    BY <1>3, <1>7, <1>10 DEF Known, x
  <2>2. ASSUME NEW h \in GrantIDs \ {g}, IsLive(svc', h)
        PROVE  /\ h \in Known(store') /\ ~store'[h].revoked
               /\ SameTerms(store'[h], svc'.grants[h])
    <3>1. svc'.grants[h] = s.grants[h] /\ IsLive(s, h)
      BY <1>8, <1>9, <2>2 DEF IsLive
    <3> QED
      BY <1>1, <1>6, <3>1 DEF Agree, Known
  <2> QED
    BY <1>3, <1>8, <1>9, <2>1, <2>2 DEF Agree
<1>12. ASSUME NEW h \in GrantIDs PROVE Shrunk(svc', s, h)
  <2>1. CASE h = g
    BY <1>3, <1>5, <1>7, <1>8, <1>9, <1>10, <2>1 DEF Shrunk, SameTerms
  <2>2. CASE h # g
    <3>1. svc'.grants[h] = s.grants[h]
      BY <1>8, <1>9, <2>2
    <3>2. GrantsKept(s, s)
      BY GrantsKeptSame
    <3>3. Shrunk(s, s, h)
      BY <1>1, <3>2, KeptShrunk
    <3> QED
      BY <3>1, <3>3 DEF Shrunk, IsLive
  <2> QED
    BY <2>1, <2>2
<1>13. ASSUME NEW h \in GrantIDs PROVE Shrunk(svc', svc, h)
  BY <1>1, <1>12, OrderedShrunk
<1> QED
  BY <1>11, <1>13 DEF AgreeStep, AgreeInv

LEMMA RevokedAgree ==
  ASSUME AgreeInv, TypeInv', NEW s \in Opened, NEW gs \in SUBSET GrantIDs,
         svc'.grants = RevokedIn(s, gs).grants,
         store' = RevokedAll(SweptStore, s, gs)
  PROVE  AgreeStep
<1>1. /\ TypeInv /\ s \in Service /\ Advanceable(s) /\ GrantsKept(s, svc)
      /\ Agree(s, SweptStore) /\ svc \in Service /\ svc' \in Service
  BY OpenedAgree, TypeParts, TypePartsNext DEF AgreeInv, ConsentType
<1>2. RevokedIn(s, gs) \in Service
  BY <1>1, RevokedType
<1>3. ASSUME NEW g \in GrantIDs, IsLive(svc', g)
      PROVE  g \notin gs /\ IsLive(s, g) /\ svc'.grants[g] = s.grants[g]
  <2>1. IsLive(RevokedIn(s, gs), g)
    BY <1>3 DEF IsLive
  <2>2. g \in Live(s) \ gs
    BY <1>1, <1>2, <2>1, LiveIsLive, RevokedType
  <2> QED
    BY <1>1, <2>2, RevokedType, LiveIsLive
<1>4. \A g \in GrantIDs \ gs : store'[g] = SweptStore[g]
  BY DEF RevokedAll
<1>5. Agree(svc', store')
  BY <1>1, <1>3, <1>4 DEF Agree, Known
<1>6. GrantsKept(svc', s)
  BY <1>3 DEF GrantsKept, SameTerms
<1>7. GrantsKept(svc', svc)
  BY <1>1, <1>6, GrantsKeptTransitive
<1> QED
  BY <1>1, <1>5, <1>7, KeptShrunk DEF AgreeStep, AgreeInv

(* Stop and the cancellations revoke in both copies what they reach.       *)
LEMMA EndingAgree ==
  ASSUME AgreeInv, TypeInv', NEW s \in Opened, NEW outcome,
         \/ \E g \in Live(s) : Stop(s, g, outcome)
         \/ \E i \in InvitationIDs : CancelInvitation(s, i, outcome)
         \/ \E r \in Held(s.requests) : CancelRequest(s, r, outcome)
  PROVE  AgreeStep
<1>1. s \in Service /\ Advanceable(s)
  BY OpenedAgree
<1>2. ASSUME NEW gs \in SUBSET GrantIDs, NEW a, NEW b, NEW c
      PROVE  LET over == RevokedIn(s, gs)
             IN /\ [over EXCEPT !.last = clock'].grants = over.grants
                /\ [[over EXCEPT !.invitations = a, !.requests = b, !.returns = c]
                      EXCEPT !.last = clock'].grants = over.grants
                /\ [[over EXCEPT !.requests = b, !.returns = c]
                      EXCEPT !.last = clock'].grants = over.grants
  <2>1. RevokedIn(s, gs) \in Service
    BY <1>1, RevokedType
  <2> QED
    BY <2>1 DEF Service
<1>3. \A rs : GrantsOf(s, rs) \in SUBSET GrantIDs
  BY <1>1, HeldShape DEF GrantsOf
<1>4. ASSUME NEW g \in Live(s), Stop(s, g, outcome) PROVE AgreeStep
  <2>1. {g} \in SUBSET GrantIDs
    BY <1>1, LiveShape
  <2>2. svc' = [RevokedIn(s, {g}) EXCEPT !.last = clock']
        /\ store' = RevokedAll(SweptStore, s, {g})
    BY <1>4 DEF Stop, Save, SaveOver
  <2>3. svc'.grants = RevokedIn(s, {g}).grants
    BY <1>2, <2>1, <2>2
  <2> QED
    BY <2>1, <2>2, <2>3, RevokedAgree
<1>5. ASSUME NEW i \in InvitationIDs, CancelInvitation(s, i, outcome)
      PROVE  AgreeStep
  <2> DEFINE gs == GrantsOf(s, RequestsOn(s, i))
  <2>1. PICK a, b, c : SaveOver(Written(s, gs),
                         [RevokedIn(s, gs) EXCEPT !.invitations = a,
                            !.requests = b, !.returns = c], outcome)
    BY <1>5 DEF CancelInvitation
  <2>2. store' = RevokedAll(SweptStore, s, gs)
    BY <1>5 DEF CancelInvitation
  <2>3. gs \in SUBSET GrantIDs
    BY <1>3
  <2> HIDE DEF gs
  <2>4. svc'.grants = RevokedIn(s, gs).grants
    BY <1>2, <2>1, <2>3 DEF SaveOver
  <2> QED
    BY <2>2, <2>3, <2>4, RevokedAgree
<1>6. ASSUME NEW r \in Held(s.requests), CancelRequest(s, r, outcome)
      PROVE  AgreeStep
  <2> DEFINE gs == GrantsOf(s, {r})
  <2>1. PICK b, c : SaveOver(Written(s, gs),
                      [RevokedIn(s, gs) EXCEPT !.requests = b, !.returns = c],
                      outcome)
    BY <1>6 DEF CancelRequest
  <2>2. store' = RevokedAll(SweptStore, s, gs)
    BY <1>6 DEF CancelRequest
  <2>3. gs \in SUBSET GrantIDs
    BY <1>3
  <2> HIDE DEF gs
  <2>4. svc'.grants = RevokedIn(s, gs).grants
    BY <1>2, <2>1, <2>3 DEF SaveOver
  <2> QED
    BY <2>2, <2>3, <2>4, RevokedAgree
<1> QED
  BY <1>4, <1>5, <1>6

LEMMA SavingAgree ==
  ASSUME AgreeInv, TypeInv', NEW s \in Opened, NEW outcome, Saving(s, outcome)
  PROVE  AgreeStep
<1>1. ASSUME NEW r \in Held(s.requests), NEW g \in GrantIDs, Approve(s, r, g, outcome)
      PROVE  AgreeStep
  BY <1>1, ApproveAgree
<1>2. ASSUME NEW g \in Live(s), RestrictGrant(s, g, outcome) PROVE AgreeStep
  BY <1>2, RestrictGrantAgree
<1> QED
  BY <1>1, <1>2, OtherRecordsAgree, EndingAgree DEF Saving

(* A restart ends every grant: it leaves nothing to agree on.              *)
LEMMA RestartAgree ==
  ASSUME AgreeInv, TypeInv', NEW outcome, Restart(outcome)
  PROVE  AgreeStep
<1>1. disk \in Service /\ Advanceable(disk) /\ svc' \in Service
  BY TypeParts, TypePartsNext DEF AgreeInv, ConsentType
<1>2. Restarted(disk) \in Service /\ Live(Restarted(disk)) = {}
  BY <1>1, RestartedType
<1>3. svc'.grants = Restarted(disk).grants
  <2>1. [Restarted(disk) EXCEPT !.last = clock'].grants = Restarted(disk).grants
    BY <1>2 DEF Service
  <2> QED
    BY <2>1 DEF Restart, Save, SaveOver
<1>4. \A g \in GrantIDs : ~IsLive(svc', g)
  BY <1>2, <1>3, LiveIsLive DEF IsLive
<1> QED
  BY <1>4 DEF AgreeStep, AgreeInv, Agree, Shrunk

LEMMA QuietAgree ==
  ASSUME AgreeInv, TypeInv', svc'.grants = svc.grants, store' = store,
         healthy' => healthy
  PROVE  AgreeStep
<1>1. svc \in Service
  BY TypeParts DEF AgreeInv, ConsentType
<1>2. GrantsKept(svc', svc)
  BY GrantsKeptSame
<1>3. \A g \in GrantIDs : Shrunk(svc', svc, g)
  BY <1>1, <1>2, KeptShrunk
<1>4. healthy' => Agree(svc', store')
  BY DEF AgreeInv, Agree, IsLive
<1> QED
  BY <1>3, <1>4 DEF AgreeStep, AgreeInv

LEMMA AgreeNext ==
  ASSUME AgreeInv, [Next]_vars
  PROVE  AgreeStep
<1>1. TypeInv /\ TypeInv' /\ svc \in Service
  BY StepType, TypeParts DEF AgreeInv, ConsentType
<1>2. CASE svc' = svc /\ store' = store /\ (healthy' => healthy)
  BY <1>1, <1>2, QuietAgree
<1>3. CASE Status
  <2>1. svc'.grants = svc.grants
    BY <1>1, <1>3 DEF Status, Service
  <2> QED
    BY <1>1, <1>3, <2>1, QuietAgree DEF Status
<1>4. ASSUME NEW outcome \in Outcomes, Restart(outcome) PROVE AgreeStep
  BY <1>1, <1>4, RestartAgree
<1>5. ASSUME NEW s \in Opened,
             Passing(s) \/ \E outcome \in Outcomes : Saving(s, outcome)
      PROVE  AgreeStep
  BY <1>1, <1>5, PassingAgree, SavingAgree
<1>6. CASE UNCHANGED vars \/ Tick \/ SetBack \/ Drive
  BY <1>2, <1>6 DEF vars, consent, Tick, SetBack, Drive
<1>7. CASE Refuse \/ \E r \in Readers : AbandonShut(r)
  <2>1. svc' = svc /\ store' = store /\ healthy' = FALSE
    BY <1>7 DEF Refuse, AbandonShut
  <2> QED
    BY <1>2, <2>1
<1>8. ASSUME NEW yes \in BOOLEAN, RouteSeen(yes) \/ RouteGone(yes) PROVE AgreeStep
  BY <1>2, <1>8 DEF RouteSeen, RouteGone, consent
<1>9. ASSUME NEW r \in Readers, SourceAnswers(r) PROVE AgreeStep
  BY <1>2, <1>9 DEF SourceAnswers, consent
<1> QED
  BY <1>3, <1>4, <1>5, <1>6, <1>7, <1>8, <1>9 DEF Next

LEMMA AgreeInit == Init => AgreeInv
<1> SUFFICES ASSUME Init PROVE AgreeInv
  OBVIOUS
<1>1. \A g \in GrantIDs : ~IsLive(svc, g)
  BY DEF Init, NoConsent, NoRecord, IsLive
<1> QED
  BY <1>1, InitType DEF AgreeInv, Agree

LEMMA AgreeAlways == Spec => []AgreeInv
<1>1. AgreeInv /\ [Next]_vars => AgreeInv'
  BY AgreeNext DEF AgreeStep
<1> QED
  BY <1>1, AgreeInit, PTL DEF Spec

(* The service's record of a grant and the policy store's agree on every   *)
(* grant that is active while the service is healthy: no stop fails for a  *)
(* revision that is out of step.                                           *)
THEOREM StoresAgreeHolds == Spec => []StoresAgree
<1>1. AgreeInv => StoresAgree
  <2> SUFFICES ASSUME AgreeInv PROVE StoresAgree
    OBVIOUS
  <2>1. svc \in Service
    BY TypeParts DEF AgreeInv, ConsentType
  <2> QED
    BY <2>1, LiveIsLive DEF AgreeInv, Agree, SameTerms, StoresAgree
<1> QED
  BY <1>1, AgreeAlways, PTL

(* No step widens a grant that goes on, in categories or in time, and none *)
(* makes one that has ended active again: over every interleaving, failed  *)
(* save and restart.                                                       *)
THEOREM ConsentShrinks == Spec => ConsentOnlyShrinks
<1> DEFINE Step == \A g \in GrantIDs : basis[g] # None /\ g \in Live(svc') =>
                     /\ g \in Live(svc)
                     /\ svc'.grants[g].allowed \subseteq svc.grants[g].allowed
                     /\ svc'.grants[g].until <= svc.grants[g].until
                     /\ svc'.grants[g].revision >= svc.grants[g].revision
<1>1. AgreeInv /\ [Next]_vars => [Step]_vars
  <2> SUFFICES ASSUME AgreeInv, [Next]_vars PROVE Step
    OBVIOUS
  <2>1. AgreeStep
    BY AgreeNext
  <2>2. svc \in Service /\ svc' \in Service
    BY <2>1, TypeParts, TypePartsNext DEF AgreeInv, AgreeStep, ConsentType
  <2> QED
    BY <2>1, <2>2, LiveIsLive DEF AgreeStep, Shrunk
<1>2. Spec => [][Step]_vars
  BY <1>1, AgreeAlways, PTL DEF Spec
<1> QED
  BY <1>2 DEF ConsentOnlyShrinks
=============================================================================
