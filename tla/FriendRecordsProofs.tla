------------------------ MODULE FriendRecordsProofs ------------------------
(***************************************************************************)
(* Proofs about the records of FriendTogether and what rests on them, for  *)
(* every value of its constants.  A grant is reached by the records it was *)
(* made from, no kind of record outgrows its limit and no secret outlives  *)
(* its use.  A stop that was acknowledged reaches every grant it is for    *)
(* and is in the journal, a snapshot is handed out only for a grant in     *)
(* force, and what a guest is shown moves forward.                         *)
(*                                                                         *)
(* The limit of the grants rests on the chain from a grant to its request: *)
(* an approval counts the policy store, which a restart empties, and not   *)
(* the grants of the service.                                              *)
(***************************************************************************)
EXTENDS FriendCounting, FriendTogetherProofs

-----------------------------------------------------------------------------
(* The inductive invariant                                                 *)

(* Every grant hangs on the request it was made from, and every request on *)
(* its invitation.                                                         *)
GrantChained(s, given, g) ==
  LET q == s.grants[g].request  i == s.requests[q].invitation IN
  /\ given[g] = q
  /\ s.requests[q].held /\ s.requests[q].grant = g
  /\ s.grants[g].until < s.invitations[i].until + s.invitations[i].duration

RequestChained(s, given, q) ==
  /\ s.invitations[s.requests[q].invitation].held
  /\ s.requests[q].grant # None => given[s.requests[q].grant] = q

Chained(s, given) ==
  /\ \A g \in GrantIDs : s.grants[g].held => GrantChained(s, given, g)
  /\ \A q \in RequestIDs : s.requests[q].held => RequestChained(s, given, q)

Fits(s) ==
  /\ Cardinality(Held(s.invitations)) <= MaxRecords
  /\ Cardinality(Held(s.requests)) <= MaxRecords
  /\ Cardinality(Held(s.grants)) <= MaxRecords

Sound(s, given) == s \in Service /\ Chained(s, given) /\ Fits(s)

(* A return invitation is kept for a pending request and an active grant.  *)
Kept(s, q) ==
  /\ s.requests[q].held
  /\ s.requests[q].status = "pending" \/ s.requests[q].grant \in Live(s)

Secrets(s) == \A q \in s.returns : Kept(s, q)

RecordsInv ==
  /\ SpendInv
  /\ Sound(svc, basis) /\ Sound(disk, basis)
  /\ Secrets(svc) /\ disk.returns = {}
  /\ Cardinality(Known(store)) <= MaxRecords

(* t has the records of s, as far as the chain is concerned.               *)
SameRecords(t, s) ==
  /\ \A i \in InvitationIDs :
       /\ t.invitations[i].held <=> s.invitations[i].held
       /\ s.invitations[i].held =>
            /\ t.invitations[i].until = s.invitations[i].until
            /\ t.invitations[i].duration = s.invitations[i].duration
  /\ \A q \in RequestIDs :
       /\ t.requests[q].held <=> s.requests[q].held
       /\ s.requests[q].held =>
            /\ t.requests[q].invitation = s.requests[q].invitation
            /\ t.requests[q].grant = s.requests[q].grant
  /\ \A g \in GrantIDs :
       /\ t.grants[g].held <=> s.grants[g].held
       /\ s.grants[g].held =>
            /\ t.grants[g].request = s.grants[g].request
            /\ t.grants[g].until = s.grants[g].until

LEMMA SameRecordsTransitive ==
  ASSUME NEW s, NEW t, NEW u, SameRecords(t, s), SameRecords(u, t)
  PROVE  SameRecords(u, s)
BY DEF SameRecords

LEMMA SameRecordsSame ==
  ASSUME NEW s, NEW t, t.invitations = s.invitations, t.requests = s.requests,
         t.grants = s.grants
  PROVE  SameRecords(t, s)
BY DEF SameRecords

(* What a held record names is an ID.                                      *)
LEMMA NamesAreIDs ==
  ASSUME NEW s \in Service
  PROVE  /\ \A q \in RequestIDs : s.requests[q].held =>
              s.requests[q].invitation \in InvitationIDs
              /\ s.requests[q].grant \in GrantIDs \cup {None}
         /\ \A g \in GrantIDs : s.grants[g].held => s.grants[g].request \in RequestIDs
<1>1. \A q \in RequestIDs : s.requests[q].held => s.requests[q] \in Request
  BY HeldShape
<1>2. \A g \in GrantIDs : s.grants[g].held => s.grants[g] \in Grant
  BY HeldShape
<1> QED
  BY <1>1, <1>2 DEF Request, Grant

LEMMA SameChained ==
  ASSUME NEW s \in Service, NEW t, SameRecords(t, s), NEW given, Chained(s, given)
  PROVE  Chained(t, given)
<1>1. ASSUME NEW q \in RequestIDs, t.requests[q].held
      PROVE  RequestChained(t, given, q)
  BY <1>1, NamesAreIDs DEF SameRecords, Chained, RequestChained
<1>2. ASSUME NEW g \in GrantIDs, t.grants[g].held
      PROVE  GrantChained(t, given, g)
  <2> DEFINE q == s.grants[g].request
             i == s.requests[q].invitation
  <2>1. /\ s.grants[g].held /\ GrantChained(s, given, g) /\ q \in RequestIDs
        /\ t.grants[g].request = q /\ t.grants[g].until = s.grants[g].until
    BY <1>2, NamesAreIDs DEF SameRecords, Chained
  <2>2. /\ s.requests[q].held /\ t.requests[q].held /\ i \in InvitationIDs
        /\ t.requests[q].invitation = i /\ t.requests[q].grant = s.requests[q].grant
    BY <2>1, NamesAreIDs DEF SameRecords, GrantChained
  <2>3. s.invitations[i].held
    BY <2>1, <2>2 DEF Chained, RequestChained
  <2>4. /\ t.invitations[i].until = s.invitations[i].until
        /\ t.invitations[i].duration = s.invitations[i].duration
    BY <2>2, <2>3 DEF SameRecords
  <2> QED
    BY <2>1, <2>2, <2>4 DEF GrantChained
<1> QED
  BY <1>1, <1>2 DEF Chained

-----------------------------------------------------------------------------
(* Numbers of records                                                      *)

LEMMA HeldFinite ==
  ASSUME NEW s \in Service
  PROVE  /\ IsFiniteSet(Held(s.invitations)) /\ Cardinality(Held(s.invitations)) \in Nat
         /\ IsFiniteSet(Held(s.requests)) /\ Cardinality(Held(s.requests)) \in Nat
         /\ IsFiniteSet(Held(s.grants)) /\ Cardinality(Held(s.grants)) \in Nat
<1>1. /\ IsFiniteSet(InvitationIDs) /\ IsFiniteSet(RequestIDs) /\ IsFiniteSet(GrantIDs)
  BY ServiceLimits, StoreLimits
<1>2. /\ Held(s.invitations) \subseteq InvitationIDs
      /\ Held(s.requests) \subseteq RequestIDs /\ Held(s.grants) \subseteq GrantIDs
  BY HeldShape
<1> QED
  BY <1>1, <1>2, FewerCount

LEMMA FewerFits ==
  ASSUME NEW s \in Service, Fits(s), NEW t,
         Held(t.invitations) \subseteq Held(s.invitations),
         Held(t.requests) \subseteq Held(s.requests),
         Held(t.grants) \subseteq Held(s.grants)
  PROVE  Fits(t)
<1>1. MaxRecords \in Nat
  BY Constants
<1>2. /\ Cardinality(Held(t.invitations)) <= Cardinality(Held(s.invitations))
      /\ Cardinality(Held(t.requests)) <= Cardinality(Held(s.requests))
      /\ Cardinality(Held(t.grants)) <= Cardinality(Held(s.grants))
      /\ Cardinality(Held(t.invitations)) \in Nat /\ Cardinality(Held(t.requests)) \in Nat
      /\ Cardinality(Held(t.grants)) \in Nat
  BY HeldFinite, FewerCount
<1> QED
  BY <1>1, <1>2, HeldFinite DEF Fits

LEMMA SameSound ==
  ASSUME NEW s, NEW given, Sound(s, given), NEW t \in Service, SameRecords(t, s)
  PROVE  Sound(t, given)
<1>1. s \in Service /\ Chained(t, given)
  BY SameChained DEF Sound
<1>2. /\ Held(t.invitations) \subseteq Held(s.invitations)
      /\ Held(t.requests) \subseteq Held(s.requests)
      /\ Held(t.grants) \subseteq Held(s.grants)
  BY <1>1, HeldShape DEF SameRecords
<1> QED
  BY <1>1, <1>2, FewerFits DEF Sound

LEMMA KnownFinite ==
  ASSUME NEW st
  PROVE  IsFiniteSet(Known(st)) /\ Cardinality(Known(st)) \in Nat
<1>1. IsFiniteSet(GrantIDs) /\ Known(st) \subseteq GrantIDs
  BY StoreLimits DEF Known
<1> QED
  BY <1>1, FewerCount

LEMMA FewerKnown ==
  ASSUME NEW st, Cardinality(Known(st)) <= MaxRecords, NEW new,
         Known(new) \subseteq Known(st)
  PROVE  Cardinality(Known(new)) <= MaxRecords
<1>1. Cardinality(Known(new)) <= Cardinality(Known(st))
  BY KnownFinite, FewerCount
<1> QED
  BY <1>1, KnownFinite, Constants

-----------------------------------------------------------------------------
(* The operators on the service state: the same records                    *)

LEMMA LapsedSame ==
  ASSUME NEW s \in Service, NEW now \in Nat
  PROVE  SameRecords(Lapsed(s, now), s)
<1> DEFINE t == Lapsed(s, now)
<1>1. t.invitations = s.invitations
  BY LapsedFields
<1>2. ASSUME NEW q \in RequestIDs
      PROVE  /\ t.requests[q].held <=> s.requests[q].held
             /\ s.requests[q].held =>
                  /\ t.requests[q].invitation = s.requests[q].invitation
                  /\ t.requests[q].grant = s.requests[q].grant
  <2>1. CASE q \in Pending(s) /\ s.requests[q].until <= now
    <3>1. \A x \in Request : LET y == [x EXCEPT !.status = "expired"]
            IN y.held = x.held /\ y.invitation = x.invitation /\ y.grant = x.grant
      BY DEF Request
    <3>2. t.requests[q] = [s.requests[q] EXCEPT !.status = "expired"]
      BY <2>1, LapsedRequests
    <3>3. s.requests[q] \in Request
      BY <2>1, HeldShape DEF Pending
    <3> HIDE DEF t
    <3> QED
      BY <3>1, <3>2, <3>3
  <2>2. CASE ~(q \in Pending(s) /\ s.requests[q].until <= now)
    <3>1. t.requests[q] = s.requests[q]
      BY <2>2, LapsedRequests
    <3> HIDE DEF t
    <3> QED
      BY <3>1
  <2> QED
    BY <2>1, <2>2
<1>3. ASSUME NEW g \in GrantIDs
      PROVE  /\ t.grants[g].held <=> s.grants[g].held
             /\ s.grants[g].held =>
                  /\ t.grants[g].request = s.grants[g].request
                  /\ t.grants[g].until = s.grants[g].until
  <2>1. CASE g \in Live(s) /\ s.grants[g].until <= now
    <3>1. \A x \in Grant : LET y == [x EXCEPT !.status = "expired"]
            IN y.held = x.held /\ y.request = x.request /\ y.until = x.until
      BY DEF Grant
    <3>2. t.grants[g] = [s.grants[g] EXCEPT !.status = "expired"]
      BY <2>1, LapsedGrants
    <3>3. s.grants[g] \in Grant
      BY <2>1, HeldShape DEF Live
    <3> HIDE DEF t
    <3> QED
      BY <3>1, <3>2, <3>3
  <2>2. CASE ~(g \in Live(s) /\ s.grants[g].until <= now)
    <3>1. t.grants[g] = s.grants[g]
      BY <2>2, LapsedGrants
    <3> HIDE DEF t
    <3> QED
      BY <3>1
  <2> QED
    BY <2>1, <2>2
<1> HIDE DEF t
<1>4. SameRecords(t, s)
  BY <1>1, <1>2, <1>3 DEF SameRecords
<1> QED
  BY <1>4 DEF t

LEMMA DurableSame ==
  ASSUME NEW s \in Service
  PROVE  SameRecords(Durable(s), s)
<1> DEFINE t == Durable(s)
<1>1. t.invitations = s.invitations /\ t.requests = s.requests
  BY DEF Durable
<1>2. ASSUME NEW g \in GrantIDs
      PROVE  /\ t.grants[g].held <=> s.grants[g].held
             /\ s.grants[g].held =>
                  /\ t.grants[g].request = s.grants[g].request
                  /\ t.grants[g].until = s.grants[g].until
  <2>1. \A x \in Grant : LET y == [x EXCEPT !.readAt = 0]
          IN y.held = x.held /\ y.request = x.request /\ y.until = x.until
    BY DEF Grant
  <2>2. t.grants[g] = IF s.grants[g].held THEN [s.grants[g] EXCEPT !.readAt = 0]
                      ELSE NoRecord
    BY DEF Durable
  <2>3. s.grants[g].held => s.grants[g] \in Grant
    BY HeldShape
  <2> HIDE DEF t
  <2> QED
    BY <2>1, <2>2, <2>3 DEF NoRecord
<1> HIDE DEF t
<1>3. SameRecords(t, s)
  BY <1>1, <1>2 DEF SameRecords
<1> QED
  BY <1>3 DEF t

LEMMA RestartedSame ==
  ASSUME NEW d \in Service
  PROVE  SameRecords(Restarted(d), d)
<1> DEFINE t == Restarted(d)
<1>1. ASSUME NEW i \in InvitationIDs
      PROVE  /\ t.invitations[i].held <=> d.invitations[i].held
             /\ d.invitations[i].held =>
                  /\ t.invitations[i].until = d.invitations[i].until
                  /\ t.invitations[i].duration = d.invitations[i].duration
  <2>1. \A x \in Invitation : LET y == [x EXCEPT !.used = TRUE]
          IN y.held = x.held /\ y.until = x.until /\ y.duration = x.duration
    BY DEF Invitation
  <2>2. t.invitations[i] = IF d.invitations[i].held
                           THEN [d.invitations[i] EXCEPT !.used = TRUE]
                           ELSE NoRecord
    BY RestartedFields
  <2>3. d.invitations[i].held => d.invitations[i] \in Invitation
    BY HeldShape
  <2> HIDE DEF t
  <2> QED
    BY <2>1, <2>2, <2>3 DEF NoRecord
<1>2. ASSUME NEW q \in RequestIDs
      PROVE  /\ t.requests[q].held <=> d.requests[q].held
             /\ d.requests[q].held =>
                  /\ t.requests[q].invitation = d.requests[q].invitation
                  /\ t.requests[q].grant = d.requests[q].grant
  <2>1. \A x \in Request : LET y == [x EXCEPT !.status = "expired"]
          IN y.held = x.held /\ y.invitation = x.invitation /\ y.grant = x.grant
    BY DEF Request
  <2>2. t.requests[q] = IF d.requests[q].held
                        THEN [d.requests[q] EXCEPT !.status = "expired"]
                        ELSE NoRecord
    BY RestartedFields
  <2>3. d.requests[q].held => d.requests[q] \in Request
    BY HeldShape
  <2> HIDE DEF t
  <2> QED
    BY <2>1, <2>2, <2>3 DEF NoRecord
<1>3. ASSUME NEW g \in GrantIDs
      PROVE  /\ t.grants[g].held <=> d.grants[g].held
             /\ d.grants[g].held =>
                  /\ t.grants[g].request = d.grants[g].request
                  /\ t.grants[g].until = d.grants[g].until
  <2>1. ASSUME NEW x \in Grant, NEW n
        PROVE  LET y == [x EXCEPT !.status = "revoked", !.revision = n]
               IN y.held = x.held /\ y.request = x.request /\ y.until = x.until
    BY DEF Grant
  <2>2. t.grants[g] = IF g \in Live(d)
                      THEN [d.grants[g] EXCEPT !.status = "revoked",
                              !.revision = d.grants[g].revision + 1]
                      ELSE d.grants[g]
    BY RestartedFields
  <2>3. g \in Live(d) => d.grants[g] \in Grant
    BY HeldShape DEF Live
  <2> HIDE DEF t
  <2> QED
    BY <2>1, <2>2, <2>3
<1> HIDE DEF t
<1>4. SameRecords(t, d)
  BY <1>1, <1>2, <1>3 DEF SameRecords
<1> QED
  BY <1>4 DEF t

LEMMA RevokedSame ==
  ASSUME NEW s \in Service, NEW gs \in SUBSET GrantIDs
  PROVE  SameRecords(RevokedIn(s, gs), s)
<1> DEFINE t == RevokedIn(s, gs)
<1>1. t.invitations = s.invitations /\ t.requests = s.requests
  BY RevokedFields
<1>2. ASSUME NEW g \in GrantIDs
      PROVE  /\ t.grants[g].held <=> s.grants[g].held
             /\ s.grants[g].held =>
                  /\ t.grants[g].request = s.grants[g].request
                  /\ t.grants[g].until = s.grants[g].until
  <2>1. ASSUME NEW x \in Grant, NEW n
        PROVE  LET y == [x EXCEPT !.status = "revoked", !.revision = n]
               IN y.held = x.held /\ y.request = x.request /\ y.until = x.until
    BY DEF Grant
  <2>2. /\ g \in gs \cap Live(s) =>
             t.grants[g] = [s.grants[g] EXCEPT !.status = "revoked",
                              !.revision = NextRevision(s.grants[g].revision)]
        /\ g \notin gs \cap Live(s) => t.grants[g] = s.grants[g]
    BY RevokedGrants
  <2>3. g \in Live(s) => s.grants[g] \in Grant
    BY HeldShape DEF Live
  <2> HIDE DEF t
  <2>4. CASE g \in gs \cap Live(s)
    <3> DEFINE x == s.grants[g]
               n == NextRevision(x.revision)
    <3>1. x \in Grant /\ t.grants[g] = [x EXCEPT !.status = "revoked", !.revision = n]
      BY <2>2, <2>3, <2>4
    <3> HIDE DEF x, n
    <3>2. t.grants[g].held = x.held /\ t.grants[g].request = x.request
          /\ t.grants[g].until = x.until
      BY <2>1, <3>1
    <3> QED
      BY <3>2 DEF x
  <2>5. CASE g \notin gs \cap Live(s)
    BY <2>2, <2>5
  <2> QED
    BY <2>4, <2>5
<1> HIDE DEF t
<1>3. SameRecords(t, s)
  BY <1>1, <1>2 DEF SameRecords
<1> QED
  BY <1>3 DEF t

LEMMA LastSame ==
  ASSUME NEW s \in Service, NEW n
  PROVE  SameRecords([s EXCEPT !.last = n], s)
<1>1. /\ [s EXCEPT !.last = n].invitations = s.invitations
      /\ [s EXCEPT !.last = n].requests = s.requests
      /\ [s EXCEPT !.last = n].grants = s.grants
  BY DEF Service
<1> QED
  BY <1>1, SameRecordsSame

-----------------------------------------------------------------------------
(* The sweep: a request goes after its grant, an invitation after its      *)
(* requests                                                                *)

LEMMA ReclaimedSound ==
  ASSUME NEW s, NEW given, Sound(s, given), NEW cutoff \in Int,
         Reclaimed(s, cutoff) \in Service
  PROVE  Sound(Reclaimed(s, cutoff), given)
<1> DEFINE t == Reclaimed(s, cutoff)
           grants == {g \in Held(s.grants) \ Live(s) : s.grants[g].until <= cutoff}
           requests == {q \in Held(s.requests) \ Pending(s) :
                          /\ s.requests[q].until <= cutoff
                          /\ s.requests[q].grant \notin Held(s.grants) \ grants}
           invitations == {i \in Held(s.invitations) :
                             /\ s.invitations[i].until <= cutoff
                             /\ RequestsOn(s, i) \subseteq requests}
<1>1. s \in Service /\ Chained(s, given) /\ Fits(s) /\ t \in Service
  BY DEF Sound
<1>2. /\ \A i \in InvitationIDs :
           t.invitations[i] = IF i \in invitations THEN NoRecord ELSE s.invitations[i]
      /\ \A q \in RequestIDs :
           t.requests[q] = IF q \in requests THEN NoRecord ELSE s.requests[q]
      /\ \A g \in GrantIDs :
           t.grants[g] = IF g \in grants THEN NoRecord ELSE s.grants[g]
  BY DEF Reclaimed
<1>3. \A q \in requests : s.requests[q].grant \notin Held(s.grants) \ grants
  OBVIOUS
<1>4. \A i \in invitations : RequestsOn(s, i) \subseteq requests
  OBVIOUS
<1> HIDE DEF t, grants, requests, invitations
<1>5. ASSUME NEW q \in RequestIDs, t.requests[q].held
      PROVE  /\ q \notin requests /\ s.requests[q].held /\ t.requests[q] = s.requests[q]
             /\ s.requests[q].invitation \in InvitationIDs
             /\ t.invitations[s.requests[q].invitation]
                  = s.invitations[s.requests[q].invitation]
  <2>1. q \notin requests /\ s.requests[q].held /\ t.requests[q] = s.requests[q]
    BY <1>2, <1>5 DEF NoRecord
  <2>2. s.requests[q].invitation \in InvitationIDs
    BY <1>1, <2>1, NamesAreIDs
  <2>3. q \in RequestsOn(s, s.requests[q].invitation)
    BY <1>1, <2>1, HeldShape DEF RequestsOn
  <2> QED
    BY <1>2, <1>4, <2>1, <2>2, <2>3
<1>6. ASSUME NEW q \in RequestIDs, t.requests[q].held
      PROVE  RequestChained(t, given, q)
  BY <1>1, <1>5, <1>6 DEF Chained, RequestChained
<1>7. ASSUME NEW g \in GrantIDs, t.grants[g].held
      PROVE  GrantChained(t, given, g)
  <2> DEFINE q == s.grants[g].request
  <2>1. g \notin grants /\ s.grants[g].held /\ t.grants[g] = s.grants[g]
    BY <1>2, <1>7 DEF NoRecord
  <2>2. GrantChained(s, given, g) /\ q \in RequestIDs
    BY <1>1, <2>1, NamesAreIDs DEF Chained
  <2>3. g \in Held(s.grants) \ grants /\ s.requests[q].grant = g /\ s.requests[q].held
    BY <1>1, <2>1, <2>2, HeldShape DEF GrantChained
  <2>4. t.requests[q] = s.requests[q] /\ t.requests[q].held
    BY <1>2, <1>3, <2>2, <2>3
  <2>5. t.invitations[s.requests[q].invitation] = s.invitations[s.requests[q].invitation]
    BY <1>5, <2>2, <2>4
  <2> HIDE DEF q
  <2>6. t.grants[g].request = q /\ t.grants[g].until = s.grants[g].until
    BY <2>1 DEF q
  <2> QED
    BY <2>2, <2>4, <2>5, <2>6 DEF GrantChained, q
<1>8. Fits(t)
  <2>1. /\ Held(t.invitations) \subseteq Held(s.invitations)
        /\ Held(t.requests) \subseteq Held(s.requests)
        /\ Held(t.grants) \subseteq Held(s.grants)
    <3>1. NoRecord.held = FALSE
      BY DEF NoRecord
    <3>2. /\ \A i \in InvitationIDs : t.invitations[i].held => s.invitations[i].held
          /\ \A q \in RequestIDs : t.requests[q].held => s.requests[q].held
          /\ \A g \in GrantIDs : t.grants[g].held => s.grants[g].held
      BY <1>2, <3>1
    <3> QED
      BY <1>1, <3>2, HeldShape
  <2> QED
    BY <1>1, <2>1, FewerFits
<1> QED
  BY <1>1, <1>6, <1>7, <1>8 DEF Sound, Chained, t

-----------------------------------------------------------------------------
(* The operators on the service state: secrets are forgotten in time       *)

(* The grant of a request that is not pending, and the request of a grant. *)
LEMMA GrantOfRequest ==
  ASSUME NEW s \in Service, NEW given, Chained(s, given), NEW q \in RequestIDs,
         s.requests[q].held, s.requests[q].grant \in Live(s)
  PROVE  LET g == s.requests[q].grant
         IN g \in GrantIDs /\ s.grants[g].held /\ s.grants[g].request = q
<1> DEFINE g == s.requests[q].grant
<1>1. g \in GrantIDs /\ s.grants[g].held /\ g # None
  BY HeldShape, Constants DEF Live
<1>2. given[g] = q
  BY <1>1 DEF Chained, RequestChained
<1>3. s.grants[g].request = q
  BY <1>1, <1>2 DEF Chained, GrantChained
<1> QED
  BY <1>1, <1>3

LEMMA LapsedSecrets ==
  ASSUME NEW s \in Service, NEW given, Chained(s, given), Secrets(s), NEW now \in Nat,
         Lapsed(s, now) \in Service
  PROVE  Secrets(Lapsed(s, now))
<1> DEFINE t == Lapsed(s, now)
           overdue == {q \in Pending(s) : s.requests[q].until <= now}
           over == {g \in Live(s) : s.grants[g].until <= now}
<1>1. t.returns = s.returns \ (overdue \cup {s.grants[g].request : g \in over})
  BY DEF Lapsed, Service
<1>2. \A q \in RequestIDs : q \notin overdue => t.requests[q] = s.requests[q]
  <2>1. t.requests = [r \in RequestIDs |->
          IF r \in overdue THEN [s.requests[r] EXCEPT !.status = "expired"]
          ELSE s.requests[r]]
    BY LapsedFields
  <2> HIDE DEF t, overdue
  <2> QED
    BY <2>1
<1>3. \A g \in GrantIDs : g \notin over => t.grants[g] = s.grants[g]
  <2>1. t.grants = [g \in GrantIDs |->
          IF g \in over THEN [s.grants[g] EXCEPT !.status = "expired"]
          ELSE s.grants[g]]
    BY LapsedFields
  <2> HIDE DEF t, over
  <2> QED
    BY <2>1
<1> HIDE DEF t
<1> SUFFICES ASSUME NEW q \in t.returns PROVE Kept(t, q)
  BY DEF Secrets, t
<1>4. /\ q \in s.returns /\ q \in RequestIDs /\ q \notin overdue /\ Kept(s, q)
      /\ \A g \in over : s.grants[g].request # q
  BY <1>1, ServiceShape DEF Secrets
<1>5. t.requests[q] = s.requests[q] /\ s.requests[q].held
  BY <1>2, <1>4 DEF Kept
<1>6. CASE s.requests[q].status = "pending"
  BY <1>5, <1>6 DEF Kept
<1>7. CASE s.requests[q].grant \in Live(s)
  <2> DEFINE g == s.requests[q].grant
  <2>1. g \in GrantIDs /\ s.grants[g].held /\ s.grants[g].request = q
    BY <1>4, <1>5, <1>7, GrantOfRequest
  <2>2. t.grants[g] = s.grants[g]
    BY <1>3, <1>4, <2>1
  <2>3. g \in Live(t)
    BY <1>7, <2>1, <2>2, HeldShape DEF Live, t
  <2> QED
    BY <1>5, <2>3 DEF Kept
<1> QED
  BY <1>4, <1>6, <1>7 DEF Kept

LEMMA RevokedSecrets ==
  ASSUME NEW s \in Service, NEW given, Chained(s, given), Secrets(s),
         NEW gs \in SUBSET GrantIDs, RevokedIn(s, gs) \in Service
  PROVE  Secrets(RevokedIn(s, gs))
<1> DEFINE t == RevokedIn(s, gs)
<1>1. t.returns = s.returns \ {s.grants[g].request : g \in gs \cap Live(s)}
  BY DEF RevokedIn, Service
<1>2. t.requests = s.requests
  BY RevokedFields
<1>3. \A g \in GrantIDs : g \notin gs \cap Live(s) => t.grants[g] = s.grants[g]
  BY RevokedGrants
<1> HIDE DEF t
<1> SUFFICES ASSUME NEW q \in t.returns PROVE Kept(t, q)
  BY DEF Secrets, t
<1>4. /\ q \in s.returns /\ q \in RequestIDs /\ Kept(s, q)
      /\ \A g \in gs \cap Live(s) : s.grants[g].request # q
  BY <1>1, ServiceShape DEF Secrets
<1>5. t.requests[q] = s.requests[q] /\ s.requests[q].held
  BY <1>2, <1>4 DEF Kept
<1>6. CASE s.requests[q].status = "pending"
  BY <1>5, <1>6 DEF Kept
<1>7. CASE s.requests[q].grant \in Live(s)
  <2> DEFINE g == s.requests[q].grant
  <2>1. g \in GrantIDs /\ s.grants[g].held /\ s.grants[g].request = q
    BY <1>4, <1>5, <1>7, GrantOfRequest
  <2>2. t.grants[g] = s.grants[g]
    BY <1>3, <1>4, <2>1
  <2>3. g \in Live(t)
    BY <1>7, <2>1, <2>2, HeldShape DEF Live, t
  <2> QED
    BY <1>5, <2>3 DEF Kept
<1> QED
  BY <1>4, <1>6, <1>7 DEF Kept

LEMMA ReclaimedSecrets ==
  ASSUME NEW s \in Service, Secrets(s), NEW cutoff \in Int,
         Reclaimed(s, cutoff) \in Service
  PROVE  Secrets(Reclaimed(s, cutoff))
<1> DEFINE t == Reclaimed(s, cutoff)
           grants == {g \in Held(s.grants) \ Live(s) : s.grants[g].until <= cutoff}
           requests == {q \in Held(s.requests) \ Pending(s) :
                          /\ s.requests[q].until <= cutoff
                          /\ s.requests[q].grant \notin Held(s.grants) \ grants}
<1>1. /\ \A q \in RequestIDs :
           t.requests[q] = IF q \in requests THEN NoRecord ELSE s.requests[q]
      /\ \A g \in GrantIDs :
           t.grants[g] = IF g \in grants THEN NoRecord ELSE s.grants[g]
      /\ t.returns = s.returns \ requests
  BY DEF Reclaimed
<1>2. Live(s) \cap grants = {} /\ Live(s) \subseteq GrantIDs
  BY HeldShape DEF Live
<1> HIDE DEF grants, requests, t
<1> SUFFICES ASSUME NEW q \in t.returns PROVE Kept(t, q)
  BY DEF Secrets, t
<1>3. q \in RequestIDs /\ Kept(s, q) /\ t.requests[q] = s.requests[q]
  BY <1>1, ServiceShape DEF Secrets
<1>4. ASSUME NEW g \in Live(s) PROVE g \in Live(t)
  <2>1. t.grants[g] = s.grants[g] /\ g \in GrantIDs
    BY <1>1, <1>2
  <2> QED
    BY <2>1, HeldShape DEF Live, t
<1> QED
  BY <1>3, <1>4 DEF Kept

-----------------------------------------------------------------------------
(* The opening of every handler                                            *)

LEMMA OpenedSound ==
  ASSUME RecordsInv, NEW s \in Opened
  PROVE  /\ TypeInv /\ s \in Service /\ Advanceable(s) /\ Sound(s, basis) /\ Secrets(s)
         /\ Cardinality(Known(SweptStore)) <= MaxRecords
         /\ Fresh(s, origin, basis) /\ Traced(s, origin)
<1> DEFINE t == [svc EXCEPT !.last = clock]
           u == Lapsed(t, clock)
<1>1. /\ TypeInv /\ s \in Service /\ Advanceable(s)
      /\ Fresh(s, origin, basis) /\ Traced(s, origin)
  BY SweptSpend DEF RecordsInv
<1>2. clock \in Nat /\ Cutoff \in Int /\ svc \in Service /\ Advanceable(svc)
  BY <1>1, Constants DEF TypeInv, TypeOK, Times, Cutoff
<1>3. t \in Service /\ Advanceable(t) /\ SameRecords(t, svc)
  BY <1>2, ServiceLast, LastSame
<1>4. Sound(t, basis) /\ Secrets(t)
  <2>1. t.returns = svc.returns /\ t.requests = svc.requests /\ t.grants = svc.grants
    BY <1>2 DEF Service
  <2>2. Live(t) = Live(svc)
    BY <2>1 DEF Live
  <2>3. Sound(t, basis)
    BY <1>3, SameSound DEF RecordsInv
  <2> QED
    BY <2>1, <2>2, <2>3 DEF RecordsInv, Secrets, Kept
<1> HIDE DEF t
<1>5. u \in Service /\ Advanceable(u) /\ SameRecords(u, t)
  BY <1>2, <1>3, LapsedType, LapsedSame
<1>6. Sound(u, basis) /\ Secrets(u)
  BY <1>2, <1>4, <1>5, SameSound, LapsedSecrets DEF Sound
<1> HIDE DEF u
<1>7. s = Reclaimed(u, Cutoff)
  BY DEF Opened, Swept, u, t
<1>8. Sound(s, basis) /\ Secrets(s)
  BY <1>1, <1>2, <1>5, <1>6, <1>7, ReclaimedSound, ReclaimedSecrets
<1>9. Cardinality(Known(SweptStore)) <= MaxRecords
  <2>1. Known(SweptStore) \subseteq Known(store)
    BY DEF Known, SweptStore, Prune, NoRecord
  <2> QED
    BY <2>1, FewerKnown DEF RecordsInv
<1> QED
  BY <1>1, <1>8, <1>9

-----------------------------------------------------------------------------
(* Requests that save nothing                                              *)

LEMMA KnownUpdated ==
  ASSUME NEW st \in StoreType, NEW g \in GrantIDs, NEW x
  PROVE  Known([st EXCEPT ![g] = x]) \subseteq Known(st) \cup {g}
BY DEF Known, StoreType

(* An update of a grant the store knows.                                   *)
LEMMA KnownSame ==
  ASSUME NEW st \in StoreType, Cardinality(Known(st)) <= MaxRecords,
         NEW g \in Known(st), NEW x
  PROVE  Cardinality(Known([st EXCEPT ![g] = x])) <= MaxRecords
<1>1. g \in GrantIDs
  BY DEF Known
<1>2. Known([st EXCEPT ![g] = x]) \subseteq Known(st)
  BY <1>1, KnownUpdated
<1> QED
  BY <1>2, FewerKnown

LEMMA KnownRevoked ==
  ASSUME NEW st \in StoreType, Cardinality(Known(st)) <= MaxRecords, NEW s,
         NEW gs, \A g \in gs \cap Live(s) : g \in Known(st)
  PROVE  Cardinality(Known(RevokedAll(st, s, gs))) <= MaxRecords
<1>1. Known(RevokedAll(st, s, gs)) \subseteq Known(st)
  BY DEF RevokedAll, Known
<1> QED
  BY <1>1, FewerKnown

(* What an approval creates is the one grant the store had room for.       *)
LEMMA KnownConsented ==
  ASSUME TypeInv, NEW s \in Opened, NEW r \in Held(s.requests), NEW g \in GrantIDs,
         Approvable(s, r, g)
  PROVE  Cardinality(Known(Consented(s, r, g))) <= MaxRecords
<1>1. \A h \in GrantIDs \ {g} : Consented(s, r, g)[h] = SweptStore[h]
  BY ConsentedShape
<1>2. Known(Consented(s, r, g)) \subseteq Known(SweptStore) \cup {g}
  BY <1>1 DEF Known
<1>3. Cardinality(Known(SweptStore)) < MaxRecords
  BY DEF Approvable, CanCreate
<1> QED
  BY <1>2, <1>3, KnownFinite, OneMoreCount, Constants

LEMMA SecretsKept ==
  ASSUME NEW s, Secrets(s), NEW t, t.returns = s.returns, t.requests = s.requests,
         Live(s) \subseteq Live(t)
  PROVE  Secrets(t)
BY DEF Secrets, Kept

LEMMA QuietRecords ==
  ASSUME RecordsInv, SpendInv', NEW s, Sound(s, basis), SameRecords(svc', s),
         Secrets(svc'), UNCHANGED <<basis, disk>>,
         Cardinality(Known(store')) <= MaxRecords
  PROVE  RecordsInv'
<1>1. svc' \in Service
  BY TypePartsNext DEF SpendInv, ConsentType
<1>2. Sound(svc', basis')
  BY <1>1, SameSound
<1> QED
  BY <1>2 DEF RecordsInv, Secrets, Kept, Live, Held, Sound, Chained, GrantChained,
     RequestChained, Fits, Known

LEMMA BeginReadRecords ==
  ASSUME NEW s \in Service, Secrets(s), NEW r \in Readers, NEW g \in Live(s),
         BeginRead(s, r, g)
  PROVE  SameRecords(svc', s) /\ Secrets(svc')
<1> DEFINE read == [s.grants[g] EXCEPT !.readAt = clock']
           grants == [s.grants EXCEPT ![g] = read]
<1>1. svc' = [s EXCEPT !.grants = grants]
  BY DEF BeginRead
<1>2. g \in GrantIDs /\ s.grants[g] \in Grant
  BY HeldShape DEF Live
<1>3. /\ read.held = s.grants[g].held /\ read.status = s.grants[g].status
      /\ read.request = s.grants[g].request /\ read.until = s.grants[g].until
  <2>1. ASSUME NEW x \in Grant, NEW n
        PROVE  LET y == [x EXCEPT !.readAt = n]
               IN /\ y.held = x.held /\ y.status = x.status
                  /\ y.request = x.request /\ y.until = x.until
    BY DEF Grant
  <2> QED
    BY <1>2, <2>1
<1>4. \A h \in GrantIDs : grants[h] = IF h = g THEN read ELSE s.grants[h]
  BY ServiceShape
<1>5. DOMAIN grants = GrantIDs
  BY ServiceShape
<1> HIDE DEF read, grants
<1>6. /\ svc'.grants = grants /\ svc'.requests = s.requests
      /\ svc'.invitations = s.invitations /\ svc'.returns = s.returns
  BY <1>1 DEF Service
<1>7. SameRecords(svc', s)
  BY <1>3, <1>4, <1>6 DEF SameRecords
<1>8. Live(s) \subseteq Live(svc')
  BY <1>3, <1>4, <1>5, <1>6, HeldShape DEF Live, Held
<1> QED
  BY <1>6, <1>7, <1>8, SecretsKept

LEMMA PassingRecords ==
  ASSUME RecordsInv, SpendInv', NEW s \in Opened, Passing(s)
  PROVE  RecordsInv'
<1>1. /\ TypeInv /\ s \in Service /\ Sound(s, basis) /\ Secrets(s)
      /\ Cardinality(Known(SweptStore)) <= MaxRecords
  BY OpenedSound
<1>2. SweptStore \in StoreType
  BY <1>1, OpenedType
<1>3. UNCHANGED <<basis, disk>>
  BY DEF Passing, Look, ApproveMismatched, StopAgain, RestrictTooLate, FinishRead,
     ReadTooLate, Abandon, BeginRead, BeginInvite, past
<1>4. SameRecords(s, s)
  BY SameRecordsSame
<1>5. SameRecords(svc', s) /\ Secrets(svc')
  <2>1. CASE svc' = s
    BY <1>1, <1>4, <2>1
  <2>2. ASSUME NEW r \in Readers, FinishRead(s, r)
        PROVE  SameRecords(svc', s) /\ Secrets(svc')
    <3>1. svc' = [s EXCEPT !.last = clock']
      BY <2>2 DEF FinishRead
    <3>2. svc'.returns = s.returns /\ svc'.requests = s.requests
          /\ svc'.grants = s.grants
      BY <1>1, <3>1 DEF Service
    <3>3. Live(s) \subseteq Live(svc')
      BY <3>2 DEF Live
    <3> QED
      BY <1>1, <3>1, <3>2, <3>3, LastSame, SecretsKept
  <2>3. ASSUME NEW r \in Readers, NEW g \in Live(s), BeginRead(s, r, g)
        PROVE  SameRecords(svc', s) /\ Secrets(svc')
    BY <1>1, <2>3, BeginReadRecords
  <2> QED
    BY <2>1, <2>2, <2>3 DEF Passing, Look, ApproveMismatched, StopAgain,
       RestrictTooLate, ReadTooLate, Abandon, BeginInvite
<1>6. Cardinality(Known(store')) <= MaxRecords
  <2>1. CASE store' = SweptStore
    BY <1>1, <2>1
  <2>2. ASSUME NEW g \in Known(SweptStore), store' = Noticed(SweptStore, g, clock')
        PROVE  Cardinality(Known(store')) <= MaxRecords
    BY <1>1, <1>2, <2>2, KnownSame DEF Noticed
  <2>3. ASSUME NEW r \in Readers, FinishRead(s, r)
        PROVE  Cardinality(Known(store')) <= MaxRecords
    BY <1>1, <1>2, <2>3, KnownSame DEF FinishRead, MayProject, Matches, Project
  <2>4. ASSUME NEW r \in Pending(s), NEW g \in GrantIDs, ApproveMismatched(s, r, g)
        PROVE  Cardinality(Known(store')) <= MaxRecords
    BY <1>1, <2>4, KnownConsented DEF ApproveMismatched, Pending
  <2> QED
    BY <2>1, <2>2, <2>3, <2>4 DEF Passing, Look, StopAgain, BeginRead, BeginInvite,
       RestrictTooLate, ReadTooLate, Abandon, Matches
<1> QED
  BY <1>1, <1>3, <1>5, <1>6, QuietRecords

-----------------------------------------------------------------------------
(* Requests that save                                                      *)

LEMMA SavedRecords ==
  ASSUME SpendInv', NEW t, Sound(t, basis'), Secrets(t), NEW written,
         Sound(written, basis'), written.returns = {}, NEW outcome,
         SaveOver(written, t, outcome), Cardinality(Known(store')) <= MaxRecords
  PROVE  RecordsInv'
<1>1. svc' \in Service /\ disk' \in Service /\ t \in Service
  BY TypePartsNext DEF SpendInv, ConsentType, Sound
<1>2. svc' = [t EXCEPT !.last = clock'] /\ (disk' = written \/ disk' = Durable(svc'))
  BY DEF SaveOver
<1>3. Sound(svc', basis')
  BY <1>1, <1>2, LastSame, SameSound
<1>4. Secrets(svc')
  <2>1. svc'.returns = t.returns /\ svc'.requests = t.requests
        /\ svc'.grants = t.grants
    BY <1>1, <1>2 DEF Service
  <2>2. Live(t) \subseteq Live(svc')
    BY <2>1 DEF Live
  <2> QED
    BY <2>1, <2>2, SecretsKept
<1>5. Sound(disk', basis') /\ disk'.returns = {}
  <2>1. CASE disk' = Durable(svc')
    <3>1. disk'.returns = {}
      BY <2>1 DEF Durable
    <3> QED
      BY <1>1, <1>3, <2>1, <3>1, DurableSame, SameSound
  <2>2. CASE disk' = written
    BY <2>2
  <2> QED
    BY <1>2, <2>1, <2>2
<1> QED
  BY <1>3, <1>4, <1>5 DEF RecordsInv, Secrets, Kept, Live, Held, Sound, Chained,
     GrantChained, RequestChained, Fits, Known

(* What a cancellation has written when its second save fails.             *)
LEMMA WrittenSound ==
  ASSUME RecordsInv, NEW s, Sound(s, basis), Advanceable(s),
         NEW gs \in SUBSET GrantIDs, clock' \in Nat
  PROVE  Sound(Written(s, gs), basis) /\ Written(s, gs).returns = {}
<1> DEFINE t == RevokedIn(s, gs)
           u == [t EXCEPT !.last = clock']
<1>1. t \in Service /\ Advanceable(t) /\ SameRecords(t, s)
  BY RevokedType, RevokedSame DEF Sound
<1>2. Sound(t, basis)
  BY <1>1, SameSound
<1>3. u \in Service /\ Advanceable(u) /\ SameRecords(u, t)
  BY <1>1, ServiceLast, LastSame
<1>4. Sound(u, basis)
  BY <1>2, <1>3, SameSound
<1> HIDE DEF t, u
<1>5. Sound(Durable(u), basis) /\ Durable(u).returns = {}
  <2>1. Durable(u) \in Service /\ Durable(u).returns = {}
    BY <1>3, DurableType DEF Durable
  <2> QED
    BY <1>3, <1>4, <2>1, DurableSame, SameSound
<1>6. Written(s, gs) = disk \/ Written(s, gs) = Durable(u)
  BY DEF Written, t, u
<1> QED
  BY <1>5, <1>6 DEF RecordsInv

LEMMA FinishInviteRecords ==
  ASSUME RecordsInv, SpendInv', NEW s \in Opened, NEW r \in Readers,
         NEW i \in InvitationIDs, NEW outcome, FinishInvite(s, r, i, outcome)
  PROVE  RecordsInv'
<1> DEFINE x == NewInvitation(readers[r])
           invitations == [s.invitations EXCEPT ![i] = x]
           t == [s EXCEPT !.invitations = invitations]
<1>1. /\ TypeInv /\ s \in Service /\ Sound(s, basis) /\ Secrets(s)
      /\ Chained(s, basis) /\ Fits(s)
      /\ Cardinality(Known(SweptStore)) <= MaxRecords
  BY OpenedSound DEF Sound
<1>2. ~s.invitations[i].held
  <2>1. Narrower(s, svc) /\ svc \in Service
    BY OpenedNarrower, TypeParts DEF RecordsInv, SpendInv, ConsentType
  <2> QED
    BY <2>1, HeldShape DEF FinishInvite, Narrower
<1>3. x \in Invitation
  <2>1. readers[r] \in Asking /\ clock' \in Nat
    BY <1>1, ReaderShape, MovedTime DEF FinishInvite
  <2>2. clock' + InvitationLife \in Nat
    <3>1. InvitationLife \in Nat /\ \A m, n \in Nat : m + n \in Nat
      BY Constants
    <3> QED
      BY <2>1, <3>1
  <2> QED
    BY <2>1, <2>2 DEF Asking, NewInvitation, Invitation
<1>4. /\ invitations \in [InvitationIDs -> Invitation \cup {NoRecord}]
      /\ \A j \in InvitationIDs :
           invitations[j] = IF j = i THEN x ELSE s.invitations[j]
  BY <1>1, <1>3, ServiceShape
<1> HIDE DEF x, invitations
<1>5. /\ t \in Service /\ t.invitations = invitations /\ t.requests = s.requests
      /\ t.grants = s.grants /\ t.returns = s.returns
  BY <1>1, <1>4 DEF Service
<1> HIDE DEF t
<1>6. \A q \in RequestIDs : s.requests[q].held =>
        /\ s.requests[q].invitation \in InvitationIDs
        /\ t.invitations[s.requests[q].invitation]
             = s.invitations[s.requests[q].invitation]
  BY <1>1, <1>2, <1>4, <1>5, NamesAreIDs DEF Chained, RequestChained
<1>7. Chained(t, basis)
  <2>1. \A q \in RequestIDs : t.requests[q].held => RequestChained(t, basis, q)
    BY <1>1, <1>5, <1>6 DEF Chained, RequestChained
  <2>2. ASSUME NEW g \in GrantIDs, t.grants[g].held PROVE GrantChained(t, basis, g)
    <3>1. GrantChained(s, basis, g) /\ s.grants[g].request \in RequestIDs
      BY <1>1, <1>5, <2>2, NamesAreIDs DEF Chained
    <3>2. s.requests[s.grants[g].request].held
      BY <3>1 DEF GrantChained
    <3>3. t.invitations[s.requests[s.grants[g].request].invitation]
            = s.invitations[s.requests[s.grants[g].request].invitation]
      BY <1>6, <3>1, <3>2
    <3> QED
      BY <1>5, <3>1, <3>3 DEF GrantChained
  <2> QED
    BY <2>1, <2>2 DEF Chained
<1>8. Fits(t)
  <2>1. Held(t.invitations) \subseteq Held(s.invitations) \cup {i}
    BY <1>1, <1>4, <1>5, HeldShape
  <2>2. Cardinality(Held(s.invitations)) < MaxRecords
    BY DEF FinishInvite, Room
  <2>3. Cardinality(Held(t.invitations)) <= MaxRecords
    BY <1>1, <2>1, <2>2, HeldFinite, OneMoreCount, Constants
  <2> QED
    BY <1>1, <1>5, <2>3 DEF Fits
<1>9. Secrets(t)
  <2>1. Live(s) \subseteq Live(t)
    BY <1>5 DEF Live
  <2> QED
    BY <1>1, <1>5, <2>1, SecretsKept
<1>10. SaveOver(disk, t, outcome) /\ basis' = basis /\ store' = SweptStore
  BY DEF FinishInvite, Save, past, t, invitations, x
<1> QED
  BY <1>1, <1>5, <1>7, <1>8, <1>9, <1>10, SavedRecords DEF Sound, RecordsInv

LEMMA StopRecords ==
  ASSUME RecordsInv, SpendInv', NEW s \in Opened, NEW g \in Live(s), NEW outcome,
         Stop(s, g, outcome)
  PROVE  RecordsInv'
<1> DEFINE t == RevokedIn(s, {g})
<1>1. /\ TypeInv /\ s \in Service /\ Advanceable(s) /\ Sound(s, basis) /\ Secrets(s)
      /\ Chained(s, basis) /\ Cardinality(Known(SweptStore)) <= MaxRecords
  BY OpenedSound DEF Sound
<1>2. {g} \in SUBSET GrantIDs
  BY <1>1, LiveShape
<1>3. t \in Service /\ SameRecords(t, s)
  BY <1>1, <1>2, RevokedType, RevokedSame
<1>4. Sound(t, basis) /\ Secrets(t)
  BY <1>1, <1>2, <1>3, SameSound, RevokedSecrets
<1>5. Cardinality(Known(store')) <= MaxRecords
  BY <1>1, OpenedType, KnownRevoked DEF Stop, Revocable, Matches
<1>6. SaveOver(disk, t, outcome) /\ basis' = basis
  BY DEF Stop, Save
<1> HIDE DEF t
<1> QED
  BY <1>4, <1>5, <1>6, SavedRecords DEF RecordsInv

LEMMA RequestDecided ==
  ASSUME NEW q \in Request, NEW status
  PROVE  LET new == [q EXCEPT !.status = status]
         IN new.held /\ new.invitation = q.invitation /\ new.grant = q.grant
BY DEF Request

(* A request is decided against, and its return invitation forgotten.      *)
LEMMA RejectRecords ==
  ASSUME RecordsInv, SpendInv', NEW s \in Opened, NEW r \in Held(s.requests),
         NEW outcome, Reject(s, r, outcome)
  PROVE  RecordsInv'
<1> DEFINE rejected == [s.requests[r] EXCEPT !.status = "rejected"]
           requests == [s.requests EXCEPT ![r] = rejected]
           left == s.returns \ {r}
           t == [s EXCEPT !.requests = requests, !.returns = left]
<1>1. /\ s \in Service /\ Sound(s, basis) /\ Secrets(s)
      /\ Cardinality(Known(SweptStore)) <= MaxRecords
  BY OpenedSound
<1>2. s.requests[r] \in Request /\ r \in RequestIDs /\ s.requests[r].held
  BY <1>1, HeldShape
<1>3. /\ rejected \in Request /\ rejected.held
      /\ rejected.invitation = s.requests[r].invitation
      /\ rejected.grant = s.requests[r].grant
  BY <1>2, RequestStatus, RequestDecided
<1> HIDE DEF rejected
<1>4. /\ requests \in [RequestIDs -> Request \cup {NoRecord}]
      /\ \A q \in RequestIDs : requests[q] = IF q = r THEN rejected ELSE s.requests[q]
  BY <1>1, <1>3, ServiceShape
<1>5. left \in SUBSET RequestIDs
  BY <1>1, ServiceShape
<1> HIDE DEF requests, left
<1>6. /\ t \in Service /\ t.invitations = s.invitations /\ t.requests = requests
      /\ t.grants = s.grants /\ t.returns = left
  BY <1>1, <1>4, <1>5 DEF Service
<1> HIDE DEF t
<1>7. SameRecords(t, s)
  BY <1>2, <1>3, <1>4, <1>6 DEF SameRecords
<1>8. Secrets(t)
  <2>1. Live(t) = Live(s)
    BY <1>6 DEF Live
  <2>2. \A q \in left : q \in s.returns /\ q # r /\ q \in RequestIDs
    BY <1>5 DEF left
  <2>3. ASSUME NEW q \in left PROVE Kept(t, q)
    <3>1. Kept(s, q) /\ t.requests[q] = s.requests[q]
      BY <1>1, <1>4, <1>6, <2>2 DEF Secrets
    <3> QED
      BY <2>1, <3>1 DEF Kept
  <2> QED
    BY <1>6, <2>3 DEF Secrets
<1>9. SaveOver(disk, t, outcome) /\ basis' = basis /\ store' = SweptStore
  BY DEF Reject, Save, past, t, requests, rejected, left
<1>10. Sound(t, basis)
  BY <1>1, <1>6, <1>7, SameSound
<1> QED
  BY <1>1, <1>8, <1>9, <1>10, SavedRecords DEF RecordsInv

(* What a cancellation may do to the invitations and the requests.         *)
Spent(invitations, s) ==
  \A j \in InvitationIDs :
    /\ invitations[j].held <=> s.invitations[j].held
    /\ s.invitations[j].held =>
         /\ invitations[j].until = s.invitations[j].until
         /\ invitations[j].duration = s.invitations[j].duration

Decided(requests, returns, s) ==
  \A q \in RequestIDs :
    /\ requests[q].held <=> s.requests[q].held
    /\ s.requests[q].held =>
         /\ requests[q].invitation = s.requests[q].invitation
         /\ requests[q].grant = s.requests[q].grant
    /\ q \in returns => requests[q] = s.requests[q]

(* Both cancellations: grants are revoked, and of the requests that lose   *)
(* their pending status none keeps a return invitation.                    *)
LEMMA CancelledRecords ==
  ASSUME RecordsInv, SpendInv', NEW s \in Opened, NEW gs \in SUBSET GrantIDs,
         \A g \in gs \cap Live(s) : Revocable(s, g), MovesOn,
         store' = RevokedAll(SweptStore, s, gs), basis' = basis, NEW outcome,
         NEW invitations \in [InvitationIDs -> Invitation \cup {NoRecord}],
         NEW requests \in [RequestIDs -> Request \cup {NoRecord}],
         NEW returns \in SUBSET RevokedIn(s, gs).returns,
         Spent(invitations, s), Decided(requests, returns, s),
         SaveOver(Written(s, gs),
                  [RevokedIn(s, gs) EXCEPT !.invitations = invitations,
                     !.requests = requests, !.returns = returns], outcome)
  PROVE  RecordsInv'
<1> DEFINE over == RevokedIn(s, gs)
           t == [over EXCEPT !.invitations = invitations,
                   !.requests = requests, !.returns = returns]
<1>1. /\ TypeInv /\ s \in Service /\ Advanceable(s) /\ Sound(s, basis) /\ Secrets(s)
      /\ Chained(s, basis) /\ Cardinality(Known(SweptStore)) <= MaxRecords
  BY OpenedSound DEF Sound
<1>2. over \in Service /\ Advanceable(over) /\ SameRecords(over, s)
  BY <1>1, RevokedType, RevokedSame
<1>3. Sound(over, basis) /\ Secrets(over)
  BY <1>1, <1>2, SameSound, RevokedSecrets
<1>4. over.invitations = s.invitations /\ over.requests = s.requests
  BY <1>1, RevokedFields
<1> HIDE DEF over
<1>5. returns \in SUBSET RequestIDs
  BY <1>2, ServiceShape DEF over
<1>6. /\ t \in Service /\ t.invitations = invitations /\ t.requests = requests
      /\ t.grants = over.grants /\ t.returns = returns
  BY <1>2, <1>5 DEF Service
<1> HIDE DEF t
<1>7. SameRecords(t, over)
  BY <1>4, <1>6 DEF SameRecords, Spent, Decided
<1>8. Sound(t, basis)
  BY <1>3, <1>6, <1>7, SameSound
<1>9. Secrets(t)
  <2>1. Live(t) = Live(over)
    BY <1>6 DEF Live
  <2>2. ASSUME NEW q \in returns PROVE Kept(t, q)
    <3>1. Kept(over, q) /\ t.requests[q] = over.requests[q]
      BY <1>3, <1>4, <1>5, <1>6 DEF Secrets, Decided, over
    <3> QED
      BY <2>1, <3>1 DEF Kept
  <2> QED
    BY <1>6, <2>2 DEF Secrets
<1>10. Cardinality(Known(store')) <= MaxRecords
  BY <1>1, OpenedType, KnownRevoked DEF Revocable, Matches
<1>11. Sound(Written(s, gs), basis) /\ Written(s, gs).returns = {}
  BY <1>1, MovedTime, WrittenSound
<1>12. SaveOver(Written(s, gs), t, outcome)
  BY DEF t, over
<1> QED
  BY <1>8, <1>9, <1>10, <1>11, <1>12, SavedRecords

LEMMA InvitationSpent ==
  ASSUME NEW x \in Invitation
  PROVE  LET new == [x EXCEPT !.used = TRUE]
         IN /\ new \in Invitation /\ new.held /\ x.held
            /\ new.until = x.until /\ new.duration = x.duration
BY DEF Invitation

LEMMA CancelInvitationRecords ==
  ASSUME RecordsInv, SpendInv', NEW s \in Opened, NEW i \in InvitationIDs, NEW outcome,
         CancelInvitation(s, i, outcome)
  PROVE  RecordsInv'
<1> DEFINE rs == RequestsOn(s, i)
           gs == GrantsOf(s, rs)
           over == RevokedIn(s, gs)
           invitations == [j \in InvitationIDs |->
                             IF j = i /\ s.invitations[i].held
                             THEN [s.invitations[i] EXCEPT !.used = TRUE]
                             ELSE s.invitations[j]]
           requests == [r \in RequestIDs |->
                          IF r \in rs \cap Pending(s)
                          THEN [s.requests[r] EXCEPT !.status = "rejected"]
                          ELSE s.requests[r]]
           left == over.returns \ rs
<1>1. s \in Service /\ Advanceable(s)
  BY OpenedSound
<1>2. gs \in SUBSET GrantIDs
  BY <1>1, HeldShape DEF GrantsOf
<1>3. ASSUME NEW j \in InvitationIDs
      PROVE  /\ invitations[j] \in Invitation \cup {NoRecord}
             /\ invitations[j].held <=> s.invitations[j].held
             /\ s.invitations[j].held =>
                  /\ invitations[j].until = s.invitations[j].until
                  /\ invitations[j].duration = s.invitations[j].duration
  <2>1. CASE j = i /\ s.invitations[i].held
    <3>1. s.invitations[j] \in Invitation
      BY <1>1, <2>1, HeldShape
    <3>2. invitations[j] = [s.invitations[j] EXCEPT !.used = TRUE]
      BY <2>1
    <3> HIDE DEF invitations
    <3> QED
      BY <3>1, <3>2, InvitationSpent
  <2>2. CASE ~(j = i /\ s.invitations[i].held)
    <3>1. invitations[j] = s.invitations[j]
      BY <2>2
    <3> HIDE DEF invitations
    <3> QED
      BY <1>1, <3>1, ServiceShape
  <2> QED
    BY <2>1, <2>2
<1>4. ASSUME NEW q \in RequestIDs
      PROVE  /\ requests[q] \in Request \cup {NoRecord}
             /\ requests[q].held <=> s.requests[q].held
             /\ s.requests[q].held =>
                  /\ requests[q].invitation = s.requests[q].invitation
                  /\ requests[q].grant = s.requests[q].grant
             /\ q \in left => requests[q] = s.requests[q]
  <2>1. CASE q \in rs \cap Pending(s)
    <3>1. s.requests[q] \in Request /\ s.requests[q].held
      BY <1>1, <2>1, HeldShape DEF Pending
    <3>2. requests[q] = [s.requests[q] EXCEPT !.status = "rejected"] /\ q \notin left
      BY <2>1
    <3>3. LET rejected == [s.requests[q] EXCEPT !.status = "rejected"]
          IN /\ rejected \in Request /\ rejected.held
             /\ rejected.invitation = s.requests[q].invitation
             /\ rejected.grant = s.requests[q].grant
      BY <3>1, RequestStatus, RequestDecided
    <3> HIDE DEF requests, left
    <3> QED
      BY <3>1, <3>2, <3>3
  <2>2. CASE q \notin rs \cap Pending(s)
    <3>1. requests[q] = s.requests[q]
      BY <2>2
    <3> HIDE DEF requests
    <3> QED
      BY <1>1, <3>1, ServiceShape
  <2> QED
    BY <2>1, <2>2
<1>5. /\ invitations \in [InvitationIDs -> Invitation \cup {NoRecord}]
      /\ requests \in [RequestIDs -> Request \cup {NoRecord}]
      /\ left \in SUBSET over.returns
  BY <1>3, <1>4
<1>6. /\ SaveOver(Written(s, gs),
                  [over EXCEPT !.invitations = invitations,
                     !.requests = requests, !.returns = left], outcome)
      /\ basis' = basis /\ MovesOn /\ store' = RevokedAll(SweptStore, s, gs)
      /\ \A g \in gs \cap Live(s) : Revocable(s, g)
  BY DEF CancelInvitation
<1>7. Spent(invitations, s)
  <2> HIDE DEF invitations
  <2> QED
    BY <1>3 DEF Spent
<1>8. Decided(requests, left, s)
  <2> HIDE DEF requests, left
  <2> QED
    BY <1>4 DEF Decided
<1> HIDE DEF gs, invitations, requests, left
<1> QED
  BY <1>2, <1>5, <1>6, <1>7, <1>8, CancelledRecords

LEMMA CancelRequestRecords ==
  ASSUME RecordsInv, SpendInv', NEW s \in Opened, NEW r \in Held(s.requests),
         NEW outcome, CancelRequest(s, r, outcome)
  PROVE  RecordsInv'
<1> DEFINE gs == GrantsOf(s, {r})
           over == RevokedIn(s, gs)
           rejected == [s.requests[r] EXCEPT !.status = "rejected"]
           requests == [s.requests EXCEPT ![r] = rejected]
           left == over.returns \ {r}
<1>1. s \in Service /\ Advanceable(s)
  BY OpenedSound
<1>2. gs \in SUBSET GrantIDs
  BY <1>1, HeldShape DEF GrantsOf
<1>3. over \in Service /\ over.invitations = s.invitations
  BY <1>1, <1>2, RevokedType, RevokedFields
<1>4. /\ s.requests[r] \in Request /\ r \in RequestIDs /\ s.requests[r].held
      /\ s.requests \in [RequestIDs -> Request \cup {NoRecord}]
  BY <1>1, HeldShape, ServiceShape
<1>5. /\ rejected \in Request /\ rejected.held
      /\ rejected.invitation = s.requests[r].invitation
      /\ rejected.grant = s.requests[r].grant
  BY <1>4, RequestStatus, RequestDecided
<1>6. /\ SaveOver(Written(s, gs),
                  [over EXCEPT !.requests = requests, !.returns = left], outcome)
      /\ basis' = basis /\ MovesOn /\ store' = RevokedAll(SweptStore, s, gs)
      /\ \A g \in gs \cap Live(s) : Revocable(s, g)
  BY DEF CancelRequest
<1> HIDE DEF rejected
<1>7. /\ requests \in [RequestIDs -> Request \cup {NoRecord}]
      /\ \A q \in RequestIDs : requests[q] = IF q = r THEN rejected ELSE s.requests[q]
  BY <1>4, <1>5
<1>8. left \in SUBSET over.returns /\ r \notin left
  OBVIOUS
<1> HIDE DEF gs, requests, left
<1>9. [over EXCEPT !.requests = requests, !.returns = left]
        = [over EXCEPT !.invitations = over.invitations,
                       !.requests = requests, !.returns = left]
  BY <1>3 DEF Service
<1>10. s.invitations \in [InvitationIDs -> Invitation \cup {NoRecord}]
  BY <1>1, ServiceShape
<1>11. SaveOver(Written(s, gs),
                [RevokedIn(s, gs) EXCEPT !.invitations = s.invitations,
                   !.requests = requests, !.returns = left], outcome)
  BY <1>3, <1>6, <1>9
<1>12. Spent(s.invitations, s) /\ Decided(requests, left, s)
  BY <1>4, <1>5, <1>7, <1>8 DEF Spent, Decided
<1>13. requests \in [RequestIDs -> Request \cup {NoRecord}]
  BY <1>7
<1> QED
  BY <1>2, <1>6, <1>8, <1>10, <1>11, <1>12, <1>13, CancelledRecords

(* A join request: it has no grant yet, and nothing names it so far.       *)
LEMMA RedeemRecords ==
  ASSUME RecordsInv, SpendInv', NEW s \in Opened, NEW i \in Held(s.invitations),
         NEW r \in RequestIDs, NEW returns \in BOOLEAN, NEW outcome,
         Redeem(s, i, r, returns, outcome)
  PROVE  RecordsInv'
<1> DEFINE spent == [s.invitations[i] EXCEPT !.used = TRUE]
           invitations == [s.invitations EXCEPT ![i] = spent]
           asked == [held |-> TRUE, invitation |-> i, status |-> "pending",
                     until |-> s.invitations[i].until, grant |-> None]
           requests == [s.requests EXCEPT ![r] = asked]
           left == IF returns THEN s.returns \cup {r} ELSE s.returns
           t == [s EXCEPT !.invitations = invitations, !.requests = requests,
                          !.returns = left]
<1>1. /\ TypeInv /\ s \in Service /\ Sound(s, basis) /\ Secrets(s)
      /\ Chained(s, basis) /\ Fits(s) /\ Traced(s, origin)
      /\ Cardinality(Known(SweptStore)) <= MaxRecords
  BY OpenedSound DEF Sound
<1>2. s.invitations[i] \in Invitation /\ i \in InvitationIDs
  BY <1>1, HeldShape
<1>3. /\ spent \in Invitation /\ spent.held /\ s.invitations[i].held
      /\ spent.until = s.invitations[i].until
      /\ spent.duration = s.invitations[i].duration
  BY <1>2, InvitationSpent
<1>4. asked \in Request /\ asked.held = TRUE /\ asked.invitation = i
      /\ asked.grant = None /\ asked.status = "pending"
  BY <1>2 DEF Invitation, Request
<1>5. ~s.requests[r].held
  BY <1>1, NamesAreIDs, Constants DEF Redeem, Traced
<1> HIDE DEF spent, asked
<1>6. /\ invitations \in [InvitationIDs -> Invitation \cup {NoRecord}]
      /\ requests \in [RequestIDs -> Request \cup {NoRecord}]
      /\ left \in SUBSET RequestIDs
      /\ \A j \in InvitationIDs :
           invitations[j] = IF j = i THEN spent ELSE s.invitations[j]
      /\ \A q \in RequestIDs : requests[q] = IF q = r THEN asked ELSE s.requests[q]
      /\ \A q \in left : q = r \/ q \in s.returns
  BY <1>1, <1>2, <1>3, <1>4, ServiceShape
<1> HIDE DEF invitations, requests, left
<1>7. /\ t \in Service /\ t.invitations = invitations /\ t.requests = requests
      /\ t.grants = s.grants /\ t.returns = left
  BY <1>1, <1>6 DEF Service
<1> HIDE DEF t
<1>8. \A j \in InvitationIDs :
        /\ t.invitations[j].held <=> s.invitations[j].held
        /\ t.invitations[j].until = s.invitations[j].until
        /\ t.invitations[j].duration = s.invitations[j].duration
  BY <1>3, <1>6, <1>7
<1>9. \A q \in RequestIDs : s.requests[q].held =>
        /\ t.requests[q] = s.requests[q] /\ s.requests[q].invitation \in InvitationIDs
  BY <1>1, <1>5, <1>6, <1>7, NamesAreIDs
<1>10. Chained(t, basis)
  <2>1. ASSUME NEW q \in RequestIDs, t.requests[q].held
        PROVE  RequestChained(t, basis, q)
    <3>1. CASE q = r
      BY <1>2, <1>3, <1>4, <1>6, <1>7, <1>8, <3>1 DEF RequestChained
    <3>2. CASE q # r
      <4>1. t.requests[q] = s.requests[q] /\ RequestChained(s, basis, q)
            /\ s.requests[q].invitation \in InvitationIDs
        BY <1>1, <1>6, <1>7, <1>9, <2>1, <3>2 DEF Chained
      <4> QED
        BY <1>8, <4>1 DEF RequestChained
    <3> QED
      BY <3>1, <3>2
  <2>2. ASSUME NEW g \in GrantIDs, t.grants[g].held PROVE GrantChained(t, basis, g)
    <3>1. GrantChained(s, basis, g) /\ s.grants[g].request \in RequestIDs
      BY <1>1, <1>7, <2>2, NamesAreIDs DEF Chained
    <3>2. s.requests[s.grants[g].request].held
      BY <3>1 DEF GrantChained
    <3>3. /\ t.requests[s.grants[g].request] = s.requests[s.grants[g].request]
          /\ s.requests[s.grants[g].request].invitation \in InvitationIDs
      BY <1>9, <3>1, <3>2
    <3> DEFINE q == s.grants[g].request
               j == s.requests[q].invitation
    <3>4. /\ t.grants[g].request = q /\ t.grants[g].until = s.grants[g].until
          /\ t.requests[q] = s.requests[q]
          /\ t.invitations[j].until = s.invitations[j].until
          /\ t.invitations[j].duration = s.invitations[j].duration
      BY <1>7, <1>8, <3>3
    <3> QED
      BY <3>1, <3>4 DEF GrantChained
  <2> QED
    BY <2>1, <2>2 DEF Chained
<1>11. Fits(t)
  <2>1. /\ Held(t.invitations) = Held(s.invitations)
        /\ Held(t.requests) \subseteq Held(s.requests) \cup {r}
        /\ Held(t.grants) = Held(s.grants)
    <3>1. Held(t.invitations) = Held(s.invitations)
      <4>1. Held(t.invitations) = {j \in InvitationIDs : t.invitations[j].held}
        BY <1>7, HeldShape
      <4>2. Held(s.invitations) = {j \in InvitationIDs : s.invitations[j].held}
        BY <1>1, HeldShape
      <4>3. \A j \in InvitationIDs : t.invitations[j].held <=> s.invitations[j].held
        BY <1>8
      <4> QED
        BY <4>1, <4>2, <4>3
    <3>2. \A q \in RequestIDs : t.requests[q].held => q = r \/ s.requests[q].held
      BY <1>6, <1>7
    <3>3. Held(t.requests) \subseteq Held(s.requests) \cup {r}
      BY <1>1, <1>7, <3>2, HeldShape
    <3> QED
      BY <1>7, <3>1, <3>3
  <2>2. Cardinality(Held(s.requests)) < MaxRecords
    BY DEF Redeem
  <2>3. Cardinality(Held(t.requests)) <= MaxRecords
    <3>1. IsFiniteSet(Held(s.requests)) /\ MaxRecords \in Nat
      BY <1>1, HeldFinite, Constants
    <3> QED
      BY <2>1, <2>2, <3>1, OneMoreCount
  <2> QED
    BY <1>1, <2>1, <2>3 DEF Fits
<1>12. Secrets(t)
  <2>1. Live(t) = Live(s)
    BY <1>7 DEF Live
  <2>2. ASSUME NEW q \in left PROVE Kept(t, q)
    <3>1. CASE q = r
      BY <1>4, <1>6, <1>7, <3>1 DEF Kept
    <3>2. CASE q # r
      <4>1. Kept(s, q) /\ q \in RequestIDs
        BY <1>1, <1>6, <3>2 DEF Secrets
      <4>2. t.requests[q] = s.requests[q]
        BY <1>6, <1>7, <3>2, <4>1
      <4> QED
        BY <2>1, <4>1, <4>2 DEF Kept
    <3> QED
      BY <3>1, <3>2
  <2> QED
    BY <1>7, <2>2 DEF Secrets
<1>13. SaveOver(disk, t, outcome) /\ basis' = basis /\ store' = SweptStore
  BY DEF Redeem, Save, t, invitations, spent, requests, asked, left
<1> QED
  BY <1>1, <1>7, <1>10, <1>11, <1>12, <1>13, SavedRecords DEF Sound, RecordsInv

(* The policy store starts empty and the journal has no return invitation. *)
LEMMA RestartRecords ==
  ASSUME RecordsInv, SpendInv', NEW outcome, Restart(outcome)
  PROVE  RecordsInv'
<1> DEFINE t == Restarted(disk)
<1>1. /\ disk \in Service /\ Advanceable(disk)
      /\ Sound(disk, basis) /\ disk.returns = {} /\ basis' = basis
  BY TypeParts DEF RecordsInv, SpendInv, ConsentType, Restart, past
<1>2. t \in Service /\ SameRecords(t, disk) /\ t.returns = {}
  BY <1>1, RestartedType, RestartedFields, RestartedSame
<1>3. Sound(t, basis)
  BY <1>1, <1>2, SameSound
<1> HIDE DEF t
<1>4. Secrets(t)
  BY <1>2 DEF Secrets
<1>5. Cardinality(Known(store')) <= MaxRecords
  <2>1. Known(store') = {}
    BY DEF Restart, EmptyStore, Known, NoRecord
  <2> QED
    BY <2>1, NoneCount, Constants
<1>6. CASE disk.last <= clock
  BY <1>1, <1>3, <1>4, <1>5, <1>6, SavedRecords DEF Restart, Save, t
<1>7. CASE ~(disk.last <= clock)
  <2>1. svc' = t /\ disk' = disk
    BY <1>7 DEF Restart, t
  <2> QED
    BY <1>1, <1>3, <1>4, <1>5, <2>1 DEF RecordsInv, Secrets, Kept, Live, Held, Sound,
       Chained, GrantChained, RequestChained, Fits, Known
<1> QED
  BY <1>6, <1>7

(* A grant that was never given is named by nothing.                       *)
LEMMA GivenAnew ==
  ASSUME NEW s, Sound(s, basis), NEW g \in GrantIDs, basis[g] = None, NEW r,
         basis \in [GrantIDs -> RequestIDs \cup {None}]
  PROVE  Sound(s, [basis EXCEPT ![g] = r])
<1> DEFINE given == [basis EXCEPT ![g] = r]
<1>1. s \in Service /\ Chained(s, basis) /\ Fits(s)
  BY DEF Sound
<1>2. \A h \in GrantIDs : h # g => given[h] = basis[h]
  OBVIOUS
<1> HIDE DEF given
<1>3. ASSUME NEW h \in GrantIDs, s.grants[h].held PROVE GrantChained(s, given, h)
  <2>1. GrantChained(s, basis, h) /\ s.grants[h].request \in RequestIDs
    BY <1>1, <1>3, NamesAreIDs DEF Chained
  <2>2. h # g
    BY <2>1, Constants DEF GrantChained
  <2>3. given[h] = basis[h]
    BY <1>2, <2>2
  <2> QED
    BY <2>1, <2>3 DEF GrantChained
<1>4. ASSUME NEW q \in RequestIDs, s.requests[q].held PROVE RequestChained(s, given, q)
  <2>1. RequestChained(s, basis, q) /\ s.requests[q].grant \in GrantIDs \cup {None}
    BY <1>1, <1>4, NamesAreIDs DEF Chained
  <2>2. ASSUME s.requests[q].grant # None PROVE given[s.requests[q].grant] = q
    <3>1. s.requests[q].grant \in GrantIDs /\ basis[s.requests[q].grant] = q
      BY <2>1, <2>2 DEF RequestChained
    <3>2. s.requests[q].grant # g
      BY <3>1, Constants
    <3> QED
      BY <1>2, <3>1, <3>2
  <2> QED
    BY <2>1, <2>2 DEF RequestChained
<1> QED
  BY <1>1, <1>3, <1>4 DEF Sound, Chained, given

(* The limit of the grants: each has a request of its own, and the one     *)
(* that is being approved has none yet.                                    *)
LEMMA FewerGrants ==
  ASSUME NEW s, Sound(s, basis), NEW r \in Held(s.requests),
         \A h \in GrantIDs : basis[h] # r
  PROVE  Cardinality(Held(s.grants)) < MaxRecords
<1> DEFINE name == [q \in RequestIDs |-> s.requests[q].grant]
<1>1. s \in Service /\ Chained(s, basis) /\ Fits(s)
  BY DEF Sound
<1>2. ASSUME NEW h \in Held(s.grants)
      PROVE  \E q \in Held(s.requests) : q # r /\ name[q] = h
  <2>1. h \in GrantIDs /\ s.grants[h].held
    BY <1>1, HeldShape
  <2>2. GrantChained(s, basis, h) /\ s.grants[h].request \in RequestIDs
    BY <1>1, <2>1, NamesAreIDs DEF Chained
  <2> DEFINE q == s.grants[h].request
  <2>3. q \in Held(s.requests) /\ q # r /\ name[q] = h
    BY <1>1, <2>1, <2>2, HeldShape DEF GrantChained
  <2> HIDE DEF q, name
  <2> QED
    BY <2>3
<1> HIDE DEF name
<1>3. Cardinality(Held(s.grants)) < Cardinality(Held(s.requests))
  BY <1>1, <1>2, HeldFinite, NamedCount
<1>4. Cardinality(Held(s.grants)) \in Nat /\ Cardinality(Held(s.requests)) \in Nat
  BY <1>1, HeldFinite
<1> QED
  BY <1>1, <1>3, <1>4, Constants DEF Fits

(* An approval: the request and its grant name each other.                 *)
LEMMA ApproveRecords ==
  ASSUME RecordsInv, SpendInv', NEW s \in Opened, NEW r \in Held(s.requests),
         NEW g \in GrantIDs, NEW outcome, Approve(s, r, g, outcome)
  PROVE  RecordsInv'
<1> DEFINE st == Consented(s, r, g)
           i == s.requests[r].invitation
           decided == [s.requests[r] EXCEPT !.status = "approved", !.grant = g]
           requests == [s.requests EXCEPT ![r] = decided]
           grant == [held |-> TRUE, request |-> r, from |-> st[g].from,
                     until |-> st[g].until, status |-> "active",
                     revision |-> st[g].revision, allowed |-> st[g].allowed,
                     readAt |-> 0]
           grants == [s.grants EXCEPT ![g] = grant]
           t == [s EXCEPT !.requests = requests, !.grants = grants]
<1>1. /\ TypeInv /\ s \in Service /\ Advanceable(s) /\ Sound(s, basis) /\ Secrets(s)
      /\ Fresh(s, origin, basis)
  BY OpenedSound
<1>2. /\ s.requests[r] \in Request /\ r \in RequestIDs /\ s.requests[r].held
      /\ s.requests[r].status = "pending"
  BY <1>1, HeldShape DEF Approve, Approvable, Decidable, Pending
<1>3. /\ Approvable(s, r, g) /\ store' = st /\ SaveOver(disk, t, outcome)
      /\ basis[g] = None /\ basis' = [basis EXCEPT ![g] = r]
      /\ basis \in [GrantIDs -> RequestIDs \cup {None}]
  BY <1>1, TypeParts DEF Approve, Save, PastType
<1>4. /\ st[g] \in StoreGrant /\ st[g].revision = 1
      /\ i \in InvitationIDs /\ s.invitations[i] \in Invitation
      /\ st[g].until = clock' + s.invitations[i].duration
      /\ clock' \in Nat /\ clock' < s.invitations[i].until
      /\ i \in Held(s.invitations)
  BY <1>1, <1>3, ConsentedShape DEF Approvable
<1>5. Sound(s, basis') /\ Sound(disk, basis')
  BY <1>1, <1>2, <1>3, GivenAnew DEF RecordsInv
<1>6. (\A h \in GrantIDs : basis[h] # r) /\ basis'[g] = r
  BY <1>1, <1>2, <1>3 DEF Fresh
<1>7. ~s.grants[g].held
  BY <1>1, <1>3, NamesAreIDs, Constants DEF Sound, Chained, GrantChained
<1>8. decided \in Request /\ decided.held = TRUE /\ decided.invitation = i
      /\ decided.grant = g
  BY <1>2 DEF Request
<1>9. /\ grant \in Grant /\ grant.held = TRUE /\ grant.request = r
      /\ grant.status = "active" /\ grant.until = st[g].until
  <2>1. st[g].from \in Nat /\ st[g].until \in Nat /\ st[g].allowed \in SUBSET Optional
    BY <1>4 DEF StoreGrant
  <2>2. 1 \in 1..(MaxRevision + 1) /\ 0 \in Nat
    BY Constants
  <2> HIDE DEF st
  <2> QED
    BY <1>2, <1>4, <2>1, <2>2 DEF Grant
<1>10. grant.until < s.invitations[i].until + s.invitations[i].duration
  <2>1. s.invitations[i].until \in Nat /\ s.invitations[i].duration \in Nat
    BY <1>4, Constants DEF Invitation
  <2> HIDE DEF i, st, grant
  <2> QED
    BY <1>4, <1>9, <2>1
<1> HIDE DEF st, decided, grant
<1>11. /\ requests \in [RequestIDs -> Request \cup {NoRecord}]
       /\ grants \in [GrantIDs -> Grant \cup {NoRecord}]
       /\ \A q \in RequestIDs : requests[q] = IF q = r THEN decided ELSE s.requests[q]
       /\ \A h \in GrantIDs : grants[h] = IF h = g THEN grant ELSE s.grants[h]
  BY <1>1, <1>8, <1>9, ServiceShape
<1> HIDE DEF requests, grants
<1>12. /\ t \in Service /\ t.invitations = s.invitations /\ t.requests = requests
       /\ t.grants = grants /\ t.returns = s.returns
  BY <1>1, <1>11 DEF Service
<1> HIDE DEF t
<1>13. Chained(s, basis')
  BY <1>5 DEF Sound
<1>14. ASSUME NEW h \in GrantIDs, t.grants[h].held PROVE GrantChained(t, basis', h)
  <2>1. CASE h = g
    <3>1. /\ t.grants[g] = grant /\ t.requests[r] = decided
          /\ t.invitations[i] = s.invitations[i]
      BY <1>2, <1>11, <1>12
    <3> HIDE DEF i
    <3> QED
      BY <1>6, <1>8, <1>9, <1>10, <2>1, <3>1 DEF GrantChained
  <2>2. CASE h # g
    <3> DEFINE q == s.grants[h].request
    <3>1. t.grants[h] = s.grants[h] /\ GrantChained(s, basis', h) /\ q \in RequestIDs
      BY <1>1, <1>11, <1>12, <1>13, <1>14, <2>2, NamesAreIDs DEF Chained
    <3>2. basis'[h] = q /\ basis'[h] = basis[h]
      BY <1>3, <2>2, <3>1 DEF GrantChained
    <3>3. t.requests[q] = s.requests[q]
      BY <1>6, <1>11, <1>12, <3>1, <3>2
    <3> QED
      BY <1>12, <3>1, <3>3 DEF GrantChained
  <2> QED
    BY <2>1, <2>2
<1>15. ASSUME NEW q \in RequestIDs, t.requests[q].held PROVE RequestChained(t, basis', q)
  <2>1. CASE q = r
    <3>1. t.requests[r] = decided /\ s.invitations[i].held
      BY <1>1, <1>2, <1>4, <1>11, <1>12, HeldShape
    <3> QED
      BY <1>6, <1>8, <1>12, <2>1, <3>1 DEF RequestChained
  <2>2. CASE q # r
    <3>1. t.requests[q] = s.requests[q] /\ RequestChained(s, basis', q)
      BY <1>11, <1>12, <1>13, <1>15, <2>2 DEF Chained
    <3> QED
      BY <1>12, <3>1 DEF RequestChained
  <2> QED
    BY <2>1, <2>2
<1>16. Fits(t)
  <2>1. Held(t.requests) \subseteq Held(s.requests)
    <3>1. \A q \in RequestIDs : t.requests[q].held => s.requests[q].held
      BY <1>2, <1>11, <1>12
    <3> QED
      BY <1>1, <1>12, <3>1, HeldShape
  <2>2. Held(t.grants) \subseteq Held(s.grants) \cup {g}
    <3>1. \A h \in GrantIDs : t.grants[h].held => h = g \/ s.grants[h].held
      BY <1>11, <1>12
    <3> QED
      BY <1>1, <1>12, <3>1, HeldShape
  <2>3. Cardinality(Held(t.grants)) <= MaxRecords
    <3>1. Cardinality(Held(s.grants)) < MaxRecords
      BY <1>1, <1>6, FewerGrants
    <3>2. IsFiniteSet(Held(s.grants)) /\ MaxRecords \in Nat
      BY <1>1, HeldFinite, Constants
    <3> QED
      BY <2>2, <3>1, <3>2, OneMoreCount
  <2>4. Cardinality(Held(t.requests)) <= MaxRecords
    <3>1. /\ Cardinality(Held(t.requests)) <= Cardinality(Held(s.requests))
          /\ Cardinality(Held(t.requests)) \in Nat
          /\ Cardinality(Held(s.requests)) \in Nat
      BY <1>1, <2>1, HeldFinite, FewerCount
    <3> QED
      BY <1>1, <3>1, Constants DEF Sound, Fits
  <2> QED
    BY <1>1, <1>12, <2>3, <2>4 DEF Sound, Fits
<1>17. Secrets(t)
  <2>1. Live(s) \cup {g} \subseteq Live(t)
    <3>1. \A h \in GrantIDs : s.grants[h].held => t.grants[h] = s.grants[h]
      BY <1>7, <1>11, <1>12
    <3>2. t.grants[g] = grant
      BY <1>11, <1>12
    <3> QED
      BY <1>1, <1>9, <1>12, <3>1, <3>2, HeldShape DEF Live
  <2>2. ASSUME NEW q \in s.returns PROVE Kept(t, q)
    <3>1. Kept(s, q) /\ q \in RequestIDs
      BY <1>1, ServiceShape DEF Secrets
    <3>2. CASE q = r
      BY <1>8, <1>11, <1>12, <2>1, <3>1, <3>2 DEF Kept
    <3>3. CASE q # r
      BY <1>11, <1>12, <2>1, <3>1, <3>3 DEF Kept
    <3> QED
      BY <3>2, <3>3
  <2> QED
    BY <1>12, <2>2 DEF Secrets
<1>18. Cardinality(Known(store')) <= MaxRecords
  BY <1>1, <1>3, KnownConsented DEF st
<1>19. Sound(t, basis')
  BY <1>12, <1>14, <1>15, <1>16 DEF Sound, Chained
<1>20. SaveOver(disk, t, outcome)
  BY <1>3
<1> QED
  BY <1>5, <1>17, <1>18, <1>19, <1>20, SavedRecords DEF RecordsInv

(* The expiry is brought forward, never put back.                          *)
LEMMA RestrictGrantRecords ==
  ASSUME RecordsInv, AgreeInv, SpendInv', NEW s \in Opened, NEW g \in Live(s),
         NEW outcome, RestrictGrant(s, g, outcome)
  PROVE  RecordsInv'
<1> DEFINE x == store'[g]
           restricted == [s.grants[g] EXCEPT !.revision = x.revision,
                            !.until = x.until, !.allowed = x.allowed]
           grants == [s.grants EXCEPT ![g] = restricted]
           t == [s EXCEPT !.grants = grants]
<1>1. /\ s \in Service /\ Advanceable(s) /\ Sound(s, basis) /\ Secrets(s)
      /\ Chained(s, basis) /\ Fits(s)
      /\ Agree(s, SweptStore) /\ SweptStore \in StoreType
      /\ Cardinality(Known(SweptStore)) <= MaxRecords
  BY OpenedSound, OpenedAgree DEF Sound
<1>2. PICK allowed \in SUBSET Optional, until \in 1..(MaxTime + MaxGrantLifetime) :
        /\ MayRestrict(SweptStore, g, s.grants[g].revision, allowed, until, clock')
        /\ store' = Restrict(SweptStore, g, allowed, until, clock')
  BY DEF RestrictGrant
<1>3. /\ g \in GrantIDs /\ s.grants[g] \in Grant /\ IsLive(s, g) /\ s.grants[g].held
      /\ s.grants[g].until \in Nat
  BY <1>1, LiveShape, LiveIsLive, GrantNumbers
<1>4. /\ g \in Known(SweptStore) /\ SweptStore[g] \in StoreGrant
      /\ SweptStore[g].until = s.grants[g].until
  BY <1>1, <1>3, StoreShape DEF Agree, SameTerms
<1>5. x.until = until /\ until <= s.grants[g].until /\ until \in Nat
  <2>1. ASSUME NEW y \in StoreGrant, NEW n, NEW a, NEW u, NEW now
        PROVE  [y EXCEPT !.revision = n, !.allowed = a, !.until = u,
                         !.server = now].until = u
    BY DEF StoreGrant
  <2>2. x = [SweptStore[g] EXCEPT !.revision = SweptStore[g].revision + 1,
               !.allowed = allowed, !.until = until, !.server = clock']
    BY <1>1, <1>2, <1>3 DEF Restrict, StoreType
  <2>3. until <= s.grants[g].until /\ until \in Nat
    BY <1>2, <1>4 DEF MayRestrict
  <2> HIDE DEF x
  <2> QED
    BY <1>4, <2>1, <2>2, <2>3
<1>6. /\ restricted.held = TRUE /\ restricted.request = s.grants[g].request
      /\ restricted.until = until /\ restricted.status = s.grants[g].status
  <2>1. ASSUME NEW y \in Grant, NEW n, NEW u, NEW a
        PROVE  LET z == [y EXCEPT !.revision = n, !.until = u, !.allowed = a]
               IN /\ z.held = TRUE /\ z.request = y.request
                  /\ z.until = u /\ z.status = y.status
    BY DEF Grant
  <2> HIDE DEF x
  <2> QED
    BY <1>3, <1>5, <2>1
<1> HIDE DEF x, restricted
<1>7. /\ DOMAIN grants = GrantIDs
      /\ \A h \in GrantIDs :
           grants[h] = IF h = g THEN restricted ELSE s.grants[h]
  BY <1>1, ServiceShape
<1> HIDE DEF grants
<1>8. /\ t.invitations = s.invitations /\ t.requests = s.requests
      /\ t.grants = grants /\ t.returns = s.returns
  BY <1>1 DEF Service
<1>9. SaveOver(disk, t, outcome) /\ basis' = basis
  BY DEF RestrictGrant, RestrictedIn, Save, past, t, grants, restricted, x
<1>10. t \in Service
  <2>1. svc' = [t EXCEPT !.last = clock'] /\ svc' \in Service
    BY <1>9, TypePartsNext DEF SaveOver, SpendInv, ConsentType
  <2>2. svc'.grants = grants
    <3>1. ASSUME NEW b
          PROVE  [[s EXCEPT !.grants = b] EXCEPT !.last = clock'].grants = b
      BY <1>1 DEF Service
    <3> QED
      BY <2>1, <3>1
  <2>3. grants \in [GrantIDs -> Grant \cup {NoRecord}]
    BY <2>1, <2>2, ServiceShape
  <2> QED
    BY <1>1, <2>3 DEF Service
<1> HIDE DEF t
<1>11. ASSUME NEW h \in GrantIDs, t.grants[h].held PROVE GrantChained(t, basis, h)
  <2> DEFINE q == s.grants[h].request
             i == s.requests[q].invitation
  <2>1. /\ s.grants[h].held /\ t.grants[h].request = q
        /\ h = g => t.grants[h].until = until
        /\ h # g => t.grants[h].until = s.grants[h].until
    BY <1>3, <1>6, <1>7, <1>8, <1>11
  <2>2. GrantChained(s, basis, h) /\ q \in RequestIDs
    BY <1>1, <2>1, NamesAreIDs DEF Chained
  <2>3. /\ s.grants[h].until < s.invitations[i].until + s.invitations[i].duration
        /\ basis[h] = q /\ s.requests[q].held /\ s.requests[q].grant = h
    BY <2>2 DEF GrantChained
  <2>4. s.invitations[i].until \in Nat /\ s.invitations[i].duration \in Nat
    <3>1. i \in InvitationIDs /\ s.invitations[i].held
      BY <1>1, <2>2, <2>3, NamesAreIDs DEF Chained, RequestChained
    <3> HIDE DEF i
    <3>2. i \in Held(s.invitations)
      BY <1>1, <3>1, HeldShape
    <3>3. s.invitations[i] \in Invitation
      BY <1>1, <3>2, HeldShape
    <3> QED
      BY <3>3, Constants DEF Invitation
  <2>5. t.grants[h].until < s.invitations[i].until + s.invitations[i].duration
    <3> DEFINE n == s.invitations[i].until + s.invitations[i].duration
    <3>1. \A a, b \in Nat : a + b \in Nat
      OBVIOUS
    <3>2. s.grants[h].until < n /\ n \in Nat
      BY <2>3, <2>4, <3>1
    <3>4. s.grants[h].until \in Nat
      BY <1>1, <2>1, HeldShape DEF Grant
    <3> HIDE DEF n, i, q
    <3>3. t.grants[h].until < n
      BY <1>3, <1>5, <2>1, <3>2, <3>4
    <3> QED
      BY <3>3 DEF n
  <2> QED
    BY <1>8, <2>1, <2>3, <2>5 DEF GrantChained
<1>12. Chained(t, basis)
  BY <1>1, <1>8, <1>11 DEF Chained, RequestChained
<1>13. Fits(t)
  <2>1. \A h \in GrantIDs : t.grants[h].held => s.grants[h].held
    BY <1>3, <1>7, <1>8
  <2>2. Held(t.grants) \subseteq Held(s.grants)
    BY <1>1, <1>10, <2>1, HeldShape
  <2> QED
    BY <1>1, <1>8, <2>2, FewerFits
<1>14. Secrets(t)
  <2>1. Live(s) \subseteq Live(t)
    BY <1>1, <1>6, <1>7, <1>8, HeldShape DEF Live, Held
  <2> QED
    BY <1>1, <1>8, <2>1, SecretsKept
<1>15. Cardinality(Known(store')) <= MaxRecords
  BY <1>1, <1>2, <1>4, KnownSame DEF Restrict
<1> QED
  BY <1>9, <1>10, <1>12, <1>13, <1>14, <1>15, SavedRecords DEF Sound, RecordsInv

LEMMA SavingRecords ==
  ASSUME RecordsInv, AgreeInv, SpendInv', NEW s \in Opened, NEW outcome,
         Saving(s, outcome)
  PROVE  RecordsInv'
<1>1. ASSUME NEW r \in Readers, NEW i \in InvitationIDs,
             FinishInvite(s, r, i, outcome)
      PROVE  RecordsInv'
  BY <1>1, FinishInviteRecords
<1>2. ASSUME NEW i \in Held(s.invitations), NEW r \in RequestIDs,
             NEW returns \in ReturnOffers, Redeem(s, i, r, returns, outcome)
      PROVE  RecordsInv'
  <2>1. returns \in BOOLEAN
    BY ServiceLimits
  <2> QED
    BY <1>2, <2>1, RedeemRecords
<1>3. ASSUME NEW r \in Held(s.requests),
             \/ Reject(s, r, outcome) \/ CancelRequest(s, r, outcome)
             \/ \E g \in GrantIDs : Approve(s, r, g, outcome)
      PROVE  RecordsInv'
  BY <1>3, RejectRecords, CancelRequestRecords, ApproveRecords
<1>4. ASSUME NEW g \in Live(s),
             Stop(s, g, outcome) \/ RestrictGrant(s, g, outcome)
      PROVE  RecordsInv'
  BY <1>4, StopRecords, RestrictGrantRecords
<1>5. ASSUME NEW i \in InvitationIDs, CancelInvitation(s, i, outcome)
      PROVE  RecordsInv'
  BY <1>5, CancelInvitationRecords
<1> QED
  BY <1>1, <1>2, <1>3, <1>4, <1>5 DEF Saving

-----------------------------------------------------------------------------
(* The invariant, and what follows from it                                 *)

LEMMA RecordsInit == Init => RecordsInv
<1> SUFFICES ASSUME Init PROVE RecordsInv
  OBVIOUS
<1> DEFINE s == [NoConsent EXCEPT !.last = 1]
<1>1. SpendInv /\ svc = s /\ disk = s
  BY SpendInit DEF Init
<1>2. s \in Service
  BY <1>1, TypeParts DEF SpendInv, ConsentType
<1>3. /\ \A i \in InvitationIDs : ~s.invitations[i].held
      /\ \A q \in RequestIDs : ~s.requests[q].held
      /\ \A g \in GrantIDs : ~s.grants[g].held
      /\ s.returns = {}
  BY DEF NoConsent, NoRecord
<1> HIDE DEF s
<1>4. /\ Held(s.invitations) = {} /\ Held(s.requests) = {} /\ Held(s.grants) = {}
      /\ Known(store) = {}
  BY <1>2, <1>3, HeldShape DEF Init, EmptyStore, NoRecord, Known
<1>5. Fits(s) /\ Cardinality(Known(store)) <= MaxRecords
  BY <1>4, NoneCount, Constants DEF Fits
<1>6. Chained(s, basis) /\ Secrets(s)
  BY <1>3 DEF Chained, Secrets
<1> QED
  BY <1>1, <1>2, <1>3, <1>5, <1>6 DEF RecordsInv, Sound

LEMMA RecordsStep == RecordsInv /\ AgreeInv /\ [Next]_vars => RecordsInv'
<1> SUFFICES ASSUME RecordsInv, AgreeInv, [Next]_vars PROVE RecordsInv'
  OBVIOUS
<1>1. SpendInv' /\ svc \in Service /\ Sound(svc, basis) /\ Secrets(svc)
      /\ Cardinality(Known(store)) <= MaxRecords
  BY SpendStep, TypeParts DEF RecordsInv, SpendInv, ConsentType
<1>2. CASE UNCHANGED <<svc, disk, store, basis>>
  <2>1. SameRecords(svc', svc) /\ Secrets(svc')
    BY <1>1, <1>2, SameRecordsSame
  <2> QED
    BY <1>1, <1>2, <2>1, QuietRecords
<1>3. ASSUME NEW outcome \in Outcomes, Restart(outcome) PROVE RecordsInv'
  BY <1>1, <1>3, RestartRecords
<1>4. ASSUME NEW s \in Opened,
             Passing(s) \/ \E outcome \in Outcomes : Saving(s, outcome)
      PROVE  RecordsInv'
  BY <1>1, <1>4, PassingRecords, SavingRecords
<1>5. CASE Status
  <2>1. svc' = [svc EXCEPT !.last = clock] /\ UNCHANGED <<disk, store, basis>>
    BY <1>5 DEF Status, past
  <2>2. /\ svc'.returns = svc.returns /\ svc'.requests = svc.requests
        /\ svc'.grants = svc.grants
    BY <1>1, <2>1 DEF Service
  <2>3. Live(svc) \subseteq Live(svc')
    BY <2>2 DEF Live
  <2>4. SameRecords(svc', svc) /\ Secrets(svc')
    BY <1>1, <2>1, <2>2, <2>3, LastSame, SecretsKept
  <2> QED
    BY <1>1, <2>1, <2>4, QuietRecords
<1>6. CASE UNCHANGED <<svc, disk, store, past>>
  BY <1>2, <1>6 DEF past
<1> QED
  BY <1>3, <1>4, <1>5, <1>6 DEF Next, vars, consent, Tick, SetBack, Drive, Refuse,
     RouteSeen, RouteGone, SourceAnswers, AbandonShut

LEMMA RecordsAlways == Spec => []RecordsInv
BY RecordsInit, RecordsStep, AgreeAlways, PTL DEF Spec

(* createInvitationLocked counts before and again after the lock is given  *)
(* up, redeemLocked counts requests and store.Create its own grants:       *)
(* neither the service, nor its journal, nor the policy store ever holds   *)
(* more than the limit of any kind of record.                              *)
THEOREM CapacityHolds == Spec => []WithinCapacity
<1>1. RecordsInv => WithinCapacity
  BY DEF RecordsInv, Sound, Fits, WithinCapacity
<1> QED
  BY <1>1, RecordsAlways, PTL

(* expireLocked deletes a request after its grant and an invitation after  *)
(* its requests, so a grant is always reached by the records its guest and *)
(* its owner name; and decideRequestLocked gives it no longer than the     *)
(* expiry of the invitation and its duration.                              *)
THEOREM ReachableHolds == Spec => []ReachableConsent
<1>1. ASSUME NEW s, Sound(s, basis)
      PROVE  /\ \A g \in Held(s.grants) :
                  LET q == s.grants[g].request IN
                  /\ q \in Held(s.requests) /\ s.requests[q].grant = g
                  /\ s.requests[q].invitation \in Held(s.invitations)
                  /\ LET i == s.requests[q].invitation
                     IN s.grants[g].until < s.invitations[i].until
                                              + s.invitations[i].duration
             /\ \A q \in Held(s.requests) :
                  s.requests[q].invitation \in Held(s.invitations)
  <2>1. s \in Service /\ Chained(s, basis)
    BY <1>1 DEF Sound
  <2>2. \A q \in Held(s.requests) :
          s.requests[q].invitation \in Held(s.invitations)
    BY <2>1, NamesAreIDs, HeldShape DEF Chained, RequestChained
  <2>3. ASSUME NEW g \in Held(s.grants)
        PROVE  GrantChained(s, basis, g) /\ s.grants[g].request \in Held(s.requests)
    <3>1. g \in GrantIDs /\ s.grants[g].held
      BY <2>1, HeldShape
    <3>2. GrantChained(s, basis, g) /\ s.grants[g].request \in RequestIDs
      BY <2>1, <3>1, NamesAreIDs DEF Chained
    <3> QED
      BY <2>1, <3>2, HeldShape DEF GrantChained
  <2> QED
    BY <2>2, <2>3 DEF GrantChained
<1>2. RecordsInv => ReachableConsent
  BY <1>1 DEF RecordsInv, ReachableConsent
<1> QED
  BY <1>2, RecordsAlways, PTL

(* decideRequestLocked, revokeLocked, expireLocked and the cancellations   *)
(* drop the return invitation: none is kept once its request is decided    *)
(* against or what came of it has ended.                                   *)
THEOREM SecretsHold == Spec => []SecretsAreForgotten
<1>1. RecordsInv => SecretsAreForgotten
  <2> SUFFICES ASSUME RecordsInv, NEW q \in svc.returns
               PROVE  /\ q \in Held(svc.requests)
                      /\ \/ svc.requests[q].status = "pending"
                         \/ svc.requests[q].grant \in Live(svc)
    BY DEF SecretsAreForgotten
  <2>1. svc \in Service /\ Kept(svc, q)
    BY DEF RecordsInv, Sound, Secrets
  <2> QED
    BY <2>1, ServiceShape, HeldShape DEF Kept
<1> QED
  BY <1>1, RecordsAlways, PTL

-----------------------------------------------------------------------------
(* A stop that was acknowledged reaches every grant it is for              *)

(* The grants whose end was acknowledged were given, and are not active.   *)
EndedInv == \A g \in ended : basis[g] # None /\ ~IsLive(svc, g)

(* The three requests that end grants: what they acknowledge as ended is   *)
(* not active in the state they save.                                      *)
Ending(s, outcome) ==
  \/ \E g \in Live(s) : Stop(s, g, outcome)
  \/ \E i \in InvitationIDs : CancelInvitation(s, i, outcome)
  \/ \E r \in Held(s.requests) : CancelRequest(s, r, outcome)

LEMMA HeldGiven ==
  ASSUME RecordsInv, NEW s \in Opened, NEW g \in GrantIDs, s.grants[g].held
  PROVE  LET q == basis[g] IN
         /\ q \in RequestIDs /\ q # None /\ s.requests[q].held
         /\ s.requests[q].grant = g /\ origin[q] = s.requests[q].invitation
<1>1. s \in Service /\ Chained(s, basis) /\ Traced(s, origin)
  BY OpenedSound DEF Sound
<1>2. GrantChained(s, basis, g) /\ s.grants[g].request \in RequestIDs
  BY <1>1, NamesAreIDs DEF Chained
<1> QED
  BY <1>1, <1>2, Constants DEF GrantChained, Traced

LEMMA RevokedEnds ==
  ASSUME NEW s \in Service, Advanceable(s), NEW gs \in SUBSET GrantIDs,
         svc'.grants = RevokedIn(s, gs).grants, NEW g \in GrantIDs, IsLive(svc', g)
  PROVE  g \notin gs /\ s.grants[g].held
<1>1. RevokedIn(s, gs) \in Service /\ IsLive(RevokedIn(s, gs), g)
  BY RevokedType DEF IsLive
<1>2. g \in Live(s) \ gs
  BY <1>1, LiveIsLive, RevokedType
<1> QED
  BY <1>2, LiveIsLive DEF IsLive

LEMMA EndingReaches ==
  ASSUME RecordsInv, NEW s \in Opened, NEW outcome, Ending(s, outcome),
         NEW g \in ended' \ ended
  PROVE  /\ outcome = "saved" /\ g \in GrantIDs
         /\ basis[g] # None /\ ~IsLive(svc', g)
<1>1. s \in Service /\ Advanceable(s)
  BY OpenedSound
<1>2. ASSUME NEW gs \in SUBSET GrantIDs, NEW a, NEW b, NEW c
      PROVE  LET over == RevokedIn(s, gs)
             IN /\ [over EXCEPT !.last = clock'].grants = over.grants
                /\ [[over EXCEPT !.invitations = a, !.requests = b, !.returns = c]
                      EXCEPT !.last = clock'].grants = over.grants
                /\ [[over EXCEPT !.requests = b, !.returns = c]
                      EXCEPT !.last = clock'].grants = over.grants
  <2>1. RevokedIn(s, gs) \in Service
    BY <1>1, RevokedType
  <2> QED
    BY <2>1 DEF Service
<1>3. \A rs : GrantsOf(s, rs) \in SUBSET GrantIDs
  BY <1>1, HeldShape DEF GrantsOf
<1>4. ASSUME NEW h \in Live(s), Stop(s, h, outcome)
      PROVE  outcome = "saved" /\ g \in GrantIDs /\ basis[g] # None /\ ~IsLive(svc', g)
  <2>1. outcome = "saved" /\ g = h
    BY <1>4 DEF Stop
  <2>2. h \in GrantIDs /\ {h} \in SUBSET GrantIDs /\ s.grants[h].held
    BY <1>1, LiveShape
  <2>3. svc' = [RevokedIn(s, {h}) EXCEPT !.last = clock']
    BY <1>4 DEF Stop, Save, SaveOver
  <2>4. svc'.grants = RevokedIn(s, {h}).grants
    BY <1>2, <2>2, <2>3
  <2>5. ~IsLive(svc', h)
    BY <1>1, <2>2, <2>4, RevokedEnds
  <2> QED
    BY <2>1, <2>2, <2>5, HeldGiven
<1>5. ASSUME NEW i \in InvitationIDs, CancelInvitation(s, i, outcome)
      PROVE  outcome = "saved" /\ g \in GrantIDs /\ basis[g] # None /\ ~IsLive(svc', g)
  <2> DEFINE rs == RequestsOn(s, i)
             gs == GrantsOf(s, rs)
  <2>1. /\ outcome = "saved" /\ g \in GrantIDs
        /\ basis[g] # None /\ origin[basis[g]] = i
    BY <1>5 DEF CancelInvitation
  <2>2. PICK a, b, c : SaveOver(Written(s, gs),
                         [RevokedIn(s, gs) EXCEPT !.invitations = a,
                            !.requests = b, !.returns = c], outcome)
    BY <1>5 DEF CancelInvitation
  <2>3. gs \in SUBSET GrantIDs
    BY <1>3
  <2> HIDE DEF gs
  <2>4. svc'.grants = RevokedIn(s, gs).grants
    BY <1>2, <2>2, <2>3 DEF SaveOver
  <2>5. ASSUME IsLive(svc', g) PROVE FALSE
    <3>1. g \notin gs /\ s.grants[g].held
      BY <1>1, <2>1, <2>3, <2>4, <2>5, RevokedEnds
    <3> DEFINE q == basis[g]
    <3>2. /\ q \in RequestIDs /\ s.requests[q].held
          /\ s.requests[q].grant = g /\ s.requests[q].invitation = i
      BY <2>1, <3>1, HeldGiven
    <3> HIDE DEF q
    <3>3. q \in rs /\ g \in Held(s.grants)
      BY <1>1, <2>1, <3>1, <3>2, HeldShape DEF RequestsOn
    <3> QED
      BY <3>1, <3>2, <3>3 DEF GrantsOf, gs
  <2> QED
    BY <2>1, <2>5
<1>6. ASSUME NEW r \in Held(s.requests), CancelRequest(s, r, outcome)
      PROVE  outcome = "saved" /\ g \in GrantIDs /\ basis[g] # None /\ ~IsLive(svc', g)
  <2> DEFINE gs == GrantsOf(s, {r})
  <2>1. outcome = "saved" /\ g \in GrantIDs /\ basis[g] = r
    BY <1>6 DEF CancelRequest
  <2>2. PICK b, c : SaveOver(Written(s, gs),
                      [RevokedIn(s, gs) EXCEPT !.requests = b, !.returns = c],
                      outcome)
    BY <1>6 DEF CancelRequest
  <2>3. gs \in SUBSET GrantIDs /\ r # None
    BY <1>1, <1>3, HeldShape, Constants
  <2> HIDE DEF gs
  <2>4. svc'.grants = RevokedIn(s, gs).grants
    BY <1>2, <2>2, <2>3 DEF SaveOver
  <2>5. ASSUME IsLive(svc', g) PROVE FALSE
    <3>1. g \notin gs /\ s.grants[g].held
      BY <1>1, <2>1, <2>3, <2>4, <2>5, RevokedEnds
    <3>2. s.requests[r].grant = g
      BY <2>1, <3>1, HeldGiven
    <3>3. g \in Held(s.grants)
      BY <1>1, <2>1, <3>1, HeldShape
    <3> QED
      BY <3>1, <3>2, <3>3 DEF GrantsOf, gs
  <2> QED
    BY <2>1, <2>3, <2>5
<1> QED
  BY <1>4, <1>5, <1>6 DEF Ending

(* A stop of a grant that was over already changes nothing of it.          *)
LEMMA StopAgainReaches ==
  ASSUME RecordsInv, NEW s \in Opened, NEW h \in Held(s.grants), StopAgain(s, h),
         NEW g \in ended' \ ended
  PROVE  /\ g = h /\ g \in GrantIDs /\ s.grants[g].held
         /\ basis[g] # None /\ ~IsLive(s, g) /\ svc' = s
<1>1. g = h /\ h \in Held(s.grants) \ Live(s) /\ svc' = s
  BY DEF StopAgain
<1>2. s \in Service
  BY OpenedSound
<1>3. h \in GrantIDs /\ s.grants[h].held /\ ~IsLive(s, h)
  BY <1>1, <1>2, HeldShape, LiveIsLive
<1> QED
  BY <1>1, <1>3, HeldGiven

(* Nothing else acknowledges an end.                                       *)
LEMMA EndedChange ==
  ASSUME [Next]_vars
  PROVE  \/ ended' = ended
         \/ \E s \in Opened :
              \/ \E h \in Held(s.grants) : StopAgain(s, h)
              \/ \E outcome \in Outcomes : Ending(s, outcome)
<1>1. ASSUME NEW s \in Opened, Passing(s)
      PROVE  ended' = ended \/ \E h \in Held(s.grants) : StopAgain(s, h)
  BY <1>1 DEF Passing, Look, ApproveMismatched, RestrictTooLate, FinishRead,
     ReadTooLate, Abandon, BeginRead, BeginInvite, past
<1>2. ASSUME NEW s \in Opened, NEW outcome \in Outcomes, Saving(s, outcome)
      PROVE  ended' = ended \/ Ending(s, outcome)
  BY <1>2 DEF Saving, Ending, FinishInvite, Redeem, Reject, Approve, RestrictGrant, past
<1>3. CASE UNCHANGED past
  BY <1>3 DEF past
<1> QED
  BY <1>1, <1>2, <1>3 DEF Next, vars, Tick, SetBack, Drive, Refuse, Status, Restart,
     RouteSeen, RouteGone, SourceAnswers, AbandonShut

(* A grant is given once, and stays given.                                 *)
LEMMA GivenStays ==
  ASSUME RecordsInv, [Next]_vars, NEW g \in GrantIDs, basis[g] # None
  PROVE  basis'[g] = basis[g]
<1>1. basis \in [GrantIDs -> RequestIDs \cup {None}]
  BY TypeParts DEF RecordsInv, SpendInv, PastType
<1>2. ASSUME NEW s \in Opened, Passing(s) PROVE basis' = basis
  BY <1>2 DEF Passing, Look, ApproveMismatched, RestrictTooLate, FinishRead, StopAgain,
     ReadTooLate, Abandon, BeginRead, BeginInvite, past
<1>3. ASSUME NEW s \in Opened, NEW outcome \in Outcomes, Saving(s, outcome)
      PROVE  basis'[g] = basis[g]
  <2>1. ASSUME NEW r \in Held(s.requests), NEW h \in GrantIDs, Approve(s, r, h, outcome)
        PROVE  basis'[g] = basis[g]
    BY <1>1, <2>1 DEF Approve
  <2> QED
    BY <1>3, <2>1 DEF Saving, FinishInvite, Redeem, Reject, RestrictGrant, Stop,
       CancelInvitation, CancelRequest, past
<1>4. CASE UNCHANGED past
  BY <1>4 DEF past
<1> QED
  BY <1>2, <1>3, <1>4 DEF Next, vars, Tick, SetBack, Drive, Refuse, Status, Restart,
     RouteSeen, RouteGone, SourceAnswers, AbandonShut

LEMMA EndedStep ==
  ASSUME RecordsInv, AgreeInv, EndedInv, [Next]_vars
  PROVE  EndedInv'
<1> SUFFICES ASSUME NEW g \in ended' PROVE basis'[g] # None /\ ~IsLive(svc', g)
  BY DEF EndedInv, IsLive
<1>1. CASE g \in ended
  <2>1. g \in GrantIDs /\ basis[g] # None /\ ~IsLive(svc, g)
    BY <1>1, TypeParts DEF RecordsInv, SpendInv, PastType, EndedInv
  <2>2. Shrunk(svc', svc, g)
    BY <2>1, AgreeNext DEF AgreeStep
  <2> QED
    BY <2>1, <2>2, GivenStays DEF Shrunk
<1>2. CASE g \notin ended
  <2>1. g \in GrantIDs /\ basis[g] # None /\ ~IsLive(svc', g)
    BY <1>2, EndedChange, EndingReaches, StopAgainReaches
  <2> QED
    BY <2>1, GivenStays
<1> QED
  BY <1>1, <1>2

-----------------------------------------------------------------------------
(* What is handed out is in force                                          *)

EndedAlways ==
  RecordsInv /\ AgreeInv /\ EndedInv

LEMMA EndedHolds == Spec => []EndedAlways
<1>1. Init => EndedInv
  BY DEF Init, EndedInv
<1>2. EndedInv /\ RecordsInv /\ AgreeInv /\ [Next]_vars => EndedInv'
  BY EndedStep
<1> QED
  BY <1>1, <1>2, RecordsAlways, AgreeAlways, PTL DEF Spec, EndedAlways

(* A step hands a snapshot out only at the end of a read.                  *)
LEMMA ServedBy ==
  ASSUME Next, served'.held
  PROVE  \E s \in Opened, r \in Readers : FinishRead(s, r)
<1> DEFINE Blank == served' = NoSnapshot
<1>1. ~Blank
  BY DEF NoSnapshot
<1>2. ASSUME NEW s \in Opened, Passing(s), ~ \E r \in Readers : FinishRead(s, r)
      PROVE  Blank
  BY <1>2 DEF Passing, Look, ApproveMismatched, StopAgain, RestrictTooLate,
     ReadTooLate, Abandon, BeginRead, BeginInvite
<1>3. ASSUME NEW s \in Opened, NEW outcome \in Outcomes, Saving(s, outcome)
      PROVE  Blank
  <2>1. ASSUME NEW r, NEW i, NEW x
        PROVE  (FinishInvite(s, r, i, outcome) => Blank)
               /\ (Redeem(s, i, r, x, outcome) => Blank)
    BY DEF FinishInvite, Redeem
  <2>2. ASSUME NEW r, NEW g
        PROVE  (Reject(s, r, outcome) => Blank)
               /\ (CancelRequest(s, r, outcome) => Blank)
               /\ (Approve(s, r, g, outcome) => Blank)
    BY DEF Reject, CancelRequest, Approve
  <2>3. ASSUME NEW g, NEW i
        PROVE  (Stop(s, g, outcome) => Blank)
               /\ (RestrictGrant(s, g, outcome) => Blank)
               /\ (CancelInvitation(s, i, outcome) => Blank)
    BY DEF Stop, RestrictGrant, CancelInvitation
  <2> HIDE DEF Blank
  <2> QED
    BY <1>3, <2>1, <2>2, <2>3 DEF Saving
<1>4. (Tick \/ SetBack \/ Drive \/ Status \/ Refuse) => Blank
  BY DEF Tick, SetBack, Drive, Refuse, Status
<1>5. \A yes : RouteSeen(yes) \/ RouteGone(yes) => Blank
  BY DEF RouteSeen, RouteGone
<1>6. \A r : SourceAnswers(r) \/ AbandonShut(r) => Blank
  BY DEF SourceAnswers, AbandonShut
<1>7. \A outcome : Restart(outcome) => Blank
  BY DEF Restart
<1> HIDE DEF Blank
<1> QED
  BY <1>1, <1>2, <1>3, <1>4, <1>5, <1>6, <1>7 DEF Next

LEMMA ReadInForce ==
  ASSUME EndedAlways, NEW s \in Opened, NEW r \in Readers, FinishRead(s, r)
  PROVE  LET g == readers[r].grant
             source == readers[r].source
             out == Projected(SweptStore[g], source)
         IN /\ g \in GrantIDs /\ IsLive(svc', g) /\ g \in Live(svc')
            /\ clock' < svc'.grants[g].until /\ g \notin ended'
            /\ served' = [held |-> TRUE, grant |-> g,
                          allowed |-> svc'.grants[g].allowed, out |-> out]
            /\ shown' = [shown EXCEPT ![g] = Updated(shown[g], out)]
            /\ source \in Reading
            /\ SweptStore[g] \in StoreGrant
            /\ SameTerms(SweptStore[g], svc'.grants[g])
            /\ store' = Project(SweptStore, g, source, clock')
            /\ MayProject(SweptStore, g, readers[r].revision, source, clock')
            /\ svc'.grants = s.grants
<1> DEFINE g == readers[r].grant
           source == readers[r].source
           out == Projected(SweptStore[g], source)
<1>1. /\ TypeInv /\ s \in Service /\ Advanceable(s) /\ SweptStore \in StoreType
      /\ GrantsKept(s, svc) /\ Agree(s, SweptStore)
  BY OpenedAgree DEF EndedAlways
<1>2. /\ g \in Live(s) /\ ended' = ended
      /\ MayProject(SweptStore, g, readers[r].revision, source, clock')
      /\ store' = Project(SweptStore, g, source, clock')
      /\ served' = [held |-> TRUE, grant |-> g, allowed |-> store'[g].allowed,
                    out |-> out]
      /\ shown' = [shown EXCEPT ![g] = Updated(shown[g], served'.out)]
      /\ svc' = [s EXCEPT !.last = clock'] /\ readers[r].pc = "answered"
  BY DEF FinishRead
<1>3. svc'.grants = s.grants
  BY <1>1, <1>2 DEF Service
<1>4. g \in GrantIDs /\ IsLive(s, g) /\ IsLive(svc, g) /\ IsLive(svc', g)
      /\ g \in Live(svc')
  BY <1>1, <1>2, <1>3, LiveIsLive DEF GrantsKept, IsLive, Live
<1>5. /\ g \in Known(SweptStore) /\ SweptStore[g] \in StoreGrant
      /\ SameTerms(SweptStore[g], svc'.grants[g])
  BY <1>1, <1>3, <1>4, StoreShape DEF Agree
<1>6. source \in Reading
  BY <1>1, <1>2, ReaderShape DEF Waiting
<1>7. clock' < svc'.grants[g].until
  BY <1>2, <1>5 DEF MayProject, Active, SameTerms
<1>8. g \notin ended'
  BY <1>2, <1>4 DEF EndedAlways, EndedInv
<1>9. store'[g] = Advance(SweptStore[g], out, clock')
  BY <1>1, <1>2, <1>4 DEF Project, StoreType
<1>10. \A o, n : \A x \in StoreGrant : Advance(x, o, n).allowed = x.allowed
  BY DEF Advance, StoreGrant
<1>11. store'[g].allowed = svc'.grants[g].allowed
  BY <1>5, <1>9, <1>10 DEF SameTerms
<1>12. served'.out = out
  BY <1>2
<1> HIDE DEF g, source, out
<1>13. /\ served' = [held |-> TRUE, grant |-> g,
                     allowed |-> svc'.grants[g].allowed, out |-> out]
       /\ shown' = [shown EXCEPT ![g] = Updated(shown[g], out)]
  BY <1>2, <1>11, <1>12
<1> QED
  BY <1>2, <1>3, <1>4, <1>5, <1>6, <1>7, <1>8, <1>13 DEF g, source, out

(* serveGuest checks the grant, its revision and its expiry again after    *)
(* ReadSource, with the lock held until the answer is written: a snapshot  *)
(* is handed out only for a grant that is active, not past its expiry and  *)
(* not acknowledged as stopped, with what is permitted now and nothing     *)
(* from before consent.                                                    *)
THEOREM ServedInForceHolds == Spec => []ServedInForce
<1>1. Init => ServedInForce
  BY DEF Init, ServedInForce, NoSnapshot
<1>2. ServedInForce /\ EndedAlways /\ [Next]_vars => ServedInForce'
  <2> SUFFICES ASSUME ServedInForce, EndedAlways, [Next]_vars, served'.held
               PROVE  ServedInForce'
    BY DEF ServedInForce
  <2>1. CASE UNCHANGED vars
    BY <2>1 DEF vars, consent, past, ServedInForce, Live, Held
  <2>2. ASSUME NEW s \in Opened, NEW r \in Readers, FinishRead(s, r)
        PROVE  ServedInForce'
    <3> DEFINE g == readers[r].grant
               source == readers[r].source
               out == Projected(SweptStore[g], source)
    <3>1. /\ g \in Live(svc') /\ clock' < svc'.grants[g].until /\ g \notin ended'
          /\ served' = [held |-> TRUE, grant |-> g,
                        allowed |-> svc'.grants[g].allowed, out |-> out]
          /\ SweptStore[g].from = svc'.grants[g].from
          /\ SweptStore[g].allowed = svc'.grants[g].allowed
      BY <2>2, ReadInForce DEF SameTerms
    <3>2. /\ out.motion # 0 => out.motion >= SweptStore[g].from
          /\ out.route # 0 => /\ "navigation" \in SweptStore[g].allowed
                              /\ out.routeAt >= SweptStore[g].from
      BY DEF Projected
    <3> HIDE DEF g, source, out
    <3>3. /\ served'.grant = g /\ served'.out = out
          /\ served'.allowed = svc'.grants[g].allowed
      BY <3>1
    <3> QED
      BY <3>1, <3>2, <3>3 DEF ServedInForce
  <2> QED
    BY <2>1, <2>2, ServedBy
<1> QED
  BY <1>1, <1>2, EndedHolds, PTL DEF Spec

-----------------------------------------------------------------------------
(* What a guest is shown moves forward                                     *)

(* The policy store has the marks of all the guest was shown, and a route  *)
(* from before consent leaves none.                                        *)
Marked(x, m) ==
  /\ x.from \in Nat \ {0}
  /\ m.motion = x.motion /\ m.route = x.route /\ m.routeAt = x.routeAt
  /\ m.over = x.withdrawn

MarksInv ==
  \A g \in GrantIDs :
    /\ basis[g] = None => shown[g] = NothingShown
    /\ healthy /\ IsLive(svc, g) => Marked(store[g], shown[g])

SameMarks(x, y) ==
  /\ y.held /\ x.from = y.from
  /\ x.motion = y.motion /\ x.route = y.route /\ x.routeAt = y.routeAt
  /\ x.withdrawn = y.withdrawn

MarksKept(new, st) == \A g \in Known(new) : SameMarks(new[g], st[g])

LEMMA SameStoreMarks ==
  ASSUME NEW st
  PROVE  MarksKept(st, st)
BY DEF MarksKept, SameMarks, Known

LEMMA UpdateMarks ==
  ASSUME NEW st \in StoreType, NEW g \in Known(st), NEW x, SameMarks(x, st[g])
  PROVE  MarksKept([st EXCEPT ![g] = x], st)
BY DEF MarksKept, SameMarks, Known, StoreType

LEMMA NoticedMarks ==
  ASSUME NEW st \in StoreType, NEW g \in Known(st), NEW now
  PROVE  MarksKept(Noticed(st, g, now), st)
<1>1. st[g] \in StoreGrant
  BY StoreShape
<1>2. \A x \in StoreGrant : SameMarks([x EXCEPT !.expired = TRUE], x)
  BY DEF StoreGrant, SameMarks
<1> QED
  BY <1>1, <1>2, UpdateMarks, SameStoreMarks DEF Noticed

LEMMA RestrictMarks ==
  ASSUME NEW st \in StoreType, NEW g \in Known(st), NEW allowed, NEW until, NEW now
  PROVE  MarksKept(Restrict(st, g, allowed, until, now), st)
<1>1. st[g] \in StoreGrant
  BY StoreShape
<1>2. \A n : \A x \in StoreGrant :
        SameMarks([x EXCEPT !.revision = n, !.allowed = allowed,
                            !.until = until, !.server = now], x)
  BY DEF StoreGrant, SameMarks
<1> QED
  BY <1>1, <1>2, UpdateMarks DEF Restrict

LEMMA RevokedMarks ==
  ASSUME NEW st \in StoreType, NEW s, NEW gs,
         \A g \in gs \cap Live(s) : g \in Known(st)
  PROVE  MarksKept(RevokedAll(st, s, gs), st)
<1> SUFFICES ASSUME NEW g \in Known(RevokedAll(st, s, gs))
             PROVE  SameMarks(RevokedAll(st, s, gs)[g], st[g])
  BY DEF MarksKept
<1>1. g \in GrantIDs /\ RevokedAll(st, s, gs)[g].held
  BY DEF Known
<1>2. \A n : \A x \in StoreGrant :
        SameMarks([x EXCEPT !.revoked = TRUE, !.revision = n], x)
  BY DEF StoreGrant, SameMarks
<1>3. CASE g \in gs \cap Live(s)
  <2>1. st[g] \in StoreGrant /\ g \in Known(st)
    BY <1>3, StoreShape
  <2>2. \A x : [st EXCEPT ![g] = x][g] = x
    BY <1>1 DEF StoreType
  <2>3. SameMarks(st[g], st[g])
    BY <2>1 DEF SameMarks, Known
  <2> DEFINE over == [st[g] EXCEPT !.revoked = TRUE,
                                   !.revision = NextRevision(st[g].revision)]
  <2>4. SameMarks(over, st[g])
    BY <1>2, <2>1, Zenon
  <2>5. Revoke(st, g) = IF st[g].revoked THEN st ELSE [st EXCEPT ![g] = over]
    BY DEF Revoke
  <2> HIDE DEF over
  <2>6. SameMarks(Revoke(st, g)[g], st[g])
    BY <2>2, <2>3, <2>4, <2>5
  <2>7. RevokedAll(st, s, gs)[g] = Revoke(st, g)[g]
    BY <1>1, <1>3 DEF RevokedAll
  <2> QED
    BY <2>6, <2>7
<1>4. CASE g \notin gs \cap Live(s)
  BY <1>1, <1>4 DEF RevokedAll, SameMarks
<1> QED
  BY <1>3, <1>4

(* Whatever a request does to the policy store, the marks of a grant that  *)
(* was given stay, unless a read ends.                                     *)
LEMMA PassingMarks ==
  ASSUME TypeInv, NEW s \in Opened, Passing(s), ~ \E r \in Readers : FinishRead(s, r),
         NEW g \in Known(store'), basis[g] # None
  PROVE  SameMarks(store'[g], SweptStore[g])
<1>1. s \in Service /\ SweptStore \in StoreType /\ g \in GrantIDs
  BY OpenedType DEF Known
<1>2. CASE store' = SweptStore
  BY <1>2, SameStoreMarks DEF MarksKept
<1>3. ASSUME NEW h \in Known(SweptStore), store' = Noticed(SweptStore, h, clock')
      PROVE  SameMarks(store'[g], SweptStore[g])
  BY <1>1, <1>3, NoticedMarks DEF MarksKept
<1>4. ASSUME NEW r \in Pending(s), NEW h \in GrantIDs, ApproveMismatched(s, r, h)
      PROVE  SameMarks(store'[g], SweptStore[g])
  <2>1. r \in Held(s.requests) /\ h # g /\ Approvable(s, r, h)
        /\ store' = Consented(s, r, h)
    BY <1>4 DEF ApproveMismatched, Pending
  <2>2. store'[g] = SweptStore[g]
    BY <1>1, <2>1, ConsentedShape
  <2> QED
    BY <2>2 DEF Known, SameMarks
<1> QED
  BY <1>2, <1>3, <1>4 DEF Passing, Look, StopAgain, BeginRead, BeginInvite, Abandon,
     RestrictTooLate, ReadTooLate, Matches

LEMMA SavingMarks ==
  ASSUME TypeInv, NEW s \in Opened, NEW outcome \in Outcomes, Saving(s, outcome),
         NEW g \in Known(store'), basis[g] # None
  PROVE  SameMarks(store'[g], SweptStore[g])
<1>1. s \in Service /\ SweptStore \in StoreType /\ g \in GrantIDs
  BY OpenedType DEF Known
<1>2. CASE store' = SweptStore
  BY <1>2, SameStoreMarks DEF MarksKept
<1>3. ASSUME NEW r \in Held(s.requests), NEW h \in GrantIDs, Approve(s, r, h, outcome)
      PROVE  SameMarks(store'[g], SweptStore[g])
  <2>1. h # g /\ Approvable(s, r, h) /\ store' = Consented(s, r, h)
    BY <1>3 DEF Approve
  <2>2. store'[g] = SweptStore[g]
    BY <1>1, <2>1, ConsentedShape
  <2> QED
    BY <2>2 DEF Known, SameMarks
<1>4. ASSUME NEW h \in Live(s), RestrictGrant(s, h, outcome)
      PROVE  SameMarks(store'[g], SweptStore[g])
  <2>1. \E allowed, until : h \in Known(SweptStore)
          /\ store' = Restrict(SweptStore, h, allowed, until, clock')
    BY <1>4 DEF RestrictGrant, MayRestrict, Matches
  <2> QED
    BY <1>1, <2>1, RestrictMarks DEF MarksKept
<1>5. ASSUME NEW gs, store' = RevokedAll(SweptStore, s, gs),
             \A h \in gs \cap Live(s) : Revocable(s, h)
      PROVE  SameMarks(store'[g], SweptStore[g])
  <2>1. \A h \in gs \cap Live(s) : h \in Known(SweptStore)
    BY <1>5 DEF Revocable, Matches
  <2> QED
    BY <1>1, <1>5, <2>1, RevokedMarks DEF MarksKept
<1>6. ASSUME NEW h \in Live(s), Stop(s, h, outcome)
      PROVE  SameMarks(store'[g], SweptStore[g])
  BY <1>5, <1>6 DEF Stop
<1>7. ASSUME NEW i \in InvitationIDs, CancelInvitation(s, i, outcome)
      PROVE  SameMarks(store'[g], SweptStore[g])
  BY <1>5, <1>7 DEF CancelInvitation
<1>8. ASSUME NEW r \in Held(s.requests), CancelRequest(s, r, outcome)
      PROVE  SameMarks(store'[g], SweptStore[g])
  BY <1>5, <1>8 DEF CancelRequest
<1> QED
  BY <1>2, <1>3, <1>4, <1>6, <1>7, <1>8 DEF Saving, FinishInvite, Redeem, Reject

(* Only requests change what is known of the past.                         *)
LEMMA PastSteps ==
  ASSUME [Next]_vars
  PROVE  \/ UNCHANGED past
         \/ \E s \in Opened :
              Passing(s) \/ \E outcome \in Outcomes : Saving(s, outcome)
<1>1. (UNCHANGED vars \/ Tick \/ SetBack \/ Drive \/ Status \/ Refuse) => UNCHANGED past
  BY DEF vars, Tick, SetBack, Drive, Refuse, Status
<1>2. \A yes : RouteSeen(yes) \/ RouteGone(yes) => UNCHANGED past
  BY DEF RouteSeen, RouteGone
<1>3. \A r : SourceAnswers(r) \/ AbandonShut(r) => UNCHANGED past
  BY DEF SourceAnswers, AbandonShut
<1>4. \A outcome : Restart(outcome) => UNCHANGED past
  BY DEF Restart
<1> QED
  BY <1>1, <1>2, <1>3, <1>4 DEF Next

(* A grant is given by an approval, and starts with no marks.              *)
LEMMA GivenByApproval ==
  ASSUME [Next]_vars, TypeInv, NEW g \in GrantIDs, basis'[g] # basis[g]
  PROVE  \E s \in Opened : \E r \in Held(s.requests) :
           \E outcome : Approve(s, r, g, outcome)
<1> DEFINE Given == \E s \in Opened : \E r \in Held(s.requests) :
                      \E outcome : Approve(s, r, g, outcome)
<1>1. basis \in [GrantIDs -> RequestIDs \cup {None}]
  BY TypeParts DEF PastType
<1>2. ASSUME NEW s \in Opened, Passing(s) PROVE basis' = basis
  BY <1>2 DEF Passing, Look, ApproveMismatched, RestrictTooLate, FinishRead, StopAgain,
     ReadTooLate, Abandon, BeginRead, BeginInvite, past
<1>3. ASSUME NEW s \in Opened, NEW outcome \in Outcomes, Saving(s, outcome)
      PROVE  basis' = basis \/ Given
  <2>1. ASSUME NEW r \in Held(s.requests), NEW h \in GrantIDs, Approve(s, r, h, outcome)
        PROVE  Given
    <3>1. basis' = [basis EXCEPT ![h] = r]
      BY <2>1 DEF Approve
    <3>2. h = g
      BY <1>1, <3>1
    <3> QED
      BY <2>1, <3>2
  <2> HIDE DEF Given
  <2> QED
    BY <1>3, <2>1 DEF Saving, FinishInvite, Redeem, Reject, RestrictGrant, Stop,
       CancelInvitation, CancelRequest, past
<1>4. UNCHANGED past => basis' = basis
  BY DEF past
<1> HIDE DEF Given
<1>5. basis' = basis \/ Given
  BY <1>2, <1>3, <1>4, PastSteps
<1> QED
  BY <1>5 DEF Given

LEMMA ApprovalMarks ==
  ASSUME TypeInv, NEW s \in Opened, NEW r \in Held(s.requests), NEW g \in GrantIDs,
         NEW outcome, Approve(s, r, g, outcome)
  PROVE  Marked(store'[g], NothingShown) /\ UNCHANGED shown
<1>1. SweptStore \in StoreType
  BY OpenedType
<1>2. Approvable(s, r, g) /\ store' = Consented(s, r, g) /\ UNCHANGED shown
  BY DEF Approve
<1>3. clock' \in Nat \ {0}
  BY <1>2, ConsentedShape, Constants DEF Times
<1>4. \A allowed, until : Marked(Create(SweptStore, g, allowed, until, clock')[g],
                                  NothingShown)
  BY <1>1, <1>3 DEF Create, StoreType, Marked, NothingShown
<1> QED
  BY <1>2, <1>4 DEF Consented

(* What the guest is shown by a read is in the order of the marks, and     *)
(* moves them.                                                             *)
LEMMA OrderedRead ==
  ASSUME NEW x \in StoreGrant, NEW source \in Reading, NEW m, NEW now, Marked(x, m),
         InOrder(x, Projected(x, source))
  PROVE  LET out == Projected(x, source) IN
         /\ Marked(Advance(x, out, now), Updated(m, out))
         /\ out.motion # 0 => out.motion >= m.motion
         /\ out.route # 0 => /\ out.route >= m.route
                             /\ out.routeAt >= m.routeAt
                             /\ m.over => out.route > m.route
<1> DEFINE out == Projected(x, source)
<1>1. /\ out \in Reading /\ out.motion \in Nat /\ out.route \in Nat
      /\ out.routeAt \in Nat
  BY ProjectedType DEF Reading
<1>2. out.route # 0 => out.routeAt >= x.from
  BY DEF Projected
<1>3. /\ x.motion \in Nat /\ x.route \in Nat /\ x.routeAt \in Nat
      /\ x.withdrawn \in BOOLEAN /\ x.from \in Nat \ {0}
  BY DEF StoreGrant, Marked
<1>4. InOrder(x, out)
  OBVIOUS
<1> HIDE DEF out
<1>5. /\ out.motion # 0 => out.motion >= m.motion
      /\ out.route # 0 => /\ out.route >= m.route
                          /\ out.routeAt >= m.routeAt
                          /\ m.over => out.route > m.route
  <2>1. out.motion # 0 => out.motion > 0
    BY <1>1
  <2>2. out.route # 0 => out.route > 0 /\ out.routeAt > 0
    BY <1>1, <1>2, <1>3
  <2> QED
    BY <1>1, <1>3, <1>4, <2>1, <2>2 DEF InOrder, Regressed, Marked
<1>6. Marked(Advance(x, out, now), Updated(m, out))
  <2> DEFINE y == Advance(x, out, now)
  <2>1. /\ y.from = x.from
        /\ y.motion = IF out.motion > 0 THEN out.motion ELSE x.motion
        /\ y.route = IF out.route > 0 THEN out.route ELSE x.route
        /\ y.routeAt = IF out.route > 0 THEN out.routeAt ELSE x.routeAt
        /\ y.withdrawn = (out.route = 0 /\ x.route > 0)
    BY DEF Advance, StoreGrant
  <2> DEFINE u == Updated(m, out)
  <2>2. /\ u.motion = IF out.motion > 0 THEN out.motion ELSE m.motion
        /\ u.route = IF out.route > 0 THEN out.route ELSE m.route
        /\ u.routeAt = IF out.route > 0 THEN out.routeAt ELSE m.routeAt
        /\ u.over = (m.route > 0 /\ out.route = 0)
    BY DEF Updated
  <2> HIDE DEF y, u
  <2>3. Marked(y, u)
    <3>1. m.motion = x.motion /\ m.route = x.route /\ m.routeAt = x.routeAt
      BY DEF Marked
    <3>2. u.motion = y.motion /\ u.route = y.route /\ u.routeAt = y.routeAt
      BY <2>1, <2>2, <3>1
    <3>3. u.over = y.withdrawn
      BY <2>1, <2>2, <3>1
    <3> QED
      BY <1>3, <2>1, <3>2, <3>3 DEF Marked
  <2> QED
    BY <2>3 DEF y, u
<1> QED
  BY <1>5, <1>6 DEF out

LEMMA SweptMarks ==
  ASSUME NEW g \in Known(SweptStore)
  PROVE  SweptStore[g] = store[g]
BY DEF Known, SweptStore, Prune, NoRecord

LEMMA ReadMoves ==
  ASSUME EndedAlways, MarksInv, NEW s \in Opened, NEW r \in Readers, FinishRead(s, r)
  PROVE  LET g == readers[r].grant
             out == served'.out
             was == shown[g]
         IN /\ g \in GrantIDs /\ basis[g] # None /\ served'.grant = g
            /\ Marked(store'[g], shown'[g])
            /\ \A h \in GrantIDs \ {g} :
                 shown'[h] = shown[h] /\ store'[h] = SweptStore[h]
            /\ out.motion # 0 => out.motion >= was.motion
            /\ out.route # 0 => /\ out.route >= was.route
                                /\ out.routeAt >= was.routeAt
                                /\ was.over => out.route > was.route
<1> DEFINE g == readers[r].grant
           source == readers[r].source
           x == SweptStore[g]
           out == Projected(x, source)
<1>1. /\ TypeInv /\ s \in Service /\ SweptStore \in StoreType
      /\ GrantsKept(s, svc) /\ Agree(s, SweptStore)
  BY OpenedAgree DEF EndedAlways
<1>2. /\ g \in GrantIDs /\ IsLive(svc', g) /\ svc'.grants = s.grants
      /\ served' = [held |-> TRUE, grant |-> g,
                    allowed |-> svc'.grants[g].allowed, out |-> out]
      /\ shown' = [shown EXCEPT ![g] = Updated(shown[g], out)]
      /\ source \in Reading /\ x \in StoreGrant
      /\ store' = Project(SweptStore, g, source, clock')
      /\ MayProject(SweptStore, g, readers[r].revision, source, clock')
  BY ReadInForce
<1>3. IsLive(s, g) /\ IsLive(svc, g) /\ s.grants[g].held
  BY <1>1, <1>2 DEF IsLive, GrantsKept
<1>4. basis[g] # None
  BY <1>2, <1>3, HeldGiven DEF EndedAlways
<1>5. g \in Known(SweptStore) /\ x = store[g] /\ healthy
  BY <1>1, <1>2, <1>3, SweptMarks DEF Agree, Opened, Open
<1>6. Marked(x, shown[g])
  BY <1>2, <1>3, <1>5 DEF MarksInv
<1>7. InOrder(x, out)
  BY <1>2 DEF MayProject
<1>8. /\ Marked(Advance(x, out, clock'), Updated(shown[g], out))
      /\ out.motion # 0 => out.motion >= shown[g].motion
      /\ out.route # 0 => /\ out.route >= shown[g].route
                          /\ out.routeAt >= shown[g].routeAt
                          /\ shown[g].over => out.route > shown[g].route
  <2> HIDE DEF x, g, source
  <2> QED
    BY <1>2, <1>6, <1>7, OrderedRead
<1>9. /\ store'[g] = Advance(x, out, clock')
      /\ \A h \in GrantIDs \ {g} : store'[h] = SweptStore[h]
  BY <1>1, <1>2 DEF Project, StoreType
<1> HIDE DEF g, source, x, out
<1>10. /\ shown'[g] = Updated(shown[g], out)
       /\ \A h \in GrantIDs \ {g} : shown'[h] = shown[h]
  BY <1>1, <1>2, TypeParts DEF PastType
<1>11. served'.grant = g /\ served'.out = out
  BY <1>2
<1> QED
  BY <1>2, <1>4, <1>8, <1>9, <1>10, <1>11 DEF g

(* Only requests and a restart change what the service answers from.       *)
LEMMA StoreSteps ==
  ASSUME [Next]_vars
  PROVE  \/ UNCHANGED store /\ (healthy' => healthy)
         \/ \E outcome \in Outcomes : Restart(outcome)
         \/ \E s \in Opened :
              Passing(s) \/ \E outcome \in Outcomes : Saving(s, outcome)
<1> DEFINE Quiet == UNCHANGED store /\ (healthy' => healthy)
<1>1. (UNCHANGED vars \/ Tick \/ SetBack \/ Drive \/ Status \/ Refuse) => Quiet
  BY DEF vars, consent, Tick, SetBack, Drive, Status, Refuse
<1>2. \A yes : RouteSeen(yes) \/ RouteGone(yes) => Quiet
  BY DEF consent, RouteSeen, RouteGone
<1>3. \A r : SourceAnswers(r) \/ AbandonShut(r) => Quiet
  BY DEF consent, SourceAnswers, AbandonShut
<1> HIDE DEF Quiet
<1>4. Quiet \/ (\E outcome \in Outcomes : Restart(outcome))
            \/ (\E s \in Opened :
                  Passing(s) \/ \E outcome \in Outcomes : Saving(s, outcome))
  BY <1>1, <1>2, <1>3 DEF Next
<1> QED
  BY <1>4 DEF Quiet

LEMMA ShownSteps ==
  ASSUME [Next]_vars, ~ \E s \in Opened, r \in Readers : FinishRead(s, r)
  PROVE  UNCHANGED shown
<1>1. ASSUME NEW s \in Opened, Passing(s) PROVE UNCHANGED shown
  BY <1>1 DEF Passing, Look, ApproveMismatched, RestrictTooLate, StopAgain,
     ReadTooLate, Abandon, BeginRead, BeginInvite, past
<1>2. ASSUME NEW s \in Opened, NEW outcome \in Outcomes, Saving(s, outcome)
      PROVE  UNCHANGED shown
  <2>1. ASSUME NEW r, NEW i, NEW x
        PROVE  (FinishInvite(s, r, i, outcome) => UNCHANGED shown)
               /\ (Redeem(s, i, r, x, outcome) => UNCHANGED shown)
    BY DEF FinishInvite, Redeem, past
  <2>2. ASSUME NEW r, NEW g
        PROVE  (Reject(s, r, outcome) => UNCHANGED shown)
               /\ (CancelRequest(s, r, outcome) => UNCHANGED shown)
               /\ (Approve(s, r, g, outcome) => UNCHANGED shown)
    BY DEF Reject, CancelRequest, Approve, past
  <2>3. ASSUME NEW g, NEW i
        PROVE  (Stop(s, g, outcome) => UNCHANGED shown)
               /\ (RestrictGrant(s, g, outcome) => UNCHANGED shown)
               /\ (CancelInvitation(s, i, outcome) => UNCHANGED shown)
    BY DEF Stop, RestrictGrant, CancelInvitation, past
  <2> QED
    BY <1>2, <2>1, <2>2, <2>3 DEF Saving
<1>3. UNCHANGED past => UNCHANGED shown
  BY DEF past
<1> QED
  BY <1>1, <1>2, <1>3, PastSteps

(* The marks of a grant that goes on are moved by nothing else.            *)
LEMMA MarksStay ==
  ASSUME EndedAlways, MarksInv, [Next]_vars, NEW g \in GrantIDs, basis[g] # None,
         healthy', IsLive(svc', g), IsLive(svc, g), g \in Known(store'),
         ~ \E s \in Opened, r \in Readers : FinishRead(s, r)
  PROVE  Marked(store'[g], shown[g])
<1>1. TypeInv
  BY DEF EndedAlways, AgreeInv
<1>2. CASE UNCHANGED store /\ (healthy' => healthy)
  BY <1>2 DEF MarksInv
<1>3. ASSUME NEW s \in Opened,
             Passing(s) \/ \E outcome \in Outcomes : Saving(s, outcome)
      PROVE  Marked(store'[g], shown[g])
  <2>1. SameMarks(store'[g], SweptStore[g]) /\ healthy
    BY <1>1, <1>3, PassingMarks, SavingMarks DEF Opened, Open
  <2>2. g \in Known(SweptStore)
    BY <2>1 DEF SameMarks, Known
  <2>3. Marked(store[g], shown[g])
    BY <2>1 DEF MarksInv
  <2> QED
    BY <2>1, <2>2, <2>3, SweptMarks DEF Marked, SameMarks
<1>4. ASSUME NEW outcome \in Outcomes, Restart(outcome) PROVE FALSE
  <2>1. disk \in Service /\ Advanceable(disk)
    BY <1>1, TypeParts DEF ConsentType
  <2>2. Restarted(disk) \in Service /\ Live(Restarted(disk)) = {}
    BY <2>1, RestartedType
  <2>3. [Restarted(disk) EXCEPT !.last = clock'].grants = Restarted(disk).grants
    BY <2>2 DEF Service
  <2>4. svc'.grants = Restarted(disk).grants
    BY <1>4, <2>3 DEF Restart, Save, SaveOver
  <2> QED
    BY <2>2, <2>4, LiveIsLive DEF IsLive
<1> QED
  BY <1>2, <1>3, <1>4, StoreSteps

LEMMA MarksStep ==
  ASSUME EndedAlways, MarksInv, [Next]_vars
  PROVE  MarksInv'
<1>1. TypeInv /\ RecordsInv /\ AgreeInv /\ RecordsInv' /\ AgreeStep
  BY RecordsStep, AgreeNext DEF EndedAlways, AgreeInv
<1> SUFFICES ASSUME NEW g \in GrantIDs
             PROVE  /\ basis'[g] = None => shown'[g] = NothingShown
                    /\ healthy' /\ IsLive(svc', g) => Marked(store'[g], shown'[g])
  BY DEF MarksInv, IsLive
<1>2. basis'[g] = None => basis[g] = None
  BY <1>1, GivenStays
<1>3. healthy' /\ IsLive(svc', g) => g \in Known(store')
  BY <1>1 DEF AgreeStep, AgreeInv, Agree, IsLive, Known
<1>4. IsLive(svc', g) => basis'[g] # None
  <2>1. svc' \in Service /\ Chained(svc', basis')
    BY <1>1 DEF RecordsInv, Sound
  <2> QED
    BY <2>1, NamesAreIDs, Constants DEF IsLive, Chained, GrantChained
<1>5. ASSUME NEW s \in Opened, NEW r \in Readers, FinishRead(s, r), healthy',
             IsLive(svc', g)
      PROVE  Marked(store'[g], shown'[g])
  <2>1. CASE g = readers[r].grant
    BY <1>5, <2>1, ReadMoves
  <2>2. CASE g # readers[r].grant
    <3>1. shown'[g] = shown[g] /\ store'[g] = SweptStore[g]
      BY <1>5, <2>2, ReadMoves
    <3>2. s \in Service /\ GrantsKept(s, svc) /\ svc'.grants = s.grants /\ healthy
      BY <1>1, <1>5, OpenedAgree, ReadInForce DEF Opened, Open
    <3>3. IsLive(svc, g)
      BY <1>5, <3>2 DEF IsLive, GrantsKept
    <3>4. g \in Known(SweptStore)
      BY <1>3, <1>5, <3>1 DEF Known
    <3> QED
      BY <3>1, <3>2, <3>3, <3>4, SweptMarks DEF MarksInv
  <2> QED
    BY <2>1, <2>2
<1>6. ASSUME NEW s \in Opened, NEW r \in Readers, FinishRead(s, r), basis'[g] = None
      PROVE  shown'[g] = NothingShown
  <2>1. basis[g] = None /\ g # readers[r].grant
    BY <1>2, <1>6, ReadMoves
  <2> QED
    BY <1>6, <2>1, ReadMoves DEF MarksInv
<1>7. CASE ~ \E s \in Opened, r \in Readers : FinishRead(s, r)
  <2>1. UNCHANGED shown
    BY <1>7, ShownSteps
  <2>2. basis'[g] = None => shown'[g] = NothingShown
    BY <1>2, <2>1 DEF MarksInv
  <2>3. ASSUME healthy', IsLive(svc', g), basis[g] # None
        PROVE  Marked(store'[g], shown[g])
    <3>1. IsLive(svc, g)
      BY <1>1, <2>3 DEF AgreeStep, Shrunk
    <3> QED
      BY <1>3, <1>7, <2>3, <3>1, MarksStay
  <2>4. ASSUME healthy', IsLive(svc', g), basis[g] = None
        PROVE  Marked(store'[g], shown[g])
    <3>1. \E s \in Opened : \E r \in Held(s.requests) :
            \E outcome : Approve(s, r, g, outcome)
      BY <1>1, <1>4, <2>4, GivenByApproval
    <3>2. Marked(store'[g], NothingShown)
      BY <1>1, <3>1, ApprovalMarks
    <3> QED
      BY <2>4, <3>2 DEF MarksInv
  <2> QED
    BY <2>1, <2>2, <2>3, <2>4
<1> QED
  BY <1>5, <1>6, <1>7

(* checkOrder holds a projection against the marks of the last one, under  *)
(* the lock and after the source was read: however the reads of one grant  *)
(* overlap, what its guest is shown never goes back to an older position,  *)
(* an older route, or a route it was shown the end of.                     *)
THEOREM ShownForward == Spec => ShownMovesForward
<1> DEFINE Step == served'.held =>
                     LET was == shown[served'.grant]  out == served'.out IN
                     /\ out.motion # 0 => out.motion >= was.motion
                     /\ out.route # 0 => /\ out.route >= was.route
                                         /\ out.routeAt >= was.routeAt
                                         /\ was.over => out.route > was.route
<1>1. Init => MarksInv
  BY DEF Init, MarksInv, NoConsent, NoRecord, IsLive
<1>2. EndedAlways /\ MarksInv /\ [Next]_vars => MarksInv'
  BY MarksStep
<1>3. EndedAlways /\ MarksInv /\ [Next]_vars => [Step]_vars
  <2> SUFFICES ASSUME EndedAlways, MarksInv, Next, served'.held PROVE Step
    OBVIOUS
  <2>1. PICK s \in Opened, r \in Readers : FinishRead(s, r)
    BY ServedBy
  <2> QED
    BY <2>1, ReadMoves
<1>4. Spec => [][Step]_vars
  BY <1>1, <1>2, <1>3, EndedHolds, PTL DEF Spec
<1> QED
  BY <1>4 DEF ShownMovesForward

-----------------------------------------------------------------------------
(* A confirmed stop is durable                                             *)

(* A grant the journal d has as active and the state s still lists lasts   *)
(* as long in both, and is active in s too unless it has expired.          *)
Synced(s, d) ==
  \A g \in GrantIDs : IsLive(d, g) /\ s.grants[g].held =>
    /\ d.grants[g].until = s.grants[g].until
    /\ IsLive(s, g) \/ d.grants[g].until <= s.last

DurableInv == healthy => Synced(svc, disk)

LEMMA DurableGrants ==
  ASSUME NEW t \in Service, NEW g \in GrantIDs
  PROVE  /\ Durable(t).grants[g].held => t.grants[g].held
         /\ Durable(t).grants[g].held =>
              /\ Durable(t).grants[g].until = t.grants[g].until
              /\ Durable(t).grants[g].status = t.grants[g].status
<1>1. Durable(t).grants[g] = IF t.grants[g].held
                             THEN [t.grants[g] EXCEPT !.readAt = 0] ELSE NoRecord
  BY DEF Durable
<1>2. t.grants[g].held => t.grants[g] \in Grant
  BY HeldShape
<1>3. ASSUME NEW x \in Grant
      PROVE  LET y == [x EXCEPT !.readAt = 0]
             IN y.until = x.until /\ y.status = x.status
  BY DEF Grant
<1> QED
  BY <1>1, <1>2, <1>3 DEF NoRecord

LEMMA DurableSynced ==
  ASSUME NEW t \in Service
  PROVE  /\ Synced(t, Durable(t))
         /\ \A g \in GrantIDs : IsLive(Durable(t), g) => IsLive(t, g)
BY DurableGrants DEF Synced, IsLive

LEMMA StillSynced ==
  ASSUME NEW s \in Service, NEW t \in Service, NEW d \in Service, Synced(s, d),
         s.last <= t.last,
         \A g \in GrantIDs : t.grants[g].held =>
           /\ s.grants[g].held /\ t.grants[g].until = s.grants[g].until
           /\ IsLive(s, g) => IsLive(t, g) \/ s.grants[g].until <= t.last
  PROVE  Synced(t, d)
<1> SUFFICES ASSUME NEW g \in GrantIDs, IsLive(d, g), t.grants[g].held
             PROVE  /\ d.grants[g].until = t.grants[g].until
                    /\ IsLive(t, g) \/ d.grants[g].until <= t.last
  BY DEF Synced
<1>1. /\ s.grants[g].held /\ d.grants[g].until = s.grants[g].until
      /\ IsLive(s, g) \/ d.grants[g].until <= s.last
  BY DEF Synced
<1>2. d.grants[g].until \in Nat /\ s.last \in Nat /\ t.last \in Nat
  BY GrantNumbers, ServiceShape
<1> QED
  BY <1>1, <1>2

(* The opening of a handler marks only what has expired.                   *)
LEMMA LapsedExpires ==
  ASSUME NEW s \in Service, Advanceable(s), NEW now \in Nat, NEW g \in GrantIDs,
         Lapsed(s, now).grants[g].held
  PROVE  /\ s.grants[g].held /\ Lapsed(s, now).grants[g].until = s.grants[g].until
         /\ IsLive(s, g) => IsLive(Lapsed(s, now), g) \/ s.grants[g].until <= now
<1> DEFINE u == Lapsed(s, now)
<1>1. CASE g \in Live(s) /\ s.grants[g].until <= now
  <2>1. u.grants[g] = [s.grants[g] EXCEPT !.status = "expired"]
    BY <1>1, LapsedGrants
  <2>2. \A x \in Grant : [x EXCEPT !.status = "expired"].until = x.until
    BY DEF Grant
  <2>3. s.grants[g] \in Grant /\ s.grants[g].held
    BY <1>1, LiveShape
  <2>4. u.grants[g].until = s.grants[g].until
    BY <2>1, <2>2, <2>3
  <2> HIDE DEF u
  <2> QED
    BY <1>1, <2>3, <2>4 DEF u
<1>2. CASE ~(g \in Live(s) /\ s.grants[g].until <= now)
  <2>1. u.grants[g] = s.grants[g]
    BY <1>2, LapsedGrants
  <2>2. u.grants[g].held
    OBVIOUS
  <2> HIDE DEF u
  <2>3. s.grants[g].held /\ (IsLive(s, g) => IsLive(u, g))
    BY <2>1, <2>2 DEF IsLive
  <2> QED
    BY <2>1, <2>3 DEF u
<1> QED
  BY <1>1, <1>2

LEMMA OpenedSynced ==
  ASSUME TypeInv, DurableInv, NEW s \in Opened
  PROVE  Synced(s, disk) /\ s.last = clock
<1> DEFINE t == [svc EXCEPT !.last = clock]
           u == Lapsed(t, clock)
<1>1. /\ svc \in Service /\ Advanceable(svc) /\ disk \in Service /\ clock \in Nat
      /\ Cutoff \in Int /\ s \in Service
  <2>1. svc \in Service /\ Advanceable(svc) /\ disk \in Service
    BY TypeParts DEF ConsentType
  <2>2. s \in Service /\ clock \in Nat
    BY OpenedType
  <2> QED
    BY <2>1, <2>2, Constants DEF Cutoff
<1>2. Synced(svc, disk) /\ svc.last <= clock
  BY DEF DurableInv, Opened, Open
<1>3. t \in Service /\ Advanceable(t) /\ t.grants = svc.grants /\ t.last = clock
  BY <1>1, ServiceLast DEF Service
<1>4. Synced(t, disk)
  <2> HIDE DEF t
  <2>1. svc.last <= t.last
    BY <1>2, <1>3
  <2>2. \A g \in GrantIDs : IsLive(svc, g) => IsLive(t, g)
    BY <1>3 DEF IsLive
  <2> QED
    BY <1>1, <1>2, <1>3, <2>1, <2>2, StillSynced
<1>5. s = Reclaimed(u, Cutoff)
  BY DEF Opened, Swept
<1> HIDE DEF t
<1>6. u \in Service /\ u.last = t.last
  <2>1. u \in Service
    BY <1>1, <1>3, LapsedType
  <2>2. u.last = t.last
    BY <1>1, <1>3, LapsedFields
  <2> QED
    BY <2>1, <2>2
<1>7. ASSUME NEW g \in GrantIDs, u.grants[g].held
      PROVE  /\ t.grants[g].held /\ u.grants[g].until = t.grants[g].until
             /\ IsLive(t, g) => IsLive(u, g) \/ t.grants[g].until <= u.last
  BY <1>1, <1>3, <1>6, <1>7, LapsedExpires
<1> HIDE DEF u
<1>8. t.last <= u.last
  BY <1>1, <1>3, <1>6
<1>9. Synced(u, disk)
  BY <1>1, <1>3, <1>4, <1>6, <1>7, <1>8, StillSynced
<1>10. s.last = u.last
  BY <1>5 DEF Reclaimed
<1>11. \A g \in GrantIDs : s.grants[g] = NoRecord \/ s.grants[g] = u.grants[g]
  BY <1>5 DEF Reclaimed
<1>12. s.last = clock /\ u.last <= s.last
  BY <1>1, <1>3, <1>6, <1>10
<1>13. \A g \in GrantIDs : s.grants[g].held => s.grants[g] = u.grants[g]
  BY <1>11 DEF NoRecord
<1>14. Synced(s, disk)
  BY <1>1, <1>6, <1>9, <1>12, <1>13, StillSynced DEF IsLive
<1> QED
  BY <1>12, <1>14

(* While the service is healthy, a save has put its state into the journal.*)
LEMMA SaveSyncs ==
  ASSUME NEW written, NEW t, NEW outcome, SaveOver(written, t, outcome), healthy'
  PROVE  disk' = Durable(svc')
<1>1. outcome = "saved"
  BY DEF SaveOver
<1> QED
  BY <1>1 DEF SaveOver

LEMMA SavingSyncs ==
  ASSUME NEW s, NEW outcome, Saving(s, outcome), healthy'
  PROVE  disk' = Durable(svc')
<1>1. ASSUME NEW r, NEW i, NEW x
      PROVE  (FinishInvite(s, r, i, outcome) => disk' = Durable(svc'))
             /\ (Redeem(s, i, r, x, outcome) => disk' = Durable(svc'))
  BY SaveSyncs DEF FinishInvite, Redeem, Save
<1>2. ASSUME NEW r, NEW g
      PROVE  (Reject(s, r, outcome) => disk' = Durable(svc'))
             /\ (CancelRequest(s, r, outcome) => disk' = Durable(svc'))
             /\ (Approve(s, r, g, outcome) => disk' = Durable(svc'))
  BY SaveSyncs DEF Reject, CancelRequest, Approve, Save
<1>3. ASSUME NEW g, NEW i
      PROVE  (Stop(s, g, outcome) => disk' = Durable(svc'))
             /\ (RestrictGrant(s, g, outcome) => disk' = Durable(svc'))
             /\ (CancelInvitation(s, i, outcome) => disk' = Durable(svc'))
  BY SaveSyncs DEF Stop, RestrictGrant, CancelInvitation, Save
<1> QED
  BY <1>1, <1>2, <1>3 DEF Saving

LEMMA PassingSynced ==
  ASSUME TypeInv, TypeInv', DurableInv, NEW s \in Opened, Passing(s)
  PROVE  Synced(svc', disk')
<1>1. /\ s \in Service /\ Synced(s, disk) /\ s.last = clock /\ clock \in Nat
      /\ svc' \in Service /\ disk \in Service
  BY OpenedSynced, OpenedType, TypeParts, TypePartsNext DEF ConsentType
<1>2. UNCHANGED disk
  BY DEF Passing, Look, ApproveMismatched, StopAgain, RestrictTooLate, FinishRead,
     ReadTooLate, Abandon, BeginRead, BeginInvite
<1>3. CASE svc' = s
  BY <1>1, <1>2, <1>3
<1>4. ASSUME NEW r \in Readers, FinishRead(s, r) PROVE Synced(svc', disk')
  <2>1. svc' = [s EXCEPT !.last = clock'] /\ clock' \in {clock, clock + 1}
    BY <1>4 DEF FinishRead, MovesOn
  <2>2. svc'.grants = s.grants /\ svc'.last = clock'
    BY <1>1, <2>1 DEF Service
  <2>3. s.last <= svc'.last
    BY <1>1, <2>1, <2>2
  <2>4. Synced(svc', disk)
    BY <1>1, <2>2, <2>3, StillSynced DEF IsLive
  <2> QED
    BY <1>2, <2>4
<1>5. ASSUME NEW r \in Readers, NEW g \in Live(s), BeginRead(s, r, g)
      PROVE  Synced(svc', disk')
  <2> DEFINE read == [s.grants[g] EXCEPT !.readAt = clock']
             grants == [s.grants EXCEPT ![g] = read]
  <2>1. svc' = [s EXCEPT !.grants = grants]
    BY <1>5 DEF BeginRead
  <2>2. g \in GrantIDs /\ s.grants[g] \in Grant
    BY <1>1, HeldShape DEF Live
  <2>3. \A n : \A x \in Grant : LET y == [x EXCEPT !.readAt = n]
                              IN /\ y.held = x.held /\ y.until = x.until
                                 /\ y.status = x.status
    BY DEF Grant
  <2>4. /\ read.held = s.grants[g].held /\ read.until = s.grants[g].until
        /\ read.status = s.grants[g].status
    BY <2>2, <2>3
  <2>5. \A h \in GrantIDs : grants[h] = IF h = g THEN read ELSE s.grants[h]
    BY <1>1, ServiceShape
  <2> HIDE DEF read, grants
  <2>6. svc'.grants = grants /\ svc'.last = s.last
    BY <1>1, <2>1 DEF Service
  <2>7. \A h \in GrantIDs : /\ svc'.grants[h].held = s.grants[h].held
                            /\ svc'.grants[h].until = s.grants[h].until
                            /\ svc'.grants[h].status = s.grants[h].status
    BY <2>4, <2>5, <2>6
  <2>8. s.last <= svc'.last
    BY <1>1, <2>6
  <2>9. Synced(svc', disk)
    BY <1>1, <2>7, <2>8, StillSynced DEF IsLive
  <2> QED
    BY <1>2, <2>9
<1> QED
  BY <1>3, <1>4, <1>5 DEF Passing, Look, ApproveMismatched, StopAgain,
     RestrictTooLate, ReadTooLate, Abandon, BeginInvite

LEMMA DurableStep ==
  ASSUME TypeInv, DurableInv, [Next]_vars
  PROVE  DurableInv'
<1> SUFFICES ASSUME healthy' PROVE Synced(svc', disk')
  BY DEF DurableInv, Synced, IsLive
<1>1. TypeInv' /\ svc \in Service /\ disk \in Service /\ svc' \in Service
      /\ disk' \in Service /\ clock \in Nat
  BY StepType, TypeParts, TypePartsNext, Constants DEF ConsentType, Times
<1>2. CASE UNCHANGED <<svc, disk>> /\ (healthy' => healthy)
  BY <1>2 DEF DurableInv
<1>3. CASE Status
  <2>1. svc' = [svc EXCEPT !.last = clock] /\ svc.last <= clock /\ healthy
        /\ UNCHANGED disk
    BY <1>3 DEF Status, Open
  <2>2. svc'.grants = svc.grants /\ svc'.last = clock
    BY <1>1, <2>1 DEF Service
  <2>3. svc.last <= svc'.last
    BY <2>1, <2>2
  <2>4. Synced(svc, disk) /\ \A g \in GrantIDs : IsLive(svc, g) => IsLive(svc', g)
    BY <2>1, <2>2 DEF IsLive, DurableInv
  <2>5. Synced(svc', disk)
    BY <1>1, <2>2, <2>3, <2>4, StillSynced
  <2> QED
    BY <2>1, <2>5
<1>4. ASSUME NEW outcome \in Outcomes, Restart(outcome) PROVE Synced(svc', disk')
  <2>1. disk' = Durable(svc')
    BY <1>4, SaveSyncs DEF Restart, Save
  <2> QED
    BY <1>1, <2>1, DurableSynced
<1>5. ASSUME NEW s \in Opened, NEW outcome \in Outcomes, Saving(s, outcome)
      PROVE  Synced(svc', disk')
  BY <1>1, <1>5, SavingSyncs, DurableSynced
<1>6. ASSUME NEW s \in Opened, Passing(s) PROVE Synced(svc', disk')
  BY <1>1, <1>6, PassingSynced
<1> DEFINE Quiet == UNCHANGED <<svc, disk>> /\ (healthy' => healthy)
<1>7. (UNCHANGED vars \/ Tick \/ SetBack \/ Drive \/ Refuse) => Quiet
  BY DEF vars, consent, Tick, SetBack, Drive, Refuse
<1>8. \A yes : RouteSeen(yes) \/ RouteGone(yes) => Quiet
  BY DEF consent, RouteSeen, RouteGone
<1>9. \A r : SourceAnswers(r) \/ AbandonShut(r) => Quiet
  BY DEF consent, SourceAnswers, AbandonShut
<1> HIDE DEF Quiet
<1>10. Quiet => Synced(svc', disk')
  BY <1>2 DEF Quiet
<1> QED
  BY <1>3, <1>4, <1>5, <1>6, <1>7, <1>8, <1>9, <1>10 DEF Next

(* revokeLocked writes the journal before a stop is acknowledged, and one  *)
(* of a grant that was over already has nothing to write: when a stop is   *)
(* acknowledged the journal does not have the grant as active, unless it   *)
(* has expired, so that no crash undoes what was confirmed.                *)
THEOREM StopsDurable == Spec => StopsAreDurable
<1> DEFINE Step == \A g \in ended' \ ended :
                     g \in Live(disk') => disk'.grants[g].until <= clock'
<1>1. Init => DurableInv
  BY DEF Init, DurableInv, Synced, NoConsent, NoRecord, IsLive
<1>2. EndedAlways /\ DurableInv /\ [Next]_vars => DurableInv'
  BY DurableStep DEF EndedAlways, AgreeInv
<1>3. EndedAlways /\ DurableInv /\ [Next]_vars => [Step]_vars
  <2> SUFFICES ASSUME EndedAlways, DurableInv, [Next]_vars,
                      NEW g \in ended' \ ended, g \in Live(disk')
               PROVE  disk'.grants[g].until <= clock'
    OBVIOUS
  <2>1. TypeInv /\ RecordsInv /\ TypeInv' /\ svc' \in Service /\ disk' \in Service
    BY StepType, TypePartsNext DEF EndedAlways, AgreeInv, ConsentType
  <2>2. g \in GrantIDs /\ IsLive(disk', g)
    BY <2>1, LiveIsLive
  <2>3. ASSUME NEW s \in Opened, NEW h \in Held(s.grants), StopAgain(s, h)
        PROVE  disk'.grants[g].until <= clock'
    <3>1. s.grants[g].held /\ ~IsLive(s, g)
      BY <2>1, <2>3, StopAgainReaches
    <3>2. Synced(s, disk) /\ s.last = clock
      BY <2>1, OpenedSynced
    <3>3. disk' = disk /\ clock' = clock
      BY <2>3 DEF StopAgain
    <3> QED
      BY <2>2, <3>1, <3>2, <3>3 DEF Synced
  <2>4. ASSUME NEW s \in Opened, NEW outcome, Ending(s, outcome)
        PROVE  FALSE
    <3>1. outcome = "saved" /\ ~IsLive(svc', g)
      BY <2>1, <2>4, EndingReaches
    <3>2. healthy' /\ Saving(s, outcome)
      BY <2>4, <3>1 DEF Ending, Stop, CancelInvitation, CancelRequest, Save, SaveOver,
         Saving
    <3>3. disk' = Durable(svc')
      BY <3>2, SavingSyncs
    <3> QED
      BY <2>1, <2>2, <3>1, <3>3, DurableSynced
  <2> QED
    BY <2>3, <2>4, EndedChange
<1>4. Spec => [][Step]_vars
  BY <1>1, <1>2, <1>3, EndedHolds, PTL DEF Spec
<1> QED
  BY <1>4 DEF StopsAreDurable
=============================================================================
