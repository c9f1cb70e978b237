SPECIFICATION Spec
CONSTANTS
  card = card
  ticket = ticket
  join = join
  rejoin = rejoin
  share = share
  reshare = reshare
  none = none
  first = first
  second = second
  InvitationIDs = {card, ticket}
  RequestIDs = {join, rejoin}
  GrantIDs = {share, reshare}
  Readers = {first, second}
  None = none
  Optional = {"navigation"}
  SourceSlots = 2
  MaxRecords = 1
  MaxRevision = 2
  MaxGrantLifetime = 2
  InvitationLife = 1
  ReadInterval = 1
  Durations = {2}
  Offers <- MCEverything
  ReturnOffers = {TRUE, FALSE}
  MaxTime = 3
  MaxRoutes = 0
  PositionTimes = {}
  RouteTimes = {}
  Faults = {}
SYMMETRY Randoms
INVARIANTS
  RefusedApprovalLeavesNoGrant
