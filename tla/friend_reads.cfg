SPECIFICATION Spec
CONSTANTS
  card = card
  ticket = ticket
  join = join
  rejoin = rejoin
  share = share
  reshare = reshare
  none = none
  first = first
  second = second
  InvitationIDs = {card}
  RequestIDs = {join}
  GrantIDs = {share}
  Readers = {first, second}
  None = none
  Optional = {"navigation"}
  SourceSlots = 2
  MaxRecords = 1
  MaxRevision = 2
  MaxGrantLifetime = 2
  InvitationLife = 1
  ReadInterval = 1
  Durations = {2}
  Offers <- MCEverything
  ReturnOffers = {FALSE}
  MaxTime = 3
  MaxRoutes = 2
  PositionTimes = {1, 2}
  RouteTimes = {1}
  Faults = {}
SYMMETRY Randoms
INVARIANTS
  ServedInForce
PROPERTIES
  ShownMovesForward
