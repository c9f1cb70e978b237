SPECIFICATION FairSpec
CONSTANTS
  MaxLinks = 2
INVARIANTS
  TypeOK
  ConnectedMeansSubscribed
PROPERTIES
  ImplementsLink
  Recovers
  BaselinesArrive
