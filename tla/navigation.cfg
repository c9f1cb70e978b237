SPECIFICATION FairSpec
CONSTANTS
  home = home
  work = work
  cellA = cellA
  cellB = cellB
  Stops = {home, work}
  Places = {cellA, cellB}
  Lefts = {20, 1000}
  Published <- MCLive
  Retained <- MCReplay
  QueueSize = 1
  Attempts = 1
  MaxSessions = 2
  MaxRevision = 2
  MaxLeaving = 1
  Faults = {"crash", "oneSave", "relay"}
INVARIANTS
  TypeOK
  HistoryAgrees
  RecoveriesAreQuiet
PROPERTIES
  ProgressIsSent
  StaleSessionsEnd
