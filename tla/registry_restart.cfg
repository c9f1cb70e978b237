SPECIFICATION Spec
CONSTANTS
  phoneA = phoneA
  phoneB = phoneB
  phoneC = phoneC
  direct = direct
  retry = retry
  charge = charge
  started = started
  ended = ended
  secured = secured
  drained = drained
  home = home
  cabin = cabin
  Sources = {home}
  NoSource = home
  NoPhone = NoPhone
  Sessions = {charge}
  Workers = {direct}
  RetryLoop = retry
  EventFeature <- MCEventFeature
  EventKind <- MCEventKind
  EventSession <- MCEventSession
  EventTTL <- MCEventTTL
  MaxOutbox = 1
  PausedRetention = 1
  SessionLife = 1
  RetryDelay = 1
  MaxRetryDelay = 1
  AttemptCap = 1
  MaxApplying = 1
  RetryAfters = {0}
  Installations = {phoneA}
  Features = {"live_activity"}
  PairedPrefs <- MCAllOn
  Events = {started}
  MaxSubscribers = 1
  Faults = {"crash", "oneSave"}
INVARIANTS
  TypeOK
  DiskAgrees
PROPERTIES
  RestartKeepsDecisions
