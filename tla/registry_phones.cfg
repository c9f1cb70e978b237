SPECIFICATION Spec
CONSTANTS
  phoneA = phoneA
  phoneB = phoneB
  phoneC = phoneC
  direct = direct
  retry = retry
  charge = charge
  started = started
  ended = ended
  secured = secured
  drained = drained
  home = home
  cabin = cabin
  Sources = {home}
  NoSource = home
  NoPhone = NoPhone
  Sessions = {charge}
  Workers = {direct}
  RetryLoop = retry
  EventFeature <- MCEventFeature
  EventKind <- MCEventKind
  EventSession <- MCEventSession
  EventTTL <- MCEventTTL
  MaxOutbox = 1
  PausedRetention = 1
  SessionLife = 1
  RetryDelay = 1
  MaxRetryDelay = 1
  AttemptCap = 1
  MaxApplying = 0
  RetryAfters = {0}
  Installations = {phoneA, phoneB, phoneC}
  Features = {"low_battery"}
  PairedPrefs <- MCAllOn
  Events = {drained}
  MaxSubscribers = 2
  Faults = {"pairing"}
SYMMETRY Phones
INVARIANTS
  Capacity
PROPERTIES
  ActiveUntilOwnerActs
