SPECIFICATION Spec
CONSTANTS
  phoneA = phoneA
  r1 = r1
  Phones = {phoneA}
  Undecided = {phoneA}
  Rounds = {r1}
  Openings = {}
  Published <- MCLive
  Retained <- MCReplay
  Settle = 1
  EpisodeLifetime = 1
  HeartbeatLifetime = 1
  Cooldown = 2
  Minute = 1
  Faults = {"crash", "oneSave"}
INVARIANTS
  TypeOK
  EpisodesAreWatched
  PresenceIsCurrent
PROPERTIES
  RoundsRestOnOneLink
  ImplementsEpisodes
