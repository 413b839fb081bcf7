SPECIFICATION FairSpec
CONSTANTS
  s1 = s1
  s2 = s2
  r1 = r1
  r2 = r2
  g1 = g1
  g2 = g2
  Sockets = {s1, s2}
  RoomNames = {r1, r2}
  Registries = {g1, g2}
  Places <- MCPlaces
INVARIANTS
  MapsAgree
  ForgottenAfterClose
  MembersWatched
PROPERTIES
  HealthyKept
  DeadFound
CHECK_DEADLOCK FALSE
