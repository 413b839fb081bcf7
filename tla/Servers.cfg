SPECIFICATION FairSpec
CONSTANTS
  Workers = {w1, w2}
  MaxCloses = 2
  Members = {"m1", "m2"}
  Launches <- MCLaunches
  Sockets = {s1, s2}
INVARIANTS
  AnnouncedIsReady
  NothingLeft
PROPERTIES
  ReadySettles
  
CHECK_DEADLOCK FALSE
