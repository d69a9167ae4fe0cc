SPECIFICATION FairSpec
CONSTANTS
  c1 = c1
  c2 = c2
  r1 = r1
  r2 = r2
  Clips = {c1, c2}
  Requests = {r1, r2}
  NoClip = NoClip
  Nobody = Nobody
  NoFile = NoFile
  MaxCrashes = 1
INVARIANTS TypeOK ProxiesComplete EncodesOnlyMisses
PROPERTIES CacheRefined EveryRequestEnds LeftoversReclaimed
CHECK_DEADLOCK FALSE
