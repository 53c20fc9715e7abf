SPECIFICATION FairSpec
CONSTANTS
  Rule = {r1}
  Watcher = {w1}
  Child = {k1, k2}
  Config = {c1}
  Nobody = Nobody
PROPERTIES StopEnds ClearReachesNginx
