SPECIFICATION FairSpec
CONSTANTS
  hk01 = hk01
  Valve = {hk01}
  WdTime = 2
  Stale = 3
  Rearm = 2
  BackoffMax = 2
PROPERTIES GlobalOverrideCleared
