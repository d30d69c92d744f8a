SPECIFICATION FairSpec
CONSTANTS
  Keys = {relay1, relay2}
  Values = {on, off}
  MaxClicks = 1
  MaxOthers = 1
  MaxDrops = 1
INVARIANTS Mirrors
PROPERTIES ResolvedByAnswer Rejoins
CHECK_DEADLOCK FALSE
