CONSTANTS
  Pair = {google, bakalari, other}
  Unbuilt = {other}
  Icloud = {}
  Broken = {bakalari}
  Slot = {s1, s2}
  Managed = {google}
  Poll = {1, 2}
  MaxAge = 2
  MaxQueue = 1
  MaxFaults = 1
SPECIFICATION Spec
INVARIANT TypeOK
PROPERTY HealthyIsSynced
PROPERTY DisabledGoesQuiet
