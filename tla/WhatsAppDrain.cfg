CONSTANTS
  Producer = {webhook, bridge}
  Wamid = {m1, m2, m3}
  Drain = {d1, d2}
  Batch = 2
  MaxId = 3
  MaxFaults = 1
SPECIFICATION Spec
INVARIANT TypeOK
INVARIANT SkippedRowsAreNoted
PROPERTY StagedIsDrainedOrLost
