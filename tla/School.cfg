CONSTANTS
  N = 2
  Runs = {job, refresh}
  Job = job
  Served <- MCServed
  MaxManual = 1
  Equipped <- MCEquipped
SPECIFICATION Spec
INVARIANT TypeOK
INVARIANT DayIsServed
INVARIANT OneRowPerItem
INVARIANT PackedAsSaved
PROPERTY Gathered
