CONSTANTS
  Pair = {icloud}
  Unbuilt = {}
  Icloud = {icloud}
  Broken = {}
  Managed = {icloud}
  Slot = {s1}
  Poll = {1}
  MaxAge = 1
  MaxQueue = 2
  MaxFaults = 1
SPECIFICATION Spec
PROPERTY IcloudIsSynced
