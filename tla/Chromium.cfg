CONSTANTS
  Poll = 2
  MaxBackoff = 5
  MaxFaults = 3
  MaxCancels = 2
SPECIFICATION Spec
INVARIANT TypeOK
INVARIANT OneClient
INVARIANT AtMostOneLateCall
PROPERTY StopEnds
PROPERTY KeepsAttached
