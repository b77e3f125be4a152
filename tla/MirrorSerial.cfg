CONSTANTS
  Item = {i1, i2}
  Run = {r1}
  Writer = {w1}
  MaxRev = 3
  MaxFaults = 1
SPECIFICATION FairSpec
PROPERTY Converges
