CONSTANTS
  Item = {i1, i2}
  Run = {r1, r2}
  Writer = {w1}
  MaxRev = 2
  MaxFaults = 1
SPECIFICATION Spec
SYMMETRY Symmetry
INVARIANT TypeOK
INVARIANT NoSilentLoss
PROPERTY MirrorMovesForward
