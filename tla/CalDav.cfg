CONSTANTS
  NumCal = 2
  Href = {h1}
  Uid = {u1, u2}
  MaxRev = 4
  MaxFaults = 1
SPECIFICATION Spec
SYMMETRY Symmetry
INVARIANT TypeOK
INVARIANT TokenCoversMemory
INVARIANT MemoryIsTheMirror
INVARIANT MirrorShowsTheServer
