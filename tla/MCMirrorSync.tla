--------------------------- MODULE MCMirrorSync ---------------------------
(* Instances of MirrorSync for TLC.                                        *)
EXTENDS MirrorSync, TLC

Symmetry == Permutations(Item) \cup Permutations(Run)
=============================================================================
