--------------------------- MODULE MCCalDavSync ---------------------------
(* Instances of CalDavSync for TLC.                                        *)
EXTENDS CalDavSync, TLC

Symmetry == Permutations(Href) \cup Permutations(Uid)
=============================================================================
