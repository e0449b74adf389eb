------------------------- MODULE MCZeropodContainer -------------------------
(* ZeropodContainer on small sets of threads and pids. *)
EXTENDS ZeropodContainer, TLC

CONSTANTS k1, c1, c2, e1, d1

\* The connections do not differ.
Symmetry == Permutations({c1, c2})
=============================================================================
