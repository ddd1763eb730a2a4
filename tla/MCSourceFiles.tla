--------------------------- MODULE MCSourceFiles ---------------------------
(* Small instances of SourceFiles: one upload has made the first revision, *)
(* another one is under way.                                               *)
EXTENDS SourceFiles, TLC

CONSTANTS u1, u2, c1, c2, r1, r2

\* Contents and calls are interchangeable.
Symmetry == Permutations(Contents) \cup Permutations(Requests)
=============================================================================
