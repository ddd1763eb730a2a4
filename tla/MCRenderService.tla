-------------------------- MODULE MCRenderService --------------------------
(* Small instances of RenderService. *)
EXTENDS RenderService, TLC

CONSTANTS p1, p2, s1, s2, r1, r2

\* Two plans with a page in common.
SharedPage == p1 :> {s1} @@ p2 :> {s1}
\* The first plan may be submitted twice before its numbering starts over.
TwoOne == p1 :> 2 @@ p2 :> 1
Symmetry == Permutations(Runs)
=============================================================================
