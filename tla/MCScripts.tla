----------------------------- MODULE MCScripts -----------------------------
(* Two callers at a time, or one and a narration job; two segment ids. *)
EXTENDS Scripts, TLC

Pairs == {Callers} \cup {{c, Narrator} : c \in Callers}
Symmetry == Permutations(Callers) \cup Permutations(SegIds)
=============================================================================
