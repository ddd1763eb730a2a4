--------------------------- MODULE MCScriptDraft ---------------------------
(* Two pages, two executions that overlap after a fault. *)
EXTENDS ScriptDraft, TLC

Symmetry == Permutations(Pages) \cup Permutations(Exes)
=============================================================================
