-------------------------- MODULE MCAnimationSpecs --------------------------
(* Small instances of AnimationSpecs. *)
EXTENDS AnimationSpecs

CONSTANTS g1

\* A clip in sequence and the same clip bound to what is said.
TwoClips == {[id |-> 1, trigger |-> "enter", label |-> "none", hand |-> FALSE],
             [id |-> 1, trigger |-> g1, label |-> "rule", hand |-> FALSE]}

\* The editor against others, and the deck and an export against others.
MCCrews == {{"editor", "others"}, {"others", "legacy", "deck", "export"}}
=============================================================================
