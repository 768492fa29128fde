---------------------------- MODULE MCRulesFile ----------------------------
(* The instances of RulesFile that TLC explores.                            *)
EXTENDS RulesFile, TLC

CONSTANTS e1, e2

Two == {e1, e2}
Symmetric == Permutations(Two)

=============================================================================
