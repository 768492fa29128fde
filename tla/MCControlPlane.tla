--------------------------- MODULE MCControlPlane ---------------------------
(* The instances of ControlPlane that TLC explores.                         *)
EXTENDS ControlPlane

CONSTANTS p1, p2, r1

Three == {p1, p2, r1}
BothPauses == {p1, p2}

=============================================================================
