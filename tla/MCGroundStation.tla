--------------------------- MODULE MCGroundStation ---------------------------
(* Instances of GroundStation for TLC. *)
EXTENDS GroundStation, TLC

CONSTANTS d1, p1, s1, s2

OneDrone == {d1}
OnePage == {p1}
TwoSockets == {s1, s2}

=============================================================================
