--------------------------- MODULE MCCollaboration ---------------------------
(* Instances of Collaboration for TLC.                                     *)
EXTENDS Collaboration, TLC

CONSTANTS boss, r1, r2, m1, m2, m3

TwoRoles == {r1, r2}
ThreeMerges == {m1, m2, m3}
NoHazards == {}

=============================================================================
