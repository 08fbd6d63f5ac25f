------------------------------- MODULE MCLeb -------------------------------
(***************************************************************************)
(* Nodes for Leb with codes of one, two and three groups, on both sides of *)
(* each boundary.                                                          *)
(***************************************************************************)
EXTENDS Leb

BoundaryCodes == {0, 7, 8, 64, 255}
BoundaryNodes == [var : {0, 9}, lo : BoundaryCodes, hi : BoundaryCodes]
=============================================================================
