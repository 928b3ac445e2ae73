---------------------------- MODULE MCRangeOwner ----------------------------
(* RangeOwner with few rangers and requests. *)
EXTENDS RangeOwner

CONSTANTS g1, g2

TwoRangers == {g1, g2}
=============================================================================
