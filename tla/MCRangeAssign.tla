--------------------------- MODULE MCRangeAssign ----------------------------
(* RangeAssign with two ranges, two rangers and two requests at a time. *)
EXTENDS RangeAssign

CONSTANTS r1, r2, g1, g2, c1, c2

TwoRanges == {r1, r2}
NoRanges == {}
TwoRangers == {g1, g2}
TwoCalls == {c1, c2}
=============================================================================
