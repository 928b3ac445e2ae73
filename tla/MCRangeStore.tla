---------------------------- MODULE MCRangeStore ----------------------------
(* Bounds of RangeStore for TLC: two cells and a removal of the first one,  *)
(* or two cells, a removal of the first and one of both.                    *)
EXTENDS RangeStore, TLC

CONSTANTS c1, c2, d1, d2, f1, f2, f3

MCCells == {c1, c2, d1}
MCKills == {<<d1, c1>>}
PairCells == {c1, c2, d1, d2}
PairKills == {<<d1, c1>>, <<d2, c1>>, <<d2, c2>>}
MCFrags == {f1, f2, f3}

\* Bound: faults other than crashes, of at most two kinds.
TwoFaults == Cardinality(struck) <= 2

FragSymmetry == Permutations(MCFrags)
=============================================================================
