---------------------------- MODULE MCRangeGate ----------------------------
(* RangeGate on small instances. *)
EXTENDS RangeGate, TLC

\* The requests of one kind are interchangeable.
Symmetry == Permutations(Adds) \cup Permutations(Scans)
=============================================================================
