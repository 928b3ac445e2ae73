---------------------------- MODULE MCBlockLoad -----------------------------
(***************************************************************************)
(* A stored cell before the split, two updates after it, of which one may  *)
(* split the block while the other is on its way to it, and a scan that is *)
(* repeated.                                                               *)
(***************************************************************************)
EXTENDS BlockLoad, TLC

CONSTANTS u1, u2, s1, r1

TwoUpdates == {u1, u2}
OneStored == {s1}
BothUpper == {u1, u2}
OneScan == {r1}

=============================================================================
