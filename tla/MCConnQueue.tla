---------------------------- MODULE MCConnQueue -----------------------------
(* ConnQueue with two requests at a time. *)
EXTENDS ConnQueue

CONSTANTS r1, r2

TwoReqs == {r1, r2}

=============================================================================
