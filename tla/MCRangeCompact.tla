--------------------------- MODULE MCRangeCompact ---------------------------
(* RangeCompact with few blocks; it has no sets to give. *)
EXTENDS RangeCompact
=============================================================================
