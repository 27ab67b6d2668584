--------------------------- MODULE MCBlockFinder ----------------------------
(***************************************************************************)
(* Two windows of data with at most two bits set.                          *)
(***************************************************************************)
EXTENDS BlockFinder

MCDataSet ==
    {[p \in Position |-> IF p \in {a, b} THEN 1 ELSE 0] : a, b \in Position}
=============================================================================
