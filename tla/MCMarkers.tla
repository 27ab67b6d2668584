----------------------------- MODULE MCMarkers ------------------------------
(* Every literal and every byte of the history has a value of its own, so   *)
(* that a byte taken from the wrong place shows.                            *)
EXTENDS Markers

MCText == [k \in 1 .. MaxOut |-> k]
MCHistory == [k \in 1 .. Window |-> 200 + k - 1]
=============================================================================
