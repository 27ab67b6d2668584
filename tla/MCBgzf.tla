------------------------------- MODULE MCBgzf -------------------------------
(* Small instances of Bgzf for TLC. *)
EXTENDS Bgzf

NoFault == [k \in Blocks |-> "none"]
Faulty(kinds) == {[NoFault EXCEPT ![k] = kind] : k \in Blocks, kind \in kinds}

\* A healthy input, and every input with one damaged block.
SingleFaults == {NoFault} \cup {f \in Faulty(FaultKind) : PossibleFault(f)}

\* A healthy input, and one whose second member has a wrong CRC.
OneBadCrc == {NoFault, [NoFault EXCEPT ![1] = "crc"]}
=============================================================================
