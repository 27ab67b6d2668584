---------------------------- MODULE MCStreaming -----------------------------
(* Small instances of Streaming for TLC. *)
EXTENDS Streaming

NoFault == [k \in Blocks |-> "none"]
HealthyInputs == {NoFault}

\* A healthy input, and one damaged in its first block, in the middle of a
\* member, and in the trailer of its first member.
OneDamage ==
    {NoFault, [NoFault EXCEPT ![0] = "resolve"], [NoFault EXCEPT ![2] = "decode"],
     [NoFault EXCEPT ![1] = "crc"]}

\* A block finder that accepts block starts only, and one that may also accept
\* a position inside a block.
TrueStarts == {Bit(k) : k \in 1 .. NumBlocks - 1}
AnyStarts == 1 .. EndOfInput - 1
=============================================================================
