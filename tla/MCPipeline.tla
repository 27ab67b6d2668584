----------------------------- MODULE MCPipeline -----------------------------
(* Small instances of Pipeline for TLC. *)
EXTENDS Pipeline, TLC

NoFault == [k \in Blocks |-> "none"]

\* The healthy input.
HealthyInputs == {NoFault}

\* Every input with exactly one damaged block, and two with two of them:
\* a bad trailer before a block that does not decode, and the reverse.
SingleFaults ==
    {f \in {[NoFault EXCEPT ![k] = kind] : k \in Blocks, kind \in FaultKind} :
        PossibleFault(f)}
DoubleFaults ==
    {f \in {[NoFault EXCEPT ![0] = a, ![NumBlocks - 1] = b] : a, b \in FaultKind} :
        PossibleFault(f)}
DamagedInputs == SingleFaults \cup DoubleFaults

\* The first block does not decode: stage A leaves while dispatch is busy.
EarlyDamage == {[NoFault EXCEPT ![0] = "decode"]}

\* Chunks of one block with the cap on, whatever the block finder finds.
Capped == [chunkBits |-> 2, inflightFactor |-> 1, finds |-> SUBSET (1 .. EndOfInput - 1)]

\* The cap is off and the chunks are so small that dispatch is still sending
\* when the workers are gone.
Uncapped == [chunkBits |-> 1, inflightFactor |-> 0, finds |-> {1 .. 4}]

AnyInput == [Blocks -> FaultKind \cup {"none"}]
CappedConfigs == [f \in AnyInput |-> {Capped}]
AllConfigs == [f \in AnyInput |-> {Capped} \cup IF f \in EarlyDamage THEN {Uncapped} ELSE {}]

AllInputs == HealthyInputs \cup DamagedInputs

Symmetry == Permutations(Workers) \cup Permutations(Resolvers)
=============================================================================
