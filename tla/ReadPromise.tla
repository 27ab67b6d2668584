---------------------------- MODULE ReadPromise -----------------------------
(***************************************************************************)
(* What read_gz promises, whichever way it decodes.  The serial decoders   *)
(* send the last bytes of a member before they have seen its trailer, so   *)
(* this is weaker than OrderedDecode: the bytes of a member whose trailer  *)
(* is wrong are delivered.  What does hold: the sink receives the output in*)
(* order and nothing after the first damage; an error names damage of the  *)
(* input; Ok means that all members are complete and checked and, unless   *)
(* the consumer hung up, delivered.  The serial decoders promise more: the *)
(* error names the first damage, and every member before it arrives in     *)
(* full.                                                                   *)
(***************************************************************************)
EXTENDS GzipInput

CONSTANT Setups    \* the calls and builds considered

VARIABLES
    setup,         \* [source, threads, backend]: how read_gz is called and built
    delivered,     \* the bytes the consumer has been sent
    sinkOpen,      \* the consumer still holds its end
    status         \* "running", or what the decode returned

promiseVars == <<input, setup, delivered, sinkOpen, status>>

\* Block k is there and decodes.
Decodes(k) ==
    /\ input.fault[k] \notin {"header", "deflate"}
    /\ BlockEnd(k) <= 8 * input.len

\* Nothing is wrong with block k, nor with the trailer after it.
Sound(k) ==
    /\ input.fault[k] = "none"
    /\ BlockEnd(k) <= 8 * input.len
    /\ k \in MemberEnds => MemberLimit(k) <= input.len

\* The blocks of the members of which at least one byte is there.
Present == {k \in Blocks : HeaderAt(MemberStart(k)) < input.len}
Damaged == {k \in Present : ~Sound(k)}

\* What a damaged block may be reported as.  A library that decodes whole
\* BGZF members does not say what is wrong with one.
Causes(k) ==
    LET cut == IF k \in MemberEnds THEN MemberLimit(k) > input.len
                                   ELSE BlockEnd(k) > 8 * input.len
    IN  ({input.fault[k]} \ {"none"}) \cup
        (IF \/ cut \/ input.fault[k] = "deflate"
            \/ setup.backend /\ MemberStart(k) \in input.bgzf
         THEN {"truncated", "deflate"} ELSE {})

Serial == setup.threads = 1 /\ (setup.source = "file" => 0 \notin input.bgzf)

Init ==
    /\ input \in Inputs /\ setup \in Setups
    /\ delivered = <<>>
    /\ sinkOpen = TRUE
    /\ status = "running"

Deliver ==
    /\ status = "running" /\ sinkOpen
    /\ \E k \in Present :
          /\ Decodes(k) /\ \A j \in 0 .. k - 1 : Sound(j)
          /\ \E n \in Len(delivered) .. OutEnd(k) : delivered' = Bytes(0, n)
    /\ UNCHANGED <<input, setup, sinkOpen, status>>

Succeed ==
    /\ status = "running"
    /\ Present # {} /\ Damaged = {}
    /\ sinkOpen => delivered = Bytes(0, OutEnd(Max(Present)))
    /\ status' = "ok"
    /\ UNCHANGED <<input, setup, delivered, sinkOpen>>

Fail ==
    /\ status = "running"
    /\ \/ Present = {} /\ status' = "truncated"
       \/ /\ Damaged # {}
          /\ \E k \in Damaged : status' \in Causes(k) /\ (Serial => k = Min(Damaged))
          /\ Serial /\ sinkOpen => Len(delivered) >= OutStart[MemberStart(Min(Damaged))]
    /\ UNCHANGED <<input, setup, delivered, sinkOpen>>

HangUp ==
    /\ status = "running" /\ sinkOpen
    /\ sinkOpen' = FALSE
    /\ UNCHANGED <<input, setup, delivered, status>>

\* The decoder noticed that the consumer is gone.
Stop ==
    /\ status = "running" /\ ~sinkOpen
    /\ status' = "closed"
    /\ UNCHANGED <<input, setup, delivered, sinkOpen>>

SourceFails ==
    /\ status = "running"
    /\ status' = "io"
    /\ UNCHANGED <<input, setup, delivered, sinkOpen>>

Next == Deliver \/ Succeed \/ Fail \/ HangUp \/ Stop \/ SourceFails

Spec == Init /\ [][Next]_promiseVars
=============================================================================
