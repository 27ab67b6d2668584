---------------------------- MODULE OrderedDecode ---------------------------
(***************************************************************************)
(* What every decode driver of the crate promises its caller, whatever     *)
(* threads, queues and speculation it uses: the sink receives the decoded  *)
(* bytes in order and nothing else; no byte at or after the first damaged  *)
(* block is ever delivered; Ok means that the whole input was delivered    *)
(* and validated; an error names damage that is really in the input; and   *)
(* a consumer that hangs up ends the decode early ("closed", which some    *)
(* drivers report as Ok and some as a broken pipe).                        *)
(***************************************************************************)
EXTENDS GzStream

VARIABLES
    delivered,     \* the decoded bytes handed to the sink so far
    status         \* "running", or what the decode returned

promiseVars == <<fault, delivered, status>>

Init ==
    /\ fault \in InputFaults
    /\ delivered = <<>>
    /\ status = "running"

\* The next chunk of output goes to the sink (it may be empty).
Deliver ==
    /\ status = "running"
    /\ \E n \in Len(delivered) .. NumBlocks :
          /\ \A k \in 0 .. n - 1 : fault[k] = "none"
          /\ delivered' = Bytes(0, n)
    /\ UNCHANGED <<fault, status>>

Succeed ==
    /\ status = "running"
    /\ delivered = TrueOutput
    /\ Healthy
    /\ status' = "ok"
    /\ UNCHANGED <<fault, delivered>>

Fail ==
    /\ status = "running"
    /\ \E k \in Blocks : fault[k] # "none" /\ status' = fault[k]
    /\ UNCHANGED <<fault, delivered>>

\* The consumer dropped its end of the sink.
HangUp ==
    /\ status = "running"
    /\ status' = "closed"
    /\ UNCHANGED <<fault, delivered>>

\* Reading the input failed.
SourceFails ==
    /\ status = "running"
    /\ status' = "io"
    /\ UNCHANGED <<fault, delivered>>

Next == Deliver \/ Succeed \/ Fail \/ HangUp \/ SourceFails

Spec == Init /\ [][Next]_promiseVars
=============================================================================
