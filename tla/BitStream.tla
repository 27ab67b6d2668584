----------------------------- MODULE BitStream ------------------------------
(***************************************************************************)
(* What the bit reader promises its users: a cursor over the bits of the   *)
(* input.  A read returns the next bits, whichever way they were buffered, *)
(* and fails exactly when fewer bits than it asks for are left; a failed   *)
(* operation does not move the cursor.  Bits are named by their position.  *)
(***************************************************************************)
EXTENDS Integers, Sequences

CONSTANTS
    NumBytes,       \* bytes of input
    ByteBits,       \* bits of a byte (8)
    MaxAsk          \* the most bits one operation may ask for (56)

VARIABLES
    pos,            \* bits consumed
    call,           \* the last call and its argument
    got,            \* the bits returned by the last operation
    eof             \* the last operation failed

streamVars == <<pos, call, got, eof>>

TotalBits == NumBytes * ByteBits

\* Bits p .. p+n-1, as a reader returns them: each made of exactly one bit.
BitsFrom(p, n) == [i \in 1 .. n |-> {p + i - 1}]

Init == pos = 0 /\ call = <<"seek", 0>> /\ got = <<>> /\ eof = FALSE

\* Ask for n bits, look at them and consume the first m.
Take(n, m) ==
    /\ call' = <<"take", n>>
    /\ pos + n <= TotalBits
    /\ got' = BitsFrom(pos, m)
    /\ pos' = pos + m
    /\ eof' = FALSE

Starve(n) ==
    /\ call' = <<"take", n>>
    /\ pos + n > TotalBits
    /\ eof' = TRUE
    /\ UNCHANGED <<pos, got>>

\* To the next byte boundary.
Align ==
    /\ call' = <<"align", 0>>
    /\ pos' = ((pos + ByteBits - 1) \div ByteBits) * ByteBits
    /\ got' = <<>> /\ eof' = FALSE

Seek(p) ==
    /\ call' = <<"seek", p>>
    /\ p <= TotalBits
    /\ pos' = p
    /\ got' = <<>> /\ eof' = FALSE

SeekBeyond(p) ==
    /\ call' = <<"seek", p>>
    /\ p > TotalBits
    /\ eof' = TRUE
    /\ UNCHANGED <<pos, got>>

Next ==
    \/ \E n \in 1 .. MaxAsk : Starve(n) \/ \E m \in 1 .. n : Take(n, m)
    \/ Align
    \/ \E p \in 0 .. TotalBits + 1 : Seek(p) \/ SeekBeyond(p)

Spec == Init /\ [][Next]_streamVars
=============================================================================
