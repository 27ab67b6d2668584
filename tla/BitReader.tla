----------------------------- MODULE BitReader ------------------------------
(***************************************************************************)
(* The bit reader and the two ways its 64-bit buffer is filled: refill of  *)
(* BitReader (one 8-byte load, or byte by byte near the end of the input), *)
(* and the refill of the inflate kernels, which work on a copy of the      *)
(* reader's state.  The kernels load unconditionally and leave bits above  *)
(* the count in the buffer; the next load ORs the same input over them.    *)
(*                                                                         *)
(* A bit of the buffer is the set of the input positions ORed into it: a   *)
(* right bit is a singleton, a bit overlaid with another position shows.   *)
(***************************************************************************)
EXTENDS Integers, Sequences

CONSTANTS
    NumBytes,       \* bytes of input
    ByteBits,       \* bits of a byte (8)
    WordBytes,      \* bytes of the buffer (8)
    MaxAsk,         \* largest refill (56)
    NEEDED,         \* bits the kernels want for one symbol (48)
    LIT_GUARD       \* bits the kernels want for a code without a refill (15)

WordBits == WordBytes * ByteBits
TotalBits == NumBytes * ByteBits

ASSUME BitReaderAssumption ==
    /\ NumBytes \in Nat /\ ByteBits \in Nat \ {0} /\ WordBytes \in Nat \ {0, 1}
    /\ MaxAsk \in 1 .. WordBits - ByteBits
    /\ NEEDED \in 1 .. MaxAsk
    /\ LIT_GUARD \in 1 .. NEEDED

VARIABLES
    byte_pos,       \* the next byte to be buffered
    bits,           \* number of valid bits in buf
    buf,            \* buf[i]: the input positions ORed into bit i
    call,           \* the last call and its argument
    got,            \* the bits returned by the last operation
    eof             \* the last operation returned UnexpectedEof

vars == <<byte_pos, bits, buf, call, got, eof>>

BitIndex == 0 .. WordBits - 1
EmptyBuf == [i \in BitIndex |-> {}]

tell_bit == byte_pos * ByteBits - bits

Init ==
    /\ byte_pos = 0 /\ bits = 0 /\ buf = EmptyBuf
    /\ call = <<"seek", 0>> /\ got = <<>> /\ eof = FALSE

-----------------------------------------------------------------------------
(* The buffer. *)

\* n bytes of input from byte at, shifted left and ORed into b.
OrInput(b, at, n, shift) ==
    [i \in BitIndex |->
        IF i >= shift /\ i < shift + n * ByteBits
        THEN b[i] \cup {at * ByteBits + i - shift} ELSE b[i]]

ShiftRight(b, n) == [i \in BitIndex |-> IF i + n < WordBits THEN b[i + n] ELSE {}]

\* State of the reader, as the refills change it.
Filled(p, n, b) == [byte_pos |-> p, bits |-> n, buf |-> b]
Now == Filled(byte_pos, bits, buf)

CanLoad(s) == s.byte_pos + WordBytes <= NumBytes

\* Bytes a byte-by-byte refill to n bits takes, if they are there.
BytesWanted(s, n) == (n - s.bits + ByteBits - 1) \div ByteBits

BytesToTake(s, n) ==
    IF BytesWanted(s, n) <= NumBytes - s.byte_pos THEN BytesWanted(s, n)
    ELSE NumBytes - s.byte_pos

\* Byte by byte until there are n bits or the input ends.
SlowRefill(s, n) ==
    LET k == BytesToTake(s, n)
    IN  Filled(s.byte_pos + k, s.bits + k * ByteBits, OrInput(s.buf, s.byte_pos, k, s.bits))

\* BitReader::refill.
Refill(s, n) ==
    LET k == (WordBits - s.bits) \div ByteBits IN
    IF s.bits >= n THEN s
    ELSE IF CanLoad(s) /\ s.bits <= WordBits - ByteBits
    THEN Filled(s.byte_pos + k, s.bits + k * ByteBits,
                OrInput(s.buf, s.byte_pos, WordBytes, s.bits))
    ELSE SlowRefill(s, n)

\* Faulty variant: the advance of BitReader::refill in the kernel.
KernelAdvanceWhole(n) == (WordBits - n) \div ByteBits

\* (63 ^ bits) >> 3
KernelAdvance(n) == (WordBits - 1 - n) \div ByteBits

\* The refill of the kernels: an unconditional load, then bits |= 56.
KernelRefill(s) ==
    IF CanLoad(s)
    THEN Filled(s.byte_pos + KernelAdvance(s.bits),
                WordBits - ByteBits + (s.bits % ByteBits),
                OrInput(s.buf, s.byte_pos, WordBytes, s.bits))
    ELSE IF s.bits < NEEDED THEN SlowRefill(s, NEEDED) ELSE s

-----------------------------------------------------------------------------
(* The operations. *)

\* Become s and consume m bits, or stay at s with UnexpectedEof when it holds
\* fewer than n bits.
TakeFrom(s, n, m) ==
    /\ call' = <<"take", n>>
    /\ byte_pos' = s.byte_pos
    /\ IF s.bits >= n
       THEN /\ got' = [i \in 1 .. m |-> s.buf[i - 1]]
            /\ bits' = s.bits - m
            /\ buf' = ShiftRight(s.buf, m)
            /\ eof' = FALSE
       ELSE /\ bits' = s.bits /\ buf' = s.buf
            /\ eof' = TRUE
            /\ UNCHANGED got

\* read(n).
Read(n) == TakeFrom(Refill(Now, n), n, n)

\* peek(n) or ensure_bits(n), then consume(m): a table lookup.
Lookup(n, m) == TakeFrom(Refill(Now, n), n, m)

\* One symbol of an inflate kernel with its extra bits.
KernelSymbol(m) == TakeFrom(KernelRefill(Now), NEEDED, m)

\* A further literal, or a length code with its extra bits, taken without a
\* refill while enough is buffered.
KernelLiteral(m) == bits >= LIT_GUARD /\ TakeFrom(Now, LIT_GUARD, m)

\* Faulty variant: the rest of the byte is not dropped.
AlignDropNone == 0

\* bits & 7: what is left of the current byte.
AlignDrop == bits % ByteBits

ByteAlign ==
    /\ call' = <<"align", 0>>
    /\ bits' = bits - AlignDrop
    /\ buf' = ShiftRight(buf, AlignDrop)
    /\ got' = <<>> /\ eof' = FALSE
    /\ UNCHANGED byte_pos

\* The reader right after it was repositioned: nothing is buffered.
SeekState(p) == Filled(p \div ByteBits, 0, EmptyBuf)

\* Faulty variant: the buffer is topped up even when nothing is discarded.
SeekDiscardAlways(p) == Refill(SeekState(p), 1)

\* The bits before p in its byte are read and discarded, if there are any.
SeekDiscard(p) == IF p % ByteBits = 0 THEN SeekState(p) ELSE Refill(SeekState(p), p % ByteBits)

SeekToBit(p) ==
    LET s == SeekDiscard(p) IN
    /\ call' = <<"seek", p>>
    /\ \/ /\ p <= TotalBits
          /\ byte_pos' = s.byte_pos
          /\ bits' = s.bits - (p % ByteBits)
          /\ buf' = ShiftRight(s.buf, p % ByteBits)
          /\ got' = <<>> /\ eof' = FALSE
       \/ /\ p > TotalBits
          /\ eof' = TRUE
          /\ UNCHANGED <<byte_pos, bits, buf, got>>

Next ==
    \/ \E n \in 1 .. MaxAsk : Read(n) \/ \E m \in 1 .. n : Lookup(n, m)
    \/ \E m \in 1 .. NEEDED : KernelSymbol(m)
    \/ \E m \in 1 .. LIT_GUARD : KernelLiteral(m)
    \/ ByteAlign
    \/ \E p \in 0 .. TotalBits + 1 : SeekToBit(p)

Spec == Init /\ [][Next]_vars

-----------------------------------------------------------------------------
(* Properties. *)

\* Types of the state.  bits stays below the word size between operations, so
\* the shift of the next unconditional load is defined.
ReaderTypeOK ==
    /\ byte_pos \in 0 .. NumBytes
    /\ bits \in 0 .. WordBits - 1
    /\ buf \in [BitIndex -> SUBSET (0 .. TotalBits - 1)]
    /\ call \in ({"take"} \X (1 .. MaxAsk)) \cup ({"align"} \X {0})
                \cup ({"seek"} \X (0 .. TotalBits + 1))
    /\ got \in Seq(SUBSET (0 .. TotalBits - 1))
    /\ eof \in BOOLEAN

\* The valid bits of the buffer are the input bits from tell_bit on, and what
\* a kernel left above them is what the next refill puts there.
BufferFaithful ==
    \A i \in BitIndex :
        IF i < bits THEN buf[i] = {tell_bit + i} ELSE buf[i] \subseteq {tell_bit + i}

Stream == INSTANCE BitStream WITH pos <- tell_bit

\* However reads, lookups, kernel symbols, alignments and seeks are mixed,
\* the reader is a cursor over the input that fails only at its end.
IsBitStream == Stream!Spec
=============================================================================
