----------------------------- MODULE GzipInput ------------------------------
(***************************************************************************)
(* The input of read_gz at the level of bits and bytes: gzip members, each *)
(* a header with one extra field, deflate blocks of given sizes and an     *)
(* 8-byte trailer, cut off after some byte and possibly damaged.  The      *)
(* blocks end at any bit; the trailer and the next header start at a byte. *)
(* The members in input.bgzf have the BC subfield of BGZF, which holds the *)
(* length of the member.                                                   *)
(*                                                                         *)
(* The n-th byte of the output has value n, so that a lost, repeated or    *)
(* misplaced byte shows.  Also here: what the crate's parsers return at a  *)
(* position when only part of the input is there.                          *)
(***************************************************************************)
EXTENDS Integers, Sequences, FiniteSetsExt

CONSTANTS
    NumBlocks,     \* deflate blocks of the whole input
    MemberEnds,    \* the blocks with BFINAL set
    StoredBlocks,  \* the blocks that are stored
    BlockBits,     \* BlockBits[k]: length of block k in bits
    BlockOut,      \* BlockOut[k]: bytes block k decodes to
    EobBits,       \* EobBits[k]: bits of its end-of-block symbol, if compressed
    HeaderLen,     \* length of a gzip header (10 bytes and its extra field)
    Window,        \* longest distance (32 KiB)
    IsizeModulus,  \* the trailer holds the length modulo this (2^32)
    Inputs         \* the inputs considered: damage and length

VARIABLE input     \* [fault, len, bgzf]: damage, bytes there are, BGZF members

Blocks == 0 .. NumBlocks - 1
TrailerLen == 8
MinHeader == 10
NEEDED == 48       \* bits a kernel wants buffered before it decodes a symbol

FaultKind == {"header", "deflate", "crc", "isize"}

\* Results of InflateBlock that are not a block: DeflateError::UnexpectedEof
\* and DeflateError::Invalid.
Eof == -1
Invalid == -2

-----------------------------------------------------------------------------
(* Layout. *)

BytesOfBits(n) == (n + 7) \div 8

\* The bit at which block k starts.
BlockStart[k \in Blocks] ==
    IF k = 0 THEN 8 * HeaderLen
    ELSE IF k - 1 \in MemberEnds
    THEN 8 * (BytesOfBits(BlockStart[k - 1] + BlockBits[k - 1]) + TrailerLen + HeaderLen)
    ELSE BlockStart[k - 1] + BlockBits[k - 1]

BlockEnd(k) == BlockStart[k] + BlockBits[k]
TrailerAt(k) == BytesOfBits(BlockEnd(k))
MemberLimit(k) == TrailerAt(k) + TrailerLen

MemberStart(k) ==
    CHOOSE s \in 0 .. k :
        /\ s = 0 \/ s - 1 \in MemberEnds
        /\ \A j \in s .. k - 1 : j \notin MemberEnds

FirstBlocks == {k \in Blocks : MemberStart(k) = k}
LastBlock(k) == Min({e \in MemberEnds : e >= k})
HeaderAt(k) == (BlockStart[k] \div 8) - HeaderLen

OutStart[k \in Blocks] == IF k = 0 THEN 0 ELSE OutStart[k - 1] + BlockOut[k - 1]
OutEnd(k) == OutStart[k] + BlockOut[k]

\* Output bytes lo .. hi-1.
Bytes(lo, hi) == [i \in 1 .. hi - lo |-> lo + i - 1]

ASSUME GzipInputAssumption ==
    /\ NumBlocks \in Nat \ {0} /\ Window \in Nat \ {0} /\ IsizeModulus \in Nat \ {0}
    /\ MemberEnds \subseteq Blocks /\ NumBlocks - 1 \in MemberEnds
    /\ StoredBlocks \subseteq Blocks
    /\ HeaderLen \in Nat /\ HeaderLen >= MinHeader
    /\ BlockBits \in [Blocks -> Nat \ {0}] /\ BlockOut \in [Blocks -> Nat]
    /\ EobBits \in [Blocks -> 1 .. 15]
    /\ \A k \in Blocks : IF k \in StoredBlocks
                         THEN BlockEnd(k) % 8 = 0
                         ELSE BlockBits[k] >= EobBits[k] + 3
    /\ \A i \in Inputs :
          /\ i.len \in 0 .. MemberLimit(NumBlocks - 1)
          /\ i.bgzf \subseteq FirstBlocks
          /\ i.fault \in [Blocks -> FaultKind \cup {"none"}]
          /\ \A k \in Blocks :
                /\ i.fault[k] = "header" => k \in FirstBlocks
                /\ i.fault[k] \in {"crc", "isize"} => k \in MemberEnds

-----------------------------------------------------------------------------
(* The parsers, when the first avail bytes of the input are there. *)

\* parse_header at a byte: the fixed part must be there before anything is
\* looked at, the optional fields before the length is known.
ParseHeader(at, avail) ==
    LET here == {k \in FirstBlocks : HeaderAt(k) = at} IN
    IF avail - at < MinHeader THEN "truncated"
    ELSE IF \A k \in here : input.fault[k] = "header" THEN "header"
    ELSE IF avail - at < HeaderLen THEN "truncated"
    ELSE "ok"

NoBlockSize == 0

\* parse_bgzf_block_size at a byte: the length of the member, if its header
\* is there up to the end of a BC subfield.  It looks at fewer fields than
\* parse_header, so that a damaged header may pass or not.
ParseBgzfBlockSize(at, avail) ==
    LET here == {k \in input.bgzf : HeaderAt(k) = at /\ avail - at >= HeaderLen} IN
    IF here = {} THEN {NoBlockSize}
    ELSE UNION {{MemberLimit(LastBlock(k)) - at}
                \cup (IF input.fault[k] = "header" THEN {NoBlockSize} ELSE {}) : k \in here}

\* Faulty variant: more look-ahead than the 8-byte trailer guarantees.
NeedsBitsTooMany(k) == BlockEnd(k) + 8 * TrailerLen + 8

\* Bits that must be there for block k to decode: a stored block reads its
\* own bits only, a compressed one wants NEEDED bits before every symbol,
\* its end-of-block symbol included.
NeedsBits(k) ==
    IF k \in StoredBlocks THEN BlockEnd(k) ELSE BlockEnd(k) - EobBits[k] + NEEDED

\* The history a block may refer to is at the end of out.
HasHistory(k, out) ==
    LET n == Min({Window, OutStart[k] - OutStart[MemberStart(k)]}) IN
    /\ Len(out) >= n
    /\ SubSeq(out, Len(out) - n + 1, Len(out)) = Bytes(OutStart[k] - n, OutStart[k])

\* inflate_block, decode_one_block at a bit: the block decoded, or an error.
\* Damaged data, and data that is not the start of a block, may be refused at
\* once or only after all the bits that are there.
InflateBlock(bit, avail, out) ==
    LET here == {k \in Blocks : /\ BlockStart[k] = bit
                                /\ input.fault[k] # "deflate"
                                /\ HasHistory(k, out)}
    IN  IF here = {} THEN {Eof, Invalid}
        ELSE {IF NeedsBits(k) <= 8 * avail THEN k ELSE Eof : k \in here}

\* The trailer at a byte against what was fed to the CRC and counted.
TrailerVerdict(at, crcFed, uncompressed) ==
    LET here == {k \in MemberEnds : TrailerAt(k) = at}
        Length(k) == OutEnd(k) - OutStart[MemberStart(k)]
    IN  IF \A k \in here : \/ input.fault[k] = "crc"
                           \/ crcFed # Bytes(OutStart[MemberStart(k)], OutEnd(k))
        THEN "crc"
        ELSE IF \A k \in here : \/ input.fault[k] = "isize"
                                \/ uncompressed % IsizeModulus # Length(k) % IsizeModulus
        THEN "isize"
        ELSE "ok"
=============================================================================
