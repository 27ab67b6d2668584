----------------------------- MODULE SerialPipe -----------------------------
(***************************************************************************)
(* Serial decode of a pipe (read_gz_streaming): one thread that reads the  *)
(* source in pieces of any size into a growing buffer, decodes block by    *)
(* block, and starts a block again when the buffer ended inside it.        *)
(*                                                                         *)
(* The buffer holds the input bytes base .. filled-1; bitOff bits of its   *)
(* first byte are already consumed.  One action is one pass of a loop of   *)
(* the code: it ends at the next read of the source.  ReadGz composes this *)
(* decoder with the other ways to decode.                                  *)
(***************************************************************************)
EXTENDS GzipInput

CONSTANT ReadMax   \* STREAM_CHUNK: the most one read returns (64 KiB)

VARIABLES
    delivered, sinkOpen, status, pc,
    base,          \* input position of buf[0]
    filled,        \* input position after the last byte of buf
    bitOff,        \* sb.bit_off
    srcEof,        \* sb.src_eof
    bfinal,        \* result of the last decode_block
    out,           \* decoded bytes not yet sent, and the window
    crcFed,        \* what crc_hasher has been fed in this member
    memberUc,      \* member_uc
    member         \* members completed

bufVars == <<base, filled, bitOff, srcEof>>
memberVars == <<bfinal, out, crcFed, memberUc, member>>

-----------------------------------------------------------------------------
BufLen == filled - base

\* Faulty variant: the source is read to its end.
FillMoreToEnd ==
    /\ filled' = input.len
    /\ srcEof' = (srcEof \/ filled' = filled)
    /\ UNCHANGED <<base, bitOff, status>>

\* fill_more: a read returns at least one byte unless the input is at its end.
FillMore ==
    /\ filled' \in IF filled = input.len THEN {filled}
                   ELSE filled + 1 .. Min({filled + ReadMax, input.len})
    /\ srcEof' = (srcEof \/ filled' = filled)
    /\ UNCHANGED <<base, bitOff, status>>

\* The read of fill_more fails; the error is returned.
ReadFails ==
    /\ status' = "io"
    /\ UNCHANGED bufVars

Return(result) ==
    /\ status' = result
    /\ UNCHANGED <<pc, bufVars, memberVars>>

\* Faulty variant: the end of the source is not looked at before reading on.
FillOrTruncatedForever ==
    /\ FillMore \/ ReadFails
    /\ UNCHANGED <<pc, memberVars>>

\* More input is needed here: read on, or the input is truncated.
FillOrTruncated ==
    \/ srcEof /\ Return("truncated")
    \/ ~srcEof /\ (FillMore \/ ReadFails) /\ UNCHANGED <<pc, memberVars>>

Running == status = "running"
Quiet == UNCHANGED <<input, delivered, sinkOpen>>

-----------------------------------------------------------------------------
Prime ==
    /\ Running /\ pc = "prime"
    /\ FillMore \/ ReadFails
    /\ pc' = "member"
    /\ Quiet /\ UNCHANGED memberVars

\* Top of the member loop: an empty buffer here is the end of the stream.
NextMember ==
    /\ Running /\ pc = "member"
    /\ \/ BufLen = 0 /\ Return(IF member = 0 THEN "truncated" ELSE "ok")
       \/ BufLen > 0 /\ pc' = "header" /\ UNCHANGED <<status, bufVars, memberVars>>
    /\ Quiet

ReadGzipHeader ==
    LET parsed == ParseHeader(base, filled) IN
    /\ Running /\ pc = "header"
    /\ \/ /\ parsed = "ok"
          /\ base' = base + HeaderLen
          /\ pc' = "block"
          /\ out' = <<>> /\ crcFed' = <<>> /\ memberUc' = 0
          /\ UNCHANGED <<status, filled, bitOff, srcEof, bfinal, member>>
       \/ parsed = "truncated" /\ FillOrTruncated
       \/ parsed = "header" /\ Return("header")
    /\ Quiet

\* Faulty variant: the whole position is kept.
NextBitOffWhole(pos) == pos

\* The sub-byte position after a block.
NextBitOff(pos) == pos % 8

\* One pass of decode_block: decode from the start of the block with what is
\* buffered; drain what a complete block consumed, or drop its output and
\* read on.
DecodeBlock ==
    /\ Running /\ pc = "block"
    /\ \E r \in InflateBlock(8 * base + bitOff, filled, out) :
          \/ /\ r \in Blocks
             /\ out' = out \o Bytes(OutStart[r], OutEnd(r))
             /\ bfinal' = (r \in MemberEnds)
             /\ base' = BlockEnd(r) \div 8
             /\ bitOff' = NextBitOff(BlockEnd(r))
             /\ pc' = "emit"
             /\ UNCHANGED <<status, filled, srcEof, crcFed, memberUc, member>>
          \/ r = Eof /\ FillOrTruncated
          \/ r = Invalid /\ Return("deflate")
    /\ Quiet

\* Faulty variant: the output is sent member by member.
EmitEndOfMember == IF bfinal THEN Len(out) ELSE 0

\* Up to where out is sent: all of it after the last block of a member,
\* otherwise all but the window.
EmitEnd == IF bfinal THEN Len(out)
           ELSE IF Len(out) > Window THEN Len(out) - Window ELSE 0

\* Send what may be sent (a closed sink is ignored), feed it to the CRC, and
\* keep the window.
Emit ==
    LET new == SubSeq(out, 1, EmitEnd) IN
    /\ Running /\ pc = "emit"
    /\ delivered' = IF sinkOpen THEN delivered \o new ELSE delivered
    /\ crcFed' = crcFed \o new
    /\ memberUc' = memberUc + Len(new)
    /\ out' = SubSeq(out, EmitEnd + 1, Len(out))
    /\ pc' = IF bfinal THEN "align" ELSE "block"
    /\ UNCHANGED <<input, sinkOpen, status, bufVars, bfinal, member>>

ByteAlign ==
    /\ Running /\ pc = "align"
    /\ IF bitOff > 0 /\ BufLen > 0
       THEN base' = base + 1 /\ bitOff' = 0
       ELSE UNCHANGED <<base, bitOff>>
    /\ pc' = "trailer"
    /\ Quiet /\ UNCHANGED <<status, filled, srcEof, memberVars>>

\* One pass of read_bytes::<8>, then the checks of the trailer.
ReadTrailer ==
    LET verdict == TrailerVerdict(base, crcFed, memberUc) IN
    /\ Running /\ pc = "trailer"
    /\ \/ BufLen < TrailerLen /\ FillOrTruncated
       \/ /\ BufLen >= TrailerLen /\ verdict # "ok"
          /\ Return(verdict)
       \/ /\ BufLen >= TrailerLen /\ verdict = "ok"
          /\ base' = base + TrailerLen
          /\ member' = member + 1
          /\ pc' = "peek"
          /\ UNCHANGED <<status, filled, bitOff, srcEof, bfinal, out, crcFed, memberUc>>
    /\ Quiet

\* Faulty variant: no read between members.
MustPeekNever == FALSE

MustPeek == BufLen = 0 /\ ~srcEof

PeekNext ==
    /\ Running /\ pc = "peek"
    /\ IF MustPeek THEN FillMore \/ ReadFails ELSE UNCHANGED <<status, bufVars>>
    /\ pc' = "member"
    /\ Quiet /\ UNCHANGED memberVars

Step ==
    \/ Prime \/ NextMember \/ ReadGzipHeader \/ DecodeBlock \/ Emit
    \/ ByteAlign \/ ReadTrailer \/ PeekNext
=============================================================================
