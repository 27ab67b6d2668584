----------------------------- MODULE SerialFile -----------------------------
(***************************************************************************)
(* serial_decode_member, the decode of a mapped file with one thread, after*)
(* the first header.  The whole input is there; output is handed over in   *)
(* pieces of about ChunkTarget bytes, each time with a new buffer that     *)
(* starts with the window.  ReadGz composes this decoder with the others.  *)
(***************************************************************************)
EXTENDS GzipInput

CONSTANT ChunkTarget   \* chunk_target: config.chunk_size_bytes, at least 64 KiB

VARIABLES
    delivered, sinkOpen, status, pc,
    pos,           \* br.tell_bit(), counted from the start of the file
    bfinal,        \* result of the last decode_one_block
    out,           \* decoded bytes not yet handed over, with the window
    crcFed,        \* what member_crc has been fed since it was last replaced
    memberUc       \* member_uncompressed

memberVars == <<bfinal, out, crcFed, memberUc>>

Running == status = "running"
Return(result) ==
    /\ status' = result
    /\ UNCHANGED <<input, delivered, sinkOpen, pc, pos, memberVars>>

\* An error of the kernel, the end of the input included, is returned.
DecodeOneBlock ==
    /\ Running /\ pc = "block"
    /\ \E r \in InflateBlock(pos, input.len, out) :
          \/ /\ r \in Blocks
             /\ out' = out \o Bytes(OutStart[r], OutEnd(r))
             /\ bfinal' = (r \in MemberEnds)
             /\ pos' = BlockEnd(r)
             /\ pc' = IF bfinal' THEN "flush" ELSE "emit"
             /\ UNCHANGED <<input, delivered, sinkOpen, status, crcFed, memberUc>>
          \/ r \in {Eof, Invalid} /\ Return("deflate")

\* Faulty variant: the member is sent in one piece.
ChunkReadyNever == FALSE

\* Faulty variant: the chunk size is left out of the test.
ChunkReadyWindowOnly == Len(out) >= Window

ChunkReady == Len(out) >= ChunkTarget + Window

\* Faulty variant: one byte more than the window is carried over.
CarriedTooMuch(n) == SubSeq(out, n, Len(out))

\* The window that starts the next buffer when n bytes are handed over.
Carried(n) == SubSeq(out, n + 1, Len(out))

\* Inside a member: hand over all but the window, if that is a whole chunk.
\* The CRC is fed before the send; a closed sink ends the decode with Ok.
EmitChunk ==
    LET n == Len(out) - Window IN
    /\ Running /\ pc = "emit"
    /\ \/ /\ ~ChunkReady
          /\ pc' = "block"
          /\ UNCHANGED <<input, delivered, sinkOpen, status, pos, memberVars>>
       \/ /\ ChunkReady /\ sinkOpen
          /\ delivered' = delivered \o SubSeq(out, 1, n)
          /\ crcFed' = crcFed \o SubSeq(out, 1, n)
          /\ memberUc' = memberUc + n
          /\ out' = Carried(n)
          /\ UNCHANGED <<input, sinkOpen, status, pc, pos, bfinal>>
       \/ ChunkReady /\ ~sinkOpen /\ Return("closed")

\* After the last block of a member: hand over everything.  An empty member
\* sends nothing.
FlushMember ==
    /\ Running /\ pc = "flush"
    /\ \/ /\ sinkOpen \/ out = <<>>
          /\ delivered' = delivered \o out
          /\ crcFed' = crcFed \o out
          /\ memberUc' = memberUc + Len(out)
          /\ out' = <<>>
          /\ pc' = "trailer"
          /\ UNCHANGED <<input, sinkOpen, status, pos, bfinal>>
       \/ ~sinkOpen /\ out # <<>> /\ Return("closed")

\* Align, check the trailer, and go on with the header of the next member.
CheckTrailer ==
    LET at == BytesOfBits(pos)
        verdict == TrailerVerdict(at, crcFed, memberUc)
        next == at + TrailerLen
        parsed == ParseHeader(next, input.len)
    IN
    /\ Running /\ pc = "trailer"
    /\ \/ next > input.len /\ Return("truncated")
       \/ next <= input.len /\ verdict # "ok" /\ Return(verdict)
       \/ next = input.len /\ verdict = "ok" /\ Return("ok")
       \/ next < input.len /\ verdict = "ok" /\ parsed # "ok" /\ Return(parsed)
       \/ /\ next < input.len /\ verdict = "ok" /\ parsed = "ok"
          /\ crcFed' = <<>> /\ memberUc' = 0
          /\ pos' = 8 * (next + HeaderLen)
          /\ pc' = "block"
          /\ UNCHANGED <<input, delivered, sinkOpen, status, bfinal, out>>

Step == DecodeOneBlock \/ EmitChunk \/ FlushMember \/ CheckTrailer
=============================================================================
