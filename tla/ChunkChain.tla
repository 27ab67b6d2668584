---------------------------- MODULE ChunkChain ------------------------------
(***************************************************************************)
(* parallel_decode_member at the level of bits and bytes: the chunks in the*)
(* order in which the pipeline accepts them, each decoded by               *)
(* decode_one_chunk from the exact end of the one before up to a hint that *)
(* may be anywhere, then checked and sent.  That the threads of the        *)
(* pipeline accept exactly this chain is the subject of Pipeline; here it  *)
(* is what happens inside a chunk: members that start and end in it, their *)
(* alignment, trailers and headers, and the libraries that may decode all  *)
(* members but the first.                                                  *)
(*                                                                         *)
(* The first member of a chunk is decoded with markers that are resolved   *)
(* against the tail of the chunk before (Markers); out holds the resolved  *)
(* bytes.                                                                  *)
(***************************************************************************)
EXTENDS GzipInput

CONSTANTS
    Hints,         \* the bits at which the block finder may report a boundary
    Room           \* the spare output a library is first given (16 MiB)

VARIABLES
    setup, delivered, sinkOpen, status, pc,
    pos,           \* br.tell_bit(), counted from the start of the file
    hint,          \* end_bit_hint of the chunk
    first,         \* first_member
    final,         \* final_block
    out,           \* chunk.bytes
    ends,          \* member_boundaries: offset in the chunk, trailer_input_byte
    room,          \* spare output the next attempt of the library is told of
    tail,          \* prev_tail: the window before the chunk
    folded,        \* bytes of the chunk that the output stage has folded
    crcFed,        \* what cur_crc stands for
    memberUc       \* cur_uncompressed

chunkVars == <<hint, first, final, ends, room, tail, folded>>
memberVars == <<out, crcFed, memberUc>>
environment == <<input, setup, sinkOpen>>

NoHint == 8 * MemberLimit(NumBlocks - 1) + 1       \* u64::MAX

Running == status = "running"

Return(result) ==
    /\ status' = result
    /\ UNCHANGED <<environment, delivered, pc, pos, chunkVars, memberVars>>

-----------------------------------------------------------------------------
(* decode_one_chunk. *)

\* The boundaries ascend, and the last chunk has no hint.
StartChunk ==
    /\ Running /\ pc = "chunk" /\ ~final /\ hint # NoHint
    /\ hint' \in {h \in Hints \cup {NoHint} : h > hint}
    /\ first' = TRUE /\ final' = FALSE /\ ends' = <<>> /\ out' = <<>>
    /\ pc' = "top"
    /\ UNCHANGED <<environment, delivered, status, pos, room, tail, folded, crcFed, memberUc>>

\* Top of the loop.  The first member needs the speculative kernel, which is
\* never the library's.
NextMember ==
    /\ Running /\ pc = "top"
    /\ pc' = IF pos >= hint THEN "output"
             ELSE IF ~first /\ setup.backend THEN "library" ELSE "block"
    /\ room' = Room
    /\ UNCHANGED <<environment, delivered, status, pos, memberVars,
                   hint, first, final, ends, tail, folded>>

\* One block of decode_until_u16 (first member) or decode_member_u8_preload;
\* both stop at the end of a block at or after the hint.
DecodeBlock ==
    /\ Running /\ pc = "block"
    /\ \E r \in InflateBlock(pos, input.len, IF first THEN tail \o out ELSE out) :
          \/ /\ r \in Blocks
             /\ out' = out \o Bytes(OutStart[r], OutEnd(r))
             /\ pos' = BlockEnd(r)
             /\ pc' = IF r \in MemberEnds THEN "trailer"
                      ELSE IF BlockEnd(r) >= hint THEN "output" ELSE "block"
             /\ UNCHANGED <<environment, delivered, status, chunkVars, crcFed, memberUc>>
          \/ r \in {Eof, Invalid} /\ Return("deflate")

-----------------------------------------------------------------------------
(* The libraries: a member is decoded in one call. *)

\* The library decodes a member up to its end, whatever the hint, if all of
\* it is there and nothing in it is damaged.
LibraryDecodes(k) ==
    /\ \A j \in k .. LastBlock(k) : input.fault[j] # "deflate"
    /\ BlockEnd(LastBlock(k)) <= 8 * input.len

MemberOut(k) == OutEnd(LastBlock(k)) - OutStart[k]

\* Faulty variant: the output of a straddling member stays in the chunk.
LibraryOutStraddled(k, outcome) ==
    IF outcome = "overflow" THEN out ELSE out \o Bytes(OutStart[k], OutEnd(LastBlock(k)))

\* The chunk after a call: the library writes to the spare capacity of the
\* buffer, whose length is set only when the member is done.
LibraryOut(k, outcome) ==
    IF outcome = "done" THEN out \o Bytes(OutStart[k], OutEnd(LastBlock(k))) ELSE out

\* What a call with the given room comes to when the member decodes.
LibraryOutcome(k) ==
    IF MemberOut(k) > room THEN "overflow"
    ELSE IF 8 * TrailerAt(LastBlock(k)) > hint THEN "straddle" ELSE "done"

\* Faulty variant: the room of the next attempt is forgotten.
NextRoomSame == room

\* The capacity of the buffer is doubled.  What the library is told of it is
\* cut to what its type holds: 2^32 - 1 for zlib-rs.
NextRoom == Min({2 * room, setup.roomLimit})

\* The member at the position decodes to more than the library can be told
\* of: every attempt ends as the one before, while the capacity grows.
RoomExhausted ==
    /\ pc = "library"
    /\ \E k \in FirstBlocks : BlockStart[k] = pos /\ MemberOut(k) > setup.roomLimit

\* decode_member of the library: too little room doubles it and starts again;
\* a member that ends after the hint is left to decode_member_u8_preload;
\* otherwise the position is the byte of the trailer.
DecodeWithLibrary ==
    /\ Running /\ pc = "library"
    /\ \/ /\ \A k \in FirstBlocks : BlockStart[k] = pos => ~LibraryDecodes(k)
          /\ Return("deflate")
       \/ \E k \in FirstBlocks :
             LET outcome == LibraryOutcome(k) IN
             /\ BlockStart[k] = pos
             /\ outcome = "overflow" \/ LibraryDecodes(k)
             /\ out' = LibraryOut(k, outcome)
             /\ room' = IF outcome = "overflow" THEN NextRoom ELSE room
             /\ pc' = CASE outcome = "overflow" -> "library"
                        [] outcome = "straddle" -> "block"
                        [] outcome = "done"     -> "trailer"
             /\ pos' = IF outcome = "done" THEN 8 * TrailerAt(LastBlock(k)) ELSE pos
             /\ UNCHANGED <<environment, delivered, status, hint, first, final, ends, tail,
                            folded, crcFed, memberUc>>

-----------------------------------------------------------------------------
\* After the last block of a member: align, note the trailer, and go on with
\* the next header, or stop at the end of the input.
ReadTrailer ==
    LET at == BytesOfBits(pos)
        next == at + TrailerLen
        parsed == ParseHeader(next, input.len)
    IN
    /\ Running /\ pc = "trailer"
    /\ \/ next > input.len /\ Return("truncated")
       \/ next < input.len /\ parsed # "ok" /\ Return(parsed)
       \/ /\ next <= input.len /\ (next = input.len \/ parsed = "ok")
          /\ ends' = Append(ends, [offset |-> Len(out), trailer |-> at])
          /\ final' = (next = input.len)
          /\ pos' = IF final' THEN 8 * next ELSE 8 * (next + HeaderLen)
          /\ pc' = IF final' THEN "output" ELSE "top"
          /\ first' = FALSE
          /\ UNCHANGED <<environment, delivered, status, hint, room, tail, folded, memberVars>>

-----------------------------------------------------------------------------
(* The output stage. *)

\* Faulty variant: the piece of a member is taken from the start of the chunk.
PieceFromStart(offset) == SubSeq(out, 1, offset)

\* The piece of a member that ends at an offset of the chunk.
Piece(offset) == SubSeq(out, folded + 1, offset)

\* A member that ends in the chunk, against its trailer.
CheckMember ==
    /\ Running /\ pc = "output" /\ ends # <<>>
    /\ LET piece == Piece(Head(ends).offset)
           verdict == TrailerVerdict(Head(ends).trailer, crcFed \o piece, memberUc + Len(piece))
       IN  \/ verdict # "ok" /\ Return(verdict)
           \/ /\ verdict = "ok"
              /\ folded' = Head(ends).offset /\ ends' = Tail(ends)
              /\ crcFed' = <<>> /\ memberUc' = 0
              /\ UNCHANGED <<environment, delivered, status, pc, pos, out,
                             hint, first, final, room, tail>>

LastN(s, n) == IF Len(s) > n THEN SubSeq(s, Len(s) - n + 1, Len(s)) ELSE s

\* Fold in the rest, send the chunk and carry its tail; a closed sink ends
\* the decode.
SendChunk ==
    LET rest == Piece(Len(out)) IN
    /\ Running /\ pc = "output" /\ ends = <<>>
    /\ \/ ~sinkOpen /\ Return("closed")
       \/ /\ sinkOpen
          /\ delivered' = delivered \o out
          /\ crcFed' = crcFed \o rest /\ memberUc' = memberUc + Len(rest)
          /\ tail' = LastN(tail \o out, Window)
          /\ out' = <<>> /\ folded' = 0
          /\ pc' = "chunk"
          /\ UNCHANGED <<environment, status, pos, hint, first, final, ends, room>>

\* The chunk with the end of the input was the last.
Finish == Running /\ pc = "chunk" /\ final /\ Return("ok")

Step == StartChunk \/ NextMember \/ DecodeBlock \/ DecodeWithLibrary \/ ReadTrailer
        \/ CheckMember \/ SendChunk \/ Finish
=============================================================================
