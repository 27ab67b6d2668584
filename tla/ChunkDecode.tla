----------------------------- MODULE ChunkDecode ----------------------------
(***************************************************************************)
(* Decoding one chunk of the body and fixing it up against its             *)
(* predecessor: the sequential helpers the parallel drivers share          *)
(* (decode_one_chunk, build_prev_tail_fast, resolve_markers and the check  *)
(* of a member's trailer).                                                 *)
(***************************************************************************)
EXTENDS GzStream, FiniteSetsExt

(***************************************************************************)
(* Result of decoding a chunk.  A decode from a true block start yields    *)
(* the blocks first .. next-1 and stops at Bit(next); a decode from a      *)
(* false start that happens not to fail yields bytes of no block           *)
(* (first = next = Corrupt) and stops anywhere.                            *)
(***************************************************************************)
DecodeResult ==
    [ok : BOOLEAN, first : Value \cup {NumBlocks}, next : Value \cup {NumBlocks},
     end : Position, final : BOOLEAN]

DecodeError == [ok |-> FALSE, first |-> Corrupt, next |-> Corrupt,
                end |-> 0, final |-> FALSE]

\* Faulty variant: a chunk also swallows a block that starts at the hint.
StopBlockPastHint(k, hint) ==
    CHOOSE e \in k .. NumBlocks :
        /\ e = NumBlocks \/ Bit(e) > hint
        /\ \A j \in k .. e - 1 : Bit(j) <= hint

\* The block at which a decode from block k stops: the first one at or past
\* the hint, or the end of the input.
StopBlock(k, hint) ==
    CHOOSE e \in k .. NumBlocks :
        /\ e = NumBlocks \/ Bit(e) >= hint
        /\ \A j \in k .. e - 1 : Bit(j) < hint

\* Faulty variant: the end of any member taken for the end of the input.
ReachesMemberEnd(k, e) == k < e /\ e - 1 \in MemberEnds

\* final_block: the trailer of the last member is inside the chunk.
ReachesEnd(k, e) == k < e /\ e = NumBlocks

\* Decode from the true start of block k: every block before the stop must
\* decode.  There is nothing to decode at the end of the input.
DecodeBlocks(k, hint) ==
    LET e == StopBlock(k, hint) IN
    IF (\E j \in k .. e - 1 : fault[j] = "decode") \/ (k = NumBlocks /\ EndOfInput < hint)
    THEN DecodeError
    ELSE [ok |-> TRUE, first |-> k, next |-> e, end |-> Bit(e),
          final |-> ReachesEnd(k, e)]

\* Decode from a false start: an error, or garbage that ends at or past the
\* hint and may even look like the end of the last member.
DecodeGarbage(start, hint) ==
    {DecodeError} \cup
    {[ok |-> TRUE, first |-> Corrupt, next |-> Corrupt, end |-> e, final |-> e = EndOfInput] :
        e \in {p \in start + 1 .. EndOfInput : p = EndOfInput \/ p >= hint}}

\* decode_one_chunk: what a decode of [start, hint) may return.
DecodeOneChunk(start, hint) ==
    {DecodeBlocks(k, hint) : k \in {j \in 0 .. NumBlocks : start = Bit(j)}}
    \cup (IF start \in FalseStarts THEN DecodeGarbage(start, hint) ELSE {})

-----------------------------------------------------------------------------
(* The window chain. *)

\* resolve_markers: the bytes of a chunk once its markers are patched from
\* the tail of the output before it.  They are right only if the chunk
\* started at a true block and the tail is the window at that block.
ResolvedBytes(first, next, tail) ==
    IF first = Corrupt THEN <<Corrupt>>
    ELSE IF tail = WindowAt(first) THEN Bytes(first, next)
    ELSE [i \in 1 .. (next - first) |-> Corrupt]

\* A marker that reaches before the start of the output cannot be resolved.
Unresolvable(first, next) ==
    first # Corrupt /\ \E k \in first .. next - 1 : fault[k] = "resolve"

LastN(s, n) == IF Len(s) > n THEN SubSeq(s, Len(s) - n + 1, Len(s)) ELSE s

\* Faulty variant: a chunk shorter than the window forgets the tail before it.
NextTailOwnBytes(first, next, tail) == LastN(ResolvedBytes(first, next, tail), Window)

\* build_prev_tail_fast: the last Window of the chunk's own resolved bytes,
\* preceded by what is missing from the previous tail when the chunk is
\* shorter than the window.
NextTail(first, next, tail) ==
    LET bytes == ResolvedBytes(first, next, tail) IN
    IF Len(bytes) < Window
    THEN LastN(tail, Window - Len(bytes)) \o bytes
    ELSE LastN(bytes, Window)

-----------------------------------------------------------------------------
(* Trailer validation, member by member, across chunk boundaries. *)

\* The members that end inside the chunk.
EndsIn(first, next) == {m \in MemberEnds : first <= m /\ m < next}

\* The bytes of the member ending at m, given what the earlier chunks left
\* of the member in progress (cur) and the bytes of this chunk.
MemberBytes(m, first, next, bytes, cur) ==
    LET earlier == {e \in EndsIn(first, next) : e < m} IN
    IF earlier = {}
    THEN cur \o SubSeq(bytes, 1, m - first + 1)
    ELSE SubSeq(bytes, Max(earlier) - first + 2, m - first + 1)

\* Faulty variant: only the length is compared.
TrailerVerdictNoCrc(m, bytes) == IF fault[m] = "isize" THEN "isize" ELSE "none"

\* What the trailer of member m says about those bytes: the CRC is compared
\* before the length.
TrailerVerdict(m, bytes) ==
    IF bytes # Bytes(MemberStart(m), m + 1) \/ fault[m] = "crc" THEN "crc"
    ELSE IF fault[m] = "isize" THEN "isize" ELSE "none"

\* The first mismatch among the members that end in the chunk, or "none".
ChunkVerdict(first, next, bytes, cur) ==
    LET verdict(m) == TrailerVerdict(m, MemberBytes(m, first, next, bytes, cur))
        wrong == {m \in EndsIn(first, next) : verdict(m) # "none"}
    IN  IF wrong = {} THEN "none" ELSE verdict(Min(wrong))

\* What the chunk leaves of the member in progress.
CarriedBytes(first, next, bytes, cur) ==
    LET ends == EndsIn(first, next) IN
    IF ends = {} THEN cur \o bytes
    ELSE SubSeq(bytes, Max(ends) - first + 2, Len(bytes))
=============================================================================
