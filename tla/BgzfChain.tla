----------------------------- MODULE BgzfChain ------------------------------
(***************************************************************************)
(* parallel_decode_bgzf at the level of bytes: the batches in the order in *)
(* which the serializer sends them.  The threads, the channels and the     *)
(* order in which batches are really decoded are the subject of Bgzf; here *)
(* it is the walk from member to member by the length each one states, and *)
(* the decoding of a member in its own slice of the file, by the crate or  *)
(* by a library.                                                           *)
(***************************************************************************)
EXTENDS GzipInput

VARIABLES
    setup, delivered, sinkOpen, status, pc,
    pos,           \* the walk's position, in bits
    walk,          \* "on", "end" (no BGZF member here), "truncated" (walk_err)
    cur,           \* the members of the batch: slices [at, limit)
    out            \* the output of the batch

environment == <<input, setup, sinkOpen>>
bgzfVars == <<walk, cur>>

Running == status = "running"

Return(result) ==
    /\ status' = result
    /\ UNCHANGED <<environment, delivered, pc, pos, bgzfVars, out>>

At == pos \div 8

\* A BGZF member that the file holds joins the batch; how many make a batch
\* is left open.
WalkMember ==
    /\ Running /\ pc = "walk" /\ At < input.len
    /\ \E size \in ParseBgzfBlockSize(At, input.len) \ {NoBlockSize} :
          /\ At + size <= input.len
          /\ cur' = Append(cur, [at |-> At, limit |-> At + size])
          /\ pos' = 8 * (At + size)
    /\ pc' \in {"walk", "batch"}
    /\ UNCHANGED <<environment, delivered, status, walk, out>>

\* The walk ends: at the end of the file, at a member that is not BGZF, or at
\* one that the file does not hold.
WalkEnds ==
    /\ Running /\ pc = "walk"
    /\ \E size \in ParseBgzfBlockSize(At, input.len) :
          /\ size = NoBlockSize \/ At + size > input.len
          /\ walk' = IF size = NoBlockSize THEN "end" ELSE "truncated"
    /\ pc' = IF cur = <<>> THEN "remainder" ELSE "batch"
    /\ UNCHANGED <<environment, delivered, status, pos, cur, out>>

-----------------------------------------------------------------------------
(* A member in its slice. *)

MemberBytes(k) == Bytes(OutStart[k], OutEnd(LastBlock(k)))

\* Faulty variant: the trailer is not looked at.
DecodeOneIndexedUnchecked(k, limit) ==
    IF ParseHeader(HeaderAt(k), limit) # "ok" THEN ParseHeader(HeaderAt(k), limit)
    ELSE IF \E j \in k .. LastBlock(k) :
               input.fault[j] = "deflate" \/ NeedsBits(j) > 8 * limit THEN "deflate"
    ELSE "ok"

\* decode_one_indexed_fast: header, blocks, trailer, in the slice only.
DecodeOneIndexed(k, limit) ==
    IF ParseHeader(HeaderAt(k), limit) # "ok" THEN ParseHeader(HeaderAt(k), limit)
    ELSE IF \E j \in k .. LastBlock(k) :
               input.fault[j] = "deflate" \/ NeedsBits(j) > 8 * limit THEN "deflate"
    ELSE IF MemberLimit(LastBlock(k)) > limit THEN "truncated"
    ELSE TrailerVerdict(TrailerAt(LastBlock(k)), MemberBytes(k), Len(MemberBytes(k)))

\* decode_gzip_member of a library: the same checks, with one error for all.
\* The output is given the room the trailer states, which for a BGZF member
\* is its length.
DecodeGzipMember(k, limit) ==
    IF DecodeOneIndexed(k, limit) = "ok" THEN "ok" ELSE "deflate"

Verdict(k, limit) ==
    IF setup.backend THEN DecodeGzipMember(k, limit) ELSE DecodeOneIndexed(k, limit)

\* The serializer is at an error: a damaged member, or a closed sink.  It shuts
\* the cap down and joins the workers while it still holds the receiver of
\* their results, so that with fewer than eight threads it may wait for ever
\* (Bgzf).  A step that returns from here stands for a join that comes back.
BatchFails ==
    /\ pc = "batch"
    /\ IF cur = <<>> THEN ~sinkOpen
       ELSE \E k \in FirstBlocks : /\ HeaderAt(k) = Head(cur).at
                                   /\ Verdict(k, Head(cur).limit) # "ok"

\* The next member of the batch; the first error ends the batch.
DecodeMember ==
    /\ Running /\ pc = "batch" /\ cur # <<>>
    /\ \E k \in FirstBlocks :
          LET verdict == Verdict(k, Head(cur).limit) IN
          /\ HeaderAt(k) = Head(cur).at
          /\ \/ verdict # "ok" /\ Return(verdict)
             \/ /\ verdict = "ok"
                /\ out' = out \o MemberBytes(k)
                /\ cur' = Tail(cur)
                /\ UNCHANGED <<environment, delivered, status, pc, pos, walk>>

\* The batch goes to the sink; a closed sink is an error of its own.
SendBatch ==
    /\ Running /\ pc = "batch" /\ cur = <<>>
    /\ \/ ~sinkOpen /\ Return("closed")
       \/ /\ sinkOpen
          /\ delivered' = delivered \o out
          /\ out' = <<>>
          /\ pc' = IF walk = "on" THEN "walk" ELSE "remainder"
          /\ UNCHANGED <<environment, status, pos, bgzfVars>>

\* All batches are sent: the walk's error, the end, or the plain gzip members
\* that follow.
Remainder ==
    /\ Running /\ pc = "remainder"
    /\ \/ walk = "truncated" /\ Return("truncated")
       \/ walk = "end" /\ At = input.len /\ Return("ok")
       \/ /\ walk = "end" /\ At < input.len
          /\ pc' = "header"
          /\ UNCHANGED <<environment, delivered, status, pos, bgzfVars, out>>

Step == WalkMember \/ WalkEnds \/ DecodeMember \/ SendBatch \/ Remainder
=============================================================================
