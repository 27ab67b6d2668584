------------------------------- MODULE ReadGz -------------------------------
(***************************************************************************)
(* read_gz: the choice of the way to decode, and the four ways at the level*)
(* of bits and bytes, over one set of variables:                           *)
(*                                                                         *)
(*   not a regular file, or an empty one ---- 1 thread ---> SerialPipe     *)
(*   first member is BGZF ------------------------------->  BgzfChain      *)
(*      members after the BGZF ones, or none of them:                      *)
(*                              1 thread ---------------->  SerialFile     *)
(*                              more threads ------------>  ChunkChain     *)
(*                                                                         *)
(* A pipe read with more threads is the subject of Streaming.  All four    *)
(* keep one promise about the same input, ReadPromise.                     *)
(***************************************************************************)
EXTENDS GzipInput

CONSTANTS
    Setups,        \* [source, threads, backend, roomLimit]: the calls and builds considered
    ReadMax,       \* STREAM_CHUNK: the most one read of a pipe returns (64 KiB)
    ChunkTarget,   \* chunk_target: config.chunk_size_bytes, at least 64 KiB
    Hints,         \* the bits at which the block finder may report a boundary
    Room           \* the spare output a library is first given (16 MiB)

ASSUME ReadGzAssumption ==
    /\ ReadMax \in Nat \ {0} /\ ChunkTarget \in Nat \ {0} /\ Room \in Nat \ {0}
    /\ Hints \subseteq 1 .. 8 * MemberLimit(NumBlocks - 1)
    /\ Setups \subseteq [source : {"pipe", "file"}, threads : Nat \ {0}, backend : BOOLEAN,
                        roomLimit : Nat \ {0}]
    /\ \A s \in Setups : s.source = "pipe" => s.threads = 1
    /\ \A s \in Setups : Room <= s.roomLimit

VARIABLES
    setup,
    path,          \* "open", then the decoder in charge
    delivered,     \* bytes sent to the sink
    sinkOpen,      \* the consumer still holds its end of the sink
    status,        \* "running", or what read_gz returned
    pc,            \* the next operation
    pos, out, crcFed, memberUc, bfinal, member,        \* see the decoders
    base, filled, bitOff, srcEof,
    hint, first, final, ends, room, tail, folded,
    walk, cur

pipeVars == <<base, filled, bitOff, srcEof, member>>
chunkVars == <<hint, first, final, ends, room, tail, folded>>
bgzfVars == <<walk, cur>>
memberVars == <<out, crcFed, memberUc>>
vars == <<input, setup, path, delivered, sinkOpen, status, pc, pos, bfinal,
          memberVars, pipeVars, chunkVars, bgzfVars>>

Pipe == INSTANCE SerialPipe
File == INSTANCE SerialFile
Chunks == INSTANCE ChunkChain
Bgzf == INSTANCE BgzfChain

\* An empty input is read as a pipe, so that with more threads it goes to
\* the streaming decoder.  A pipe is never looked at for BGZF members, so that
\* it need not be considered with and without them.
Init ==
    /\ input \in Inputs /\ setup \in Setups
    /\ input.len = 0 => setup.threads = 1
    /\ setup.source = "pipe" => input.bgzf = {}
    /\ path = "open" /\ pc = "open"
    /\ delivered = <<>> /\ sinkOpen = TRUE /\ status = "running"
    /\ pos = 0 /\ out = <<>> /\ crcFed = <<>> /\ memberUc = 0 /\ bfinal = FALSE /\ member = 0
    /\ base = 0 /\ filled = 0 /\ bitOff = 0 /\ srcEof = FALSE
    /\ hint = 0 /\ first = TRUE /\ final = FALSE /\ ends = <<>> /\ room = Room
    /\ tail = <<>> /\ folded = 0
    /\ walk = "on" /\ cur = <<>>

Running == status = "running"
Mapped == setup.source = "file" /\ input.len > 0

\* The way to decode.  What is not a BGZF member is taken for plain gzip.
Open ==
    /\ Running /\ path = "open"
    /\ \/ ~Mapped /\ path' = "pipe" /\ pc' = "prime"
       \/ /\ Mapped
          /\ \E size \in ParseBgzfBlockSize(0, input.len) :
                IF size # NoBlockSize THEN path' = "bgzf" /\ pc' = "walk"
                                      ELSE path' = "plain" /\ pc' = "header"
    /\ UNCHANGED <<input, setup, delivered, sinkOpen, status, pos, bfinal,
                   memberVars, pipeVars, chunkVars, bgzfVars>>

\* The header of the first plain member, here or after the BGZF members;
\* parallel_decode_member then decodes serially if there is one thread.
FirstHeader ==
    LET parsed == ParseHeader(pos \div 8, input.len) IN
    /\ Running /\ path \in {"plain", "bgzf"} /\ pc = "header"
    /\ \/ parsed # "ok" /\ status' = parsed /\ UNCHANGED <<path, pc, pos>>
       \/ /\ parsed = "ok"
          /\ pos' = pos + 8 * HeaderLen
          /\ IF setup.threads = 1 THEN path' = "serial" /\ pc' = "block"
                                  ELSE path' = "chunks" /\ pc' = "chunk"
          /\ UNCHANGED status
    /\ UNCHANGED <<input, setup, delivered, sinkOpen, bfinal,
                   memberVars, pipeVars, chunkVars, bgzfVars>>

PipeStep ==
    /\ path = "pipe" /\ Pipe!Step
    /\ UNCHANGED <<setup, path, pos, chunkVars, bgzfVars>>

SerialStep ==
    /\ path = "serial" /\ File!Step
    /\ UNCHANGED <<setup, path, pipeVars, chunkVars, bgzfVars>>

ChunkStep ==
    /\ path = "chunks" /\ Chunks!Step
    /\ UNCHANGED <<path, bfinal, pipeVars, bgzfVars>>

BgzfStep ==
    /\ path = "bgzf" /\ Bgzf!Step
    /\ UNCHANGED <<path, bfinal, crcFed, memberUc, pipeVars, chunkVars>>

HangUp ==
    /\ Running /\ sinkOpen
    /\ sinkOpen' = FALSE
    /\ UNCHANGED <<input, setup, path, delivered, status, pc, pos, bfinal,
                   memberVars, pipeVars, chunkVars, bgzfVars>>

Step == Open \/ FirstHeader \/ PipeStep \/ SerialStep \/ ChunkStep \/ BgzfStep

Next == Step \/ HangUp

\* What must happen: the decoding thread keeps running, a consumer that does
\* not hang up receives, and every read of a pipe returns.  Nothing forces a
\* read to fail, nor the BGZF path to come back from the join after an error.
Progress == Step /\ status' # "io" /\ ~(path = "bgzf" /\ Bgzf!BatchFails)

Spec == Init /\ [][Next]_vars /\ WF_vars(Progress)

-----------------------------------------------------------------------------
(* Properties. *)

ReadGzTypeOK ==
    /\ input \in Inputs /\ setup \in Setups
    /\ path \in {"open", "plain", "pipe", "serial", "chunks", "bgzf"}
    /\ status \in {"running", "ok", "closed", "truncated", "io"} \cup FaultKind
    /\ {sinkOpen, srcEof, bfinal, first, final} \subseteq BOOLEAN
    /\ pos \in 0 .. 8 * input.len
    /\ base \in 0 .. filled /\ filled \in 0 .. input.len
    /\ bitOff \in 0 .. 7 /\ (bitOff > 0 => filled > base)
    /\ memberUc = Len(crcFed) /\ member \in 0 .. NumBlocks
    /\ folded \in 0 .. Len(out)
    /\ \A i \in DOMAIN ends : ends[i].offset \in folded .. Len(out)
    /\ walk \in {"on", "end", "truncated"}

\* Bytes the current item may need before it can be parsed.
ItemBytes ==
    {HeaderLen, TrailerLen} \cup
    {BytesOfBits(NeedsBits(k) - 8 * (BlockStart[k] \div 8)) : k \in Blocks}

\* The memory bound of the module comment of lib.rs: as long as the blocks
\* decode, the buffer of the pipe never holds more than one block and one
\* read.
BufferBounded ==
    (\A k \in Blocks : input.fault[k] # "deflate")
        => filled - base <= Max(ItemBytes) - 1 + ReadMax

\* The serial decoders send the output as they go: however long the member,
\* they hold no more than the window and a block of it and, from a file, a
\* chunk.
OutputBounded ==
    LET block == Max({BlockOut[k] : k \in Blocks}) IN
    /\ path = "pipe" => Len(out) <= Window + block
    /\ path = "serial" => Len(out) <= ChunkTarget + Window - 1 + block

\* Every byte is sent and folded into a CRC exactly once, although windows
\* are carried from buffer to buffer, members straddle chunks and a library
\* may decode the same bytes several times: what was folded and what is held
\* are together the output of the member so far, and so are what was sent
\* and what is held of the whole output.
FoldedOnce ==
    LET held == IF path = "chunks" THEN SubSeq(out, folded + 1, Len(out)) ELSE out IN
    /\ path \in {"serial", "pipe"} \/ (path = "chunks" /\ ends = <<>>) =>
          \E k \in FirstBlocks :
             crcFed \o held = Bytes(OutStart[k], OutStart[k] + Len(crcFed \o held))
    /\ sinkOpen => delivered \o out = Bytes(0, Len(delivered \o out))

Promise == INSTANCE ReadPromise

\* Whichever way the input is decoded, whatever the sizes of reads, the
\* boundaries of chunks and the library, read_gz keeps the promise of
\* ReadPromise.
KeepsReadPromise == Promise!Spec

\* The loops of read_gz (over reads, blocks, members, chunks, and attempts of a
\* library) come to an end on every way of decoding: it returns, unless the
\* BGZF path waits in the join after an error, which the code does not always
\* come back from, or zlib-rs tries a member again that decodes to more than
\* 2^32 - 1 bytes, which ends with the memory.  That the threads behind a chunk
\* or a batch come to an end is the subject of Pipeline and Bgzf.
ReturnsUnlessStuck ==
    <>(\/ status # "running"
       \/ path = "bgzf" /\ Bgzf!BatchFails
       \/ path = "chunks" /\ Chunks!RoomExhausted)
=============================================================================
