# rusty_rapidgzip in TLA+

A verification project for the parallel gzip decoder in
`src/crates/rusty-rapidgzip`. It models the threads, channels, locks and
speculation of the decode drivers; every way `read_gz` can decode a file or a
pipe, at the level of bits and bytes; the markers of speculative decoding; the
Huffman tables and dynamic block headers with their three parsers; the block
finder's scan; and the bit reader. TLC checks them on small instances, and TLAPS
proves for every value of the constants that the three parallel drivers keep
their promise and their memory bounds, that the in-flight cap loses no wake-up,
that speculative decoding is invisible, that every way of `read_gz` checks and
sends every byte once and within its memory bounds, what the block finder can
miss and that the headers it accepts parse, and that the bit reader is a
cursor.

Line numbers refer to files under `src/crates/rusty-rapidgzip/src/`;
`PROJECT.json` maps every definition to its lines.

## 1. Inventory

| Component | State | Operations | Interacts by |
|---|---|---|---|
| Mapped-file pipeline, `pipeline.rs` `parallel_decode_member` | boundaries, four bounded channels, two reorder maps, expected start and window of the chain, CRC carry | boundary scan, dispatch, decode, stage A (accept or decode again), resolve, output, teardown | channels between dispatch, N workers, stage A, up to 4 resolvers and the calling thread; the caller's sink |
| In-flight cap, `InflightCap` | count, maximum, shutdown flag behind a mutex, condition variable | acquire, release, shutdown | dispatch acquires, output releases |
| BGZF path, `parallel_decode_bgzf` | walk position, batch, two channels, pending map | walk, decode batch, serialize, join; then the remainder | same cap; calls `parallel_decode_member` for a plain gzip remainder |
| Pipe decoder, `streaming.rs` | sliding buffer, abort flag, token channel, four channels, two reorder maps | read and cut a slice, decode, order, resolve, output, teardown | as the pipeline; tokens flow back from output to dispatcher |
| Chunk decode and markers, `decode_one_chunk`, `build_prev_tail_fast`, `speculative.rs` | the chunk's bytes, markers and member boundaries | decode to a hint, patch markers from a window, cut the next window | called by workers, stage A and resolvers |
| Serial decoders, `serial_decode_member`, `read_gz_streaming` | input buffer and bit offset (pipe), output buffer with carried window, running CRC | read, decode a block, emit, check trailer, next member | sink |
| Routing, `read_gz` | none | choose a driver by file type, threads and header | calls the drivers |
| Framing, `gzip.rs` | none | parse header, BGZF size, trailer; decode one BGZF member | called by all drivers |
| Bit reader, `bitreader.rs` | next byte, 64-bit buffer, count of valid bits | refill, read, peek and consume, align, seek | the kernels copy its state, refill in their own way and write it back |
| Block finder, `block_finder.rs` | position; tables and code lengths reused from candidate to candidate | skip by table, strict header parse, trial decode | called by the boundary scans |
| Huffman tables and dynamic headers, `huffman.rs`, `inflate.rs`, `safe_inflate.rs` | lookup table, long codes, code lengths | read a header, build tables, look a symbol up | called by kernels and finder; three parsers of the same header |
| Inflate kernels, `deflate/` | output, window | decode symbols | called by chunk decode |
| FFI backends | decompressor and output buffer of a worker | decode a member with a growing buffer, report a straddle | called by chunk decode and BGZF workers |
| CLI, benchmarks, xtask, scripts | - | I/O and measurement | call the library |

What is hard here:

- results of workers arrive in any order, rest on guessed boundaries, and are
  used by a stage that has meanwhile moved on;
- every stage may be blocked on a full or an empty channel when another one
  stops (error, final block, hang-up of the consumer), and the function may
  return only after all threads are joined;
- memory is bounded by a count that several threads keep consistent;
- CRC and length of a member are put together across chunks and members;
- an error may be found far ahead of what has been delivered;
- a chunk is decoded without its history, by a decoder that switches its
  representation on the way;
- a pipe may end a read inside any block, header or trailer, and the kernels
  look ahead past the end of a block;
- the same input is decoded in several ways, by the build, the thread count and
  the first header, and a boundary between two chunks may lie in a block, a
  trailer or a header of any member;
- a library decodes whole members and takes back what it wrote when a member
  turns out to end past the chunk;
- the block finder parses headers more strictly than the decoder, on tables
  left over from thousands of earlier candidates.

What makes the drivers correct is said once, in `OrderedDecode`: the sink gets
the decoded bytes in order and nothing else; nothing at or after the first
damaged block is delivered; Ok means that everything was delivered and
validated; an error names damage that is in the input. Beyond that each driver
must always return, stay within its cap, and succeed on a healthy input. The
serial decoders send a member's last bytes before its trailer is checked, so
what `read_gz` promises in every way of decoding is a little weaker:
`ReadPromise`. Speculative decoding must be invisible: the patched
chunk is what a direct decode gives. The tables must decode exactly the canonical
code of their lengths, and the three header parsers must agree where the code
says they do. The bit reader must be a cursor over the
input, however it is filled.

## 2. Modules

| Module | Models |
|---|---|
| `GzStream` | the input: blocks, members, bit positions, damage |
| `OrderedDecode` | the promise of a decode driver (abstract specification) |
| `ChunkDecode` | `decode_one_chunk`, window chain, marker resolution, trailer checks |
| `Pipeline`, `MCPipeline` | `parallel_decode_member` |
| `InflightCap`, `SlotCounter` | the cap with its lock, and the atomic counter it implements |
| `Bgzf`, `MCBgzf` | `parallel_decode_bgzf` |
| `Streaming`, `MCStreaming` | `read_gz_streaming_parallel` |
| `Markers`, `MCMarkers` | `decode_until_u16` with its window, flushes and switch to bytes, `decode_until` with its side table, `resolve_markers` |
| `GzipInput` | bit-accurate input, BGZF or plain; the parsers of headers and of the BGZF size |
| `ReadPromise` | what `read_gz` promises (abstract specification) |
| `SerialPipe` | `read_gz_streaming`, `StreamBuf` |
| `SerialFile` | `serial_decode_member` |
| `ChunkChain` | what `parallel_decode_member` does inside the chunks it accepts, with and without a library |
| `BgzfChain` | the walk of `parallel_decode_bgzf` and the decoding of a member in its slice |
| `ReadGz`, `MCReadGz` | `read_gz`: the routing, composed with the four modules above |
| `CanonicalCode` | the canonical prefix code of a list of lengths (reference definition) |
| `HuffmanDecoder`, `SafeHuffman` | `HuffmanDecoder::build_into` and lookup; `construct` and `decode` of the safe inflater |
| `DynamicHeader`, `MCDynamicHeader` | the header of a dynamic block in inflate, block finder and safe inflater, and the finder's trial decode |
| `BlockFinder`, `MCBlockFinder` | `find_next_dynamic_block` with its skip table |
| `BitReader`, `BitStream` | `BitReader` and the kernels' refill; the cursor they implement |
| `ChunkDecode_proofs`, `Pipeline_proofs`, `Bgzf_proofs`, `Streaming_proofs`, `Markers_proofs`, `ReadGz_proofs`, `BlockFinder_proofs` (scan and headers), `Primitives_proofs` (bit reader and cap) | lemmas and theorems |

`Pipeline` and `Streaming` extend `ChunkDecode`, which extends `GzStream`; all
drivers instantiate `OrderedDecode` (`KeepsPromise` in `Pipeline`,
`BgzfKeepsPromise` and `StreamKeepsPromise` in the other two); `InflightCap`
instantiates `SlotCounter`; `Bgzf` contains the promise of `Pipeline` for the
remainder. `ReadGz` instantiates `SerialPipe`, `SerialFile`, `ChunkChain` and `BgzfChain`,
which share its variables and its input (`GzipInput`), and implements
`ReadPromise`. `ChunkChain` and `BgzfChain` leave the threads to `Pipeline` and
`Bgzf`: those show that exactly one chain of chunks or batches reaches the sink,
these what happens in it, bit by bit. `DynamicHeader` extends `HuffmanDecoder`
and `SafeHuffman`; it is the verification that is an oracle in `BlockFinder`,
whose result in turn is the set of candidates in `Pipeline` and `Streaming`.
`BitReader` instantiates `BitStream`. `Markers` stands alone: it justifies what
`ChunkDecode` and `ChunkChain` say about resolving a chunk with the right
window.

### The input

Block `k` starts at position `2k` (`Bit(k)`); `2k+1` (`Inside(k)`) stands for
every other bit of the block or of the trailer and header after it. Its decoded
bytes are the value `k`. `fault[k]` says what is wrong with it: it does not
decode, a back-reference reaches before the output, or the trailer after it has
a wrong CRC or length. A decode that starts at a false boundary fails or yields
`Corrupt` bytes and stops anywhere at or past its hint. CRCs are abstracted to a
comparison with the right bytes, so a CRC collision does not exist in the model.
A back-reference from one member into the output of the member before it, which
a speculative decode may accept depending on where the chunks are cut, is not
modelled.

### Steps and threads

An action goes from one blocking operation of a thread to the next. A channel is
a sequence with a bound; a send blocks while it is full and fails when no
receiver is left, a receive blocks while it is empty and fails when moreover no
sender is left; a thread holds its ends until it exits. Receiving a chunk and
decoding it is one step (the input never changes). The joins are one step that
waits for all threads, because joining in sequence waits for the same set.
`InflightCap::acquire` and `release` are atomic in the drivers; `InflightCap`
justifies this.

Correspondence in `Pipeline` (the other drivers follow the same pattern): `work`,
`result`, `resolve`, `done` are the channels; `aReorder`, `aNext`,
`expectedStart`, `prevTail`, `specFailures` are the locals of stage A
(746-856); `oReorder`, `oNext`, `curMember` (for `cur_crc` and
`cur_uncompressed`) and `verdict` (for `last_err`, `sink_closed`, `final_byte`)
those of the output stage (859-952); `oPc` walks through the teardown
(988-1004). `chain` is a history variable: the block at which each chunk that
passed stage A starts. `NoHint` is `u64::MAX`. `status` "closed" is the early
return with Ok after a hang-up. `config` is the chunk size and the factor of the
cap (`RAPIDGZIP_INFLIGHT`, 0 for none), chosen from `Configs` once per
behaviour.

In `Streaming`, `DispatchRead` stands for filling, searching, slicing and
draining the buffer; `candidates` is what the block finder believes in on this
input; `outErr` "closed" records the break on a closed sink. In `Bgzf` a batch
is a range of members and the batch size is any size, since the target only
decides how many members a batch has.

### Markers

`Markers` feeds the same literals, matches and block ends to both speculative
decoders and to a direct decode that knows the tail. `scratch` is
`scratch[0..cur]`, `phase` 2 is the byte decoder after the switch (1860-1888 of
`fast_inflate.rs`), `table` the `SpeculativeContext` of the side-table decoder.
Literals are taken from `Text` by their place in the output and the tail is a
prefix of `History`; `MCMarkers` gives every byte of both a value of its own, so a
byte taken from the wrong place shows. `MaxOut` bounds the output of a chunk; the
code's positions are 32-bit numbers, so a chunk of 4 GiB or more is outside the
model.

### The ways of `read_gz`

`GzipInput` places blocks at bit positions and trailers and headers at bytes. An
input is cut anywhere or has one defect, and its members are BGZF or plain. A
compressed block decodes only when 48 bits are there before its end-of-block
symbol, as the kernels demand, and that symbol has 1 to 15 bits (`EobBits`); the
trailer supplies the up to 47 bits that lie behind the last block. `ReadGz` chooses a call (pipe or file, number of threads, built with a
library or not), opens the input, reads the first header and hands over to one
of four modules; `path` is the way taken.

In `SerialPipe` the buffer is the range `base .. filled` of the input and
an action is one pass of a loop of `StreamBuf`, ending at the next read; in
`SerialFile` an action is one step of the loop of `serial_decode_member`. In
`ChunkChain` a chunk starts at the exact end of the one before and has a hint
anywhere in `Hints` (block starts, insides of blocks, trailers and headers); an
action is one member, one trailer or one attempt of a library, which may run out
of room, straddle the hint, or fail on damage beyond it. Room is doubled up to
`setup.roomLimit`, the most the library can be told of (`NextRoom`): 2^32 - 1 for
zlib-rs; a member that decodes to more is tried for ever (`RoomExhausted`). In
`BgzfChain` an error returns in one step, which stands for a join that comes
back; where it may not is `BatchFails`. Safety loses nothing by it: all that was
sent has been sent by then. The walk follows the size each header states, a slice is decoded by the crate or a
library, and a remainder that is not BGZF goes to `ChunkChain`. The libraries
are external: they decode a whole sound member and refuse any other, without
saying why. `out` is the output vector, `crcFed` what the running CRC has been
fed, `folded` how much of a chunk has been. Lengths are compared modulo
`IsizeModulus`, which is small enough to wrap.

### Tables, headers, finder

`DynamicHeader` reads one header in lock-step with three parsers; the next
symbol is chosen as it is read, and the input may end anywhere. The finder
starts with tables left by an earlier candidate (`EarlierCodes`) and with stale
code lengths. `CanonicalCode` says what a table must decode: every bit string
that begins with a code word gives its symbol. Numbers are scaled down and keep
their order: codes of up to three bits of which two are looked up directly and
the third is a long code.

`BlockFinder` keeps the widths of the code. Data and the set of verified
positions are arbitrary.

### Bit reader

In `BitReader` a buffer bit is the set of input positions ORed into it, so a bit
overlaid with a wrong one shows. `call` remembers what was asked for, to be
compared with the answer.

## 3. Runs

| Run | Instance | Shows |
|---|---|---|
| `pipeline_speculation` | 4 blocks, 2 members, healthy, every set of candidate boundaries, 2 workers, 2 resolvers, cap 3 | `TypeOK`, `ChainInvariant`, `InflightBounded`, `NoChunkLost`, `RedecodeHasCause` |
| `pipeline_damage` | 3 blocks, 2 members, every single damage and pairs at both ends, channels of 1, cap 2; and the first block damaged, up to 6 chunks, no cap | `DeliveredIsTrueOutput`, `OkMeansComplete`, `Terminates`, `HealthySucceeds`, `KeepsPromise` |
| `inflight_cap` | cap 4 | `CapTypeOK`, `SleeperIsNotified`, `IsAtomicCounter` |
| `bgzf_capped` | 4 members, every single damage, with and without remainder, cap 2 = channel bound | `BgzfInflightBounded`, `BgzfKeepsPromise`, `BgzfTerminates` |
| `streaming_pipe` | 5 blocks, 2 members, true boundaries, read errors, 4 tokens | `TokensConserved`, `StreamKeepsPromise`, `StreamTerminates` |
| `markers` | window 2, flush at 5, switch from 4 on, matches up to 3, up to 9 bytes, every tail of at most 2 | `TypeOK`, `ResolvedIsDirect`, `TableAgrees`, `WindowBounded` |
| `read_gz` | 3 members of 6 blocks in 96 bytes, cut after every byte or damaged once, plain or with two BGZF members; pipe with reads of 1 to 6 bytes and read errors, file with one or several threads, with and without library (one that can be told of two bytes of room only), any ascending choice of 14 boundaries | `ReadGzTypeOK`, `BufferBounded`, `OutputBounded`, `FoldedOnce`, `KeepsReadPromise`, `ReturnsUnlessStuck` |
| `dynamic_header` | codes of up to 3 bits, up to 5 literal and 4 distance lengths, 6 code-length codes (complete, incomplete, single, empty, oversubscribed), trial of 2 symbols | `HeaderTypeOK`, `TablesCanonical`, `SafeAgrees`, `VerifiedIsParsed`, `RefusesOnlyIncomplete` |
| `bit_reader` | 9 bytes of 4 bits, a buffer of 4 bytes, 10 bits for a symbol | `ReaderTypeOK`, `BufferFaithful`, `IsBitStream` |
| `bgzf_one_thread` | 6 members, 1 thread with the code's own bounds | violated: `BgzfTerminates` |
| `streaming_false_start` | 3 blocks, any boundary | violated: `HealthyNeverFails` |
| `block_finder` | 26 bits of which up to two are set, from any start | violated: `FindsNextBlock` |

In every passing run of a driver the consumer may hang up at any moment. The bounds are the
smallest at which each channel fills, the cap is reached, chunks overtake each
other in both reorder maps, a member spans chunks and a chunk holds the end of a
member, a chunk is shorter than the window, and two neighbouring boundaries can
be false in the same block (so that an empty chunk arises). Five blocks in
`streaming_pipe` and six chunks in the uncapped part of `pipeline_damage` are what it takes until a
dispatcher finds all workers gone. Nine output bytes let the u16 window flush
before and after a marker was copied past the first window, and let the byte
decoder take over with and without markers in the chunk. Reads of 1 to 6 bytes
end everywhere in a header, block, trailer and between members; the first member is
longer than the window, the chunk target and the length modulus, the second ends its
last block at a byte, the last is empty, and boundaries lie on both sides of every trailer and header. A header of
18 bytes is what a BGZF header takes. In `dynamic_header` a run can end exactly
at, one before and one past the last length, cross from literals to distances,
and copy a length from before the crossing; a code can be over- and
under-subscribed by one at the longest length. The bit
reader's words are scaled so that every fill level meets every distance to the
end of the input. Symmetry of workers and resolvers is used
only where no liveness is checked.

### Fairness

Weak fairness of every thread: an operating-system thread that is not blocked
runs eventually. A send or receive that stays possible is eventually done
because each channel end that matters has one waiting thread or the waiting
threads are interchangeable. The consumer is assumed to receive until it hangs
up, and never assumed to hang up. For the pipe decoder, `Dispatch` being fair
means that the writer of the pipe delivers or closes: a dispatcher blocked in
`read` on a silent pipe delays the return of an error, which is a property of
the environment. `ReadGz` likewise assumes that its steps go on and that a read of
the pipe returns, and never that one fails, nor that the BGZF path comes back
from the join after an error (`WF_vars(Progress)`), which `bgzf_one_thread` shows
it may not do with fewer than eight threads. `ReturnsUnlessStuck` is therefore
about the loops of `read_gz` only: every way of decoding returns, except from
that join (`BatchFails`; that it returns under a cap no larger than the channel is
`BgzfTerminates`) and from the retry of zlib-rs (`RoomExhausted`), which goes on
until memory runs out. Both exceptions are in the instance. The threads behind
the chunks are those of `Pipeline`, whose `Terminates` is checked there. `Markers`, `DynamicHeader`, `BlockFinder` and
`BitReader` have no fairness. In `InflightCap` a wait ends for certain only once
notified.

### What the violated runs say

1. `bgzf_one_thread` (`pipeline.rs` 1591-1600). After an error or a closed sink
   the serializer leaves its loop, shuts the cap down and joins, but still holds
   `result_rx`. Workers with results left fill the channel (2N) and block. Up to
   max(2N, 16) batches can be outstanding, so this happens with fewer than eight
   threads on a file of enough batches; `lib.rs` 365 says that `read_gz` blocks
   until EOF or first error. `bgzf_capped` shows that the path does return when
   the cap is not larger than the channel, which is the situation from eight
   threads on.
2. `streaming_false_start` (`streaming.rs` 458-500). The pipe decoder neither
   verifies starts nor decodes again, so a false boundary fails a healthy
   stream, while `streaming.rs` 29 and `block_finder.rs` 39-42 describe the
   recovery that only the mapped-file pipeline has.
3. `block_finder` (`block_finder.rs` 76-100). The skip table is built by
   shifting the 13-bit window right, so the bits behind the window count as
   zeros. A block that starts in the last two bits of the window has its BTYPE
   there and is not recognised; the scan jumps over it although 82 and 103 speak
   of the next block at or after the start. Only a split point is lost.
   `FinderMissesOnlyBeforeJump` proves that this is the only way to miss one.

Also noticed, without a run: `reverse_bits`
(`safe_inflate.rs` 95) leaves the upper byte of a code of 256 or more above bit
15, so that such a code gets no entry in the lookup table although 325 says
"Fill every extension"; its symbols take the slow
path, and `SafeAgrees` holds; `construct` (`safe_inflate.rs` 271-273) is
documented to accept an incomplete table only for a single distance code, while
its callers ignore the remainder it returns; the room given to zlib-rs stops
growing at 4 GiB - 1 (`zlibrs_ffi.rs` 122) while the retry goes on, which is one
of the two exceptions `ReturnsUnlessStuck` names; a BSIZE that
is too large makes the BGZF path skip what it covers (`pipeline.rs` 1459); the comment on releasing input pages
(`pipeline.rs` 811-821) assumes that no worker is behind `expected_start`, which
fails after a false boundary (mapped pages fault in again, so only the comment
is wrong); the remarks at the switch to the byte decoder (`fast_inflate.rs`
1769-1775, 1860-1872) say that markers sit only in the first window, while
copies carry them further, as 1843-1850 says (the code scans for them, and
`ResolvedIsDirect` holds); a hang-up of the consumer of a pipe returns Ok or
the error "decode workers gone" depending on timing (`streaming.rs` 381-383,
612); the serial pipe decoder ignores a closed sink and decodes on (`lib.rs`
298), which `ReadPromise` allows; `trailer_byte` is documented as an offset in
the file (`gzip.rs` 46) and is relative to the body in the parallel path
(`pipeline.rs` 1152) but not in the serial one (1318).

## 4. Proofs

All theorems hold for every number of blocks, members, threads and chunks, every
channel bound and cap, and every input damage, from the named assumptions
`StreamAssumption`, `PipelineAssumption`, `CapAssumption`, `BgzfAssumption`,
`StreamingAssumption`, `MarkersAssumption`, `GzipInputAssumption`,
`ReadGzAssumption`, `DynamicHeaderAssumption` and `BitReaderAssumption`, which TLC
also evaluates on the instances. Two theorems name a further hypothesis
themselves: the one on the block finder's scan (a length, and data that are
bits), and the promise of the pipe decoder (`TrueBoundaries`, see below).

- `ChunkDecode_proofs`: the lemmas on the pure operators. `StopBlock` is well
  defined; a decode from a true block covers exactly the blocks to its stop; the
  resolved bytes with the true window are the true bytes; the next tail computed
  from the true window is the true window at the chunk's end, also for chunks
  shorter than the window; the bytes carried to the next chunk are those of the
  member in progress; a chunk without a mismatch holds no bad trailer, and a
  mismatch is damage of the input. Then a pool of threads with its channel and
  reorder map (`PoolIds`, `PoolDistinct`): what a receive, a send, a drop and a
  collection do to the ids it holds.
- `Pipeline_proofs`, `TypeCorrect`: `Spec => []TypeOK`. `TypeOK` is inductive
  because it also says that a thread that still runs has a chunk left.
  `ChainCorrect`, `Spec => []ChainInvariant`, then `OutputCorrect`
  (`DeliveredIsTrueOutput`) and `OkCorrect` (`OkMeansComplete`).
  `DeliveredIsTrueOutput` alone is not inductive: what is delivered next depends
  on what is in the channels. The strengthening, `ChainInvariant`, follows a
  chunk through the pipeline: outcomes before stage A are what some decode of
  their own chunk may return (right or wrong); stage A's start and window are
  those of a true block; jobs and resolved chunks after it cover consecutive
  pieces of the history `chain` with true bytes; and the delivered bytes are the
  chain up to `oNext`. The key step is `StageAForward`: an accepted result starts
  at `expectedStart`, hence at a true block, and is therefore a decode of true
  blocks; a rejected one is replaced by such a decode.
- `Pipeline_proofs`, second part: where the chunks are and how the decode ends.
  `FlowInvariant` (`FlowCorrect`): the chunks before stage A are those from
  `aNext` to the last dispatched, those behind it are `oNext .. aNext - 1`, each
  once, unless an error is on its way; and each has a slot. It gives
  `InflightCorrect` (`InflightBounded`). `EndInvariant` (`EndCorrect`): threads
  end in the order of the channels, the chain ends with the input and nowhere
  else, and an error in flight is damage of the input. Both give `NothingLost`
  (`NoChunkLost`) and `PromiseKept`: the pipeline implements `OrderedDecode`.
  What has to be seen there is that the branches "resolve channel closed", "no
  final block" and "worker channel closed", which the code and the model have,
  are never the result: the last chunk has no hint, so it reaches the end of the
  input or fails, and no stage ends while the one before it still holds a chunk
  in order. `RedecodeCorrect` (`RedecodeHasCause`): on a healthy input with true
  boundaries the chunks end exactly at the boundaries, so no speculation fails.
- `Primitives_proofs`, the cap: `CapInv` (the types, mutual exclusion, and a sleeping
  dispatcher either finds no slot and no shutdown or has a notification
  pending), hence `CapTypeCorrect` and `NoLostWakeup`, and
  `CapImplementsCounter`: initial states and steps of the cap are those of
  `SlotCounter` under the refinement mapping.
- `Bgzf_proofs`: a batch is a range of members, so the invariant `BatchFlow`
  (`BatchesCorrect`) is about ranges: while the serializer runs, the batches
  between `next` and the last member flushed are apart and cover every member.
  Counting them gives `BgzfInflightCorrect` (`BgzfInflightBounded`); with the
  truth of the messages (`EndInvariant`, `BgzfOutputCorrect`) it gives
  `BgzfPromiseKept`. The remainder that is not BGZF enters by the promise of the
  pipeline, which `PromiseKept` justifies.
- `Streaming_proofs`: `IdsOnce` (`SlicesOnce`), a slice is in one place only,
  and from it `TokensCorrect` (`TokensConserved`): a step moves at most one slice
  and one token. Neither says anything about the boundaries. `SlicesCut` and
  `EndInvariant` (`StreamOutputCorrect`) do: there is a row of blocks at which
  the dispatcher has cut, and slice `n`, wherever it is, is the blocks between
  the `n`-th and the next; the row grows at its end, so what was said of earlier
  slices stays true. With `NoSliceLost` this gives `StreamPromiseKept`. Its hypothesis
  `TrueBoundaries` says that no position the finder may believe in is inside a
  block. It cannot be dropped: nobody in this decoder compares the start of a
  slice with the end of the one before, and `streaming_false_start` is the
  counterexample. The instance of `streaming_pipe` satisfies it.
- `BlockFinder_proofs`, `FinderMissesOnlyBeforeJump`: for all data of any
  length, a block that the scan passed over starts eleven or twelve bits behind
  a position it looked up, and the scan went on by a whole window there.
  The statement is inductive together with the types (`ScanInv`). The key lemma,
  `KeepsCandidate`, says that a candidate seen through a window shifted by at
  most ten bits is still recognised: BTYPE is inside, and the zeros that come in
  only make HLIT and HDIST smaller.
- `BlockFinder_proofs`, second part, the header the scan verifies.
  `VerifiedHeadersParse` (`VerifiedIsParsed`) follows from `HeaderInv`: as long as
  the finder has not refused, it and inflate are at the same place with the same
  lengths and, after the code-length code, the same table, although the finder
  started on tables and lengths of an earlier candidate (`BuiltTable`: what
  `build_into` leaves does not depend on what was there). `HeaderTypeCorrect`
  (`HeaderTypeOK`) needs `HeaderTypes`: a lookup in a table built from lengths finds a
  symbol that has a code (`TableFinds`), hence a code-length symbol, so every
  length stored is a length and every run ends inside the array.
  `StrictParserRefusesOnlyIncomplete` is the part of `RefusesOnlyIncomplete`
  before the trial decode, as an action property.
- `Markers_proofs`: for every window, buffer size, match length and output, every
  text and every history, `MarkersTypeCorrect`, `WindowStaysBounded`
  (`WindowBounded`), `SpeculationInvisible` (`ResolvedIsDirect`) and
  `DecodersAgree` (`TableAgrees`). The statements are about what is left after
  patching, the decoders about cells in a window that moves: the invariant says
  what every cell of the chunk, flushed or not, means (a byte, or a marker for a
  place of the history), that this meaning is the byte of the direct decode, that
  the window is the end of the chunk, and that after the switch no marker lies
  within reach of a match. Copies, extraction and the marker search are recursive
  functions; what they compute is proved by the least counterexample (the
  well-foundedness of `<` on `Nat`), which needs no induction rule with an
  operator parameter.
- `ReadGz_proofs`: the four ways of decoding, for every layout of members and
  blocks, window, chunk target, reads, boundaries, cut and damage. The invariant
  `ReadInv` describes an output buffer as an interval of the true output
  (`Bytes(lo, hi)`), and says for each way where its lower end is (the start of
  the member, of the chunk, or of the carried window), what of it has been folded
  and what has been sent, and that the bit position is at the block, trailer or
  header the control is at. It gives `ReadGzTypeCorrect` (`ReadGzTypeOK`),
  `FoldedExactlyOnce` (`FoldedOnce`) and `OutputStaysBounded` (`OutputBounded`).
  `BufferStaysBounded` (`BufferBounded`) is a second induction over the steps of
  the pipe: a read happens only when the item at the front is not complete, so
  less than that item is in the buffer before it. It uses that a block whose bits
  are there and that is not damaged decodes (`SoundBlock`), because its
  back-references find the carried window (`WindowIsHistory`).
- `ReadGz_proofs`, second part, `ReadGzKeepsPromise`: all four ways implement
  `ReadPromise` (`KeepsReadPromise`). `ReadInv` says what the bytes sent are, and nothing of whether
  they may be sent; `CleanInv` adds what a decoder knows of the input behind it.
  The serial ways and BGZF have checked every block and trailer before the one
  they are at (`CleanTo`, `AtStart` to `AtHeader`); a BGZF batch holds members
  that the input has in full, or the walk stopped for a reason (`BgzfClean`). A
  chunk has decoded, but not checked, the members that end in it (`DecodedTo`,
  `ChunkFrontier`): its ends are those of whole members, each starting where the
  one before ends, whichever way the boundaries fell (`PendingAt`), the CRC so far
  is that of the first of them, and the tail reaches back to the start of the
  member or holds a window (`TailAt`), so the next chunk decodes what the serial
  decoder would (`ReachIsHistory`). On this every error is blamed on a block
  (`Blame`): its bits or trailer bytes are missing or wrong, everything before it
  is sound when the decode is serial, and what is returned is among the `Causes`
  of that block; and Ok is returned only where the header of a next member would
  start at the end of the input. A library that decodes whole members needs that
  a member without damage decodes in one piece from its own bytes
  (`MemberDecodes`), for it is tried before the crate's own kernels.
- `Primitives_proofs`, the bit reader: for every number of bytes, width of a byte and of the
  buffer and size of a request, `ReaderTypeCorrect`, `ReaderFaithful`
  (`BufferFaithful`) and `ReaderIsBitStream`, the refinement of the cursor. The
  invariant (`ReaderInv`) is `ReaderTypeOK` and `BufferFaithful`; a refill keeps it,
  leaves the position where it was and ends with enough bits or at the end of
  the input. The byte-wise refill, a loop in the code, is stated by the number of
  bytes it takes.

The inductive invariants were checked by TLC on the instances of the runs before
they were proved.

Only model-checked: all liveness (`Terminates`, `BgzfTerminates`,
`StreamTerminates`, `ReturnsUnlessStuck`, `HealthySucceeds`, the liveness part of
`IsAtomicCounter`), which the prover does not do; and of `DynamicHeader`
`TablesCanonical`, `SafeAgrees` and `RefusesOnlyIncomplete` for the trial decode:
these compare codes and counts of codes, sums of powers of two and folds over
lengths, of which the provers have no theory.

## 5. Not modelled

- Buffer recycling, statistics, verbose output and panics of threads; thread
  counts that change.
- The decoding of symbols in the safe inflater, the vectorised copies, and the
  interleaved kernels that only tests and benchmarks call (`fast_inflate.rs`
  755-1420): pure functions of their input, whose bounds on a scaled-down window
  `Markers` has for the kernels in use.
- The public `decode_all` with its choice of engines, headers with several extra
  fields, and a BSIZE that does not match its member.
- A pipe read with several threads in `ReadGz`: `Streaming` models it, at the
  level of blocks.
- `kernel_ab.rs`, the command line, xtask, fuzzing and corpus scripts: I/O and
  measurement around the library.

Hazards without a property are in `PROJECT.json` with the reason: a silent pipe
and a pipe that never ends (the environment's), and the 4 GiB room of zlib-rs.

## 6. Plan

Done: the input and the promises; the mapped-file pipeline; the cap; the BGZF
path; the pipe decoders; the routing composed with every way of decoding; the
libraries; the markers; tables, headers and block finder; the bit reader; the
proofs above.

What could follow: the streaming-parallel path at the level of bytes, as a fifth
part of `ReadGz` (its slices end where a read ends); the safe inflater's bit
reader as a second implementation of `BitStream`; `gzip.rs` `decode_all`.

A proof worth adding: of `Bgzf`, as a safety property that stands for its
termination, that a worker never finds the result channel full when
`InflightMax <= ChannelBound`.
