------------------------------ MODULE Markers -------------------------------
(***************************************************************************)
(* Speculative decoding of a chunk whose 32 KiB of history is not known    *)
(* yet, symbol by symbol.  A back-reference before the first byte of the   *)
(* chunk leaves a marker: how far before the chunk the byte lies.  Once    *)
(* the tail of the previous chunk is known, resolve_markers patches every  *)
(* marker.                                                                 *)
(*                                                                         *)
(* Two decoders of the crate do this and both are here, fed with the same  *)
(* symbols:                                                                *)
(*   - decode_until_u16, which the workers run: 16-bit cells in a bounded  *)
(*     sliding window that is flushed into the chunk, and, once no marker  *)
(*     is left in the window, a byte decoder that knows nothing of markers;*)
(*   - decode_until, which keeps the markers in a sorted side table and    *)
(*     propagates them on every copy.                                      *)
(* The reference is `direct': what a decoder that knows the tail produces. *)
(*                                                                         *)
(* The literals are those of Text: a literal at output position k has the  *)
(* value Text[k].  Matches have any length from 1 on (3 in deflate).       *)
(* Bits, Huffman codes and buffer capacities beyond the window are left    *)
(* out.                                                                    *)
(***************************************************************************)
EXTENDS Integers, Sequences, SequencesExt

CONSTANTS
    Window,      \* U16_WINDOW = MAX_DISTANCE: the longest distance (32768)
    FlushAt,     \* U16_FLUSH_AT: the window is flushed from here on
    HandoffAt,   \* U16_HANDOFF_AT: from here on the byte decoder may take over
    MaxLen,      \* the longest match (258)
    MaxOut,      \* bound: output bytes of one chunk, out_pos being a u32
    Text,        \* the bytes that are literals, by output position
    History      \* what may precede the chunk

VARIABLES
    tail,        \* prev_tail: the bytes before the chunk, at most Window
    direct,      \* reference output, Missing where it reaches before the tail
    stored,      \* the current block is a stored block
    status,      \* "decoding", "decoded", "resolved" or "error"
    scratch,     \* u16 decoder: scratch[0 .. cur)
    windowBase,  \* u16 decoder: output position of scratch[0]
    phase,       \* u16 decoder: 1 = cells, 2 = byte decoder
    bytes,       \* u16 decoder: chunk.bytes
    markers,     \* u16 decoder: chunk.markers
    tbytes,      \* side-table decoder: chunk.bytes
    table        \* side-table decoder: its SpeculativeContext

u16Vars == <<scratch, windowBase, phase, bytes, markers>>
tableVars == <<tbytes, table>>
vars == <<tail, direct, stored, status, u16Vars, tableVars>>

MARKER16 == 32768
Missing == -1
None == -1
Byte == 0 .. 255

ASSUME MarkersAssumption ==
    /\ Window \in 1 .. MARKER16
    /\ HandoffAt = 2 * Window
    /\ FlushAt \in Nat /\ FlushAt > Window
    /\ MaxLen \in Nat \ {0}
    /\ MaxOut \in Nat
    /\ Text \in [1 .. MaxOut -> Byte]
    /\ History \in Seq(Byte) /\ Len(History) <= Window

Marker == [out_pos : 0 .. MaxOut - 1, prefix_offset : 0 .. Window - 1]
Cell == Byte \cup {MARKER16 + o : o \in 0 .. Window - 1}
IsMarker(c) == c >= MARKER16

\* The byte at distance o + 1 before the chunk.
TailByte(o) == IF o < Len(tail) THEN tail[Len(tail) - o] ELSE Missing

-----------------------------------------------------------------------------
(* Copying and lowering. *)

\* copy_back_u16, copy_back_raw: append length cells from distance back; the
\* source may overlap what is being written.
CopyBack(s, distance, length) ==
    LET copied[i \in 0 .. length - 1] ==
            IF i < distance THEN s[Len(s) - distance + i + 1] ELSE copied[i - distance]
    IN  s \o [i \in 1 .. length |-> copied[i - 1]]

\* The same bytes, said directly: the cells before the end repeat with
\* period distance, and positions before the chunk are bytes of the tail.
DirectCopy(distance, length) ==
    direct \o [i \in 1 .. length |->
        LET src == Len(direct) - distance + ((i - 1) % distance)
        IN  IF src >= 0 THEN direct[src + 1] ELSE TailByte(-src - 1)]

\* extract_from_u16: lower cells into bytes, with a zero at each marker.
ExtractBytes(cells) == [i \in DOMAIN cells |-> IF IsMarker(cells[i]) THEN 0 ELSE cells[i]]

\* extract_from_u16: the markers of the cells, in increasing position.
ExtractMarkers(cells, base) ==
    LET At(i) == [out_pos |-> base + i - 1, prefix_offset |-> cells[i] - MARKER16]
        recorded[n \in 0 .. Len(cells)] ==
            IF n = 0 THEN <<>>
            ELSE IF IsMarker(cells[n]) THEN Append(recorded[n - 1], At(n))
            ELSE recorded[n - 1]
    IN  recorded[Len(cells)]

\* Faulty variant: the distance itself instead of the 0-based offset.
PrefixOffsetOneBased(distance, written, k) == distance - written - k

\* Offset before the chunk of byte k of a match that starts before it.
PrefixOffset(distance, written, k) == distance - written - k - 1

PrefixCount(distance, written, length) ==
    IF distance > written THEN Min({distance - written, length}) ELSE 0

-----------------------------------------------------------------------------
Init ==
    /\ \E n \in 0 .. Len(History) : tail = SubSeq(History, 1, n)
    /\ stored \in BOOLEAN
    /\ direct = <<>> /\ status = "decoding"
    /\ scratch = <<>> /\ windowBase = 0 /\ phase = 1 /\ bytes = <<>> /\ markers = <<>>
    /\ tbytes = <<>>
    /\ table = [markers |-> <<>>, max_marker_pos |-> None, live_start |-> 0]

-----------------------------------------------------------------------------
(* The u16 decoder.  Each operator takes the cells to work on. *)

\* Faulty variant: the window is flushed one cell too late.
NeedsFlushLate == Len(scratch) > FlushAt

NeedsFlush == Len(scratch) >= FlushAt

\* flush_u16: lower everything older than the window, slide the window down.
Flushed == Len(scratch) - Window
Kept == IF NeedsFlush THEN SubSeq(scratch, Flushed + 1, Len(scratch)) ELSE scratch
FlushedCells == IF NeedsFlush THEN SubSeq(scratch, 1, Flushed) ELSE <<>>

\* Every symbol of phase 1 is preceded by the flush check, and then turns
\* the kept cells into new ones.
U16Symbol(newScratch) ==
    /\ phase = 1
    /\ scratch' = newScratch
    /\ windowBase' = windowBase + Len(FlushedCells)
    /\ bytes' = bytes \o ExtractBytes(FlushedCells)
    /\ markers' = markers \o ExtractMarkers(FlushedCells, Len(bytes))
    /\ UNCHANGED phase

\* A back-reference: markers for what lies before the chunk, which can only
\* happen before the first flush, then a copy of cells.
U16Match(cells, distance, length) ==
    LET base == windowBase + Len(FlushedCells)
        count == IF base = 0 THEN PrefixCount(distance, Len(cells), length) ELSE 0
        prefix == [k \in 1 .. count |->
                      MARKER16 + PrefixOffset(distance, Len(cells), k - 1)]
    IN  CopyBack(cells \o prefix, distance, length - count)

\* Phase 2: decode_one_block_preload on chunk.bytes.
ByteSymbol(newBytes) ==
    /\ phase = 2
    /\ bytes' = newBytes
    /\ UNCHANGED <<scratch, windowBase, phase, markers>>

\* Faulty variant: a position bound is taken to be enough.
HandoffReadyByPosition(cells) == Len(cells) >= HandoffAt

\* The byte decoder may take over at a block edge once the window that later
\* back-references can reach holds no marker.
HandoffReady(cells) ==
    /\ Len(cells) >= HandoffAt
    /\ \A i \in Len(cells) - Window + 1 .. Len(cells) : ~IsMarker(cells[i])

\* End of a block.  The end-of-block symbol of a compressed block is preceded
\* by the flush check, a stored block has none.  If the chunk is complete, or
\* the byte decoder takes over, the cells are lowered.
U16EndBlock(complete) ==
    LET cells == IF stored THEN scratch ELSE Kept
        older == IF stored THEN <<>> ELSE FlushedCells
        lower == complete \/ HandoffReady(cells)
        all == IF lower THEN older \o cells ELSE older
    IN  \/ /\ phase = 1
           /\ bytes' = bytes \o ExtractBytes(all)
           /\ markers' = markers \o ExtractMarkers(all, Len(bytes))
           /\ scratch' = IF lower THEN <<>> ELSE cells
           /\ windowBase' = windowBase + Len(older)
           /\ phase' = IF lower /\ ~complete THEN 2 ELSE 1
        \/ /\ phase = 2
           /\ UNCHANGED u16Vars

-----------------------------------------------------------------------------
(* The side-table decoder. *)

\* record_match_prefix: one marker for each byte that lies before the chunk.
RecordMatchPrefix(ctx, written, distance, count) ==
    [ctx EXCEPT
        !.markers = @ \o [k \in 1 .. count |->
            [out_pos |-> written + k - 1,
             prefix_offset |-> PrefixOffset(distance, written, k - 1)]],
        !.max_marker_pos = IF count > 0 THEN written + count - 1 ELSE @]

\* The first index (0-based) from i on whose marker is at or after pos.
SeekMarker(ms, i, pos) ==
    CHOOSE j \in i .. Len(ms) :
        /\ j = Len(ms) \/ ms[j + 1].out_pos >= pos
        /\ \A h \in i .. j - 1 : ms[h + 1].out_pos < pos

\* Faulty variant: markers retired one position too early.
LiveFloorEarly(dst) == IF dst >= Window THEN dst - Window + 1 ELSE 0

\* No later copy can reach a marker before this position.
LiveFloor(dst) == IF dst > Window THEN dst - Window ELSE 0

\* propagate_match_cached: walk the markers of the source range with one
\* cursor, which also runs over the markers pushed on the way.
PropagateMatch(ctx, dst, distance, length) ==
    LET src == dst - distance
        live == SeekMarker(ctx.markers, ctx.live_start, LiveFloor(dst))
        start == [markers |-> ctx.markers, max |-> ctx.max_marker_pos, going |-> TRUE,
                  cursor |-> SeekMarker(ctx.markers, live, src)]
        Visit(st, k) ==
            LET c == SeekMarker(st.markers, st.cursor, src + k) IN
            IF ~st.going \/ src + k > st.max THEN [st EXCEPT !.going = FALSE]
            ELSE IF c = Len(st.markers)
            THEN [st EXCEPT !.cursor = c, !.going = k + 1 < length /\ src + k < st.max]
            ELSE IF st.markers[c + 1].out_pos = src + k
            THEN [st EXCEPT
                    !.markers = Append(@, [out_pos |-> dst + k,
                                           prefix_offset |-> st.markers[c + 1].prefix_offset]),
                    !.max = dst + k, !.cursor = c + 1]
            ELSE [st EXCEPT !.cursor = c]
        walk[k \in 0 .. length] == IF k = 0 THEN start ELSE Visit(walk[k - 1], k - 1)
    IN  IF ctx.max_marker_pos = None \/ dst < distance \/ src > ctx.max_marker_pos
        THEN ctx
        ELSE [markers |-> walk[length].markers, max_marker_pos |-> walk[length].max,
              live_start |-> live]

\* decode_compressed::<true>: zeros and markers before the chunk, then a copy
\* of bytes with the markers of its source.
TableMatch(distance, length) ==
    LET written == Len(tbytes)
        count == PrefixCount(distance, written, length)
        recorded == RecordMatchPrefix(table, written, distance, count)
        inBuffer == length - count
    IN  /\ tbytes' = CopyBack(tbytes \o [k \in 1 .. count |-> 0], distance, inBuffer)
        /\ table' = IF inBuffer = 0 THEN recorded
                    ELSE PropagateMatch(recorded, written + count, distance, inBuffer)

-----------------------------------------------------------------------------
(* The symbols of the chunk. *)

\* A literal of a compressed block or a byte of a stored one.
Literal ==
    LET v == Text[Len(direct) + 1] IN
    /\ status = "decoding" /\ Len(direct) < MaxOut
    /\ direct' = Append(direct, v)
    /\ U16Symbol(Append(Kept, v)) \/ ByteSymbol(Append(bytes, v))
    /\ tbytes' = Append(tbytes, v)
    /\ UNCHANGED <<tail, stored, status, table>>

Match(distance, length) ==
    /\ status = "decoding" /\ ~stored /\ Len(direct) + length <= MaxOut
    /\ direct' = DirectCopy(distance, length)
    /\ \/ U16Symbol(U16Match(Kept, distance, length))
       \/ ByteSymbol(CopyBack(bytes, distance, length))
    /\ TableMatch(distance, length)
    /\ UNCHANGED <<tail, stored, status>>

\* complete: BFINAL, or the block edge is at or past end_bit_hint.
EndBlock(complete) ==
    /\ status = "decoding"
    /\ U16EndBlock(complete)
    /\ stored' \in BOOLEAN
    /\ status' = IF complete THEN "decoded" ELSE "decoding"
    /\ UNCHANGED <<tail, direct, tableVars>>

\* resolve_markers: the byte that replaces a marker.
Patched(m) == tail[Len(tail) - m.prefix_offset]

Resolve ==
    /\ status = "decoded"
    /\ IF \E m \in Range(markers) : m.prefix_offset >= Len(tail)
       THEN status' = "error" /\ UNCHANGED <<bytes, markers>>
       ELSE /\ status' = "resolved"
            /\ bytes' = [i \in DOMAIN bytes |->
                            IF \E m \in Range(markers) : m.out_pos = i - 1
                            THEN Patched(CHOOSE m \in Range(markers) : m.out_pos = i - 1)
                            ELSE bytes[i]]
            /\ markers' = <<>>
    /\ UNCHANGED <<tail, direct, stored, scratch, windowBase, phase, tableVars>>

Next ==
    \/ Literal
    \/ \E distance \in 1 .. Window, length \in 1 .. MaxLen : Match(distance, length)
    \/ \E complete \in BOOLEAN : EndBlock(complete)
    \/ Resolve

Spec == Init /\ [][Next]_vars

-----------------------------------------------------------------------------
(* Properties. *)

\* Types of the state; in particular a marker's offset fits its 15 bits.
TypeOK ==
    /\ tail \in Seq(Byte) /\ Len(tail) <= Window
    /\ direct \in Seq(Byte \cup {Missing})
    /\ stored \in BOOLEAN /\ phase \in {1, 2}
    /\ status \in {"decoding", "decoded", "resolved", "error"}
    /\ scratch \in Seq(Cell) /\ windowBase \in 0 .. MaxOut
    /\ bytes \in Seq(Byte) /\ tbytes \in Seq(Byte)
    /\ markers \in Seq(Marker) /\ table.markers \in Seq(Marker)
    /\ table.max_marker_pos \in None .. MaxOut - 1
    /\ table.live_start \in 0 .. Len(table.markers)

\* Speculation is invisible: a chunk decoded without its history and patched
\* afterwards holds the bytes of a decode that knew the history, through
\* flushes, copies of markers and the switch to the byte decoder; and
\* resolve_markers fails exactly when such a decode would reach before the
\* first byte of the output.
ResolvedIsDirect ==
    /\ status = "resolved" => bytes = direct
    /\ status = "error" <=> status \notin {"decoding", "decoded"} /\ Missing \in Range(direct)

\* The chunk as it would be if all cells were lowered now.
LoweredBytes == bytes \o ExtractBytes(scratch)
LoweredMarkers == markers \o ExtractMarkers(scratch, Len(bytes))

\* The u16 decoder and the side-table decoder agree, byte for byte and marker
\* for marker, after every symbol (the crate's tests compare them on samples).
TableAgrees ==
    status \in {"decoding", "decoded"} =>
        LoweredBytes = tbytes /\ LoweredMarkers = table.markers

\* The unchecked stores of the u16 decoder stay inside its fixed buffer
\* (U16_BUFCAP leaves room for one match past U16_FLUSH_AT), and after a
\* flush every distance stays inside the window.
WindowBounded ==
    /\ Len(scratch) <= FlushAt + MaxLen - 1
    /\ phase = 1 /\ windowBase > 0 /\ status = "decoding" => Len(scratch) >= Window
=============================================================================
