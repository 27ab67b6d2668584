-------------------------- MODULE ChunkDecode_proofs ------------------------
(***************************************************************************)
(* Lemmas about the operators of GzStream and ChunkDecode, for every       *)
(* input, window length and hint.                                          *)
(***************************************************************************)
EXTENDS ChunkDecode, TLAPS, WellFoundedInduction, SequenceTheorems

\* A nonempty set of natural numbers has a least element, and Min is it.
LEMMA MinProperty ==
    ASSUME NEW T, T \subseteq Nat, T # {}
    PROVE  Min(T) \in T /\ \A y \in T : Min(T) <= y
<1> DEFINE R == {ss \in Nat \X Nat : ss[1] < ss[2]}
<1>1. IsWellFoundedOn(R, Nat)
  BY NatLessThanWellFounded DEF OpToRel
<1> HIDE DEF R
<1>2. PICK x \in T : \A y \in T : ~(<<y, x>> \in R)
  BY <1>1, WFMin
<1>3. \A y \in T : x <= y
  <2>1. SUFFICES ASSUME NEW y \in T, y < x PROVE FALSE
    OBVIOUS
  <2>2. <<y, x>> \in R
    BY <2>1 DEF R
  <2> QED BY <1>2, <2>2
<1> QED BY <1>3 DEF Min

\* The stop of a decode exists: it is the first block at or past the hint,
\* at or after the block where the decode starts.
LEMMA StopBlockProperty ==
    ASSUME NEW k \in 0 .. NumBlocks, NEW hint \in Int
    PROVE  /\ StopBlock(k, hint) \in k .. NumBlocks
           /\ StopBlock(k, hint) = NumBlocks \/ Bit(StopBlock(k, hint)) >= hint
           /\ \A j \in k .. StopBlock(k, hint) - 1 : Bit(j) < hint
<1> DEFINE T == {e \in k .. NumBlocks : e = NumBlocks \/ Bit(e) >= hint}
<1>1. NumBlocks \in Nat
  BY StreamAssumption
<1>2. T \subseteq Nat /\ NumBlocks \in T
  BY <1>1
<1> DEFINE e == Min(T)
<1>3. e \in T /\ \A y \in T : e <= y
  BY <1>2, MinProperty
<1> HIDE DEF e
<1>4. \A j \in k .. e - 1 : Bit(j) < hint
  BY <1>1, <1>3 DEF Bit
<1>5. \E x \in k .. NumBlocks :
        /\ x = NumBlocks \/ Bit(x) >= hint
        /\ \A j \in k .. x - 1 : Bit(j) < hint
  BY <1>3, <1>4
<1> QED BY <1>5 DEF StopBlock


\* A nonempty set of natural numbers with a bound has a greatest element.
LEMMA MaxProperty ==
    ASSUME NEW n \in Nat, NEW T, T \subseteq 0 .. n, T # {}
    PROVE  Max(T) \in T /\ \A y \in T : Max(T) >= y
<1> DEFINE D == {n - x : x \in T}
<1>1. D \subseteq Nat /\ D # {}
  <2>1. PICK t \in T : TRUE
    OBVIOUS
  <2>2. n - t \in D
    OBVIOUS
  <2>3. D \subseteq Nat
    OBVIOUS
  <2> QED BY <2>2, <2>3
<1>2. PICK d \in D : \A y \in D : d <= y
  BY <1>1, MinProperty
<1>3. PICK x \in T : d = n - x
  BY <1>2
<1>4. \A y \in T : x >= y
  <2> TAKE y \in T
  <2>1. n - x <= n - y
    BY <1>2, <1>3
  <2> QED BY <2>1
<1> QED BY <1>4 DEF Max

\* The constants, in the form the provers use.
LEMMA ConstantTypes ==
    /\ NumBlocks \in Nat /\ NumBlocks > 0
    /\ MemberEnds \subseteq 0 .. NumBlocks - 1
    /\ Window \in Nat /\ Window > 0
BY StreamAssumption DEF Blocks

\* What decode_one_chunk returns is always a DecodeResult, from a true start
\* or a false one.
LEMMA DecodeType ==
    ASSUME NEW start \in Position, NEW hint \in Position,
           NEW r \in DecodeOneChunk(start, hint)
    PROVE  r \in DecodeResult
<1>1. NumBlocks \in Nat /\ NumBlocks > 0
  BY ConstantTypes
<1>2. DecodeError \in DecodeResult
  BY <1>1 DEF DecodeError, DecodeResult, Value, Position, NoHint, EndOfInput, Bit
<1>3. ASSUME NEW k \in 0 .. NumBlocks PROVE DecodeBlocks(k, hint) \in DecodeResult
  <2>1. hint \in Int
    BY <1>1 DEF Position, NoHint, EndOfInput, Bit
  <2>2. StopBlock(k, hint) \in k .. NumBlocks
    BY <2>1, StopBlockProperty
  <2>3. /\ k \in Value \cup {NumBlocks}
        /\ StopBlock(k, hint) \in Value \cup {NumBlocks}
        /\ Bit(StopBlock(k, hint)) \in Position
        /\ ReachesEnd(k, StopBlock(k, hint)) \in BOOLEAN
    BY <1>1, <2>2 DEF Value, Blocks, Position, NoHint, EndOfInput, Bit, ReachesEnd
  <2> QED BY <1>2, <2>3 DEF DecodeBlocks, DecodeResult
<1>4. DecodeGarbage(start, hint) \subseteq DecodeResult
  <2>1. \A e \in {p \in start + 1 .. EndOfInput : p = EndOfInput \/ p >= hint} :
          e \in Position /\ (e = EndOfInput) \in BOOLEAN
    BY <1>1 DEF Position, NoHint, EndOfInput, Bit
  <2>2. Corrupt \in Value \cup {NumBlocks}
    BY DEF Value
  <2>3. ASSUME NEW g \in DecodeGarbage(start, hint), g # DecodeError
        PROVE  g \in DecodeResult
    <3>1. PICK e \in {p \in start + 1 .. EndOfInput : p = EndOfInput \/ p >= hint} :
            g = [ok |-> TRUE, first |-> Corrupt, next |-> Corrupt,
                 end |-> e, final |-> (e = EndOfInput)]
      BY <2>3, Zenon DEF DecodeGarbage
    <3> DEFINE f == (e = EndOfInput)
    <3>2. e \in Position /\ f \in BOOLEAN
      BY <2>1
    <3> HIDE DEF f
    <3>3. g = [ok |-> TRUE, first |-> Corrupt, next |-> Corrupt, end |-> e, final |-> f]
      BY <3>1, Zenon DEF f
    <3> QED BY <2>2, <3>2, <3>3 DEF DecodeResult
  <2> QED BY <1>2, <2>3
<1> QED BY <1>3, <1>4 DEF DecodeOneChunk

\* A decode from a true start has only one possible result.
LEMMA DecodeAtBlock ==
    ASSUME NEW k \in 0 .. NumBlocks, NEW hint
    PROVE  DecodeOneChunk(Bit(k), hint) = {DecodeBlocks(k, hint)}
<1>1. Bit(k) \notin FalseStarts
  BY ConstantTypes DEF FalseStarts, Inside, Bit, Blocks
<1>2. {j \in 0 .. NumBlocks : Bit(k) = Bit(j)} = {k}
  BY ConstantTypes DEF Bit
<1> QED BY <1>1, <1>2 DEF DecodeOneChunk

\* A successful decode from block k covers the blocks from k to its stop, all
\* of which decode, and is final exactly when it reaches the end.
LEMMA DecodeBlocksProperty ==
    ASSUME NEW k \in 0 .. NumBlocks, NEW hint \in Int,
           NEW r, r = DecodeBlocks(k, hint), r.ok
    PROVE  /\ r.first = k /\ r.next \in k .. NumBlocks
           /\ r.end = Bit(r.next)
           /\ \A j \in k .. r.next - 1 : fault[j] # "decode"
           /\ r.final = (k < r.next /\ r.next = NumBlocks)
<1>1. StopBlock(k, hint) \in k .. NumBlocks
  BY StopBlockProperty
<1> QED BY <1>1 DEF DecodeBlocks, DecodeError, ReachesEnd


\* A position of the body that is not false is the start of a block.
LEMMA TrueStart ==
    ASSUME NEW p \in 0 .. EndOfInput - 1, p \notin FalseStarts
    PROVE  \E j \in Blocks : p = Bit(j)
<1>1. NumBlocks \in Nat
  BY ConstantTypes
<1> DEFINE j == p \div 2
<1>2. p \in Nat /\ p < 2 * NumBlocks
  BY <1>1 DEF EndOfInput, Bit
<1>3. j \in Nat /\ (p = 2 * j \/ p = 2 * j + 1)
  BY <1>2
<1> HIDE DEF j
<1>4. j \in Blocks
  BY <1>1, <1>2, <1>3 DEF Blocks
<1>5. p # 2 * j + 1
  BY <1>4 DEF FalseStarts, Inside
<1> QED BY <1>3, <1>4, <1>5 DEF Bit

\* A decode from block k with a hint at the later block j stops there.
LEMMA StopAtBlock ==
    ASSUME NEW k \in Blocks, NEW j \in Blocks, k <= j
    PROVE  StopBlock(k, Bit(j)) = j
<1>1. NumBlocks \in Nat /\ k \in Nat /\ j \in Nat /\ k < NumBlocks /\ j < NumBlocks
  BY ConstantTypes DEF Blocks
<1> DEFINE e == StopBlock(k, Bit(j))
<1>2. /\ e \in k .. NumBlocks /\ (e = NumBlocks \/ Bit(e) >= Bit(j))
      /\ \A i \in k .. e - 1 : Bit(i) < Bit(j)
  <2>1. k \in 0 .. NumBlocks /\ Bit(j) \in Int
    BY <1>1 DEF Bit
  <2> QED BY <2>1, StopBlockProperty
<1> HIDE DEF e
<1>3. e >= j
  BY <1>1, <1>2 DEF Bit
<1>4. e > j => j \in k .. e - 1
  BY <1>1, <1>2
<1>5. ~(Bit(j) < Bit(j))
  BY <1>1 DEF Bit
<1>6. e = j
  BY <1>1, <1>2, <1>3, <1>4, <1>5
<1> QED BY <1>6 DEF e

\* A decode without a hint runs to the end of the input.
LEMMA StopAtEnd ==
    ASSUME NEW k \in Blocks
    PROVE  StopBlock(k, NoHint) = NumBlocks
<1>1. NumBlocks \in Nat /\ k \in 0 .. NumBlocks
  BY ConstantTypes DEF Blocks
<1>2. NoHint \in Int /\ \A e \in 0 .. NumBlocks : Bit(e) < NoHint
  BY <1>1 DEF NoHint, EndOfInput, Bit
<1> DEFINE e == StopBlock(k, NoHint)
<1>3. e \in k .. NumBlocks /\ (e = NumBlocks \/ Bit(e) >= NoHint)
  BY <1>1, <1>2, StopBlockProperty
<1> HIDE DEF e
<1>4. e \in 0 .. NumBlocks /\ Bit(e) \in Int
  BY <1>1, <1>3 DEF Bit
<1>5. e = NumBlocks
  BY <1>2, <1>3, <1>4
<1> QED BY <1>5 DEF e

-----------------------------------------------------------------------------
(* Bytes and windows. *)

\* A function on 1 .. n is a sequence of length n.
LEMMA FcnIsSeq ==
    ASSUME NEW n \in Nat, NEW S, NEW f \in [1 .. n -> S]
    PROVE  f \in Seq(S) /\ Len(f) = n
<1>1. f \in Seq(S)
  BY SeqDef, Zenon
<1>2. DOMAIN f = 1 .. n /\ DOMAIN f = 1 .. Len(f) /\ Len(f) \in Nat
  BY <1>1, LenProperties, Zenon
<1>3. Len(f) = n
  BY <1>2
<1> QED BY <1>1, <1>3

\* The bytes of an interval of blocks are a sequence of known length.
LEMMA BytesType ==
    ASSUME NEW lo \in Nat, NEW hi \in Nat, lo <= hi
    PROVE  /\ Bytes(lo, hi) \in Seq(Nat)
           /\ Len(Bytes(lo, hi)) = hi - lo
           /\ \A i \in 1 .. hi - lo : Bytes(lo, hi)[i] = lo + i - 1
           /\ hi <= NumBlocks => Bytes(lo, hi) \in Seq(Value)
<1>1. hi - lo \in Nat
  OBVIOUS
<1>2. Bytes(lo, hi) \in [1 .. hi - lo -> Nat]
  BY DEF Bytes
<1>3. ASSUME hi <= NumBlocks PROVE Bytes(lo, hi) \in [1 .. hi - lo -> Value]
  BY <1>3, ConstantTypes DEF Bytes, Value, Blocks
<1>4. Bytes(lo, hi) \in Seq(Nat) /\ Len(Bytes(lo, hi)) = hi - lo
  BY <1>1, <1>2, FcnIsSeq
<1>5. ASSUME hi <= NumBlocks PROVE Bytes(lo, hi) \in Seq(Value)
  <2>1. Bytes(lo, hi) \in [1 .. hi - lo -> Value]
    BY <1>3, <1>5, Zenon
  <2> QED BY <1>1, <2>1, FcnIsSeq
<1>6. \A i \in 1 .. hi - lo : Bytes(lo, hi)[i] = lo + i - 1
  BY DEF Bytes
<1> QED BY <1>4, <1>5, <1>6

\* Adjacent intervals concatenate.
LEMMA BytesConcat ==
    ASSUME NEW a \in Nat, NEW b \in Nat, NEW c \in Nat, a <= b, b <= c
    PROVE  Bytes(a, b) \o Bytes(b, c) = Bytes(a, c)
<1>0. a <= c
  OBVIOUS
<1>1. /\ Bytes(a, b) \in Seq(Nat) /\ Len(Bytes(a, b)) = b - a
      /\ Bytes(b, c) \in Seq(Nat) /\ Len(Bytes(b, c)) = c - b
      /\ Bytes(a, c) \in Seq(Nat) /\ Len(Bytes(a, c)) = c - a
  BY <1>0, BytesType, Zenon
<1>2. \A i \in 1 .. b - a : Bytes(a, b)[i] = a + i - 1
  BY BytesType
<1>3. \A i \in 1 .. c - b : Bytes(b, c)[i] = b + i - 1
  BY BytesType
<1>4. \A i \in 1 .. c - a : Bytes(a, c)[i] = a + i - 1
  BY <1>0, BytesType
<1> DEFINE s == Bytes(a, b) \o Bytes(b, c)
<1>5. /\ s \in Seq(Nat) /\ Len(s) = c - a
      /\ \A i \in 1 .. c - a : s[i] = IF i <= b - a THEN Bytes(a, b)[i]
                                      ELSE Bytes(b, c)[i - (b - a)]
  <2>1. (b - a) + (c - b) = c - a
    OBVIOUS
  <2> DEFINE s1 == Bytes(a, b)
             s2 == Bytes(b, c)
  <2>2. /\ s1 \o s2 \in Seq(Nat) /\ Len(s1 \o s2) = Len(s1) + Len(s2)
        /\ \A i \in 1 .. Len(s1) + Len(s2) :
              (s1 \o s2)[i] = IF i <= Len(s1) THEN s1[i] ELSE s2[i - Len(s1)]
    BY <1>1, ConcatProperties, Zenon
  <2> QED BY <1>1, <2>1, <2>2, Zenon
<1>6. \A i \in 1 .. c - a : s[i] = Bytes(a, c)[i]
  BY <1>2, <1>3, <1>4, <1>5
<1> QED BY <1>1, <1>5, <1>6, SeqEqual

\* The last n of an interval of blocks.
LEMMA BytesLastN ==
    ASSUME NEW lo \in Nat, NEW hi \in Nat, NEW n \in Nat, lo <= hi
    PROVE  LastN(Bytes(lo, hi), n) = Bytes(IF hi - lo > n THEN hi - n ELSE lo, hi)
<1>1. Bytes(lo, hi) \in Seq(Nat) /\ Len(Bytes(lo, hi)) = hi - lo
  BY BytesType
<1>2. CASE ~(hi - lo > n)
  BY <1>1, <1>2 DEF LastN
<1>3. CASE hi - lo > n
  <2> DEFINE s == SubSeq(Bytes(lo, hi), hi - lo - n + 1, hi - lo)
  <2>1. LastN(Bytes(lo, hi), n) = s
    BY <1>1, <1>3 DEF LastN
  <2>2. s = [i \in 1 .. n |-> Bytes(lo, hi)[hi - lo - n + i]]
    BY <1>1, <1>3
  <2>3. \A i \in 1 .. n : Bytes(lo, hi)[hi - lo - n + i] = hi - n + i - 1
    BY <1>3 DEF Bytes
  <2>4. Bytes(hi - n, hi) = [i \in 1 .. n |-> hi - n + i - 1]
    BY <1>3 DEF Bytes
  <2>5. s = Bytes(hi - n, hi)
    BY <2>2, <2>3, <2>4
  <2> QED BY <1>3, <2>1, <2>5
<1> QED BY <1>2, <1>3

\* The window chain of build_prev_tail_fast: from the window at a chunk's
\* first block, the chunk's tail is the window at its stop, also when the
\* chunk is shorter than the window or empty.
LEMMA TailStep ==
    ASSUME NEW k \in 0 .. NumBlocks, NEW e \in k .. NumBlocks
    PROVE  NextTail(k, e, WindowAt(k)) = WindowAt(e)
<1>1. NumBlocks \in Nat /\ Window \in Nat /\ Window > 0
  BY ConstantTypes
<1>2. k # Corrupt /\ k \in Nat /\ e \in Nat /\ k <= e
  BY <1>1 DEF Corrupt
<1>3. ResolvedBytes(k, e, WindowAt(k)) = Bytes(k, e)
  BY <1>2 DEF ResolvedBytes
<1>4. Len(Bytes(k, e)) = e - k
  BY <1>2, BytesType
<1>5. CASE e - k < Window
  <2> DEFINE lo == IF k > Window THEN k - Window ELSE 0
             n == Window - (e - k)
             lo2 == IF k - lo > n THEN k - n ELSE lo
  <2>1. NextTail(k, e, WindowAt(k)) = LastN(Bytes(lo, k), n) \o Bytes(k, e)
    BY <1>3, <1>4, <1>5 DEF NextTail, WindowAt
  <2>2. lo \in Nat /\ n \in Nat /\ lo <= k
    BY <1>1, <1>2, <1>5
  <2>3. LastN(Bytes(lo, k), n) = Bytes(lo2, k)
    BY <1>2, <2>2, BytesLastN
  <2>4. lo2 \in Nat /\ lo2 <= k
    BY <1>2, <2>2
  <2>5. Bytes(lo2, k) \o Bytes(k, e) = Bytes(lo2, e)
    BY <1>2, <2>4, BytesConcat
  <2>6. lo2 = IF e > Window THEN e - Window ELSE 0
    BY <1>1, <1>2, <1>5
  <2> QED BY <2>1, <2>3, <2>5, <2>6 DEF WindowAt
<1>6. CASE ~(e - k < Window)
  <2>1. NextTail(k, e, WindowAt(k)) = LastN(Bytes(k, e), Window)
    BY <1>3, <1>4, <1>6 DEF NextTail
  <2>2. LastN(Bytes(k, e), Window) = Bytes(IF e - k > Window THEN e - Window ELSE k, e)
    BY <1>1, <1>2, BytesLastN
  <2>3. (IF e - k > Window THEN e - Window ELSE k) = (IF e > Window THEN e - Window ELSE 0)
    BY <1>1, <1>2, <1>6
  <2> QED BY <2>1, <2>2, <2>3 DEF WindowAt
<1> QED BY <1>5, <1>6

-----------------------------------------------------------------------------
(* Types of the helpers, for any result and any tail. *)

LEMMA ResolvedBytesType ==
    ASSUME NEW first \in Value \cup {NumBlocks}, NEW next \in Value \cup {NumBlocks}, NEW tail
    PROVE  ResolvedBytes(first, next, tail) \in Seq(Value)
<1>1. <<Corrupt>> \in Seq(Value)
  BY DEF Value
<1>2. CASE first # Corrupt /\ first <= next
  <2>1. first \in Nat /\ next \in Nat /\ next <= NumBlocks
    BY <1>2, ConstantTypes DEF Value, Blocks, Corrupt
  <2>2. Bytes(first, next) \in Seq(Value)
    BY <1>2, <2>1, BytesType
  <2>3. [i \in 1 .. (next - first) |-> Corrupt] \in Seq(Value)
    <3>1. next - first \in Nat /\ Corrupt \in Value
      BY <1>2, <2>1 DEF Value
    <3>2. [i \in 1 .. (next - first) |-> Corrupt] \in [1 .. (next - first) -> Value]
      BY <3>1
    <3> QED BY <3>1, <3>2, SeqDef
  <2> QED BY <1>2, <2>2, <2>3 DEF ResolvedBytes
<1>3. CASE first # Corrupt /\ ~(first <= next)
  <2>1. 1 .. (next - first) = {}
    BY <1>3, ConstantTypes DEF Value, Blocks, Corrupt
  <2>2. Bytes(first, next) = <<>>
    BY <2>1 DEF Bytes
  <2>3. [i \in 1 .. (next - first) |-> Corrupt] = <<>>
    BY <2>1
  <2>4. <<>> \in Seq(Value)
    OBVIOUS
  <2>5. ResolvedBytes(first, next, tail) = <<>>
    BY <1>3, <2>2, <2>3, Zenon DEF ResolvedBytes
  <2> QED BY <2>4, <2>5
<1>4. CASE first = Corrupt
  BY <1>1, <1>4 DEF ResolvedBytes
<1> QED BY <1>2, <1>3, <1>4

LEMMA LastNType ==
    ASSUME NEW S, NEW s \in Seq(S), NEW n \in Nat
    PROVE  LastN(s, n) \in Seq(S)
BY DEF LastN

LEMMA NextTailType ==
    ASSUME NEW first \in Value \cup {NumBlocks}, NEW next \in Value \cup {NumBlocks},
           NEW tail \in Seq(Value)
    PROVE  NextTail(first, next, tail) \in Seq(Value)
<1> DEFINE bytes == ResolvedBytes(first, next, tail)
<1>1. bytes \in Seq(Value)
  BY ResolvedBytesType, Zenon
<1>2. Len(bytes) \in Nat
  BY <1>1, LenProperties
<1> HIDE DEF bytes
<1>3. LastN(bytes, Window) \in Seq(Value)
  BY <1>1, LastNType, ConstantTypes
<1>4. ASSUME Len(bytes) < Window
      PROVE  LastN(tail, Window - Len(bytes)) \o bytes \in Seq(Value)
  <2>1. Window - Len(bytes) \in Nat
    BY <1>2, <1>4, ConstantTypes
  <2>2. LastN(tail, Window - Len(bytes)) \in Seq(Value)
    BY <2>1, LastNType
  <2> QED BY <1>1, <2>2
<1> QED BY <1>3, <1>4 DEF NextTail, bytes

LEMMA EndsInType ==
    ASSUME NEW first, NEW next
    PROVE  EndsIn(first, next) \subseteq 0 .. NumBlocks - 1
<1>1. MemberEnds \subseteq 0 .. NumBlocks - 1
  BY ConstantTypes
<1>2. EndsIn(first, next) \subseteq MemberEnds
  BY Zenon DEF EndsIn
<1> QED BY <1>1, <1>2, Zenon

LEMMA CarriedBytesType ==
    ASSUME NEW first \in Value \cup {NumBlocks}, NEW next \in Value \cup {NumBlocks},
           NEW bytes \in Seq(Value), NEW cur \in Seq(Value)
    PROVE  CarriedBytes(first, next, bytes, cur) \in Seq(Value)
<1> DEFINE ends == EndsIn(first, next)
<1>1. ends \subseteq 0 .. NumBlocks - 1 /\ NumBlocks - 1 \in Nat
  BY EndsInType, ConstantTypes
<1>2. first \in Int
  BY ConstantTypes DEF Value, Blocks, Corrupt
<1>3. ASSUME ends # {}
      PROVE  SubSeq(bytes, Max(ends) - first + 2, Len(bytes)) \in Seq(Value)
  <2>1. Max(ends) \in ends
    BY <1>1, <1>3, MaxProperty
  <2>2. Max(ends) \in Int /\ first <= Max(ends)
    BY <1>1, <2>1 DEF EndsIn
  <2> QED BY <1>2, <2>2
<1> QED BY <1>3 DEF CarriedBytes

\* A chunk whose trailers all pass holds no bad trailer.
LEMMA ChunkVerdictNone ==
    ASSUME NEW first, NEW next, NEW bytes, NEW cur,
           ChunkVerdict(first, next, bytes, cur) = "none"
    PROVE  \A m \in EndsIn(first, next) : fault[m] # "crc" /\ fault[m] # "isize"
<1> DEFINE verdict(m) == TrailerVerdict(m, MemberBytes(m, first, next, bytes, cur))
           wrong == {m \in EndsIn(first, next) : verdict(m) # "none"}
<1>1. wrong \subseteq Nat
  <2>1. EndsIn(first, next) \subseteq Nat
    BY EndsInType, ConstantTypes
  <2> QED BY <2>1, Zenon
<1>2. wrong = {}
  <2>1. SUFFICES ASSUME wrong # {} PROVE FALSE
    OBVIOUS
  <2>2. Min(wrong) \in wrong
    BY <1>1, <2>1, MinProperty
  <2> QED BY <2>1, <2>2 DEF ChunkVerdict
<1>3. \A m \in EndsIn(first, next) : verdict(m) = "none"
  BY <1>2
<1> QED BY <1>3 DEF TrailerVerdict

\* Block 0 is a block.
LEMMA ZeroIsBlock == 0 \in Value \cup {NumBlocks} /\ 0 \in Nat
BY ConstantTypes DEF Value, Blocks

\* What the trailers say is a fault kind or nothing.
LEMMA ChunkVerdictType ==
    ASSUME NEW first, NEW next, NEW bytes, NEW cur
    PROVE  ChunkVerdict(first, next, bytes, cur) \in {"none", "crc", "isize"}
<1>1. \A m, b : TrailerVerdict(m, b) \in {"none", "crc", "isize"}
  BY DEF TrailerVerdict
<1> QED BY <1>1, Zenon DEF ChunkVerdict

\* A chunk that decoded, resolved and passed its trailers has no damage.
LEMMA ChunkUndamaged ==
    ASSUME fault \in InputFaults, NEW first \in 0 .. NumBlocks, NEW next \in 0 .. NumBlocks,
           NEW bytes, NEW cur, ChunkVerdict(first, next, bytes, cur) = "none",
           \A k \in first .. next - 1 : fault[k] # "decode",
           \A k \in first .. next - 1 : fault[k] # "resolve"
    PROVE  \A k \in first .. next - 1 : fault[k] = "none"
<1> SUFFICES ASSUME NEW k \in first .. next - 1 PROVE fault[k] = "none"
  OBVIOUS
<1>1. k \in Blocks /\ first <= k /\ k < next
  BY ConstantTypes DEF Blocks
<1>2. fault[k] \in FaultKind \cup {"none"} /\ (fault[k] \in {"crc", "isize"} => k \in MemberEnds)
  BY <1>1, StreamAssumption, Zenon DEF PossibleFault
<1>3. k \in MemberEnds => fault[k] # "crc" /\ fault[k] # "isize"
  <2>1. \A m \in EndsIn(first, next) : fault[m] # "crc" /\ fault[m] # "isize"
    BY ChunkVerdictNone
  <2> QED BY <1>1, <2>1, Zenon DEF EndsIn
<1>4. fault[k] # "decode" /\ fault[k] # "resolve"
  BY Zenon
<1> QED BY <1>2, <1>3, <1>4, Zenon DEF FaultKind

-----------------------------------------------------------------------------
(* Members. *)

\* A part of the bytes of an interval of blocks.
LEMMA BytesSub ==
    ASSUME NEW lo \in Nat, NEW hi \in Nat, lo <= hi,
           NEW i \in Nat, NEW j \in Nat, 1 <= i, i <= j + 1, j <= hi - lo
    PROVE  SubSeq(Bytes(lo, hi), i, j) = Bytes(lo + i - 1, lo + j)
<1>1. Bytes(lo, hi) \in Seq(Nat) /\ Len(Bytes(lo, hi)) = hi - lo
  BY BytesType
<1>2. SubSeq(Bytes(lo, hi), i, j) = [n \in 1 .. j - i + 1 |-> Bytes(lo, hi)[i + n - 1]]
  BY <1>1
<1>3. \A n \in 1 .. j - i + 1 : Bytes(lo, hi)[i + n - 1] = lo + i - 1 + n - 1
  BY DEF Bytes
<1>4. Bytes(lo + i - 1, lo + j) = [n \in 1 .. j - i + 1 |-> lo + i - 1 + n - 1]
  BY DEF Bytes
<1> QED BY <1>2, <1>3, <1>4

\* What makes s the first block of the member of block k.
StartsMember(s, k) ==
    /\ s \in 0 .. k
    /\ s = 0 \/ s - 1 \in MemberEnds
    /\ \A j \in s .. k - 1 : j \notin MemberEnds

\* Every block has exactly one start of its member.
LEMMA MemberStartUnique ==
    ASSUME NEW k \in Nat, NEW s, StartsMember(s, k)
    PROVE  MemberStart(k) = s
<1>1. s \in 0 .. k /\ MemberStart(k) \in 0 .. k
      /\ (MemberStart(k) = 0 \/ MemberStart(k) - 1 \in MemberEnds)
      /\ \A j \in MemberStart(k) .. k - 1 : j \notin MemberEnds
  BY DEF StartsMember, MemberStart
<1> DEFINE t == MemberStart(k)
<1> HIDE DEF t
<1>2. t \in 0 .. k /\ (t = 0 \/ t - 1 \in MemberEnds) /\ \A j \in t .. k - 1 : j \notin MemberEnds
  BY <1>1 DEF t
<1>3. CASE t < s
  <2>1. s - 1 \in MemberEnds /\ s - 1 \in t .. k - 1
    BY <1>1, <1>2, <1>3 DEF StartsMember
  <2> QED BY <1>2, <2>1
<1>4. CASE s < t
  <2>1. t - 1 \in MemberEnds /\ t - 1 \in s .. k - 1
    BY <1>1, <1>2, <1>4
  <2> QED BY <2>1 DEF StartsMember
<1> QED BY <1>1, <1>2, <1>3, <1>4 DEF t

LEMMA MemberStartProperty ==
    ASSUME NEW k \in Nat
    PROVE  StartsMember(MemberStart(k), k)
<1> DEFINE T == {e \in 0 .. k : e = 0 \/ e - 1 \in MemberEnds}
           s == Max(T)
<1>1. T \subseteq 0 .. k /\ 0 \in T
  OBVIOUS
<1>2. s \in T /\ \A y \in T : s >= y
  BY <1>1, MaxProperty
<1> HIDE DEF s
<1>3. ASSUME NEW j \in s .. k - 1, j \in MemberEnds PROVE FALSE
  <2>1. j + 1 \in T /\ j + 1 > s
    BY <1>2, <1>3
  <2> QED BY <1>2, <2>1
<1>4. StartsMember(s, k)
  BY <1>2, <1>3 DEF StartsMember
<1> QED BY <1>4, MemberStartUnique

\* No member ends between f and n, or one does and e is the last such end.
LEMMA MemberStartMoves ==
    ASSUME NEW f \in Nat, NEW n \in Nat, f <= n
    PROVE  /\ (\A m \in f .. n - 1 : m \notin MemberEnds) => MemberStart(n) = MemberStart(f)
           /\ \A e \in f .. n - 1 :
                 e \in MemberEnds /\ (\A m \in e + 1 .. n - 1 : m \notin MemberEnds) => MemberStart(n) = e + 1
<1>1. ASSUME \A m \in f .. n - 1 : m \notin MemberEnds PROVE MemberStart(n) = MemberStart(f)
  <2> DEFINE s == MemberStart(f)
  <2>1. StartsMember(s, f)
    BY MemberStartProperty
  <2> HIDE DEF s
  <2>2. StartsMember(s, n)
    BY <1>1, <2>1 DEF StartsMember
  <2> QED BY <2>2, MemberStartUnique DEF s
<1>2. ASSUME NEW e \in f .. n - 1, e \in MemberEnds, \A m \in e + 1 .. n - 1 : m \notin MemberEnds
      PROVE  MemberStart(n) = e + 1
  <2>1. StartsMember(e + 1, n)
    BY <1>2 DEF StartsMember
  <2> QED BY <2>1, MemberStartUnique
<1> QED BY <1>1, <1>2

\* A chunk of true bytes, added to the true bytes of the member in progress,
\* leaves the true bytes of the member in progress at its end.
LEMMA CarriedTrue ==
    ASSUME NEW f \in 0 .. NumBlocks, NEW n \in f .. NumBlocks
    PROVE  CarriedBytes(f, n, Bytes(f, n), Bytes(MemberStart(f), f)) = Bytes(MemberStart(n), n)
<1>1. NumBlocks \in Nat /\ MemberEnds \subseteq 0 .. NumBlocks - 1
  BY ConstantTypes
<1>2. f \in Nat /\ n \in Nat /\ f <= n
  BY <1>1
<1>3. MemberStart(f) \in 0 .. f
  BY <1>2, MemberStartProperty DEF StartsMember
<1> DEFINE ends == EndsIn(f, n)
<1>4. CASE ends = {}
  <2>1. \A m \in f .. n - 1 : m \notin MemberEnds
    BY <1>2, <1>4 DEF EndsIn
  <2>2. MemberStart(n) = MemberStart(f)
    BY <1>2, <2>1, MemberStartMoves
  <2>3. CarriedBytes(f, n, Bytes(f, n), Bytes(MemberStart(f), f)) = Bytes(MemberStart(f), f) \o Bytes(f, n)
    BY <1>4, Zenon DEF CarriedBytes
  <2>4. MemberStart(f) \in Nat /\ MemberStart(f) <= f
    BY <1>2, <1>3
  <2> QED BY <1>2, <2>2, <2>3, <2>4, BytesConcat
<1>5. CASE ends # {}
  <2> DEFINE e == Max(ends)
  <2>1. ends \subseteq 0 .. NumBlocks - 1 /\ NumBlocks - 1 \in Nat
    BY EndsInType, ConstantTypes
  <2>2. e \in ends /\ \A y \in ends : e >= y
    BY <1>5, <2>1, MaxProperty
  <2>3. CarriedBytes(f, n, Bytes(f, n), Bytes(MemberStart(f), f)) = SubSeq(Bytes(f, n), e - f + 2, Len(Bytes(f, n)))
    BY <1>5, Zenon DEF CarriedBytes
  <2> HIDE DEF e
  <2>4. e \in Nat /\ e \in f .. n - 1 /\ e \in MemberEnds
    BY <1>2, <2>1, <2>2 DEF EndsIn
  <2>5. \A m \in e + 1 .. n - 1 : m \notin MemberEnds
    <3> SUFFICES ASSUME NEW m \in e + 1 .. n - 1, m \in MemberEnds PROVE FALSE
      OBVIOUS
    <3>1. m \in ends /\ m > e /\ m \in Nat
      BY <1>2, <2>4 DEF EndsIn
    <3> QED BY <2>2, <2>4, <3>1
  <2>6. MemberStart(n) = e + 1
    BY <1>2, <2>4, <2>5, MemberStartMoves
  <2>7. Len(Bytes(f, n)) = n - f
    BY <1>2, BytesType
  <2>8. /\ e - f + 2 \in Nat /\ n - f \in Nat /\ 1 <= e - f + 2 /\ e - f + 2 <= (n - f) + 1
        /\ f + (e - f + 2) - 1 = e + 1 /\ f + (n - f) = n
    BY <1>2, <2>4
  <2>9. SubSeq(Bytes(f, n), e - f + 2, n - f) = Bytes(f + (e - f + 2) - 1, f + (n - f))
    <3> DEFINE i == e - f + 2
               j == n - f
    <3>1. i \in Nat /\ j \in Nat /\ 1 <= i /\ i <= j + 1 /\ j <= n - f
      BY <1>2, <2>8
    <3> HIDE DEF i, j
    <3>2. SubSeq(Bytes(f, n), i, j) = Bytes(f + i - 1, f + j)
      BY <1>2, <3>1, BytesSub
    <3> QED BY <3>2 DEF i, j
  <2> QED BY <2>3, <2>6, <2>7, <2>8, <2>9
<1> QED BY <1>4, <1>5

\* The bytes compared with a trailer that ends in such a chunk are those of
\* its member.
LEMMA MemberTrue ==
    ASSUME NEW f \in 0 .. NumBlocks, NEW n \in f .. NumBlocks, NEW m \in EndsIn(f, n)
    PROVE  MemberBytes(m, f, n, Bytes(f, n), Bytes(MemberStart(f), f)) = Bytes(MemberStart(m), m + 1)
<1>1. NumBlocks \in Nat /\ MemberEnds \subseteq 0 .. NumBlocks - 1
  BY ConstantTypes
<1>2. f \in Nat /\ n \in Nat /\ m \in Nat /\ f <= m /\ m < n /\ m \in MemberEnds /\ f <= n
  BY <1>1 DEF EndsIn
<1>3. MemberStart(f) \in 0 .. f
  BY <1>2, MemberStartProperty DEF StartsMember
<1> DEFINE earlier == {e \in EndsIn(f, n) : e < m}
<1>4. earlier \subseteq 0 .. NumBlocks - 1 /\ NumBlocks - 1 \in Nat
  BY EndsInType, ConstantTypes
<1>5. CASE earlier = {}
  <2>1. \A e \in f .. m - 1 : e \notin MemberEnds
    BY <1>2, <1>5 DEF EndsIn
  <2>2. MemberStart(m) = MemberStart(f)
    BY <1>2, <2>1, MemberStartMoves
  <2>3. MemberBytes(m, f, n, Bytes(f, n), Bytes(MemberStart(f), f))
          = Bytes(MemberStart(f), f) \o SubSeq(Bytes(f, n), 1, m - f + 1)
    BY <1>5, Zenon DEF MemberBytes
  <2>4. SubSeq(Bytes(f, n), 1, m - f + 1) = Bytes(f, m + 1)
    <3> DEFINE j == m - f + 1
    <3>1. j \in Nat /\ 1 <= j + 1 /\ j <= n - f /\ f + j = m + 1 /\ f + 1 - 1 = f
      BY <1>2
    <3> HIDE DEF j
    <3>2. f \in Nat /\ n \in Nat /\ f <= n /\ 1 \in Nat /\ 1 <= 1 /\ j \in Nat /\ 1 <= j + 1 /\ j <= n - f
      BY <1>2, <3>1
    <3>3. SubSeq(Bytes(f, n), 1, j) = Bytes(f + 1 - 1, f + j)
      BY <3>2, BytesSub, Zenon
    <3> QED BY <3>1, <3>3 DEF j
  <2>5. MemberStart(f) \in Nat /\ MemberStart(f) <= f /\ m + 1 \in Nat /\ f <= m + 1 /\ f \in Nat
    BY <1>2, <1>3
  <2>6. Bytes(MemberStart(f), f) \o Bytes(f, m + 1) = Bytes(MemberStart(f), m + 1)
    BY <2>5, BytesConcat, Zenon
  <2> QED BY <2>2, <2>3, <2>4, <2>6, Zenon
<1>6. CASE earlier # {}
  <2> DEFINE e == Max(earlier)
  <2>1. e \in earlier /\ \A y \in earlier : e >= y
    BY <1>4, <1>6, MaxProperty
  <2>2. MemberBytes(m, f, n, Bytes(f, n), Bytes(MemberStart(f), f)) = SubSeq(Bytes(f, n), e - f + 2, m - f + 1)
    BY <1>6, Zenon DEF MemberBytes
  <2> HIDE DEF e
  <2>3. e \in Nat /\ e \in f .. m - 1 /\ e \in MemberEnds
    BY <1>2, <1>4, <2>1 DEF EndsIn
  <2>4. \A y \in e + 1 .. m - 1 : y \notin MemberEnds
    <3> SUFFICES ASSUME NEW y \in e + 1 .. m - 1, y \in MemberEnds PROVE FALSE
      OBVIOUS
    <3>1. y \in earlier /\ y > e /\ y \in Nat
      BY <1>2, <2>3 DEF EndsIn
    <3> QED BY <2>1, <2>3, <3>1
  <2>5. MemberStart(m) = e + 1
    BY <1>2, <2>3, <2>4, MemberStartMoves
  <2> DEFINE i == e - f + 2
             j == m - f + 1
  <2>6. i \in Nat /\ j \in Nat /\ 1 <= i /\ i <= j + 1 /\ j <= n - f /\ f + i - 1 = e + 1 /\ f + j = m + 1
    BY <1>2, <2>3
  <2> HIDE DEF i, j
  <2>7. f \in Nat /\ n \in Nat /\ f <= n /\ i \in Nat /\ j \in Nat /\ 1 <= i /\ i <= j + 1 /\ j <= n - f
    BY <1>2, <2>6
  <2>8. SubSeq(Bytes(f, n), i, j) = Bytes(f + i - 1, f + j)
    BY <2>7, BytesSub, Zenon
  <2> QED BY <2>2, <2>5, <2>6, <2>8 DEF i, j
<1> QED BY <1>5, <1>6

\* So a mismatch among the trailers of such a chunk is damage of the input.
LEMMA ChunkVerdictReal ==
    ASSUME NEW f \in 0 .. NumBlocks, NEW n \in f .. NumBlocks,
           NEW v, v = ChunkVerdict(f, n, Bytes(f, n), Bytes(MemberStart(f), f)), v # "none"
    PROVE  \E k \in Blocks : fault[k] = v
<1> DEFINE said(m) == TrailerVerdict(m, MemberBytes(m, f, n, Bytes(f, n), Bytes(MemberStart(f), f)))
           wrong == {m \in EndsIn(f, n) : said(m) # "none"}
<1>1. EndsIn(f, n) \subseteq Nat /\ EndsIn(f, n) \subseteq Blocks
  BY EndsInType, ConstantTypes DEF Blocks
<1>2. wrong # {} /\ v = said(Min(wrong))
  BY Zenon DEF ChunkVerdict
<1>3. Min(wrong) \in wrong
  <2>1. wrong \subseteq Nat
    BY <1>1, Zenon
  <2> QED BY <1>2, <2>1, MinProperty
<1>4. PICK m \in EndsIn(f, n) : v = said(m)
  BY <1>2, <1>3, Zenon
<1>5. v = TrailerVerdict(m, Bytes(MemberStart(m), m + 1))
  BY <1>4, MemberTrue, Zenon
<1>6. v = fault[m]
  BY <1>5 DEF TrailerVerdict
<1> QED BY <1>1, <1>6

-----------------------------------------------------------------------------
(* Channels. *)

\* Taking the first message of a channel, and adding one at its end.
LEMMA TakeType ==
    ASSUME NEW S, NEW ch \in Seq(S), ch # <<>>
    PROVE  Head(ch) \in S /\ Tail(ch) \in Seq(S)
OBVIOUS

LEMMA PutType ==
    ASSUME NEW S, NEW ch \in Seq(S), NEW m \in S
    PROVE  Append(ch, m) \in Seq(S)
OBVIOUS

\* The messages of a channel after a receive and after a send.
LEMMA TakeElems ==
    ASSUME NEW S, NEW ch \in Seq(S), ch # <<>>
    PROVE  /\ 1 \in DOMAIN ch /\ Head(ch) = ch[1]
           /\ \A i \in DOMAIN Tail(ch) : i + 1 \in DOMAIN ch /\ Tail(ch)[i] = ch[i + 1]
OBVIOUS

LEMMA PutElems ==
    ASSUME NEW S, NEW ch \in Seq(S), NEW m \in S
    PROVE  \A i \in DOMAIN Append(ch, m) :
              Append(ch, m)[i] = m \/ (i \in DOMAIN ch /\ Append(ch, m)[i] = ch[i])
OBVIOUS

-----------------------------------------------------------------------------
(* A pool of threads, the channel it sends to and the reorder buffer behind *)
(* the channel: hold[w] is the message thread w is about to send (id 0 if   *)
(* there is none), ch the channel, R the reorder buffer.                    *)

\* The ids in the pool, the channel and the buffer.
PoolIds(hold, ch, R) ==
    ({hold[w].id : w \in DOMAIN hold} \cup {ch[i].id : i \in DOMAIN ch} \cup {x.id : x \in R}) \ {0}

\* No id is there twice.
PoolDistinct(hold, ch, R) ==
    /\ \A v, w \in DOMAIN hold : hold[v].id = hold[w].id => v = w \/ hold[v].id = 0
    /\ \A i, j \in DOMAIN ch : ch[i].id = ch[j].id => i = j \/ ch[i].id = 0
    /\ \A x, y \in R : x.id = y.id => x = y \/ x.id = 0
    /\ \A w \in DOMAIN hold, i \in DOMAIN ch : hold[w].id = ch[i].id => ch[i].id = 0
    /\ \A w \in DOMAIN hold, x \in R : hold[w].id = x.id => x.id = 0
    /\ \A i \in DOMAIN ch, x \in R : ch[i].id = x.id => x.id = 0

\* What the steps of such a pool do to its three parts.
Taken(hold, w, m) == [hold EXCEPT ![w] = m]
Sent(ch, m) == Append(ch, m)
Received(ch) == Tail(ch)
Kept(R, x) == R \cup {x}
Gone(R, x) == R \ {x}

\* The domain of a channel after a receive and after a send.
LEMMA TakeDomain ==
    ASSUME NEW S, NEW ch \in Seq(S), ch # <<>>
    PROVE  /\ 1 \in DOMAIN ch /\ Head(ch) = ch[1]
           /\ \A i \in DOMAIN Tail(ch) : i + 1 \in DOMAIN ch /\ Tail(ch)[i] = ch[i + 1]
           /\ \A i \in DOMAIN ch : i = 1 \/ (i - 1 \in DOMAIN Tail(ch) /\ Tail(ch)[i - 1] = ch[i])
           /\ \A i \in DOMAIN Tail(ch) : i + 1 # 1
           /\ \A i, j \in DOMAIN Tail(ch) : i + 1 = j + 1 => i = j
OBVIOUS

LEMMA PutDomain ==
    ASSUME NEW S, NEW ch \in Seq(S), NEW m \in S
    PROVE  /\ \A i \in DOMAIN ch : i \in DOMAIN Append(ch, m) /\ Append(ch, m)[i] = ch[i]
           /\ \E l \in DOMAIN Append(ch, m) :
                 /\ Append(ch, m)[l] = m /\ l \notin DOMAIN ch
                 /\ \A i \in DOMAIN Append(ch, m) : i = l \/ i \in DOMAIN ch
<1> DEFINE l == Len(ch) + 1
<1>1. \A i \in DOMAIN ch : i \in DOMAIN Append(ch, m) /\ Append(ch, m)[i] = ch[i]
  OBVIOUS
<1>2. /\ l \in DOMAIN Append(ch, m) /\ Append(ch, m)[l] = m /\ l \notin DOMAIN ch
      /\ \A i \in DOMAIN Append(ch, m) : i = l \/ i \in DOMAIN ch
  OBVIOUS
<1> QED BY <1>1, <1>2

\* The ids in a channel after a receive.
LEMMA TakeIds ==
    ASSUME NEW S, NEW ch \in Seq(S), ch # <<>>
    PROVE  {ch[i].id : i \in DOMAIN ch} = {Tail(ch)[i].id : i \in DOMAIN Tail(ch)} \cup {Head(ch).id}
<1> DEFINE c == Tail(ch)
<1>1. /\ 1 \in DOMAIN ch /\ Head(ch) = ch[1]
      /\ \A i \in DOMAIN c : i + 1 \in DOMAIN ch /\ c[i] = ch[i + 1]
      /\ \A i \in DOMAIN ch : i = 1 \/ (i - 1 \in DOMAIN c /\ c[i - 1] = ch[i])
  BY TakeDomain
<1> HIDE DEF c
<1>2. \A n : (\E i \in DOMAIN ch : n = ch[i].id) <=> (\E i \in DOMAIN c : n = c[i].id) \/ n = Head(ch).id
  BY <1>1
<1> QED BY <1>2, Zenon DEF c

\* A thread takes up a new message.
LEMMA PoolTake ==
    ASSUME NEW W, NEW M, NEW hold \in [W -> M], NEW ch \in Seq(M), NEW R \in SUBSET M,
           PoolDistinct(hold, ch, R),
           NEW w \in W, NEW m \in M, hold[w].id = 0, m.id \notin PoolIds(hold, ch, R)
    PROVE  /\ PoolDistinct(Taken(hold, w, m), ch, R)
           /\ PoolIds(Taken(hold, w, m), ch, R) = PoolIds(hold, ch, R) \cup ({m.id} \ {0})
<1> DEFINE h == Taken(hold, w, m)
<1>1. DOMAIN h = W /\ DOMAIN hold = W /\ h[w] = m /\ \A v \in W : v = w \/ h[v] = hold[v]
  BY DEF Taken
<1> HIDE DEF h
<1>2. m.id # 0 => /\ \A v \in W : hold[v].id # m.id
                  /\ \A i \in DOMAIN ch : ch[i].id # m.id
                  /\ \A x \in R : x.id # m.id
  BY <1>1 DEF PoolIds
<1>3. PoolDistinct(h, ch, R)
  BY <1>1, <1>2 DEF PoolDistinct
<1>4. \A n : n \in PoolIds(h, ch, R) <=> n \in PoolIds(hold, ch, R) \/ (n = m.id /\ n # 0)
  BY <1>1 DEF PoolIds
<1>5. PoolIds(h, ch, R) = PoolIds(hold, ch, R) \cup ({m.id} \ {0})
  <2>1. \A n : n \in {m.id} \ {0} <=> n = m.id /\ n # 0
    BY Zenon
  <2>2. \A n : n \in PoolIds(h, ch, R) <=> n \in PoolIds(hold, ch, R) \/ n \in {m.id} \ {0}
    BY <1>4, <2>1, Zenon
  <2> QED BY <2>2, Zenon
<1> QED BY <1>3, <1>5, Zenon DEF h

\* A thread sends its message to the channel.
LEMMA PoolSend ==
    ASSUME NEW W, NEW M, NEW hold \in [W -> M], NEW ch \in Seq(M), NEW R \in SUBSET M,
           PoolDistinct(hold, ch, R),
           NEW w \in W, NEW z \in M, z.id = 0
    PROVE  /\ PoolDistinct(Taken(hold, w, z), Sent(ch, hold[w]), R)
           /\ PoolIds(Taken(hold, w, z), Sent(ch, hold[w]), R) = PoolIds(hold, ch, R)
<1> DEFINE h == Taken(hold, w, z)
           c == Sent(ch, hold[w])
<1>1. DOMAIN h = W /\ DOMAIN hold = W /\ h[w] = z /\ \A v \in W : v = w \/ h[v] = hold[v]
  BY DEF Taken
<1>2. \A i \in DOMAIN ch : i \in DOMAIN c /\ c[i] = ch[i]
  BY PutDomain DEF Sent
<1>3. PICK l \in DOMAIN c : /\ c[l] = hold[w] /\ l \notin DOMAIN ch
                            /\ \A i \in DOMAIN c : i = l \/ i \in DOMAIN ch
  <2>1. hold[w] \in M
    OBVIOUS
  <2> QED BY <2>1, PutDomain DEF Sent
<1> HIDE DEF h, c
<1>4. PoolDistinct(h, c, R)
  BY <1>1, <1>2, <1>3 DEF PoolDistinct
<1>5. \A n : n \in PoolIds(h, c, R) <=> n \in PoolIds(hold, ch, R)
  BY <1>1, <1>2, <1>3 DEF PoolIds
<1> QED BY <1>4, <1>5, Zenon DEF h, c

\* A thread drops its message.
LEMMA PoolDrop ==
    ASSUME NEW W, NEW M, NEW hold \in [W -> M], NEW ch \in Seq(M), NEW R \in SUBSET M,
           PoolDistinct(hold, ch, R),
           NEW w \in W, NEW z \in M, z.id = 0
    PROVE  /\ PoolDistinct(Taken(hold, w, z), ch, R)
           /\ PoolIds(Taken(hold, w, z), ch, R) = PoolIds(hold, ch, R) \ {hold[w].id}
<1> DEFINE h == Taken(hold, w, z)
<1>1. DOMAIN h = W /\ DOMAIN hold = W /\ h[w] = z /\ \A v \in W : v = w \/ h[v] = hold[v]
  BY DEF Taken
<1> HIDE DEF h
<1>2. PoolDistinct(h, ch, R)
  BY <1>1 DEF PoolDistinct
<1>3. \A n : n \in PoolIds(h, ch, R) => n \in PoolIds(hold, ch, R) /\ n # hold[w].id
  BY <1>1 DEF PoolIds, PoolDistinct
<1>4. \A n : n \in PoolIds(hold, ch, R) /\ n # hold[w].id => n \in PoolIds(h, ch, R)
  BY <1>1 DEF PoolIds
<1> QED BY <1>2, <1>3, <1>4, Zenon DEF h

\* A message goes from the channel to the reorder buffer.
LEMMA PoolCollect ==
    ASSUME NEW W, NEW M, NEW hold \in [W -> M], NEW ch \in Seq(M), NEW R \in SUBSET M,
           PoolDistinct(hold, ch, R), ch # <<>>
    PROVE  /\ PoolDistinct(hold, Received(ch), Kept(R, Head(ch)))
           /\ PoolIds(hold, Received(ch), Kept(R, Head(ch))) = PoolIds(hold, ch, R)
<1> DEFINE c == Received(ch)
           Q == Kept(R, Head(ch))
<1>1. /\ 1 \in DOMAIN ch /\ Head(ch) = ch[1]
      /\ \A i \in DOMAIN c : i + 1 \in DOMAIN ch /\ c[i] = ch[i + 1]
      /\ \A i \in DOMAIN ch : i = 1 \/ (i - 1 \in DOMAIN c /\ c[i - 1] = ch[i])
      /\ \A i \in DOMAIN c : i + 1 # 1
      /\ \A i, j \in DOMAIN c : i + 1 = j + 1 => i = j
  BY TakeDomain DEF Received
<1>2. \A x \in Q : x \in R \/ x = ch[1]
  BY <1>1 DEF Kept
<1>3. R \subseteq Q /\ ch[1] \in Q
  BY <1>1 DEF Kept
<1>4. {ch[i].id : i \in DOMAIN ch} = {c[i].id : i \in DOMAIN c} \cup {Head(ch).id}
  BY TakeIds, Zenon DEF Received
<1>5. {x.id : x \in Q} = {x.id : x \in R} \cup {Head(ch).id}
  BY Zenon DEF Kept
<1> HIDE DEF c, Q
<1>6. PoolDistinct(hold, c, Q)
  BY <1>1, <1>2, <1>3 DEF PoolDistinct
<1>7. \A n : n \in PoolIds(hold, c, Q) <=> n \in PoolIds(hold, ch, R)
  BY <1>4, <1>5, Zenon DEF PoolIds
<1> QED BY <1>6, <1>7, Zenon DEF c, Q

\* A message of the channel is received and thrown away.
LEMMA PoolDiscard ==
    ASSUME NEW W, NEW M, NEW hold \in [W -> M], NEW ch \in Seq(M), NEW R \in SUBSET M,
           PoolDistinct(hold, ch, R), ch # <<>>
    PROVE  /\ PoolDistinct(hold, Received(ch), R)
           /\ PoolIds(hold, Received(ch), R) = PoolIds(hold, ch, R) \ {Head(ch).id}
<1> DEFINE c == Received(ch)
<1>1. /\ 1 \in DOMAIN ch /\ Head(ch) = ch[1]
      /\ \A i \in DOMAIN c : i + 1 \in DOMAIN ch /\ c[i] = ch[i + 1]
      /\ \A i \in DOMAIN ch : i = 1 \/ (i - 1 \in DOMAIN c /\ c[i - 1] = ch[i])
      /\ \A i \in DOMAIN c : i + 1 # 1
      /\ \A i, j \in DOMAIN c : i + 1 = j + 1 => i = j
  BY TakeDomain DEF Received
<1>2. {ch[i].id : i \in DOMAIN ch} = {c[i].id : i \in DOMAIN c} \cup {ch[1].id}
  <2>1. {ch[i].id : i \in DOMAIN ch} = {c[i].id : i \in DOMAIN c} \cup {Head(ch).id}
    BY TakeIds, Zenon DEF Received
  <2>2. Head(ch) = ch[1]
    BY <1>1
  <2> QED BY <2>1, <2>2, Zenon
<1> HIDE DEF c
<1>3. PoolDistinct(hold, c, R)
  BY <1>1 DEF PoolDistinct
<1>4. \A n : n \in PoolIds(hold, c, R) => n \in PoolIds(hold, ch, R) /\ n # ch[1].id
  BY <1>1 DEF PoolIds, PoolDistinct
<1>5. \A n : n \in PoolIds(hold, ch, R) /\ n # ch[1].id => n \in PoolIds(hold, c, R)
  BY <1>2, Zenon DEF PoolIds
<1>6. PoolIds(hold, c, R) = PoolIds(hold, ch, R) \ {ch[1].id}
  BY <1>4, <1>5
<1> QED BY <1>1, <1>3, <1>6, Zenon DEF c

\* A message leaves the reorder buffer.
LEMMA PoolRemove ==
    ASSUME NEW W, NEW M, NEW hold \in [W -> M], NEW ch \in Seq(M), NEW R \in SUBSET M,
           PoolDistinct(hold, ch, R), NEW y \in R
    PROVE  /\ PoolDistinct(hold, ch, Gone(R, y))
           /\ PoolIds(hold, ch, Gone(R, y)) = PoolIds(hold, ch, R) \ {y.id}
<1> DEFINE Q == Gone(R, y)
<1>1. \A x : x \in Q <=> x \in R /\ x # y
  BY DEF Gone
<1> HIDE DEF Q
<1>2. PoolDistinct(hold, ch, Q)
  BY <1>1 DEF PoolDistinct
<1>3. \A n : n \in PoolIds(hold, ch, Q) => n \in PoolIds(hold, ch, R) /\ n # y.id
  BY <1>1 DEF PoolIds, PoolDistinct
<1>4. \A n : n \in PoolIds(hold, ch, R) /\ n # y.id => n \in PoolIds(hold, ch, Q)
  BY <1>1 DEF PoolIds
<1> QED BY <1>2, <1>3, <1>4, Zenon DEF Q

\* A message without an id, an error, is put into the channel.
LEMMA PoolError ==
    ASSUME NEW M, NEW hold, NEW ch \in Seq(M), NEW R,
           PoolDistinct(hold, ch, R), NEW z \in M, z.id = 0
    PROVE  /\ PoolDistinct(hold, Sent(ch, z), R)
           /\ PoolIds(hold, Sent(ch, z), R) = PoolIds(hold, ch, R)
<1> DEFINE c == Sent(ch, z)
<1>1. \A i \in DOMAIN ch : i \in DOMAIN c /\ c[i] = ch[i]
  BY PutDomain DEF Sent
<1>2. PICK l \in DOMAIN c : /\ c[l] = z /\ l \notin DOMAIN ch
                            /\ \A i \in DOMAIN c : i = l \/ i \in DOMAIN ch
  BY PutDomain DEF Sent
<1> HIDE DEF c
<1>3. PoolDistinct(hold, c, R)
  BY <1>1, <1>2 DEF PoolDistinct
<1>4. \A n : n \in PoolIds(hold, c, R) <=> n \in PoolIds(hold, ch, R)
  BY <1>1, <1>2 DEF PoolIds
<1> QED BY <1>3, <1>4, Zenon DEF c
=============================================================================
