--------------------------- MODULE Markers_proofs ---------------------------
(***************************************************************************)
(* Proofs about Markers: a chunk decoded without its history and patched   *)
(* afterwards is the chunk, for every window, text, history and sequence   *)
(* of symbols, and the two decoders agree.                                 *)
(***************************************************************************)
EXTENDS Markers, TLAPS, WellFoundedInduction, SequenceTheorems

-----------------------------------------------------------------------------
(* Induction, by the least counterexample. *)

\* Every nonempty set of natural numbers has a least element.
LEMMA LeastElement ==
    ASSUME NEW T, T \subseteq Nat, T # {}
    PROVE  \E x \in T : \A y \in T : x <= y
<1> DEFINE R == {ss \in Nat \X Nat : ss[1] < ss[2]}
<1>1. IsWellFoundedOn(R, Nat)
  BY NatLessThanWellFounded DEF OpToRel
<1> HIDE DEF R
<1>2. PICK x \in T : \A y \in T : ~(<<y, x>> \in R)
  BY <1>1, WFMin
<1>3. \A y \in T : x <= y
  <2>1. SUFFICES ASSUME NEW y \in T, y < x PROVE FALSE
    OBVIOUS
  <2>2. <<y, x>> \in R
    BY <2>1 DEF R
  <2> QED BY <1>2, <2>2
<1> QED BY <1>3

\* A set that holds 0 and with each number below n its successor holds the
\* numbers up to n.
LEMMA SetInduction ==
    ASSUME NEW n \in Nat, NEW S, 0 \in S, \A k \in 0 .. n - 1 : k \in S => k + 1 \in S
    PROVE  \A k \in 0 .. n : k \in S
<1> DEFINE T == (0 .. n) \ S
<1>1. SUFFICES ASSUME T # {} PROVE FALSE
  OBVIOUS
<1>2. T \subseteq Nat
  OBVIOUS
<1>3. PICK x \in T : \A y \in T : x <= y
  <2> HIDE DEF T
  <2> QED BY <1>1, <1>2, LeastElement
<1>4. x # 0 /\ x - 1 \in 0 .. n - 1 /\ x - 1 \notin T
  BY <1>3
<1>5. x - 1 \in S
  BY <1>4
<1> QED BY <1>3, <1>4, <1>5

\* Two functions that agree up to n, and beyond it repeat with period d what
\* they had (or agree where there is nothing to repeat), agree.
Repeat(A, B, n, m, d) ==
    /\ \A i \in 1 .. n : A[i] = B[i]
    /\ \A i \in n + 1 .. m : i <= d => A[i] = B[i]
    /\ \A i \in n + 1 .. m : i > d => A[i] = A[i - d] /\ B[i] = B[i - d]

\* As two copies with the same distance do.
LEMMA SamePeriod ==
    ASSUME NEW A, NEW B, NEW n \in Nat, NEW m \in Nat, NEW d \in Nat \ {0},
           Repeat(A, B, n, m, d)
    PROVE  \A i \in 1 .. m : A[i] = B[i]
<1> USE DEF Repeat
<1> DEFINE T == {i \in 1 .. m : A[i] # B[i]}
<1>1. SUFFICES ASSUME T # {} PROVE FALSE
  OBVIOUS
<1>2. T \subseteq Nat
  OBVIOUS
<1>3. PICK x \in T : \A y \in T : x <= y
  <2> HIDE DEF T
  <2> QED BY <1>1, <1>2, LeastElement
<1>4. x \in n + 1 .. m /\ x > d /\ x - d \in 1 .. m
  BY <1>3
<1>5. A[x - d] = B[x - d]
  BY <1>3, <1>4
<1> QED BY <1>3, <1>4, <1>5

\* A step of a recursion over X, and a function of n steps from x0.
IsStep(F, X) == F \in [X \X Nat -> X]
IsIteration(f, X, x0, n, F) ==
    /\ f \in [0 .. n -> X]
    /\ f[0] = x0 /\ \A k \in 1 .. n : f[k] = F[<<f[k - 1], k>>]

\* A function given by its first value and a step from each value to the next
\* exists on every interval.
LEMMA RecursionExists ==
    ASSUME NEW X, NEW x0 \in X, NEW n \in Nat, NEW F, IsStep(F, X)
    PROVE  \E f : IsIteration(f, X, x0, n, F)
<1> USE DEF IsStep
<1> DEFINE Good(m, f) == f[0] = x0 /\ \A k \in 1 .. m : f[k] = F[<<f[k - 1], k>>]
           S == {m \in 0 .. n : \E f \in [0 .. m -> X] : Good(m, f)}
<1>1. 0 \in S
  <2> DEFINE g == [k \in 0 .. 0 |-> x0]
  <2>1. g \in [0 .. 0 -> X] /\ Good(0, g)
    OBVIOUS
  <2>2. 0 \in 0 .. n
    OBVIOUS
  <2> HIDE DEF g, Good
  <2> QED BY <2>1, <2>2
<1>2. ASSUME NEW m \in 0 .. n - 1, m \in S PROVE m + 1 \in S
  <2>1. PICK f \in [0 .. m -> X] : Good(m, f)
    BY <1>2
  <2> DEFINE g == [k \in 0 .. m + 1 |-> IF k = m + 1 THEN F[<<f[m], m + 1>>] ELSE f[k]]
  <2>2. F[<<f[m], m + 1>>] \in X
    OBVIOUS
  <2>3. g \in [0 .. m + 1 -> X]
    BY <2>2
  <2>4. g[0] = x0
    BY <2>1
  <2>5. \A k \in 1 .. m + 1 : g[k] = F[<<g[k - 1], k>>]
    <3> TAKE k \in 1 .. m + 1
    <3>1. CASE k = m + 1
      <4>1. g[k] = F[<<f[m], m + 1>>] /\ g[k - 1] = f[m]
        BY <3>1
      <4> QED BY <4>1, <3>1
    <3>2. CASE k # m + 1
      <4>1. k \in 1 .. m /\ g[k] = f[k] /\ g[k - 1] = f[k - 1]
        BY <3>2
      <4> QED BY <4>1, <2>1
    <3> QED BY <3>1, <3>2
  <2>6. m + 1 \in 0 .. n
    OBVIOUS
  <2> HIDE DEF g
  <2> QED BY <2>3, <2>4, <2>5, <2>6
<1>3. n \in S
  <2> HIDE DEF S
  <2> QED BY <1>1, <1>2, SetInduction
<1> QED BY <1>3 DEF IsIteration

-----------------------------------------------------------------------------
(* The cells. *)

\* What is a marker and what is not.
LEMMA CellKinds ==
    /\ \A c \in Byte : c \in Cell /\ c \in Int /\ ~IsMarker(c)
    /\ \A o \in 0 .. Window - 1 : MARKER16 + o \in Cell /\ IsMarker(MARKER16 + o)
    /\ \A c \in Cell : /\ c \in Int
                       /\ IsMarker(c) => c - MARKER16 \in 0 .. Window - 1
                       /\ ~IsMarker(c) => c \in Byte
<1>1. Window \in 1 .. 32768
  BY MarkersAssumption DEF MARKER16
<1>2. \A c \in Byte : c \in Cell /\ c \in Int /\ ~IsMarker(c)
  BY DEF Cell, Byte, IsMarker, MARKER16
<1>3. \A o \in 0 .. Window - 1 : MARKER16 + o \in Cell /\ IsMarker(MARKER16 + o)
  BY <1>1 DEF Cell, IsMarker, MARKER16
<1>4. ASSUME NEW c \in Cell
      PROVE  /\ c \in Int
             /\ IsMarker(c) => c - MARKER16 \in 0 .. Window - 1
             /\ ~IsMarker(c) => c \in Byte
  <2>1. CASE c \in Byte
    BY <1>2, <2>1
  <2>2. CASE c \in {MARKER16 + o : o \in 0 .. Window - 1}
    <3>1. PICK o \in 0 .. Window - 1 : c = MARKER16 + o
      BY <2>2
    <3>2. c \in Int /\ c - MARKER16 = o /\ IsMarker(c)
      BY <1>1, <3>1 DEF MARKER16, IsMarker
    <3> QED BY <3>2
  <2> QED BY <2>1, <2>2 DEF Cell
<1> QED BY <1>2, <1>3, <1>4

\* The constants as numbers.
LEMMA Constants ==
    /\ Window \in Nat /\ Window >= 1 /\ FlushAt \in Nat /\ FlushAt > Window
    /\ HandoffAt \in Nat /\ HandoffAt > Window
    /\ MaxLen \in Nat /\ MaxLen >= 1 /\ MaxOut \in Nat /\ MARKER16 \in Nat
  BY MarkersAssumption DEF MARKER16

-----------------------------------------------------------------------------
(* extract_from_u16: what the recursion in ExtractMarkers computes. *)

\* The marker recorded for cell n.
Note(cells, base, n) == [out_pos |-> base + n - 1, prefix_offset |-> cells[n] - MARKER16]

Notes == [out_pos : Int, prefix_offset : Int]

\* f[n] is what the loop has recorded after n cells.
IsRecord(f, cells, base) ==
    /\ f \in [0 .. Len(cells) -> Seq(Notes)]
    /\ f[0] = <<>>
    /\ \A n \in 1 .. Len(cells) :
          f[n] = IF IsMarker(cells[n]) THEN Append(f[n - 1], Note(cells, base, n)) ELSE f[n - 1]

\* The loop runs to its end, whatever the cells.
LEMMA RecordExists ==
    ASSUME NEW cells \in Seq(Cell), NEW base \in Nat
    PROVE  \E f : IsRecord(f, cells, base) /\ ExtractMarkers(cells, base) = f[Len(cells)]
<1> DEFINE X == Seq(Notes)
           N(n) == Note(cells, base, n)
           F == [p \in X \X Nat |->
                   IF p[2] \in 1 .. Len(cells) /\ IsMarker(cells[p[2]])
                   THEN Append(p[1], N(p[2])) ELSE p[1]]
           Body(f) == [n \in 0 .. Len(cells) |->
                         IF n = 0 THEN <<>>
                         ELSE IF IsMarker(cells[n])
                         THEN Append(f[n - 1], [out_pos |-> base + n - 1,
                                                prefix_offset |-> cells[n] - MARKER16])
                         ELSE f[n - 1]]
<1>1. \A n \in 1 .. Len(cells) : N(n) \in Notes
  <2> TAKE n \in 1 .. Len(cells)
  <2>1. cells[n] \in Int
    BY CellKinds
  <2>2. cells[n] - MARKER16 \in Int /\ base + n - 1 \in Int
    BY <2>1, Constants
  <2> QED BY <2>2 DEF Note, Notes
<1> HIDE DEF N
<1>2. F \in [X \X Nat -> X]
  <2>1. ASSUME NEW p \in X \X Nat
        PROVE  (IF p[2] \in 1 .. Len(cells) /\ IsMarker(cells[p[2]])
                THEN Append(p[1], N(p[2])) ELSE p[1]) \in X
    <3>1. p[1] \in Seq(Notes)
      OBVIOUS
    <3>2. CASE p[2] \in 1 .. Len(cells)
      <4>1. N(p[2]) \in Notes
        BY <1>1, <3>2
      <4>2. Append(p[1], N(p[2])) \in Seq(Notes)
        BY <3>1, <4>1
      <4> QED BY <3>1, <4>2
    <3> QED BY <3>1, <3>2
  <2> HIDE DEF X
  <2> QED BY <2>1
<1>3. <<>> \in X /\ Len(cells) \in Nat
  OBVIOUS
<1>4. PICK f \in [0 .. Len(cells) -> X] :
        f[0] = <<>> /\ \A k \in 1 .. Len(cells) : f[k] = F[<<f[k - 1], k>>]
  <2>1. \E f : IsIteration(f, X, <<>>, Len(cells), F)
    <3>1. IsStep(F, X)
      BY <1>2 DEF IsStep
    <3> HIDE DEF X, F
    <3> QED BY <1>3, <3>1, RecursionExists
  <2> HIDE DEF X, F
  <2> QED BY <2>1 DEF IsIteration
<1>5. \A k \in 1 .. Len(cells) :
        f[k] = IF IsMarker(cells[k]) THEN Append(f[k - 1], N(k)) ELSE f[k - 1]
  <2> TAKE k \in 1 .. Len(cells)
  <2>1. f[k - 1] \in X /\ k \in Nat
    BY <1>3
  <2>2. <<f[k - 1], k>> \in X \X Nat
    BY <2>1
  <2> HIDE DEF X
  <2> QED BY <1>4, <2>2
<1> HIDE DEF F
<1>6. IsRecord(f, cells, base)
  BY <1>4, <1>5 DEF IsRecord, N
<1>7. \E g : g = Body(g)
  <2>1. f = [n \in 0 .. Len(cells) |-> f[n]]
    BY <1>4
  <2>2. \A n \in 0 .. Len(cells) :
          f[n] = IF n = 0 THEN <<>>
                 ELSE IF IsMarker(cells[n])
                 THEN Append(f[n - 1], [out_pos |-> base + n - 1,
                                        prefix_offset |-> cells[n] - MARKER16])
                 ELSE f[n - 1]
    <3> TAKE n \in 0 .. Len(cells)
    <3>1. CASE n = 0
      BY <3>1, <1>4
    <3>2. CASE n # 0
      <4>1. n \in 1 .. Len(cells)
        BY <3>2, <1>3
      <4> QED BY <3>2, <4>1, <1>5 DEF N, Note
    <3> QED BY <3>1, <3>2
  <2>3. f = Body(f)
    BY <2>1, <2>2, Zenon
  <2> QED BY <2>3
<1>8. (CHOOSE g : g = Body(g)) = Body(CHOOSE g : g = Body(g))
  <2> HIDE DEF Body
  <2> QED BY <1>7
<1> DEFINE h == CHOOSE g : g = Body(g)
<1>9. ExtractMarkers(cells, base) = h[Len(cells)]
  BY DEF ExtractMarkers
<1>10. h = Body(h)
  BY <1>8
<1> HIDE DEF h
<1>11. \A n \in 0 .. Len(cells) : h[n] = f[n]
  <2> DEFINE S == {n \in 0 .. Len(cells) : h[n] = f[n]}
  <2>1. 0 \in S
    BY <1>3, <1>4, <1>10
  <2>2. ASSUME NEW n \in 0 .. Len(cells) - 1, n \in S PROVE n + 1 \in S
    <3>1. n + 1 \in 1 .. Len(cells) /\ n + 1 # 0 /\ (n + 1) - 1 = n /\ n + 1 \in 0 .. Len(cells)
      BY <1>3
    <3>2. h[n + 1] = IF IsMarker(cells[n + 1]) THEN Append(h[n], N(n + 1)) ELSE h[n]
      BY <1>10, <3>1 DEF N, Note
    <3>3. f[n + 1] = IF IsMarker(cells[n + 1]) THEN Append(f[n], N(n + 1)) ELSE f[n]
      BY <1>5, <3>1
    <3> QED BY <2>2, <3>1, <3>2, <3>3
  <2>3. \A n \in 0 .. Len(cells) : n \in S
    <3> HIDE DEF S
    <3> QED BY <1>3, <2>1, <2>2, SetInduction
  <2> QED BY <2>3
<1> QED BY <1>3, <1>6, <1>9, <1>11

SameUpTo(s, t, m) == m <= Len(s) /\ m <= Len(t) /\ \A i \in 1 .. m : s[i] = t[i]

\* The loop over a prefix does what the loop over the whole does up to there.
LEMMA RecordAgrees ==
    ASSUME NEW cells \in Seq(Cell), NEW more \in Seq(Cell), NEW base \in Nat,
           NEW m \in Nat, SameUpTo(cells, more, m),
           NEW f, IsRecord(f, cells, base), NEW g, IsRecord(g, more, base)
    PROVE  f[m] = g[m]
<1> USE DEF SameUpTo
<1> DEFINE S == {n \in 0 .. m : f[n] = g[n]}
<1>1. 0 \in S
  BY DEF IsRecord
<1>2. ASSUME NEW n \in 0 .. m - 1, n \in S PROVE n + 1 \in S
  <2>1. n + 1 \in 1 .. Len(cells) /\ n + 1 \in 1 .. Len(more) /\ (n + 1) - 1 = n
        /\ n + 1 \in 1 .. m /\ n + 1 \in 0 .. m
    OBVIOUS
  <2>2. cells[n + 1] = more[n + 1] /\ f[n] = g[n]
    BY <1>2, <2>1
  <2>3. Note(cells, base, n + 1) = Note(more, base, n + 1)
    BY <2>2 DEF Note
  <2>4. f[n + 1] = IF IsMarker(cells[n + 1])
                   THEN Append(f[n], Note(cells, base, n + 1)) ELSE f[n]
    BY <2>1 DEF IsRecord
  <2>5. g[n + 1] = IF IsMarker(more[n + 1])
                   THEN Append(g[n], Note(more, base, n + 1)) ELSE g[n]
    BY <2>1 DEF IsRecord
  <2> QED BY <2>1, <2>2, <2>3, <2>4, <2>5
<1>3. m \in S
  <2>1. \A n \in 0 .. m : n \in S
    <3> HIDE DEF S
    <3> QED BY <1>1, <1>2, SetInduction
  <2> QED BY <2>1
<1> QED BY <1>3

\* No cells, no markers.
LEMMA ExtractEmpty ==
    ASSUME NEW base \in Nat
    PROVE  ExtractMarkers(<<>>, base) = <<>>
<1>1. <<>> \in Seq(Cell) /\ Len(<<>>) = 0
  OBVIOUS
<1>2. PICK f : IsRecord(f, <<>>, base) /\ ExtractMarkers(<<>>, base) = f[Len(<<>>)]
  BY <1>1, RecordExists
<1> QED BY <1>1, <1>2 DEF IsRecord

JoinsAppend(a, b, w) == Append(a \o b, w) = a \o Append(b, w)

\* Appending to a concatenation appends to its second part.
LEMMA AppendConcat ==
    ASSUME NEW X, NEW a \in Seq(X), NEW b \in Seq(X), NEW w \in X
    PROVE  JoinsAppend(a, b, w)
<1> USE DEF JoinsAppend
<1>1. <<w>> \in Seq(X) /\ a \o b \in Seq(X)
  BY ConcatProperties
<1>2. Append(a \o b, w) = (a \o b) \o <<w>> /\ Append(b, w) = b \o <<w>>
  BY <1>1, AppendIsConcat
<1>3. (a \o b) \o <<w>> = a \o (b \o <<w>>)
  BY <1>1, ConcatAssociative
<1> QED BY <1>2, <1>3

\* Markers are extracted piece by piece: the flushes of a chunk together
\* record what one pass over it would.
LEMMA ExtractConcat ==
    ASSUME NEW s \in Seq(Cell), NEW t \in Seq(Cell), NEW base \in Nat
    PROVE  /\ ExtractMarkers(s \o t, base) =
                ExtractMarkers(s, base) \o ExtractMarkers(t, base + Len(s))
           /\ ExtractMarkers(s, base) \in Seq(Notes)
<1>1. PICK f : IsRecord(f, s, base) /\ ExtractMarkers(s, base) = f[Len(s)]
  BY RecordExists
<1>2. Len(s) \in Nat /\ Len(t) \in Nat /\ base + Len(s) \in Nat
  OBVIOUS
<1>3. PICK g : IsRecord(g, t, base + Len(s))
               /\ ExtractMarkers(t, base + Len(s)) = g[Len(t)]
  BY <1>2, RecordExists
<1> DEFINE st == s \o t
<1>4. /\ st \in Seq(Cell) /\ Len(st) = Len(s) + Len(t)
      /\ \A i \in 1 .. Len(s) : st[i] = s[i]
      /\ \A i \in 1 .. Len(t) : st[Len(s) + i] = t[i]
  BY ConcatProperties
<1> HIDE DEF st
<1>5. PICK h : IsRecord(h, st, base) /\ ExtractMarkers(st, base) = h[Len(st)]
  BY <1>4, RecordExists
<1>6. f[Len(s)] \in Seq(Notes) /\ \A n \in 0 .. Len(t) : g[n] \in Seq(Notes)
  <2>1. f \in [0 .. Len(s) -> Seq(Notes)] /\ g \in [0 .. Len(t) -> Seq(Notes)]
    BY <1>1, <1>3 DEF IsRecord
  <2>2. Len(s) \in 0 .. Len(s)
    BY <1>2
  <2> QED BY <2>1, <2>2
<1>7. h[Len(s)] = f[Len(s)]
  <2>1. SameUpTo(s, st, Len(s))
    BY <1>2, <1>4 DEF SameUpTo
  <2> QED BY <1>1, <1>2, <1>4, <1>5, <2>1, RecordAgrees
<1> DEFINE S == {n \in 0 .. Len(t) : h[Len(s) + n] = f[Len(s)] \o g[n]}
<1>8. 0 \in S
  <2>1. g[0] = <<>>
    BY <1>3 DEF IsRecord
  <2>2. f[Len(s)] \o <<>> = f[Len(s)]
    BY <1>6, ConcatEmptySeq
  <2>3. Len(s) + 0 = Len(s) /\ 0 \in 0 .. Len(t)
    BY <1>2
  <2> QED BY <1>7, <2>1, <2>2, <2>3
<1>9. ASSUME NEW n \in 0 .. Len(t) - 1, n \in S PROVE n + 1 \in S
  <2>1. /\ n + 1 \in 1 .. Len(t) /\ n + 1 \in 0 .. Len(t) /\ (n + 1) - 1 = n
        /\ Len(s) + (n + 1) \in 1 .. Len(st) /\ (Len(s) + (n + 1)) - 1 = Len(s) + n
    BY <1>2, <1>4
  <2>2. st[Len(s) + (n + 1)] = t[n + 1]
    BY <1>4, <2>1
  <2> DEFINE c == t[n + 1]
             w == Note(t, base + Len(s), n + 1)
  <2>3. Note(st, base, Len(s) + (n + 1)) = w
    <3>1. base + (Len(s) + (n + 1)) - 1 = (base + Len(s)) + (n + 1) - 1
      BY <1>2
    <3> QED BY <2>2, <3>1 DEF Note
  <2>4. h[Len(s) + (n + 1)] = IF IsMarker(c) THEN Append(h[Len(s) + n], w)
                              ELSE h[Len(s) + n]
    BY <1>5, <2>1, <2>2, <2>3 DEF IsRecord
  <2>5. g[n + 1] = IF IsMarker(c) THEN Append(g[n], w) ELSE g[n]
    BY <1>3, <2>1 DEF IsRecord
  <2>6. w \in Notes
    <3>1. t[n + 1] \in Int
      BY <2>1, CellKinds
    <3>2. t[n + 1] - MARKER16 \in Int /\ base + Len(s) + (n + 1) - 1 \in Int
      BY <1>2, <3>1, Constants
    <3> QED BY <3>2 DEF Note, Notes
  <2> HIDE DEF w
  <2>7. Append(f[Len(s)] \o g[n], w) = f[Len(s)] \o Append(g[n], w)
    <3>1. f[Len(s)] \in Seq(Notes) /\ g[n] \in Seq(Notes)
      BY <1>6
    <3>2. JoinsAppend(f[Len(s)], g[n], w)
      BY <2>6, <3>1, AppendConcat
    <3> QED BY <3>2 DEF JoinsAppend
  <2> QED BY <1>9, <2>1, <2>4, <2>5, <2>7
<1>10. Len(t) \in S
  <2> HIDE DEF S
  <2>1. \A k \in 0 .. Len(t) : k \in S
    BY <1>2, <1>8, <1>9, SetInduction
  <2> QED BY <1>2, <2>1
<1> QED BY <1>1, <1>3, <1>4, <1>5, <1>6, <1>10 DEF st

-----------------------------------------------------------------------------
(* The recorded markers are those of the cells, in increasing position. *)

Sorted(ms) == \A j, k \in 1 .. Len(ms) : j < k => ms[j].out_pos < ms[k].out_pos

\* ms holds the markers of the first n cells and nothing else.
Lists(ms, cells, base, n) ==
    /\ \A j \in 1 .. Len(ms) :
          \E i \in 1 .. n : IsMarker(cells[i]) /\ ms[j] = Note(cells, base, i)
    /\ \A i \in 1 .. n :
          IsMarker(cells[i]) => \E j \in 1 .. Len(ms) : ms[j] = Note(cells, base, i)

\* After n cells the loop has recorded their markers, sorted.
LEMMA RecordShape ==
    ASSUME NEW cells \in Seq(Cell), NEW base \in Nat, NEW f, IsRecord(f, cells, base),
           NEW n \in 0 .. Len(cells)
    PROVE  f[n] \in Seq(Notes) /\ Sorted(f[n]) /\ Lists(f[n], cells, base, n)
<1> DEFINE S == {m \in 0 .. Len(cells) : Sorted(f[m]) /\ Lists(f[m], cells, base, m)}
<1>1. Len(cells) \in Nat /\ \A m \in 0 .. Len(cells) : f[m] \in Seq(Notes)
  BY DEF IsRecord
<1>2. 0 \in S
  <2>1. f[0] = <<>>
    BY DEF IsRecord
  <2> QED BY <1>1, <2>1 DEF Sorted, Lists
<1>3. ASSUME NEW m \in 0 .. Len(cells) - 1, m \in S PROVE m + 1 \in S
  <2>1. /\ m + 1 \in 1 .. Len(cells) /\ (m + 1) - 1 = m /\ m \in 0 .. Len(cells)
        /\ m + 1 \in 0 .. Len(cells)
    BY <1>1
  <2>2. f[m + 1] = IF IsMarker(cells[m + 1])
                   THEN Append(f[m], Note(cells, base, m + 1)) ELSE f[m]
    BY <2>1 DEF IsRecord
  <2> DEFINE a == f[m]
             w == Note(cells, base, m + 1)
             b == Append(a, w)
  <2>3. a \in Seq(Notes) /\ Sorted(a) /\ Lists(a, cells, base, m)
    BY <1>1, <1>3, <2>1
  <2>4. w.out_pos = base + m
    BY DEF Note
  <2>5. /\ Len(b) = Len(a) + 1 /\ b[Len(a) + 1] = w
        /\ \A j \in 1 .. Len(a) : b[j] = a[j]
    BY <2>3
  <2>6. Len(a) \in Nat
    BY <2>3
  <2> HIDE DEF a, w, b
  <2>7. CASE IsMarker(cells[m + 1])
    <3>1. \A j \in 1 .. Len(a) : a[j].out_pos < base + m
      <4> TAKE j \in 1 .. Len(a)
      <4>1. PICK i \in 1 .. m : a[j] = Note(cells, base, i)
        BY <2>3 DEF Lists
      <4>2. a[j].out_pos = base + i - 1
        BY <4>1 DEF Note
      <4> QED BY <4>1, <4>2
    <3>2. Sorted(b)
      <4> SUFFICES ASSUME NEW j \in 1 .. Len(b), NEW k \in 1 .. Len(b), j < k
                   PROVE  b[j].out_pos < b[k].out_pos
        BY DEF Sorted
      <4>1. j \in 1 .. Len(a)
        BY <2>5, <2>6
      <4>2. CASE k = Len(a) + 1
        BY <2>4, <2>5, <3>1, <4>1, <4>2
      <4>3. CASE k # Len(a) + 1
        <5>1. k \in 1 .. Len(a)
          BY <2>5, <2>6, <4>3
        <5> QED BY <2>3, <2>5, <4>1, <5>1 DEF Sorted
      <4> QED BY <4>2, <4>3
    <3>3. ASSUME NEW j \in 1 .. Len(b)
          PROVE  \E i \in 1 .. m + 1 : IsMarker(cells[i]) /\ b[j] = Note(cells, base, i)
      <4>1. CASE j = Len(a) + 1
        <5>1. b[j] = Note(cells, base, m + 1)
          BY <2>5, <4>1 DEF w
        <5> QED BY <2>1, <2>7, <5>1
      <4>2. CASE j # Len(a) + 1
        <5>1. j \in 1 .. Len(a)
          BY <2>5, <2>6, <4>2
        <5>2. PICK i \in 1 .. m : IsMarker(cells[i]) /\ a[j] = Note(cells, base, i)
          BY <2>3, <5>1 DEF Lists
        <5>3. i \in 1 .. m + 1 /\ b[j] = a[j]
          BY <2>5, <5>1
        <5> QED BY <5>2, <5>3
      <4> QED BY <4>1, <4>2
    <3>4. ASSUME NEW i \in 1 .. m + 1, IsMarker(cells[i])
          PROVE  \E j \in 1 .. Len(b) : b[j] = Note(cells, base, i)
      <4>1. CASE i = m + 1
        <5>1. Len(a) + 1 \in 1 .. Len(b)
          BY <2>5, <2>6
        <5>2. b[Len(a) + 1] = Note(cells, base, i)
          BY <2>5, <4>1 DEF w
        <5> QED BY <5>1, <5>2
      <4>2. CASE i # m + 1
        <5>1. i \in 1 .. m
          BY <4>2
        <5>2. PICK j \in 1 .. Len(a) : a[j] = Note(cells, base, i)
          BY <2>3, <3>4, <5>1 DEF Lists
        <5>3. j \in 1 .. Len(b) /\ b[j] = a[j]
          BY <2>5, <2>6
        <5> QED BY <5>2, <5>3
      <4> QED BY <4>1, <4>2
    <3>5. f[m + 1] = b
      BY <2>2, <2>7 DEF a, b, w
    <3>6. Lists(b, cells, base, m + 1)
      BY <3>3, <3>4 DEF Lists
    <3> QED BY <2>1, <3>2, <3>5, <3>6
  <2>8. CASE ~IsMarker(cells[m + 1])
    <3>1. f[m + 1] = a
      BY <2>2, <2>8 DEF a
    <3>2. \A j \in 1 .. Len(a) :
             \E i \in 1 .. m + 1 : IsMarker(cells[i]) /\ a[j] = Note(cells, base, i)
      <4> TAKE j \in 1 .. Len(a)
      <4>1. PICK i \in 1 .. m : IsMarker(cells[i]) /\ a[j] = Note(cells, base, i)
        BY <2>3 DEF Lists
      <4>2. i \in 1 .. m + 1
        OBVIOUS
      <4> QED BY <4>1, <4>2
    <3>3. \A i \in 1 .. m + 1 :
             IsMarker(cells[i]) => \E j \in 1 .. Len(a) : a[j] = Note(cells, base, i)
      <4> SUFFICES ASSUME NEW i \in 1 .. m + 1, IsMarker(cells[i])
                   PROVE  \E j \in 1 .. Len(a) : a[j] = Note(cells, base, i)
        OBVIOUS
      <4>1. i \in 1 .. m
        BY <2>8
      <4> QED BY <2>3, <4>1 DEF Lists
    <3>4. Lists(a, cells, base, m + 1)
      BY <3>2, <3>3 DEF Lists
    <3> QED BY <2>1, <2>3, <3>1, <3>4
  <2> QED BY <2>7, <2>8
<1>4. n \in S
  <2>1. \A m \in 0 .. Len(cells) : m \in S
    <3> HIDE DEF S
    <3> QED BY <1>1, <1>2, <1>3, SetInduction
  <2> QED BY <2>1
<1> QED BY <1>1, <1>4

\* The markers of a whole sequence of cells.
LEMMA ExtractShape ==
    ASSUME NEW cells \in Seq(Cell), NEW base \in Nat
    PROVE  LET ms == ExtractMarkers(cells, base)
           IN  ms \in Seq(Notes) /\ Sorted(ms) /\ Lists(ms, cells, base, Len(cells))
<1>1. PICK f : IsRecord(f, cells, base) /\ ExtractMarkers(cells, base) = f[Len(cells)]
  BY RecordExists
<1>2. Len(cells) \in 0 .. Len(cells)
  OBVIOUS
<1> QED BY <1>1, <1>2, RecordShape

\* The markers of a chunk have the type of the code's Marker.
LEMMA ExtractType ==
    ASSUME NEW cells \in Seq(Cell), Len(cells) <= MaxOut
    PROVE  ExtractMarkers(cells, 0) \in Seq(Marker)
<1> DEFINE ms == ExtractMarkers(cells, 0)
<1>1. ms \in Seq(Notes) /\ Lists(ms, cells, 0, Len(cells))
  BY ExtractShape
<1> HIDE DEF ms
<1>2. ASSUME NEW j \in 1 .. Len(ms) PROVE ms[j] \in Marker
  <2>1. PICK i \in 1 .. Len(cells) : IsMarker(cells[i]) /\ ms[j] = Note(cells, 0, i)
    BY <1>1 DEF Lists
  <2>2. cells[i] \in Cell
    OBVIOUS
  <2>3. cells[i] - MARKER16 \in 0 .. Window - 1
    BY <2>1, <2>2, CellKinds
  <2>4. 0 + i - 1 \in 0 .. MaxOut - 1
    BY Constants
  <2> QED BY <2>1, <2>3, <2>4 DEF Note, Marker
<1>3. ms \in Seq(Marker)
  <2>1. ms = [j \in 1 .. Len(ms) |-> ms[j]] /\ Len(ms) \in Nat
    BY <1>1
  <2> QED BY <1>2, <2>1, IsASeq
<1> QED BY <1>3 DEF ms

\* Cells that are all bytes have no markers.
LEMMA ExtractNone ==
    ASSUME NEW cells \in Seq(Cell), NEW base \in Nat,
           \A i \in 1 .. Len(cells) : ~IsMarker(cells[i])
    PROVE  ExtractMarkers(cells, base) = <<>>
<1> DEFINE ms == ExtractMarkers(cells, base)
<1>1. ms \in Seq(Notes) /\ Lists(ms, cells, base, Len(cells))
  BY ExtractShape
<1> HIDE DEF ms
<1>2. Len(ms) \in Nat /\ ~(Len(ms) > 0)
  <2>1. Len(ms) \in Nat
    BY <1>1
  <2>2. SUFFICES ASSUME 1 \in 1 .. Len(ms) PROVE FALSE
    BY <2>1
  <2> QED BY <1>1, <2>2 DEF Lists
<1>3. ms = <<>>
  BY <1>1, <1>2
<1> QED BY <1>3 DEF ms

\* Cells that are all markers are recorded one by one.
LEMMA ExtractAll ==
    ASSUME NEW cells \in Seq(Cell), NEW base \in Nat,
           \A i \in 1 .. Len(cells) : IsMarker(cells[i])
    PROVE  ExtractMarkers(cells, base) = [k \in 1 .. Len(cells) |-> Note(cells, base, k)]
<1>1. PICK f : IsRecord(f, cells, base) /\ ExtractMarkers(cells, base) = f[Len(cells)]
  BY RecordExists
<1> DEFINE N(k) == Note(cells, base, k)
           All(m) == [k \in 1 .. m |-> N(k)]
           S == {m \in 0 .. Len(cells) : f[m] = All(m)}
<1>2. Len(cells) \in Nat /\ \A m \in 0 .. Len(cells) : f[m] \in Seq(Notes)
  BY <1>1 DEF IsRecord
<1>3. 0 \in S
  BY <1>1, <1>2 DEF IsRecord
<1>4. ASSUME NEW m \in 0 .. Len(cells) - 1, m \in S PROVE m + 1 \in S
  <2>1. /\ m + 1 \in 1 .. Len(cells) /\ (m + 1) - 1 = m /\ m \in 0 .. Len(cells)
        /\ m + 1 \in 0 .. Len(cells)
    BY <1>2
  <2>2. f[m + 1] = Append(f[m], N(m + 1))
    BY <1>1, <2>1 DEF IsRecord
  <2> HIDE DEF N
  <2>3. f[m] \in Seq(Notes) /\ f[m] = All(m) /\ Len(f[m]) = m
    BY <1>2, <1>4, <2>1
  <2>4. Append(f[m], N(m + 1)) = All(m + 1)
    BY <2>1, <2>3
  <2> QED BY <2>1, <2>2, <2>4
<1>5. Len(cells) \in S
  <2>1. \A m \in 0 .. Len(cells) : m \in S
    <3> HIDE DEF S
    <3> QED BY <1>2, <1>3, <1>4, SetInduction
  <2> QED BY <1>2, <2>1
<1> QED BY <1>1, <1>5

-----------------------------------------------------------------------------
(* copy_back: what the recursion in CopyBack computes. *)

\* r is s and then length cells, each the one that is distance before it.
IsCopy(r, X, s, distance, length) ==
    /\ r \in Seq(X) /\ Len(r) = Len(s) + length
    /\ \A i \in 1 .. Len(s) : r[i] = s[i]
    /\ \A i \in Len(s) + 1 .. Len(s) + length : r[i] = r[i - distance]

\* A copy from inside the buffer, also one that overlaps what it writes.
LEMMA CopyBackShape ==
    ASSUME NEW X, NEW s \in Seq(X), NEW distance \in Nat \ {0}, distance <= Len(s),
           NEW length \in Nat
    PROVE  IsCopy(CopyBack(s, distance, length), X, s, distance, length)
<1> DEFINE First(i) == s[Len(s) - distance + i + 1]
           Good(m, f) == \A i \in 0 .. m - 1 :
                            f[i] = IF i < distance THEN First(i) ELSE f[i - distance]
           S == {m \in 0 .. length : \E f \in [0 .. m - 1 -> X] : Good(m, f)}
           Body(f) == [i \in 0 .. length - 1 |->
                         IF i < distance THEN s[Len(s) - distance + i + 1] ELSE f[i - distance]]
<1>1. Len(s) \in Nat
  OBVIOUS
<1>2. \A i \in 0 .. distance - 1 : First(i) \in X
  <2> TAKE i \in 0 .. distance - 1
  <2>1. Len(s) - distance + i + 1 \in 1 .. Len(s)
    BY <1>1
  <2> QED BY <2>1
<1> HIDE DEF First
<1>3. 0 \in S
  <2> DEFINE g == [i \in 0 .. 0 - 1 |-> s]
  <2>1. g \in [0 .. 0 - 1 -> X] /\ Good(0, g)
    OBVIOUS
  <2>2. 0 \in 0 .. length
    OBVIOUS
  <2> HIDE DEF g, Good
  <2> QED BY <2>1, <2>2, Zenon
<1>4. ASSUME NEW m \in 0 .. length - 1, m \in S PROVE m + 1 \in S
  <2>1. PICK f \in [0 .. m - 1 -> X] : Good(m, f)
    BY <1>4
  <2> DEFINE last == IF m < distance THEN First(m) ELSE f[m - distance]
             g == [i \in 0 .. m |-> IF i = m THEN last ELSE f[i]]
  <2>2. last \in X
    <3>1. CASE m < distance
      BY <1>2, <3>1
    <3>2. CASE ~(m < distance)
      <4>1. m - distance \in 0 .. m - 1
        BY <3>2
      <4> QED BY <3>2, <4>1
    <3> QED BY <3>1, <3>2
  <2>3. g \in [0 .. (m + 1) - 1 -> X]
    <3>1. \A i \in 0 .. m : i = m \/ i \in 0 .. m - 1
      OBVIOUS
    <3>2. (m + 1) - 1 = m
      OBVIOUS
    <3> HIDE DEF last
    <3> QED BY <2>2, <3>1, <3>2
  <2>4. ASSUME NEW i \in 0 .. (m + 1) - 1
        PROVE  g[i] = IF i < distance THEN First(i) ELSE g[i - distance]
    <3>1. CASE i = m
      <4>1. g[i] = last
        BY <3>1
      <4>2. ~(i < distance) => g[i - distance] = f[i - distance]
        BY <3>1
      <4> QED BY <3>1, <4>1, <4>2
    <3>2. CASE i # m
      <4>1. i \in 0 .. m - 1 /\ g[i] = f[i]
        BY <3>2
      <4>2. ~(i < distance) => g[i - distance] = f[i - distance]
        BY <4>1
      <4> QED BY <2>1, <4>1, <4>2
    <3> QED BY <3>1, <3>2
  <2>5. Good(m + 1, g)
    BY <2>4
  <2>6. m + 1 \in 0 .. length
    OBVIOUS
  <2> HIDE DEF g, Good
  <2> QED BY <2>3, <2>5, <2>6
<1>5. PICK f \in [0 .. length - 1 -> X] : Good(length, f)
  <2>1. \A m \in 0 .. length : m \in S
    <3> HIDE DEF S
    <3> QED BY <1>3, <1>4, SetInduction
  <2>2. length \in S
    BY <2>1
  <2> QED BY <2>2
<1>6. \E g : g = Body(g)
  <2>1. f = [i \in 0 .. length - 1 |-> f[i]]
    OBVIOUS
  <2>2. f = Body(f)
    BY <1>5, <2>1 DEF First
  <2> QED BY <2>2
<1> DEFINE h == CHOOSE g : g = Body(g)
<1>7. h = Body(h)
  <2> HIDE DEF Body
  <2> QED BY <1>6
<1>8. CopyBack(s, distance, length) = s \o [i \in 1 .. length |-> h[i - 1]]
  BY DEF CopyBack
<1> HIDE DEF h
<1>9. \A i \in 0 .. length - 1 : h[i] = IF i < distance THEN First(i) ELSE h[i - distance]
  BY <1>7 DEF First
<1>10. \A i \in 0 .. length - 1 : h[i] \in X
  <2> DEFINE T == {i \in 0 .. length - 1 : h[i] \notin X}
  <2>1. SUFFICES ASSUME T # {} PROVE FALSE
    OBVIOUS
  <2>2. T \subseteq Nat
    OBVIOUS
  <2>3. PICK x \in T : \A y \in T : x <= y
    <3> HIDE DEF T
    <3> QED BY <2>1, <2>2, LeastElement
  <2>4. ~(x < distance)
    BY <1>2, <1>9, <2>3
  <2>5. x - distance \in 0 .. length - 1 /\ x - distance < x
    BY <2>4
  <2>6. h[x - distance] \in X
    BY <2>3, <2>5
  <2> QED BY <1>9, <2>3, <2>4, <2>6
<1> DEFINE t == [i \in 1 .. length |-> h[i - 1]]
           r == s \o t
<1>11. t \in Seq(X) /\ Len(t) = length
  <2>1. \A i \in 1 .. length : h[i - 1] \in X
    BY <1>10
  <2> QED BY <2>1
<1>12. \A i \in 1 .. length : t[i] = h[i - 1]
  OBVIOUS
<1> HIDE DEF t
<1>13. /\ r \in Seq(X) /\ Len(r) = Len(s) + length
       /\ \A i \in 1 .. Len(s) + length : r[i] = IF i <= Len(s) THEN s[i] ELSE t[i - Len(s)]
  BY <1>11, ConcatProperties
<1> HIDE DEF r
<1>14. ASSUME NEW i \in Len(s) + 1 .. Len(s) + length PROVE r[i] = r[i - distance]
  <2>1. /\ i \in 1 .. Len(s) + length /\ ~(i <= Len(s)) /\ i - Len(s) \in 1 .. length
        /\ i - Len(s) - 1 \in 0 .. length - 1
    BY <1>1
  <2>2. r[i] = h[i - Len(s) - 1]
    BY <1>12, <1>13, <2>1
  <2>3. i - distance \in 1 .. Len(s) + length
    BY <1>1
  <2>4. CASE i - Len(s) - 1 < distance
    <3>1. i - distance <= Len(s) /\ Len(s) - distance + (i - Len(s) - 1) + 1 = i - distance
      BY <1>1, <2>4
    <3> QED BY <1>9, <1>13, <2>1, <2>2, <2>3, <2>4, <3>1 DEF First
  <2>5. CASE ~(i - Len(s) - 1 < distance)
    <3>1. /\ ~(i - distance <= Len(s)) /\ i - distance - Len(s) \in 1 .. length
          /\ (i - distance - Len(s)) - 1 = (i - Len(s) - 1) - distance
      BY <1>1, <2>5
    <3>2. r[i - distance] = h[(i - Len(s) - 1) - distance]
      BY <1>12, <1>13, <2>3, <3>1
    <3> QED BY <1>9, <2>1, <2>2, <2>5, <3>2
  <2> QED BY <2>4, <2>5
<1>15. \A i \in 1 .. Len(s) : r[i] = s[i]
  BY <1>1, <1>13
<1>16. CopyBack(s, distance, length) = r
  BY <1>8 DEF r, t
<1> QED BY <1>13, <1>14, <1>15, <1>16 DEF IsCopy

\* A copy of nothing.
LEMMA CopyBackNothing ==
    ASSUME NEW X, NEW s \in Seq(X), NEW distance \in Nat \ {0}
    PROVE  CopyBack(s, distance, 0) = s
<1>1. \A h : [i \in 1 .. 0 |-> h[i - 1]] = <<>>
  OBVIOUS
<1>2. s \o <<>> = s
  BY ConcatEmptySeq
<1> QED BY <1>1, <1>2, Zenon DEF CopyBack

\* How many bytes of a match lie before the chunk.
LEMMA PrefixCountValue ==
    ASSUME NEW distance \in Nat \ {0}, NEW written \in Nat, NEW length \in Nat
    PROVE  LET count == PrefixCount(distance, written, length) IN
           /\ count \in 0 .. length
           /\ distance <= written => count = 0
           /\ distance > written /\ distance - written <= length
                 => count = distance - written
           /\ distance > written /\ distance - written > length => count = length
<1>1. CASE distance <= written
  BY <1>1 DEF PrefixCount
<1>2. CASE distance > written
  <2> DEFINE T == {distance - written, length}
             low == IF distance - written <= length THEN distance - written ELSE length
  <2>1. distance - written \in Nat
    BY <1>2
  <2>2. low \in T /\ \A y \in T : low <= y
    BY <2>1
  <2>3. \A x \in T : (\A y \in T : x <= y) => x = low
    BY <2>1
  <2>4. Min(T) = low
    <3> HIDE DEF T, low
    <3> QED BY <2>2, <2>3 DEF Min
  <2>5. PrefixCount(distance, written, length) = low
    BY <1>2, <2>4 DEF PrefixCount
  <2> QED BY <1>2, <2>1, <2>5
<1> QED BY <1>1, <1>2

\* r is s and then the bytes of a match: pre where the source lies before the
\* chunk, then a copy.
IsMatch(r, X, s, distance, length, pre) ==
    /\ r \in Seq(X) /\ Len(r) = Len(s) + length
    /\ \A i \in 1 .. Len(s) : r[i] = s[i]
    /\ \A i \in Len(s) + 1 .. Len(s) + length :
          /\ i <= distance => i - Len(s) \in 1 .. Len(pre) /\ r[i] = pre[i - Len(s)]
          /\ i > distance => r[i] = r[i - distance]

\* What both decoders do with a match: a prefix, then a copy of the rest.
LEMMA MatchShape ==
    ASSUME NEW X, NEW s \in Seq(X), NEW distance \in Nat \ {0}, NEW length \in Nat,
           NEW pre \in Seq(X), Len(pre) = PrefixCount(distance, Len(s), length)
    PROVE  /\ Len(pre) \in 0 .. length
           /\ IsMatch(CopyBack(s \o pre, distance, length - Len(pre)), X,
                      s, distance, length, pre)
           /\ Len(pre) = length \/ distance <= Len(s) + Len(pre)
<1> DEFINE count == Len(pre)
           q == s \o pre
           rest == length - count
<1>1. Len(s) \in Nat /\ count \in 0 .. length /\ rest \in Nat
  <2>1. Len(s) \in Nat
    OBVIOUS
  <2>2. PrefixCount(distance, Len(s), length) \in 0 .. length
    BY <2>1, PrefixCountValue
  <2> QED BY <2>1, <2>2
<1>2. /\ q \in Seq(X) /\ Len(q) = Len(s) + count
      /\ \A i \in 1 .. Len(s) + count : q[i] = IF i <= Len(s) THEN s[i] ELSE pre[i - Len(s)]
  BY ConcatProperties
<1>3. /\ distance <= Len(s) => count = 0
      /\ distance > Len(s) /\ distance - Len(s) <= length => count = distance - Len(s)
      /\ distance > Len(s) /\ distance - Len(s) > length => count = length
  BY <1>1, PrefixCountValue
<1> HIDE DEF q
<1> DEFINE r == CopyBack(q, distance, rest)
<1>4. /\ r \in Seq(X) /\ Len(r) = Len(q) + rest
      /\ \A i \in 1 .. Len(q) : r[i] = q[i]
      /\ \A i \in Len(q) + 1 .. Len(q) + rest : r[i] = r[i - distance]
  <2>1. CASE rest = 0
    <3>1. r = q
      BY <1>2, <2>1, CopyBackNothing
    <3> HIDE DEF r
    <3> QED BY <1>1, <1>2, <2>1, <3>1
  <2>2. CASE rest # 0
    <3>1. distance <= Len(q)
      BY <1>1, <1>2, <1>3, <2>2
    <3>2. IsCopy(r, X, q, distance, rest)
      <4> HIDE DEF rest
      <4> QED BY <1>1, <1>2, <3>1, CopyBackShape
    <3> HIDE DEF r
    <3> QED BY <3>2 DEF IsCopy
  <2> QED BY <2>1, <2>2
<1> HIDE DEF r
<1>5. Len(r) = Len(s) + length
  BY <1>1, <1>2, <1>4
<1>6. ASSUME NEW i \in 1 .. Len(s) PROVE r[i] = s[i]
  <2>1. i \in 1 .. Len(q) /\ i \in 1 .. Len(s) + count /\ i <= Len(s)
    BY <1>1, <1>2
  <2> QED BY <1>2, <1>4, <2>1
<1>7. ASSUME NEW i \in Len(s) + 1 .. Len(s) + length, i <= distance
      PROVE  i - Len(s) \in 1 .. Len(pre) /\ r[i] = pre[i - Len(s)]
  <2>1. i \in 1 .. Len(s) + count /\ ~(i <= Len(s)) /\ i - Len(s) \in 1 .. count
    BY <1>1, <1>3, <1>7
  <2>2. i \in 1 .. Len(q)
    BY <1>2, <2>1
  <2> QED BY <1>2, <1>4, <2>1, <2>2
<1>8. ASSUME NEW i \in Len(s) + 1 .. Len(s) + length, i > distance
      PROVE  r[i] = r[i - distance]
  <2>1. i \in Len(q) + 1 .. Len(q) + rest
    BY <1>1, <1>2, <1>3, <1>8
  <2> QED BY <1>4, <2>1
<1>9. count = length \/ distance <= Len(s) + count
  BY <1>1, <1>3
<1>10. IsMatch(r, X, s, distance, length, pre)
  BY <1>4, <1>5, <1>6, <1>7, <1>8 DEF IsMatch
<1> QED BY <1>1, <1>9, <1>10 DEF r, q

-----------------------------------------------------------------------------
(* Remainders: the direct decode counts the copied bytes modulo the distance. *)

\* What a quotient and a remainder are.
LEMMA DivMod ==
    ASSUME NEW a \in Int, NEW d \in Nat \ {0}
    PROVE  a \div d \in Int /\ a % d \in 0 .. d - 1 /\ a = (a \div d) * d + (a % d)
  BY Z3

\* A larger quotient is larger by a whole divisor.
LEMMA OneMore ==
    ASSUME NEW q \in Int, NEW p \in Int, NEW d \in Int, d > 0, q < p
    PROVE  q * d + d <= p * d
  BY Z3

\* A quotient that is one less.
LEMMA LessOnce ==
    ASSUME NEW q \in Int, NEW d \in Int
    PROVE  (q - 1) * d = q * d - d /\ q * d \in Int
  BY Z3

\* The remainder of what is less than the divisor.
LEMMA ModSmall ==
    ASSUME NEW a \in Nat, NEW d \in Nat \ {0}, a < d
    PROVE  a % d = a
  BY Z3

\* Remainders repeat with the divisor.
LEMMA ModPeriod ==
    ASSUME NEW a \in Nat, NEW d \in Nat \ {0}, a >= d
    PROVE  a % d = (a - d) % d
<1> DEFINE q == a \div d
           p == (a - d) \div d
           x == a % d
           y == (a - d) % d
<1>1. q \in Int /\ x \in 0 .. d - 1 /\ a = q * d + x
  BY DivMod
<1>2. p \in Int /\ y \in 0 .. d - 1 /\ a - d = p * d + y
  <2>1. a - d \in Int
    OBVIOUS
  <2> QED BY <2>1, DivMod
<1> HIDE DEF q, p, x, y
<1>3. (q - 1) * d = q * d - d /\ q * d \in Int /\ p * d \in Int /\ (q - 1) * d \in Int
  BY <1>1, <1>2, LessOnce
<1>4. ~(q - 1 < p)
  <2> SUFFICES ASSUME q - 1 < p PROVE FALSE
    OBVIOUS
  <2>1. (q - 1) * d + d <= p * d
    BY <1>1, <1>2, OneMore
  <2> QED BY <1>1, <1>2, <1>3, <2>1
<1>5. ~(p < q - 1)
  <2> SUFFICES ASSUME p < q - 1 PROVE FALSE
    OBVIOUS
  <2>1. p * d + d <= (q - 1) * d
    BY <1>1, <1>2, OneMore
  <2> QED BY <1>1, <1>2, <1>3, <2>1
<1>6. p = q - 1
  BY <1>1, <1>2, <1>4, <1>5
<1>7. x = y
  BY <1>1, <1>2, <1>3, <1>6
<1> QED BY <1>7 DEF x, y

-----------------------------------------------------------------------------
(* A match in the cells of the whole chunk, and in its bytes. *)

\* The markers of the bytes of a match that lie before the chunk.
Offsets(written, distance, count) ==
    [k \in 1 .. count |-> MARKER16 + PrefixOffset(distance, written, k - 1)]

\* The chunk's cells c after a match.
CellMatch(c, distance, length) ==
    LET count == PrefixCount(distance, Len(c), length)
    IN  CopyBack(c \o Offsets(Len(c), distance, count), distance, length - count)

IsCellMatch(r, c, distance, length) ==
    /\ r \in Seq(Cell) /\ Len(r) = Len(c) + length
    /\ \A i \in 1 .. Len(c) : r[i] = c[i]
    /\ \A i \in Len(c) + 1 .. Len(c) + length :
          /\ i <= distance => r[i] = MARKER16 + (distance - i)
          /\ i > distance => r[i] = r[i - distance]

\* The offsets of a match's prefix are markers.
LEMMA OffsetsType ==
    ASSUME NEW written \in Nat, NEW distance \in 1 .. Window, NEW length \in Nat
    PROVE  LET count == PrefixCount(distance, written, length) IN
           /\ count \in 0 .. length
           /\ Offsets(written, distance, count) \in Seq(Cell)
           /\ Len(Offsets(written, distance, count)) = count
           /\ \A k \in 1 .. count :
                 /\ Offsets(written, distance, count)[k] = MARKER16 + (distance - (written + k))
                 /\ IsMarker(Offsets(written, distance, count)[k])
<1> DEFINE count == PrefixCount(distance, written, length)
<1>1. distance \in Nat \ {0} /\ Window \in Nat
  BY Constants
<1>2. count \in 0 .. length /\ (count > 0 => written + count <= distance)
  <2>1. /\ count \in 0 .. length
        /\ distance <= written => count = 0
        /\ distance > written /\ distance - written <= length => count = distance - written
        /\ distance > written /\ distance - written > length => count = length
    BY <1>1, PrefixCountValue
  <2> HIDE DEF count
  <2> QED BY <1>1, <2>1
<1> HIDE DEF count
<1>3. \A k \in 1 .. count :
        /\ PrefixOffset(distance, written, k - 1) = distance - (written + k)
        /\ distance - (written + k) \in 0 .. Window - 1
  BY <1>1, <1>2 DEF PrefixOffset
<1>4. \A k \in 1 .. count :
        /\ MARKER16 + (distance - (written + k)) \in Cell
        /\ IsMarker(MARKER16 + (distance - (written + k)))
  BY <1>3, CellKinds
<1> DEFINE V(k) == MARKER16 + (distance - (written + k))
<1>5. Offsets(written, distance, count) = [k \in 1 .. count |-> V(k)]
  BY <1>3 DEF Offsets
<1>6. \A k \in 1 .. count : V(k) \in Cell /\ IsMarker(V(k))
  BY <1>4
<1> HIDE DEF V
<1>7. /\ [k \in 1 .. count |-> V(k)] \in Seq(Cell)
      /\ Len([k \in 1 .. count |-> V(k)]) = count
  BY <1>2, <1>6
<1>8. \A k \in 1 .. count : Offsets(written, distance, count)[k] = V(k)
  BY <1>5
<1> QED BY <1>2, <1>5, <1>6, <1>7, <1>8 DEF count, V

\* A match of the cells puts markers before the chunk and copies cells inside it.
LEMMA CellMatchShape ==
    ASSUME NEW c \in Seq(Cell), NEW distance \in 1 .. Window, NEW length \in Nat
    PROVE  IsCellMatch(CellMatch(c, distance, length), c, distance, length)
<1> DEFINE count == PrefixCount(distance, Len(c), length)
           pre == Offsets(Len(c), distance, count)
           r == CellMatch(c, distance, length)
<1>1. distance \in Nat \ {0} /\ Window \in Nat /\ Len(c) \in Nat
  BY Constants
<1>2. /\ pre \in Seq(Cell) /\ Len(pre) = count
      /\ \A k \in 1 .. count : pre[k] = MARKER16 + (distance - (Len(c) + k))
  BY <1>1, OffsetsType
<1>3. r = CopyBack(c \o pre, distance, length - Len(pre))
  BY <1>2 DEF CellMatch
<1> HIDE DEF r, pre
<1>4. IsMatch(r, Cell, c, distance, length, pre)
  BY <1>1, <1>2, <1>3, MatchShape
<1> HIDE DEF count
<1>5. ASSUME NEW i \in Len(c) + 1 .. Len(c) + length, i <= distance
      PROVE  r[i] = MARKER16 + (distance - i)
  <2>1. i - Len(c) \in 1 .. count /\ r[i] = pre[i - Len(c)]
    BY <1>2, <1>4, <1>5 DEF IsMatch
  <2>2. Len(c) + (i - Len(c)) = i
    BY <1>1
  <2> QED BY <1>2, <2>1, <2>2
<1> QED BY <1>4, <1>5 DEF IsMatch, IsCellMatch, r

\* Lowered cells are bytes, one for each cell.
LEMMA BytesShape ==
    ASSUME NEW c \in Seq(Cell)
    PROVE  /\ ExtractBytes(c) \in Seq(Byte) /\ Len(ExtractBytes(c)) = Len(c)
           /\ \A i \in 1 .. Len(c) : ExtractBytes(c)[i] = IF IsMarker(c[i]) THEN 0 ELSE c[i]
<1> DEFINE V(i) == IF IsMarker(c[i]) THEN 0 ELSE c[i]
<1>1. Len(c) \in Nat /\ DOMAIN c = 1 .. Len(c)
  OBVIOUS
<1>2. \A i \in 1 .. Len(c) : V(i) \in Byte
  <2> TAKE i \in 1 .. Len(c)
  <2>1. c[i] \in Cell
    OBVIOUS
  <2>2. 0 \in Byte
    BY DEF Byte
  <2> QED BY <2>1, <2>2, CellKinds
<1>3. ExtractBytes(c) = [i \in 1 .. Len(c) |-> V(i)]
  BY <1>1 DEF ExtractBytes
<1> HIDE DEF V
<1>4. [i \in 1 .. Len(c) |-> V(i)] \in Seq(Byte) /\ Len([i \in 1 .. Len(c) |-> V(i)]) = Len(c)
  BY <1>1, <1>2
<1>5. \A i \in 1 .. Len(c) : ExtractBytes(c)[i] = V(i)
  BY <1>3
<1> QED BY <1>3, <1>4, <1>5 DEF V

\* Lowering piece by piece.
LEMMA BytesConcat ==
    ASSUME NEW s \in Seq(Cell), NEW t \in Seq(Cell)
    PROVE  ExtractBytes(s \o t) = ExtractBytes(s) \o ExtractBytes(t)
<1> DEFINE st == s \o t
           a == ExtractBytes(s)
           b == ExtractBytes(t)
           e == ExtractBytes(st)
           ab == a \o b
<1>1. /\ st \in Seq(Cell) /\ Len(st) = Len(s) + Len(t)
      /\ \A i \in 1 .. Len(s) + Len(t) : st[i] = IF i <= Len(s) THEN s[i] ELSE t[i - Len(s)]
  BY ConcatProperties
<1> HIDE DEF st
<1>2. /\ a \in Seq(Byte) /\ Len(a) = Len(s)
      /\ \A i \in 1 .. Len(s) : a[i] = IF IsMarker(s[i]) THEN 0 ELSE s[i]
  BY BytesShape
<1>3. /\ b \in Seq(Byte) /\ Len(b) = Len(t)
      /\ \A i \in 1 .. Len(t) : b[i] = IF IsMarker(t[i]) THEN 0 ELSE t[i]
  BY BytesShape
<1>4. /\ e \in Seq(Byte) /\ Len(e) = Len(st)
      /\ \A i \in 1 .. Len(st) : e[i] = IF IsMarker(st[i]) THEN 0 ELSE st[i]
  BY <1>1, BytesShape
<1> HIDE DEF a, b, e
<1>5. /\ ab \in Seq(Byte) /\ Len(ab) = Len(a) + Len(b)
      /\ \A i \in 1 .. Len(a) + Len(b) : ab[i] = IF i <= Len(a) THEN a[i] ELSE b[i - Len(a)]
  <2>1. a \in Seq(Byte) /\ b \in Seq(Byte)
    BY <1>2, <1>3
  <2> QED BY <2>1, ConcatProperties
<1> HIDE DEF ab
<1>6. Len(s) \in Nat /\ Len(t) \in Nat
  OBVIOUS
<1>7. Len(e) = Len(ab)
  BY <1>1, <1>2, <1>3, <1>4, <1>5
<1>8. \A i \in 1 .. Len(e) : e[i] = ab[i]
  <2> TAKE i \in 1 .. Len(e)
  <2>1. i \in 1 .. Len(s) + Len(t)
    BY <1>1, <1>4
  <2>2. CASE i <= Len(s)
    <3>1. i \in 1 .. Len(s)
      BY <1>6, <2>1, <2>2
    <3> QED BY <1>1, <1>2, <1>3, <1>4, <1>5, <2>1, <2>2, <3>1
  <2>3. CASE ~(i <= Len(s))
    <3>1. i - Len(s) \in 1 .. Len(t)
      BY <1>6, <2>1, <2>3
    <3> QED BY <1>1, <1>2, <1>3, <1>4, <1>5, <2>1, <2>3, <3>1
  <2> QED BY <2>2, <2>3
<1>9. e = ab
  BY <1>4, <1>5, <1>7, <1>8, SeqEqual
<1> QED BY <1>9 DEF e, ab, a, b, st

\* The side-table decoder: zeros before the chunk and a copy of bytes give the
\* lowered cells.
LEMMA BytesMatch ==
    ASSUME NEW c \in Seq(Cell), NEW distance \in 1 .. Window, NEW length \in Nat,
           NEW r, IsCellMatch(r, c, distance, length)
    PROVE  LET count == PrefixCount(distance, Len(c), length) IN
           CopyBack(ExtractBytes(c) \o [k \in 1 .. count |-> 0], distance, length - count)
             = ExtractBytes(r)
<1> DEFINE count == PrefixCount(distance, Len(c), length)
           pre == [k \in 1 .. count |-> 0]
           b == ExtractBytes(c)
           e == ExtractBytes(r)
           q == CopyBack(b \o pre, distance, length - count)
<1>1. distance \in Nat \ {0} /\ Window \in Nat /\ Len(c) \in Nat
  BY Constants
<1>2. count \in 0 .. length
  BY <1>1, PrefixCountValue
<1> HIDE DEF count
<1>3. pre \in Seq(Byte) /\ Len(pre) = count /\ \A k \in 1 .. Len(pre) : pre[k] = 0
  <2>1. 0 \in Byte
    BY DEF Byte
  <2> QED BY <1>2, <2>1
<1>4. /\ b \in Seq(Byte) /\ Len(b) = Len(c)
      /\ \A i \in 1 .. Len(c) : b[i] = IF IsMarker(c[i]) THEN 0 ELSE c[i]
  BY BytesShape
<1>5. /\ r \in Seq(Cell) /\ Len(r) = Len(c) + length
      /\ \A i \in 1 .. Len(c) : r[i] = c[i]
      /\ \A i \in Len(c) + 1 .. Len(c) + length :
          /\ i <= distance => r[i] = MARKER16 + (distance - i)
          /\ i > distance => r[i] = r[i - distance]
  BY DEF IsCellMatch
<1>6. /\ e \in Seq(Byte) /\ Len(e) = Len(r)
      /\ \A i \in 1 .. Len(r) : e[i] = IF IsMarker(r[i]) THEN 0 ELSE r[i]
  BY <1>5, BytesShape
<1> HIDE DEF pre, b, e, q
<1>7. IsMatch(q, Byte, b, distance, length, pre)
  <2>1. Len(pre) = PrefixCount(distance, Len(b), length)
    BY <1>3, <1>4 DEF count
  <2>2. IsMatch(CopyBack(b \o pre, distance, length - Len(pre)), Byte, b, distance, length, pre)
    BY <1>1, <1>3, <1>4, <2>1, MatchShape
  <2> QED BY <1>3, <2>2 DEF q
<1>8. /\ q \in Seq(Byte) /\ Len(q) = Len(c) + length
      /\ \A i \in 1 .. Len(c) : q[i] = b[i]
      /\ \A i \in Len(c) + 1 .. Len(c) + length :
          /\ i <= distance => q[i] = 0
          /\ i > distance => q[i] = q[i - distance]
  BY <1>3, <1>4, <1>7 DEF IsMatch
<1>9. \A i \in 1 .. Len(c) : q[i] = e[i]
  <2> TAKE i \in 1 .. Len(c)
  <2>1. i \in 1 .. Len(r)
    BY <1>1, <1>5
  <2> QED BY <1>4, <1>5, <1>6, <1>8, <2>1
<1>10. ASSUME NEW i \in Len(c) + 1 .. Len(c) + length, i <= distance PROVE q[i] = e[i]
  <2>1. i \in 1 .. Len(r) /\ distance - i \in 0 .. Window - 1
    BY <1>1, <1>5, <1>10
  <2>2. IsMarker(r[i])
    BY <1>5, <1>10, <2>1, CellKinds
  <2> QED BY <1>6, <1>8, <1>10, <2>1, <2>2
<1>11. ASSUME NEW i \in Len(c) + 1 .. Len(c) + length, i > distance
       PROVE  q[i] = q[i - distance] /\ e[i] = e[i - distance]
  <2>1. i \in 1 .. Len(r) /\ i - distance \in 1 .. Len(r)
    BY <1>1, <1>5, <1>11
  <2> QED BY <1>5, <1>6, <1>8, <1>11, <2>1
<1>12. \A i \in 1 .. Len(c) + length : q[i] = e[i]
  <2>1. Len(c) + length \in Nat
    BY <1>1
  <2>2. Repeat(q, e, Len(c), Len(c) + length, distance)
    BY <1>9, <1>10, <1>11 DEF Repeat
  <2> QED BY <1>1, <2>1, <2>2, SamePeriod
<1>13. q = e
  BY <1>5, <1>6, <1>8, <1>12, SeqEqual
<1> QED BY <1>13 DEF q, e, b, pre, count

-----------------------------------------------------------------------------
(* The reference decode. *)

OutByte == Byte \cup {Missing}

\* The chunk of which c are the cells, as a decoder sees it that knows the
\* tail.
Seen(c) == [i \in 1 .. Len(c) |-> IF IsMarker(c[i]) THEN TailByte(c[i] - MARKER16) ELSE c[i]]

\* A byte before the chunk is a byte or missing.
LEMMA TailByteType ==
    ASSUME tail \in Seq(Byte), NEW o \in Nat
    PROVE  TailByte(o) \in OutByte
<1>1. CASE o < Len(tail)
  <2>1. Len(tail) - o \in 1 .. Len(tail)
    BY <1>1
  <2>2. tail[Len(tail) - o] \in Byte
    BY <2>1
  <2> QED BY <1>1, <2>2 DEF TailByte, OutByte
<1>2. CASE ~(o < Len(tail))
  BY <1>2 DEF TailByte, OutByte
<1> QED BY <1>1, <1>2

\* The chunk that a decoder sees has one byte for each cell.
LEMMA SeenShape ==
    ASSUME tail \in Seq(Byte), NEW c \in Seq(Cell)
    PROVE  /\ Seen(c) \in Seq(OutByte) /\ Len(Seen(c)) = Len(c)
           /\ \A i \in 1 .. Len(c) :
                 Seen(c)[i] = IF IsMarker(c[i]) THEN TailByte(c[i] - MARKER16) ELSE c[i]
<1> DEFINE V(i) == IF IsMarker(c[i]) THEN TailByte(c[i] - MARKER16) ELSE c[i]
<1>1. Len(c) \in Nat
  OBVIOUS
<1>2. \A i \in 1 .. Len(c) : V(i) \in OutByte
  <2> TAKE i \in 1 .. Len(c)
  <2>1. c[i] \in Cell
    OBVIOUS
  <2>2. CASE IsMarker(c[i])
    <3>1. c[i] - MARKER16 \in 0 .. Window - 1
      BY <2>1, <2>2, CellKinds
    <3>2. c[i] - MARKER16 \in Nat
      BY <3>1
    <3>3. TailByte(c[i] - MARKER16) \in OutByte
      BY <3>2, TailByteType
    <3> QED BY <2>2, <3>3
  <2>3. CASE ~IsMarker(c[i])
    BY <2>1, <2>3, CellKinds DEF OutByte
  <2> QED BY <2>2, <2>3
<1>3. Seen(c) = [i \in 1 .. Len(c) |-> V(i)]
  BY DEF Seen
<1> HIDE DEF V
<1>4. [i \in 1 .. Len(c) |-> V(i)] \in Seq(OutByte)
      /\ Len([i \in 1 .. Len(c) |-> V(i)]) = Len(c)
  BY <1>1, <1>2
<1>5. \A i \in 1 .. Len(c) : Seen(c)[i] = V(i)
  BY <1>3
<1> QED BY <1>3, <1>4, <1>5 DEF V

\* A match of the reference decode is the match of the cells, seen with the
\* tail: markers may be copied as if they were bytes.
LEMMA DirectMatch ==
    ASSUME tail \in Seq(Byte), NEW c \in Seq(Cell), direct = Seen(c),
           NEW distance \in 1 .. Window, NEW length \in Nat,
           NEW r, IsCellMatch(r, c, distance, length)
    PROVE  DirectCopy(distance, length) = Seen(r)
<1> DEFINE n == Len(c)
           d == distance
           Src(i) == n - d + ((i - 1) % d)
           V(i) == IF Src(i) >= 0 THEN direct[Src(i) + 1] ELSE TailByte(-Src(i) - 1)
           t == [i \in 1 .. length |-> V(i)]
           a == direct \o t
           b == Seen(r)
<1>1. d \in Nat \ {0} /\ Window \in Nat /\ n \in Nat
  BY Constants
<1>2. /\ direct \in Seq(OutByte) /\ Len(direct) = n
      /\ \A i \in 1 .. n :
            direct[i] = IF IsMarker(c[i]) THEN TailByte(c[i] - MARKER16) ELSE c[i]
  BY SeenShape
<1>3. DirectCopy(distance, length) = a
  BY <1>2 DEF DirectCopy
<1> HIDE DEF n, d
<1>4. \A i \in 1 .. length : Src(i) \in Int /\ Src(i) < n
  <2> TAKE i \in 1 .. length
  <2>1. i - 1 \in Int
    OBVIOUS
  <2>2. (i - 1) % d \in 0 .. d - 1
    BY <1>1, <2>1, DivMod
  <2> QED BY <1>1, <2>2
<1> HIDE DEF Src
<1>5. \A i \in 1 .. length : V(i) \in OutByte
  <2> TAKE i \in 1 .. length
  <2>1. CASE Src(i) >= 0
    <3>1. Src(i) + 1 \in 1 .. n
      BY <1>1, <1>4, <2>1
    <3>2. direct[Src(i) + 1] \in OutByte
      BY <1>2, <3>1
    <3> QED BY <2>1, <3>2
  <2>2. CASE ~(Src(i) >= 0)
    <3>1. -Src(i) - 1 \in Nat
      BY <1>4, <2>2
    <3>2. TailByte(-Src(i) - 1) \in OutByte
      BY <3>1, TailByteType
    <3> QED BY <2>2, <3>2
  <2> QED BY <2>1, <2>2
<1> HIDE DEF V
<1>6. t \in Seq(OutByte) /\ Len(t) = length /\ \A i \in 1 .. length : t[i] = V(i)
  BY <1>5
<1> HIDE DEF t
<1>7. /\ a \in Seq(OutByte) /\ Len(a) = n + length
      /\ \A i \in 1 .. n + length : a[i] = IF i <= n THEN direct[i] ELSE t[i - n]
  <2>1. direct \in Seq(OutByte) /\ t \in Seq(OutByte) /\ Len(direct) = n /\ Len(t) = length
    BY <1>2, <1>6
  <2> QED BY <2>1, ConcatProperties
<1> HIDE DEF a
<1>8. /\ r \in Seq(Cell) /\ Len(r) = n + length
      /\ \A i \in 1 .. n : r[i] = c[i]
      /\ \A i \in n + 1 .. n + length :
          /\ i <= d => r[i] = MARKER16 + (d - i)
          /\ i > d => r[i] = r[i - d]
  BY DEF IsCellMatch, n, d
<1>9. /\ b \in Seq(OutByte) /\ Len(b) = Len(r)
      /\ \A i \in 1 .. Len(r) : b[i] = IF IsMarker(r[i]) THEN TailByte(r[i] - MARKER16) ELSE r[i]
  BY <1>8, SeenShape
<1> HIDE DEF b
<1>10. \A i \in 1 .. n : a[i] = b[i]
  <2> TAKE i \in 1 .. n
  <2>1. i \in 1 .. n + length /\ i <= n
    BY <1>1
  <2> QED BY <1>2, <1>7, <1>8, <1>9, <2>1
<1>11. \A i \in n + 1 .. n + length : a[i] = V(i - n) /\ i - n \in 1 .. length
  <2> TAKE i \in n + 1 .. n + length
  <2>1. i \in 1 .. n + length /\ ~(i <= n) /\ i - n \in 1 .. length
    BY <1>1
  <2> QED BY <1>6, <1>7, <2>1
<1>12. ASSUME NEW i \in n + 1 .. n + length, i - n - 1 < d PROVE Src(i - n) = i - d - 1
  <2>1. (i - n) - 1 \in Nat /\ (i - n) - 1 < d
    BY <1>1, <1>12
  <2>2. ((i - n) - 1) % d = (i - n) - 1
    BY <1>1, <2>1, ModSmall
  <2> QED BY <1>1, <2>2 DEF Src
<1>13. ASSUME NEW i \in n + 1 .. n + length, i <= d PROVE a[i] = b[i]
  <2>1. Src(i - n) = i - d - 1
    BY <1>1, <1>12, <1>13
  <2>2. ~(Src(i - n) >= 0) /\ -Src(i - n) - 1 = d - i
    BY <1>1, <1>13, <2>1
  <2>3. a[i] = TailByte(d - i)
    BY <1>11, <2>2 DEF V
  <2>4. i \in 1 .. Len(r) /\ d - i \in 0 .. Window - 1
    <3>1. d \in 1 .. Window
      BY DEF d
    <3> QED BY <1>1, <1>8, <1>13, <3>1
  <2>5. r[i] = MARKER16 + (d - i) /\ IsMarker(r[i])
    BY <1>8, <1>13, <2>4, CellKinds
  <2>6. r[i] - MARKER16 = d - i
    BY <2>4, <2>5, Constants
  <2> QED BY <1>9, <2>3, <2>4, <2>5, <2>6
<1>14. ASSUME NEW i \in n + 1 .. n + length, i > d
       PROVE  a[i] = a[i - d] /\ b[i] = b[i - d]
  <2>1. i \in 1 .. Len(r) /\ i - d \in 1 .. Len(r)
    BY <1>1, <1>8, <1>14
  <2>2. b[i] = b[i - d]
    BY <1>8, <1>9, <1>14, <2>1
  <2>3. CASE i - n - 1 < d
    <3>1. Src(i - n) >= 0 /\ Src(i - n) + 1 = i - d
      BY <1>1, <1>12, <1>14, <2>3
    <3>2. a[i] = direct[i - d]
      BY <1>11, <3>1 DEF V
    <3>3. i - d <= n /\ i - d \in 1 .. n + length
      BY <1>1, <1>8, <2>1, <2>3
    <3> QED BY <1>7, <2>2, <3>2, <3>3
  <2>4. CASE ~(i - n - 1 < d)
    <3>1. i - d \in n + 1 .. n + length /\ (i - n) - 1 \in Nat /\ (i - n) - 1 >= d
      BY <1>1, <1>8, <2>4
    <3>2. ((i - n) - 1) % d = (((i - n) - 1) - d) % d
      BY <1>1, <3>1, ModPeriod
    <3>3. ((i - n) - 1) - d = ((i - d) - n) - 1
      BY <1>1
    <3>4. Src(i - n) = Src((i - d) - n)
      BY <3>2, <3>3 DEF Src
    <3>5. V(i - n) = V((i - d) - n)
      BY <3>4 DEF V
    <3>6. a[i] = V(i - n) /\ a[i - d] = V((i - d) - n)
      BY <1>11, <3>1
    <3> QED BY <2>2, <3>5, <3>6
  <2> QED BY <2>3, <2>4
<1>15. \A i \in 1 .. n + length : a[i] = b[i]
  <2>1. n + length \in Nat
    BY <1>1
  <2>2. Repeat(a, b, n, n + length, d)
    BY <1>10, <1>13, <1>14 DEF Repeat
  <2> QED BY <1>1, <2>1, <2>2, SamePeriod
<1>16. a = b
  BY <1>7, <1>8, <1>9, <1>15, SeqEqual
<1> QED BY <1>3, <1>16 DEF b

-----------------------------------------------------------------------------
(* The sliding window. *)

\* flush_u16 cuts the scratch in two; what is kept is short of a flush, and
\* is a whole window if anything was flushed.
LEMMA FlushShape ==
    ASSUME scratch \in Seq(Cell)
    PROVE  /\ FlushedCells \in Seq(Cell) /\ Kept \in Seq(Cell)
           /\ FlushedCells \o Kept = scratch
           /\ Len(FlushedCells) + Len(Kept) = Len(scratch)
           /\ Len(Kept) < FlushAt
           /\ NeedsFlush => Len(Kept) = Window
           /\ ~NeedsFlush => FlushedCells = <<>> /\ Kept = scratch
<1>1. Len(scratch) \in Nat /\ Window \in Nat /\ FlushAt \in Nat /\ FlushAt > Window
  BY Constants
<1>2. CASE NeedsFlush
  <2> DEFINE f == SubSeq(scratch, 1, Flushed)
             k == SubSeq(scratch, Flushed + 1, Len(scratch))
  <2>1. Flushed \in 1 .. Len(scratch) /\ Len(scratch) - Flushed = Window
    BY <1>1, <1>2 DEF NeedsFlush, Flushed
  <2>2. f \in Seq(Cell) /\ Len(f) = Flushed
    BY <1>1, <2>1
  <2>3. k \in Seq(Cell) /\ Len(k) = Window
    BY <1>1, <2>1
  <2>4. f \o k = scratch
    <3>1. /\ 1 \in 1 .. Len(scratch) + 1 /\ Flushed \in 1 - 1 .. Len(scratch)
          /\ Len(scratch) \in Flushed .. Len(scratch)
      BY <1>1, <2>1
    <3>2. f \o k = SubSeq(scratch, 1, Len(scratch))
      BY <3>1, ConcatAdjacentSubSeq
    <3>3. SubSeq(scratch, 1, Len(scratch)) = scratch
      BY SubSeqFull
    <3> QED BY <3>2, <3>3
  <2>5. FlushedCells = f /\ Kept = k
    BY <1>2 DEF FlushedCells, Kept
  <2> HIDE DEF f, k
  <2> QED BY <1>1, <1>2, <2>1, <2>2, <2>3, <2>4, <2>5
<1>3. CASE ~NeedsFlush
  <2>1. FlushedCells = <<>> /\ Kept = scratch
    BY <1>3 DEF FlushedCells, Kept
  <2>2. <<>> \o scratch = scratch
    BY ConcatEmptySeq
  <2>3. Len(scratch) < FlushAt
    BY <1>1, <1>3 DEF NeedsFlush
  <2> QED BY <1>1, <1>3, <2>1, <2>2, <2>3
<1> QED BY <1>2, <1>3

\* A match in the window is the match in the whole chunk: before the first
\* flush the window is the chunk, and after it every distance stays inside.
LEMMA WindowMatch ==
    ASSUME NEW older \in Seq(Cell), NEW kept \in Seq(Cell),
           windowBase + Len(FlushedCells) = Len(older),
           Len(older) > 0 => Len(kept) >= Window,
           NEW distance \in 1 .. Window, NEW length \in Nat
    PROVE  /\ U16Match(kept, distance, length) \in Seq(Cell)
           /\ Len(U16Match(kept, distance, length)) = Len(kept) + length
           /\ older \o U16Match(kept, distance, length)
                = CellMatch(older \o kept, distance, length)
<1> DEFINE c == older \o kept
           u == U16Match(kept, distance, length)
           r == CellMatch(c, distance, length)
<1>1. /\ distance \in Nat \ {0} /\ Window \in Nat /\ Len(older) \in Nat /\ Len(kept) \in Nat
      /\ distance <= Window
  BY Constants
<1>2. /\ c \in Seq(Cell) /\ Len(c) = Len(older) + Len(kept)
      /\ \A i \in 1 .. Len(older) + Len(kept) :
            c[i] = IF i <= Len(older) THEN older[i] ELSE kept[i - Len(older)]
  BY ConcatProperties
<1>3. CASE Len(older) = 0
  <2>1. older = <<>>
    BY <1>3
  <2>2. c = kept
    BY <2>1, ConcatEmptySeq
  <2>3. u = CellMatch(kept, distance, length)
    BY <1>3 DEF U16Match, CellMatch, Offsets
  <2>4. IsCellMatch(u, kept, distance, length)
    BY <2>3, CellMatchShape
  <2>5. u \in Seq(Cell) /\ Len(u) = Len(kept) + length
    BY <2>4 DEF IsCellMatch
  <2>6. older \o u = u
    <3> HIDE DEF u
    <3> QED BY <2>1, <2>5, ConcatEmptySeq
  <2> QED BY <2>2, <2>3, <2>5, <2>6
<1>4. CASE Len(older) # 0
  <2>1. distance <= Len(kept) /\ distance <= Len(c)
    BY <1>1, <1>2, <1>4
  <2>2. u = CopyBack(kept \o [k \in 1 .. 0 |-> MARKER16 + PrefixOffset(distance, Len(kept), k - 1)],
                     distance, length - 0)
    BY <1>4 DEF U16Match
  <2>3. \A x : [k \in 1 .. 0 |-> MARKER16 + PrefixOffset(distance, x, k - 1)] = <<>>
    OBVIOUS
  <2>4. kept \o <<>> = kept /\ length - 0 = length
    BY ConcatEmptySeq
  <2>5. u = CopyBack(kept, distance, length)
    BY <2>2, <2>3, <2>4
  <2>6. IsCopy(u, Cell, kept, distance, length)
    BY <1>1, <2>1, <2>5, CopyBackShape
  <2> HIDE DEF u
  <2>7. /\ u \in Seq(Cell) /\ Len(u) = Len(kept) + length
        /\ \A i \in 1 .. Len(kept) : u[i] = kept[i]
        /\ \A i \in Len(kept) + 1 .. Len(kept) + length : u[i] = u[i - distance]
    BY <2>6 DEF IsCopy
  <2>8. IsCellMatch(r, c, distance, length)
    <3> HIDE DEF c
    <3> QED BY <1>2, CellMatchShape
  <2> HIDE DEF c, r
  <2> DEFINE a == older \o u
             b == Len(older)
  <2>9. /\ a \in Seq(Cell) /\ Len(a) = b + Len(u)
        /\ \A i \in 1 .. b + Len(u) : a[i] = IF i <= b THEN older[i] ELSE u[i - b]
    <3>1. u \in Seq(Cell)
      BY <2>7
    <3> QED BY <3>1, ConcatProperties
  <2> HIDE DEF a
  <2>10. /\ r \in Seq(Cell) /\ Len(r) = Len(c) + length
         /\ \A i \in 1 .. Len(c) : r[i] = c[i]
         /\ \A i \in Len(c) + 1 .. Len(c) + length : i > distance => r[i] = r[i - distance]
    BY <2>8 DEF IsCellMatch
  <2>11. Len(a) = Len(r) /\ Len(c) + length = Len(r) /\ Len(c) = b + Len(kept) /\ Len(c) \in Nat
    BY <1>1, <1>2, <2>7, <2>9, <2>10
  <2>12. \A i \in 1 .. Len(c) : a[i] = r[i]
    <3> TAKE i \in 1 .. Len(c)
    <3>1. i \in 1 .. b + Len(u) /\ i \in 1 .. Len(older) + Len(kept)
      BY <1>1, <2>7, <2>11
    <3>2. CASE i <= b
      BY <1>2, <2>9, <2>10, <3>1, <3>2
    <3>3. CASE ~(i <= b)
      <4>1. i - b \in 1 .. Len(kept)
        BY <1>1, <3>1, <3>3
      <4> QED BY <1>2, <2>7, <2>9, <2>10, <3>1, <3>3, <4>1
    <3> QED BY <3>2, <3>3
  <2>13. ASSUME NEW i \in Len(c) + 1 .. Len(c) + length
         PROVE  i > distance /\ a[i] = a[i - distance] /\ r[i] = r[i - distance]
    <3>1. i > distance
      BY <1>1, <2>1, <2>11
    <3>2. /\ i \in 1 .. b + Len(u) /\ ~(i <= b)
          /\ i - b \in Len(kept) + 1 .. Len(kept) + length
      BY <1>1, <2>7, <2>11
    <3>3. /\ i - distance \in 1 .. b + Len(u) /\ ~(i - distance <= b)
          /\ (i - distance) - b = (i - b) - distance
      <4>1. /\ i \in Int /\ b \in Nat /\ distance \in Nat /\ Len(kept) \in Nat
            /\ i > b + Len(kept) /\ i <= b + Len(u) /\ Len(u) \in Nat
        BY <1>1, <2>7, <2>11, <3>2
      <4>2. distance <= Len(kept)
        BY <2>1
      <4> HIDE DEF b
      <4> QED BY <4>1, <4>2
    <3>4. a[i] = u[i - b] /\ a[i - distance] = u[(i - b) - distance]
      BY <2>9, <3>2, <3>3
    <3> QED BY <2>7, <2>10, <3>1, <3>2, <3>4
  <2>14. Repeat(a, r, Len(c), Len(r), distance)
    BY <1>1, <2>1, <2>11, <2>12, <2>13 DEF Repeat
  <2>15. \A i \in 1 .. Len(r) : a[i] = r[i]
    <3>1. Len(r) \in Nat
      BY <2>10
    <3> QED BY <1>1, <2>11, <2>14, <3>1, SamePeriod
  <2>16. a = r
    BY <2>9, <2>10, <2>11, <2>15, SeqEqual
  <2> QED BY <2>7, <2>16 DEF a, r, c, u
<1> QED BY <1>3, <1>4

\* r continues c.
LEMMA ContinuationShape ==
    ASSUME NEW c \in Seq(Cell), NEW r \in Seq(Cell), Len(c) <= Len(r),
           \A i \in 1 .. Len(c) : r[i] = c[i]
    PROVE  LET rest == SubSeq(r, Len(c) + 1, Len(r)) IN
           /\ rest \in Seq(Cell) /\ Len(rest) = Len(r) - Len(c)
           /\ \A i \in 1 .. Len(rest) : rest[i] = r[Len(c) + i]
           /\ r = c \o rest
<1> DEFINE rest == SubSeq(r, Len(c) + 1, Len(r))
           q == c \o rest
<1>1. Len(c) \in Nat /\ Len(r) \in Nat
  OBVIOUS
<1>2. \A i \in Len(c) + 1 .. Len(r) : r[i] \in Cell
  BY <1>1
<1>3. /\ rest \in Seq(Cell)
      /\ Len(rest) = IF Len(c) + 1 <= Len(r) THEN Len(r) - (Len(c) + 1) + 1 ELSE 0
      /\ \A i \in 1 .. Len(r) - (Len(c) + 1) + 1 : rest[i] = r[(Len(c) + 1) + i - 1]
  <2>1. Len(c) + 1 \in Int /\ Len(r) \in Int
    BY <1>1
  <2> QED BY <1>2, <2>1, SubSeqProperties
<1> HIDE DEF rest
<1>4. Len(rest) = Len(r) - Len(c)
  BY <1>1, <1>3
<1>5. \A i \in 1 .. Len(rest) : rest[i] = r[Len(c) + i]
  <2> TAKE i \in 1 .. Len(rest)
  <2>1. i \in 1 .. Len(r) - (Len(c) + 1) + 1 /\ (Len(c) + 1) + i - 1 = Len(c) + i
    BY <1>1, <1>4
  <2> QED BY <1>3, <2>1
<1>6. /\ q \in Seq(Cell) /\ Len(q) = Len(c) + Len(rest)
      /\ \A i \in 1 .. Len(c) + Len(rest) : q[i] = IF i <= Len(c) THEN c[i] ELSE rest[i - Len(c)]
  <2>1. rest \in Seq(Cell)
    BY <1>3
  <2> QED BY <2>1, ConcatProperties
<1> HIDE DEF q
<1>7. \A i \in 1 .. Len(r) : r[i] = q[i]
  <2> TAKE i \in 1 .. Len(r)
  <2>1. i \in 1 .. Len(c) + Len(rest)
    BY <1>1, <1>4
  <2>2. CASE i <= Len(c)
    BY <1>1, <1>6, <2>1, <2>2
  <2>3. CASE ~(i <= Len(c))
    <3>1. i - Len(c) \in 1 .. Len(rest) /\ Len(c) + (i - Len(c)) = i
      BY <1>1, <1>4, <2>1, <2>3
    <3> QED BY <1>5, <1>6, <2>1, <2>3, <3>1
  <2> QED BY <2>2, <2>3
<1>8. r = q
  <2>1. Len(r) = Len(q)
    BY <1>1, <1>4, <1>6
  <2>2. q \in Seq(Cell)
    BY <1>6
  <2> QED BY <1>7, <2>1, <2>2, SeqEqual
<1> QED BY <1>3, <1>4, <1>5, <1>8 DEF q, rest

\* The byte decoder: once the last Window cells are bytes, a match copies
\* bytes only, so that knowing nothing of markers does no harm.
LEMMA ByteMatch ==
    ASSUME NEW c \in Seq(Cell), Len(c) >= Window,
           \A i \in Len(c) - Window + 1 .. Len(c) : ~IsMarker(c[i]),
           NEW distance \in 1 .. Window, NEW length \in Nat,
           NEW r, IsCellMatch(r, c, distance, length)
    PROVE  /\ CopyBack(ExtractBytes(c), distance, length) = ExtractBytes(r)
           /\ ExtractMarkers(r, 0) = ExtractMarkers(c, 0)
           /\ Len(r) >= Window
           /\ \A i \in Len(r) - Window + 1 .. Len(r) : ~IsMarker(r[i])
<1>1. /\ distance \in Nat \ {0} /\ Window \in Nat /\ Len(c) \in Nat /\ distance <= Len(c)
      /\ distance <= Window
  BY Constants
<1>2. /\ r \in Seq(Cell) /\ Len(r) = Len(c) + length
      /\ \A i \in 1 .. Len(c) : r[i] = c[i]
      /\ \A i \in Len(c) + 1 .. Len(c) + length : i > distance => r[i] = r[i - distance]
  BY DEF IsCellMatch
<1>3. CopyBack(ExtractBytes(c), distance, length) = ExtractBytes(r)
  <2>1. PrefixCount(distance, Len(c), length) = 0
    BY <1>1, PrefixCountValue
  <2>2. CopyBack(ExtractBytes(c) \o [k \in 1 .. 0 |-> 0], distance, length - 0) = ExtractBytes(r)
    <3> DEFINE count == PrefixCount(distance, Len(c), length)
    <3>1. CopyBack(ExtractBytes(c) \o [k \in 1 .. count |-> 0], distance, length - count)
            = ExtractBytes(r)
      BY BytesMatch
    <3>2. count = 0
      BY <2>1
    <3> HIDE DEF count
    <3> QED BY <3>1, <3>2, Zenon
  <2>3. ExtractBytes(c) \in Seq(Byte)
    BY BytesShape
  <2>4. [k \in 1 .. 0 |-> 0] = <<>> /\ length - 0 = length
    OBVIOUS
  <2>5. ExtractBytes(c) \o <<>> = ExtractBytes(c)
    BY <2>3, ConcatEmptySeq
  <2> QED BY <2>2, <2>4, <2>5
<1>4. \A i \in Len(c) - Window + 1 .. Len(r) : ~IsMarker(r[i])
  <2> DEFINE T == {i \in Len(c) - Window + 1 .. Len(r) : IsMarker(r[i])}
  <2>1. SUFFICES ASSUME T # {} PROVE FALSE
    OBVIOUS
  <2>2. T \subseteq Nat
    BY <1>1, <1>2
  <2>3. PICK x \in T : \A y \in T : x <= y
    <3> HIDE DEF T
    <3> QED BY <2>1, <2>2, LeastElement
  <2>4. x \in Nat /\ x >= Len(c) - Window + 1 /\ x <= Len(r) /\ IsMarker(r[x])
    BY <1>1, <1>2, <2>2, <2>3
  <2>5. ~(x <= Len(c))
    <3> SUFFICES ASSUME x <= Len(c) PROVE FALSE
      OBVIOUS
    <3>1. x \in 1 .. Len(c) /\ x \in Len(c) - Window + 1 .. Len(c)
      BY <1>1, <2>4
    <3> QED BY <1>2, <2>4, <3>1
  <2>6. x \in Len(c) + 1 .. Len(c) + length /\ x > distance
    BY <1>1, <1>2, <2>4, <2>5
  <2>7. r[x - distance] = r[x]
    BY <1>2, <2>6
  <2>8. x - distance \in Len(c) - Window + 1 .. Len(r) /\ x - distance < x
    BY <1>1, <1>2, <2>4, <2>5
  <2>9. x - distance \in T
    BY <2>4, <2>7, <2>8
  <2> HIDE DEF T
  <2>10. x <= x - distance
    BY <2>3, <2>9
  <2> QED BY <1>1, <2>4, <2>10
<1>5. ExtractMarkers(r, 0) = ExtractMarkers(c, 0)
  <2> DEFINE rest == SubSeq(r, Len(c) + 1, Len(r))
  <2>1. Len(c) <= Len(r)
    BY <1>1, <1>2
  <2>2. /\ rest \in Seq(Cell) /\ Len(rest) = Len(r) - Len(c)
        /\ \A i \in 1 .. Len(rest) : rest[i] = r[Len(c) + i]
        /\ r = c \o rest
    BY <1>2, <2>1, ContinuationShape
  <2> HIDE DEF rest
  <2>3. \A i \in 1 .. Len(rest) : ~IsMarker(rest[i])
    <3> TAKE i \in 1 .. Len(rest)
    <3>1. Len(c) + i \in Len(c) - Window + 1 .. Len(r)
      BY <1>1, <1>2, <2>2
    <3> QED BY <1>4, <2>2, <3>1
  <2>4. 0 + Len(c) \in Nat
    BY <1>1
  <2>5. ExtractMarkers(rest, 0 + Len(c)) = <<>>
    BY <2>2, <2>3, <2>4, ExtractNone
  <2>6. /\ ExtractMarkers(r, 0) = ExtractMarkers(c, 0) \o ExtractMarkers(rest, 0 + Len(c))
        /\ ExtractMarkers(c, 0) \in Seq(Notes)
    BY <2>2, ExtractConcat
  <2>7. ExtractMarkers(c, 0) \o <<>> = ExtractMarkers(c, 0)
    BY <2>6, ConcatEmptySeq
  <2> QED BY <2>5, <2>6, <2>7
<1>6. Len(r) >= Window /\ \A i \in Len(r) - Window + 1 .. Len(r) : ~IsMarker(r[i])
  <2>1. Len(r) >= Window
    BY <1>1, <1>2
  <2>2. \A i \in Len(r) - Window + 1 .. Len(r) : i \in Len(c) - Window + 1 .. Len(r)
    BY <1>1, <1>2
  <2> QED BY <1>4, <2>1, <2>2
<1> QED BY <1>3, <1>5, <1>6

-----------------------------------------------------------------------------
(* propagate_match_cached: the walk over the side table. *)

\* max_marker_pos: the position of the last marker.
LastPos(ms) == IF ms = <<>> THEN None ELSE ms[Len(ms)].out_pos

\* What a sorted list of the markers of the first n cells says of each cell.
LEMMA ListLookup ==
    ASSUME NEW r \in Seq(Cell), NEW n \in 0 .. Len(r), NEW ms \in Seq(Notes),
           Sorted(ms), Lists(ms, r, 0, n)
    PROVE  /\ \A j \in 1 .. Len(ms) :
                 /\ ms[j].out_pos \in 0 .. n - 1 /\ ms[j].out_pos <= LastPos(ms)
                 /\ IsMarker(r[ms[j].out_pos + 1])
                 /\ ms[j] = Note(r, 0, ms[j].out_pos + 1)
           /\ \A p \in 0 .. n - 1 :
                 IsMarker(r[p + 1]) => \E j \in 1 .. Len(ms) : ms[j].out_pos = p
           /\ LastPos(ms) \in Int
           /\ LastPos(ms) >= 0 => ms # <<>> /\ LastPos(ms) = ms[Len(ms)].out_pos
<1>1. Len(ms) \in Nat /\ Len(r) \in Nat
  OBVIOUS
<1>2. ASSUME NEW j \in 1 .. Len(ms)
      PROVE  /\ ms[j].out_pos \in 0 .. n - 1
             /\ IsMarker(r[ms[j].out_pos + 1])
             /\ ms[j] = Note(r, 0, ms[j].out_pos + 1)
  <2>1. PICK i \in 1 .. n : IsMarker(r[i]) /\ ms[j] = Note(r, 0, i)
    BY DEF Lists
  <2>2. ms[j].out_pos = 0 + i - 1
    BY <2>1 DEF Note
  <2>3. ms[j].out_pos \in 0 .. n - 1 /\ ms[j].out_pos + 1 = i
    BY <2>2
  <2> QED BY <2>1, <2>3
<1>3. ASSUME NEW j \in 1 .. Len(ms) PROVE ms[j].out_pos <= LastPos(ms)
  <2>1. Len(ms) \in 1 .. Len(ms) /\ ms # <<>>
    BY <1>1
  <2>2. LastPos(ms) = ms[Len(ms)].out_pos
    BY <2>1 DEF LastPos
  <2>3. ms[j].out_pos \in Int /\ ms[Len(ms)].out_pos \in Int
    BY <1>2, <2>1
  <2>4. CASE j = Len(ms)
    BY <2>2, <2>3, <2>4
  <2>5. CASE j # Len(ms)
    <3>1. j < Len(ms)
      BY <1>1, <2>5
    <3>2. ms[j].out_pos < ms[Len(ms)].out_pos
      BY <2>1, <3>1 DEF Sorted
    <3> QED BY <2>2, <2>3, <3>2
  <2> QED BY <2>4, <2>5
<1>4. ASSUME NEW p \in 0 .. n - 1, IsMarker(r[p + 1])
      PROVE  \E j \in 1 .. Len(ms) : ms[j].out_pos = p
  <2>1. p + 1 \in 1 .. n
    OBVIOUS
  <2>2. PICK j \in 1 .. Len(ms) : ms[j] = Note(r, 0, p + 1)
    BY <1>4, <2>1 DEF Lists
  <2>3. ms[j].out_pos = 0 + (p + 1) - 1
    BY <2>2 DEF Note
  <2>4. ms[j].out_pos = p
    BY <2>3
  <2> QED BY <2>4
<1>5. /\ LastPos(ms) \in Int
      /\ LastPos(ms) >= 0 => ms # <<>> /\ LastPos(ms) = ms[Len(ms)].out_pos
  <2>1. CASE ms = <<>>
    BY <2>1 DEF LastPos, None
  <2>2. CASE ms # <<>>
    <3>1. Len(ms) \in 1 .. Len(ms)
      BY <1>1, <2>2
    <3>2. ms[Len(ms)].out_pos \in Int
      BY <1>2, <3>1
    <3> QED BY <2>2, <3>2 DEF LastPos
  <2> QED BY <2>1, <2>2
<1> QED BY <1>2, <1>3, <1>4, <1>5

\* The search for the next marker stops, and passes only earlier ones.
LEMMA SeekShape ==
    ASSUME NEW ms \in Seq(Notes), NEW i \in 0 .. Len(ms), NEW pos \in Int
    PROVE  LET j == SeekMarker(ms, i, pos) IN
           /\ j \in i .. Len(ms)
           /\ j = Len(ms) \/ ms[j + 1].out_pos >= pos
           /\ \A h \in i .. j - 1 : ms[h + 1].out_pos < pos
<1> DEFINE T == {j \in i .. Len(ms) : j = Len(ms) \/ ms[j + 1].out_pos >= pos}
<1>1. Len(ms) \in Nat /\ \A j \in 1 .. Len(ms) : ms[j].out_pos \in Int
  <2>1. \A j \in 1 .. Len(ms) : ms[j] \in Notes
    OBVIOUS
  <2> QED BY <2>1 DEF Notes
<1>2. T # {} /\ T \subseteq Nat
  <2>1. Len(ms) \in T
    BY <1>1
  <2> QED BY <1>1, <2>1
<1>3. PICK x \in T : \A y \in T : x <= y
  <2> HIDE DEF T
  <2> QED BY <1>2, LeastElement
<1>4. x \in i .. Len(ms) /\ (x = Len(ms) \/ ms[x + 1].out_pos >= pos)
  BY <1>3
<1>5. \A h \in i .. x - 1 : ms[h + 1].out_pos < pos
  <2> TAKE h \in i .. x - 1
  <2>1. h \in i .. Len(ms) /\ h # Len(ms) /\ h < x /\ h + 1 \in 1 .. Len(ms)
    BY <1>1, <1>4
  <2>2. h \notin T
    <3>1. SUFFICES ASSUME h \in T PROVE FALSE
      OBVIOUS
    <3>2. x <= h
      BY <1>3, <3>1
    <3> QED BY <1>1, <1>4, <2>1, <3>2
  <2>3. ~(ms[h + 1].out_pos >= pos)
    BY <2>1, <2>2
  <2> QED BY <1>1, <2>1, <2>3
<1> HIDE DEF T
<1>6. \E j \in i .. Len(ms) :
        /\ j = Len(ms) \/ ms[j + 1].out_pos >= pos
        /\ \A h \in i .. j - 1 : ms[h + 1].out_pos < pos
  BY <1>4, <1>5
<1> QED BY <1>6, Zenon DEF SeekMarker

WalkState == [markers : Seq(Notes), max : Int, going : BOOLEAN, cursor : Nat]

\* One step of the walk in PropagateMatch.
VisitAt(st, k, src, dst, length) ==
    LET c == SeekMarker(st.markers, st.cursor, src + k) IN
    IF ~st.going \/ src + k > st.max THEN [st EXCEPT !.going = FALSE]
    ELSE IF c = Len(st.markers)
    THEN [st EXCEPT !.cursor = c, !.going = k + 1 < length /\ src + k < st.max]
    ELSE IF st.markers[c + 1].out_pos = src + k
    THEN [st EXCEPT
            !.markers = Append(@, [out_pos |-> dst + k,
                                   prefix_offset |-> st.markers[c + 1].prefix_offset]),
            !.max = dst + k, !.cursor = c + 1]
    ELSE [st EXCEPT !.cursor = c]

\* Before step k the walk has the markers ms of the chunk up to where it
\* writes, has passed only markers before where it reads, and has stopped only
\* if none is ahead.
WalkAt(st, ms, pos) ==
    /\ st \in WalkState
    /\ st.markers = ms /\ st.max = LastPos(ms)
    /\ st.going => /\ st.cursor <= Len(ms)
                   /\ \A j \in 1 .. st.cursor : ms[j].out_pos < pos
    /\ ~st.going => st.max < pos

\* One step of the walk does for the side table what copying one cell does for
\* the cells.
LEMMA VisitStep ==
    ASSUME NEW r \in Seq(Cell), NEW f, IsRecord(f, r, 0),
           NEW dst \in Nat, NEW distance \in 1 .. dst, NEW length \in Nat,
           Len(r) = dst + length, NEW k \in 0 .. length - 1,
           r[dst + k + 1] = r[dst + k + 1 - distance],
           NEW st, WalkAt(st, f[dst + k], dst - distance + k)
    PROVE  WalkAt(VisitAt(st, k, dst - distance, dst, length), f[dst + (k + 1)],
                  dst - distance + (k + 1))
<1> DEFINE n == dst + k
           src == dst - distance
           pos == src + k
           ms == f[n]
           s2 == VisitAt(st, k, src, dst, length)
           c == SeekMarker(st.markers, st.cursor, src + k)
<1>1. /\ n \in Nat /\ pos \in Nat /\ pos < n /\ n \in 0 .. Len(r) /\ n + 1 \in 1 .. Len(r)
      /\ dst + (k + 1) = n + 1 /\ src + (k + 1) = pos + 1 /\ pos \in 0 .. n - 1
      /\ dst + k + 1 = n + 1 /\ dst + k + 1 - distance = pos + 1
      /\ src + k = pos /\ dst + k = n
  OBVIOUS
<1>2. ms \in Seq(Notes) /\ Sorted(ms) /\ Lists(ms, r, 0, n)
  BY <1>1, RecordShape
<1>3. f[n + 1] = IF IsMarker(r[n + 1]) THEN Append(ms, Note(r, 0, n + 1)) ELSE ms
  <2>1. (n + 1) - 1 = n
    BY <1>1
  <2> QED BY <1>1, <2>1 DEF IsRecord
<1>4. r[n + 1] = r[pos + 1]
  BY <1>1
<1>5. WalkAt(st, ms, pos)
  OBVIOUS
<1>6. SUFFICES WalkAt(s2, f[n + 1], pos + 1)
  BY <1>1
<1> HIDE DEF ms, n, src, pos
<1>7. /\ \A j \in 1 .. Len(ms) :
            /\ ms[j].out_pos \in 0 .. n - 1 /\ ms[j].out_pos <= LastPos(ms)
            /\ IsMarker(r[ms[j].out_pos + 1])
            /\ ms[j] = Note(r, 0, ms[j].out_pos + 1)
      /\ \A p \in 0 .. n - 1 :
            IsMarker(r[p + 1]) => \E j \in 1 .. Len(ms) : ms[j].out_pos = p
      /\ LastPos(ms) \in Int
      /\ LastPos(ms) >= 0 => ms # <<>> /\ LastPos(ms) = ms[Len(ms)].out_pos
  <2>1. n \in 0 .. Len(r)
    BY <1>1
  <2> QED BY <1>2, <2>1, ListLookup
<1>8. st \in WalkState /\ st.markers = ms /\ st.max = LastPos(ms) /\ Len(ms) \in Nat
  BY <1>2, <1>5 DEF WalkAt
<1>9. CASE ~st.going \/ pos > st.max
  <2>1. s2 = [st EXCEPT !.going = FALSE]
    BY <1>1, <1>9 DEF VisitAt
  <2>2. LastPos(ms) < pos
    <3>1. CASE ~st.going
      BY <1>5, <1>8, <3>1 DEF WalkAt
    <3>2. CASE pos > st.max
      BY <1>1, <1>7, <1>8, <3>2
    <3> QED BY <1>9, <3>1, <3>2
  <2>3. ~IsMarker(r[pos + 1])
    <3>1. SUFFICES ASSUME IsMarker(r[pos + 1]) PROVE FALSE
      OBVIOUS
    <3>2. PICK j \in 1 .. Len(ms) : ms[j].out_pos = pos
      BY <1>1, <1>7, <3>1
    <3>3. pos <= LastPos(ms)
      BY <1>7, <3>2
    <3> QED BY <1>1, <1>7, <2>2, <3>3
  <2>4. f[n + 1] = ms
    BY <1>3, <1>4, <2>3
  <2>5. s2 \in WalkState /\ s2.markers = ms /\ s2.max = LastPos(ms) /\ s2.going = FALSE
    BY <1>8, <2>1 DEF WalkState
  <2>6. LastPos(ms) < pos + 1
    BY <1>1, <1>7, <2>2
  <2> HIDE DEF s2
  <2> QED BY <2>4, <2>5, <2>6 DEF WalkAt
<1>10. CASE st.going /\ ~(pos > st.max)
  <2>1. st.cursor \in 0 .. Len(ms) /\ \A j \in 1 .. st.cursor : ms[j].out_pos < pos
    <3>1. st.cursor \in Nat
      BY <1>8 DEF WalkState
    <3> QED BY <1>5, <1>8, <1>10, <3>1 DEF WalkAt
  <2>2. pos <= LastPos(ms) /\ pos \in Int
    BY <1>1, <1>7, <1>8, <1>10
  <2>3. ms # <<>> /\ LastPos(ms) = ms[Len(ms)].out_pos /\ Len(ms) \in 1 .. Len(ms)
    <3>1. LastPos(ms) >= 0
      BY <1>1, <1>7, <2>2
    <3>2. ms # <<>> /\ LastPos(ms) = ms[Len(ms)].out_pos
      BY <1>7, <3>1
    <3>3. Len(ms) # 0
      BY <1>2, <3>2
    <3> QED BY <1>8, <3>2, <3>3
  <2> DEFINE cur == st.cursor
  <2> HIDE DEF cur
  <2>12. cur \in 0 .. Len(ms) /\ \A j \in 1 .. cur : ms[j].out_pos < pos
    BY <2>1 DEF cur
  <2>4. /\ c \in cur .. Len(ms)
        /\ c = Len(ms) \/ ms[c + 1].out_pos >= pos
        /\ \A h \in cur .. c - 1 : ms[h + 1].out_pos < pos
    <3>1. c = SeekMarker(ms, cur, pos)
      BY <1>1, <1>8 DEF cur
    <3> HIDE DEF c
    <3> QED BY <1>2, <2>2, <2>12, <3>1, SeekShape
  <2>5. /\ s2 = IF c = Len(ms)
                THEN [st EXCEPT !.cursor = c, !.going = k + 1 < length /\ src + k < st.max]
                ELSE IF ms[c + 1].out_pos = pos
                THEN [st EXCEPT
                        !.markers = Append(@, [out_pos |-> dst + k,
                                               prefix_offset |-> ms[c + 1].prefix_offset]),
                        !.max = dst + k, !.cursor = c + 1]
                ELSE [st EXCEPT !.cursor = c]
    BY <1>1, <1>8, <1>10 DEF VisitAt
  <2> HIDE DEF c, s2
  <2>6. c \in Nat /\ c <= Len(ms)
    BY <1>8, <2>4, <2>12
  <2>7. \A j \in 1 .. c : ms[j].out_pos < pos
    <3> TAKE j \in 1 .. c
    <3>1. CASE j <= cur
      BY <2>6, <2>12, <3>1
    <3>2. CASE ~(j <= cur)
      <4>1. cur \in Nat /\ c \in Nat
        BY <2>6, <2>12
      <4>2. j - 1 \in cur .. c - 1 /\ (j - 1) + 1 = j
        BY <3>2, <4>1
      <4> QED BY <2>4, <4>2
    <3> QED BY <3>1, <3>2
  <2>8. c # Len(ms)
    <3>1. SUFFICES ASSUME c = Len(ms) PROVE FALSE
      OBVIOUS
    <3>2. ms[Len(ms)].out_pos < pos
      BY <2>3, <2>7, <3>1
    <3> QED BY <1>7, <2>2, <2>3, <3>2
  <2>9. c + 1 \in 1 .. Len(ms) /\ ms[c + 1].out_pos >= pos
    BY <1>8, <2>4, <2>6, <2>8
  <2>10. CASE ms[c + 1].out_pos = pos
    <3> DEFINE w == Note(r, 0, n + 1)
    <3>1. IsMarker(r[pos + 1]) /\ ms[c + 1] = Note(r, 0, pos + 1)
      BY <1>7, <2>9, <2>10
    <3>2. w = [out_pos |-> dst + k, prefix_offset |-> ms[c + 1].prefix_offset]
      <4>1. ms[c + 1].prefix_offset = r[pos + 1] - MARKER16
        BY <3>1 DEF Note
      <4>2. 0 + (n + 1) - 1 = dst + k
        BY <1>1
      <4> QED BY <1>4, <4>1, <4>2 DEF Note
    <3>3. s2 = [st EXCEPT !.markers = Append(ms, w), !.max = dst + k, !.cursor = c + 1]
      BY <1>8, <2>5, <2>8, <2>10, <3>2
    <3>4. w \in Notes
      <4>1. ms[c + 1] \in Notes
        BY <1>2, <2>9
      <4>2. ms[c + 1].prefix_offset \in Int
        BY <4>1 DEF Notes
      <4>3. dst + k \in Int
        OBVIOUS
      <4> QED BY <3>2, <4>2, <4>3 DEF Notes
    <3> DEFINE a == Append(ms, w)
    <3>5. f[n + 1] = a
      BY <1>3, <1>4, <3>1
    <3>6. w.out_pos = dst + k
      BY <3>2
    <3> HIDE DEF w
    <3>7. a \in Seq(Notes) /\ a # <<>> /\ Len(a) = Len(ms) + 1 /\ a[Len(ms) + 1] = w
          /\ \A j \in 1 .. Len(ms) : a[j] = ms[j]
      BY <1>2, <3>4, AppendProperties
    <3> HIDE DEF a
    <3>8. LastPos(a) = dst + k
      BY <3>6, <3>7 DEF LastPos
    <3>9. /\ s2 \in WalkState /\ s2.markers = a /\ s2.max = dst + k
          /\ s2.going = TRUE /\ s2.cursor = c + 1
      <4>1. dst + k \in Int /\ c + 1 \in Nat
        BY <2>6
      <4> QED BY <1>8, <1>10, <3>3, <3>7, <4>1 DEF WalkState, a
    <3>10. \A j \in 1 .. c + 1 : a[j].out_pos < pos + 1
      <4> TAKE j \in 1 .. c + 1
      <4>3. j \in 1 .. Len(ms)
        BY <1>8, <2>6, <2>9
      <4>1. j \in 1 .. Len(ms) /\ a[j] = ms[j] /\ ms[j].out_pos \in Int
        BY <1>7, <3>7, <4>3
      <4>2. ms[j].out_pos <= pos
        <5>1. CASE j = c + 1
          BY <2>2, <2>10, <5>1
        <5>2. CASE j # c + 1
          <6>1. j \in 1 .. c
            BY <2>6, <5>2
          <6> QED BY <2>2, <2>7, <4>1, <6>1
        <5> QED BY <5>1, <5>2
      <4> QED BY <2>2, <4>1, <4>2
    <3>11. c + 1 <= Len(a)
      BY <1>8, <2>6, <2>9, <3>7
    <3> QED BY <3>5, <3>8, <3>9, <3>10, <3>11 DEF WalkAt
  <2>11. CASE ms[c + 1].out_pos # pos
    <3>1. s2 = [st EXCEPT !.cursor = c]
      BY <2>5, <2>8, <2>11
    <3>2. ~IsMarker(r[pos + 1])
      <4>1. SUFFICES ASSUME IsMarker(r[pos + 1]) PROVE FALSE
        OBVIOUS
      <4>2. PICK j \in 1 .. Len(ms) : ms[j].out_pos = pos
        BY <1>1, <1>7, <4>1
      <4>3. ms[c + 1].out_pos \in Int
        BY <1>7, <2>9
      <4>4. ~(j <= c)
        BY <2>2, <2>6, <2>7, <4>2
      <4>5. j > c + 1
        BY <1>8, <2>6, <2>11, <4>2, <4>4
      <4>6. ms[c + 1].out_pos < ms[j].out_pos
        BY <1>2, <2>9, <4>5 DEF Sorted
      <4>7. pos > ms[c + 1].out_pos
        BY <4>2, <4>6
      <4> QED BY <2>2, <2>9, <4>3, <4>7
    <3>3. f[n + 1] = ms
      BY <1>3, <1>4, <3>2
    <3>4. /\ s2 \in WalkState /\ s2.markers = ms /\ s2.max = LastPos(ms)
          /\ s2.going = TRUE /\ s2.cursor = c
      BY <1>8, <1>10, <2>6, <3>1 DEF WalkState
    <3>5. \A j \in 1 .. c : ms[j].out_pos < pos + 1
      <4> TAKE j \in 1 .. c
      <4>1. j \in 1 .. Len(ms) /\ ms[j].out_pos < pos
        BY <1>8, <2>6, <2>7
      <4>2. ms[j].out_pos \in Int
        BY <1>7, <4>1
      <4> QED BY <2>2, <4>1, <4>2
    <3> QED BY <2>6, <3>3, <3>4, <3>5 DEF WalkAt
  <2> QED BY <2>10, <2>11
<1> QED BY <1>9, <1>10

\* g[k] is the state of the walk after k steps from start.
IsWalk(g, start, src, dst, length) ==
    /\ g = [k \in 0 .. length |-> g[k]]
    /\ g[0] = start
    /\ \A k \in 1 .. length : g[k] = VisitAt(g[k - 1], k - 1, src, dst, length)

\* The walk takes its length steps.
LEMMA WalkExists ==
    ASSUME NEW start, NEW src, NEW dst, NEW length \in Nat
    PROVE  \E g : IsWalk(g, start, src, dst, length)
<1> DEFINE V(st, k) == VisitAt(st, k, src, dst, length)
           Good(m, g) == g[0] = start /\ \A k \in 1 .. m : g[k] = V(g[k - 1], k - 1)
           S == {m \in 0 .. length : \E g : Good(m, g) /\ g = [k \in 0 .. m |-> g[k]]}
<1> HIDE DEF V
<1>1. 0 \in S
  <2> DEFINE g == [k \in 0 .. 0 |-> start]
  <2>1. g[0] = start /\ g = [k \in 0 .. 0 |-> g[k]]
    OBVIOUS
  <2>2. Good(0, g)
    BY <2>1
  <2> HIDE DEF g, Good
  <2> QED BY <2>1, <2>2
<1>2. ASSUME NEW m \in 0 .. length - 1, m \in S PROVE m + 1 \in S
  <2>1. PICK g : Good(m, g)
    BY <1>2
  <2> DEFINE h == [k \in 0 .. m + 1 |-> IF k = m + 1 THEN V(g[m], m) ELSE g[k]]
  <2>2. h = [k \in 0 .. m + 1 |-> h[k]]
    OBVIOUS
  <2>3. h[0] = start
    BY <2>1
  <2>4. \A k \in 1 .. m + 1 : h[k] = V(h[k - 1], k - 1)
    <3> TAKE k \in 1 .. m + 1
    <3>1. CASE k = m + 1
      <4>1. h[k] = V(g[m], m) /\ h[k - 1] = g[m] /\ k - 1 = m
        BY <3>1
      <4> QED BY <4>1
    <3>2. CASE k # m + 1
      <4>1. k \in 1 .. m /\ h[k] = g[k] /\ h[k - 1] = g[k - 1]
        BY <3>2
      <4> QED BY <4>1, <2>1
    <3> QED BY <3>1, <3>2
  <2>5. m + 1 \in 0 .. length
    OBVIOUS
  <2> HIDE DEF h
  <2> QED BY <2>2, <2>3, <2>4, <2>5
<1>3. length \in S
  <2> HIDE DEF S
  <2> QED BY <1>1, <1>2, SetInduction
<1> QED BY <1>3 DEF IsWalk, V

\* From dst on each cell is the one that is distance before it.
Repeats(r, dst, distance, length) ==
    \A k \in 0 .. length - 1 : r[dst + k + 1] = r[dst + k + 1 - distance]

\* The whole walk does for the side table what the copy does for the cells.
LEMMA WalkEnds ==
    ASSUME NEW r \in Seq(Cell), NEW f, IsRecord(f, r, 0),
           NEW dst \in Nat, NEW distance \in 1 .. dst, NEW length \in Nat,
           Len(r) = dst + length,
           Repeats(r, dst, distance, length),
           NEW start, WalkAt(start, f[dst], dst - distance),
           NEW g, IsWalk(g, start, dst - distance, dst, length)
    PROVE  /\ g[length].markers = f[dst + length]
           /\ g[length].max = LastPos(f[dst + length])
<1> DEFINE S == {k \in 0 .. length : WalkAt(g[k], f[dst + k], dst - distance + k)}
<1>1. 0 \in S
  <2>1. dst + 0 = dst /\ dst - distance + 0 = dst - distance
    OBVIOUS
  <2>2. g[0] = start
    BY DEF IsWalk
  <2>3. WalkAt(g[0], f[dst + 0], dst - distance + 0)
    BY <2>1, <2>2
  <2> QED BY <2>3
<1>2. ASSUME NEW k \in 0 .. length - 1, k \in S PROVE k + 1 \in S
  <2>1. WalkAt(g[k], f[dst + k], dst - distance + k)
    BY <1>2
  <2>2. k + 1 \in 1 .. length /\ k + 1 \in 0 .. length /\ (k + 1) - 1 = k
    OBVIOUS
  <2>3. g[k + 1] = VisitAt(g[k], k, dst - distance, dst, length)
    BY <2>2 DEF IsWalk
  <2>4. WalkAt(VisitAt(g[k], k, dst - distance, dst, length), f[dst + (k + 1)],
               dst - distance + (k + 1))
    <3>1. r[dst + k + 1] = r[dst + k + 1 - distance]
      BY DEF Repeats
    <3> QED BY <2>1, <3>1, VisitStep
  <2> QED BY <2>2, <2>3, <2>4
<1>3. length \in S
  <2> HIDE DEF S
  <2>1. \A k \in 0 .. length : k \in S
    BY <1>1, <1>2, SetInduction
  <2> QED BY <2>1
<1> QED BY <1>3 DEF WalkAt

\* PropagateMatch as a walk.
LEMMA PropagateWalks ==
    ASSUME NEW ctx, NEW dst \in Nat, NEW distance \in 1 .. dst, NEW length \in Nat,
           ctx.max_marker_pos # None, ~(dst - distance > ctx.max_marker_pos)
    PROVE  LET live == SeekMarker(ctx.markers, ctx.live_start, LiveFloor(dst))
               start == [markers |-> ctx.markers, max |-> ctx.max_marker_pos,
                         going |-> TRUE,
                         cursor |-> SeekMarker(ctx.markers, live, dst - distance)]
           IN  \E g : /\ IsWalk(g, start, dst - distance, dst, length)
                      /\ PropagateMatch(ctx, dst, distance, length) =
                           [markers |-> g[length].markers,
                            max_marker_pos |-> g[length].max, live_start |-> live]
<1> DEFINE src == dst - distance
           live == SeekMarker(ctx.markers, ctx.live_start, LiveFloor(dst))
           start == [markers |-> ctx.markers, max |-> ctx.max_marker_pos,
                     going |-> TRUE,
                     cursor |-> SeekMarker(ctx.markers, live, dst - distance)]
           Body(g) == [k \in 0 .. length |->
                         IF k = 0 THEN start ELSE VisitAt(g[k - 1], k - 1, src, dst, length)]
           h == CHOOSE g : g = Body(g)
<1>1. PropagateMatch(ctx, dst, distance, length) =
        [markers |-> h[length].markers, max_marker_pos |-> h[length].max,
         live_start |-> live]
  <2>1. ~(dst < distance)
    OBVIOUS
  <2> QED BY <2>1 DEF PropagateMatch, VisitAt
<1>2. \E g : g = Body(g)
  <2> HIDE DEF start
  <2>1. PICK g : IsWalk(g, start, src, dst, length)
    BY WalkExists
  <2>2. \A k \in 0 .. length :
          g[k] = IF k = 0 THEN start ELSE VisitAt(g[k - 1], k - 1, src, dst, length)
    <3> TAKE k \in 0 .. length
    <3>1. k = 0 \/ k \in 1 .. length
      OBVIOUS
    <3> HIDE DEF src
    <3> QED BY <2>1, <3>1 DEF IsWalk
  <2>4. g = [k \in 0 .. length |-> g[k]]
    BY <2>1, Zenon DEF IsWalk
  <2>3. g = Body(g)
    BY <2>2, <2>4, Zenon
  <2> QED BY <2>3
<1>3. h = Body(h)
  <2> HIDE DEF Body
  <2> QED BY <1>2
<1>4. IsWalk(h, start, src, dst, length)
  <2> HIDE DEF h, start, src
  <2>1. h[0] = start
    BY <1>3
  <2>2. \A k \in 1 .. length : h[k] = VisitAt(h[k - 1], k - 1, src, dst, length)
    <3> TAKE k \in 1 .. length
    <3>1. k \in 0 .. length /\ k # 0
      OBVIOUS
    <3> QED BY <1>3, <3>1
  <2>3. h = [k \in 0 .. length |-> h[k]]
    BY <1>3
  <2> QED BY <2>1, <2>2, <2>3, Zenon DEF IsWalk
<1> HIDE DEF h
<1> QED BY <1>1, <1>4

\* A copy whose source holds no marker adds none.
LEMMA NothingCopied ==
    ASSUME NEW P \in Seq(Cell), NEW distance \in 1 .. Len(P), NEW length \in Nat,
           NEW r, IsCopy(r, Cell, P, distance, length),
           \A i \in Len(P) - distance + 1 .. Len(P) : ~IsMarker(P[i])
    PROVE  ExtractMarkers(r, 0) = ExtractMarkers(P, 0)
<1>1. /\ r \in Seq(Cell) /\ Len(r) = Len(P) + length /\ Len(P) \in Nat
      /\ \A i \in 1 .. Len(P) : r[i] = P[i]
      /\ \A i \in Len(P) + 1 .. Len(P) + length : r[i] = r[i - distance]
  BY DEF IsCopy
<1> DEFINE T == {i \in Len(P) + 1 .. Len(P) + length : IsMarker(r[i])}
<1>2. T = {}
  <2>1. SUFFICES ASSUME T # {} PROVE FALSE
    OBVIOUS
  <2>2. T \subseteq Nat
    BY <1>1
  <2>3. PICK x \in T : \A y \in T : x <= y
    <3> HIDE DEF T
    <3> QED BY <2>1, <2>2, LeastElement
  <2>4. x \in Len(P) + 1 .. Len(P) + length /\ IsMarker(r[x - distance]) /\ x - distance < x
    BY <1>1, <2>3
  <2>5. CASE x - distance <= Len(P)
    <3>1. x - distance \in Len(P) - distance + 1 .. Len(P) /\ x - distance \in 1 .. Len(P)
      BY <1>1, <2>4, <2>5
    <3> QED BY <1>1, <2>4, <3>1
  <2>6. CASE ~(x - distance <= Len(P))
    <3>1. x - distance \in T
      BY <1>1, <2>4, <2>6
    <3>2. x <= x - distance
      BY <2>3, <3>1
    <3> QED BY <1>1, <2>4, <3>2
  <2> QED BY <2>5, <2>6
<1> DEFINE rest == SubSeq(r, Len(P) + 1, Len(r))
<1>3. /\ rest \in Seq(Cell) /\ Len(rest) = Len(r) - Len(P)
      /\ \A i \in 1 .. Len(rest) : rest[i] = r[Len(P) + i]
      /\ r = P \o rest
  <2>1. Len(P) <= Len(r)
    BY <1>1
  <2> QED BY <1>1, <2>1, ContinuationShape
<1> HIDE DEF rest
<1>4. \A i \in 1 .. Len(rest) : ~IsMarker(rest[i])
  <2> TAKE i \in 1 .. Len(rest)
  <2>1. Len(P) + i \in Len(P) + 1 .. Len(P) + length
    BY <1>1, <1>3
  <2> QED BY <1>2, <1>3, <2>1
<1>5. 0 + Len(P) \in Nat
  BY <1>1
<1>6. ExtractMarkers(rest, 0 + Len(P)) = <<>>
  BY <1>3, <1>4, <1>5, ExtractNone
<1>7. /\ ExtractMarkers(r, 0) = ExtractMarkers(P, 0) \o ExtractMarkers(rest, 0 + Len(P))
      /\ ExtractMarkers(P, 0) \in Seq(Notes)
  BY <1>3, ExtractConcat
<1>8. ExtractMarkers(P, 0) \o <<>> = ExtractMarkers(P, 0)
  BY <1>7, ConcatEmptySeq
<1> QED BY <1>6, <1>7, <1>8

\* The markers of a continuation continue the markers.
LEMMA MarkersContinue ==
    ASSUME NEW c \in Seq(Cell), NEW r \in Seq(Cell), Len(c) <= Len(r),
           \A i \in 1 .. Len(c) : r[i] = c[i]
    PROVE  LET a == ExtractMarkers(c, 0)
               b == ExtractMarkers(r, 0)
           IN  /\ a \in Seq(Notes) /\ b \in Seq(Notes) /\ Len(a) <= Len(b)
               /\ \A j \in 1 .. Len(a) : b[j] = a[j]
<1> DEFINE rest == SubSeq(r, Len(c) + 1, Len(r))
           a == ExtractMarkers(c, 0)
           b == ExtractMarkers(r, 0)
           e == ExtractMarkers(rest, 0 + Len(c))
<1>1. rest \in Seq(Cell) /\ r = c \o rest
  BY ContinuationShape
<1> HIDE DEF rest
<1>2. 0 + Len(c) \in Nat
  OBVIOUS
<1>3. b = a \o e /\ a \in Seq(Notes)
  BY <1>1, ExtractConcat
<1>4. e \in Seq(Notes)
  BY <1>1, <1>2, ExtractShape
<1> HIDE DEF a, b, e
<1>5. a \o e \in Seq(Notes) /\ Len(a \o e) = Len(a) + Len(e)
      /\ \A j \in 1 .. Len(a) : (a \o e)[j] = a[j]
  <2>1. a \in Seq(Notes) /\ e \in Seq(Notes)
    BY <1>3, <1>4
  <2> QED BY <2>1, ConcatProperties
<1>6. Len(a) <= Len(b) /\ b \in Seq(Notes) /\ \A j \in 1 .. Len(a) : b[j] = a[j]
  BY <1>3, <1>4, <1>5
<1> QED BY <1>3, <1>6 DEF a, b

TableState == [markers : Seq(Notes), max_marker_pos : Int, live_start : Nat]

\* The side table holds the markers of the cells c, the position of the last
\* one, and a start of the live ones before which no copy can reach.
TableOf(ctx, c) ==
    /\ ctx \in TableState
    /\ ctx.markers = ExtractMarkers(c, 0)
    /\ ctx.max_marker_pos = LastPos(ctx.markers)
    /\ ctx.live_start \in 0 .. Len(ctx.markers)
    /\ \A h \in 1 .. ctx.live_start : ctx.markers[h].out_pos + Window < Len(c)

\* A copy inside the chunk: the side table follows the cells.
LEMMA Propagates ==
    ASSUME NEW P \in Seq(Cell), NEW distance \in 1 .. Window, distance <= Len(P),
           NEW length \in Nat, NEW r, IsCopy(r, Cell, P, distance, length),
           NEW ctx, TableOf(ctx, P)
    PROVE  TableOf(PropagateMatch(ctx, Len(P), distance, length), r)
<1> DEFINE dst == Len(P)
           src == dst - distance
           ms == ctx.markers
           ls == ctx.live_start
<1>1. /\ r \in Seq(Cell) /\ Len(r) = dst + length /\ dst \in Nat
      /\ \A i \in 1 .. dst : r[i] = P[i]
      /\ \A i \in dst + 1 .. dst + length : r[i] = r[i - distance]
      /\ distance \in 1 .. dst /\ distance \in 1 .. Len(P) /\ src \in Nat /\ Len(P) <= Len(r)
      /\ Window \in Nat
  BY Constants DEF IsCopy
<1>2. ms = ExtractMarkers(P, 0) /\ ctx.max_marker_pos = LastPos(ms) /\ ls \in 0 .. Len(ms)
      /\ \A h \in 1 .. ls : ms[h].out_pos + Window < dst
  BY DEF TableOf
<1>3. ms \in Seq(Notes) /\ Sorted(ms) /\ Lists(ms, P, 0, Len(P))
  BY <1>2, ExtractShape
<1> HIDE DEF ms, ls
<1>4. /\ \A j \in 1 .. Len(ms) : ms[j].out_pos \in 0 .. dst - 1
      /\ \A p \in 0 .. dst - 1 :
            IsMarker(P[p + 1]) => \E j \in 1 .. Len(ms) : ms[j].out_pos = p
      /\ LastPos(ms) \in Int /\ \A j \in 1 .. Len(ms) : ms[j].out_pos <= LastPos(ms)
  <2>1. Len(P) \in 0 .. Len(P)
    BY <1>1
  <2> QED BY <1>3, <2>1, ListLookup
<1>5. /\ ExtractMarkers(r, 0) \in Seq(Notes) /\ Len(ms) <= Len(ExtractMarkers(r, 0))
      /\ \A j \in 1 .. Len(ms) : ExtractMarkers(r, 0)[j] = ms[j]
  BY <1>1, <1>2, MarkersContinue
<1>6. CASE ctx.max_marker_pos = None \/ src > ctx.max_marker_pos
  <2>1. PropagateMatch(ctx, dst, distance, length) = ctx
    BY <1>6 DEF PropagateMatch
  <2>2. LastPos(ms) < src
    BY <1>1, <1>2, <1>4, <1>6 DEF None
  <2>3. \A i \in Len(P) - distance + 1 .. Len(P) : ~IsMarker(P[i])
    <3> TAKE i \in Len(P) - distance + 1 .. Len(P)
    <3>1. SUFFICES ASSUME IsMarker(P[i]) PROVE FALSE
      OBVIOUS
    <3>2. i - 1 \in 0 .. dst - 1 /\ (i - 1) + 1 = i /\ i - 1 >= src
      BY <1>1
    <3>3. PICK j \in 1 .. Len(ms) : ms[j].out_pos = i - 1
      BY <1>4, <3>1, <3>2
    <3>4. i - 1 <= LastPos(ms)
      BY <1>4, <3>3
    <3> QED BY <1>1, <1>4, <2>2, <3>2, <3>4
  <2>4. ExtractMarkers(r, 0) = ms
    BY <1>1, <1>2, <2>3, NothingCopied
  <2>5. \A h \in 1 .. ls : ms[h].out_pos + Window < Len(r)
    <3> TAKE h \in 1 .. ls
    <3>1. h \in 1 .. Len(ms) /\ ms[h].out_pos + Window < dst
      BY <1>2, <1>3
    <3>2. ms[h].out_pos \in Int
      BY <1>4, <3>1
    <3> QED BY <1>1, <3>1, <3>2
  <2>6. ctx \in TableState
    BY DEF TableOf
  <2> QED BY <1>2, <2>1, <2>4, <2>5, <2>6 DEF TableOf, ms, ls
<1>7. CASE ~(ctx.max_marker_pos = None \/ src > ctx.max_marker_pos)
  <2> DEFINE live == SeekMarker(ms, ls, LiveFloor(dst))
             c0 == SeekMarker(ms, live, src)
             start == [markers |-> ms, max |-> ctx.max_marker_pos, going |-> TRUE,
                       cursor |-> c0]
  <2>1. PICK g : /\ IsWalk(g, start, src, dst, length)
                 /\ PropagateMatch(ctx, dst, distance, length) =
                      [markers |-> g[length].markers,
                       max_marker_pos |-> g[length].max, live_start |-> live]
    BY <1>1, <1>7, PropagateWalks DEF ms, ls
  <2>2. LiveFloor(dst) \in Int /\ (dst > Window => LiveFloor(dst) = dst - Window)
        /\ (~(dst > Window) => LiveFloor(dst) = 0)
    BY <1>1 DEF LiveFloor
  <2>3. live \in ls .. Len(ms) /\ \A h \in ls .. live - 1 : ms[h + 1].out_pos < LiveFloor(dst)
    BY <1>2, <1>3, <2>2, SeekShape
  <2> HIDE DEF live
  <2>4. Len(ms) \in Nat /\ ls \in Nat /\ live \in 0 .. Len(ms)
    BY <1>2, <1>3, <2>3
  <2>5. \A h \in 1 .. live : ms[h].out_pos \in Nat /\ ms[h].out_pos + Window < dst
    <3> TAKE h \in 1 .. live
    <3>1. h \in 1 .. Len(ms)
      BY <2>4
    <3>2. ms[h].out_pos \in Nat
      BY <1>1, <1>4, <3>1
    <3>3. CASE h <= ls
      <4>1. h \in 1 .. ls
        BY <2>4, <3>3
      <4> QED BY <1>2, <3>2, <4>1
    <3>4. CASE ~(h <= ls)
      <4>1. h - 1 \in ls .. live - 1 /\ (h - 1) + 1 = h
        BY <2>4, <3>4
      <4>2. ms[h].out_pos < LiveFloor(dst)
        BY <2>3, <4>1
      <4> QED BY <1>1, <2>2, <3>2, <4>2
    <3> QED BY <3>3, <3>4
  <2>6. c0 \in live .. Len(ms) /\ \A h \in live .. c0 - 1 : ms[h + 1].out_pos < src
    <3>1. src \in Int
      BY <1>1
    <3> HIDE DEF src
    <3> QED BY <1>3, <2>4, <3>1, SeekShape
  <2> HIDE DEF c0
  <2>7. c0 \in Nat /\ c0 <= Len(ms)
    BY <2>4, <2>6
  <2>8. \A j \in 1 .. c0 : ms[j].out_pos < src
    <3> TAKE j \in 1 .. c0
    <3>1. CASE j <= live
      <4>1. j \in 1 .. live
        BY <2>4, <3>1
      <4>2. ms[j].out_pos \in Nat /\ ms[j].out_pos + Window < dst
        BY <2>5, <4>1
      <4> QED BY <1>1, <4>2
    <3>2. CASE ~(j <= live)
      <4>1. j - 1 \in live .. c0 - 1 /\ (j - 1) + 1 = j
        BY <2>4, <2>7, <3>2
      <4> QED BY <2>6, <4>1
    <3> QED BY <3>1, <3>2
  <2>9. PICK f : IsRecord(f, r, 0) /\ ExtractMarkers(r, 0) = f[Len(r)]
    BY <1>1, RecordExists
  <2>10. PICK f0 : IsRecord(f0, P, 0) /\ ExtractMarkers(P, 0) = f0[Len(P)]
    BY RecordExists
  <2>11. f[dst] = ms
    <3>1. SameUpTo(P, r, dst)
      BY <1>1 DEF SameUpTo
    <3>2. f0[dst] = f[dst]
      BY <1>1, <2>9, <2>10, <3>1, RecordAgrees
    <3> QED BY <1>2, <2>10, <3>2
  <2>12. WalkAt(start, f[dst], src)
    <3>1. start \in WalkState
      BY <1>2, <1>3, <1>4, <2>7 DEF WalkState
    <3>2. start.markers = ms /\ start.max = LastPos(ms) /\ start.going = TRUE /\ start.cursor = c0
      BY <1>2
    <3> HIDE DEF start
    <3> QED BY <2>7, <2>8, <2>11, <3>1, <3>2 DEF WalkAt
  <2> HIDE DEF start
  <2>13. Repeats(r, dst, distance, length)
    <3> HIDE DEF dst, src
    <3>2. SUFFICES ASSUME NEW k \in 0 .. length - 1
                   PROVE  r[dst + k + 1] = r[dst + k + 1 - distance]
      BY DEF Repeats
    <3>1. dst + k + 1 \in dst + 1 .. dst + length
      BY <1>1
    <3> QED BY <1>1, <3>1
  <2>14. g[length].markers = f[dst + length] /\ g[length].max = LastPos(f[dst + length])
    <3>1. dst \in Nat /\ distance \in 1 .. dst /\ Len(r) = dst + length
      BY <1>1
    <3>2. WalkAt(start, f[dst], dst - distance) /\ IsWalk(g, start, dst - distance, dst, length)
      BY <2>1, <2>12
    <3> HIDE DEF dst
    <3> QED BY <1>1, <2>9, <2>13, <3>1, <3>2, WalkEnds
  <2> DEFINE em == ExtractMarkers(r, 0)
             t == PropagateMatch(ctx, dst, distance, length)
  <2>15. t.markers = em /\ t.max_marker_pos = LastPos(em) /\ t.live_start = live
    <3>1. f[dst + length] = em
      BY <1>1, <2>9
    <3> HIDE DEF em
    <3> QED BY <2>1, <2>14, <3>1
  <2>20. t \in TableState
    <3>1. f[dst + length] = em /\ em \in Seq(Notes)
      BY <1>1, <1>5, <2>9
    <3>3. Sorted(em) /\ Lists(em, r, 0, Len(r))
      BY <1>1, ExtractShape
    <3> HIDE DEF em
    <3>2. LastPos(em) \in Int
      <4>1. Len(r) \in 0 .. Len(r)
        BY <1>1
      <4> QED BY <1>1, <3>1, <3>3, <4>1, ListLookup
    <3>4. t = [markers |-> em, max_marker_pos |-> LastPos(em), live_start |-> live]
      BY <2>1, <2>14, <3>1
    <3>5. live \in Nat
      BY <2>4
    <3> HIDE DEF t
    <3> QED BY <3>1, <3>2, <3>4, <3>5 DEF TableState
  <2> HIDE DEF t
  <2>16. live \in 0 .. Len(em)
    <3>1. Len(em) \in Nat /\ Len(ms) <= Len(em)
      BY <1>5
    <3> QED BY <2>4, <3>1
  <2>17. \A h \in 1 .. live : em[h].out_pos + Window < Len(r)
    <3> TAKE h \in 1 .. live
    <3>1. h \in 1 .. Len(ms)
      BY <2>4
    <3>2. em[h] = ms[h]
      BY <1>5, <3>1
    <3>3. ms[h].out_pos \in Nat /\ ms[h].out_pos + Window < dst
      BY <2>5
    <3> HIDE DEF em
    <3> QED BY <1>1, <3>2, <3>3
  <2> HIDE DEF em
  <2>18. t.markers = ExtractMarkers(r, 0)
    BY <2>15 DEF em
  <2>19. TableOf(t, r)
    BY <2>15, <2>16, <2>17, <2>18, <2>20 DEF TableOf
  <2> QED BY <2>19 DEF t
<1> QED BY <1>6, <1>7

\* record_match_prefix: the side table of the cells and a match's prefix.
LEMMA Records ==
    ASSUME NEW c \in Seq(Cell), NEW distance \in 1 .. Window, NEW length \in Nat,
           NEW ctx, TableOf(ctx, c)
    PROVE  LET count == PrefixCount(distance, Len(c), length) IN
           TableOf(RecordMatchPrefix(ctx, Len(c), distance, count),
                   c \o Offsets(Len(c), distance, count))
<1> DEFINE w == Len(c)
           count == PrefixCount(distance, w, length)
           offs == Offsets(w, distance, count)
           P == c \o offs
           a == ExtractMarkers(c, 0)
           e == [k \in 1 .. count |-> [out_pos |-> w + k - 1,
                                       prefix_offset |-> PrefixOffset(distance, w, k - 1)]]
           t == RecordMatchPrefix(ctx, w, distance, count)
<1>1. w \in Nat /\ Window \in Nat /\ MARKER16 \in Int /\ 0 + w = w
  BY Constants
<1>2. /\ count \in 0 .. length /\ offs \in Seq(Cell) /\ Len(offs) = count
      /\ \A k \in 1 .. count : IsMarker(offs[k])
  BY <1>1, OffsetsType
<1>3. \A k \in 1 .. count : offs[k] = MARKER16 + PrefixOffset(distance, w, k - 1)
  BY DEF Offsets
<1>4. /\ ctx \in TableState /\ ctx.markers = a /\ ctx.max_marker_pos = LastPos(a)
      /\ ctx.live_start \in 0 .. Len(a) /\ \A h \in 1 .. ctx.live_start : a[h].out_pos + Window < w
  BY DEF TableOf
<1>5. t = [ctx EXCEPT !.markers = @ \o e,
                      !.max_marker_pos = IF count > 0 THEN w + count - 1 ELSE @]
  BY DEF RecordMatchPrefix
<1> HIDE DEF count, offs, t, w
<1>6. \A k \in 1 .. count : Note(offs, w, k) = e[k] /\ e[k] \in Notes /\ e[k].out_pos = w + k - 1
  <2> TAKE k \in 1 .. count
  <2>1. PrefixOffset(distance, w, k - 1) \in Int
    BY <1>1, <1>2 DEF PrefixOffset
  <2>2. offs[k] - MARKER16 = PrefixOffset(distance, w, k - 1)
    BY <1>1, <1>3, <2>1
  <2>3. e[k] = [out_pos |-> w + k - 1, prefix_offset |-> PrefixOffset(distance, w, k - 1)]
    OBVIOUS
  <2>4. w + k - 1 \in Int
    BY <1>1
  <2> HIDE DEF e
  <2> QED BY <2>1, <2>2, <2>3, <2>4 DEF Note, Notes
<1>7. ExtractMarkers(offs, 0 + w) = e
  <2>1. \A i \in 1 .. Len(offs) : IsMarker(offs[i])
    BY <1>2
  <2>2. ExtractMarkers(offs, w) = [k \in 1 .. Len(offs) |-> Note(offs, w, k)]
    BY <1>1, <1>2, <2>1, ExtractAll
  <2>3. [k \in 1 .. Len(offs) |-> Note(offs, w, k)] = e
    <3>1. \A k \in 1 .. count : Note(offs, w, k) = [out_pos |-> w + k - 1,
                                       prefix_offset |-> PrefixOffset(distance, w, k - 1)]
      BY <1>6
    <3> QED BY <1>2, <3>1
  <2> QED BY <1>1, <2>2, <2>3
<1>8. e \in Seq(Notes) /\ Len(e) = count
  <2>1. \A k \in 1 .. count : e[k] \in Notes
    BY <1>6
  <2>2. e = [k \in 1 .. count |-> e[k]] /\ count \in Nat
    BY <1>2
  <2> HIDE DEF e
  <2> QED BY <2>1, <2>2
<1> HIDE DEF e
<1>9. ExtractMarkers(P, 0) = a \o e /\ a \in Seq(Notes)
  <2>1. ExtractMarkers(P, 0) = a \o ExtractMarkers(offs, 0 + w) /\ a \in Seq(Notes)
    BY <1>2, ExtractConcat DEF w
  <2> QED BY <1>7, <2>1
<1>10. Sorted(a) /\ Lists(a, c, 0, w)
  BY ExtractShape DEF w
<1> HIDE DEF a
<1>11. /\ a \o e \in Seq(Notes) /\ Len(a \o e) = Len(a) + Len(e)
       /\ \A j \in 1 .. Len(a) : (a \o e)[j] = a[j]
       /\ \A j \in Len(a) + 1 .. Len(a) + Len(e) : (a \o e)[j] = e[j - Len(a)]
  <2>1. a \in Seq(Notes) /\ e \in Seq(Notes)
    BY <1>8, <1>9
  <2> QED BY <2>1, ConcatProperties
<1>12. Len(P) = w + count /\ P \in Seq(Cell)
  <2>1. c \in Seq(Cell) /\ offs \in Seq(Cell)
    BY <1>2
  <2>2. P \in Seq(Cell) /\ Len(P) = Len(c) + Len(offs)
    BY <2>1, ConcatProperties
  <2> QED BY <1>2, <2>2 DEF w
<1> DEFINE b == a \o e
<1> HIDE DEF P, b
<1>13. \A j \in 1 .. Len(a) : a[j].out_pos \in Nat
  <2>1. w \in 0 .. Len(c)
    BY <1>1 DEF w
  <2>2. \A j \in 1 .. Len(a) : a[j].out_pos \in 0 .. w - 1
    BY <1>9, <1>10, <2>1, ListLookup
  <2> QED BY <1>1, <2>2
<1>14. LastPos(b) = IF count > 0 THEN w + count - 1 ELSE LastPos(a)
  <2>1. CASE count = 0
    <3>1. e = <<>>
      BY <1>8, <2>1
    <3>2. b = a
      BY <1>9, <3>1, ConcatEmptySeq DEF b
    <3> QED BY <2>1, <3>2
  <2>2. CASE count > 0
    <3>1. Len(a) \in Nat /\ count \in Nat /\ Len(b) = Len(a) + count
      BY <1>2, <1>8, <1>9, <1>11 DEF b
    <3>2. b # <<>>
      BY <2>2, <3>1
    <3>3. Len(b) \in Len(a) + 1 .. Len(a) + Len(e) /\ Len(b) - Len(a) = count /\ count \in 1 .. count
      BY <1>8, <2>2, <3>1
    <3>4. b[Len(b)] = e[count]
      BY <1>11, <3>3 DEF b
    <3> QED BY <1>6, <2>2, <3>2, <3>3, <3>4 DEF LastPos
  <2> QED BY <1>2, <2>1, <2>2
<1>15. /\ t \in TableState /\ t.markers = b /\ t.max_marker_pos = LastPos(b)
       /\ t.live_start = ctx.live_start
  <2>1. LastPos(b) \in Int
    <3>1. LastPos(a) \in Int
      BY <1>4 DEF TableState
    <3> QED BY <1>1, <1>2, <1>14, <3>1
  <2>2. b \in Seq(Notes)
    BY <1>11 DEF b
  <2>3. ctx.markers \o e = b
    BY <1>4 DEF b
  <2>4. t = [ctx EXCEPT !.markers = b, !.max_marker_pos = LastPos(b)]
    BY <1>4, <1>5, <1>14, <2>3
  <2> QED BY <1>4, <2>1, <2>2, <2>4 DEF TableState
<1>16. t.markers = ExtractMarkers(P, 0)
  BY <1>9, <1>15 DEF b
<1>17. t.live_start \in 0 .. Len(b)
  <2>1. Len(b) = Len(a) + Len(e) /\ Len(a) \in Nat /\ Len(e) \in Nat
    BY <1>8, <1>9, <1>11 DEF b
  <2> QED BY <1>4, <1>15, <2>1
<1>18. \A h \in 1 .. t.live_start : b[h].out_pos + Window < Len(P)
  <2> TAKE h \in 1 .. t.live_start
  <2>1. h \in 1 .. ctx.live_start /\ h \in 1 .. Len(a)
    BY <1>4, <1>9, <1>15
  <2>2. b[h] = a[h] /\ a[h].out_pos \in Nat /\ a[h].out_pos + Window < w
    BY <1>4, <1>11, <1>13, <2>1 DEF b
  <2> QED BY <1>1, <1>2, <1>12, <2>2
<1>19. TableOf(t, P)
  BY <1>15, <1>16, <1>17, <1>18 DEF TableOf
<1> QED BY <1>19 DEF t, P, count, offs, w

\* decode_compressed::<true>: after a match the bytes and the side table are
\* those of the cells.
LEMMA TableFollows ==
    ASSUME NEW c \in Seq(Cell), NEW distance \in 1 .. Window, NEW length \in Nat,
           tbytes = ExtractBytes(c), TableOf(table, c), TableMatch(distance, length)
    PROVE  LET r == CellMatch(c, distance, length) IN
           tbytes' = ExtractBytes(r) /\ TableOf(table', r)
<1> DEFINE w == Len(c)
           count == PrefixCount(distance, w, length)
           offs == Offsets(w, distance, count)
           P == c \o offs
           r == CellMatch(c, distance, length)
           rec == RecordMatchPrefix(table, w, distance, count)
<1>1. Len(tbytes) = w /\ w \in Nat /\ Window \in Nat
  BY BytesShape, Constants
<1>2. /\ tbytes' = CopyBack(tbytes \o [k \in 1 .. count |-> 0], distance, length - count)
      /\ table' = IF length - count = 0 THEN rec
                  ELSE PropagateMatch(rec, w + count, distance, length - count)
  BY <1>1 DEF TableMatch
<1>3. count \in 0 .. length /\ offs \in Seq(Cell) /\ Len(offs) = count
  BY <1>1, OffsetsType
<1>4. P \in Seq(Cell) /\ Len(P) = w + count
  <2>1. c \in Seq(Cell) /\ offs \in Seq(Cell)
    BY <1>3
  <2> HIDE DEF offs, count
  <2>2. P \in Seq(Cell) /\ Len(P) = Len(c) + Len(offs)
    BY <2>1, ConcatProperties
  <2> QED BY <1>3, <2>2
<1>5. r = CopyBack(P, distance, length - count)
  BY DEF CellMatch
<1>6. TableOf(rec, P)
  BY Records
<1>7. tbytes' = ExtractBytes(r)
  <2>1. IsCellMatch(r, c, distance, length)
    BY CellMatchShape
  <2> HIDE DEF r
  <2> QED BY <1>2, <2>1, BytesMatch
<1>8. TableOf(table', r)
  <2> DEFINE n == length - count
  <2>1. n \in Nat /\ distance \in Nat \ {0}
    BY <1>1, <1>3
  <2>2. /\ distance <= w => count = 0
        /\ distance > w /\ distance - w <= length => count = distance - w
        /\ distance > w /\ distance - w > length => count = length
    BY <1>1, <2>1, PrefixCountValue
  <2> HIDE DEF r, rec, P, offs, count
  <2>3. CASE n = 0
    <3>1. r = P
      BY <1>4, <1>5, <2>1, <2>3, CopyBackNothing
    <3> QED BY <1>2, <1>6, <2>3, <3>1
  <2>4. CASE n # 0
    <3>1. distance <= Len(P)
      <4> HIDE DEF w
      <4> QED BY <1>1, <1>3, <1>4, <2>1, <2>2, <2>4
    <3>2. IsCopy(r, Cell, P, distance, n)
      <4> HIDE DEF n
      <4>1. r = CopyBack(P, distance, n)
        BY <1>5 DEF n
      <4> QED BY <1>4, <2>1, <3>1, <4>1, CopyBackShape
    <3>3. TableOf(PropagateMatch(rec, Len(P), distance, n), r)
      <4> HIDE DEF n
      <4> QED BY <1>4, <1>6, <2>1, <3>1, <3>2, Propagates
    <3> QED BY <1>2, <1>4, <2>4, <3>3
  <2> QED BY <2>3, <2>4
<1> QED BY <1>7, <1>8

-----------------------------------------------------------------------------
(* The invariant.  `older' are the cells that have left the window: they are  *)
(* no variable, and determine every one together with the cells in it.        *)

\* No later copy reaches a marker of c.
EndsInBytes(c) ==
    Len(c) >= Window /\ \A i \in Len(c) - Window + 1 .. Len(c) : ~IsMarker(c[i])

Represents(older) ==
    /\ older \in Seq(Cell) /\ scratch \in Seq(Cell)
    /\ Len(older) + Len(scratch) <= MaxOut
    /\ bytes = ExtractBytes(older) /\ markers = ExtractMarkers(older, 0)
    /\ windowBase \in 0 .. Len(older)
    /\ phase = 1 /\ status = "decoding" => windowBase = Len(older)
    /\ phase = 2 => scratch = <<>> /\ EndsInBytes(older)
    /\ status = "decoded" => scratch = <<>>
    /\ direct = Seen(older \o scratch)
    /\ tbytes = ExtractBytes(older \o scratch)
    /\ TableOf(table, older \o scratch)

Static ==
    /\ tail \in Seq(Byte) /\ Len(tail) <= Window
    /\ stored \in BOOLEAN /\ phase \in {1, 2}
    /\ status \in {"decoding", "decoded", "resolved", "error"}

MarkersInv ==
    /\ Static /\ WindowBounded
    /\ \/ status \in {"decoding", "decoded"} /\ \E older : Represents(older)
       \/ status \in {"resolved", "error"} /\ TypeOK /\ ResolvedIsDirect

\* A literal appends one cell.
LEMMA LiteralFollows ==
    ASSUME tail \in Seq(Byte), NEW c \in Seq(Cell), NEW v \in Byte
    PROVE  LET r == Append(c, v) IN
           /\ r \in Seq(Cell) /\ Len(r) = Len(c) + 1
           /\ ExtractBytes(r) = Append(ExtractBytes(c), v)
           /\ ExtractMarkers(r, 0) = ExtractMarkers(c, 0)
           /\ Seen(r) = Append(Seen(c), v)
           /\ EndsInBytes(c) => EndsInBytes(r)
           /\ \A ctx : TableOf(ctx, c) => TableOf(ctx, r)
<1> DEFINE r == Append(c, v)
           n == Len(c)
<1>1. v \in Cell /\ ~IsMarker(v) /\ n \in Nat /\ Window \in Nat /\ Window >= 1
  BY CellKinds, Constants
<1>2. r \in Seq(Cell) /\ Len(r) = n + 1 /\ r[n + 1] = v /\ \A i \in 1 .. n : r[i] = c[i]
  BY <1>1, AppendProperties
<1> HIDE DEF r
<1>3. /\ ExtractBytes(c) \in Seq(Byte) /\ Len(ExtractBytes(c)) = n
      /\ \A i \in 1 .. n : ExtractBytes(c)[i] = IF IsMarker(c[i]) THEN 0 ELSE c[i]
  BY BytesShape
<1>4. /\ ExtractBytes(r) \in Seq(Byte) /\ Len(ExtractBytes(r)) = n + 1
      /\ \A i \in 1 .. n + 1 : ExtractBytes(r)[i] = IF IsMarker(r[i]) THEN 0 ELSE r[i]
  BY <1>2, BytesShape
<1>5. /\ Seen(c) \in Seq(OutByte) /\ Len(Seen(c)) = n
      /\ \A i \in 1 .. n : Seen(c)[i] = IF IsMarker(c[i]) THEN TailByte(c[i] - MARKER16) ELSE c[i]
  BY SeenShape
<1>6. /\ Seen(r) \in Seq(OutByte) /\ Len(Seen(r)) = n + 1
      /\ \A i \in 1 .. n + 1 :
            Seen(r)[i] = IF IsMarker(r[i]) THEN TailByte(r[i] - MARKER16) ELSE r[i]
  BY <1>2, SeenShape
<1>7. \A i \in 1 .. n + 1 : i = n + 1 \/ i \in 1 .. n
  BY <1>1
<1>8. ExtractBytes(r) = Append(ExtractBytes(c), v)
  <2> DEFINE a == ExtractBytes(c)
             b == ExtractBytes(r)
  <2>1. a \in Seq(Byte) /\ b \in Seq(Byte) /\ Len(a) = n /\ Len(b) = n + 1
    BY <1>3, <1>4
  <2>2. \A i \in 1 .. n : b[i] = a[i]
    BY <1>2, <1>3, <1>4
  <2>3. b[n + 1] = v
    BY <1>1, <1>2, <1>4
  <2> HIDE DEF a, b, n
  <2>5. /\ Append(a, v) \in Seq(Byte) /\ Len(Append(a, v)) = n + 1 /\ Append(a, v)[n + 1] = v
        /\ \A i \in 1 .. n : Append(a, v)[i] = a[i]
    BY <2>1, AppendProperties
  <2>6. \A i \in 1 .. Len(b) : b[i] = Append(a, v)[i]
    BY <1>7, <2>1, <2>2, <2>3, <2>5
  <2>4. b = Append(a, v)
    BY <2>1, <2>5, <2>6, SeqEqual
  <2> QED BY <2>4 DEF a, b
<1>9. Seen(r) = Append(Seen(c), v)
  <2> DEFINE a == Seen(c)
             b == Seen(r)
  <2>1. a \in Seq(OutByte) /\ b \in Seq(OutByte) /\ Len(a) = n /\ Len(b) = n + 1 /\ v \in OutByte
    BY <1>5, <1>6 DEF OutByte
  <2>2. \A i \in 1 .. n : b[i] = a[i]
    <3> HIDE DEF n
    <3> QED BY <1>2, <1>5, <1>6
  <2>3. b[n + 1] = v
    BY <1>1, <1>2, <1>6
  <2> HIDE DEF a, b, n
  <2>5. /\ Append(a, v) \in Seq(OutByte) /\ Len(Append(a, v)) = n + 1 /\ Append(a, v)[n + 1] = v
        /\ \A i \in 1 .. n : Append(a, v)[i] = a[i]
    BY <2>1, AppendProperties
  <2>6. \A i \in 1 .. Len(b) : b[i] = Append(a, v)[i]
    BY <1>7, <2>1, <2>2, <2>3, <2>5
  <2>4. b = Append(a, v)
    BY <2>1, <2>5, <2>6, SeqEqual
  <2> QED BY <2>4 DEF a, b
<1>10. ExtractMarkers(r, 0) = ExtractMarkers(c, 0)
  <2>1. PICK f : IsRecord(f, r, 0) /\ ExtractMarkers(r, 0) = f[Len(r)]
    BY <1>2, RecordExists
  <2>2. PICK f0 : IsRecord(f0, c, 0) /\ ExtractMarkers(c, 0) = f0[Len(c)]
    BY RecordExists
  <2>3. SameUpTo(c, r, n)
    BY <1>1, <1>2 DEF SameUpTo
  <2>4. f0[n] = f[n]
    BY <1>1, <1>2, <2>1, <2>2, <2>3, RecordAgrees
  <2>5. f[n + 1] = f[n]
    <3>1. n + 1 \in 1 .. Len(r) /\ (n + 1) - 1 = n
      BY <1>1, <1>2
    <3> QED BY <1>1, <1>2, <2>1, <3>1 DEF IsRecord
  <2> QED BY <1>2, <2>1, <2>2, <2>4, <2>5
<1>11. EndsInBytes(c) => EndsInBytes(r)
  <2>1. SUFFICES ASSUME EndsInBytes(c) PROVE EndsInBytes(r)
    OBVIOUS
  <2>2. Len(r) >= Window
    BY <1>1, <1>2, <2>1 DEF EndsInBytes
  <2>3. \A i \in Len(r) - Window + 1 .. Len(r) : ~IsMarker(r[i])
    <3> TAKE i \in Len(r) - Window + 1 .. Len(r)
    <3>1. CASE i = n + 1
      BY <1>1, <1>2, <3>1
    <3>2. CASE i # n + 1
      <4>1. i \in Len(c) - Window + 1 .. Len(c) /\ i \in 1 .. n
        BY <1>1, <1>2, <2>1, <3>2 DEF EndsInBytes
      <4> QED BY <1>2, <2>1, <4>1 DEF EndsInBytes
    <3> QED BY <3>1, <3>2
  <2> QED BY <2>2, <2>3 DEF EndsInBytes
<1>12. ASSUME NEW ctx, TableOf(ctx, c) PROVE TableOf(ctx, r)
  <2>1. /\ ctx \in TableState /\ ctx.markers = ExtractMarkers(r, 0)
        /\ ctx.max_marker_pos = LastPos(ctx.markers)
        /\ ctx.live_start \in 0 .. Len(ctx.markers)
        /\ \A h \in 1 .. ctx.live_start : ctx.markers[h].out_pos + Window < n
    BY <1>10, <1>12 DEF TableOf
  <2>2. \A h \in 1 .. ctx.live_start : ctx.markers[h].out_pos + Window < Len(r)
    <3> TAKE h \in 1 .. ctx.live_start
    <3>1. ctx.markers \in Seq(Notes) /\ h \in 1 .. Len(ctx.markers)
      BY <2>1 DEF TableState
    <3>2. ctx.markers[h] \in Notes
      BY <3>1
    <3>3. ctx.markers[h].out_pos \in Int /\ ctx.markers[h].out_pos + Window < n
      BY <2>1, <3>2 DEF Notes
    <3> QED BY <1>1, <1>2, <3>3
  <2> QED BY <2>1, <2>2 DEF TableOf
<1> QED BY <1>2, <1>8, <1>9, <1>10, <1>11, <1>12 DEF r

-----------------------------------------------------------------------------
(* The steps. *)

\* A chunk is seen alike as long as the tail is the same.
LEMMA SeenAlike ==
    ASSUME tail' = tail, NEW c, NEW o, o \o scratch' = c
    PROVE  Seen(o \o scratch)' = Seen(c)
  BY DEF Seen, TailByte

\* After a symbol of phase 1 the cells are r.
LEMMA CellStep ==
    ASSUME NEW older, Represents(older), phase = 1, status = "decoding",
           status' = status, tail' = tail,
           NEW new \in Seq(Cell), U16Symbol(new),
           NEW r \in Seq(Cell), r = (older \o FlushedCells) \o new, Len(r) <= MaxOut,
           direct' = Seen(r), tbytes' = ExtractBytes(r), TableOf(table', r)
    PROVE  \E o : Represents(o)'
<1>1. /\ older \in Seq(Cell) /\ scratch \in Seq(Cell)
      /\ bytes = ExtractBytes(older) /\ markers = ExtractMarkers(older, 0)
      /\ windowBase = Len(older)
  BY DEF Represents
<1>2. FlushedCells \in Seq(Cell)
  BY <1>1, FlushShape
<1>3. PICK fl \in Seq(Cell) : fl = FlushedCells
  BY <1>2
<1>4. PICK o : o = older \o fl
  OBVIOUS
<1>5. o \in Seq(Cell) /\ Len(o) = Len(older) + Len(fl)
  BY <1>1, <1>3, <1>4, ConcatProperties
<1>6. r = o \o new
  BY <1>3, <1>4
<1>7. Len(r) = Len(o) + Len(new)
  BY <1>5, <1>6, ConcatProperties
<1>8. /\ phase' = 1 /\ scratch' = new /\ windowBase' = windowBase + Len(fl)
      /\ bytes' = bytes \o ExtractBytes(fl)
      /\ markers' = markers \o ExtractMarkers(fl, Len(bytes))
  BY <1>3 DEF U16Symbol
<1>9. bytes' = ExtractBytes(o)
  BY <1>1, <1>3, <1>4, <1>8, BytesConcat
<1>10. markers' = ExtractMarkers(o, 0)
  <2>1. Len(bytes) = 0 + Len(older)
    BY <1>1, BytesShape
  <2>2. ExtractMarkers(o, 0) = ExtractMarkers(older, 0) \o ExtractMarkers(fl, 0 + Len(older))
    BY <1>1, <1>3, <1>4, ExtractConcat
  <2> QED BY <1>1, <1>8, <2>1, <2>2
<1>11. windowBase' = Len(o) /\ Len(o) \in Nat
  BY <1>1, <1>3, <1>5, <1>8
<1>12. o \o scratch' = r
  BY <1>6, <1>8
<1>13. direct' = Seen(o \o scratch)'
  BY <1>12, SeenAlike
<1>14. Len(o) + Len(scratch') <= MaxOut
  BY <1>7, <1>8
<1>15. Represents(o)'
  <2>1. windowBase' \in 0 .. Len(o) /\ scratch' \in Seq(Cell) /\ status' # "decoded" /\ phase' # 2
    BY <1>8, <1>11
  <2>2. tbytes' = ExtractBytes(o \o scratch') /\ TableOf(table', o \o scratch')
    BY <1>12
  <2> QED BY <1>5, <1>9, <1>10, <1>11, <1>13, <1>14, <2>1, <2>2 DEF Represents
<1> QED BY <1>15

\* After a symbol of phase 2 the cells, all of which have left the window,
\* are r.
LEMMA ByteStep ==
    ASSUME NEW older, Represents(older), phase = 2, status = "decoding",
           status' = status, tail' = tail,
           NEW r \in Seq(Cell), Len(r) >= Len(older), Len(r) <= MaxOut,
           ByteSymbol(ExtractBytes(r)),
           ExtractMarkers(r, 0) = ExtractMarkers(older, 0), EndsInBytes(r),
           direct' = Seen(r), tbytes' = ExtractBytes(r), TableOf(table', r)
    PROVE  \E o : Represents(o)'
<1>1. /\ older \in Seq(Cell) /\ scratch = <<>> /\ windowBase \in 0 .. Len(older)
      /\ markers = ExtractMarkers(r, 0)
  BY DEF Represents
<1>2. /\ phase' = 2 /\ scratch' = <<>> /\ windowBase' = windowBase
      /\ bytes' = ExtractBytes(r) /\ markers' = markers
  BY <1>1 DEF ByteSymbol
<1>3. r \o scratch' = r
  BY <1>2, ConcatEmptySeq
<1>4. direct' = Seen(r \o scratch)'
  BY <1>3, SeenAlike
<1>5. Len(r) + Len(scratch') <= MaxOut /\ scratch' \in Seq(Cell) /\ windowBase' \in 0 .. Len(r)
  <2>1. Len(scratch') = 0 /\ scratch' \in Seq(Cell)
    BY <1>2
  <2>2. Len(r) \in Nat /\ Len(older) \in Nat
    BY <1>1
  <2> QED BY <1>1, <1>2, <2>1, <2>2
<1>6. Represents(r)'
  <2>1. status' # "decoded" /\ ~(phase' = 1)
    BY <1>2
  <2>2. tbytes' = ExtractBytes(r \o scratch') /\ TableOf(table', r \o scratch')
    BY <1>3
  <2> QED BY <1>1, <1>2, <1>4, <1>5, <2>1, <2>2 DEF Represents
<1> QED BY <1>6

\* Before the cells of a symbol: what is kept, after what has left the window.
LEMMA BeforeSymbol ==
    ASSUME NEW older, Represents(older)
    PROVE  /\ older \in Seq(Cell) /\ scratch \in Seq(Cell)
           /\ older \o scratch \in Seq(Cell)
           /\ Len(older \o scratch) = Len(older) + Len(scratch)
           /\ older \o FlushedCells \in Seq(Cell)
           /\ Len(older \o FlushedCells) = Len(older) + Len(FlushedCells)
           /\ (older \o FlushedCells) \o Kept = older \o scratch
<1>1. older \in Seq(Cell) /\ scratch \in Seq(Cell)
  BY DEF Represents
<1>2. FlushedCells \in Seq(Cell) /\ Kept \in Seq(Cell) /\ FlushedCells \o Kept = scratch
  BY <1>1, FlushShape
<1>3. older \o scratch \in Seq(Cell) /\ Len(older \o scratch) = Len(older) + Len(scratch)
  BY <1>1, ConcatProperties
<1>4. /\ older \o FlushedCells \in Seq(Cell)
      /\ Len(older \o FlushedCells) = Len(older) + Len(FlushedCells)
  BY <1>1, <1>2, ConcatProperties
<1>5. (older \o FlushedCells) \o Kept = older \o (FlushedCells \o Kept)
  <2>1. \A a, b, c \in Seq(Cell) : (a \o b) \o c = a \o (b \o c)
    BY ConcatAssociative
  <2> QED BY <1>1, <1>2, <2>1
<1> QED BY <1>1, <1>2, <1>3, <1>4, <1>5

\* What is kept is a whole window, once anything has left it.
LEMMA KeptBound ==
    ASSUME WindowBounded, NEW older, Represents(older), phase = 1, status = "decoding"
    PROVE  /\ windowBase + Len(FlushedCells) = Len(older \o FlushedCells)
           /\ Len(older \o FlushedCells) > 0 => Len(Kept) >= Window
           /\ Len(Kept) \in Nat /\ Len(Kept) < FlushAt
           /\ windowBase + Len(FlushedCells) > 0 => Len(Kept) >= Window
<1>1. windowBase = Len(older) /\ older \in Seq(Cell) /\ scratch \in Seq(Cell)
  BY DEF Represents
<1>2. /\ FlushedCells \in Seq(Cell) /\ Kept \in Seq(Cell) /\ Len(Kept) < FlushAt
      /\ NeedsFlush => Len(Kept) = Window
      /\ ~NeedsFlush => FlushedCells = <<>> /\ Kept = scratch
  BY <1>1, FlushShape
<1>3. Len(older \o FlushedCells) = Len(older) + Len(FlushedCells)
  BY BeforeSymbol
<1>4. windowBase + Len(FlushedCells) > 0 => Len(Kept) >= Window
  <2>1. Window \in Nat /\ Len(Kept) \in Nat /\ windowBase \in Nat
    BY <1>1, <1>2, Constants
  <2>2. CASE NeedsFlush
    BY <1>2, <2>1, <2>2
  <2>3. CASE ~NeedsFlush
    <3>1. Len(FlushedCells) = 0 /\ Kept = scratch
      BY <1>2, <2>3
    <3>2. windowBase > 0 => Len(scratch) >= Window
      BY DEF WindowBounded
    <3> QED BY <2>1, <3>1, <3>2
  <2> QED BY <2>2, <2>3
<1> QED BY <1>1, <1>2, <1>3, <1>4

\* In phase 2 nothing is in the window.
LEMMA AllLeft ==
    ASSUME NEW older, Represents(older), phase = 2
    PROVE  older \o scratch = older /\ EndsInBytes(older) /\ scratch = <<>>
  BY ConcatEmptySeq DEF Represents

\* A literal or a stored byte preserves the invariant.
LEMMA LiteralStep ==
    ASSUME Static, WindowBounded, NEW older, Represents(older), Literal
    PROVE  WindowBounded' /\ \E o : Represents(o)'
<1>1. PICK c : c = older \o scratch
  OBVIOUS
<1>2. c \in Seq(Cell) /\ Len(c) = Len(older) + Len(scratch) /\ older \in Seq(Cell)
      /\ scratch \in Seq(Cell)
  BY <1>1, BeforeSymbol
<1>3. direct = Seen(c) /\ tbytes = ExtractBytes(c) /\ TableOf(table, c)
      /\ bytes = ExtractBytes(older)
  BY <1>1 DEF Represents
<1>4. tail \in Seq(Byte) /\ phase \in {1, 2}
  BY DEF Static
<1>5. Len(direct) = Len(c) /\ Len(c) \in Nat
  BY <1>2, <1>3, <1>4, SeenShape
<1>6. PICK v : v = Text[Len(direct) + 1]
  OBVIOUS
<1>7. /\ status = "decoding" /\ Len(direct) < MaxOut
      /\ direct' = Append(direct, v)
      /\ U16Symbol(Append(Kept, v)) \/ ByteSymbol(Append(bytes, v))
      /\ tbytes' = Append(tbytes, v)
      /\ tail' = tail /\ stored' = stored /\ status' = status /\ table' = table
  BY <1>6 DEF Literal
<1>8. v \in Byte
  <2>1. Len(direct) + 1 \in 1 .. MaxOut
    BY <1>5, <1>7, Constants
  <2> QED BY <1>6, <2>1, MarkersAssumption
<1>9. PICK r : r = Append(c, v)
  OBVIOUS
<1>10. /\ r \in Seq(Cell) /\ Len(r) = Len(c) + 1
       /\ ExtractBytes(r) = Append(ExtractBytes(c), v)
       /\ ExtractMarkers(r, 0) = ExtractMarkers(c, 0)
       /\ Seen(r) = Append(Seen(c), v)
       /\ EndsInBytes(c) => EndsInBytes(r)
       /\ TableOf(table, r)
  BY <1>2, <1>3, <1>4, <1>8, <1>9, LiteralFollows
<1>11. /\ direct' = Seen(r) /\ tbytes' = ExtractBytes(r) /\ TableOf(table', r)
       /\ Len(r) <= MaxOut
  BY <1>3, <1>5, <1>7, <1>10, Constants
<1>12. CASE U16Symbol(Append(Kept, v))
  <2>1. phase = 1
    BY <1>12 DEF U16Symbol
  <2>2. /\ Kept \in Seq(Cell) /\ FlushedCells \in Seq(Cell) /\ v \in Cell
        /\ older \o FlushedCells \in Seq(Cell)
        /\ (older \o FlushedCells) \o Kept = c
    BY <1>1, <1>2, <1>8, FlushShape, BeforeSymbol, CellKinds
  <2>3. PICK new : new = Append(Kept, v)
    OBVIOUS
  <2>4. new \in Seq(Cell) /\ Len(new) = Len(Kept) + 1
    BY <2>2, <2>3, AppendProperties
  <2>5. r = (older \o FlushedCells) \o new
    <3>1. JoinsAppend(older \o FlushedCells, Kept, v)
      BY <2>2, AppendConcat
    <3> QED BY <1>9, <2>2, <2>3, <3>1 DEF JoinsAppend
  <2>6. U16Symbol(new)
    BY <1>12, <2>3
  <2>7. \E o : Represents(o)'
    BY <1>7, <1>10, <1>11, <2>1, <2>4, <2>5, <2>6, CellStep
  <2>8. WindowBounded'
    <3>1. /\ Len(Kept) \in Nat /\ Len(Kept) < FlushAt
          /\ windowBase + Len(FlushedCells) > 0 => Len(Kept) >= Window
      BY <1>7, <2>1, KeptBound
    <3>2. scratch' = new /\ windowBase' = windowBase + Len(FlushedCells)
      BY <2>6 DEF U16Symbol
    <3>3. Len(scratch') = Len(Kept) + 1
      BY <2>4, <3>2
    <3> QED BY <3>1, <3>2, <3>3, Constants DEF WindowBounded
  <2> QED BY <2>7, <2>8
<1>13. CASE ByteSymbol(Append(bytes, v))
  <2>1. phase = 2 /\ phase' = 2 /\ scratch' = scratch
    BY <1>13 DEF ByteSymbol
  <2>2. c = older /\ EndsInBytes(older)
    BY <1>1, <2>1, AllLeft
  <2>3. ByteSymbol(ExtractBytes(r))
    BY <1>3, <1>10, <1>13, <2>2
  <2>4. Len(r) >= Len(older)
    BY <1>5, <1>10, <2>2
  <2>5. \E o : Represents(o)'
    BY <1>7, <1>10, <1>11, <2>1, <2>2, <2>3, <2>4, ByteStep
  <2> QED BY <2>1, <2>5 DEF WindowBounded
<1> QED BY <1>7, <1>12, <1>13

\* A back-reference preserves the invariant.
LEMMA MatchStep ==
    ASSUME Static, WindowBounded, NEW older, Represents(older),
           NEW distance \in 1 .. Window, NEW length \in 1 .. MaxLen, Match(distance, length)
    PROVE  WindowBounded' /\ \E o : Represents(o)'
<1>1. PICK c : c = older \o scratch
  OBVIOUS
<1>2. c \in Seq(Cell) /\ Len(c) = Len(older) + Len(scratch) /\ older \in Seq(Cell)
      /\ scratch \in Seq(Cell)
  BY <1>1, BeforeSymbol
<1>3. direct = Seen(c) /\ tbytes = ExtractBytes(c) /\ TableOf(table, c)
      /\ bytes = ExtractBytes(older)
  BY <1>1 DEF Represents
<1>4. tail \in Seq(Byte) /\ phase \in {1, 2} /\ length \in Nat
  BY Constants DEF Static
<1>5. Len(direct) = Len(c) /\ Len(c) \in Nat
  BY <1>2, <1>3, <1>4, SeenShape
<1>7. /\ status = "decoding" /\ Len(direct) + length <= MaxOut
      /\ direct' = DirectCopy(distance, length)
      /\ \/ U16Symbol(U16Match(Kept, distance, length))
         \/ ByteSymbol(CopyBack(bytes, distance, length))
      /\ TableMatch(distance, length)
      /\ tail' = tail /\ stored' = stored /\ status' = status
  BY DEF Match
<1>8. PICK r : r = CellMatch(c, distance, length)
  OBVIOUS
<1>9. IsCellMatch(r, c, distance, length)
  BY <1>2, <1>4, <1>8, CellMatchShape
<1>10. r \in Seq(Cell) /\ Len(r) = Len(c) + length
  BY <1>9 DEF IsCellMatch
<1>11. /\ direct' = Seen(r) /\ tbytes' = ExtractBytes(r) /\ TableOf(table', r)
       /\ Len(r) <= MaxOut
  <2>1. direct' = Seen(r)
    BY <1>2, <1>3, <1>4, <1>7, <1>9, DirectMatch
  <2>2. tbytes' = ExtractBytes(r) /\ TableOf(table', r)
    BY <1>2, <1>3, <1>4, <1>7, <1>8, TableFollows
  <2>3. Len(r) <= MaxOut
    BY <1>5, <1>7, <1>10
  <2> QED BY <2>1, <2>2, <2>3
<1>12. CASE U16Symbol(U16Match(Kept, distance, length))
  <2>1. phase = 1
    BY <1>12 DEF U16Symbol
  <2>2. /\ Kept \in Seq(Cell)
        /\ older \o FlushedCells \in Seq(Cell)
        /\ (older \o FlushedCells) \o Kept = c
    BY <1>1, <1>2, FlushShape, BeforeSymbol
  <2>3. PICK new : new = U16Match(Kept, distance, length)
    OBVIOUS
  <2>9. /\ Len(Kept) \in Nat /\ Len(Kept) < FlushAt
        /\ windowBase + Len(FlushedCells) > 0 => Len(Kept) >= Window
        /\ windowBase + Len(FlushedCells) = Len(older \o FlushedCells)
        /\ Len(older \o FlushedCells) > 0 => Len(Kept) >= Window
    BY <1>7, <2>1, KeptBound
  <2>4. /\ new \in Seq(Cell) /\ Len(new) = Len(Kept) + length
        /\ (older \o FlushedCells) \o new = CellMatch((older \o FlushedCells) \o Kept, distance, length)
    BY <1>4, <2>2, <2>3, <2>9, WindowMatch
  <2>5. r = (older \o FlushedCells) \o new
    BY <1>8, <2>2, <2>4
  <2>6. U16Symbol(new)
    BY <1>12, <2>3
  <2>7. \E o : Represents(o)'
    BY <1>7, <1>10, <1>11, <2>1, <2>4, <2>5, <2>6, CellStep
  <2>8. WindowBounded'
    <3>2. scratch' = new /\ windowBase' = windowBase + Len(FlushedCells)
      BY <2>6 DEF U16Symbol
    <3>3. Len(scratch') = Len(Kept) + length
      BY <2>4, <3>2
    <3> QED BY <2>9, <3>2, <3>3, Constants DEF WindowBounded
  <2> QED BY <2>7, <2>8
<1>13. CASE ByteSymbol(CopyBack(bytes, distance, length))
  <2>1. phase = 2 /\ phase' = 2 /\ scratch' = scratch
    BY <1>13 DEF ByteSymbol
  <2>2. c = older /\ EndsInBytes(older)
    BY <1>1, <2>1, AllLeft
  <2>3. /\ CopyBack(ExtractBytes(c), distance, length) = ExtractBytes(r)
        /\ ExtractMarkers(r, 0) = ExtractMarkers(c, 0)
        /\ Len(r) >= Window
        /\ \A i \in Len(r) - Window + 1 .. Len(r) : ~IsMarker(r[i])
    <3>1. Len(c) >= Window /\ \A i \in Len(c) - Window + 1 .. Len(c) : ~IsMarker(c[i])
      BY <2>2 DEF EndsInBytes
    <3> QED BY <1>2, <1>4, <1>9, <3>1, ByteMatch
  <2>4. ByteSymbol(ExtractBytes(r))
    BY <1>3, <1>13, <2>2, <2>3
  <2>5. Len(r) >= Len(older) /\ EndsInBytes(r)
    BY <1>4, <1>5, <1>10, <2>2, <2>3 DEF EndsInBytes
  <2>6. \E o : Represents(o)'
    BY <1>7, <1>10, <1>11, <2>1, <2>2, <2>3, <2>4, <2>5, ByteStep
  <2> QED BY <2>1, <2>6 DEF WindowBounded
<1> QED BY <1>7, <1>12, <1>13

\* Bytes at the end are bytes at the end of what they continue.
LEMMA EndsAlike ==
    ASSUME NEW a \in Seq(Cell), NEW b \in Seq(Cell), EndsInBytes(b)
    PROVE  EndsInBytes(a \o b)
<1>1. Len(a) \in Nat /\ Len(b) \in Nat /\ Window \in Nat
  BY Constants
<1>2. /\ Len(a \o b) = Len(a) + Len(b)
      /\ \A i \in Len(a) + 1 .. Len(a) + Len(b) : (a \o b)[i] = b[i - Len(a)]
  BY ConcatProperties
<1>3. Len(b) >= Window /\ \A i \in Len(b) - Window + 1 .. Len(b) : ~IsMarker(b[i])
  BY DEF EndsInBytes
<1> DEFINE r == a \o b
<1> HIDE DEF r
<1>4. \A i \in Len(r) - Window + 1 .. Len(r) : ~IsMarker(r[i])
  <2> TAKE i \in Len(r) - Window + 1 .. Len(r)
  <2>1. i \in Len(a) + 1 .. Len(a) + Len(b) /\ i - Len(a) \in Len(b) - Window + 1 .. Len(b)
    BY <1>1, <1>2, <1>3 DEF r
  <2> QED BY <1>2, <1>3, <2>1 DEF r
<1>5. Len(r) >= Window
  BY <1>1, <1>2, <1>3 DEF r
<1> QED BY <1>4, <1>5 DEF EndsInBytes, r

\* The end of a block preserves the invariant: lowering cells, or handing over
\* to the byte decoder, leaves the cells of the chunk as they are.
LEMMA EndBlockStep ==
    ASSUME Static, WindowBounded, NEW older, Represents(older),
           NEW complete \in BOOLEAN, EndBlock(complete)
    PROVE  WindowBounded' /\ \E o : Represents(o)'
<1>1. /\ status = "decoding" /\ U16EndBlock(complete)
      /\ status' = IF complete THEN "decoded" ELSE "decoding"
      /\ tail' = tail /\ direct' = direct /\ tbytes' = tbytes /\ table' = table
  BY DEF EndBlock, tableVars
<1>2. PICK c : c = older \o scratch
  OBVIOUS
<1>3. /\ c \in Seq(Cell) /\ Len(c) = Len(older) + Len(scratch) /\ older \in Seq(Cell)
      /\ scratch \in Seq(Cell)
  BY <1>2, BeforeSymbol
<1>4. /\ direct = Seen(c) /\ tbytes = ExtractBytes(c) /\ TableOf(table, c)
      /\ bytes = ExtractBytes(older) /\ markers = ExtractMarkers(older, 0)
      /\ Len(older) + Len(scratch) <= MaxOut
      /\ phase = 1 => windowBase = Len(older)
  BY <1>1, <1>2 DEF Represents
<1>5. CASE phase = 1
  <2> DEFINE cells == IF stored THEN scratch ELSE Kept
             left == IF stored THEN <<>> ELSE FlushedCells
             lower == complete \/ HandoffReady(cells)
             all == IF lower THEN left \o cells ELSE left
  <2>1. /\ bytes' = bytes \o ExtractBytes(all)
        /\ markers' = markers \o ExtractMarkers(all, Len(bytes))
        /\ scratch' = IF lower THEN <<>> ELSE cells
        /\ windowBase' = windowBase + Len(left)
        /\ phase' = IF lower /\ ~complete THEN 2 ELSE 1
    BY <1>1, <1>5 DEF U16EndBlock
  <2>2. PICK cl : cl = cells
    OBVIOUS
  <2>3. PICK le : le = left
    OBVIOUS
  <2>4. PICK lo : lo = lower
    OBVIOUS
  <2>5. PICK al : al = all
    OBVIOUS
  <2>6. al = IF lo THEN le \o cl ELSE le
    BY <2>2, <2>3, <2>4, <2>5
  <2>7. cl \in Seq(Cell) /\ le \in Seq(Cell) /\ le \o cl = scratch
    <3>1. CASE stored
      <4>1. cl = scratch /\ le = <<>>
        BY <2>2, <2>3, <3>1
      <4>2. <<>> \o scratch = scratch
        BY <1>3, ConcatEmptySeq
      <4>3. <<>> \in Seq(Cell)
        OBVIOUS
      <4> QED BY <1>3, <4>1, <4>2, <4>3
    <3>2. CASE ~stored
      <4>1. cl = Kept /\ le = FlushedCells
        BY <2>2, <2>3, <3>2
      <4>2. Kept \in Seq(Cell) /\ FlushedCells \in Seq(Cell) /\ FlushedCells \o Kept = scratch
        BY <1>3, FlushShape
      <4> QED BY <4>1, <4>2
    <3> QED BY <3>1, <3>2
  <2>8. /\ bytes' = bytes \o ExtractBytes(al)
        /\ markers' = markers \o ExtractMarkers(al, Len(bytes))
        /\ scratch' = IF lo THEN <<>> ELSE cl
        /\ windowBase' = Len(older) + Len(le)
        /\ phase' = IF lo /\ ~complete THEN 2 ELSE 1
        /\ lo = (complete \/ HandoffReady(cl))
    BY <1>4, <1>5, <2>1, <2>2, <2>3, <2>4, <2>5
  <2>14. WindowBounded'
    <3>1. /\ Len(Kept) \in Nat /\ Len(Kept) < FlushAt
          /\ windowBase + Len(FlushedCells) > 0 => Len(Kept) >= Window
      BY <1>1, <1>5, KeptBound
    <3>2. Len(scratch) <= FlushAt + MaxLen - 1 /\ (windowBase > 0 => Len(scratch) >= Window)
      BY <1>1, <1>5 DEF WindowBounded
    <3>3. CASE lo
      <4>1. Len(scratch') = 0 /\ (phase' = 2 \/ status' = "decoded")
        BY <1>1, <2>8, <3>3
      <4> QED BY <4>1, Constants DEF WindowBounded
    <3>4. CASE ~lo
      <4>1. scratch' = cl /\ windowBase' = windowBase + Len(le)
        BY <2>1, <2>3, <2>8, <3>4
      <4>2. CASE stored
        <5>1. cl = scratch /\ Len(le) = 0 /\ windowBase \in Nat
          BY <1>3, <1>4, <1>5, <2>2, <2>3, <4>2
        <5>2. Len(scratch') = Len(scratch) /\ windowBase' = windowBase
          BY <4>1, <5>1
        <5> QED BY <3>2, <5>2 DEF WindowBounded
      <4>3. CASE ~stored
        <5>1. cl = Kept /\ le = FlushedCells
          BY <2>2, <2>3, <4>3
        <5>2. Len(scratch') = Len(Kept) /\ windowBase' = windowBase + Len(FlushedCells)
          BY <4>1, <5>1
        <5> QED BY <3>1, <5>2, Constants DEF WindowBounded
      <4> QED BY <4>2, <4>3
    <3> QED BY <3>3, <3>4
  <2> HIDE DEF cells, left, lower, all
  <2>9. al \in Seq(Cell) /\ scratch' \in Seq(Cell) /\ al \o scratch' = scratch
        /\ Len(al) >= Len(le) /\ (~lo => al = le)
    <3>1. CASE lo
      <4>1. al = scratch /\ scratch' = <<>>
        BY <2>6, <2>7, <2>8, <3>1
      <4>2. scratch \o <<>> = scratch
        BY <1>3, ConcatEmptySeq
      <4>3. <<>> \in Seq(Cell)
        OBVIOUS
      <4>4. Len(scratch) = Len(le) + Len(cl)
        BY <2>7, ConcatProperties
      <4> QED BY <1>3, <2>7, <3>1, <4>1, <4>2, <4>3, <4>4
    <3>2. CASE ~lo
      BY <2>6, <2>7, <2>8, <3>2
    <3> QED BY <3>1, <3>2
  <2>10. PICK o : o = older \o al
    OBVIOUS
  <2>11. o \in Seq(Cell) /\ Len(o) = Len(older) + Len(al)
    BY <1>3, <2>9, <2>10, ConcatProperties
  <2>12. o \o scratch' = c
    <3>1. \A x, y, z \in Seq(Cell) : (x \o y) \o z = x \o (y \o z)
      BY ConcatAssociative
    <3>2. (older \o al) \o scratch' = older \o (al \o scratch')
      BY <1>3, <2>9, <3>1
    <3> QED BY <1>2, <2>9, <2>10, <3>2
  <2>13. Len(c) = Len(o) + Len(scratch')
    <3>1. Len(o \o scratch') = Len(o) + Len(scratch')
      BY <2>9, <2>11, ConcatProperties
    <3> QED BY <2>12, <3>1
  <2>15. bytes' = ExtractBytes(o)
    BY <1>3, <1>4, <2>8, <2>9, <2>10, BytesConcat
  <2>16. markers' = ExtractMarkers(o, 0)
    <3>1. Len(bytes) = 0 + Len(older)
      BY <1>3, <1>4, BytesShape
    <3>2. ExtractMarkers(o, 0) = ExtractMarkers(older, 0) \o ExtractMarkers(al, 0 + Len(older))
      BY <1>3, <2>9, <2>10, ExtractConcat
    <3> QED BY <1>4, <2>8, <3>1, <3>2
  <2>17. windowBase' \in 0 .. Len(o) /\ (~lo => windowBase' = Len(o))
    <3>1. Len(le) \in Nat /\ Len(al) \in Nat /\ Len(older) \in Nat
      BY <1>3, <2>7, <2>9
    <3> QED BY <2>8, <2>9, <2>11, <3>1
  <2>18. phase' = 1 /\ status' = "decoding" => windowBase' = Len(o)
    BY <1>1, <2>8, <2>17
  <2>19. phase' = 2 => scratch' = <<>> /\ EndsInBytes(o)
    <3>1. SUFFICES ASSUME phase' = 2 PROVE scratch' = <<>> /\ EndsInBytes(o)
      OBVIOUS
    <3>2. lo /\ ~complete
      BY <2>8, <3>1
    <3>3. HandoffReady(cl)
      BY <2>8, <3>2
    <3>4. EndsInBytes(cl)
      <4>1. Len(cl) >= Window
        <5>1. Len(cl) >= HandoffAt /\ Len(cl) \in Nat
          BY <2>7, <3>3 DEF HandoffReady
        <5> QED BY <5>1, Constants
      <4> QED BY <3>3, <4>1 DEF HandoffReady, EndsInBytes
    <3>5. EndsInBytes(scratch)
      BY <2>7, <3>4, EndsAlike
    <3>6. o = older \o scratch
      BY <2>6, <2>7, <2>10, <3>2
    <3>7. EndsInBytes(o)
      BY <1>3, <3>5, <3>6, EndsAlike
    <3> QED BY <2>8, <3>2, <3>7
  <2>20. status' = "decoded" => scratch' = <<>>
    BY <1>1, <2>8
  <2>21. direct' = Seen(o \o scratch)'
    BY <1>1, <1>4, <2>12, SeenAlike
  <2>22. tbytes' = ExtractBytes(o \o scratch') /\ TableOf(table', o \o scratch')
    BY <1>1, <1>4, <2>12
  <2>23. Len(o) + Len(scratch') <= MaxOut
    BY <1>3, <1>4, <2>13
  <2>24. Represents(o)'
    BY <2>9, <2>11, <2>15, <2>16, <2>17, <2>18, <2>19, <2>20, <2>21, <2>22, <2>23 DEF Represents
  <2> QED BY <2>14, <2>24
<1>6. CASE phase = 2
  <2>1. /\ scratch' = scratch /\ windowBase' = windowBase /\ phase' = phase
        /\ bytes' = bytes /\ markers' = markers
    BY <1>1, <1>6 DEF U16EndBlock, u16Vars
  <2>2. scratch = <<>>
    BY <1>6, AllLeft
  <2>3. WindowBounded'
    BY <1>6, <2>1 DEF WindowBounded
  <2>4. direct' = Seen(older \o scratch)'
    <3>1. older \o scratch' = c
      BY <1>2, <2>1
    <3> QED BY <1>1, <1>4, <3>1, SeenAlike
  <2>5. phase' # 1
    BY <1>6, <2>1
  <2>6. tbytes' = ExtractBytes(older \o scratch') /\ TableOf(table', older \o scratch')
    BY <1>1, <1>2, <1>4, <2>1
  <2>7. Represents(older)'
    BY <1>3, <1>6, <2>1, <2>2, <2>4, <2>5, <2>6 DEF Represents
  <2> QED BY <2>3, <2>7
<1> QED BY <1>5, <1>6 DEF Static

\* While the chunk is decoded its state has its types and both decoders agree.
LEMMA LiveFacts ==
    ASSUME Static, NEW older, Represents(older)
    PROVE  TypeOK /\ TableAgrees
<1> DEFINE c == older \o scratch
<1>1. /\ older \in Seq(Cell) /\ scratch \in Seq(Cell) /\ Len(older) + Len(scratch) <= MaxOut
      /\ bytes = ExtractBytes(older) /\ markers = ExtractMarkers(older, 0)
      /\ windowBase \in 0 .. Len(older) /\ direct = Seen(c) /\ tbytes = ExtractBytes(c)
      /\ TableOf(table, c)
  BY DEF Represents
<1>2. c \in Seq(Cell) /\ Len(c) = Len(older) + Len(scratch)
  BY BeforeSymbol
<1>3. tbytes = bytes \o ExtractBytes(scratch)
  BY <1>1, BytesConcat
<1>4. Len(bytes) = Len(older) /\ bytes \in Seq(Byte)
  BY <1>1, BytesShape
<1>5. ExtractMarkers(c, 0) = markers \o ExtractMarkers(scratch, Len(bytes))
  <2>1. ExtractMarkers(c, 0) = markers \o ExtractMarkers(scratch, 0 + Len(older))
    BY <1>1, ExtractConcat
  <2>2. 0 + Len(older) = Len(bytes)
    BY <1>1, <1>4
  <2> QED BY <2>1, <2>2
<1>6. TableAgrees
  <2>1. table.markers = ExtractMarkers(c, 0)
    BY <1>1 DEF TableOf
  <2> QED BY <1>3, <1>5, <2>1 DEF TableAgrees, LoweredBytes, LoweredMarkers
<1> HIDE DEF c
<1>7. tbytes \in Seq(Byte) /\ direct \in Seq(OutByte)
  <2>1. tail \in Seq(Byte)
    BY DEF Static
  <2> QED BY <1>1, <1>2, <2>1, BytesShape, SeenShape
<1>8. Len(older) <= MaxOut /\ Len(c) <= MaxOut /\ Len(older) \in Nat /\ Len(c) \in Nat
  <2>1. Len(older) \in Nat /\ Len(scratch) \in Nat /\ Len(c) \in Nat
    BY <1>1, <1>2
  <2> QED BY <1>1, <1>2, <2>1, Constants
<1>9. markers \in Seq(Marker) /\ table.markers \in Seq(Marker)
  <2>1. table.markers = ExtractMarkers(c, 0)
    BY <1>1 DEF TableOf
  <2> QED BY <1>1, <1>2, <1>8, <2>1, ExtractType
<1>10. windowBase \in 0 .. MaxOut
  BY <1>1, <1>8, Constants
<1>11. table.live_start \in 0 .. Len(table.markers)
  BY <1>1 DEF TableOf
<1>12. table.max_marker_pos \in None .. MaxOut - 1
  <2>1. table.max_marker_pos = LastPos(table.markers)
    BY <1>1 DEF TableOf
  <2>2. PICK ms \in Seq(Marker) : ms = table.markers
    BY <1>9
  <2>3. CASE ms = <<>>
    BY <2>1, <2>2, <2>3, Constants DEF LastPos, None
  <2>4. CASE ms # <<>>
    <3>1. Len(ms) \in 1 .. Len(ms)
      BY <2>4
    <3>2. ms[Len(ms)] \in Marker
      BY <3>1
    <3>3. ms[Len(ms)].out_pos \in 0 .. MaxOut - 1
      BY <3>2 DEF Marker
    <3> QED BY <2>1, <2>2, <2>4, <3>3, Constants DEF LastPos, None
  <2> QED BY <2>3, <2>4
<1> QED BY <1>1, <1>4, <1>6, <1>7, <1>9, <1>10, <1>11, <1>12 DEF TypeOK, Static, OutByte

\* resolve_markers turns the decoded chunk into the reference, and fails if
\* and only if the reference reaches before the tail.
LEMMA ResolveStep ==
    ASSUME Static, WindowBounded, NEW older, Represents(older), Resolve
    PROVE  /\ WindowBounded' /\ status' \in {"resolved", "error"}
           /\ TypeOK' /\ ResolvedIsDirect'
<1>1. /\ status = "decoded" /\ status' \in {"resolved", "error"}
      /\ tail' = tail /\ direct' = direct /\ stored' = stored /\ scratch' = scratch
      /\ windowBase' = windowBase /\ phase' = phase /\ tbytes' = tbytes /\ table' = table
  BY DEF Resolve, tableVars
<1>2. /\ older \in Seq(Cell) /\ bytes = ExtractBytes(older)
      /\ markers = ExtractMarkers(older, 0) /\ direct = Seen(older)
  BY <1>1, ConcatEmptySeq DEF Represents
<1>3. tail \in Seq(Byte)
  BY DEF Static
<1>4. markers \in Seq(Notes) /\ Lists(markers, older, 0, Len(older))
  BY <1>2, ExtractShape
<1>5. TypeOK
  BY LiveFacts
<1>6. WindowBounded'
  BY <1>1 DEF WindowBounded
<1> DEFINE n == Len(older)
           Off(i) == older[i] - MARKER16
<1>7. /\ bytes \in Seq(Byte) /\ Len(bytes) = n
      /\ \A i \in 1 .. n : bytes[i] = IF IsMarker(older[i]) THEN 0 ELSE older[i]
  BY <1>2, BytesShape
<1>8. /\ direct \in Seq(OutByte) /\ Len(direct) = n
      /\ \A i \in 1 .. n : direct[i] = IF IsMarker(older[i]) THEN TailByte(Off(i)) ELSE older[i]
  BY <1>2, <1>3, SeenShape
<1>9. \A i \in 1 .. n : /\ IsMarker(older[i]) => Off(i) \in Nat
                        /\ ~IsMarker(older[i]) => older[i] \in Byte
  <2> TAKE i \in 1 .. n
  <2>1. older[i] \in Cell
    BY <1>2
  <2> QED BY <2>1, CellKinds, Constants
<1>10. n \in Nat /\ Len(tail) \in Nat /\ DOMAIN markers = 1 .. Len(markers)
       /\ DOMAIN direct = 1 .. n /\ DOMAIN bytes = 1 .. n
  BY <1>2, <1>3, <1>4, <1>7, <1>8
<1> HIDE DEF n, Off
<1>11. \A m \in Range(markers) : \E i \in 1 .. n :
          IsMarker(older[i]) /\ m.out_pos = i - 1 /\ m.prefix_offset = Off(i)
  <2> TAKE m \in Range(markers)
  <2>1. PICK j \in 1 .. Len(markers) : m = markers[j]
    BY <1>10 DEF Range
  <2>2. PICK i \in 1 .. n : IsMarker(older[i]) /\ markers[j] = Note(older, 0, i)
    BY <1>4 DEF Lists, n
  <2>3. m.out_pos = 0 + i - 1 /\ m.prefix_offset = Off(i)
    BY <2>1, <2>2 DEF Note, Off
  <2>4. 0 + i - 1 = i - 1
    BY <1>10
  <2> QED BY <2>2, <2>3, <2>4
<1>12. \A i \in 1 .. n : IsMarker(older[i]) =>
          \E m \in Range(markers) : m.out_pos = i - 1 /\ m.prefix_offset = Off(i)
  <2> TAKE i \in 1 .. n
  <2>1. SUFFICES ASSUME IsMarker(older[i])
                 PROVE  \E m \in Range(markers) : m.out_pos = i - 1 /\ m.prefix_offset = Off(i)
    OBVIOUS
  <2>2. PICK j \in 1 .. Len(markers) : markers[j] = Note(older, 0, i)
    BY <1>4, <2>1 DEF Lists, n
  <2>3. markers[j].out_pos = 0 + i - 1 /\ markers[j].prefix_offset = Off(i)
    BY <2>2 DEF Note, Off
  <2>4. 0 + i - 1 = i - 1
    BY <1>10
  <2>5. markers[j] \in Range(markers)
    BY <1>10 DEF Range
  <2> QED BY <2>3, <2>4, <2>5
<1>13. \A i \in 1 .. n : IsMarker(older[i]) =>
          /\ Off(i) >= Len(tail) => direct[i] = Missing
          /\ ~(Off(i) >= Len(tail)) => direct[i] = tail[Len(tail) - Off(i)]
                                       /\ tail[Len(tail) - Off(i)] \in Byte
  <2> TAKE i \in 1 .. n
  <2>1. SUFFICES ASSUME IsMarker(older[i])
                 PROVE  /\ Off(i) >= Len(tail) => direct[i] = Missing
                        /\ ~(Off(i) >= Len(tail)) => direct[i] = tail[Len(tail) - Off(i)]
                                       /\ tail[Len(tail) - Off(i)] \in Byte
    OBVIOUS
  <2>2. direct[i] = TailByte(Off(i)) /\ Off(i) \in Nat
    BY <1>8, <1>9, <2>1
  <2>3. CASE Off(i) >= Len(tail)
    BY <1>10, <2>2, <2>3 DEF TailByte
  <2>4. CASE ~(Off(i) >= Len(tail))
    <3>1. Len(tail) - Off(i) \in 1 .. Len(tail) /\ Off(i) < Len(tail)
      BY <1>10, <2>2, <2>4
    <3> QED BY <1>3, <2>2, <2>4, <3>1 DEF TailByte
  <2> QED BY <2>3, <2>4
<1>14. Missing \notin Byte
  BY DEF Missing, Byte
<1>15. CASE \E m \in Range(markers) : m.prefix_offset >= Len(tail)
  <2>1. status' = "error" /\ bytes' = bytes /\ markers' = markers
    BY <1>15 DEF Resolve
  <2>2. PICK m \in Range(markers) : m.prefix_offset >= Len(tail)
    BY <1>15
  <2>3. PICK i \in 1 .. n : IsMarker(older[i]) /\ m.prefix_offset = Off(i)
    BY <1>11
  <2>4. direct[i] = Missing
    BY <1>13, <2>2, <2>3
  <2>5. Missing \in Range(direct)
    BY <1>10, <2>4 DEF Range
  <2>6. ResolvedIsDirect'
    <3>1. Missing \in Range(direct')
      BY <1>1, <2>5
    <3> QED BY <2>1, <3>1 DEF ResolvedIsDirect
  <2>7. TypeOK'
    BY <1>1, <1>5, <2>1 DEF TypeOK
  <2> QED BY <1>1, <1>6, <2>6, <2>7
<1>16. CASE ~(\E m \in Range(markers) : m.prefix_offset >= Len(tail))
  <2>1. /\ status' = "resolved" /\ markers' = <<>>
        /\ bytes' = [i \in DOMAIN bytes |->
                        IF \E m \in Range(markers) : m.out_pos = i - 1
                        THEN Patched(CHOOSE m \in Range(markers) : m.out_pos = i - 1)
                        ELSE bytes[i]]
    BY <1>16 DEF Resolve
  <2>2. ASSUME NEW i \in 1 .. n PROVE bytes'[i] = direct[i] /\ direct[i] \in Byte
    <3>1. bytes'[i] = IF \E m \in Range(markers) : m.out_pos = i - 1
                      THEN Patched(CHOOSE m \in Range(markers) : m.out_pos = i - 1)
                      ELSE bytes[i]
      BY <1>10, <2>1
    <3>2. CASE IsMarker(older[i])
      <4>1. \E m \in Range(markers) : m.out_pos = i - 1
        BY <1>12, <3>2
      <4> DEFINE m == CHOOSE m \in Range(markers) : m.out_pos = i - 1
      <4>2. m \in Range(markers) /\ m.out_pos = i - 1
        BY <4>1
      <4>3. bytes'[i] = Patched(m)
        BY <3>1, <4>1
      <4> HIDE DEF m
      <4>4. PICK k \in 1 .. n : IsMarker(older[k]) /\ m.out_pos = k - 1 /\ m.prefix_offset = Off(k)
        BY <1>11, <4>2
      <4>5. k = i
        BY <1>10, <4>2, <4>4
      <4>6. m.prefix_offset = Off(i)
        BY <4>4, <4>5
      <4>7. ~(Off(i) >= Len(tail))
        BY <1>16, <4>2, <4>6
      <4>8. direct[i] = tail[Len(tail) - Off(i)] /\ tail[Len(tail) - Off(i)] \in Byte
        BY <1>13, <3>2, <4>7
      <4> QED BY <4>3, <4>6, <4>8 DEF Patched
    <3>3. CASE ~IsMarker(older[i])
      <4>1. ~(\E m \in Range(markers) : m.out_pos = i - 1)
        <5>1. SUFFICES ASSUME NEW m \in Range(markers), m.out_pos = i - 1 PROVE FALSE
          OBVIOUS
        <5>2. PICK k \in 1 .. n : IsMarker(older[k]) /\ m.out_pos = k - 1
          BY <1>11
        <5>3. k = i
          BY <1>10, <5>1, <5>2
        <5> QED BY <3>3, <5>2, <5>3
      <4>2. bytes'[i] = bytes[i]
        BY <3>1, <4>1
      <4> QED BY <1>7, <1>8, <1>9, <3>3, <4>2
    <3> QED BY <3>2, <3>3
  <2>3. bytes' = [i \in 1 .. n |-> bytes'[i]]
    BY <1>10, <2>1
  <2>4. PICK b : b = bytes'
    OBVIOUS
  <2>5. b = direct /\ b \in Seq(Byte)
    <3>1. b = [i \in 1 .. n |-> b[i]] /\ \A i \in 1 .. n : b[i] = direct[i] /\ direct[i] \in Byte
      BY <2>2, <2>3, <2>4
    <3>2. b \in Seq(Byte)
      BY <1>10, <3>1
    <3>3. direct = [i \in 1 .. n |-> direct[i]]
      BY <1>8, <1>10
    <3>4. b = direct
      BY <3>1, <3>3
    <3> QED BY <3>2, <3>4
  <2>6. ~(Missing \in Range(direct))
    <3>1. SUFFICES ASSUME NEW i \in 1 .. n, direct[i] = Missing PROVE FALSE
      BY <1>10 DEF Range
    <3> QED BY <1>14, <2>2, <3>1
  <2>7. ResolvedIsDirect'
    <3>1. ~(Missing \in Range(direct')) /\ bytes' = direct'
      BY <1>1, <2>4, <2>5, <2>6
    <3> QED BY <2>1, <3>1 DEF ResolvedIsDirect
  <2>8. TypeOK'
    <3>1. bytes' \in Seq(Byte) /\ markers' \in Seq(Marker)
      BY <2>1, <2>4, <2>5
    <3> QED BY <1>1, <1>5, <2>1, <3>1 DEF TypeOK
  <2> QED BY <1>1, <1>6, <2>7, <2>8
<1> QED BY <1>15, <1>16

-----------------------------------------------------------------------------
(* The theorems. *)

\* Before the first symbol no cell has left the window.
LEMMA InitInv == Init => MarkersInv
<1>1. SUFFICES ASSUME Init PROVE MarkersInv
  OBVIOUS
<1>2. PICK n \in 0 .. Len(History) : tail = SubSeq(History, 1, n)
  BY <1>1 DEF Init
<1>3. tail \in Seq(Byte) /\ Len(tail) <= Window
  <2>1. History \in Seq(Byte) /\ Len(History) <= Window /\ Len(History) \in Nat
    BY MarkersAssumption
  <2>2. n \in Nat /\ n <= Len(History) /\ \A i \in 1 .. n : History[i] \in Byte
    BY <2>1
  <2>3. SubSeq(History, 1, n) = [i \in 1 .. n |-> History[i]]
    BY <2>1, <2>2
  <2>4. tail = [i \in 1 .. n |-> History[i]]
    BY <1>2, <2>3
  <2>5. tail \in Seq(Byte) /\ Len(tail) = n
    BY <2>2, <2>4
  <2> QED BY <2>1, <2>2, <2>5, Constants
<1>4. Static
  BY <1>1, <1>3 DEF Init, Static
<1>5. WindowBounded
  <2>1. Len(scratch) = 0 /\ windowBase = 0
    BY <1>1 DEF Init
  <2> QED BY <2>1, Constants DEF WindowBounded
<1>6. Represents(<<>>)
  <2>1. <<>> \in Seq(Cell) /\ Len(<<>>) = 0 /\ <<>> \o <<>> = <<>>
    OBVIOUS
  <2>2. ExtractMarkers(<<>>, 0) = <<>>
    BY ExtractEmpty
  <2>3. ExtractBytes(<<>>) = <<>> /\ Seen(<<>>) = <<>>
    <3>1. Len(ExtractBytes(<<>>)) = 0 /\ ExtractBytes(<<>>) \in Seq(Byte)
      BY <2>1, BytesShape
    <3>2. Len(Seen(<<>>)) = 0 /\ Seen(<<>>) \in Seq(OutByte)
      BY <1>3, <2>1, SeenShape
    <3> QED BY <3>1, <3>2
  <2>4. TableOf(table, <<>>)
    <3>1. /\ table = [markers |-> <<>>, max_marker_pos |-> None, live_start |-> 0]
      BY <1>1 DEF Init
    <3>2. table \in TableState
      BY <3>1 DEF TableState, None
    <3>3. table.markers = <<>> /\ table.max_marker_pos = None /\ table.live_start = 0
      BY <3>1
    <3>4. \A h \in 1 .. 0 : table.markers[h].out_pos + Window < Len(<<>>)
      OBVIOUS
    <3>5. LastPos(<<>>) = None /\ 0 \in 0 .. Len(<<>>)
      BY DEF LastPos
    <3> QED BY <2>2, <3>2, <3>3, <3>4, <3>5 DEF TableOf
  <2>5. /\ direct = <<>> /\ status = "decoding" /\ scratch = <<>> /\ windowBase = 0
        /\ phase = 1 /\ bytes = <<>> /\ markers = <<>> /\ tbytes = <<>>
    BY <1>1 DEF Init
  <2>6. 0 + 0 <= MaxOut
    BY Constants
  <2> QED BY <2>1, <2>2, <2>3, <2>4, <2>5, <2>6 DEF Represents
<1> QED BY <1>1, <1>4, <1>5, <1>6 DEF MarkersInv, Init

\* Every step preserves the invariant.
LEMMA StepInv == MarkersInv /\ [Next]_vars => MarkersInv'
<1>1. SUFFICES ASSUME MarkersInv, [Next]_vars PROVE MarkersInv'
  OBVIOUS
<1>2. Static /\ WindowBounded
  BY <1>1 DEF MarkersInv
<1>3. ASSUME status \in {"decoding", "decoded"}, NEW older, Represents(older), Literal
      PROVE  MarkersInv'
  <2>1. WindowBounded' /\ \E o : Represents(o)'
    BY <1>2, <1>3, LiteralStep
  <2>2. phase' = phase
    BY <1>3 DEF Literal, U16Symbol, ByteSymbol
  <2>3. Static' /\ status' \in {"decoding", "decoded"}
    BY <1>2, <1>3, <2>2 DEF Literal, Static
  <2> QED BY <2>1, <2>3 DEF MarkersInv
<1>4. ASSUME status \in {"decoding", "decoded"}, NEW older, Represents(older),
             NEW distance \in 1 .. Window, NEW length \in 1 .. MaxLen, Match(distance, length)
      PROVE  MarkersInv'
  <2>1. WindowBounded' /\ \E o : Represents(o)'
    BY <1>2, <1>4, MatchStep
  <2>2. phase' = phase
    BY <1>4 DEF Match, U16Symbol, ByteSymbol
  <2>3. Static' /\ status' \in {"decoding", "decoded"}
    BY <1>2, <1>4, <2>2 DEF Match, Static
  <2> QED BY <2>1, <2>3 DEF MarkersInv
<1>5. ASSUME status \in {"decoding", "decoded"}, NEW older, Represents(older),
             NEW complete \in BOOLEAN, EndBlock(complete)
      PROVE  MarkersInv'
  <2>1. WindowBounded' /\ \E o : Represents(o)'
    BY <1>2, <1>5, EndBlockStep
  <2>2. phase' \in {1, 2}
    BY <1>2, <1>5 DEF EndBlock, U16EndBlock, u16Vars, Static
  <2>3. stored' \in BOOLEAN /\ tail' = tail /\ status' \in {"decoding", "decoded"}
    BY <1>5 DEF EndBlock
  <2>4. Static'
    BY <1>2, <2>2, <2>3 DEF Static
  <2> QED BY <2>1, <2>3, <2>4 DEF MarkersInv
<1>6. ASSUME status \in {"decoding", "decoded"}, NEW older, Represents(older), Resolve
      PROVE  MarkersInv'
  <2>1. WindowBounded' /\ status' \in {"resolved", "error"} /\ TypeOK' /\ ResolvedIsDirect'
    BY <1>2, <1>6, ResolveStep
  <2>2. Static'
    BY <2>1 DEF TypeOK, Static
  <2> QED BY <2>1, <2>2 DEF MarkersInv
<1>7. CASE status \in {"decoding", "decoded"} /\ Next
  <2>1. PICK older : Represents(older)
    BY <1>1, <1>7 DEF MarkersInv
  <2> QED BY <1>3, <1>4, <1>5, <1>6, <1>7, <2>1 DEF Next
<1>8. CASE status \in {"resolved", "error"} /\ Next
  BY <1>8 DEF Next, Literal, Match, EndBlock, Resolve
<1>9. CASE UNCHANGED vars
  <2>1. /\ tail' = tail /\ direct' = direct /\ stored' = stored /\ status' = status
        /\ scratch' = scratch /\ windowBase' = windowBase /\ phase' = phase
        /\ bytes' = bytes /\ markers' = markers /\ tbytes' = tbytes /\ table' = table
    BY <1>9 DEF vars, u16Vars, tableVars
  <2>2. Static' /\ WindowBounded'
    BY <1>2, <2>1 DEF Static, WindowBounded
  <2>3. CASE status \in {"decoding", "decoded"}
    <3>1. PICK older : Represents(older)
      BY <1>1, <2>3 DEF MarkersInv
    <3>2. direct' = Seen(older \o scratch)'
      <4>1. PICK c : c = older \o scratch
        OBVIOUS
      <4>2. older \o scratch' = c /\ direct' = Seen(c)
        BY <2>1, <3>1, <4>1 DEF Represents
      <4> QED BY <2>1, <4>2, SeenAlike
    <3>3. Represents(older)'
      BY <2>1, <3>1, <3>2 DEF Represents
    <3> QED BY <2>1, <2>2, <2>3, <3>3 DEF MarkersInv
  <2>4. CASE status \in {"resolved", "error"}
    <3>1. TypeOK /\ ResolvedIsDirect
      BY <1>1, <2>4 DEF MarkersInv
    <3>2. TypeOK' /\ ResolvedIsDirect'
      BY <2>1, <3>1 DEF TypeOK, ResolvedIsDirect
    <3> QED BY <2>1, <2>2, <2>4, <3>2 DEF MarkersInv
  <2> QED BY <1>2, <2>3, <2>4 DEF Static
<1> QED BY <1>1, <1>2, <1>7, <1>8, <1>9 DEF Static

\* The invariant holds throughout.
LEMMA InvHolds == Spec => []MarkersInv
  BY InitInv, StepInv, PTL DEF Spec

\* What the invariant says of the properties.
LEMMA InvImplies == MarkersInv => TypeOK /\ ResolvedIsDirect /\ TableAgrees /\ WindowBounded
<1>1. SUFFICES ASSUME MarkersInv
               PROVE  TypeOK /\ ResolvedIsDirect /\ TableAgrees /\ WindowBounded
  OBVIOUS
<1>2. Static /\ WindowBounded
  BY <1>1 DEF MarkersInv
<1>3. CASE status \in {"decoding", "decoded"}
  <2>1. PICK older : Represents(older)
    BY <1>1, <1>3 DEF MarkersInv
  <2>2. TypeOK /\ TableAgrees
    BY <1>2, <2>1, LiveFacts
  <2>3. ResolvedIsDirect
    BY <1>3 DEF ResolvedIsDirect
  <2> QED BY <1>2, <2>2, <2>3
<1>4. CASE status \in {"resolved", "error"}
  <2>1. TypeOK /\ ResolvedIsDirect
    BY <1>1, <1>4 DEF MarkersInv
  <2>2. TableAgrees
    BY <1>4 DEF TableAgrees
  <2> QED BY <1>2, <2>1, <2>2
<1> QED BY <1>2, <1>3, <1>4 DEF Static

\* Every cell, marker, position and index of both decoders stays in its type;
\* a marker's offset fits the 15 bits that MARKER16 leaves it.
THEOREM MarkersTypeCorrect == Spec => []TypeOK
  BY InvHolds, InvImplies, PTL

\* Speculation is invisible: for every text, history and sequence of literals,
\* matches and block ends, resolve_markers gives the bytes of a decode that
\* knew the history, and fails if and only if such a decode would reach before
\* the first byte.
THEOREM SpeculationInvisible == Spec => []ResolvedIsDirect
  BY InvHolds, InvImplies, PTL

\* decode_until_u16 and decode_until agree after every symbol, byte for byte
\* and marker for marker, also once the byte decoder has taken over.
THEOREM DecodersAgree == Spec => []TableAgrees
  BY InvHolds, InvImplies, PTL

\* The u16 decoder stores inside its fixed buffer, and once it has flushed
\* every distance reaches inside the window it kept.
THEOREM WindowStaysBounded == Spec => []WindowBounded
  BY InvHolds, InvImplies, PTL
=============================================================================
