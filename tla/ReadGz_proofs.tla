---------------------------- MODULE ReadGz_proofs ---------------------------
(***************************************************************************)
(* Proofs about ReadGz and its four decoders, for every layout of members  *)
(* and blocks, every window, every size of reads and chunks and every      *)
(* damage: what is sent and what is folded into a CRC is the output, byte  *)
(* by byte, the buffers stay bounded, and every decoder implements         *)
(* ReadPromise (the second half, on the invariant CleanInv).               *)
(*                                                                         *)
(* The output and everything cut from it are intervals Bytes(lo, hi), so   *)
(* that the invariants speak of the ends of intervals only: how far the    *)
(* output was sent, and how far it was decoded.                            *)
(***************************************************************************)
EXTENDS ReadGz, TLAPS, WellFoundedInduction, SequenceTheorems

-----------------------------------------------------------------------------
(* Numbers. *)

\* A nonempty set of natural numbers has a least element, and Min is it.
LEMMA MinProperty ==
    ASSUME NEW T, T \subseteq Nat, T # {}
    PROVE  Min(T) \in T /\ \A y \in T : Min(T) <= y
<1> DEFINE R == {ss \in Nat \X Nat : ss[1] < ss[2]}
<1>1. IsWellFoundedOn(R, Nat)
  BY NatLessThanWellFounded DEF OpToRel
<1> HIDE DEF R
<1>2. PICK x \in T : \A y \in T : ~(<<y, x>> \in R)
  BY <1>1, WFMin
<1>3. \A y \in T : x <= y
  <2>1. SUFFICES ASSUME NEW y \in T, y < x PROVE FALSE
    OBVIOUS
  <2>2. <<y, x>> \in R
    BY <2>1 DEF R
  <2> QED BY <1>2, <2>2
<1> QED BY <1>3 DEF Min

\* A nonempty set of natural numbers with a bound has a greatest element, and
\* Max is it.
LEMMA MaxProperty ==
    ASSUME NEW n \in Nat, NEW T, T \subseteq 0 .. n, T # {}
    PROVE  Max(T) \in T /\ \A y \in T : Max(T) >= y
<1> DEFINE D == {n - x : x \in T}
<1>1. D \subseteq Nat /\ D # {}
  <2>1. PICK t \in T : TRUE
    OBVIOUS
  <2>2. n - t \in D
    OBVIOUS
  <2>3. D \subseteq Nat
    OBVIOUS
  <2> QED BY <2>2, <2>3
<1>2. PICK d \in D : \A y \in D : d <= y
  BY <1>1, MinProperty
<1>3. PICK x \in T : d = n - x
  BY <1>2
<1>4. \A y \in T : x >= y
  <2> TAKE y \in T
  <2>1. n - x <= n - y
    BY <1>2, <1>3
  <2> QED BY <2>1
<1> QED BY <1>4 DEF Max

\* A set that holds 0 and with each number below n its successor holds the
\* numbers up to n.
LEMMA UpTo ==
    ASSUME NEW n \in Nat, NEW S, 0 \in S, \A k \in 0 .. n - 1 : k \in S => k + 1 \in S
    PROVE  \A k \in 0 .. n : k \in S
<1> DEFINE T == (0 .. n) \ S
<1>1. SUFFICES ASSUME T # {} PROVE FALSE
  OBVIOUS
<1>2. T \subseteq Nat
  OBVIOUS
<1> DEFINE x == Min(T)
<1>3. x \in T /\ \A y \in T : x <= y
  <2> HIDE DEF T
  <2> QED BY <1>1, <1>2, MinProperty
<1> HIDE DEF x
<1>4. x # 0 /\ x - 1 \in 0 .. n - 1 /\ x - 1 \notin T
  BY <1>3
<1> QED BY <1>3, <1>4

\* The values of a function on an interval have a bound.
LEMMA Bounded ==
    ASSUME NEW n \in Nat, NEW f \in [0 .. n -> Nat]
    PROVE  \E b \in Nat : \A k \in 0 .. n : f[k] <= b
<1> DEFINE S == {m \in 0 .. n : \E b \in Nat : \A k \in 0 .. m : f[k] <= b}
<1>1. 0 \in S
  <2>1. f[0] \in Nat /\ \A k \in 0 .. 0 : f[k] <= f[0]
    OBVIOUS
  <2> QED BY <2>1
<1>2. ASSUME NEW m \in 0 .. n - 1, m \in S PROVE m + 1 \in S
  <2>1. PICK b \in Nat : \A k \in 0 .. m : f[k] <= b
    BY <1>2
  <2>2. m + 1 \in 0 .. n /\ f[m + 1] \in Nat
    OBVIOUS
  <2>3. b + f[m + 1] \in Nat /\ \A k \in 0 .. m + 1 : f[k] <= b + f[m + 1]
    BY <2>1, <2>2
  <2> QED BY <2>2, <2>3
<1>3. \A k \in 0 .. n : k \in S
  <2> HIDE DEF S
  <2> QED BY <1>1, <1>2, UpTo
<1>4. n \in S
  <2> HIDE DEF S
  <2> QED BY <1>3
<1> QED BY <1>4

\* A step from a value and an index to the next value.
IsStep(F, X) == \A x \in X, k \in Nat : F[<<x, k>>] \in X

\* f starts with x0 and takes the step F from each value to the next.
IsIteration(f, X, x0, n, F) ==
    /\ f \in [0 .. n -> X]
    /\ f[0] = x0 /\ \A k \in 1 .. n : f[k] = F[<<f[k - 1], k>>]

\* Such a function exists on every interval.
LEMMA RecursionExists ==
    ASSUME NEW X, NEW x0 \in X, NEW n \in Nat, NEW F, IsStep(F, X)
    PROVE  \E f : IsIteration(f, X, x0, n, F)
<1> USE DEF IsStep
<1> DEFINE Good(m, f) == f[0] = x0 /\ \A k \in 1 .. m : f[k] = F[<<f[k - 1], k>>]
           S == {m \in 0 .. n : \E f \in [0 .. m -> X] : Good(m, f)}
<1>1. 0 \in S
  <2> DEFINE g == [k \in 0 .. 0 |-> x0]
  <2>1. g \in [0 .. 0 -> X] /\ Good(0, g)
    OBVIOUS
  <2>2. 0 \in 0 .. n
    OBVIOUS
  <2> HIDE DEF g, Good
  <2> QED BY <2>1, <2>2
<1>2. ASSUME NEW m \in 0 .. n - 1, m \in S PROVE m + 1 \in S
  <2>1. PICK f \in [0 .. m -> X] : Good(m, f)
    BY <1>2
  <2> DEFINE g == [k \in 0 .. m + 1 |-> IF k = m + 1 THEN F[<<f[m], m + 1>>] ELSE f[k]]
  <2>2. F[<<f[m], m + 1>>] \in X
    OBVIOUS
  <2>3. g \in [0 .. m + 1 -> X]
    BY <2>2
  <2>4. g[0] = x0
    BY <2>1
  <2>5. \A k \in 1 .. m + 1 : g[k] = F[<<g[k - 1], k>>]
    <3> TAKE k \in 1 .. m + 1
    <3>1. CASE k = m + 1
      <4>1. g[k] = F[<<f[m], m + 1>>] /\ g[k - 1] = f[m]
        BY <3>1
      <4> QED BY <4>1, <3>1
    <3>2. CASE k # m + 1
      <4>1. k \in 1 .. m /\ g[k] = f[k] /\ g[k - 1] = f[k - 1]
        BY <3>2
      <4> QED BY <4>1, <2>1
    <3> QED BY <3>1, <3>2
  <2>6. m + 1 \in 0 .. n
    OBVIOUS
  <2> HIDE DEF g
  <2> QED BY <2>3, <2>4, <2>5, <2>6
<1>3. \A k \in 0 .. n : k \in S
  <2> HIDE DEF S
  <2> QED BY <1>1, <1>2, UpTo
<1> QED BY <1>3 DEF IsIteration

\* Rounding to bytes.
LEMMA ByteRounding ==
    ASSUME NEW n \in Nat
    PROVE  /\ n \div 8 \in Nat /\ n % 8 \in 0 .. 7 /\ n = 8 * (n \div 8) + (n % 8)
           /\ BytesOfBits(n) \in Nat
           /\ 8 * BytesOfBits(n) >= n /\ 8 * BytesOfBits(n) < n + 8
           /\ BytesOfBits(n) = (n \div 8) + (IF n % 8 = 0 THEN 0 ELSE 1)
<1>1. n \div 8 \in Nat /\ n % 8 \in 0 .. 7 /\ n = 8 * (n \div 8) + (n % 8)
  OBVIOUS
<1>2. PICK q \in Nat, r \in 0 .. 7 : q = n \div 8 /\ r = n % 8 /\ n = 8 * q + r
  BY <1>1
<1>3. (n + 7) \div 8 = IF r = 0 THEN q ELSE q + 1
  BY <1>2
<1> QED BY <1>1, <1>2, <1>3 DEF BytesOfBits

\* A number of whole bytes.
LEMMA WholeBytes ==
    ASSUME NEW n \in Nat
    PROVE  (8 * n) \div 8 = n /\ (8 * n) % 8 = 0 /\ BytesOfBits(8 * n) = n
  BY DEF BytesOfBits

\* Rounding is monotonic.
LEMMA RoundingMonotonic ==
    ASSUME NEW m \in Nat, NEW n \in Nat, m <= n
    PROVE  BytesOfBits(m) <= BytesOfBits(n) /\ m \div 8 <= n \div 8
<1>1. BytesOfBits(m) <= BytesOfBits(n)
  <2>1. PICK a \in Nat, b \in Nat : a = BytesOfBits(m) /\ b = BytesOfBits(n) /\ 8 * a < m + 8 /\ 8 * b >= n
    BY ByteRounding
  <2> QED BY <2>1
<1>2. m \div 8 <= n \div 8
  OBVIOUS
<1> QED BY <1>1, <1>2

-----------------------------------------------------------------------------
(* The layout. *)

\* The constants as numbers.
LEMMA Constants ==
    /\ NumBlocks \in Nat /\ NumBlocks >= 1 /\ Window \in Nat /\ Window >= 1
    /\ HeaderLen \in Nat /\ HeaderLen >= 10 /\ TrailerLen = 8
    /\ Blocks = 0 .. NumBlocks - 1 /\ Blocks \subseteq Nat /\ 0 \in Blocks
    /\ MemberEnds \subseteq Blocks /\ NumBlocks - 1 \in MemberEnds
    /\ \A k \in Blocks : BlockBits[k] \in Nat /\ BlockBits[k] >= 1 /\ BlockOut[k] \in Nat
    /\ \A k \in Blocks : k \notin MemberEnds => k + 1 \in Blocks
<1>1. Blocks = 0 .. NumBlocks - 1 /\ TrailerLen = 8
  BY DEF Blocks, TrailerLen
<1>2. /\ NumBlocks \in Nat /\ NumBlocks >= 1 /\ Window \in Nat /\ Window >= 1
      /\ HeaderLen \in Nat /\ HeaderLen >= 10
      /\ MemberEnds \subseteq Blocks /\ NumBlocks - 1 \in MemberEnds
  BY GzipInputAssumption DEF MinHeader
<1>3. BlockBits \in [Blocks -> Nat \ {0}] /\ BlockOut \in [Blocks -> Nat]
  BY GzipInputAssumption
<1>4. \A k \in Blocks : BlockBits[k] \in Nat /\ BlockBits[k] >= 1 /\ BlockOut[k] \in Nat
  BY <1>3
<1>5. \A k \in Blocks : k \notin MemberEnds => k + 1 \in Blocks
  BY <1>1, <1>2
<1> QED BY <1>1, <1>2, <1>4, <1>5

\* The end-of-block symbol of a block has a length of the format.
LEMMA EobLengths ==
    \A k \in Blocks : EobBits[k] \in Nat /\ EobBits[k] >= 1 /\ EobBits[k] <= 15
<1>1. EobBits \in [Blocks -> 1 .. 15]
  BY GzipInputAssumption
<1> QED BY <1>1

\* Where the blocks start.
LEMMA BlockStarts ==
    /\ BlockStart \in [Blocks -> Nat] /\ BlockStart[0] = 8 * HeaderLen
    /\ \A k \in Blocks : k + 1 \in Blocks =>
          BlockStart[k + 1] = IF k \in MemberEnds THEN 8 * (MemberLimit(k) + HeaderLen)
                                                  ELSE BlockEnd(k)
<1> USE Constants
<1> DEFINE Body(g) == [k \in Blocks |->
                 IF k = 0 THEN 8 * HeaderLen
                 ELSE IF k - 1 \in MemberEnds
                 THEN 8 * (BytesOfBits(g[k - 1] + BlockBits[k - 1]) + TrailerLen + HeaderLen)
                 ELSE g[k - 1] + BlockBits[k - 1]]
           Bits(k) == IF k \in Blocks THEN BlockBits[k] ELSE 0
           F == [p \in Nat \X Nat |->
                   IF p[2] - 1 \in MemberEnds
                   THEN 8 * (BytesOfBits(p[1] + Bits(p[2] - 1)) + TrailerLen + HeaderLen)
                   ELSE p[1] + Bits(p[2] - 1)]
<1>1. PICK g : g \in [Blocks -> Nat] /\ g = Body(g)
  <2>0. \A k \in Int : Bits(k) \in Nat
    OBVIOUS
  <2>1. IsStep(F, Nat)
    <3> SUFFICES ASSUME NEW x \in Nat, NEW k \in Nat PROVE F[<<x, k>>] \in Nat
      BY DEF IsStep
    <3>1. Bits(k - 1) \in Nat
      BY <2>0
    <3> HIDE DEF Bits
    <3>2. x + Bits(k - 1) \in Nat
      BY <3>1
    <3>4. BytesOfBits(x + Bits(k - 1)) \in Nat
      BY <3>2, ByteRounding
    <3>3. F[<<x, k>>] = IF k - 1 \in MemberEnds
                        THEN 8 * (BytesOfBits(x + Bits(k - 1)) + TrailerLen + HeaderLen)
                        ELSE x + Bits(k - 1)
      OBVIOUS
    <3> QED BY <3>2, <3>3, <3>4
  <2>2. PICK g : IsIteration(g, Nat, 8 * HeaderLen, NumBlocks - 1, F)
    <3>1. 8 * HeaderLen \in Nat /\ NumBlocks - 1 \in Nat
      OBVIOUS
    <3> HIDE DEF F
    <3> QED BY <2>1, <3>1, RecursionExists
  <2>3. g \in [Blocks -> Nat] /\ g[0] = 8 * HeaderLen
    BY <2>2 DEF IsIteration
  <2>4. ASSUME NEW k \in Blocks PROVE g[k] = Body(g)[k]
    <3>1. CASE k = 0
      BY <3>1, <2>3
    <3>2. CASE k # 0
      <4>1. k \in 1 .. NumBlocks - 1 /\ k - 1 \in Blocks /\ g[k - 1] \in Nat
        BY <3>2, <2>3
      <4>2. g[k] = F[<<g[k - 1], k>>]
        BY <4>1, <2>2 DEF IsIteration
      <4>3. Bits(k - 1) = BlockBits[k - 1]
        BY <4>1
      <4> QED BY <4>1, <4>2, <4>3, <3>2
    <3> QED BY <3>1, <3>2
  <2>5. g = [k \in Blocks |-> g[k]]
    BY <2>3
  <2>6. g = Body(g)
    BY <2>4, <2>5, Zenon
  <2> HIDE DEF Body
  <2> QED BY <2>3, <2>6
<1>2. BlockStart = Body(BlockStart)
  <2>1. BlockStart = CHOOSE h : h = Body(h)
    BY Zenon DEF BlockStart
  <2>2. \E h : h = Body(h)
    BY <1>1
  <2> HIDE DEF Body
  <2> QED BY <2>1, <2>2
<1>3. \A k \in Blocks : BlockStart[k] = Body(BlockStart)[k]
  BY <1>2
<1>4. BlockStart = [k \in Blocks |-> BlockStart[k]]
  BY <1>2
<1>5. BlockStart[0] = 8 * HeaderLen
  BY <1>3
<1>6. ASSUME NEW k \in Blocks, k + 1 \in Blocks
      PROVE BlockStart[k + 1] = IF k \in MemberEnds THEN 8 * (MemberLimit(k) + HeaderLen) ELSE BlockEnd(k)
  <2>1. k + 1 # 0 /\ (k + 1) - 1 = k
    OBVIOUS
  <2>2. BlockStart[k + 1] = IF (k + 1) - 1 \in MemberEnds
                 THEN 8 * (BytesOfBits(BlockStart[(k + 1) - 1] + BlockBits[(k + 1) - 1]) + TrailerLen + HeaderLen)
                 ELSE BlockStart[(k + 1) - 1] + BlockBits[(k + 1) - 1]
    BY <1>3, <1>6, <2>1
  <2> QED BY <2>1, <2>2 DEF MemberLimit, TrailerAt, BlockEnd
<1>7. \A k \in Blocks : BlockStart[k] \in Nat
  <2> DEFINE S == {k \in Blocks : BlockStart[k] \in Nat}
  <2>1. 0 \in S
    BY <1>5
  <2>2. ASSUME NEW k \in 0 .. (NumBlocks - 1) - 1, k \in S PROVE k + 1 \in S
    <3>1. k \in Blocks /\ k + 1 \in Blocks /\ BlockStart[k] \in Nat /\ BlockEnd(k) \in Nat
      BY <2>2 DEF BlockEnd
    <3>2. BytesOfBits(BlockEnd(k)) \in Nat
      BY <3>1, ByteRounding
    <3>4. MemberLimit(k) \in Nat
      BY <3>2 DEF MemberLimit, TrailerAt
    <3>3. BlockStart[k + 1] \in Nat
      BY <3>1, <3>4, <1>6, SMTT(30)
    <3> QED BY <3>1, <3>3
  <2>3. \A k \in 0 .. NumBlocks - 1 : k \in S
    <3> HIDE DEF S
    <3> QED BY <2>1, <2>2, UpTo
  <2> QED BY <2>3
<1> QED BY <1>4, <1>5, <1>6, <1>7

\* Where their output starts.
LEMMA OutStarts ==
    /\ OutStart \in [Blocks -> Nat] /\ OutStart[0] = 0
    /\ \A k \in Blocks : k + 1 \in Blocks => OutStart[k + 1] = OutEnd(k)
<1> USE Constants
<1> DEFINE Body(g) == [k \in Blocks |-> IF k = 0 THEN 0 ELSE g[k - 1] + BlockOut[k - 1]]
           Size(k) == IF k \in Blocks THEN BlockOut[k] ELSE 0
           F == [p \in Nat \X Nat |-> p[1] + Size(p[2] - 1)]
<1>1. PICK g : g \in [Blocks -> Nat] /\ g = Body(g)
  <2>1. IsStep(F, Nat)
    BY DEF IsStep
  <2>2. PICK g : IsIteration(g, Nat, 0, NumBlocks - 1, F)
    <3>1. NumBlocks - 1 \in Nat
      OBVIOUS
    <3> HIDE DEF F
    <3> QED BY <2>1, <3>1, RecursionExists
  <2>3. g \in [Blocks -> Nat] /\ g[0] = 0
    BY <2>2 DEF IsIteration
  <2>4. ASSUME NEW k \in Blocks PROVE g[k] = Body(g)[k]
    <3>1. CASE k = 0
      BY <3>1, <2>3
    <3>2. CASE k # 0
      <4>1. k \in 1 .. NumBlocks - 1 /\ k - 1 \in Blocks /\ g[k - 1] \in Nat
        BY <3>2, <2>3
      <4>2. g[k] = F[<<g[k - 1], k>>]
        BY <4>1, <2>2 DEF IsIteration
      <4>3. Size(k - 1) = BlockOut[k - 1]
        BY <4>1
      <4> QED BY <4>1, <4>2, <4>3, <3>2
    <3> QED BY <3>1, <3>2
  <2>5. g = [k \in Blocks |-> g[k]]
    BY <2>3
  <2>6. g = Body(g)
    BY <2>4, <2>5, Zenon
  <2> HIDE DEF Body
  <2> QED BY <2>3, <2>6
<1>2. OutStart = Body(OutStart)
  <2>1. OutStart = CHOOSE h : h = Body(h)
    BY Zenon DEF OutStart
  <2>2. \E h : h = Body(h)
    BY <1>1
  <2> HIDE DEF Body
  <2> QED BY <2>1, <2>2
<1>3. \A k \in Blocks : OutStart[k] = Body(OutStart)[k]
  BY <1>2
<1>4. OutStart = [k \in Blocks |-> OutStart[k]]
  BY <1>2
<1>5. OutStart[0] = 0
  BY <1>3
<1>6. ASSUME NEW k \in Blocks, k + 1 \in Blocks PROVE OutStart[k + 1] = OutEnd(k)
  <2>1. k + 1 # 0 /\ (k + 1) - 1 = k
    OBVIOUS
  <2>2. OutStart[k + 1] = OutStart[(k + 1) - 1] + BlockOut[(k + 1) - 1]
    BY <1>3, <1>6, <2>1
  <2> QED BY <2>1, <2>2 DEF OutEnd
<1>7. \A k \in Blocks : OutStart[k] \in Nat
  <2> DEFINE S == {k \in Blocks : OutStart[k] \in Nat}
  <2>1. 0 \in S
    BY <1>5
  <2>2. ASSUME NEW k \in 0 .. (NumBlocks - 1) - 1, k \in S PROVE k + 1 \in S
    <3>1. k \in Blocks /\ k + 1 \in Blocks /\ OutStart[k] \in Nat /\ OutEnd(k) \in Nat
      BY <2>2 DEF OutEnd
    <3> QED BY <3>1, <1>6
  <2>3. \A k \in 0 .. NumBlocks - 1 : k \in S
    <3> HIDE DEF S
    <3> QED BY <2>1, <2>2, UpTo
  <2> QED BY <2>3
<1> QED BY <1>4, <1>5, <1>6, <1>7

\* Bit and byte positions and outputs are numbers, and a block has a length.
LEMMA Positions ==
    ASSUME NEW k \in Blocks
    PROVE  /\ k \in Nat /\ BlockStart[k] \in Nat /\ BlockEnd(k) \in Nat /\ BlockEnd(k) > BlockStart[k]
           /\ OutStart[k] \in Nat /\ OutEnd(k) \in Nat
           /\ OutEnd(k) = OutStart[k] + BlockOut[k] /\ OutEnd(k) >= OutStart[k]
           /\ TrailerAt(k) \in Nat /\ 8 * TrailerAt(k) >= BlockEnd(k)
           /\ MemberLimit(k) = TrailerAt(k) + 8
           /\ NeedsBits(k) \in Nat /\ NeedsBits(k) >= BlockEnd(k)
<1> USE Constants
<1>1. BlockStart[k] \in Nat /\ OutStart[k] \in Nat
  BY BlockStarts, OutStarts
<1>2. BlockEnd(k) \in Nat /\ BlockEnd(k) > BlockStart[k]
  BY <1>1 DEF BlockEnd
<1>3. OutEnd(k) \in Nat /\ OutEnd(k) = OutStart[k] + BlockOut[k] /\ OutEnd(k) >= OutStart[k]
  BY <1>1 DEF OutEnd
<1>4. TrailerAt(k) \in Nat /\ 8 * TrailerAt(k) >= BlockEnd(k)
  BY <1>2, ByteRounding DEF TrailerAt
<1>5. MemberLimit(k) = TrailerAt(k) + 8
  BY DEF MemberLimit
<1>6. NeedsBits(k) \in Nat /\ NeedsBits(k) >= BlockEnd(k)
  BY <1>2, EobLengths DEF NeedsBits, NEEDED
<1> QED BY <1>1, <1>2, <1>3, <1>4, <1>5, <1>6

\* Block k comes after block j, and so do its output and its member.
Follows(j, k) ==
    /\ BlockEnd(j) <= BlockStart[k] /\ OutEnd(j) <= OutStart[k]
    /\ j \in MemberEnds => 8 * (MemberLimit(j) + HeaderLen) <= BlockStart[k]

\* A block comes after the one before it.
LEMMA NextFollows ==
    ASSUME NEW j \in Blocks, j + 1 \in Blocks
    PROVE  Follows(j, j + 1)
<1>1. BlockStart[j + 1] = IF j \in MemberEnds THEN 8 * (MemberLimit(j) + HeaderLen) ELSE BlockEnd(j)
  BY BlockStarts
<1>2. OutStart[j + 1] = OutEnd(j)
  BY OutStarts
<1>3. /\ OutEnd(j) \in Nat /\ BlockEnd(j) \in Nat /\ TrailerAt(j) \in Nat
      /\ 8 * TrailerAt(j) >= BlockEnd(j) /\ MemberLimit(j) = TrailerAt(j) + 8
  BY Positions
<1>4. HeaderLen \in Nat
  BY Constants
<1>5. BlockEnd(j) <= BlockStart[j + 1]
  BY <1>1, <1>3, <1>4
<1>6. j \in MemberEnds => 8 * (MemberLimit(j) + HeaderLen) <= BlockStart[j + 1]
  BY <1>1, <1>3, <1>4
<1> QED BY <1>2, <1>3, <1>5, <1>6 DEF Follows

\* The order of the blocks is transitive.
LEMMA FollowsOn ==
    ASSUME NEW j \in Blocks, NEW a \in Blocks, a + 1 \in Blocks, Follows(j, a)
    PROVE  Follows(j, a + 1)
<1>1. /\ BlockEnd(a) <= BlockStart[a + 1] /\ OutEnd(a) <= OutStart[a + 1]
  BY NextFollows DEF Follows
<1>2. /\ BlockEnd(a) > BlockStart[a] /\ OutEnd(a) >= OutStart[a]
      /\ BlockStart[a] \in Nat /\ BlockEnd(a) \in Nat /\ OutStart[a] \in Nat /\ OutEnd(a) \in Nat
  BY Positions
<1>3. BlockStart[a + 1] \in Nat /\ OutStart[a + 1] \in Nat
  BY Positions
<1>4. BlockEnd(j) \in Nat /\ OutEnd(j) \in Nat /\ MemberLimit(j) \in Nat
  <2>1. BlockEnd(j) \in Nat /\ OutEnd(j) \in Nat /\ TrailerAt(j) \in Nat /\ MemberLimit(j) = TrailerAt(j) + 8
    BY Positions
  <2> QED BY <2>1
<1>5. HeaderLen \in Nat
  BY Constants
<1> QED BY <1>1, <1>2, <1>3, <1>4, <1>5 DEF Follows

\* Blocks, outputs and members follow each other.
LEMMA Order ==
    ASSUME NEW j \in Blocks, NEW k \in Blocks, j < k
    PROVE  Follows(j, k)
<1> DEFINE S == {i \in Nat : j + 1 + i \in Blocks => Follows(j, j + 1 + i)}
           n == k - (j + 1)
<1>1. n \in Nat /\ j + 1 + n = k /\ j + 1 \in Blocks /\ j \in Nat
  BY Constants
<1>2. 0 \in S
  <2>1. Follows(j, j + 1)
    BY <1>1, NextFollows
  <2>2. j + 1 + 0 = j + 1
    BY <1>1
  <2> QED BY <2>1, <2>2
<1>3. ASSUME NEW i \in 0 .. n - 1, i \in S PROVE i + 1 \in S
  <2> DEFINE a == j + 1 + i
  <2>1. a \in Blocks /\ a + 1 \in Blocks /\ j + 1 + (i + 1) = a + 1 /\ i + 1 \in Nat
    BY <1>1, Constants
  <2>2. Follows(j, a)
    BY <1>3, <2>1
  <2>3. Follows(j, a + 1)
    <3> HIDE DEF a
    <3> QED BY <2>1, <2>2, FollowsOn
  <2>4. Follows(j, j + 1 + (i + 1))
    BY <2>1, <2>3
  <2> QED BY <2>1, <2>4
<1>4. \A i \in 0 .. n : i \in S
  <2> HIDE DEF S, n
  <2> QED BY <1>1, <1>2, <1>3, UpTo
<1>5. n \in S
  <2> HIDE DEF S
  <2> QED BY <1>1, <1>4
<1> QED BY <1>1, <1>5

\* A bit is the start of at most one block.
LEMMA OneBlockHere ==
    ASSUME NEW j \in Blocks, NEW k \in Blocks, BlockStart[j] = BlockStart[k]
    PROVE  j = k
<1>1. CASE j < k
  <2>1. BlockEnd(j) <= BlockStart[k] /\ BlockEnd(j) > BlockStart[j]
    BY <1>1, Order, Positions DEF Follows
  <2> QED BY <2>1, Positions
<1>2. CASE k < j
  <2>1. BlockEnd(k) <= BlockStart[j] /\ BlockEnd(k) > BlockStart[k]
    BY <1>2, Order, Positions DEF Follows
  <2> QED BY <2>1, Positions
<1> QED BY <1>1, <1>2, Positions

\* s is the first block of the member of block k.
StartsMember(s, k) ==
    /\ s \in 0 .. k
    /\ s = 0 \/ s - 1 \in MemberEnds
    /\ \A j \in s .. k - 1 : j \notin MemberEnds

\* Every block is in one member.
LEMMA MemberStarts ==
    ASSUME NEW k \in Blocks
    PROVE  /\ StartsMember(MemberStart(k), k)
           /\ \A s : StartsMember(s, k) => s = MemberStart(k)
<1> USE Constants
<1> DEFINE S == {i \in Blocks : \E s : StartsMember(s, i)}
<1>1. 0 \in S
  <2>1. StartsMember(0, 0)
    BY DEF StartsMember
  <2> QED BY <2>1
<1>2. ASSUME NEW i \in 0 .. k - 1, i \in S PROVE i + 1 \in S
  <2>1. i + 1 \in Blocks /\ i \in Nat
    OBVIOUS
  <2>2. PICK s : StartsMember(s, i)
    BY <1>2
  <2>3. CASE i \in MemberEnds
    <3>1. StartsMember(i + 1, i + 1)
      BY <2>1, <2>3 DEF StartsMember
    <3> QED BY <2>1, <3>1
  <2>4. CASE i \notin MemberEnds
    <3>1. StartsMember(s, i + 1)
      BY <2>1, <2>2, <2>4 DEF StartsMember
    <3> QED BY <2>1, <3>1
  <2> QED BY <2>3, <2>4
<1>3. k \in S
  <2>1. \A i \in 0 .. k : i \in S
    <3> HIDE DEF S
    <3> QED BY <1>1, <1>2, UpTo
  <2> HIDE DEF S
  <2> QED BY <2>1
<1>4. PICK s : StartsMember(s, k)
  BY <1>3
<1>5. StartsMember(MemberStart(k), k)
  <2>1. s \in 0 .. k /\ (s = 0 \/ s - 1 \in MemberEnds) /\ \A j \in s .. k - 1 : j \notin MemberEnds
    BY <1>4 DEF StartsMember
  <2> QED BY <2>1 DEF MemberStart, StartsMember
<1>6. ASSUME NEW a, NEW b, StartsMember(a, k), StartsMember(b, k), a < b PROVE FALSE
  <2>1. a \in Nat /\ b \in Nat /\ b <= k /\ b - 1 \in MemberEnds /\ b - 1 \in a .. k - 1
    BY <1>6 DEF StartsMember
  <2> QED BY <2>1, <1>6 DEF StartsMember
<1>7. ASSUME NEW a, StartsMember(a, k) PROVE a = MemberStart(k)
  <2>1. a \in Nat /\ MemberStart(k) \in Nat
    BY <1>5, <1>7 DEF StartsMember
  <2>2. ~(a < MemberStart(k)) /\ ~(MemberStart(k) < a)
    BY <1>5, <1>6, <1>7
  <2> QED BY <2>1, <2>2
<1> QED BY <1>5, <1>7

\* The first blocks of members, and the blocks that continue one.
LEMMA Members ==
    /\ FirstBlocks = {k \in Blocks : k = 0 \/ k - 1 \in MemberEnds}
    /\ \A k \in Blocks : /\ MemberStart(k) \in FirstBlocks /\ MemberStart(k) <= k
                         /\ OutStart[MemberStart(k)] <= OutStart[k]
    /\ \A k \in Blocks : k \notin MemberEnds => MemberStart(k + 1) = MemberStart(k)
    /\ \A k \in FirstBlocks : k \in Blocks /\ MemberStart(k) = k
<1> USE Constants
<1>1. ASSUME NEW k \in Blocks PROVE MemberStart(k) = k <=> (k = 0 \/ k - 1 \in MemberEnds)
  <2>1. CASE k = 0 \/ k - 1 \in MemberEnds
    <3>1. StartsMember(k, k)
      BY <2>1 DEF StartsMember
    <3> QED BY <2>1, <3>1, MemberStarts
  <2>2. CASE MemberStart(k) = k
    BY <2>2, MemberStarts DEF StartsMember
  <2> QED BY <2>1, <2>2
<1>2. FirstBlocks = {k \in Blocks : k = 0 \/ k - 1 \in MemberEnds}
  BY <1>1, Zenon DEF FirstBlocks
<1>3. ASSUME NEW k \in Blocks
      PROVE  /\ MemberStart(k) \in FirstBlocks /\ MemberStart(k) <= k
             /\ OutStart[MemberStart(k)] <= OutStart[k]
  <2> DEFINE s == MemberStart(k)
  <2>1. s \in 0 .. k /\ (s = 0 \/ s - 1 \in MemberEnds)
    BY MemberStarts DEF StartsMember
  <2> HIDE DEF s
  <2>2. s \in Blocks /\ s \in FirstBlocks /\ s <= k
    BY <1>2, <2>1
  <2>3. OutStart[s] <= OutStart[k]
    <3>0. OutStart[k] \in Nat /\ OutStart[s] \in Nat /\ OutEnd(s) \in Nat /\ OutEnd(s) >= OutStart[s]
      BY <2>2, Positions
    <3>1. CASE s = k
      BY <3>0, <3>1
    <3>2. CASE s # k
      <4>1. s < k
        BY <2>1, <3>2
      <4>2. OutEnd(s) <= OutStart[k]
        BY <2>2, <4>1, Order DEF Follows
      <4> QED BY <3>0, <4>2
    <3> QED BY <3>1, <3>2
  <2> QED BY <2>2, <2>3 DEF s
<1>4. ASSUME NEW k \in Blocks, k \notin MemberEnds PROVE MemberStart(k + 1) = MemberStart(k)
  <2>1. StartsMember(MemberStart(k), k + 1)
    BY <1>4, MemberStarts DEF StartsMember
  <2>2. k + 1 \in Blocks
    BY <1>4
  <2> QED BY <2>1, <2>2, MemberStarts
<1> QED BY <1>1, <1>2, <1>3, <1>4 DEF FirstBlocks

\* The blocks at which a member starts, and the end of the input; the byte
\* where the header is, or would be, and the output so far.
Boundaries == {b \in 0 .. NumBlocks : b = 0 \/ b - 1 \in MemberEnds}
HdrAt(b) == IF b = 0 THEN 0 ELSE MemberLimit(b - 1)
OutAt(b) == IF b = 0 THEN 0 ELSE OutEnd(b - 1)

\* The boundaries are numbers in ascending order, the last the end of it all.
LEMMA BoundaryNumbers ==
    ASSUME NEW b \in Boundaries
    PROVE  /\ b \in Nat /\ b <= NumBlocks /\ HdrAt(b) \in Nat /\ OutAt(b) \in Nat
           /\ OutAt(b) <= OutEnd(NumBlocks - 1)
           /\ b \notin Blocks => /\ b = NumBlocks /\ HdrAt(b) = MemberLimit(NumBlocks - 1)
                                 /\ OutAt(b) = OutEnd(NumBlocks - 1)
<1> DEFINE z == NumBlocks - 1
<1>0. /\ NumBlocks \in Nat /\ NumBlocks >= 1 /\ Blocks = 0 .. NumBlocks - 1 /\ z \in Blocks
      /\ MemberEnds \subseteq Blocks
  BY Constants
<1>1. b \in Nat /\ b <= NumBlocks /\ (b = 0 \/ b - 1 \in Blocks)
  BY <1>0 DEF Boundaries
<1> HIDE DEF z
<1>2. OutEnd(z) \in Nat /\ OutStart[z] \in Nat /\ OutEnd(z) >= OutStart[z]
  BY <1>0, Positions
<1>3. CASE b = 0
  <2>1. HdrAt(b) = 0 /\ OutAt(b) = 0 /\ b \in Blocks
    BY <1>3, <1>0 DEF HdrAt, OutAt
  <2> QED BY <1>1, <1>2, <2>1 DEF z
<1>4. CASE b # 0
  <2>1. b - 1 \in Blocks /\ HdrAt(b) = MemberLimit(b - 1) /\ OutAt(b) = OutEnd(b - 1)
    BY <1>1, <1>4 DEF HdrAt, OutAt
  <2>2. TrailerAt(b - 1) \in Nat /\ MemberLimit(b - 1) = TrailerAt(b - 1) + 8 /\ OutEnd(b - 1) \in Nat
    BY <2>1, Positions
  <2>3. OutEnd(b - 1) <= OutEnd(z)
    <3>1. CASE b - 1 = z
      BY <3>1, <1>2
    <3>2. CASE b - 1 # z
      <4>1. b - 1 < z
        BY <3>2, <1>0, <2>1 DEF z
      <4>2. OutEnd(b - 1) <= OutStart[z]
        BY <4>1, <2>1, <1>0, Order DEF Follows
      <4> QED BY <4>2, <1>2, <2>2
    <3> QED BY <3>1, <3>2
  <2>4. b \notin Blocks => b = NumBlocks /\ b - 1 = z
    BY <1>0, <1>1 DEF z
  <2>5. HdrAt(b) \in Nat /\ OutAt(b) \in Nat
    BY <2>1, <2>2
  <2> QED BY <1>1, <2>1, <2>3, <2>4, <2>5 DEF z
<1> QED BY <1>3, <1>4

\* A boundary before a block is the start of a member.
LEMMA BoundaryStarts ==
    ASSUME NEW b \in Boundaries, b \in Blocks
    PROVE  /\ b \in FirstBlocks /\ HeaderAt(b) = HdrAt(b) /\ OutStart[b] = OutAt(b)
           /\ BlockStart[b] = 8 * (HdrAt(b) + HeaderLen) /\ MemberStart(b) = b
<1>0. HeaderLen \in Nat /\ Blocks = 0 .. NumBlocks - 1 /\ NumBlocks \in Nat
  BY Constants
<1>1. b \in FirstBlocks /\ (b = 0 \/ b - 1 \in MemberEnds)
  BY Members DEF Boundaries
<1>2. MemberStart(b) = b
  BY <1>1, Members
<1>3. BlockStart[b] = 8 * (HdrAt(b) + HeaderLen) /\ OutStart[b] = OutAt(b)
  <2>1. CASE b = 0
    <3>1. HdrAt(b) = 0 /\ OutAt(b) = 0 /\ BlockStart[b] = 8 * HeaderLen /\ OutStart[b] = 0
      BY <2>1, BlockStarts, OutStarts DEF HdrAt, OutAt
    <3> QED BY <3>1, <1>0
  <2>2. CASE b # 0
    <3>1. b - 1 \in Blocks /\ (b - 1) + 1 = b /\ b - 1 \in MemberEnds
      BY <2>2, <1>0, <1>1
    <3>2. PICK j : j = b - 1 /\ j \in Blocks /\ j + 1 = b /\ j \in MemberEnds
      BY <3>1
    <3>3. BlockStart[j + 1] = 8 * (MemberLimit(j) + HeaderLen)
      BY <3>2, BlockStarts
    <3>4. OutStart[j + 1] = OutEnd(j)
      BY <3>2, OutStarts
    <3>5. HdrAt(b) = MemberLimit(j) /\ OutAt(b) = OutEnd(j)
      BY <2>2, <3>2 DEF HdrAt, OutAt
    <3> QED BY <3>2, <3>3, <3>4, <3>5
  <2> QED BY <2>1, <2>2
<1>4. HeaderAt(b) = HdrAt(b)
  <2>1. PICK h \in Nat : h = HdrAt(b)
    BY BoundaryNumbers
  <2>2. PICK m \in Nat : m = h + HeaderLen
    BY <1>0
  <2>3. (8 * m) \div 8 = m
    BY WholeBytes
  <2>4. BlockStart[b] \div 8 = h + HeaderLen
    BY <1>3, <2>1, <2>2, <2>3
  <2> QED BY <2>1, <2>4, <1>0 DEF HeaderAt
<1> QED BY <1>1, <1>2, <1>3, <1>4

\* The first blocks of members are boundaries.
LEMMA FirstIsBoundary == \A k \in FirstBlocks : k \in Boundaries /\ k \in Blocks
<1>1. \A k \in FirstBlocks : k \in Blocks /\ (k = 0 \/ k - 1 \in MemberEnds)
  BY Members
<1>2. \A k \in Blocks : k \in 0 .. NumBlocks
  BY Constants
<1> QED BY <1>1, <1>2 DEF Boundaries

\* A header is that of one member only.
LEMMA OneHeaderHere ==
    ASSUME NEW k \in FirstBlocks, NEW b \in Boundaries, b \in Blocks, HeaderAt(k) = HdrAt(b)
    PROVE  k = b
<1>1. k \in Boundaries /\ k \in Blocks
  BY FirstIsBoundary
<1>2. HeaderAt(k) = HdrAt(k) /\ BlockStart[k] = 8 * (HdrAt(k) + HeaderLen)
  BY <1>1, BoundaryStarts
<1>3. BlockStart[b] = 8 * (HdrAt(b) + HeaderLen)
  BY BoundaryStarts
<1>4. BlockStart[k] = BlockStart[b]
  BY <1>2, <1>3
<1> QED BY <1>1, <1>4, OneBlockHere

\* After the end of a member there is a boundary.
LEMMA AfterMember ==
    ASSUME NEW k \in MemberEnds
    PROVE  /\ k \in Blocks /\ k + 1 \in Boundaries
           /\ HdrAt(k + 1) = MemberLimit(k) /\ OutAt(k + 1) = OutEnd(k)
<1>1. k \in Nat /\ k \in Blocks /\ k + 1 \in 0 .. NumBlocks /\ k + 1 # 0 /\ (k + 1) - 1 = k
  BY Constants
<1> QED BY <1>1 DEF Boundaries, HdrAt, OutAt

\* The last block of a member.
LEMMA LastBlocks ==
    ASSUME NEW k \in Blocks
    PROVE  /\ LastBlock(k) \in MemberEnds /\ LastBlock(k) \in Blocks /\ k <= LastBlock(k)
           /\ \A e \in MemberEnds : e >= k => LastBlock(k) <= e
           /\ MemberStart(LastBlock(k)) = MemberStart(k)
<1> DEFINE T == {e \in MemberEnds : e >= k}
<1>0. MemberEnds \subseteq Blocks /\ Blocks \subseteq Nat /\ NumBlocks - 1 \in MemberEnds
      /\ Blocks = 0 .. NumBlocks - 1 /\ NumBlocks \in Nat
  BY Constants
<1>1. T \subseteq Nat /\ NumBlocks - 1 \in T
  <2>1. T \subseteq Nat
    BY <1>0
  <2>2. NumBlocks - 1 >= k
    BY <1>0
  <2> QED BY <1>0, <2>1, <2>2
<1>2. Min(T) \in T /\ \A y \in T : Min(T) <= y
  <2> HIDE DEF T
  <2> QED BY <1>1, MinProperty
<1>3. PICK l : l = LastBlock(k) /\ l \in MemberEnds /\ l >= k /\ \A e \in MemberEnds : e >= k => l <= e
  BY <1>2 DEF LastBlock
<1>4. l \in Blocks
  BY <1>0, <1>3
<1>5. StartsMember(MemberStart(k), k)
  BY MemberStarts
<1>6. StartsMember(MemberStart(k), l)
  <2>1. PICK s : s = MemberStart(k) /\ StartsMember(s, k)
    BY <1>5
  <2>2. s \in 0 .. l /\ (s = 0 \/ s - 1 \in MemberEnds)
    BY <2>1, <1>0, <1>3, <1>4 DEF StartsMember
  <2>3. ASSUME NEW j \in s .. l - 1 PROVE j \notin MemberEnds
    <3>1. CASE j >= k
      BY <3>1, <1>0, <1>3, <1>4, <2>2
    <3>2. CASE ~(j >= k)
      <4>1. j \in s .. k - 1
        BY <3>2, <1>0, <2>2, <1>4
      <4> QED BY <4>1, <2>1 DEF StartsMember
    <3> QED BY <3>1, <3>2
  <2> QED BY <2>1, <2>2, <2>3 DEF StartsMember
<1>7. MemberStart(l) = MemberStart(k)
  BY <1>4, <1>6, MemberStarts
<1> QED BY <1>3, <1>4, <1>7

-----------------------------------------------------------------------------
(* The parsers. *)

\* The input does not reach past the last member.
LEMMA InputLength ==
    ASSUME NEW i \in Inputs
    PROVE  i.len \in Nat /\ i.len <= MemberLimit(NumBlocks - 1) /\ i.bgzf \subseteq FirstBlocks
<1>1. i.len \in 0 .. MemberLimit(NumBlocks - 1) /\ i.bgzf \subseteq FirstBlocks
  BY GzipInputAssumption
<1>2. MemberLimit(NumBlocks - 1) \in Nat
  <2>1. NumBlocks - 1 \in Blocks
    BY Constants
  <2>2. TrailerAt(NumBlocks - 1) \in Nat /\ MemberLimit(NumBlocks - 1) = TrailerAt(NumBlocks - 1) + 8
    BY <2>1, Positions
  <2> QED BY <2>2
<1> QED BY <1>1, <1>2

\* A header that parses is there, and its results are no others.
LEMMA HeaderParses ==
    ASSUME NEW at \in Nat, NEW avail \in Nat
    PROVE  /\ ParseHeader(at, avail) \in {"ok", "truncated", "header"}
           /\ ParseHeader(at, avail) = "ok" => at + HeaderLen <= avail
           /\ ParseHeader(at, avail) = "truncated" => avail - at < HeaderLen
  BY Constants DEF ParseHeader, MinHeader

\* A header that parses at a boundary is that of a member.
LEMMA HeaderAtBoundary ==
    ASSUME input \in Inputs, NEW b \in Boundaries, NEW avail \in Nat, avail <= input.len,
           ParseHeader(HdrAt(b), avail) = "ok"
    PROVE  b \in Blocks /\ HdrAt(b) + HeaderLen <= avail
<1>1. HdrAt(b) \in Nat /\ (b \notin Blocks => HdrAt(b) = MemberLimit(NumBlocks - 1))
  BY BoundaryNumbers
<1>2. HdrAt(b) + HeaderLen <= avail
  BY <1>1, HeaderParses
<1>3. input.len \in Nat /\ input.len <= MemberLimit(NumBlocks - 1) /\ HeaderLen \in Nat /\ HeaderLen >= 10
  BY InputLength, Constants
<1> QED BY <1>1, <1>2, <1>3

\* The results of a block decode.
LEMMA BlockDecodes ==
    ASSUME NEW bit, NEW avail \in Nat, NEW o, NEW r \in InflateBlock(bit, avail, o)
    PROVE  /\ r \in Blocks \cup {Eof, Invalid}
           /\ r \in Blocks => BlockStart[r] = bit /\ NeedsBits(r) <= 8 * avail /\ BlockEnd(r) <= 8 * avail
                              /\ r \notin {Eof, Invalid}
<1> DEFINE here == {k \in Blocks : /\ BlockStart[k] = bit
                                   /\ input.fault[k] # "deflate"
                                   /\ HasHistory(k, o)}
<1>0. Eof \notin Blocks /\ Invalid \notin Blocks
  BY Constants DEF Eof, Invalid
<1>1. CASE here = {}
  BY <1>0, <1>1 DEF InflateBlock
<1>2. CASE here # {}
  <2>1. PICK k \in here : r = IF NeedsBits(k) <= 8 * avail THEN k ELSE Eof
    BY <1>2 DEF InflateBlock
  <2>2. NeedsBits(k) \in Nat /\ NeedsBits(k) >= BlockEnd(k) /\ BlockEnd(k) \in Nat
    BY Positions
  <2> QED BY <1>0, <2>1, <2>2
<1> QED BY <1>1, <1>2

-----------------------------------------------------------------------------
(* Intervals of the output. *)

\* An interval is a sequence of its length.
LEMMA BytesType ==
    ASSUME NEW a \in Nat, NEW b \in Nat, a <= b
    PROVE  /\ Bytes(a, b) \in Seq(Nat) /\ Len(Bytes(a, b)) = b - a
           /\ \A i \in 1 .. b - a : Bytes(a, b)[i] = a + i - 1
           /\ Bytes(a, b) = <<>> <=> a = b
<1>1. PICK n \in Nat : n = b - a
  OBVIOUS
<1>2. Bytes(a, b) = [i \in 1 .. n |-> a + i - 1]
  BY <1>1 DEF Bytes
<1>3. \A i \in 1 .. n : a + i - 1 \in Nat
  OBVIOUS
<1>4. Bytes(a, b) \in Seq(Nat)
  BY <1>2, <1>3, IsASeq
<1>5. Len(Bytes(a, b)) = n
  BY <1>2, <1>4, LenProperties
<1>6. Bytes(a, b) = <<>> <=> n = 0
  BY <1>4, <1>5, EmptySeq, LenProperties
<1> QED BY <1>1, <1>2, <1>4, <1>5, <1>6

\* Two intervals that meet make one.
LEMMA BytesConcat ==
    ASSUME NEW a \in Nat, NEW b \in Nat, NEW c \in Nat, a <= b, b <= c
    PROVE  Bytes(a, b) \o Bytes(b, c) = Bytes(a, c)
<1>0. a <= c
  OBVIOUS
<1>a. PICK s \in Seq(Nat) : s = Bytes(a, b) /\ Len(s) = b - a
  BY BytesType
<1>b. PICK t \in Seq(Nat) : t = Bytes(b, c) /\ Len(t) = c - b
  BY BytesType
<1>c. PICK u \in Seq(Nat) : u = Bytes(a, c) /\ Len(u) = c - a
  BY <1>0, BytesType
<1>1. /\ s = Bytes(a, b) /\ t = Bytes(b, c) /\ u = Bytes(a, c)
      /\ Len(s) = b - a /\ Len(t) = c - b /\ Len(u) = c - a
  BY <1>a, <1>b, <1>c
<1>2. /\ \A i \in 1 .. b - a : s[i] = a + i - 1
      /\ \A i \in 1 .. c - b : t[i] = b + i - 1
      /\ \A i \in 1 .. c - a : u[i] = a + i - 1
  BY <1>0, <1>1, BytesType
<1>3. s \o t \in Seq(Nat) /\ Len(s \o t) = Len(s) + Len(t)
  BY ONLY s \in Seq(Nat), t \in Seq(Nat), ConcatProperties
<1>4. \A i \in 1 .. Len(s) + Len(t) : (s \o t)[i] = IF i <= Len(s) THEN s[i] ELSE t[i - Len(s)]
  BY ONLY s \in Seq(Nat), t \in Seq(Nat), ConcatProperties
<1>5. Len(s \o t) = Len(u)
  BY <1>1, <1>3
<1>6. ASSUME NEW i \in 1 .. Len(u) PROVE (s \o t)[i] = u[i]
  <2>1. i \in 1 .. c - a /\ i \in 1 .. Len(s) + Len(t) /\ i \in Nat
    BY <1>1
  <2>2. CASE i <= Len(s)
    <3>1. i \in 1 .. b - a
      BY <1>1, <2>1, <2>2
    <3> QED BY <1>2, <1>4, <2>1, <2>2, <3>1
  <2>3. CASE ~(i <= Len(s))
    <3>1. i - (b - a) \in 1 .. c - b /\ Len(s) = b - a
      BY <1>1, <2>1, <2>3
    <3>2. t[i - (b - a)] = b + (i - (b - a)) - 1
      BY <1>2, <3>1
    <3>3. b + (i - (b - a)) - 1 = a + i - 1
      BY <2>1
    <3> QED BY <1>2, <1>4, <2>1, <2>3, <3>1, <3>2, <3>3
  <2> QED BY <2>2, <2>3
<1>7. s \o t = u
  BY ONLY u \in Seq(Nat), s \o t \in Seq(Nat), <1>3, <1>5, <1>6, SeqEqual
<1> QED BY <1>1, <1>7

\* The places i .. j of the interval from a to b are the interval from x to y.
Places(a, b, i, j, x, y) ==
    /\ a \in Nat /\ b \in Nat /\ x \in Nat /\ y \in Nat
    /\ a <= x /\ x <= y /\ y <= b
    /\ i = x - a + 1 /\ j = y - a

\* A part of an interval is one.
LEMMA BytesPart ==
    ASSUME NEW a, NEW b, NEW i, NEW j, NEW x, NEW y, Places(a, b, i, j, x, y)
    PROVE  SubSeq(Bytes(a, b), i, j) = Bytes(x, y)
<1> USE DEF Places
<1>0. a <= b /\ x <= y /\ a \in Nat /\ b \in Nat /\ x \in Nat /\ y \in Nat
  OBVIOUS
<1>1. PICK s \in Seq(Nat) : s = Bytes(a, b) /\ Len(s) = b - a /\ \A n \in 1 .. b - a : s[n] = a + n - 1
  <2>1. Bytes(a, b) \in Seq(Nat) /\ Len(Bytes(a, b)) = b - a /\ \A n \in 1 .. b - a : Bytes(a, b)[n] = a + n - 1
    BY ONLY <1>0, BytesType
  <2> QED BY <2>1
<1>2. PICK u \in Seq(Nat) : u = Bytes(x, y) /\ Len(u) = y - x /\ \A n \in 1 .. y - x : u[n] = x + n - 1
  <2>1. Bytes(x, y) \in Seq(Nat) /\ Len(Bytes(x, y)) = y - x /\ \A n \in 1 .. y - x : Bytes(x, y)[n] = x + n - 1
    BY ONLY <1>0, BytesType
  <2> QED BY <2>1
<1>3. PICK m \in Nat : m = y - x /\ Len(u) = m /\ \A n \in 1 .. m : u[n] = x + n - 1
  BY <1>2
<1>4. SubSeq(s, i, j) = [n \in 1 .. m |-> s[i + n - 1]]
  <2>1. SubSeq(s, i, j) = [n \in 1 .. (1 + j) - i |-> s[n + i - 1]]
    BY <1>1
  <2>2. (1 + j) - i = m /\ i \in Nat
    BY <1>3
  <2> QED BY <2>1, <2>2
<1>5. ASSUME NEW n \in 1 .. m PROVE s[i + n - 1] = u[n]
  <2>1. i + n - 1 \in 1 .. b - a /\ a + (i + n - 1) - 1 = x + n - 1
    BY <1>3
  <2> QED BY <1>1, <1>3, <2>1
<1>6. u = [n \in 1 .. m |-> u[n]]
  BY <1>3, LenProperties
<1>7. SubSeq(s, i, j) = u
  BY <1>4, <1>5, <1>6
<1> QED BY <1>1, <1>2, <1>7

-----------------------------------------------------------------------------
(* The four decoders share the layout and the parsers. *)

\* The layout as SerialPipe sees it.
LEMMA PipeLayout ==
    /\ Pipe!Blocks = Blocks /\ Pipe!Eof = Eof /\ Pipe!Invalid = Invalid
    /\ Pipe!TrailerLen = TrailerLen
    /\ \A n : Pipe!BytesOfBits(n) = BytesOfBits(n)
    /\ Pipe!BlockStart = BlockStart /\ Pipe!OutStart = OutStart
    /\ \A k : Pipe!BlockEnd(k) = BlockEnd(k) /\ Pipe!OutEnd(k) = OutEnd(k)
    /\ \A k : Pipe!TrailerAt(k) = TrailerAt(k) /\ Pipe!MemberLimit(k) = MemberLimit(k)
    /\ \A k : Pipe!MemberStart(k) = MemberStart(k) /\ Pipe!LastBlock(k) = LastBlock(k)
    /\ \A k : Pipe!HeaderAt(k) = HeaderAt(k)
    /\ Pipe!FirstBlocks = FirstBlocks
    /\ \A a, b : Pipe!Bytes(a, b) = Bytes(a, b)
<1>1. Pipe!Blocks = Blocks /\ Pipe!Eof = Eof /\ Pipe!Invalid = Invalid /\ Pipe!TrailerLen = TrailerLen
  BY DEF Pipe!Blocks, Blocks, Pipe!Eof, Eof, Pipe!Invalid, Invalid, Pipe!TrailerLen, TrailerLen
<1>2. \A n : Pipe!BytesOfBits(n) = BytesOfBits(n)
  BY Zenon DEF Pipe!BytesOfBits, BytesOfBits
<1>3. Pipe!BlockStart = BlockStart
  BY Zenon DEF Pipe!BlockStart, BlockStart, Pipe!Blocks, Blocks, Pipe!TrailerLen, TrailerLen, Pipe!BytesOfBits, BytesOfBits
<1>4. Pipe!OutStart = OutStart
  BY Zenon DEF Pipe!OutStart, OutStart, Pipe!Blocks, Blocks
<1>5. \A k : Pipe!BlockEnd(k) = BlockEnd(k) /\ Pipe!OutEnd(k) = OutEnd(k)
  BY <1>3, <1>4, Zenon DEF Pipe!BlockEnd, BlockEnd, Pipe!OutEnd, OutEnd
<1>6. \A k : Pipe!TrailerAt(k) = TrailerAt(k) /\ Pipe!MemberLimit(k) = MemberLimit(k)
  BY <1>1, <1>2, <1>5, Zenon DEF Pipe!TrailerAt, TrailerAt, Pipe!MemberLimit, MemberLimit
<1>7. \A k : Pipe!MemberStart(k) = MemberStart(k) /\ Pipe!LastBlock(k) = LastBlock(k)
  BY Zenon DEF Pipe!MemberStart, MemberStart, Pipe!LastBlock, LastBlock, Pipe!Min, Min
<1>8. \A k : Pipe!HeaderAt(k) = HeaderAt(k)
  BY <1>3, Zenon DEF Pipe!HeaderAt, HeaderAt
<1>9. Pipe!FirstBlocks = FirstBlocks
  BY <1>1, Zenon DEF Pipe!FirstBlocks, FirstBlocks, Pipe!MemberStart, MemberStart
<1>10. \A a, b : Pipe!Bytes(a, b) = Bytes(a, b)
  BY Zenon DEF Pipe!Bytes, Bytes
<1> QED BY <1>1, <1>2, <1>3, <1>4, <1>5, <1>6, <1>7, <1>8, <1>9, <1>10

\* The parsers as SerialPipe sees them.
LEMMA PipeParsers ==
    /\ Pipe!NoBlockSize = NoBlockSize
    /\ \A k : Pipe!NeedsBits(k) = NeedsBits(k)
    /\ \A at, avail : Pipe!ParseHeader(at, avail) = ParseHeader(at, avail)
    /\ \A at, avail : Pipe!ParseBgzfBlockSize(at, avail) = ParseBgzfBlockSize(at, avail)
    /\ \A bit, avail, o : Pipe!InflateBlock(bit, avail, o) = InflateBlock(bit, avail, o)
    /\ \A at, c, n : Pipe!TrailerVerdict(at, c, n) = TrailerVerdict(at, c, n)
<1> USE PipeLayout
<1>1. Pipe!NoBlockSize = NoBlockSize
  BY Zenon DEF Pipe!NoBlockSize, NoBlockSize
<1>2. \A k : Pipe!NeedsBits(k) = NeedsBits(k)
  BY Zenon DEF Pipe!NeedsBits, NeedsBits, Pipe!NEEDED, NEEDED
<1>3. \A at, avail : Pipe!ParseHeader(at, avail) = ParseHeader(at, avail)
  BY Zenon DEF Pipe!ParseHeader, ParseHeader, Pipe!MinHeader, MinHeader
<1>4. \A at, avail : Pipe!ParseBgzfBlockSize(at, avail) = ParseBgzfBlockSize(at, avail)
  BY <1>1, Zenon DEF Pipe!ParseBgzfBlockSize, ParseBgzfBlockSize
<1>5. \A k, o : Pipe!HasHistory(k, o) = HasHistory(k, o)
  BY Zenon DEF Pipe!HasHistory, HasHistory, Pipe!Min, Min
<1>6. \A bit, avail, o : Pipe!InflateBlock(bit, avail, o) = InflateBlock(bit, avail, o)
  BY <1>2, <1>5, Zenon DEF Pipe!InflateBlock, InflateBlock
<1>7. \A at, c, n : Pipe!TrailerVerdict(at, c, n) = TrailerVerdict(at, c, n)
  BY Zenon DEF Pipe!TrailerVerdict, TrailerVerdict
<1> QED BY <1>1, <1>2, <1>3, <1>4, <1>6, <1>7

\* The layout as SerialFile sees it.
LEMMA FileLayout ==
    /\ File!Blocks = Blocks /\ File!Eof = Eof /\ File!Invalid = Invalid
    /\ File!TrailerLen = TrailerLen
    /\ \A n : File!BytesOfBits(n) = BytesOfBits(n)
    /\ File!BlockStart = BlockStart /\ File!OutStart = OutStart
    /\ \A k : File!BlockEnd(k) = BlockEnd(k) /\ File!OutEnd(k) = OutEnd(k)
    /\ \A k : File!TrailerAt(k) = TrailerAt(k) /\ File!MemberLimit(k) = MemberLimit(k)
    /\ \A k : File!MemberStart(k) = MemberStart(k) /\ File!LastBlock(k) = LastBlock(k)
    /\ \A k : File!HeaderAt(k) = HeaderAt(k)
    /\ File!FirstBlocks = FirstBlocks
    /\ \A a, b : File!Bytes(a, b) = Bytes(a, b)
<1>1. File!Blocks = Blocks /\ File!Eof = Eof /\ File!Invalid = Invalid /\ File!TrailerLen = TrailerLen
  BY DEF File!Blocks, Blocks, File!Eof, Eof, File!Invalid, Invalid, File!TrailerLen, TrailerLen
<1>2. \A n : File!BytesOfBits(n) = BytesOfBits(n)
  BY Zenon DEF File!BytesOfBits, BytesOfBits
<1>3. File!BlockStart = BlockStart
  BY Zenon DEF File!BlockStart, BlockStart, File!Blocks, Blocks, File!TrailerLen, TrailerLen, File!BytesOfBits, BytesOfBits
<1>4. File!OutStart = OutStart
  BY Zenon DEF File!OutStart, OutStart, File!Blocks, Blocks
<1>5. \A k : File!BlockEnd(k) = BlockEnd(k) /\ File!OutEnd(k) = OutEnd(k)
  BY <1>3, <1>4, Zenon DEF File!BlockEnd, BlockEnd, File!OutEnd, OutEnd
<1>6. \A k : File!TrailerAt(k) = TrailerAt(k) /\ File!MemberLimit(k) = MemberLimit(k)
  BY <1>1, <1>2, <1>5, Zenon DEF File!TrailerAt, TrailerAt, File!MemberLimit, MemberLimit
<1>7. \A k : File!MemberStart(k) = MemberStart(k) /\ File!LastBlock(k) = LastBlock(k)
  BY Zenon DEF File!MemberStart, MemberStart, File!LastBlock, LastBlock, File!Min, Min
<1>8. \A k : File!HeaderAt(k) = HeaderAt(k)
  BY <1>3, Zenon DEF File!HeaderAt, HeaderAt
<1>9. File!FirstBlocks = FirstBlocks
  BY <1>1, Zenon DEF File!FirstBlocks, FirstBlocks, File!MemberStart, MemberStart
<1>10. \A a, b : File!Bytes(a, b) = Bytes(a, b)
  BY Zenon DEF File!Bytes, Bytes
<1> QED BY <1>1, <1>2, <1>3, <1>4, <1>5, <1>6, <1>7, <1>8, <1>9, <1>10

\* The parsers as SerialFile sees them.
LEMMA FileParsers ==
    /\ File!NoBlockSize = NoBlockSize
    /\ \A k : File!NeedsBits(k) = NeedsBits(k)
    /\ \A at, avail : File!ParseHeader(at, avail) = ParseHeader(at, avail)
    /\ \A at, avail : File!ParseBgzfBlockSize(at, avail) = ParseBgzfBlockSize(at, avail)
    /\ \A bit, avail, o : File!InflateBlock(bit, avail, o) = InflateBlock(bit, avail, o)
    /\ \A at, c, n : File!TrailerVerdict(at, c, n) = TrailerVerdict(at, c, n)
<1> USE FileLayout
<1>1. File!NoBlockSize = NoBlockSize
  BY Zenon DEF File!NoBlockSize, NoBlockSize
<1>2. \A k : File!NeedsBits(k) = NeedsBits(k)
  BY Zenon DEF File!NeedsBits, NeedsBits, File!NEEDED, NEEDED
<1>3. \A at, avail : File!ParseHeader(at, avail) = ParseHeader(at, avail)
  BY Zenon DEF File!ParseHeader, ParseHeader, File!MinHeader, MinHeader
<1>4. \A at, avail : File!ParseBgzfBlockSize(at, avail) = ParseBgzfBlockSize(at, avail)
  BY <1>1, Zenon DEF File!ParseBgzfBlockSize, ParseBgzfBlockSize
<1>5. \A k, o : File!HasHistory(k, o) = HasHistory(k, o)
  BY Zenon DEF File!HasHistory, HasHistory, File!Min, Min
<1>6. \A bit, avail, o : File!InflateBlock(bit, avail, o) = InflateBlock(bit, avail, o)
  BY <1>2, <1>5, Zenon DEF File!InflateBlock, InflateBlock
<1>7. \A at, c, n : File!TrailerVerdict(at, c, n) = TrailerVerdict(at, c, n)
  BY Zenon DEF File!TrailerVerdict, TrailerVerdict
<1> QED BY <1>1, <1>2, <1>3, <1>4, <1>6, <1>7

\* The layout as ChunkChain sees it.
LEMMA ChunksLayout ==
    /\ Chunks!Blocks = Blocks /\ Chunks!Eof = Eof /\ Chunks!Invalid = Invalid
    /\ Chunks!TrailerLen = TrailerLen
    /\ \A n : Chunks!BytesOfBits(n) = BytesOfBits(n)
    /\ Chunks!BlockStart = BlockStart /\ Chunks!OutStart = OutStart
    /\ \A k : Chunks!BlockEnd(k) = BlockEnd(k) /\ Chunks!OutEnd(k) = OutEnd(k)
    /\ \A k : Chunks!TrailerAt(k) = TrailerAt(k) /\ Chunks!MemberLimit(k) = MemberLimit(k)
    /\ \A k : Chunks!MemberStart(k) = MemberStart(k) /\ Chunks!LastBlock(k) = LastBlock(k)
    /\ \A k : Chunks!HeaderAt(k) = HeaderAt(k)
    /\ Chunks!FirstBlocks = FirstBlocks
    /\ \A a, b : Chunks!Bytes(a, b) = Bytes(a, b)
<1>1. Chunks!Blocks = Blocks /\ Chunks!Eof = Eof /\ Chunks!Invalid = Invalid /\ Chunks!TrailerLen = TrailerLen
  BY DEF Chunks!Blocks, Blocks, Chunks!Eof, Eof, Chunks!Invalid, Invalid, Chunks!TrailerLen, TrailerLen
<1>2. \A n : Chunks!BytesOfBits(n) = BytesOfBits(n)
  BY Zenon DEF Chunks!BytesOfBits, BytesOfBits
<1>3. Chunks!BlockStart = BlockStart
  BY Zenon DEF Chunks!BlockStart, BlockStart, Chunks!Blocks, Blocks, Chunks!TrailerLen, TrailerLen, Chunks!BytesOfBits, BytesOfBits
<1>4. Chunks!OutStart = OutStart
  BY Zenon DEF Chunks!OutStart, OutStart, Chunks!Blocks, Blocks
<1>5. \A k : Chunks!BlockEnd(k) = BlockEnd(k) /\ Chunks!OutEnd(k) = OutEnd(k)
  BY <1>3, <1>4, Zenon DEF Chunks!BlockEnd, BlockEnd, Chunks!OutEnd, OutEnd
<1>6. \A k : Chunks!TrailerAt(k) = TrailerAt(k) /\ Chunks!MemberLimit(k) = MemberLimit(k)
  BY <1>1, <1>2, <1>5, Zenon DEF Chunks!TrailerAt, TrailerAt, Chunks!MemberLimit, MemberLimit
<1>7. \A k : Chunks!MemberStart(k) = MemberStart(k) /\ Chunks!LastBlock(k) = LastBlock(k)
  BY Zenon DEF Chunks!MemberStart, MemberStart, Chunks!LastBlock, LastBlock, Chunks!Min, Min
<1>8. \A k : Chunks!HeaderAt(k) = HeaderAt(k)
  BY <1>3, Zenon DEF Chunks!HeaderAt, HeaderAt
<1>9. Chunks!FirstBlocks = FirstBlocks
  BY <1>1, Zenon DEF Chunks!FirstBlocks, FirstBlocks, Chunks!MemberStart, MemberStart
<1>10. \A a, b : Chunks!Bytes(a, b) = Bytes(a, b)
  BY Zenon DEF Chunks!Bytes, Bytes
<1> QED BY <1>1, <1>2, <1>3, <1>4, <1>5, <1>6, <1>7, <1>8, <1>9, <1>10

\* The parsers as ChunkChain sees them.
LEMMA ChunksParsers ==
    /\ Chunks!NoBlockSize = NoBlockSize
    /\ \A k : Chunks!NeedsBits(k) = NeedsBits(k)
    /\ \A at, avail : Chunks!ParseHeader(at, avail) = ParseHeader(at, avail)
    /\ \A at, avail : Chunks!ParseBgzfBlockSize(at, avail) = ParseBgzfBlockSize(at, avail)
    /\ \A bit, avail, o : Chunks!InflateBlock(bit, avail, o) = InflateBlock(bit, avail, o)
    /\ \A at, c, n : Chunks!TrailerVerdict(at, c, n) = TrailerVerdict(at, c, n)
<1> USE ChunksLayout
<1>1. Chunks!NoBlockSize = NoBlockSize
  BY Zenon DEF Chunks!NoBlockSize, NoBlockSize
<1>2. \A k : Chunks!NeedsBits(k) = NeedsBits(k)
  BY Zenon DEF Chunks!NeedsBits, NeedsBits, Chunks!NEEDED, NEEDED
<1>3. \A at, avail : Chunks!ParseHeader(at, avail) = ParseHeader(at, avail)
  BY Zenon DEF Chunks!ParseHeader, ParseHeader, Chunks!MinHeader, MinHeader
<1>4. \A at, avail : Chunks!ParseBgzfBlockSize(at, avail) = ParseBgzfBlockSize(at, avail)
  BY <1>1, Zenon DEF Chunks!ParseBgzfBlockSize, ParseBgzfBlockSize
<1>5. \A k, o : Chunks!HasHistory(k, o) = HasHistory(k, o)
  BY Zenon DEF Chunks!HasHistory, HasHistory, Chunks!Min, Min
<1>6. \A bit, avail, o : Chunks!InflateBlock(bit, avail, o) = InflateBlock(bit, avail, o)
  BY <1>2, <1>5, Zenon DEF Chunks!InflateBlock, InflateBlock
<1>7. \A at, c, n : Chunks!TrailerVerdict(at, c, n) = TrailerVerdict(at, c, n)
  BY Zenon DEF Chunks!TrailerVerdict, TrailerVerdict
<1> QED BY <1>1, <1>2, <1>3, <1>4, <1>6, <1>7

\* The layout as BgzfChain sees it.
LEMMA BgzfLayout ==
    /\ Bgzf!Blocks = Blocks /\ Bgzf!Eof = Eof /\ Bgzf!Invalid = Invalid
    /\ Bgzf!TrailerLen = TrailerLen
    /\ \A n : Bgzf!BytesOfBits(n) = BytesOfBits(n)
    /\ Bgzf!BlockStart = BlockStart /\ Bgzf!OutStart = OutStart
    /\ \A k : Bgzf!BlockEnd(k) = BlockEnd(k) /\ Bgzf!OutEnd(k) = OutEnd(k)
    /\ \A k : Bgzf!TrailerAt(k) = TrailerAt(k) /\ Bgzf!MemberLimit(k) = MemberLimit(k)
    /\ \A k : Bgzf!MemberStart(k) = MemberStart(k) /\ Bgzf!LastBlock(k) = LastBlock(k)
    /\ \A k : Bgzf!HeaderAt(k) = HeaderAt(k)
    /\ Bgzf!FirstBlocks = FirstBlocks
    /\ \A a, b : Bgzf!Bytes(a, b) = Bytes(a, b)
<1>1. Bgzf!Blocks = Blocks /\ Bgzf!Eof = Eof /\ Bgzf!Invalid = Invalid /\ Bgzf!TrailerLen = TrailerLen
  BY DEF Bgzf!Blocks, Blocks, Bgzf!Eof, Eof, Bgzf!Invalid, Invalid, Bgzf!TrailerLen, TrailerLen
<1>2. \A n : Bgzf!BytesOfBits(n) = BytesOfBits(n)
  BY Zenon DEF Bgzf!BytesOfBits, BytesOfBits
<1>3. Bgzf!BlockStart = BlockStart
  BY Zenon DEF Bgzf!BlockStart, BlockStart, Bgzf!Blocks, Blocks, Bgzf!TrailerLen, TrailerLen, Bgzf!BytesOfBits, BytesOfBits
<1>4. Bgzf!OutStart = OutStart
  BY Zenon DEF Bgzf!OutStart, OutStart, Bgzf!Blocks, Blocks
<1>5. \A k : Bgzf!BlockEnd(k) = BlockEnd(k) /\ Bgzf!OutEnd(k) = OutEnd(k)
  BY <1>3, <1>4, Zenon DEF Bgzf!BlockEnd, BlockEnd, Bgzf!OutEnd, OutEnd
<1>6. \A k : Bgzf!TrailerAt(k) = TrailerAt(k) /\ Bgzf!MemberLimit(k) = MemberLimit(k)
  BY <1>1, <1>2, <1>5, Zenon DEF Bgzf!TrailerAt, TrailerAt, Bgzf!MemberLimit, MemberLimit
<1>7. \A k : Bgzf!MemberStart(k) = MemberStart(k) /\ Bgzf!LastBlock(k) = LastBlock(k)
  BY Zenon DEF Bgzf!MemberStart, MemberStart, Bgzf!LastBlock, LastBlock, Bgzf!Min, Min
<1>8. \A k : Bgzf!HeaderAt(k) = HeaderAt(k)
  BY <1>3, Zenon DEF Bgzf!HeaderAt, HeaderAt
<1>9. Bgzf!FirstBlocks = FirstBlocks
  BY <1>1, Zenon DEF Bgzf!FirstBlocks, FirstBlocks, Bgzf!MemberStart, MemberStart
<1>10. \A a, b : Bgzf!Bytes(a, b) = Bytes(a, b)
  BY Zenon DEF Bgzf!Bytes, Bytes
<1> QED BY <1>1, <1>2, <1>3, <1>4, <1>5, <1>6, <1>7, <1>8, <1>9, <1>10

\* The parsers as BgzfChain sees them.
LEMMA BgzfParsers ==
    /\ Bgzf!NoBlockSize = NoBlockSize
    /\ \A k : Bgzf!NeedsBits(k) = NeedsBits(k)
    /\ \A at, avail : Bgzf!ParseHeader(at, avail) = ParseHeader(at, avail)
    /\ \A at, avail : Bgzf!ParseBgzfBlockSize(at, avail) = ParseBgzfBlockSize(at, avail)
    /\ \A bit, avail, o : Bgzf!InflateBlock(bit, avail, o) = InflateBlock(bit, avail, o)
    /\ \A at, c, n : Bgzf!TrailerVerdict(at, c, n) = TrailerVerdict(at, c, n)
<1> USE BgzfLayout
<1>1. Bgzf!NoBlockSize = NoBlockSize
  BY Zenon DEF Bgzf!NoBlockSize, NoBlockSize
<1>2. \A k : Bgzf!NeedsBits(k) = NeedsBits(k)
  BY Zenon DEF Bgzf!NeedsBits, NeedsBits, Bgzf!NEEDED, NEEDED
<1>3. \A at, avail : Bgzf!ParseHeader(at, avail) = ParseHeader(at, avail)
  BY Zenon DEF Bgzf!ParseHeader, ParseHeader, Bgzf!MinHeader, MinHeader
<1>4. \A at, avail : Bgzf!ParseBgzfBlockSize(at, avail) = ParseBgzfBlockSize(at, avail)
  BY <1>1, Zenon DEF Bgzf!ParseBgzfBlockSize, ParseBgzfBlockSize
<1>5. \A k, o : Bgzf!HasHistory(k, o) = HasHistory(k, o)
  BY Zenon DEF Bgzf!HasHistory, HasHistory, Bgzf!Min, Min
<1>6. \A bit, avail, o : Bgzf!InflateBlock(bit, avail, o) = InflateBlock(bit, avail, o)
  BY <1>2, <1>5, Zenon DEF Bgzf!InflateBlock, InflateBlock
<1>7. \A at, c, n : Bgzf!TrailerVerdict(at, c, n) = TrailerVerdict(at, c, n)
  BY Zenon DEF Bgzf!TrailerVerdict, TrailerVerdict
<1> QED BY <1>1, <1>2, <1>3, <1>4, <1>6, <1>7

-----------------------------------------------------------------------------
(* What a decoder holds. *)

\* The output of a member starts at f; it was folded up to c and decoded up
\* to b.
Holds(crc, uc, o, f, c, b) ==
    /\ f \in Nat /\ c \in Nat /\ b \in Nat /\ f <= c /\ c <= b
    /\ crc = Bytes(f, c) /\ uc = c - f /\ o = Bytes(c, b)

\* Nothing yet of a member.
LEMMA HoldsNothing ==
    ASSUME NEW f \in Nat
    PROVE  Holds(<<>>, 0, <<>>, f, f, f)
<1>1. Bytes(f, f) = <<>>
  BY BytesType
<1> QED BY <1>1 DEF Holds

\* More is decoded.
LEMMA HoldsDecoded ==
    ASSUME NEW crc, NEW uc, NEW o, NEW f, NEW c, NEW b, Holds(crc, uc, o, f, c, b),
           NEW d \in Nat, b <= d
    PROVE  Holds(crc, uc, o \o Bytes(b, d), f, c, d)
<1>1. /\ f \in Nat /\ c \in Nat /\ b \in Nat /\ f <= c /\ c <= b
      /\ crc = Bytes(f, c) /\ uc = c - f /\ o = Bytes(c, b)
  BY DEF Holds
<1>2. o \o Bytes(b, d) = Bytes(c, d)
  BY <1>1, BytesConcat
<1>3. c <= d
  BY <1>1
<1> QED BY <1>1, <1>2, <1>3 DEF Holds

\* The first n bytes held are folded; the others stay.
LEMMA HoldsFolded ==
    ASSUME NEW crc, NEW uc, NEW o, NEW f, NEW c, NEW b, Holds(crc, uc, o, f, c, b),
           NEW n \in Nat, n <= Len(o)
    PROVE  Holds(crc \o SubSeq(o, 1, n), uc + n, SubSeq(o, n + 1, Len(o)), f, c + n, b)
<1>1. /\ f \in Nat /\ c \in Nat /\ b \in Nat /\ f <= c /\ c <= b
      /\ crc = Bytes(f, c) /\ uc = c - f /\ o = Bytes(c, b)
  BY DEF Holds
<1>2. Len(o) = b - c
  BY <1>1, BytesType
<1>3. PICK e \in Nat : e = c + n /\ f <= e /\ c <= e /\ e <= b /\ uc + n = e - f
  BY <1>1, <1>2
<1>4. SubSeq(o, n + 1, Len(o)) = Bytes(e, b)
  <2>1. PICK i, l : i = n + 1 /\ l = Len(o) /\ Places(c, b, i, l, e, b)
    BY <1>1, <1>2, <1>3 DEF Places
  <2>2. SubSeq(Bytes(c, b), i, l) = Bytes(e, b)
    <3>1. Places(c, b, i, l, e, b)
      BY <2>1
    <3> QED BY ONLY <3>1, BytesPart
  <2> QED BY <1>1, <2>1, <2>2
<1>5. SubSeq(o, 1, n) = Bytes(c, e)
  <2>1. PICK i : i = 1 /\ Places(c, b, i, n, c, e)
    BY <1>1, <1>3 DEF Places
  <2>2. SubSeq(Bytes(c, b), i, n) = Bytes(c, e)
    <3>1. Places(c, b, i, n, c, e)
      BY <2>1
    <3> QED BY ONLY <3>1, BytesPart
  <2> QED BY <1>1, <2>1, <2>2
<1>6. crc \o Bytes(c, e) = Bytes(f, e)
  BY <1>1, <1>3, BytesConcat
<1> QED BY <1>1, <1>3, <1>4, <1>5, <1>6 DEF Holds

\* What is held, in numbers and in one piece.
LEMMA HoldsInOrder ==
    ASSUME NEW crc, NEW uc, NEW o, NEW f, NEW c, NEW b, Holds(crc, uc, o, f, c, b)
    PROVE  /\ Len(o) = b - c /\ Len(crc) = c - f /\ uc = Len(crc)
           /\ o \in Seq(Nat) /\ crc \in Seq(Nat)
           /\ crc \o o = Bytes(f, b) /\ Len(crc \o o) = b - f
           /\ o = <<>> <=> b = c
<1>1. /\ f \in Nat /\ c \in Nat /\ b \in Nat /\ f <= c /\ c <= b
      /\ crc = Bytes(f, c) /\ uc = c - f /\ o = Bytes(c, b)
  BY DEF Holds
<1>2. Len(o) = b - c /\ o \in Seq(Nat) /\ (o = <<>> <=> b = c)
  BY <1>1, BytesType
<1>3. Len(crc) = c - f /\ crc \in Seq(Nat)
  BY <1>1, BytesType
<1>4. crc \o o = Bytes(f, b)
  BY <1>1, BytesConcat
<1>5. f <= b
  BY <1>1
<1>6. Len(Bytes(f, b)) = b - f
  BY <1>1, <1>5, BytesType
<1> QED BY <1>1, <1>2, <1>3, <1>4, <1>6

\* The first n bytes held go to the sink.
LEMMA SentInOrder ==
    ASSUME NEW c \in Nat, NEW b \in Nat, c <= b, NEW n \in Nat, n <= b - c
    PROVE  Bytes(0, c) \o SubSeq(Bytes(c, b), 1, n) = Bytes(0, c + n)
<1>1. PICK e \in Nat : e = c + n /\ c <= e /\ e <= b
  OBVIOUS
<1>2. SubSeq(Bytes(c, b), 1, n) = Bytes(c, e)
  <2>1. PICK i : i = 1 /\ Places(c, b, i, n, c, e)
    BY <1>1 DEF Places
  <2>2. SubSeq(Bytes(c, b), i, n) = Bytes(c, e)
    <3>1. Places(c, b, i, n, c, e)
      BY <2>1
    <3> QED BY ONLY <3>1, BytesPart
  <2> QED BY <2>1, <2>2
<1>3. Bytes(0, c) \o Bytes(c, e) = Bytes(0, e)
  <2>1. 0 <= c /\ 0 \in Nat
    OBVIOUS
  <2> QED BY <1>1, <2>1, BytesConcat
<1> QED BY <1>1, <1>2, <1>3

-----------------------------------------------------------------------------
(* Where the decoders are. *)

\* The output up to c.
IsOutput(d, c) == d = Bytes(0, c)

\* If the sink is open, it was sent the output up to c.
Sent(c) == sinkOpen => IsOutput(delivered, c)

\* The output of the member of block k starts here.
MemberOutAt(k) == OutStart[MemberStart(k)]

\* SerialFile in block k, with the output sent up to c.
SerialAt(k, c) ==
    /\ k \in Blocks /\ Sent(c) /\ pos <= 8 * input.len
    /\ \/ /\ pc = "block" /\ pos = BlockStart[k]
          /\ Len(out) < ChunkTarget + Window
          /\ Holds(crcFed, memberUc, out, MemberOutAt(k), c, OutStart[k])
       \/ /\ \/ pc = "emit" /\ k \notin MemberEnds
             \/ pc = "flush" /\ k \in MemberEnds
          /\ pos = BlockEnd(k)
          /\ Len(out) < ChunkTarget + Window + BlockOut[k]
          /\ Holds(crcFed, memberUc, out, MemberOutAt(k), c, OutEnd(k))
       \/ /\ pc = "trailer" /\ k \in MemberEnds /\ pos = BlockEnd(k)
          /\ c = OutEnd(k)
          /\ Holds(crcFed, memberUc, out, MemberOutAt(k), c, c)

SerialInv == \E k, c \in Nat : SerialAt(k, c)

\* The buffer of SerialPipe is part of the input.
PipeBuffer ==
    /\ base \in Nat /\ filled \in Nat /\ filled <= input.len
    /\ bitOff \in 0 .. 7 /\ 8 * base + bitOff <= 8 * filled
    /\ srcEof \in BOOLEAN

\* Enough of the member that starts at f is held for the next block.
KeepsWindow(f, c, b) == c = f \/ b - c >= Window

\* SerialPipe in block or before boundary k, in a member whose output starts
\* at f, with the output sent up to c.
PipeAt(k, f, c) ==
    /\ Sent(c) /\ (\E m \in FirstBlocks : f = OutStart[m])
    /\ member \in 0 .. k
    /\ \/ /\ pc = "prime" /\ k = 0 /\ base = 0 /\ filled = 0 /\ bitOff = 0 /\ c = 0
          /\ Holds(crcFed, memberUc, out, f, c, c)
       \/ /\ pc \in {"member", "header", "peek"} /\ k \in Boundaries
          /\ base = HdrAt(k) /\ bitOff = 0 /\ c = OutAt(k)
          /\ Holds(crcFed, memberUc, out, f, c, c)
       \/ /\ pc = "block" /\ k \in Blocks /\ 8 * base + bitOff = BlockStart[k]
          /\ f = MemberOutAt(k)
          /\ KeepsWindow(f, c, OutStart[k]) /\ Len(out) <= Window
          /\ Holds(crcFed, memberUc, out, f, c, OutStart[k])
       \/ /\ pc = "emit" /\ k \in Blocks /\ 8 * base + bitOff = BlockEnd(k)
          /\ f = MemberOutAt(k) /\ bfinal = (k \in MemberEnds)
          /\ KeepsWindow(f, c, OutEnd(k)) /\ Len(out) <= Window + BlockOut[k]
          /\ Holds(crcFed, memberUc, out, f, c, OutEnd(k))
       \/ /\ pc \in {"align", "trailer"} /\ k \in MemberEnds /\ c = OutEnd(k)
          /\ IF pc = "align" THEN 8 * base + bitOff = BlockEnd(k)
                             ELSE base = TrailerAt(k) /\ bitOff = 0
          /\ Holds(crcFed, memberUc, out, f, c, c)

PipeInv == PipeBuffer /\ \E k, f, c \in Nat : PipeAt(k, f, c)

\* The members that end in the chunk, whose output starts at p and was
\* decoded up to o.
EndsAt(es, from, p, o) ==
    /\ es \in Seq([offset : Nat, trailer : Nat])
    /\ \A i \in 1 .. Len(es) : /\ from <= es[i].offset /\ p + es[i].offset <= o
                               /\ \E e \in MemberEnds : p + es[i].offset = OutEnd(e)
    /\ \A i, j \in 1 .. Len(es) : i <= j => es[i].offset <= es[j].offset

\* ChunkChain after the output up to o.
ChunkPosition(o) ==
    \/ /\ pc \in {"chunk", "output"} /\ final
       /\ \E k \in MemberEnds : pos = 8 * MemberLimit(k) /\ o = OutEnd(k)
    \/ /\ pc \in {"chunk", "top", "block", "library", "output"} /\ ~final
       /\ \E k \in Blocks : pos = BlockStart[k] /\ o = OutStart[k]
    \/ /\ pc = "trailer" /\ ~final
       /\ \E k \in MemberEnds : BytesOfBits(pos) = TrailerAt(k) /\ o = OutEnd(k)

\* ChunkChain in a chunk whose output starts at p and was decoded up to o; the
\* member the output stage folds starts at boundary m.
ChunkAt(m, p, o) ==
    /\ m \in Boundaries /\ Sent(p) /\ p <= o /\ o <= OutEnd(NumBlocks - 1)
    /\ out = Bytes(p, o)
    /\ folded \in Nat /\ OutAt(m) <= p + folded /\ p + folded <= o
    /\ crcFed = Bytes(OutAt(m), p + folded) /\ memberUc = (p + folded) - OutAt(m)
    /\ EndsAt(ends, folded, p, o)
    /\ pos \in 0 .. 8 * input.len
    /\ pc # "output" => folded = 0
    /\ pc = "chunk" => p = o /\ ends = <<>>
    /\ ChunkPosition(o)

ChunkInv == \E m, p, o \in Nat : ChunkAt(m, p, o)

\* The slices of a batch, between the boundaries bs.
SlicesAt(cs, bs) ==
    /\ cs \in Seq([at : Nat, limit : Nat])
    /\ bs \in [0 .. Len(cs) -> Boundaries]
    /\ \A i \in 1 .. Len(cs) : /\ bs[i - 1] \in Blocks /\ bs[i] = LastBlock(bs[i - 1]) + 1
                               /\ cs[i] = [at |-> HdrAt(bs[i - 1]), limit |-> HdrAt(bs[i])]

\* BgzfChain with the output sent up to c and decoded up to the first of the
\* boundaries bs.
BgzfAt(c, bs) ==
    /\ Sent(c) /\ crcFed = <<>> /\ memberUc = 0
    /\ SlicesAt(cur, bs)
    /\ pos = 8 * HdrAt(bs[Len(cur)]) /\ pos <= 8 * input.len
    /\ c <= OutAt(bs[0]) /\ out = Bytes(c, OutAt(bs[0]))
    /\ pc \in {"walk", "batch", "remainder", "header"}
    /\ pc # "batch" => c = OutAt(bs[0])
    /\ pc \in {"remainder", "header"} => cur = <<>>

Batches == UNION {[0 .. n -> Boundaries] : n \in Nat}

BgzfInv == \E c \in Nat, bs \in Batches : BgzfAt(c, bs)

\* What a decoder does not use stays as it was.
PipeIdle == base = 0 /\ filled = 0 /\ bitOff = 0 /\ srcEof = FALSE /\ member = 0
ChunkIdle == first = TRUE /\ final = FALSE /\ ends = <<>> /\ folded = 0
BgzfIdle == cur = <<>>
Fresh == /\ pos = 0 /\ out = <<>> /\ crcFed = <<>> /\ memberUc = 0 /\ delivered = <<>>

DecoderInv ==
    \/ path = "open" /\ Fresh /\ PipeIdle /\ ChunkIdle /\ BgzfIdle
    \/ path = "plain" /\ pc = "header" /\ Fresh /\ PipeIdle /\ ChunkIdle /\ BgzfIdle
    \/ path = "pipe" /\ PipeInv /\ pos = 0 /\ ChunkIdle
    \/ path = "serial" /\ SerialInv /\ PipeIdle /\ ChunkIdle
    \/ path = "chunks" /\ ChunkInv /\ PipeIdle
    \/ path = "bgzf" /\ BgzfInv /\ PipeIdle /\ ChunkIdle

\* The values of the variables that the decoders do not constrain.
Values ==
    /\ input \in Inputs /\ setup \in Setups
    /\ status \in {"running", "ok", "closed", "truncated", "io"} \cup FaultKind
    /\ sinkOpen \in BOOLEAN /\ bfinal \in BOOLEAN /\ first \in BOOLEAN /\ final \in BOOLEAN
    /\ walk \in {"on", "end", "truncated"}

ReadInv == Values /\ DecoderInv

-----------------------------------------------------------------------------
(* SerialFile. *)

\* The start of the output of a member is a number, not after its blocks.
LEMMA MemberOutType ==
    ASSUME NEW k \in Blocks
    PROVE  /\ MemberOutAt(k) \in Nat /\ MemberOutAt(k) <= OutStart[k]
           /\ \E m \in FirstBlocks : MemberOutAt(k) = OutStart[m]
<1>1. MemberStart(k) \in FirstBlocks /\ OutStart[MemberStart(k)] <= OutStart[k]
  BY Members
<1>2. MemberStart(k) \in Blocks
  BY <1>1, Members
<1> QED BY <1>1, <1>2, Positions DEF MemberOutAt

\* The block after one that does not end a member.
LEMMA NextBlock ==
    ASSUME NEW k \in Blocks, k \notin MemberEnds
    PROVE  /\ k + 1 \in Blocks /\ k + 1 \in Nat /\ BlockStart[k + 1] = BlockEnd(k)
           /\ OutStart[k + 1] = OutEnd(k) /\ MemberOutAt(k + 1) = MemberOutAt(k)
<1>1. k + 1 \in Blocks /\ k + 1 \in Nat
  BY Constants
<1>2. MemberStart(k + 1) = MemberStart(k)
  BY Members
<1> QED BY <1>1, <1>2, BlockStarts, OutStarts DEF MemberOutAt

\* A block is decoded.
LEMMA SerialDecode ==
    ASSUME input \in Inputs, SerialInv, File!DecodeOneBlock
    PROVE  SerialInv'
<1>1. PICK k \in Nat, c \in Nat : SerialAt(k, c)
  BY DEF SerialInv
<1>2. pc = "block" /\ input' = input /\ delivered' = delivered /\ sinkOpen' = sinkOpen
  BY DEF File!DecodeOneBlock, File!Return
<1>3. /\ k \in Blocks /\ Sent(c) /\ pos <= 8 * input.len /\ pos = BlockStart[k]
      /\ Len(out) < ChunkTarget + Window
      /\ Holds(crcFed, memberUc, out, MemberOutAt(k), c, OutStart[k])
  BY <1>1, <1>2 DEF SerialAt
<1>4. PICK r \in InflateBlock(pos, input.len, out) :
         \/ /\ r \in Blocks
            /\ out' = out \o Bytes(OutStart[r], OutEnd(r))
            /\ bfinal' = (r \in MemberEnds)
            /\ pos' = BlockEnd(r)
            /\ pc' = IF bfinal' THEN "flush" ELSE "emit"
            /\ crcFed' = crcFed /\ memberUc' = memberUc
         \/ /\ pc' = pc /\ pos' = pos /\ out' = out /\ crcFed' = crcFed /\ memberUc' = memberUc
  BY FileLayout, FileParsers DEF File!DecodeOneBlock, File!Return, File!memberVars
<1>5. CASE pc' = pc /\ pos' = pos /\ out' = out /\ crcFed' = crcFed /\ memberUc' = memberUc
  <2>1. SerialAt(k, c)'
    BY <1>1, <1>2, <1>5 DEF SerialAt, Sent
  <2> QED BY <2>1 DEF SerialInv
<1>6. CASE /\ r \in Blocks
           /\ out' = out \o Bytes(OutStart[r], OutEnd(r))
           /\ bfinal' = (r \in MemberEnds)
           /\ pos' = BlockEnd(r)
           /\ pc' = IF bfinal' THEN "flush" ELSE "emit"
           /\ crcFed' = crcFed /\ memberUc' = memberUc
  <2>1. input.len \in Nat
    BY InputLength
  <2>2. BlockStart[r] = pos /\ BlockEnd(r) <= 8 * input.len
    BY <1>6, <2>1, BlockDecodes
  <2>3. r = k
    BY <1>3, <1>6, <2>2, OneBlockHere
  <2>4. OutEnd(k) \in Nat /\ OutStart[k] <= OutEnd(k) /\ OutEnd(k) = OutStart[k] + BlockOut[k]
        /\ OutStart[k] \in Nat
    BY <1>3, Positions
  <2>5. out' = out \o Bytes(OutStart[k], OutEnd(k)) /\ pos' = BlockEnd(k)
    BY <1>6, <2>3
  <2>6. Holds(crcFed, memberUc, out \o Bytes(OutStart[k], OutEnd(k)), MemberOutAt(k), c, OutEnd(k))
    BY <1>3, <2>4, HoldsDecoded
  <2>7. Holds(crcFed', memberUc', out', MemberOutAt(k), c, OutEnd(k))
    BY <1>6, <2>5, <2>6
  <2>8. Len(out) = OutStart[k] - c
    BY <1>3, HoldsInOrder
  <2>9. Len(out') = OutEnd(k) - c
    BY <2>7, HoldsInOrder
  <2>10. Len(out') < ChunkTarget + Window + BlockOut[k]
    <3>1. ChunkTarget \in Nat /\ Window \in Nat /\ BlockOut[k] \in Nat
      BY <1>3, ReadGzAssumption, Constants
    <3> QED BY <1>3, <2>4, <2>8, <2>9, <3>1
  <2>11. pc' = IF k \in MemberEnds THEN "flush" ELSE "emit"
    BY <1>6, <2>3
  <2>12. SerialAt(k, c)'
    BY <1>2, <1>3, <2>2, <2>3, <2>5, <2>7, <2>10, <2>11 DEF SerialAt, Sent
  <2> QED BY <2>12 DEF SerialInv
<1> QED BY <1>4, <1>5, <1>6

\* Bytes held from c on go to an open sink, which then has them up to c + n.
LEMMA SendFirst ==
    ASSUME NEW crc, NEW uc, NEW o, NEW f, NEW c, NEW b, Holds(crc, uc, o, f, c, b),
           NEW n \in Nat, n <= Len(o), NEW d, IsOutput(d, c)
    PROVE  IsOutput(d \o SubSeq(o, 1, n), c + n)
<1>1. c \in Nat /\ b \in Nat /\ c <= b /\ o = Bytes(c, b)
  BY DEF Holds
<1>2. n <= b - c
  BY <1>1, BytesType
<1>3. Bytes(0, c) \o SubSeq(Bytes(c, b), 1, n) = Bytes(0, c + n)
  BY <1>1, <1>2, SentInOrder
<1> QED BY <1>1, <1>3 DEF IsOutput

\* All that is held is a first part of it.
LEMMA AllOfIt ==
    ASSUME NEW o \in Seq(Nat)
    PROVE  SubSeq(o, 1, Len(o)) = o /\ SubSeq(o, Len(o) + 1, Len(o)) = <<>>
<1>1. Len(o) \in Nat
  BY LenProperties
<1>2. SubSeq(o, 1, Len(o)) = o
  BY SubSeqFull
<1>3. SubSeq(o, Len(o) + 1, Len(o)) = <<>>
  BY <1>1, SubSeqEmpty
<1> QED BY <1>2, <1>3

\* A chunk is handed over, or not yet.
LEMMA SerialEmit ==
    ASSUME SerialInv, File!EmitChunk
    PROVE  SerialInv'
<1>1. PICK k \in Nat, c \in Nat : SerialAt(k, c)
  BY DEF SerialInv
<1>2. pc = "emit" /\ input' = input /\ sinkOpen' = sinkOpen /\ pos' = pos
  BY DEF File!EmitChunk, File!Return
<1>3. /\ k \in Blocks /\ k \notin MemberEnds /\ Sent(c) /\ pos <= 8 * input.len /\ pos = BlockEnd(k)
      /\ Len(out) < ChunkTarget + Window + BlockOut[k]
      /\ Holds(crcFed, memberUc, out, MemberOutAt(k), c, OutEnd(k))
  BY <1>1, <1>2 DEF SerialAt
<1>4. /\ ChunkTarget \in Nat /\ Window \in Nat /\ BlockOut[k] \in Nat
      /\ ChunkTarget >= 1 /\ Window >= 1
  BY <1>3, ReadGzAssumption, Constants
<1>5. /\ MemberOutAt(k) \in Nat /\ OutEnd(k) \in Nat /\ c <= OutEnd(k)
      /\ Len(out) = OutEnd(k) - c /\ out \in Seq(Nat)
  <2>1. Len(out) = OutEnd(k) - c /\ out \in Seq(Nat)
    BY <1>3, HoldsInOrder
  <2>2. MemberOutAt(k) \in Nat /\ OutEnd(k) \in Nat /\ c <= OutEnd(k)
    BY <1>3 DEF Holds
  <2> QED BY <2>1, <2>2
<1>6. CASE ~(Len(out) >= ChunkTarget + Window) /\ pc' = "block" /\ delivered' = delivered
           /\ out' = out /\ crcFed' = crcFed /\ memberUc' = memberUc
  <2>1. /\ k + 1 \in Blocks /\ k + 1 \in Nat /\ BlockStart[k + 1] = BlockEnd(k)
        /\ OutStart[k + 1] = OutEnd(k) /\ MemberOutAt(k + 1) = MemberOutAt(k)
    BY <1>3, NextBlock
  <2>2. Len(out) < ChunkTarget + Window
    BY <1>4, <1>5, <1>6
  <2>3. SerialAt(k + 1, c)'
    BY <1>2, <1>3, <1>6, <2>1, <2>2 DEF SerialAt, Sent
  <2> QED BY <2>1, <2>3 DEF SerialInv
<1>7. CASE /\ Len(out) >= ChunkTarget + Window /\ sinkOpen /\ pc' = pc
           /\ delivered' = delivered \o SubSeq(out, 1, Len(out) - Window)
           /\ crcFed' = crcFed \o SubSeq(out, 1, Len(out) - Window)
           /\ memberUc' = memberUc + (Len(out) - Window)
           /\ out' = SubSeq(out, (Len(out) - Window) + 1, Len(out))
  <2>1. PICK n \in Nat : n = Len(out) - Window /\ n <= Len(out)
    BY <1>4, <1>5, <1>7, SMTT(30)
  <2>2. Holds(crcFed \o SubSeq(out, 1, n), memberUc + n, SubSeq(out, n + 1, Len(out)), MemberOutAt(k), c + n, OutEnd(k))
    BY <1>3, <2>1, HoldsFolded
  <2>3. Holds(crcFed', memberUc', out', MemberOutAt(k), c + n, OutEnd(k))
    BY <1>7, <2>1, <2>2
  <2>4. Len(out') = OutEnd(k) - (c + n) /\ c + n \in Nat
    BY <2>3, HoldsInOrder DEF Holds
  <2>5. Len(out') < ChunkTarget + Window + BlockOut[k]
    <3>1. OutEnd(k) - (c + n) = Window
      BY <1>4, <1>5, <2>1, SMTT(30)
    <3> QED BY <1>4, <2>4, <3>1
  <2>6. IsOutput(delivered, c)
    BY <1>3, <1>7 DEF Sent
  <2>7. IsOutput(delivered \o SubSeq(out, 1, n), c + n)
    BY <1>3, <2>1, <2>6, SendFirst
  <2>8. IsOutput(delivered', c + n)
    BY <1>7, <2>1, <2>7
  <2>9. SerialAt(k, c + n)'
    BY <1>2, <1>3, <1>7, <2>3, <2>5, <2>8 DEF SerialAt, Sent
  <2> QED BY <2>4, <2>9 DEF SerialInv
<1>8. CASE pc' = pc /\ delivered' = delivered /\ out' = out /\ crcFed' = crcFed /\ memberUc' = memberUc
  <2>1. SerialAt(k, c)'
    BY <1>1, <1>2, <1>8 DEF SerialAt, Sent
  <2> QED BY <2>1 DEF SerialInv
<1> QED BY <1>6, <1>7, <1>8 DEF File!EmitChunk, File!Return, File!memberVars, File!ChunkReady, File!Carried

\* The rest of a member is handed over.
LEMMA SerialFlush ==
    ASSUME SerialInv, File!FlushMember
    PROVE  SerialInv'
<1>1. PICK k \in Nat, c \in Nat : SerialAt(k, c)
  BY DEF SerialInv
<1>2. pc = "flush" /\ input' = input /\ sinkOpen' = sinkOpen /\ pos' = pos
  BY DEF File!FlushMember, File!Return
<1>3. /\ k \in Blocks /\ k \in MemberEnds /\ Sent(c) /\ pos <= 8 * input.len /\ pos = BlockEnd(k)
      /\ Holds(crcFed, memberUc, out, MemberOutAt(k), c, OutEnd(k))
  BY <1>1, <1>2 DEF SerialAt
<1>4. /\ OutEnd(k) \in Nat /\ c <= OutEnd(k)
      /\ Len(out) = OutEnd(k) - c /\ out \in Seq(Nat)
  <2>1. Len(out) = OutEnd(k) - c /\ out \in Seq(Nat)
    BY <1>3, HoldsInOrder
  <2>2. OutEnd(k) \in Nat /\ c <= OutEnd(k)
    BY <1>3 DEF Holds
  <2> QED BY <2>1, <2>2
<1>5. CASE /\ sinkOpen \/ out = <<>>
           /\ delivered' = delivered \o out /\ crcFed' = crcFed \o out
           /\ memberUc' = memberUc + Len(out) /\ out' = <<>> /\ pc' = "trailer"
  <2>1. PICK n \in Nat : n = Len(out) /\ n <= Len(out) /\ c + n = OutEnd(k)
    BY <1>4
  <2>2. SubSeq(out, 1, n) = out /\ SubSeq(out, n + 1, Len(out)) = <<>>
    BY <1>4, <2>1, AllOfIt
  <2>3. Holds(crcFed \o SubSeq(out, 1, n), memberUc + n, SubSeq(out, n + 1, Len(out)), MemberOutAt(k), c + n, OutEnd(k))
    BY <1>3, <2>1, HoldsFolded
  <2>4. Holds(crcFed', memberUc', out', MemberOutAt(k), OutEnd(k), OutEnd(k))
    BY <1>5, <2>1, <2>2, <2>3
  <2>5. ASSUME sinkOpen PROVE IsOutput(delivered', OutEnd(k))
    <3>1. IsOutput(delivered, c)
      BY <1>3, <2>5 DEF Sent
    <3>2. IsOutput(delivered \o SubSeq(out, 1, n), c + n)
      BY <1>3, <2>1, <3>1, SendFirst
    <3> QED BY <1>5, <2>1, <2>2, <3>2
  <2>6. SerialAt(k, OutEnd(k))'
    BY <1>2, <1>3, <1>5, <2>4, <2>5 DEF SerialAt, Sent
  <2> QED BY <1>4, <2>6 DEF SerialInv
<1>6. CASE pc' = pc /\ delivered' = delivered /\ out' = out /\ crcFed' = crcFed /\ memberUc' = memberUc
  <2>1. SerialAt(k, c)'
    BY <1>1, <1>2, <1>6 DEF SerialAt, Sent
  <2> QED BY <2>1 DEF SerialInv
<1> QED BY <1>5, <1>6 DEF File!FlushMember, File!Return, File!memberVars

\* A trailer is checked and the next member is begun.
LEMMA SerialTrailer ==
    ASSUME input \in Inputs, SerialInv, File!CheckTrailer
    PROVE  SerialInv'
<1>1. PICK k \in Nat, c \in Nat : SerialAt(k, c)
  BY DEF SerialInv
<1>2. pc = "trailer" /\ input' = input /\ sinkOpen' = sinkOpen /\ delivered' = delivered
  BY DEF File!CheckTrailer, File!Return
<1>3. /\ k \in Blocks /\ k \in MemberEnds /\ Sent(c) /\ pos <= 8 * input.len /\ pos = BlockEnd(k)
      /\ c = OutEnd(k) /\ Holds(crcFed, memberUc, out, MemberOutAt(k), c, c)
  BY <1>1, <1>2 DEF SerialAt
<1>4. CASE pc' = pc /\ pos' = pos /\ out' = out /\ crcFed' = crcFed /\ memberUc' = memberUc
  <2>1. SerialAt(k, c)'
    BY <1>1, <1>2, <1>4 DEF SerialAt, Sent
  <2> QED BY <2>1 DEF SerialInv
<1>5. CASE /\ ParseHeader(BytesOfBits(pos) + TrailerLen, input.len) = "ok"
           /\ crcFed' = <<>> /\ memberUc' = 0 /\ out' = out /\ pc' = "block"
           /\ pos' = 8 * (BytesOfBits(pos) + TrailerLen + HeaderLen)
  <2>1. PICK b \in Boundaries : b = k + 1 /\ HdrAt(b) = MemberLimit(k) /\ OutAt(b) = OutEnd(k)
    BY <1>3, AfterMember
  <2>2. BytesOfBits(pos) + TrailerLen = HdrAt(b)
    BY <1>3, <2>1 DEF MemberLimit, TrailerAt
  <2>3. input.len \in Nat /\ input.len <= input.len
    BY InputLength
  <2>4. b \in Blocks /\ HdrAt(b) + HeaderLen <= input.len
    BY <1>5, <2>2, <2>3, HeaderAtBoundary
  <2>5. OutStart[b] = OutAt(b) /\ BlockStart[b] = 8 * (HdrAt(b) + HeaderLen) /\ MemberStart(b) = b
    BY <2>4, BoundaryStarts
  <2>6. HdrAt(b) \in Nat /\ OutAt(b) \in Nat /\ HeaderLen \in Nat /\ b \in Nat
    BY BoundaryNumbers, Constants
  <2>7. pos' = BlockStart[b] /\ pos' <= 8 * input.len
    BY <1>5, <2>2, <2>3, <2>4, <2>5, <2>6
  <2>8. out' = <<>> /\ OutStart[b] = c /\ MemberOutAt(b) = c
    <3>1. out = <<>>
      BY <1>3, HoldsInOrder
    <3> QED BY <1>3, <1>5, <2>1, <2>5, <3>1 DEF MemberOutAt
  <2>9. Holds(crcFed', memberUc', out', MemberOutAt(b), c, OutStart[b])
    BY <1>5, <2>8, HoldsNothing
  <2>10. Len(out') < ChunkTarget + Window
    <3>1. ChunkTarget \in Nat /\ ChunkTarget >= 1 /\ Window \in Nat /\ Len(<<>>) = 0
      BY ReadGzAssumption, Constants
    <3> QED BY <2>8, <3>1
  <2>11. SerialAt(b, c)'
    BY <1>2, <1>3, <1>5, <2>4, <2>7, <2>9, <2>10 DEF SerialAt, Sent
  <2> QED BY <2>6, <2>11 DEF SerialInv
<1> QED BY <1>4, <1>5, FileLayout, FileParsers DEF File!CheckTrailer, File!Return, File!memberVars

-----------------------------------------------------------------------------
(* SerialPipe. *)

\* The lesser of two numbers.
LEMMA MinOfTwo ==
    ASSUME NEW a \in Nat, NEW b \in Nat
    PROVE  Min({a, b}) \in Nat /\ Min({a, b}) <= a /\ Min({a, b}) <= b /\ Min({a, b}) \in {a, b}
<1>1. {a, b} \subseteq Nat /\ {a, b} # {}
  OBVIOUS
<1>2. Min({a, b}) \in {a, b} /\ \A y \in {a, b} : Min({a, b}) <= y
  BY <1>1, MinProperty
<1> QED BY <1>2

\* What fill_more does: it adds at most ReadMax bytes of the input.
PipeReads ==
    /\ base' = base /\ bitOff' = bitOff /\ srcEof' \in BOOLEAN
    /\ filled' \in Nat /\ filled <= filled' /\ filled' <= filled + ReadMax /\ filled' <= input.len

\* A read keeps the buffer a part of the input.
LEMMA PipeFills ==
    ASSUME input \in Inputs, PipeBuffer, Pipe!FillMore
    PROVE  PipeReads /\ status' = status
<1>1. input.len \in Nat /\ filled \in Nat /\ filled <= input.len
  BY InputLength DEF PipeBuffer
<1>2. ReadMax \in Nat
  BY ReadGzAssumption
<1>3. \A S : Pipe!Min(S) = Min(S)
  BY Zenon DEF Pipe!Min, Min
<1>4. /\ filled' \in IF filled = input.len THEN {filled}
                     ELSE filled + 1 .. Min({filled + ReadMax, input.len})
      /\ srcEof' = (srcEof \/ filled' = filled)
      /\ base' = base /\ bitOff' = bitOff /\ status' = status
  BY <1>3 DEF Pipe!FillMore
<1>5. srcEof' \in BOOLEAN
  BY <1>4, Zenon
<1>6. PICK a \in Nat : a = filled + ReadMax
  BY <1>1, <1>2
<1>7. Min({a, input.len}) \in Nat /\ Min({a, input.len}) <= a /\ Min({a, input.len}) <= input.len
  BY <1>1, MinOfTwo
<1>8. filled' \in Nat /\ filled <= filled' /\ filled' <= a /\ filled' <= input.len
  <2>1. CASE filled = input.len
    BY <1>1, <1>2, <1>4, <1>6, <2>1
  <2>2. CASE filled # input.len
    <3>1. filled' \in filled + 1 .. Min({a, input.len})
      BY <1>4, <1>6, <2>2
    <3> QED BY <1>1, <1>7, <3>1
  <2> QED BY <2>1, <2>2
<1> QED BY <1>4, <1>5, <1>6, <1>8 DEF PipeReads

\* The buffer after a read.
LEMMA PipeBufferRead ==
    ASSUME PipeBuffer, PipeReads, input' = input
    PROVE  PipeBuffer'
<1>0. /\ base \in Nat /\ filled \in Nat /\ bitOff \in Nat /\ 8 * base + bitOff <= 8 * filled
      /\ filled' \in Nat /\ filled <= filled' /\ base' = base /\ bitOff' = bitOff
  BY DEF PipeBuffer, PipeReads
<1>1. PICK x \in Nat, y \in Nat, z \in Nat : x = 8 * base + bitOff /\ y = filled /\ z = filled'
                                         /\ x <= 8 * y /\ y <= z
  BY <1>0
<1>2. x <= 8 * z
  BY <1>1
<1>3. 8 * base' + bitOff' = x
  BY <1>0, <1>1
<1> QED BY <1>1, <1>2, <1>3 DEF PipeBuffer, PipeReads

\* The buffer when nothing is read.
LEMMA PipeBufferKept ==
    ASSUME PipeBuffer, UNCHANGED <<input, base, filled, bitOff, srcEof>>
    PROVE  PipeBuffer'
  BY DEF PipeBuffer

\* All but the buffer's end stays as it is.
PipeWaits ==
    UNCHANGED <<input, base, bitOff, pc, bfinal, out, crcFed, memberUc, member, delivered, sinkOpen>>

\* A step that only reads leaves the decoder where it is.
LEMMA PipeStays ==
    ASSUME NEW k, NEW f, NEW c, PipeAt(k, f, c), pc # "prime", PipeWaits
    PROVE  PipeAt(k, f, c)'
  BY DEF PipeAt, Sent, PipeWaits

\* The steps of SerialPipe that wait for input, fail or return.
LEMMA PipeIdles ==
    ASSUME input \in Inputs, PipeInv, pc # "prime", PipeWaits,
           PipeReads \/ (filled' = filled /\ srcEof' = srcEof)
    PROVE  PipeInv'
<1>1. PipeBuffer'
  BY PipeBufferRead, PipeBufferKept DEF PipeInv, PipeWaits
<1>2. PICK k \in Nat, f \in Nat, c \in Nat : PipeAt(k, f, c)
  BY DEF PipeInv
<1>3. PipeAt(k, f, c)'
  BY <1>2, PipeStays
<1> QED BY <1>1, <1>3 DEF PipeInv

\* FillOrTruncated is such a step.
LEMMA PipeFillOrTruncated ==
    ASSUME input \in Inputs, PipeInv, pc # "prime", Pipe!FillOrTruncated, Pipe!Quiet
    PROVE  PipeInv'
<1>1. PipeBuffer
  BY DEF PipeInv
<1>2. CASE Pipe!FillMore /\ UNCHANGED <<pc, Pipe!memberVars>>
  <2>1. PipeReads
    BY <1>1, <1>2, PipeFills
  <2>2. PipeWaits
    BY <1>2, <2>1 DEF PipeWaits, PipeReads, Pipe!Quiet, Pipe!memberVars
  <2> QED BY <2>1, <2>2, PipeIdles
<1>3. CASE UNCHANGED <<pc, Pipe!bufVars, Pipe!memberVars>>
  <2>1. PipeWaits /\ filled' = filled /\ srcEof' = srcEof
    BY <1>3 DEF PipeWaits, Pipe!Quiet, Pipe!memberVars, Pipe!bufVars
  <2> QED BY <2>1, PipeIdles
<1> QED BY <1>2, <1>3 DEF Pipe!FillOrTruncated, Pipe!Return, Pipe!ReadFails

\* The first read.
LEMMA PipePrime ==
    ASSUME input \in Inputs, PipeInv, Pipe!Prime
    PROVE  PipeInv'
<1>1. PICK k \in Nat, f \in Nat, c \in Nat : PipeAt(k, f, c)
  BY DEF PipeInv
<1>2. /\ pc = "prime" /\ pc' = "member" /\ input' = input
      /\ UNCHANGED <<delivered, sinkOpen, bfinal, out, crcFed, memberUc, member>>
  BY DEF Pipe!Prime, Pipe!Quiet, Pipe!memberVars
<1>3. /\ Sent(c) /\ (\E m \in FirstBlocks : f = OutStart[m])
      /\ member \in 0 .. k /\ k = 0 /\ base = 0 /\ bitOff = 0 /\ c = 0
      /\ Holds(crcFed, memberUc, out, f, c, c)
  BY <1>1, <1>2 DEF PipeAt
<1>4. base' = base /\ bitOff' = bitOff /\ PipeBuffer'
  <2>0. PipeBuffer
    BY DEF PipeInv
  <2>1. CASE Pipe!FillMore
    <3>1. PipeReads
      BY <2>0, <2>1, PipeFills
    <3> QED BY <2>0, <3>1, <1>2, PipeBufferRead DEF PipeReads
  <2>2. CASE Pipe!ReadFails
    BY <2>0, <2>2, <1>2, PipeBufferKept DEF Pipe!ReadFails, Pipe!bufVars
  <2> QED BY <2>1, <2>2 DEF Pipe!Prime
<1>5. 0 \in Boundaries /\ HdrAt(0) = 0 /\ OutAt(0) = 0
  BY Constants DEF Boundaries, HdrAt, OutAt
<1>6. PipeAt(k, f, c)'
  BY <1>2, <1>3, <1>4, <1>5 DEF PipeAt, Sent
<1> QED BY <1>4, <1>6 DEF PipeInv

\* The top of the member loop, and the look at what follows a member.
LEMMA PipeNextMember ==
    ASSUME input \in Inputs, PipeInv, Pipe!NextMember \/ Pipe!PeekNext
    PROVE  PipeInv'
<1>1. PICK k \in Nat, f \in Nat, c \in Nat : PipeAt(k, f, c)
  BY DEF PipeInv
<1>0. PipeBuffer
  BY DEF PipeInv
<1>2. /\ pc \in {"member", "peek"} /\ pc' \in {"member", "header"} \cup {pc} /\ input' = input
      /\ UNCHANGED <<delivered, sinkOpen, bfinal, out, crcFed, memberUc, member>>
  BY DEF Pipe!NextMember, Pipe!PeekNext, Pipe!Return, Pipe!Quiet, Pipe!memberVars
<1>3. /\ Sent(c) /\ (\E m \in FirstBlocks : f = OutStart[m])
      /\ member \in 0 .. k /\ k \in Boundaries /\ base = HdrAt(k) /\ bitOff = 0 /\ c = OutAt(k)
      /\ Holds(crcFed, memberUc, out, f, c, c)
  BY <1>1, <1>2 DEF PipeAt
<1>4. base' = base /\ bitOff' = bitOff /\ PipeBuffer'
  <2>1. CASE Pipe!FillMore
    <3>1. PipeReads
      BY <1>0, <2>1, PipeFills
    <3> QED BY <1>0, <3>1, <1>2, PipeBufferRead DEF PipeReads
  <2>2. CASE UNCHANGED Pipe!bufVars
    BY <1>0, <2>2, <1>2, PipeBufferKept DEF Pipe!bufVars
  <2> QED BY <2>1, <2>2 DEF Pipe!NextMember, Pipe!PeekNext, Pipe!ReadFails, Pipe!Return
<1>5. pc' \in {"member", "header", "peek"}
  BY <1>2
<1>6. PipeAt(k, f, c)'
  BY <1>2, <1>3, <1>4, <1>5 DEF PipeAt, Sent
<1> QED BY <1>4, <1>6 DEF PipeInv

\* The header of a member.
LEMMA PipeHeader ==
    ASSUME input \in Inputs, PipeInv, Pipe!ReadGzipHeader
    PROVE  PipeInv'
<1>1. pc = "header" /\ Pipe!Quiet
  BY DEF Pipe!ReadGzipHeader
<1>2. CASE Pipe!FillOrTruncated
  BY <1>1, <1>2, PipeFillOrTruncated
<1>3. CASE Pipe!Return("header")
  <2>1. PipeWaits /\ filled' = filled /\ srcEof' = srcEof
    BY <1>1, <1>3 DEF PipeWaits, Pipe!Quiet, Pipe!memberVars, Pipe!bufVars, Pipe!Return
  <2> QED BY <1>1, <2>1, PipeIdles
<1>4. CASE /\ ParseHeader(base, filled) = "ok"
           /\ base' = base + HeaderLen /\ pc' = "block"
           /\ out' = <<>> /\ crcFed' = <<>> /\ memberUc' = 0
           /\ UNCHANGED <<status, filled, bitOff, srcEof, bfinal, member>>
  <2>1. PICK k \in Nat, f \in Nat, c \in Nat : PipeAt(k, f, c)
    BY DEF PipeInv
  <2>2. /\ Sent(c) /\ member \in 0 .. k /\ k \in Boundaries /\ base = HdrAt(k) /\ bitOff = 0
        /\ c = OutAt(k)
    BY <1>1, <2>1 DEF PipeAt
  <2>3. filled \in Nat /\ filled <= input.len
    BY DEF PipeInv, PipeBuffer
  <2>4. k \in Blocks /\ HdrAt(k) + HeaderLen <= filled
    BY <1>4, <2>2, <2>3, HeaderAtBoundary
  <2>5. OutStart[k] = OutAt(k) /\ BlockStart[k] = 8 * (HdrAt(k) + HeaderLen) /\ MemberStart(k) = k
        /\ k \in FirstBlocks
    BY <2>2, <2>4, BoundaryStarts
  <2>6. HdrAt(k) \in Nat /\ HeaderLen \in Nat
    BY <2>2, BoundaryNumbers, Constants
  <2>7. PipeBuffer'
    <3>1. base' \in Nat /\ 8 * base' + bitOff' <= 8 * filled'
      BY <1>4, <2>2, <2>3, <2>4, <2>6
    <3> QED BY <1>1, <1>4, <3>1 DEF PipeInv, PipeBuffer, Pipe!Quiet
  <2>8. 8 * base' + bitOff' = BlockStart[k]
    BY <1>4, <2>2, <2>5, <2>6
  <2>9. MemberOutAt(k) = c /\ OutStart[k] = c
    BY <2>2, <2>5 DEF MemberOutAt
  <2>10. Holds(crcFed', memberUc', out', c, c, OutStart[k])
    BY <1>4, <2>9, HoldsNothing
  <2>11. Len(out') <= Window
    BY <1>4, Constants
  <2>12. PipeAt(k, c, c)'
    BY <1>1, <1>4, <2>2, <2>4, <2>5, <2>8, <2>9, <2>10, <2>11 DEF PipeAt, Sent, Pipe!Quiet, KeepsWindow
  <2> QED BY <2>7, <2>12 DEF PipeInv
<1> QED BY <1>2, <1>3, <1>4, PipeParsers DEF Pipe!ReadGzipHeader

\* A position in bits, as bytes and bits of the next byte.
LEMMA BytesAndBits ==
    ASSUME NEW b \in Nat, NEW r \in 0 .. 7, NEW n \in Nat, n = 8 * b + r
    PROVE  /\ b = n \div 8 /\ BytesOfBits(n) = IF r > 0 THEN b + 1 ELSE b
<1>1. b = n \div 8
  OBVIOUS
<1>2. (n + 7) \div 8 = IF r > 0 THEN b + 1 ELSE b
  OBVIOUS
<1> QED BY <1>1, <1>2 DEF BytesOfBits

\* A block is decoded, or tried again with more input.
LEMMA PipeDecode ==
    ASSUME input \in Inputs, PipeInv, Pipe!DecodeBlock
    PROVE  PipeInv'
<1>1. pc = "block" /\ Pipe!Quiet
  BY DEF Pipe!DecodeBlock
<1>2. PICK r \in InflateBlock(8 * base + bitOff, filled, out) :
         \/ /\ r \in Blocks
            /\ out' = out \o Bytes(OutStart[r], OutEnd(r))
            /\ bfinal' = (r \in MemberEnds)
            /\ base' = BlockEnd(r) \div 8
            /\ bitOff' = BlockEnd(r) % 8
            /\ pc' = "emit"
            /\ UNCHANGED <<status, filled, srcEof, crcFed, memberUc, member>>
         \/ Pipe!FillOrTruncated
         \/ Pipe!Return("deflate")
  BY PipeLayout, PipeParsers DEF Pipe!DecodeBlock, Pipe!NextBitOff
<1>3. CASE Pipe!FillOrTruncated
  BY <1>1, <1>3, PipeFillOrTruncated
<1>4. CASE Pipe!Return("deflate")
  <2>1. PipeWaits /\ filled' = filled /\ srcEof' = srcEof
    BY <1>1, <1>4 DEF PipeWaits, Pipe!Quiet, Pipe!memberVars, Pipe!bufVars, Pipe!Return
  <2> QED BY <1>1, <2>1, PipeIdles
<1>5. CASE /\ r \in Blocks
           /\ out' = out \o Bytes(OutStart[r], OutEnd(r))
           /\ bfinal' = (r \in MemberEnds)
           /\ base' = BlockEnd(r) \div 8
           /\ bitOff' = BlockEnd(r) % 8
           /\ pc' = "emit"
           /\ UNCHANGED <<status, filled, srcEof, crcFed, memberUc, member>>
  <2>1. PICK k \in Nat, f \in Nat, c \in Nat : PipeAt(k, f, c)
    BY DEF PipeInv
  <2>2. /\ Sent(c) /\ (\E m \in FirstBlocks : f = OutStart[m]) /\ member \in 0 .. k
        /\ k \in Blocks /\ 8 * base + bitOff = BlockStart[k] /\ f = MemberOutAt(k)
        /\ KeepsWindow(f, c, OutStart[k]) /\ Len(out) <= Window
        /\ Holds(crcFed, memberUc, out, f, c, OutStart[k])
    BY <1>1, <2>1 DEF PipeAt
  <2>3. filled \in Nat /\ filled <= input.len
    BY DEF PipeInv, PipeBuffer
  <2>4. BlockStart[r] = 8 * base + bitOff /\ BlockEnd(r) <= 8 * filled
    BY <1>5, <2>3, BlockDecodes
  <2>5. r = k
    BY <1>5, <2>2, <2>4, OneBlockHere
  <2>6. /\ OutEnd(k) \in Nat /\ OutStart[k] <= OutEnd(k) /\ OutEnd(k) = OutStart[k] + BlockOut[k]
        /\ OutStart[k] \in Nat /\ BlockEnd(k) \in Nat
    BY <2>2, Positions
  <2>7. /\ BlockEnd(k) \div 8 \in Nat /\ BlockEnd(k) % 8 \in 0 .. 7
        /\ BlockEnd(k) = 8 * (BlockEnd(k) \div 8) + (BlockEnd(k) % 8)
    BY <2>6, ByteRounding
  <2>8. base' \in Nat /\ bitOff' \in 0 .. 7 /\ 8 * base' + bitOff' = BlockEnd(k)
    BY <1>5, <2>5, <2>7
  <2>9. PipeBuffer'
    <3>1. 8 * base' + bitOff' <= 8 * filled'
      BY <1>5, <2>4, <2>5, <2>8
    <3> QED BY <1>1, <1>5, <2>8, <3>1 DEF PipeInv, PipeBuffer, Pipe!Quiet
  <2>10. Holds(crcFed, memberUc, out \o Bytes(OutStart[k], OutEnd(k)), f, c, OutEnd(k))
    BY <2>2, <2>6, HoldsDecoded
  <2>11. Holds(crcFed', memberUc', out', f, c, OutEnd(k))
    BY <1>5, <2>5, <2>10
  <2>12. Len(out) = OutStart[k] - c /\ Len(out') = OutEnd(k) - c
    BY <2>2, <2>11, HoldsInOrder, SMTT(30)
  <2>13. BlockOut[k] \in Nat /\ Window \in Nat
    BY <2>2, Constants
  <2>14. Len(out') <= Window + BlockOut[k]
    <3>1. PICK a \in Nat, u \in Nat, w \in Nat : a = OutStart[k] /\ u = BlockOut[k] /\ w = Window
      BY <2>6, <2>13
    <3>2. OutEnd(k) = a + u
      BY <2>6, <3>1
    <3>3. Len(out) = a - c /\ Len(out') = (a + u) - c
      BY <2>12, <3>1, <3>2
    <3>4. a - c <= w
      BY <2>2, <3>1, <3>3
    <3>5. (a + u) - c <= w + u
      BY ONLY <3>4, a \in Nat, u \in Nat, w \in Nat, c \in Nat
    <3> QED BY <3>1, <3>3, <3>5
  <2>15. KeepsWindow(f, c, OutEnd(k))
    BY <2>2, <2>6, <2>13 DEF KeepsWindow
  <2>16. PipeAt(k, f, c)'
    BY <1>1, <1>5, <2>2, <2>5, <2>8, <2>11, <2>14, <2>15 DEF PipeAt, Sent, Pipe!Quiet
  <2> QED BY <2>9, <2>16 DEF PipeInv
<1> QED BY <1>2, <1>3, <1>4, <1>5

\* Output is sent.
LEMMA PipeEmit ==
    ASSUME PipeInv, Pipe!Emit
    PROVE  PipeInv'
<1>1. PICK k \in Nat, f \in Nat, c \in Nat : PipeAt(k, f, c)
  BY DEF PipeInv
<1> DEFINE EE == IF bfinal THEN Len(out) ELSE IF Len(out) > Window THEN Len(out) - Window ELSE 0
<1>2. /\ pc = "emit"
      /\ delivered' = IF sinkOpen THEN delivered \o SubSeq(out, 1, EE) ELSE delivered
      /\ crcFed' = crcFed \o SubSeq(out, 1, EE)
      /\ memberUc' = memberUc + Len(SubSeq(out, 1, EE))
      /\ out' = SubSeq(out, EE + 1, Len(out))
      /\ pc' = IF bfinal THEN "align" ELSE "block"
      /\ UNCHANGED <<input, sinkOpen, base, filled, bitOff, srcEof, bfinal, member>>
  BY DEF Pipe!Emit, Pipe!EmitEnd, Pipe!bufVars
<1>3. /\ Sent(c) /\ (\E m \in FirstBlocks : f = OutStart[m]) /\ member \in 0 .. k
      /\ k \in Blocks /\ 8 * base + bitOff = BlockEnd(k) /\ f = MemberOutAt(k) /\ bfinal = (k \in MemberEnds)
      /\ KeepsWindow(f, c, OutEnd(k)) /\ Len(out) <= Window + BlockOut[k]
      /\ Holds(crcFed, memberUc, out, f, c, OutEnd(k))
  BY <1>1, <1>2 DEF PipeAt
<1>4. /\ OutEnd(k) \in Nat /\ c <= OutEnd(k) /\ Len(out) = OutEnd(k) - c /\ out \in Seq(Nat)
      /\ Len(out) \in Nat /\ Window \in Nat
  <2>1. Len(out) = OutEnd(k) - c /\ out \in Seq(Nat)
    BY <1>3, HoldsInOrder
  <2>2. OutEnd(k) \in Nat /\ c <= OutEnd(k)
    BY <1>3 DEF Holds
  <2>3. Len(out) \in Nat /\ Window \in Nat
    BY <2>1, LenProperties, Constants
  <2> QED BY <2>1, <2>2, <2>3
<1>5. PICK n \in Nat : n = EE /\ n <= Len(out)
  <2>1. Len(out) \in Nat /\ Window \in Nat
    BY <1>4
  <2>2. EE \in Nat /\ EE <= Len(out)
    BY <2>1
  <2> QED BY <2>2
<1> HIDE DEF EE
<1>6. Holds(crcFed \o SubSeq(out, 1, n), memberUc + n, SubSeq(out, n + 1, Len(out)), f, c + n, OutEnd(k))
  BY <1>3, <1>5, HoldsFolded
<1>7. Len(SubSeq(out, 1, n)) = n
  <2>1. 1 \in 1 .. Len(out) + 1 /\ n \in 1 - 1 .. Len(out)
    BY <1>4, <1>5
  <2>2. PICK i : i = 1 /\ i \in 1 .. Len(out) + 1 /\ n \in i - 1 .. Len(out)
    BY <2>1
  <2>3. Len(SubSeq(out, i, n)) = IF i <= n THEN n - i + 1 ELSE 0
    BY <1>4, <2>2, SubSeqProperties
  <2> QED BY <1>5, <2>2, <2>3
<1>8. Holds(crcFed', memberUc', out', f, c + n, OutEnd(k))
  BY <1>2, <1>5, <1>6, <1>7
<1>9. Sent(c + n)'
  <2>1. CASE sinkOpen
    <3>1. IsOutput(delivered, c)
      BY <1>3, <2>1 DEF Sent
    <3>2. IsOutput(delivered \o SubSeq(out, 1, n), c + n)
      BY <1>3, <1>5, <3>1, SendFirst
    <3> QED BY <1>2, <1>5, <2>1, <3>2 DEF Sent
  <2>2. CASE ~sinkOpen
    BY <1>2, <2>2 DEF Sent
  <2> QED BY <2>1, <2>2
<1>10. PipeBuffer'
  BY <1>2, PipeBufferKept DEF PipeInv
<1>11. Len(out') = OutEnd(k) - (c + n) /\ c + n \in Nat
  <2>1. PICK e \in Nat : e = c + n
    OBVIOUS
  <2>2. Holds(crcFed', memberUc', out', f, e, OutEnd(k))
    BY <1>8, <2>1
  <2>3. Len(out') = OutEnd(k) - e
    BY <2>2, HoldsInOrder
  <2> QED BY <2>1, <2>3
<1>12. CASE k \in MemberEnds
  <2>1. n = Len(out)
    BY <1>3, <1>5, <1>12 DEF EE
  <2>2. c + n = OutEnd(k)
    BY <1>4, <2>1
  <2>3. Holds(crcFed', memberUc', out', f, OutEnd(k), OutEnd(k)) /\ Sent(OutEnd(k))'
    BY <1>8, <1>9, <2>2
  <2>4. pc' = "align"
    BY <1>2, <1>3, <1>12
  <2>5. PipeAt(k, f, OutEnd(k))'
    BY <1>2, <1>3, <1>12, <2>3, <2>4 DEF PipeAt, Sent
  <2> QED BY <1>4, <1>10, <2>5 DEF PipeInv
<1>13. CASE k \notin MemberEnds
  <2>1. n = IF Len(out) > Window THEN Len(out) - Window ELSE 0
    BY <1>3, <1>5, <1>13 DEF EE
  <2>2. /\ k + 1 \in Blocks /\ k + 1 \in Nat /\ BlockStart[k + 1] = BlockEnd(k)
        /\ OutStart[k + 1] = OutEnd(k) /\ MemberOutAt(k + 1) = MemberOutAt(k)
    BY <1>3, <1>13, NextBlock
  <2>3. KeepsWindow(f, c + n, OutStart[k + 1]) /\ Len(out') <= Window
    <3>1. CASE Len(out) > Window
      <4>1. OutEnd(k) - (c + n) = Window
        BY <1>4, <2>1, <3>1, SMTT(30)
      <4> QED BY <1>4, <1>11, <2>2, <4>1 DEF KeepsWindow
    <3>2. CASE ~(Len(out) > Window)
      <4>1. c + n = c /\ Len(out) <= Window
        BY <1>4, <2>1, <3>2
      <4>2. Len(out') = Len(out)
        BY <1>4, <1>11, <4>1
      <4> QED BY <1>3, <2>2, <4>1, <4>2
    <3> QED BY <3>1, <3>2
  <2>4. pc' = "block"
    BY <1>2, <1>3, <1>13
  <2>5. member' \in 0 .. k + 1
    BY <1>2, <1>3
  <2>6. PipeAt(k + 1, f, c + n)'
    BY <1>2, <1>3, <1>8, <1>9, <2>2, <2>3, <2>4, <2>5 DEF PipeAt
  <2> QED BY <1>10, <1>11, <2>2, <2>6 DEF PipeInv
<1> QED BY <1>12, <1>13

\* The rest of the last byte is skipped.
LEMMA PipeAlign ==
    ASSUME PipeInv, Pipe!ByteAlign
    PROVE  PipeInv'
<1>1. PICK k \in Nat, f \in Nat, c \in Nat : PipeAt(k, f, c)
  BY DEF PipeInv
<1>2. /\ pc = "align" /\ pc' = "trailer"
      /\ IF bitOff > 0 /\ filled - base > 0
         THEN base' = base + 1 /\ bitOff' = 0
         ELSE base' = base /\ bitOff' = bitOff
      /\ UNCHANGED <<input, delivered, sinkOpen, filled, srcEof, bfinal, out, crcFed, memberUc, member>>
  BY DEF Pipe!ByteAlign, Pipe!BufLen, Pipe!Quiet, Pipe!memberVars
<1>3. /\ Sent(c) /\ (\E m \in FirstBlocks : f = OutStart[m]) /\ member \in 0 .. k
      /\ k \in MemberEnds /\ 8 * base + bitOff = BlockEnd(k) /\ c = OutEnd(k)
      /\ Holds(crcFed, memberUc, out, f, c, c)
  BY <1>1, <1>2 DEF PipeAt
<1>4. base \in Nat /\ bitOff \in 0 .. 7 /\ filled \in Nat /\ 8 * base + bitOff <= 8 * filled
  BY DEF PipeInv, PipeBuffer
<1>5. BytesOfBits(8 * base + bitOff) = IF bitOff > 0 THEN base + 1 ELSE base
  <2>1. PICK n \in Nat : n = 8 * base + bitOff
    BY <1>4
  <2> QED BY <1>4, <2>1, BytesAndBits
<1>6. base' = TrailerAt(k) /\ bitOff' = 0
  <2>1. bitOff > 0 => filled - base > 0
    BY <1>4
  <2>2. base' = IF bitOff > 0 THEN base + 1 ELSE base
    BY <1>2, <2>1
  <2>3. bitOff' = 0
    BY <1>2, <1>4, <2>1
  <2> QED BY <1>3, <1>5, <2>2, <2>3 DEF TrailerAt
<1>7. PipeBuffer'
  <2>1. base' \in Nat /\ 8 * base' + bitOff' <= 8 * filled'
    <3>1. CASE bitOff > 0
      <4>1. base + 1 <= filled
        BY <1>4, <3>1
      <4>2. base' = base + 1 /\ bitOff' = 0 /\ filled' = filled
        BY <1>2, <1>4, <3>1, <4>1
      <4> QED BY <1>4, <4>1, <4>2
    <3>2. CASE ~(bitOff > 0)
      BY <1>2, <1>4, <3>2
    <3> QED BY <3>1, <3>2
  <2> QED BY <1>2, <1>6, <2>1 DEF PipeInv, PipeBuffer
<1>8. PipeAt(k, f, c)'
  BY <1>2, <1>3, <1>6 DEF PipeAt, Sent
<1> QED BY <1>7, <1>8 DEF PipeInv

\* A trailer is read and checked.
LEMMA PipeTrailer ==
    ASSUME input \in Inputs, PipeInv, Pipe!ReadTrailer
    PROVE  PipeInv'
<1>1. pc = "trailer" /\ Pipe!Quiet
  BY DEF Pipe!ReadTrailer
<1>2. CASE Pipe!FillOrTruncated
  BY <1>1, <1>2, PipeFillOrTruncated
<1>3. CASE UNCHANGED <<pc, Pipe!bufVars, Pipe!memberVars>>
  <2>1. PipeWaits /\ filled' = filled /\ srcEof' = srcEof
    BY <1>1, <1>3 DEF PipeWaits, Pipe!Quiet, Pipe!memberVars, Pipe!bufVars
  <2> QED BY <1>1, <2>1, PipeIdles
<1>4. CASE /\ filled - base >= 8 /\ base' = base + 8 /\ member' = member + 1 /\ pc' = "peek"
           /\ UNCHANGED <<status, filled, bitOff, srcEof, bfinal, out, crcFed, memberUc>>
  <2>1. PICK k \in Nat, f \in Nat, c \in Nat : PipeAt(k, f, c)
    BY DEF PipeInv
  <2>2. /\ Sent(c) /\ (\E m \in FirstBlocks : f = OutStart[m]) /\ member \in 0 .. k
        /\ k \in MemberEnds /\ base = TrailerAt(k) /\ bitOff = 0 /\ c = OutEnd(k)
        /\ Holds(crcFed, memberUc, out, f, c, c)
    BY <1>1, <2>1 DEF PipeAt
  <2>3. PICK b \in Boundaries : b = k + 1 /\ HdrAt(b) = MemberLimit(k) /\ OutAt(b) = OutEnd(k)
    BY <2>2, AfterMember
  <2>4. base \in Nat /\ filled \in Nat
    BY DEF PipeInv, PipeBuffer
  <2>5. base' = HdrAt(b) /\ bitOff' = 0
    BY <1>4, <2>2, <2>3 DEF MemberLimit, TrailerLen
  <2>6. PipeBuffer'
    <3>1. base' \in Nat /\ 8 * base' + bitOff' <= 8 * filled'
      BY <1>4, <2>4, <2>5
    <3> QED BY <1>1, <1>4, <3>1 DEF PipeInv, PipeBuffer, Pipe!Quiet
  <2>7. member' \in 0 .. b /\ b \in Nat
    BY <1>4, <2>2, <2>3
  <2>8. PipeAt(b, f, c)'
    BY <1>1, <1>4, <2>2, <2>3, <2>5, <2>7 DEF PipeAt, Sent, Pipe!Quiet
  <2> QED BY <2>6, <2>7, <2>8 DEF PipeInv
<1> QED BY <1>2, <1>3, <1>4, PipeLayout, PipeParsers DEF Pipe!ReadTrailer, Pipe!Return, Pipe!BufLen, TrailerLen

-----------------------------------------------------------------------------
(* ChunkChain. *)

\* No output comes after that of the last block.
LEMMA OutWithin ==
    ASSUME NEW k \in Blocks
    PROVE  OutEnd(k) <= OutEnd(NumBlocks - 1) /\ OutEnd(NumBlocks - 1) \in Nat /\ OutEnd(k) \in Nat
<1>1. PICK z \in Blocks : z = NumBlocks - 1 /\ k <= z
  BY Constants
<1>2. OutEnd(z) \in Nat /\ OutStart[z] \in Nat /\ OutEnd(z) >= OutStart[z] /\ OutEnd(k) \in Nat
      /\ k \in Nat /\ z \in Nat
  BY Positions
<1>3. CASE k = z
  BY <1>1, <1>2, <1>3
<1>4. CASE k # z
  <2>1. k < z
    BY <1>1, <1>2, <1>4
  <2>2. OutEnd(k) <= OutStart[z]
    BY <2>1, Order DEF Follows
  <2> QED BY <1>1, <1>2, <2>2
<1> QED BY <1>3, <1>4

\* A chunk without ends of members.
LEMMA EndsNone ==
    ASSUME NEW a, NEW p, NEW o
    PROVE  EndsAt(<<>>, a, p, o)
<1>1. <<>> \in Seq([offset : Nat, trailer : Nat]) /\ Len(<<>>) = 0
  BY EmptySeq
<1>2. 1 .. Len(<<>>) = {}
  BY <1>1
<1> QED BY <1>1, <1>2 DEF EndsAt

\* The offsets of ends are numbers.
LEMMA EndsType ==
    ASSUME NEW es, NEW a, NEW p, NEW o, EndsAt(es, a, p, o)
    PROVE  \A i \in 1 .. Len(es) : es[i].offset \in Nat
<1> DEFINE R == [offset : Nat, trailer : Nat]
<1>1. es \in Seq(R)
  BY DEF EndsAt
<1>2. \A x \in R : x.offset \in Nat
  OBVIOUS
<1> HIDE DEF R
<1>3. \A i \in 1 .. Len(es) : es[i] \in R
  BY <1>1
<1> QED BY <1>2, <1>3

\* More is decoded.
LEMMA EndsMore ==
    ASSUME NEW es, NEW p \in Nat, NEW o \in Nat, EndsAt(es, 0, p, o), NEW q \in Nat, o <= q
    PROVE  EndsAt(es, 0, p, q)
<1>1. \A i \in 1 .. Len(es) : es[i].offset \in Nat
  BY EndsType
<1>2. \A i \in 1 .. Len(es) : p + es[i].offset <= q
  BY <1>1 DEF EndsAt
<1> QED BY <1>2 DEF EndsAt

\* A member ends where the output does.
LEMMA EndsAppend ==
    ASSUME NEW es, NEW p \in Nat, NEW k \in MemberEnds, OutEnd(k) \in Nat, p <= OutEnd(k),
           EndsAt(es, 0, p, OutEnd(k)), NEW at \in Nat, NEW n \in Nat, n = OutEnd(k) - p
    PROVE  EndsAt(Append(es, [offset |-> n, trailer |-> at]), 0, p, OutEnd(k))
<1> DEFINE R == [offset : Nat, trailer : Nat]
           x == [offset |-> n, trailer |-> at]
<1>1. x \in R /\ x.offset = n
  OBVIOUS
<1>2. es \in Seq(R)
  BY DEF EndsAt
<1>3. /\ \A i \in 1 .. Len(es) : /\ es[i].offset \in Nat /\ p + es[i].offset <= OutEnd(k)
                                 /\ \E e \in MemberEnds : p + es[i].offset = OutEnd(e)
      /\ \A i, j \in 1 .. Len(es) : i <= j => es[i].offset <= es[j].offset
  <2>1. \A i \in 1 .. Len(es) : es[i].offset \in Nat
    BY EndsType
  <2> QED BY <2>1 DEF EndsAt
<1> HIDE DEF R, x
<1>4. PICK u : u = Append(es, x)
  OBVIOUS
<1>5. u \in Seq(R) /\ Len(u) = Len(es) + 1 /\ Len(es) \in Nat
  BY <1>1, <1>2, <1>4, AppendProperties, LenProperties
<1>6. \A i \in 1 .. Len(es) + 1 : u[i] = IF i <= Len(es) THEN es[i] ELSE x
  BY <1>1, <1>2, <1>4, <1>5, AppendProperties
<1>7. ASSUME NEW i \in 1 .. Len(u)
      PROVE  /\ u[i].offset \in Nat /\ 0 <= u[i].offset /\ p + u[i].offset <= OutEnd(k)
             /\ \E e \in MemberEnds : p + u[i].offset = OutEnd(e)
  <2>1. CASE i <= Len(es)
    <3>1. i \in 1 .. Len(es) /\ u[i] = es[i]
      BY <1>5, <1>6, <2>1
    <3> QED BY <1>3, <3>1
  <2>2. CASE ~(i <= Len(es))
    <3>1. u[i] = x
      BY <1>5, <1>6, <2>2
    <3>2. p + n = OutEnd(k)
      OBVIOUS
    <3> QED BY <1>1, <3>1, <3>2
  <2> QED BY <2>1, <2>2
<1>8. ASSUME NEW i \in 1 .. Len(u), NEW j \in 1 .. Len(u), i <= j
      PROVE  u[i].offset <= u[j].offset
  <2>1. CASE j <= Len(es)
    <3>1. i \in 1 .. Len(es) /\ u[i] = es[i] /\ j \in 1 .. Len(es) /\ u[j] = es[j]
      BY <1>5, <1>6, <1>8, <2>1
    <3> QED BY <1>3, <1>8, <3>1
  <2>2. CASE ~(j <= Len(es))
    <3>1. u[j].offset = n
      BY <1>1, <1>5, <1>6, <2>2
    <3>2. u[i].offset \in Nat /\ p + u[i].offset <= OutEnd(k)
      BY <1>7
    <3> QED BY <3>1, <3>2
  <2> QED BY <2>1, <2>2
<1>9. EndsAt(u, 0, p, OutEnd(k))
  BY <1>5, <1>7, <1>8 DEF EndsAt, R
<1> QED BY <1>4, <1>9 DEF x

\* The first end is taken.
LEMMA EndsPop ==
    ASSUME NEW es, NEW a \in Nat, NEW p \in Nat, NEW o \in Nat, EndsAt(es, a, p, o), es # <<>>
    PROVE  /\ Head(es).offset \in Nat /\ a <= Head(es).offset /\ p + Head(es).offset <= o
           /\ Head(es).trailer \in Nat
           /\ \E e \in MemberEnds : p + Head(es).offset = OutEnd(e)
           /\ EndsAt(Tail(es), Head(es).offset, p, o)
<1> DEFINE R == [offset : Nat, trailer : Nat]
<1>1. es \in Seq(R)
  BY DEF EndsAt
<1>2. /\ \A i \in 1 .. Len(es) : /\ a <= es[i].offset /\ p + es[i].offset <= o
                                 /\ \E e \in MemberEnds : p + es[i].offset = OutEnd(e)
      /\ \A i, j \in 1 .. Len(es) : i <= j => es[i].offset <= es[j].offset
  BY DEF EndsAt
<1>3. \A x \in R : x.offset \in Nat /\ x.trailer \in Nat
  OBVIOUS
<1> HIDE DEF R
<1>4. Len(es) \in Nat /\ Len(es) >= 1 /\ Head(es) = es[1] /\ Head(es) \in R
  BY <1>1, HeadTailProperties, LenProperties, EmptySeq
<1>5. 1 \in 1 .. Len(es)
  BY <1>4
<1>6. Tail(es) \in Seq(R) /\ Len(Tail(es)) = Len(es) - 1 /\ \A i \in 1 .. Len(es) - 1 : Tail(es)[i] = es[i + 1]
  BY <1>1, HeadTailProperties
<1>7. PICK u : u = Tail(es)
  OBVIOUS
<1>8. ASSUME NEW i \in 1 .. Len(u)
      PROVE  /\ i + 1 \in 1 .. Len(es) /\ u[i] = es[i + 1]
  BY <1>4, <1>6, <1>7
<1>9. ASSUME NEW i \in 1 .. Len(u)
      PROVE  /\ Head(es).offset <= u[i].offset /\ p + u[i].offset <= o
             /\ \E e \in MemberEnds : p + u[i].offset = OutEnd(e)
  <2>1. 1 <= i + 1
    OBVIOUS
  <2> QED BY <1>2, <1>4, <1>5, <1>8, <2>1
<1>10. ASSUME NEW i \in 1 .. Len(u), NEW j \in 1 .. Len(u), i <= j
       PROVE  u[i].offset <= u[j].offset
  <2>1. i + 1 <= j + 1
    BY <1>10
  <2> QED BY <1>2, <1>8, <2>1
<1>11. EndsAt(u, Head(es).offset, p, o)
  BY <1>6, <1>7, <1>9, <1>10 DEF EndsAt, R
<1> QED BY <1>2, <1>3, <1>4, <1>5, <1>7, <1>11

\* A step that leaves the chunk as it is.
ChunkWaits ==
    UNCHANGED <<input, sinkOpen, delivered, pc, pos, out, folded, crcFed, memberUc, ends, final>>

\* Such a step leaves the decoder where it is.
LEMMA ChunkStays ==
    ASSUME ChunkInv, ChunkWaits
    PROVE  ChunkInv'
<1>1. PICK m \in Nat, p \in Nat, o \in Nat : ChunkAt(m, p, o)
  BY DEF ChunkInv
<1>2. ChunkPosition(o)'
  BY <1>1 DEF ChunkAt, ChunkPosition, ChunkWaits
<1>3. ChunkAt(m, p, o)'
  BY <1>1, <1>2 DEF ChunkAt, Sent, ChunkWaits
<1> QED BY <1>3 DEF ChunkInv

\* Finish, and every error, is such a step.
LEMMA ChunkReturn ==
    ASSUME ChunkInv, NEW r, Chunks!Return(r)
    PROVE  ChunkInv'
<1>1. ChunkWaits
  BY DEF ChunkWaits, Chunks!Return, Chunks!environment, Chunks!chunkVars, Chunks!memberVars
<1> QED BY <1>1, ChunkStays

\* The next chunk.
LEMMA ChunkStart ==
    ASSUME ChunkInv, Chunks!StartChunk
    PROVE  ChunkInv'
<1>1. PICK m \in Nat, p \in Nat, o \in Nat : ChunkAt(m, p, o)
  BY DEF ChunkInv
<1>2. /\ pc = "chunk" /\ ~final /\ pc' = "top" /\ final' = FALSE /\ ends' = <<>> /\ out' = <<>>
      /\ UNCHANGED <<input, sinkOpen, delivered, pos, folded, crcFed, memberUc>>
  BY DEF Chunks!StartChunk, Chunks!environment
<1>3. p = o /\ folded = 0 /\ ends = <<>> /\ out = Bytes(p, o)
  BY <1>1, <1>2 DEF ChunkAt
<1>4. out' = Bytes(p, o)
  <2>1. p <= p
    OBVIOUS
  <2>2. Bytes(p, p) = <<>>
    BY <2>1, BytesType
  <2> QED BY <1>2, <1>3, <2>2
<1>5. ChunkPosition(o)'
  BY <1>1, <1>2 DEF ChunkAt, ChunkPosition
<1>6. ChunkAt(m, p, o)'
  BY <1>1, <1>2, <1>3, <1>4, <1>5 DEF ChunkAt, Sent
<1> QED BY <1>6 DEF ChunkInv

\* The top of the member loop.
LEMMA ChunkNextMember ==
    ASSUME ChunkInv, Chunks!NextMember
    PROVE  ChunkInv'
<1>1. PICK m \in Nat, p \in Nat, o \in Nat : ChunkAt(m, p, o)
  BY DEF ChunkInv
<1>2. /\ pc = "top" /\ pc' \in {"output", "library", "block"}
      /\ UNCHANGED <<input, sinkOpen, delivered, pos, out, folded, crcFed, memberUc, ends, final>>
  BY DEF Chunks!NextMember, Chunks!environment, Chunks!memberVars
<1>3. ChunkPosition(o)'
  BY <1>1, <1>2 DEF ChunkAt, ChunkPosition
<1>4. ChunkAt(m, p, o)'
  BY <1>1, <1>2, <1>3 DEF ChunkAt, Sent
<1> QED BY <1>4 DEF ChunkInv

\* The chunk grows by the output from o to q.
LEMMA ChunkGrows ==
    ASSUME NEW m \in Nat, NEW p \in Nat, NEW o \in Nat, ChunkAt(m, p, o), pc # "output", pc # "chunk",
           NEW q \in Nat, o <= q, q <= OutEnd(NumBlocks - 1), out' = out \o Bytes(o, q),
           UNCHANGED <<input, sinkOpen, delivered, folded, crcFed, memberUc, ends>>,
           pos' \in 0 .. 8 * input.len, pc' # "chunk", ChunkPosition(q)'
    PROVE  ChunkInv'
<1>1. folded = 0 /\ p <= o /\ out = Bytes(p, o) /\ EndsAt(ends, folded, p, o)
  BY DEF ChunkAt
<1>2. out' = Bytes(p, q)
  BY <1>1, BytesConcat
<1>3. EndsAt(ends, 0, p, q)
  BY <1>1, EndsMore
<1>4. /\ m \in Boundaries /\ Sent(p) /\ folded \in Nat /\ OutAt(m) <= p + folded
      /\ crcFed = Bytes(OutAt(m), p + folded) /\ memberUc = (p + folded) - OutAt(m)
  BY DEF ChunkAt
<1>5. p <= q /\ p + folded <= q
  BY <1>1
<1>6. ChunkAt(m, p, q)'
  BY <1>1, <1>2, <1>3, <1>4, <1>5 DEF ChunkAt, Sent
<1> QED BY <1>6 DEF ChunkInv

\* A block is decoded.
LEMMA ChunkDecodes ==
    ASSUME input \in Inputs, ChunkInv, Chunks!DecodeBlock
    PROVE  ChunkInv'
<1>1. PICK m \in Nat, p \in Nat, o \in Nat : ChunkAt(m, p, o)
  BY DEF ChunkInv
<1>2. pc = "block"
  BY DEF Chunks!DecodeBlock
<1>3. PICK r \in InflateBlock(pos, input.len, IF first THEN tail \o out ELSE out) :
         \/ /\ r \in Blocks
            /\ out' = out \o Bytes(OutStart[r], OutEnd(r))
            /\ pos' = BlockEnd(r)
            /\ pc' = IF r \in MemberEnds THEN "trailer"
                     ELSE IF BlockEnd(r) >= hint THEN "output" ELSE "block"
            /\ UNCHANGED <<input, sinkOpen, delivered, folded, crcFed, memberUc, ends, final>>
         \/ Chunks!Return("deflate")
  BY ChunksLayout, ChunksParsers DEF Chunks!DecodeBlock, Chunks!environment, Chunks!chunkVars
<1>4. CASE Chunks!Return("deflate")
  BY <1>4, ChunkReturn
<1>5. CASE /\ r \in Blocks
           /\ out' = out \o Bytes(OutStart[r], OutEnd(r))
           /\ pos' = BlockEnd(r)
           /\ pc' = IF r \in MemberEnds THEN "trailer"
                    ELSE IF BlockEnd(r) >= hint THEN "output" ELSE "block"
           /\ UNCHANGED <<input, sinkOpen, delivered, folded, crcFed, memberUc, ends, final>>
  <2>1. input.len \in Nat
    BY InputLength
  <2>2. BlockStart[r] = pos /\ BlockEnd(r) <= 8 * input.len
    BY <1>5, <2>1, BlockDecodes
  <2>3. PICK k \in Blocks : pos = BlockStart[k] /\ o = OutStart[k] /\ ~final
    BY <1>1, <1>2 DEF ChunkAt, ChunkPosition
  <2>4. r = k
    BY <1>5, <2>2, <2>3, OneBlockHere
  <2>5. OutEnd(k) \in Nat /\ OutStart[k] <= OutEnd(k) /\ BlockEnd(k) \in Nat
    BY Positions
  <2>6. OutEnd(k) <= OutEnd(NumBlocks - 1)
    BY OutWithin
  <2>7. pos' \in 0 .. 8 * input.len /\ out' = out \o Bytes(o, OutEnd(k)) /\ o <= OutEnd(k)
    BY <1>5, <2>1, <2>2, <2>3, <2>4, <2>5
  <2>8. ChunkPosition(OutEnd(k))'
    <3>1. CASE k \in MemberEnds
      <4>1. pc' = "trailer" /\ BytesOfBits(pos') = TrailerAt(k) /\ ~final'
        BY <1>5, <2>3, <2>4, <3>1 DEF TrailerAt
      <4> QED BY <3>1, <4>1 DEF ChunkPosition
    <3>2. CASE k \notin MemberEnds
      <4>1. k + 1 \in Blocks /\ BlockStart[k + 1] = BlockEnd(k) /\ OutStart[k + 1] = OutEnd(k)
        BY <3>2, NextBlock
      <4>2. PICK j \in Blocks : BlockStart[j] = BlockEnd(k) /\ OutStart[j] = OutEnd(k)
        BY <4>1
      <4>3. pc' \in {"output", "block"} /\ ~final' /\ pos' = BlockStart[j]
        BY <1>5, <2>3, <2>4, <3>2, <4>2
      <4> QED BY <4>2, <4>3 DEF ChunkPosition
    <3> QED BY <3>1, <3>2
  <2>9. pc # "output" /\ pc # "chunk" /\ pc' # "chunk"
    BY <1>2, <1>5
  <2> QED BY <1>1, <1>5, <2>5, <2>6, <2>7, <2>8, <2>9, ChunkGrows
<1> QED BY <1>3, <1>4, <1>5

\* The output of a member from its first block on.
LEMMA MemberOutput ==
    ASSUME NEW k \in Blocks
    PROVE  /\ LastBlock(k) \in MemberEnds /\ LastBlock(k) \in Blocks
           /\ OutStart[k] \in Nat /\ OutEnd(LastBlock(k)) \in Nat
           /\ OutStart[k] <= OutEnd(LastBlock(k)) /\ OutEnd(LastBlock(k)) <= OutEnd(NumBlocks - 1)
           /\ BlockEnd(LastBlock(k)) \in Nat /\ TrailerAt(LastBlock(k)) \in Nat
<1>1. PICK l : l = LastBlock(k) /\ l \in MemberEnds /\ l \in Blocks /\ k <= l
  BY LastBlocks
<1>2. /\ OutEnd(l) \in Nat /\ OutStart[l] \in Nat /\ OutEnd(l) >= OutStart[l]
      /\ OutEnd(k) \in Nat /\ OutStart[k] \in Nat /\ OutEnd(k) >= OutStart[k]
      /\ BlockEnd(l) \in Nat /\ TrailerAt(l) \in Nat
  BY <1>1, Positions
<1>3. OutEnd(l) <= OutEnd(NumBlocks - 1)
  BY <1>1, OutWithin
<1>4. OutStart[k] <= OutEnd(l)
  <2>1. CASE k = l
    BY <1>2, <2>1
  <2>2. CASE k # l
    <3>1. k < l
      BY <1>1, <2>2, Constants
    <3>2. OutEnd(k) <= OutStart[l]
      BY <1>1, <3>1, Order DEF Follows
    <3> QED BY <1>2, <3>2
  <2> QED BY <2>1, <2>2
<1> QED BY <1>1, <1>2, <1>3, <1>4

\* A library is called.
LEMMA ChunkLibrary ==
    ASSUME input \in Inputs, ChunkInv, Chunks!DecodeWithLibrary
    PROVE  ChunkInv'
<1>1. PICK m \in Nat, p \in Nat, o \in Nat : ChunkAt(m, p, o)
  BY DEF ChunkInv
<1>2. pc = "library"
  BY DEF Chunks!DecodeWithLibrary
<1>3. PICK k \in Blocks : pos = BlockStart[k] /\ o = OutStart[k] /\ ~final
  BY <1>1, <1>2 DEF ChunkAt, ChunkPosition
<1>4. CASE Chunks!Return("deflate")
  BY <1>4, ChunkReturn
<1>5. CASE /\ out' = out /\ pc' \in {"library", "block"} /\ pos' = pos
           /\ UNCHANGED <<input, sinkOpen, delivered, folded, crcFed, memberUc, ends, final>>
  <2>1. ChunkPosition(o)'
    BY <1>3, <1>5 DEF ChunkPosition
  <2>2. ChunkAt(m, p, o)'
    BY <1>1, <1>2, <1>5, <2>1 DEF ChunkAt, Sent
  <2> QED BY <2>2 DEF ChunkInv
<1>6. ASSUME NEW j \in FirstBlocks, BlockStart[j] = pos, Chunks!LibraryDecodes(j),
             out' = out \o Bytes(OutStart[j], OutEnd(LastBlock(j))), pc' = "trailer",
             pos' = 8 * TrailerAt(LastBlock(j)),
             UNCHANGED <<input, sinkOpen, delivered, folded, crcFed, memberUc, ends, final>>
      PROVE  ChunkInv'
  <2>1. j = k
    BY <1>3, <1>6, Members, OneBlockHere
  <2>2. PICK l : /\ l = LastBlock(k) /\ l \in MemberEnds /\ OutEnd(l) \in Nat /\ OutStart[k] <= OutEnd(l)
                 /\ OutEnd(l) <= OutEnd(NumBlocks - 1) /\ BlockEnd(l) \in Nat /\ TrailerAt(l) \in Nat
    BY MemberOutput
  <2>3. out' = out \o Bytes(o, OutEnd(l)) /\ pos' = 8 * TrailerAt(l) /\ o <= OutEnd(l)
    BY <1>3, <1>6, <2>1, <2>2
  <2>4. BlockEnd(l) <= 8 * input.len
    BY <1>6, <2>1, <2>2, ChunksLayout DEF Chunks!LibraryDecodes
  <2>5. 8 * TrailerAt(l) < BlockEnd(l) + 8
    BY <2>2, ByteRounding DEF TrailerAt
  <2>6. input.len \in Nat
    BY InputLength
  <2>7. TrailerAt(l) <= input.len
    BY <2>2, <2>4, <2>5, <2>6
  <2>8. pos' \in 0 .. 8 * input.len
    BY <2>2, <2>3, <2>6, <2>7
  <2>9. BytesOfBits(8 * TrailerAt(l)) = TrailerAt(l)
    BY <2>2, WholeBytes
  <2>10. ChunkPosition(OutEnd(l))'
    BY <1>3, <1>6, <2>2, <2>3, <2>9 DEF ChunkPosition
  <2>11. pc # "output" /\ pc # "chunk" /\ pc' # "chunk"
    BY <1>2, <1>6
  <2> QED BY <1>1, <1>6, <2>2, <2>3, <2>8, <2>10, <2>11, ChunkGrows
<1>7. CASE \E j \in FirstBlocks :
             LET outcome == Chunks!LibraryOutcome(j) IN
             /\ BlockStart[j] = pos
             /\ outcome = "overflow" \/ Chunks!LibraryDecodes(j)
             /\ out' = Chunks!LibraryOut(j, outcome)
             /\ pc' = CASE outcome = "overflow" -> "library"
                        [] outcome = "straddle" -> "block"
                        [] outcome = "done"     -> "trailer"
             /\ pos' = IF outcome = "done" THEN 8 * TrailerAt(LastBlock(j)) ELSE pos
             /\ UNCHANGED <<input, sinkOpen, delivered, folded, crcFed, memberUc, ends, final>>
  <2>1. PICK j \in FirstBlocks, c \in {"overflow", "straddle", "done"} :
             /\ BlockStart[j] = pos
             /\ c = "overflow" \/ Chunks!LibraryDecodes(j)
             /\ out' = Chunks!LibraryOut(j, c)
             /\ pc' = CASE c = "overflow" -> "library"
                        [] c = "straddle" -> "block"
                        [] c = "done"     -> "trailer"
             /\ pos' = IF c = "done" THEN 8 * TrailerAt(LastBlock(j)) ELSE pos
             /\ UNCHANGED <<input, sinkOpen, delivered, folded, crcFed, memberUc, ends, final>>
    <3>1. \A j : Chunks!LibraryOutcome(j) \in {"overflow", "straddle", "done"}
      BY DEF Chunks!LibraryOutcome
    <3> QED BY <1>7, <3>1
  <2>2. CASE c = "done"
    <3>1. out' = out \o Bytes(OutStart[j], OutEnd(LastBlock(j)))
      BY <2>1, <2>2, ChunksLayout DEF Chunks!LibraryOut
    <3> QED BY <1>6, <2>1, <2>2, <3>1
  <2>3. CASE c # "done"
    <3>1. out' = out
      BY <2>1, <2>3 DEF Chunks!LibraryOut
    <3>2. pc' \in {"library", "block"} /\ pos' = pos
      BY <2>1, <2>3
    <3> QED BY <1>5, <2>1, <3>1, <3>2
  <2> QED BY <2>2, <2>3
<1> QED BY <1>4, <1>7, ChunksLayout DEF Chunks!DecodeWithLibrary, Chunks!environment

\* The end of a member in the chunk.
LEMMA ChunkTrailer ==
    ASSUME input \in Inputs, ChunkInv, Chunks!ReadTrailer
    PROVE  ChunkInv'
<1>1. PICK m \in Nat, p \in Nat, o \in Nat : ChunkAt(m, p, o)
  BY DEF ChunkInv
<1>2. pc = "trailer"
  BY DEF Chunks!ReadTrailer
<1>3. PICK k \in MemberEnds : BytesOfBits(pos) = TrailerAt(k) /\ o = OutEnd(k)
  BY <1>1, <1>2 DEF ChunkAt, ChunkPosition
<1>4. PICK at \in Nat : at = TrailerAt(k)
  BY Constants, Positions
<1>5. CASE \E r : Chunks!Return(r)
  BY <1>5, ChunkReturn
<1>6. CASE /\ at + 8 <= input.len /\ (at + 8 = input.len \/ ParseHeader(at + 8, input.len) = "ok")
           /\ ends' = Append(ends, [offset |-> Len(out), trailer |-> at])
           /\ final' = (at + 8 = input.len)
           /\ pos' = IF final' THEN 8 * (at + 8) ELSE 8 * ((at + 8) + HeaderLen)
           /\ pc' = IF final' THEN "output" ELSE "top"
           /\ UNCHANGED <<input, sinkOpen, delivered, folded, out, crcFed, memberUc>>
  <2>1. /\ folded = 0 /\ p <= o /\ out = Bytes(p, o) /\ EndsAt(ends, 0, p, o)
        /\ m \in Boundaries /\ Sent(p) /\ folded \in Nat /\ OutAt(m) <= p + folded
        /\ crcFed = Bytes(OutAt(m), p + folded) /\ memberUc = (p + folded) - OutAt(m)
        /\ o <= OutEnd(NumBlocks - 1) /\ p + folded <= o
    BY <1>1, <1>2 DEF ChunkAt
  <2>2. PICK n \in Nat : n = OutEnd(k) - p /\ n = Len(out)
    <3>1. Len(Bytes(p, o)) = o - p
      BY <2>1, BytesType
    <3>2. Len(out) = OutEnd(k) - p /\ OutEnd(k) - p \in Nat
      BY <1>3, <2>1, <3>1
    <3> QED BY <3>2
  <2>3. EndsAt(Append(ends, [offset |-> n, trailer |-> at]), 0, p, OutEnd(k))
    BY <1>3, <2>1, <2>2, EndsAppend
  <2>4. EndsAt(ends', 0, p, o)
    BY <1>3, <1>6, <2>2, <2>3
  <2>5. input.len \in Nat /\ HeaderLen \in Nat
    BY InputLength, Constants
  <2>6. CASE at + 8 = input.len
    <3>1. final' = TRUE /\ pc' = "output" /\ pos' = 8 * (at + 8)
      BY <1>6, <2>6
    <3>2. pos' \in 0 .. 8 * input.len
      BY <2>5, <2>6, <3>1
    <3>3. ChunkPosition(o)'
      <4>1. MemberLimit(k) = at + 8
        BY <1>4 DEF MemberLimit, TrailerLen
      <4> QED BY <1>3, <3>1, <4>1 DEF ChunkPosition
    <3>4. ChunkAt(m, p, o)'
      BY <1>6, <2>1, <2>4, <3>1, <3>2, <3>3 DEF ChunkAt, Sent
    <3> QED BY <3>4 DEF ChunkInv
  <2>7. CASE at + 8 # input.len
    <3>1. final' = FALSE /\ pc' = "top" /\ pos' = 8 * ((at + 8) + HeaderLen)
          /\ ParseHeader(at + 8, input.len) = "ok"
      BY <1>6, <2>7
    <3>2. PICK b \in Boundaries : b = k + 1 /\ HdrAt(b) = MemberLimit(k) /\ OutAt(b) = OutEnd(k)
      BY AfterMember
    <3>3. HdrAt(b) = at + 8
      BY <1>4, <3>2 DEF MemberLimit, TrailerLen
    <3>4. input.len <= input.len
      BY <2>5
    <3>5. b \in Blocks /\ HdrAt(b) + HeaderLen <= input.len
      BY <2>5, <3>1, <3>3, <3>4, HeaderAtBoundary
    <3>6. OutStart[b] = OutAt(b) /\ BlockStart[b] = 8 * (HdrAt(b) + HeaderLen)
      BY <3>5, BoundaryStarts
    <3>7. pos' \in 0 .. 8 * input.len /\ pos' = BlockStart[b] /\ o = OutStart[b]
      BY <1>3, <2>5, <3>1, <3>2, <3>3, <3>5, <3>6
    <3>8. ChunkPosition(o)'
      BY <3>1, <3>5, <3>7 DEF ChunkPosition
    <3>9. ChunkAt(m, p, o)'
      BY <1>6, <2>1, <2>4, <3>1, <3>7, <3>8 DEF ChunkAt, Sent
    <3> QED BY <3>9 DEF ChunkInv
  <2> QED BY <2>6, <2>7
<1>7. /\ Chunks!BytesOfBits(pos) = at /\ Chunks!TrailerLen = 8
      /\ Chunks!ParseHeader(at + 8, input.len) = ParseHeader(at + 8, input.len)
  BY <1>3, <1>4, ChunksLayout, ChunksParsers, Constants
<1>8. \/ \E r : Chunks!Return(r)
      \/ /\ at + 8 <= input.len /\ (at + 8 = input.len \/ ParseHeader(at + 8, input.len) = "ok")
         /\ ends' = Append(ends, [offset |-> Len(out), trailer |-> at])
         /\ final' = (at + 8 = input.len)
         /\ pos' = IF final' THEN 8 * (at + 8) ELSE 8 * ((at + 8) + HeaderLen)
         /\ pc' = IF final' THEN "output" ELSE "top"
         /\ UNCHANGED <<input, sinkOpen, delivered, folded, out, crcFed, memberUc>>
  BY <1>7, Zenon DEF Chunks!ReadTrailer, Chunks!environment, Chunks!memberVars
<1> QED BY <1>5, <1>6, <1>8

\* A member that ends in the chunk is checked.
LEMMA ChunkCheck ==
    ASSUME ChunkInv, Chunks!CheckMember
    PROVE  ChunkInv'
<1>1. PICK m \in Nat, p \in Nat, o \in Nat : ChunkAt(m, p, o)
  BY DEF ChunkInv
<1>2. pc = "output" /\ ends # <<>>
  BY DEF Chunks!CheckMember
<1>3. CASE \E r : Chunks!Return(r)
  BY <1>3, ChunkReturn
<1>4. CASE /\ folded' = Head(ends).offset /\ ends' = Tail(ends)
           /\ crcFed' = <<>> /\ memberUc' = 0
           /\ UNCHANGED <<input, sinkOpen, delivered, pc, pos, out, final>>
  <2>1. folded \in Nat /\ EndsAt(ends, folded, p, o)
    BY <1>1 DEF ChunkAt
  <2>2. /\ folded' \in Nat /\ folded <= folded' /\ p + folded' <= o
        /\ \E e \in MemberEnds : p + folded' = OutEnd(e)
        /\ EndsAt(ends', folded', p, o)
    BY <1>2, <1>4, <2>1, EndsPop
  <2>3. PICK e \in MemberEnds : p + folded' = OutEnd(e)
    BY <2>2
  <2>4. PICK b \in Boundaries : b = e + 1 /\ OutAt(b) = OutEnd(e)
    BY AfterMember
  <2>5. b \in Nat /\ OutAt(b) \in Nat
    BY BoundaryNumbers
  <2>6. crcFed' = Bytes(OutAt(b), p + folded') /\ memberUc' = (p + folded') - OutAt(b) /\ OutAt(b) <= p + folded'
    <3>1. PICK x \in Nat : x = OutAt(b)
      BY <2>5
    <3>2. x <= x /\ x - x = 0
      OBVIOUS
    <3>3. Bytes(x, x) = <<>>
      BY <3>2, BytesType
    <3> QED BY <1>4, <2>3, <2>4, <3>1, <3>2, <3>3
  <2>7. ChunkPosition(o)'
    BY <1>1, <1>4 DEF ChunkAt, ChunkPosition
  <2>8. ChunkAt(b, p, o)'
    BY <1>1, <1>2, <1>4, <2>2, <2>5, <2>6, <2>7 DEF ChunkAt, Sent
  <2> QED BY <2>5, <2>8 DEF ChunkInv
<1> QED BY <1>3, <1>4 DEF Chunks!CheckMember, Chunks!environment

\* The chunk is sent.
LEMMA ChunkSend ==
    ASSUME ChunkInv, Chunks!SendChunk
    PROVE  ChunkInv'
<1>1. PICK m \in Nat, p \in Nat, o \in Nat : ChunkAt(m, p, o)
  BY DEF ChunkInv
<1>2. pc = "output" /\ ends = <<>>
  BY DEF Chunks!SendChunk
<1>3. CASE \E r : Chunks!Return(r)
  BY <1>3, ChunkReturn
<1>4. CASE /\ sinkOpen /\ delivered' = delivered \o out
           /\ crcFed' = crcFed \o SubSeq(out, folded + 1, Len(out))
           /\ memberUc' = memberUc + Len(SubSeq(out, folded + 1, Len(out)))
           /\ out' = <<>> /\ folded' = 0 /\ pc' = "chunk"
           /\ UNCHANGED <<input, sinkOpen, pos, ends, final>>
  <2>1. /\ m \in Boundaries /\ Sent(p) /\ p <= o /\ o <= OutEnd(NumBlocks - 1) /\ out = Bytes(p, o)
        /\ folded \in Nat /\ OutAt(m) <= p + folded /\ p + folded <= o
        /\ crcFed = Bytes(OutAt(m), p + folded) /\ memberUc = (p + folded) - OutAt(m)
        /\ pos \in 0 .. 8 * input.len
    BY <1>1 DEF ChunkAt
  <2>2. PICK a \in Nat, q \in Nat, n \in Nat :
           a = OutAt(m) /\ q = p + folded /\ n = Len(out) /\ n = o - p /\ a <= q /\ q <= o
    <3>1. Len(Bytes(p, o)) = o - p
      BY <2>1, BytesType
    <3>2. Len(out) = o - p /\ o - p \in Nat /\ p + folded \in Nat
      BY <2>1, <3>1
    <3>3. OutAt(m) \in Nat
      BY <2>1, BoundaryNumbers
    <3> QED BY <2>1, <3>2, <3>3
  <2>3. SubSeq(out, folded + 1, n) = Bytes(q, o)
    <3>1. PICK i : i = folded + 1
      OBVIOUS
    <3>2. Places(p, o, i, n, q, o)
      BY <2>1, <2>2, <3>1 DEF Places
    <3>3. SubSeq(Bytes(p, o), i, n) = Bytes(q, o)
      BY ONLY <3>2, BytesPart
    <3> QED BY <2>1, <3>1, <3>3
  <2>4. crcFed' = Bytes(a, o) /\ memberUc' = o - a
    <3>1. Bytes(a, q) \o Bytes(q, o) = Bytes(a, o)
      BY <2>2, BytesConcat
    <3>2. Len(Bytes(q, o)) = o - q
      BY <2>2, BytesType
    <3>3. memberUc' = (q - a) + (o - q)
      BY <1>4, <2>1, <2>2, <2>3, <3>2
    <3>4. (q - a) + (o - q) = o - a
      BY <2>2
    <3>5. crcFed' = Bytes(a, q) \o Bytes(q, o)
      BY <1>4, <2>1, <2>2, <2>3
    <3> QED BY <3>1, <3>3, <3>4, <3>5
  <2>5. Sent(o)'
    <3>1. delivered = Bytes(0, p)
      BY <1>4, <2>1 DEF Sent, IsOutput
    <3>2. Bytes(0, p) \o Bytes(p, o) = Bytes(0, o)
      <4>1. 0 \in Nat /\ 0 <= p
        OBVIOUS
      <4> QED BY <2>1, <4>1, BytesConcat
    <3> QED BY <1>4, <2>1, <3>1, <3>2 DEF Sent, IsOutput
  <2>6. out' = Bytes(o, o)
    <3>1. o <= o
      OBVIOUS
    <3> QED BY <1>4, <3>1, BytesType
  <2>7. EndsAt(ends', folded', o, o)
    BY <1>2, <1>4, EndsNone
  <2>8. ChunkPosition(o)'
    BY <1>1, <1>2, <1>4 DEF ChunkAt, ChunkPosition
  <2>9. o + folded' = o /\ a <= o /\ o <= o
    BY <1>4, <2>2
  <2>10. ChunkAt(m, o, o)'
    BY <1>2, <1>4, <2>1, <2>2, <2>4, <2>5, <2>6, <2>7, <2>8, <2>9 DEF ChunkAt
  <2> QED BY <2>10 DEF ChunkInv
<1> QED BY <1>3, <1>4 DEF Chunks!SendChunk, Chunks!environment, Chunks!Piece

\* Every step of ChunkChain.
LEMMA ChunkSteps ==
    ASSUME input \in Inputs, ChunkInv, Chunks!Step
    PROVE  ChunkInv'
<1>1. CASE Chunks!Finish
  BY <1>1, ChunkReturn DEF Chunks!Finish
<1> QED BY <1>1, ChunkStart, ChunkNextMember, ChunkDecodes, ChunkLibrary, ChunkTrailer, ChunkCheck,
           ChunkSend DEF Chunks!Step

-----------------------------------------------------------------------------
(* BgzfChain. *)

\* The boundaries of a batch, in numbers.
LEMMA SlicesType ==
    ASSUME NEW cs, NEW bs, SlicesAt(cs, bs)
    PROVE  /\ cs \in Seq([at : Nat, limit : Nat]) /\ Len(cs) \in Nat /\ bs \in Batches
           /\ \A i \in 0 .. Len(cs) : bs[i] \in Boundaries
           /\ bs[0] \in Boundaries /\ bs[Len(cs)] \in Boundaries
<1> DEFINE R == [at : Nat, limit : Nat]
<1>1. cs \in Seq(R) /\ bs \in [0 .. Len(cs) -> Boundaries]
  BY DEF SlicesAt
<1> HIDE DEF R
<1>2. Len(cs) \in Nat
  BY <1>1, LenProperties
<1>3. \A i \in 0 .. Len(cs) : bs[i] \in Boundaries
  BY <1>1
<1>4. 0 \in 0 .. Len(cs) /\ Len(cs) \in 0 .. Len(cs)
  BY <1>2
<1> QED BY <1>1, <1>2, <1>3, <1>4 DEF Batches, R

\* An empty batch is at a boundary.
LEMMA SlicesNone ==
    ASSUME NEW b \in Boundaries
    PROVE  \E bs : SlicesAt(<<>>, bs) /\ bs[0] = b
<1> DEFINE bs == [i \in 0 .. 0 |-> b]
<1>1. <<>> \in Seq([at : Nat, limit : Nat]) /\ Len(<<>>) = 0
  BY EmptySeq
<1>2. bs \in [0 .. 0 -> Boundaries] /\ bs[0] = b
  OBVIOUS
<1>3. 1 .. 0 = {}
  OBVIOUS
<1> HIDE DEF bs
<1>4. SlicesAt(<<>>, bs)
  BY <1>1, <1>2, <1>3 DEF SlicesAt
<1> QED BY <1>2, <1>4

\* Slice x is that of the member at boundary b, which ends at boundary e.
IsSlice(x, b, e) ==
    /\ b \in Blocks /\ b \in Boundaries /\ e \in Boundaries /\ e = LastBlock(b) + 1
    /\ x = [at |-> HdrAt(b), limit |-> HdrAt(e)]

\* A member joins the batch.
LEMMA SlicesAppend ==
    ASSUME NEW cs, NEW bs, SlicesAt(cs, bs), NEW x, NEW e, IsSlice(x, bs[Len(cs)], e)
    PROVE  \E bt : SlicesAt(Append(cs, x), bt) /\ bt[0] = bs[0] /\ bt[Len(Append(cs, x))] = e
<1> DEFINE R == [at : Nat, limit : Nat]
<1>1. /\ cs \in Seq(R) /\ Len(cs) \in Nat
      /\ \A i \in 0 .. Len(cs) : bs[i] \in Boundaries
  BY SlicesType
<1>2. \A i \in 1 .. Len(cs) : /\ bs[i - 1] \in Blocks /\ bs[i] = LastBlock(bs[i - 1]) + 1
                              /\ cs[i] = [at |-> HdrAt(bs[i - 1]), limit |-> HdrAt(bs[i])]
  BY DEF SlicesAt
<1>3. PICK n \in Nat : n = Len(cs)
  BY <1>1
<1>4. x \in R
  <2>1. HdrAt(bs[n]) \in Nat /\ HdrAt(e) \in Nat
    BY <1>3, BoundaryNumbers DEF IsSlice
  <2> QED BY <1>3, <2>1 DEF IsSlice
<1> HIDE DEF R
<1>5. PICK u : u = Append(cs, x)
  OBVIOUS
<1>6. u \in Seq(R) /\ Len(u) = n + 1
  BY <1>1, <1>3, <1>4, <1>5, AppendProperties
<1>7. \A i \in 1 .. n + 1 : u[i] = IF i <= n THEN cs[i] ELSE x
  BY <1>1, <1>3, <1>4, <1>5, AppendProperties
<1> DEFINE bt == [i \in 0 .. n + 1 |-> IF i <= n THEN bs[i] ELSE e]
<1>8. bt \in [0 .. n + 1 -> Boundaries]
  BY <1>1, <1>3 DEF IsSlice
<1>9. \A i \in 0 .. n : bt[i] = bs[i]
  OBVIOUS
<1>10. bt[n + 1] = e
  OBVIOUS
<1> HIDE DEF bt
<1>11. ASSUME NEW i \in 1 .. n + 1
       PROVE  /\ bt[i - 1] \in Blocks /\ bt[i] = LastBlock(bt[i - 1]) + 1
              /\ u[i] = [at |-> HdrAt(bt[i - 1]), limit |-> HdrAt(bt[i])]
  <2>1. CASE i <= n
    <3>1. i \in 1 .. n /\ i \in 0 .. n /\ i - 1 \in 0 .. n
      BY <2>1
    <3>2. bt[i] = bs[i] /\ bt[i - 1] = bs[i - 1] /\ u[i] = cs[i]
      BY <1>7, <1>9, <2>1, <3>1
    <3> QED BY <1>2, <1>3, <3>1, <3>2
  <2>2. CASE ~(i <= n)
    <3>1. i = n + 1 /\ i - 1 = n /\ n \in 0 .. n
      BY <2>2
    <3>2. bt[i] = e /\ bt[i - 1] = bs[n] /\ u[i] = x
      BY <1>7, <1>9, <1>10, <2>2, <3>1
    <3> QED BY <1>3, <3>2 DEF IsSlice
  <2> QED BY <2>1, <2>2
<1>12. SlicesAt(u, bt)
  BY <1>6, <1>8, <1>11 DEF SlicesAt, R
<1>13. bt[0] = bs[0] /\ bt[Len(u)] = e
  BY <1>6, <1>9, <1>10
<1> QED BY <1>5, <1>12, <1>13

\* A sequence that is not empty has a head.
LEMMA HeadOfSome ==
    ASSUME NEW R, NEW s \in Seq(R), s # <<>>
    PROVE  Len(s) \in Nat /\ Len(s) >= 1 /\ Head(s) = s[1]
<1>1. Len(s) \in Nat /\ Len(s) # 0
  BY EmptySeq, LenProperties
<1> QED BY <1>1, HeadTailProperties

\* The first member leaves the batch.
LEMMA SlicesPop ==
    ASSUME NEW cs, NEW bs, SlicesAt(cs, bs), cs # <<>>
    PROVE  /\ IsSlice(Head(cs), bs[0], bs[1])
           /\ \E bt : SlicesAt(Tail(cs), bt) /\ bt[0] = bs[1] /\ bt[Len(Tail(cs))] = bs[Len(cs)]
<1> DEFINE R == [at : Nat, limit : Nat]
<1>1. /\ cs \in Seq(R) /\ Len(cs) \in Nat
      /\ \A i \in 0 .. Len(cs) : bs[i] \in Boundaries
  BY SlicesType
<1>2. \A i \in 1 .. Len(cs) : /\ bs[i - 1] \in Blocks /\ bs[i] = LastBlock(bs[i - 1]) + 1
                              /\ cs[i] = [at |-> HdrAt(bs[i - 1]), limit |-> HdrAt(bs[i])]
  BY DEF SlicesAt
<1> HIDE DEF R
<1>3. Len(cs) >= 1 /\ Head(cs) = cs[1]
  BY <1>1, HeadOfSome
<1>4. PICK n \in Nat : n + 1 = Len(cs)
  <2>1. Len(cs) - 1 \in Nat /\ (Len(cs) - 1) + 1 = Len(cs)
    BY <1>1, <1>3
  <2> QED BY <2>1
<1>5. PICK u : u = Tail(cs)
  OBVIOUS
<1>6. u \in Seq(R) /\ Len(u) = n /\ \A i \in 1 .. n : u[i] = cs[i + 1]
  <2>1. Tail(cs) \in Seq(R) /\ Len(Tail(cs)) = Len(cs) - 1 /\ \A i \in 1 .. Len(cs) - 1 : Tail(cs)[i] = cs[i + 1]
    BY <1>1, HeadTailProperties
  <2>2. Len(cs) - 1 = n
    BY <1>4
  <2> QED BY <1>5, <2>1, <2>2
<1>7. IsSlice(Head(cs), bs[0], bs[1])
  <2>1. 1 \in 1 .. Len(cs) /\ 1 - 1 = 0 /\ 0 \in 0 .. Len(cs) /\ 1 \in 0 .. Len(cs)
    BY <1>1, <1>3
  <2>2. PICK i : i = 1 /\ i \in 1 .. Len(cs) /\ i - 1 = 0
    BY <2>1
  <2>3. /\ bs[0] \in Blocks /\ bs[i] = LastBlock(bs[0]) + 1
        /\ cs[i] = [at |-> HdrAt(bs[0]), limit |-> HdrAt(bs[i])]
    BY <1>2, <2>2
  <2> QED BY <1>1, <1>3, <2>1, <2>2, <2>3 DEF IsSlice
<1> DEFINE bt == [i \in 0 .. n |-> bs[i + 1]]
<1>8. bt \in [0 .. n -> Boundaries]
  <2>1. \A i \in 0 .. n : i + 1 \in 0 .. Len(cs)
    BY <1>4
  <2> QED BY <1>1, <2>1
<1>9. \A i \in 0 .. n : bt[i] = bs[i + 1]
  OBVIOUS
<1> HIDE DEF bt
<1>10. ASSUME NEW i \in 1 .. n
       PROVE  /\ bt[i - 1] \in Blocks /\ bt[i] = LastBlock(bt[i - 1]) + 1
              /\ u[i] = [at |-> HdrAt(bt[i - 1]), limit |-> HdrAt(bt[i])]
  <2>1. i \in 0 .. n /\ i - 1 \in 0 .. n /\ (i - 1) + 1 = i /\ i + 1 \in 1 .. Len(cs) /\ (i + 1) - 1 = i
    BY <1>4
  <2>2. bt[i] = bs[i + 1] /\ bt[i - 1] = bs[i] /\ u[i] = cs[i + 1]
    BY <1>6, <1>9, <2>1
  <2>3. PICK j : j = i + 1 /\ j \in 1 .. Len(cs) /\ j - 1 = i
    BY <2>1
  <2>4. bs[i] \in Blocks /\ bs[j] = LastBlock(bs[i]) + 1 /\ cs[j] = [at |-> HdrAt(bs[i]), limit |-> HdrAt(bs[j])]
    BY <1>2, <2>3
  <2> QED BY <2>2, <2>3, <2>4
<1>11. SlicesAt(u, bt)
  BY <1>6, <1>8, <1>10 DEF SlicesAt, R
<1>12. bt[0] = bs[1] /\ bt[Len(u)] = bs[Len(cs)]
  <2>1. 0 \in 0 .. n /\ n \in 0 .. n /\ 0 + 1 = 1
    OBVIOUS
  <2> QED BY <1>4, <1>6, <1>9, <2>1
<1> QED BY <1>5, <1>7, <1>11, <1>12

\* A step that leaves the batch as it is.
LEMMA BgzfStays ==
    ASSUME BgzfInv, UNCHANGED <<input, sinkOpen, delivered, pc, pos, out, crcFed, memberUc, cur>>
    PROVE  BgzfInv'
<1>1. PICK c \in Nat, bs \in Batches : BgzfAt(c, bs)
  BY DEF BgzfInv
<1>2. BgzfAt(c, bs)'
  BY <1>1 DEF BgzfAt, Sent
<1> QED BY <1>2 DEF BgzfInv

\* Every error is such a step.
LEMMA BgzfReturn ==
    ASSUME BgzfInv, NEW r, Bgzf!Return(r), UNCHANGED <<crcFed, memberUc>>
    PROVE  BgzfInv'
  BY BgzfStays DEF Bgzf!Return, Bgzf!environment, Bgzf!bgzfVars

\* A stated length is that of the member, up to the next boundary.
LEMMA StatedLength ==
    ASSUME input \in Inputs, NEW b \in Boundaries, HdrAt(b) < input.len,
           NEW size \in ParseBgzfBlockSize(HdrAt(b), input.len), size # NoBlockSize
    PROVE  \E e \in Boundaries : /\ IsSlice([at |-> HdrAt(b), limit |-> HdrAt(e)], b, e)
                                 /\ HdrAt(b) + size = HdrAt(e)
<1>1. HdrAt(b) \in Nat /\ (b \notin Blocks => HdrAt(b) = MemberLimit(NumBlocks - 1))
  BY BoundaryNumbers
<1>2. input.len \in Nat /\ input.len <= MemberLimit(NumBlocks - 1) /\ input.bgzf \subseteq FirstBlocks
  BY InputLength
<1>3. MemberLimit(NumBlocks - 1) \in Nat
  <2>1. PICK z \in Blocks : z = NumBlocks - 1
    BY Constants
  <2>2. TrailerAt(z) \in Nat /\ MemberLimit(z) = TrailerAt(z) + 8
    BY Positions
  <2> QED BY <2>1, <2>2
<1>4. b \in Blocks
  BY <1>1, <1>2, <1>3
<1>5. PICK k \in input.bgzf : HeaderAt(k) = HdrAt(b) /\ size = MemberLimit(LastBlock(k)) - HdrAt(b)
  <2> DEFINE here == {k \in input.bgzf : HeaderAt(k) = HdrAt(b) /\ input.len - HdrAt(b) >= HeaderLen}
  <2>1. here # {}
    BY Zenon DEF ParseBgzfBlockSize
  <2>2. size \in UNION {{MemberLimit(LastBlock(k)) - HdrAt(b)}
                \cup (IF input.fault[k] = "header" THEN {NoBlockSize} ELSE {}) : k \in here}
    BY <2>1, Zenon DEF ParseBgzfBlockSize
  <2>3. PICK k \in here : size \in {MemberLimit(LastBlock(k)) - HdrAt(b)}
                \cup (IF input.fault[k] = "header" THEN {NoBlockSize} ELSE {})
    BY <2>2, Zenon
  <2>4. size = MemberLimit(LastBlock(k)) - HdrAt(b)
    BY <2>3
  <2> QED BY <2>3, <2>4
<1>6. k = b
  BY <1>2, <1>4, <1>5, OneHeaderHere
<1>7. PICK l : l = LastBlock(b) /\ l \in MemberEnds /\ l \in Blocks
  BY <1>4, LastBlocks
<1>8. PICK e \in Boundaries : e = l + 1 /\ HdrAt(e) = MemberLimit(l)
  BY <1>7, AfterMember
<1>9. HdrAt(e) \in Nat
  BY BoundaryNumbers
<1>10. HdrAt(b) + size = HdrAt(e)
  BY <1>1, <1>5, <1>6, <1>7, <1>8, <1>9
<1> QED BY <1>4, <1>7, <1>8, <1>10 DEF IsSlice

\* A member joins the batch.
LEMMA BgzfWalk ==
    ASSUME input \in Inputs, BgzfInv, Bgzf!WalkMember, UNCHANGED <<crcFed, memberUc>>
    PROVE  BgzfInv'
<1>1. PICK c \in Nat, bs \in Batches : BgzfAt(c, bs)
  BY DEF BgzfInv
<1>2. PICK at : at = pos \div 8
  OBVIOUS
<1>3. PICK size \in ParseBgzfBlockSize(at, input.len) \ {NoBlockSize} :
        /\ at + size <= input.len
        /\ cur' = Append(cur, [at |-> at, limit |-> at + size])
        /\ pos' = 8 * (at + size)
  BY <1>2, BgzfParsers DEF Bgzf!WalkMember, Bgzf!At
<1>4. /\ pc = "walk" /\ at < input.len /\ pc' \in {"walk", "batch"}
      /\ UNCHANGED <<input, sinkOpen, delivered, out>>
  BY <1>2 DEF Bgzf!WalkMember, Bgzf!At, Bgzf!environment
<1>5. /\ Sent(c) /\ crcFed = <<>> /\ memberUc = 0 /\ SlicesAt(cur, bs)
      /\ pos = 8 * HdrAt(bs[Len(cur)]) /\ out = Bytes(c, OutAt(bs[0])) /\ c = OutAt(bs[0])
      /\ c <= OutAt(bs[0])
  BY <1>1, <1>4 DEF BgzfAt
<1>6. PICK b \in Boundaries : b = bs[Len(cur)]
  BY <1>5, SlicesType
<1>7. HdrAt(b) \in Nat
  BY BoundaryNumbers
<1>8. at = HdrAt(b)
  BY <1>2, <1>5, <1>6, <1>7, WholeBytes
<1>9. PICK e \in Boundaries : /\ IsSlice([at |-> HdrAt(b), limit |-> HdrAt(e)], b, e)
                              /\ HdrAt(b) + size = HdrAt(e)
  BY <1>3, <1>4, <1>8, StatedLength
<1>10. PICK x : x = [at |-> HdrAt(b), limit |-> HdrAt(e)]
  OBVIOUS
<1>11. PICK bt : SlicesAt(Append(cur, x), bt) /\ bt[0] = bs[0] /\ bt[Len(Append(cur, x))] = e
  BY <1>5, <1>6, <1>9, <1>10, SlicesAppend
<1>12. cur' = Append(cur, x) /\ pos' = 8 * HdrAt(e) /\ HdrAt(e) <= input.len
  BY <1>3, <1>8, <1>9, <1>10
<1>13. SlicesAt(cur', bt) /\ bt[Len(cur')] = e
  BY <1>11, <1>12
<1>14. bt \in Batches
  BY <1>13, SlicesType
<1>15. pos' <= 8 * input.len
  <2>1. HdrAt(e) \in Nat /\ input.len \in Nat
    BY BoundaryNumbers, InputLength
  <2> QED BY <1>12, <2>1
<1>16. BgzfAt(c, bt)'
  BY <1>4, <1>5, <1>11, <1>12, <1>13, <1>15 DEF BgzfAt, Sent
<1> QED BY <1>14, <1>16 DEF BgzfInv

\* The walk ends.
LEMMA BgzfWalkEnds ==
    ASSUME BgzfInv, Bgzf!WalkEnds, UNCHANGED <<crcFed, memberUc>>
    PROVE  BgzfInv'
<1>1. PICK c \in Nat, bs \in Batches : BgzfAt(c, bs)
  BY DEF BgzfInv
<1>2. /\ pc = "walk" /\ pc' = IF cur = <<>> THEN "remainder" ELSE "batch"
      /\ UNCHANGED <<input, sinkOpen, delivered, pos, cur, out>>
  BY DEF Bgzf!WalkEnds, Bgzf!environment
<1>3. BgzfAt(c, bs)'
  BY <1>1, <1>2 DEF BgzfAt, Sent
<1> QED BY <1>3 DEF BgzfInv

\* A member of the batch is decoded.
LEMMA BgzfDecode ==
    ASSUME BgzfInv, Bgzf!DecodeMember, UNCHANGED <<crcFed, memberUc>>
    PROVE  BgzfInv'
<1>1. PICK c \in Nat, bs \in Batches : BgzfAt(c, bs)
  BY DEF BgzfInv
<1>2. pc = "batch" /\ cur # <<>>
  BY DEF Bgzf!DecodeMember
<1>3. PICK k \in FirstBlocks :
        /\ HeaderAt(k) = Head(cur).at
        /\ \/ \E r : Bgzf!Return(r)
           \/ /\ out' = out \o Bytes(OutStart[k], OutEnd(LastBlock(k)))
              /\ cur' = Tail(cur)
              /\ UNCHANGED <<input, sinkOpen, delivered, pc, pos>>
  BY BgzfLayout DEF Bgzf!DecodeMember, Bgzf!Verdict, Bgzf!MemberBytes, Bgzf!environment
<1>4. CASE \E r : Bgzf!Return(r)
  BY <1>4, BgzfReturn
<1>5. CASE /\ out' = out \o Bytes(OutStart[k], OutEnd(LastBlock(k)))
           /\ cur' = Tail(cur)
           /\ UNCHANGED <<input, sinkOpen, delivered, pc, pos>>
  <2>1. /\ Sent(c) /\ crcFed = <<>> /\ memberUc = 0 /\ SlicesAt(cur, bs)
        /\ pos = 8 * HdrAt(bs[Len(cur)]) /\ pos <= 8 * input.len
        /\ out = Bytes(c, OutAt(bs[0])) /\ c <= OutAt(bs[0])
    BY <1>1 DEF BgzfAt
  <2>2. IsSlice(Head(cur), bs[0], bs[1])
    BY <1>2, <2>1, SlicesPop
  <2>3. PICK bt : SlicesAt(Tail(cur), bt) /\ bt[0] = bs[1] /\ bt[Len(Tail(cur))] = bs[Len(cur)]
    BY <1>2, <2>1, SlicesPop
  <2>4. PICK b, e : b = bs[0] /\ e = bs[1] /\ IsSlice(Head(cur), b, e)
    BY <2>2
  <2>5. b \in Boundaries /\ b \in Blocks /\ e \in Boundaries /\ e = LastBlock(b) + 1 /\ Head(cur).at = HdrAt(b)
    BY <2>4 DEF IsSlice
  <2>6. k = b
    BY <1>3, <2>5, OneHeaderHere
  <2>7. OutStart[b] = OutAt(b)
    BY <2>5, BoundaryStarts
  <2>8. PICK l : /\ l = LastBlock(b) /\ l \in MemberEnds /\ OutStart[b] \in Nat /\ OutEnd(l) \in Nat
                 /\ OutStart[b] <= OutEnd(l)
    BY <2>5, MemberOutput
  <2>9. OutAt(e) = OutEnd(l)
    BY <2>5, <2>8, AfterMember
  <2>10. PICK x \in Nat, y \in Nat : x = OutAt(b) /\ y = OutAt(e) /\ x <= y /\ c <= x
    BY <2>1, <2>4, <2>7, <2>8, <2>9
  <2>11. Bytes(c, x) \o Bytes(x, y) = Bytes(c, y)
    BY <2>10, BytesConcat
  <2>12. out' = Bytes(c, y) /\ c <= y
    BY <1>5, <2>1, <2>4, <2>6, <2>7, <2>8, <2>9, <2>10, <2>11
  <2>13. bt \in Batches
    BY <2>3, SlicesType
  <2>14. OutAt(bt[0]) = y
    BY <2>3, <2>4, <2>10
  <2>15. SlicesAt(cur', bt) /\ bt[Len(cur')] = bs[Len(cur)]
    BY <1>5, <2>3
  <2>16. BgzfAt(c, bt)'
    BY <1>2, <1>5, <2>1, <2>12, <2>14, <2>15 DEF BgzfAt, Sent
  <2> QED BY <2>13, <2>16 DEF BgzfInv
<1> QED BY <1>3, <1>4, <1>5

\* The batch is sent.
LEMMA BgzfSend ==
    ASSUME BgzfInv, Bgzf!SendBatch, UNCHANGED <<crcFed, memberUc>>
    PROVE  BgzfInv'
<1>1. PICK c \in Nat, bs \in Batches : BgzfAt(c, bs)
  BY DEF BgzfInv
<1>2. pc = "batch" /\ cur = <<>>
  BY DEF Bgzf!SendBatch
<1>3. CASE \E r : Bgzf!Return(r)
  BY <1>3, BgzfReturn
<1>4. CASE /\ sinkOpen /\ delivered' = delivered \o out /\ out' = <<>>
           /\ pc' \in {"walk", "remainder"}
           /\ UNCHANGED <<input, sinkOpen, pos, cur>>
  <2>1. /\ Sent(c) /\ crcFed = <<>> /\ memberUc = 0 /\ SlicesAt(cur, bs)
        /\ pos = 8 * HdrAt(bs[Len(cur)]) /\ pos <= 8 * input.len
        /\ out = Bytes(c, OutAt(bs[0])) /\ c <= OutAt(bs[0])
    BY <1>1 DEF BgzfAt
  <2>2. PICK y \in Nat : y = OutAt(bs[0])
    BY <2>1, SlicesType, BoundaryNumbers
  <2>3. Sent(y)'
    <3>1. delivered = Bytes(0, c)
      BY <1>4, <2>1 DEF Sent, IsOutput
    <3>2. Bytes(0, c) \o Bytes(c, y) = Bytes(0, y)
      <4>1. 0 \in Nat /\ 0 <= c /\ c <= y
        BY <2>1, <2>2
      <4> QED BY <4>1, BytesConcat
    <3> QED BY <1>4, <2>1, <2>2, <3>1, <3>2 DEF Sent, IsOutput
  <2>4. out' = Bytes(y, y) /\ y <= y
    <3>1. y <= y
      OBVIOUS
    <3> QED BY <1>4, <3>1, BytesType
  <2>5. BgzfAt(y, bs)'
    BY <1>2, <1>4, <2>1, <2>2, <2>3, <2>4 DEF BgzfAt
  <2> QED BY <2>5 DEF BgzfInv
<1> QED BY <1>3, <1>4 DEF Bgzf!SendBatch, Bgzf!environment, Bgzf!bgzfVars

\* After the last batch.
LEMMA BgzfRemainder ==
    ASSUME BgzfInv, Bgzf!Remainder, UNCHANGED <<crcFed, memberUc>>
    PROVE  BgzfInv'
<1>1. PICK c \in Nat, bs \in Batches : BgzfAt(c, bs)
  BY DEF BgzfInv
<1>2. CASE \E r : Bgzf!Return(r)
  BY <1>2, BgzfReturn
<1>3. CASE pc = "remainder" /\ pc' = "header" /\ UNCHANGED <<input, sinkOpen, delivered, pos, cur, out>>
  <2>1. BgzfAt(c, bs)'
    BY <1>1, <1>3 DEF BgzfAt, Sent
  <2> QED BY <2>1 DEF BgzfInv
<1> QED BY <1>2, <1>3 DEF Bgzf!Remainder, Bgzf!environment, Bgzf!bgzfVars

\* Every step of BgzfChain.
LEMMA BgzfSteps ==
    ASSUME input \in Inputs, BgzfInv, Bgzf!Step, UNCHANGED <<crcFed, memberUc>>
    PROVE  BgzfInv'
  BY BgzfWalk, BgzfWalkEnds, BgzfDecode, BgzfSend, BgzfRemainder DEF Bgzf!Step

-----------------------------------------------------------------------------
(* read_gz. *)

\* Every step of SerialFile.
LEMMA SerialSteps ==
    ASSUME input \in Inputs, SerialInv, File!Step
    PROVE  SerialInv'
  BY SerialDecode, SerialEmit, SerialFlush, SerialTrailer DEF File!Step

\* Every step of SerialPipe.
LEMMA PipeSteps ==
    ASSUME input \in Inputs, PipeInv, Pipe!Step
    PROVE  PipeInv'
  BY PipePrime, PipeNextMember, PipeHeader, PipeDecode, PipeEmit, PipeAlign, PipeTrailer DEF Pipe!Step

\* The values of status: what read_gz returns.
Statuses == {"running", "ok", "closed", "truncated", "io"} \cup FaultKind

\* The parsers of headers and trailers return statuses.
LEMMA Verdicts ==
    /\ \A at, avail : ParseHeader(at, avail) \in Statuses
    /\ \A at, c, n : TrailerVerdict(at, c, n) \in Statuses
    /\ {"ok", "closed", "truncated", "io", "header", "deflate"} \subseteq Statuses
<1>1. \A at, avail : ParseHeader(at, avail) \in {"ok", "truncated", "header"}
  BY Zenon DEF ParseHeader
<1>2. \A at, c, n : TrailerVerdict(at, c, n) \in {"ok", "crc", "isize"}
  BY Zenon DEF TrailerVerdict
<1> QED BY <1>1, <1>2 DEF Statuses, FaultKind

\* A step of SerialFile changes neither the input nor the setup, and its
\* results are known ones.
LEMMA SerialValues ==
    ASSUME status \in Statuses, bfinal \in BOOLEAN, File!Step
    PROVE  status' \in Statuses /\ bfinal' \in BOOLEAN /\ UNCHANGED <<input, sinkOpen>>
<1> USE Verdicts
<1>1. CASE File!DecodeOneBlock
  <2>1. status' \in Statuses /\ UNCHANGED <<input, sinkOpen>>
    BY <1>1 DEF File!DecodeOneBlock, File!Return
  <2>2. PICK r : bfinal' = (r \in MemberEnds) \/ bfinal' = bfinal
    BY <1>1, Zenon DEF File!DecodeOneBlock, File!Return, File!memberVars
  <2>3. bfinal' = TRUE \/ bfinal' = FALSE
    BY <2>2
  <2> QED BY <2>1, <2>3
<1>2. CASE File!EmitChunk
  BY <1>2 DEF File!EmitChunk, File!Return, File!memberVars
<1>3. CASE File!FlushMember
  BY <1>3 DEF File!FlushMember, File!Return, File!memberVars
<1>4. CASE File!CheckTrailer
  BY <1>4, FileParsers DEF File!CheckTrailer, File!Return, File!memberVars
<1> QED BY <1>1, <1>2, <1>3, <1>4 DEF File!Step

\* The same of SerialPipe.
LEMMA PipeValues ==
    ASSUME status \in Statuses, bfinal \in BOOLEAN, Pipe!Step
    PROVE  status' \in Statuses /\ bfinal' \in BOOLEAN /\ UNCHANGED <<input, sinkOpen>>
<1> USE Verdicts DEF Pipe!Quiet, Pipe!memberVars, Pipe!Return, Pipe!ReadFails
<1>0. Pipe!FillMore => status' = status
  BY DEF Pipe!FillMore
<1>a. Pipe!FillOrTruncated => status' \in Statuses /\ bfinal' \in BOOLEAN
  BY <1>0 DEF Pipe!FillOrTruncated
<1>1. CASE Pipe!Prime
  BY <1>0, <1>1 DEF Pipe!Prime
<1>2. CASE Pipe!NextMember
  BY <1>2 DEF Pipe!NextMember
<1>3. CASE Pipe!ReadGzipHeader
  BY <1>a, <1>3 DEF Pipe!ReadGzipHeader
<1>4. CASE Pipe!DecodeBlock
  <2>1. UNCHANGED <<input, sinkOpen>>
    BY <1>4 DEF Pipe!DecodeBlock
  <2>2. PICK r : \/ bfinal' = (r \in MemberEnds) /\ status' = status
                 \/ Pipe!FillOrTruncated
                 \/ Pipe!Return("deflate")
    BY <1>4, Zenon DEF Pipe!DecodeBlock
  <2>3. CASE bfinal' = (r \in MemberEnds) /\ status' = status
    <3>1. bfinal' = TRUE \/ bfinal' = FALSE
      BY <2>3
    <3> QED BY <2>1, <2>3, <3>1
  <2> QED BY <1>a, <2>1, <2>2, <2>3
<1>5. CASE Pipe!Emit
  BY <1>5 DEF Pipe!Emit
<1>6. CASE Pipe!ByteAlign
  BY <1>6 DEF Pipe!ByteAlign
<1>7. CASE Pipe!ReadTrailer
  BY <1>a, <1>7, PipeParsers DEF Pipe!ReadTrailer
<1>8. CASE Pipe!PeekNext
  BY <1>0, <1>8 DEF Pipe!PeekNext
<1> QED BY <1>1, <1>2, <1>3, <1>4, <1>5, <1>6, <1>7, <1>8 DEF Pipe!Step

\* The same of ChunkChain.
LEMMA ChunkValues ==
    ASSUME status \in Statuses, first \in BOOLEAN, final \in BOOLEAN, Chunks!Step
    PROVE  /\ status' \in Statuses /\ first' \in BOOLEAN /\ final' \in BOOLEAN
           /\ UNCHANGED <<input, setup, sinkOpen>>
<1> USE Verdicts DEF Chunks!environment, Chunks!chunkVars, Chunks!memberVars, Chunks!Return
<1>1. CASE Chunks!StartChunk
  BY <1>1 DEF Chunks!StartChunk
<1>2. CASE Chunks!NextMember
  BY <1>2 DEF Chunks!NextMember
<1>3. CASE Chunks!DecodeBlock
  BY <1>3 DEF Chunks!DecodeBlock
<1>4. CASE Chunks!DecodeWithLibrary
  BY <1>4 DEF Chunks!DecodeWithLibrary
<1>5. CASE Chunks!ReadTrailer
  <2>1. status' \in Statuses /\ first' \in BOOLEAN /\ UNCHANGED <<input, setup, sinkOpen>>
    BY <1>5, ChunksParsers DEF Chunks!ReadTrailer
  <2>2. final' \in BOOLEAN
    BY <1>5, Zenon DEF Chunks!ReadTrailer
  <2> QED BY <2>1, <2>2
<1>6. CASE Chunks!CheckMember
  BY <1>6, ChunksParsers DEF Chunks!CheckMember
<1>7. CASE Chunks!SendChunk
  BY <1>7 DEF Chunks!SendChunk
<1>8. CASE Chunks!Finish
  BY <1>8 DEF Chunks!Finish
<1> QED BY <1>1, <1>2, <1>3, <1>4, <1>5, <1>6, <1>7, <1>8 DEF Chunks!Step

\* The same of BgzfChain.
LEMMA BgzfValues ==
    ASSUME status \in Statuses, walk \in {"on", "end", "truncated"}, Bgzf!Step
    PROVE  /\ status' \in Statuses /\ walk' \in {"on", "end", "truncated"}
           /\ UNCHANGED <<input, setup, sinkOpen>>
<1> USE Verdicts DEF Bgzf!environment, Bgzf!bgzfVars, Bgzf!Return
<1>1. CASE Bgzf!WalkMember
  BY <1>1 DEF Bgzf!WalkMember
<1>2. CASE Bgzf!WalkEnds
  BY <1>2 DEF Bgzf!WalkEnds
<1>3. CASE Bgzf!DecodeMember
  <2>1. \A k, limit : Bgzf!DecodeOneIndexed(k, limit) \in Statuses
    BY BgzfParsers DEF Bgzf!DecodeOneIndexed
  <2>2. \A k, limit : Bgzf!DecodeGzipMember(k, limit) \in Statuses
    BY DEF Bgzf!DecodeGzipMember
  <2> QED BY <1>3, <2>1, <2>2 DEF Bgzf!DecodeMember, Bgzf!Verdict
<1>4. CASE Bgzf!SendBatch
  BY <1>4 DEF Bgzf!SendBatch
<1>5. CASE Bgzf!Remainder
  BY <1>5 DEF Bgzf!Remainder
<1> QED BY <1>1, <1>2, <1>3, <1>4, <1>5 DEF Bgzf!Step

\* The first boundary.
LEMMA FirstBoundary ==
    /\ 0 \in Boundaries /\ 0 \in Blocks /\ 0 \in FirstBlocks /\ HdrAt(0) = 0 /\ OutAt(0) = 0
    /\ OutStart[0] = 0 /\ Bytes(0, 0) = <<>>
<1>1. 0 \in Boundaries /\ 0 \in Blocks /\ HdrAt(0) = 0 /\ OutAt(0) = 0
  BY Constants DEF Boundaries, HdrAt, OutAt
<1>2. 0 \in FirstBlocks
  BY <1>1, Members
<1>3. PICK z \in Nat : z = 0
  OBVIOUS
<1>4. z <= z
  OBVIOUS
<1>5. Bytes(z, z) = <<>>
  BY <1>4, BytesType
<1> QED BY <1>1, <1>2, <1>3, <1>5, OutStarts

\* The initial states.
LEMMA ReadInvInit == Init => ReadInv
  BY DEF Init, ReadInv, Values, DecoderInv, Fresh, PipeIdle, ChunkIdle, BgzfIdle, FaultKind

\* The decoder is chosen.
LEMMA OpenKeeps ==
    ASSUME ReadInv, Open
    PROVE  ReadInv'
<1>1. /\ Fresh /\ PipeIdle /\ ChunkIdle /\ BgzfIdle
      /\ UNCHANGED <<input, setup, delivered, sinkOpen, status, pos, bfinal, out, crcFed, memberUc,
                     base, filled, bitOff, srcEof, member, hint, first, final, ends, room, tail,
                     folded, walk, cur>>
  BY DEF ReadInv, DecoderInv, Open, memberVars, pipeVars, chunkVars, bgzfVars
<1>2. Values'
  BY <1>1 DEF ReadInv, Values
<1>3. Fresh' /\ PipeIdle' /\ ChunkIdle' /\ BgzfIdle'
  BY <1>1 DEF Fresh, PipeIdle, ChunkIdle, BgzfIdle
<1>4. Sent(0)'
  BY <1>3, FirstBoundary DEF Sent, IsOutput, Fresh
<1>5. input'.len \in Nat
  BY <1>2, InputLength DEF Values
<1>6. CASE path' = "pipe" /\ pc' = "prime"
  <2>1. Holds(<<>>, 0, <<>>, 0, 0, 0)
    BY HoldsNothing
  <2>2. PipeBuffer'
    <3>1. base' = 0 /\ filled' = 0 /\ bitOff' = 0 /\ srcEof' = FALSE
      BY <1>3 DEF PipeIdle
    <3>2. base' \in Nat /\ filled' \in Nat /\ bitOff' \in 0 .. 7
      BY <3>1
    <3>4. srcEof' \in BOOLEAN
      BY ONLY <3>1, Zenon
    <3>3. filled' <= input'.len /\ 8 * base' + bitOff' <= 8 * filled'
      BY <1>5, <3>1
    <3> QED BY <3>2, <3>3, <3>4 DEF PipeBuffer
  <2>3. member' \in 0 .. 0 /\ base' = 0 /\ filled' = 0 /\ bitOff' = 0
    BY <1>3 DEF PipeIdle
  <2>4. Holds(crcFed', memberUc', out', 0, 0, 0)
    BY <1>3, <2>1 DEF Fresh
  <2>5. \E m \in FirstBlocks : 0 = OutStart[m]
    BY FirstBoundary
  <2>6. PipeAt(0, 0, 0)'
    BY <1>4, <1>6, <2>3, <2>4, <2>5 DEF PipeAt
  <2>7. PipeInv'
    BY <2>2, <2>6 DEF PipeInv
  <2> QED BY <1>2, <1>3, <1>6, <2>7 DEF ReadInv, DecoderInv, Fresh
<1>7. CASE path' = "bgzf" /\ pc' = "walk"
  <2>1. PICK bs : SlicesAt(<<>>, bs) /\ bs[0] = 0
    BY FirstBoundary, SlicesNone
  <2>2. bs \in Batches
    BY <2>1, SlicesType
  <2>3. cur' = <<>> /\ Len(<<>>) = 0
    BY <1>3 DEF BgzfIdle
  <2>4. bs[Len(cur')] = 0 /\ HdrAt(0) = 0 /\ OutAt(bs[0]) = 0
    BY <2>1, <2>3, FirstBoundary
  <2>5. pos' = 0 /\ crcFed' = <<>> /\ memberUc' = 0 /\ out' = Bytes(0, 0)
    BY <1>3, FirstBoundary DEF Fresh
  <2>6. BgzfAt(0, bs)'
    BY <1>4, <1>5, <1>7, <2>1, <2>3, <2>4, <2>5 DEF BgzfAt
  <2>7. BgzfInv'
    BY <2>2, <2>6 DEF BgzfInv
  <2> QED BY <1>2, <1>3, <1>7, <2>7 DEF ReadInv, DecoderInv
<1>8. CASE path' = "plain" /\ pc' = "header"
  BY <1>2, <1>3, <1>8 DEF ReadInv, DecoderInv
<1> QED BY <1>6, <1>7, <1>8 DEF Open

\* Before the header of the member at boundary b, with nothing held.
BeforeMember(b) ==
    /\ b \in Boundaries /\ pos = 8 * HdrAt(b) /\ Sent(OutAt(b))
    /\ out = <<>> /\ crcFed = <<>> /\ memberUc = 0

\* That is where the header of a first plain member is looked for.
LEMMA PlainOrBgzf ==
    ASSUME ReadInv, path \in {"plain", "bgzf"}, pc = "header"
    PROVE  PipeIdle /\ ChunkIdle /\ \E b \in Nat : BeforeMember(b)
<1>1. CASE path = "plain"
  <2>1. Fresh /\ PipeIdle /\ ChunkIdle
    BY <1>1 DEF ReadInv, DecoderInv
  <2>2. BeforeMember(0)
    BY <2>1, FirstBoundary DEF BeforeMember, Fresh, Sent, IsOutput
  <2> QED BY <2>1, <2>2
<1>2. CASE path = "bgzf"
  <2>1. BgzfInv /\ PipeIdle /\ ChunkIdle
    BY <1>2 DEF ReadInv, DecoderInv
  <2>2. PICK c \in Nat, bs \in Batches : BgzfAt(c, bs)
    BY <2>1 DEF BgzfInv
  <2>3. /\ SlicesAt(cur, bs) /\ cur = <<>> /\ c = OutAt(bs[0]) /\ out = Bytes(c, c)
        /\ crcFed = <<>> /\ memberUc = 0 /\ pos = 8 * HdrAt(bs[Len(cur)]) /\ Sent(c)
    BY <2>2 DEF BgzfAt
  <2>4. PICK b \in Boundaries : b = bs[0]
    BY <2>3, SlicesType
  <2>5. bs[Len(cur)] = b
    BY <2>3, <2>4
  <2>6. out = <<>>
    <3>1. c <= c
      OBVIOUS
    <3> QED BY <2>3, <3>1, BytesType
  <2>7. BeforeMember(b) /\ b \in Nat
    BY <2>3, <2>4, <2>5, <2>6, BoundaryNumbers DEF BeforeMember
  <2> QED BY <2>1, <2>7
<1> QED BY <1>1, <1>2

\* The first plain member goes to one of two decoders.
LEMMA FirstHeaderKeeps ==
    ASSUME ReadInv, FirstHeader
    PROVE  ReadInv'
<1>1. /\ path \in {"plain", "bgzf"} /\ pc = "header"
      /\ UNCHANGED <<input, setup, delivered, sinkOpen, bfinal, out, crcFed, memberUc,
                     base, filled, bitOff, srcEof, member, hint, first, final, ends, room, tail,
                     folded, walk, cur>>
  BY DEF FirstHeader, memberVars, pipeVars, chunkVars, bgzfVars
<1>2. PICK parsed : parsed = ParseHeader(pos \div 8, input.len)
  OBVIOUS
<1>3. \/ status' = parsed /\ UNCHANGED <<path, pc, pos>>
      \/ /\ parsed = "ok" /\ pos' = pos + 8 * HeaderLen /\ status' = status
         /\ (path' = "serial" /\ pc' = "block") \/ (path' = "chunks" /\ pc' = "chunk")
  BY <1>2 DEF FirstHeader
<1>4. Values'
  <2>1. parsed \in Statuses /\ status \in Statuses
    BY <1>2, Verdicts DEF ReadInv, Values, Statuses
  <2>2. status' \in Statuses
    BY <1>3, <2>1
  <2> QED BY <1>1, <2>2 DEF ReadInv, Values, Statuses
<1>5. CASE UNCHANGED <<path, pc, pos>>
  <2>1. CASE path = "plain"
    BY <1>1, <1>4, <1>5, <2>1 DEF ReadInv, DecoderInv, Fresh, PipeIdle, ChunkIdle, BgzfIdle
  <2>2. CASE path = "bgzf"
    <3>1. BgzfInv /\ PipeIdle /\ ChunkIdle
      BY <2>2 DEF ReadInv, DecoderInv
    <3>2. BgzfInv'
      BY <1>1, <1>5, <3>1, BgzfStays
    <3>3. PipeIdle' /\ ChunkIdle'
      BY <1>1, <3>1 DEF PipeIdle, ChunkIdle
    <3> QED BY <1>4, <1>5, <2>2, <3>2, <3>3 DEF ReadInv, DecoderInv
  <2> QED BY <1>1, <2>1, <2>2
<1>6. CASE /\ parsed = "ok" /\ pos' = pos + 8 * HeaderLen /\ status' = status
           /\ (path' = "serial" /\ pc' = "block") \/ (path' = "chunks" /\ pc' = "chunk")
  <2>1. PipeIdle /\ ChunkIdle
    BY <1>1, PlainOrBgzf
  <2>2. PICK b \in Nat : BeforeMember(b)
    BY <1>1, PlainOrBgzf
  <2>3. b \in Boundaries /\ HdrAt(b) \in Nat /\ OutAt(b) \in Nat
    BY <2>2, BoundaryNumbers DEF BeforeMember
  <2>4. pos \div 8 = HdrAt(b)
    BY <2>2, <2>3, WholeBytes DEF BeforeMember
  <2>5. input.len \in Nat /\ input.len <= input.len /\ input \in Inputs
    BY InputLength DEF ReadInv, Values
  <2>6. b \in Blocks /\ HdrAt(b) + HeaderLen <= input.len
    BY <1>2, <1>6, <2>3, <2>4, <2>5, HeaderAtBoundary
  <2>7. OutStart[b] = OutAt(b) /\ BlockStart[b] = 8 * (HdrAt(b) + HeaderLen) /\ MemberStart(b) = b
    BY <2>3, <2>6, BoundaryStarts
  <2>8. pos' = BlockStart[b] /\ pos' \in 0 .. 8 * input.len
    <3>1. HeaderLen \in Nat /\ pos = 8 * HdrAt(b)
      BY <2>2, Constants DEF BeforeMember
    <3> QED BY <1>6, <2>3, <2>5, <2>6, <2>7, <3>1
  <2>9. PICK c \in Nat : c = OutAt(b) /\ c = OutStart[b] /\ c = MemberOutAt(b)
    BY <2>3, <2>7 DEF MemberOutAt
  <2>10. /\ Sent(c)' /\ out' = <<>> /\ crcFed' = <<>> /\ memberUc' = 0
    BY <1>1, <2>2, <2>9 DEF BeforeMember, Sent
  <2>11. PipeIdle' /\ ChunkIdle'
    BY <1>1, <2>1 DEF PipeIdle, ChunkIdle
  <2>12. CASE path' = "serial" /\ pc' = "block"
    <3>1. Holds(crcFed', memberUc', out', c, c, c)
      BY <2>10, HoldsNothing
    <3>2. Len(out') < ChunkTarget + Window
      <4>1. ChunkTarget \in Nat /\ ChunkTarget >= 1 /\ Window \in Nat /\ Len(<<>>) = 0
        BY ReadGzAssumption, Constants
      <4> QED BY <2>10, <4>1
    <3>3. pos' <= 8 * input'.len
      BY <1>1, <2>5, <2>8
    <3>4. SerialAt(b, c)'
      BY <2>6, <2>8, <2>9, <2>10, <2>12, <3>1, <3>2, <3>3 DEF SerialAt
    <3>5. SerialInv'
      BY <3>4 DEF SerialInv
    <3> QED BY <1>4, <2>11, <2>12, <3>5 DEF ReadInv, DecoderInv
  <2>13. CASE path' = "chunks" /\ pc' = "chunk"
    <3>1. folded' = 0 /\ ends' = <<>> /\ final' = FALSE
      BY <2>11 DEF ChunkIdle
    <3>2. Bytes(c, c) = <<>> /\ c <= c /\ c + 0 = c /\ c - c = 0
      <4>1. c <= c
        OBVIOUS
      <4> QED BY <4>1, BytesType
    <3>3. EndsAt(ends', folded', c, c)
      BY <3>1, EndsNone
    <3>4. c <= OutEnd(NumBlocks - 1)
      BY <2>3, <2>9, BoundaryNumbers
    <3>5. ChunkPosition(c)'
      BY <2>6, <2>8, <2>9, <2>13, <3>1 DEF ChunkPosition
    <3>6. pos' \in 0 .. 8 * input'.len
      BY <1>1, <2>8
    <3>7. ChunkAt(b, c, c)'
      BY <2>3, <2>9, <2>10, <2>13, <3>1, <3>2, <3>3, <3>4, <3>5, <3>6 DEF ChunkAt
    <3>8. ChunkInv'
      BY <3>7 DEF ChunkInv
    <3> QED BY <1>4, <2>11, <2>13, <3>8 DEF ReadInv, DecoderInv
  <2> QED BY <1>6, <2>12, <2>13
<1> QED BY <1>3, <1>5, <1>6

\* The consumer hangs up, or nothing happens.
LEMMA HangUpKeeps ==
    ASSUME ReadInv, sinkOpen' = FALSE \/ sinkOpen' = sinkOpen,
           UNCHANGED <<input, setup, path, delivered, status, pc, pos, bfinal,
                       memberVars, pipeVars, chunkVars, bgzfVars>>
    PROVE  ReadInv'
<1> USE DEF memberVars, pipeVars, chunkVars, bgzfVars
<1>1. Values'
  BY DEF ReadInv, Values
<1>2. \A c : Sent(c) => Sent(c)'
  BY DEF Sent
<1>3. (PipeIdle => PipeIdle') /\ (ChunkIdle => ChunkIdle') /\ (BgzfIdle => BgzfIdle') /\ (Fresh => Fresh')
  BY DEF PipeIdle, ChunkIdle, BgzfIdle, Fresh
<1>4. ASSUME SerialInv PROVE SerialInv'
  <2>1. PICK k \in Nat, c \in Nat : SerialAt(k, c)
    BY <1>4 DEF SerialInv
  <2>2. SerialAt(k, c)'
    BY <1>2, <2>1 DEF SerialAt
  <2> QED BY <2>2 DEF SerialInv
<1>5. ASSUME PipeInv PROVE PipeInv'
  <2>1. PICK k \in Nat, f \in Nat, c \in Nat : PipeAt(k, f, c)
    BY <1>5 DEF PipeInv
  <2>2. PipeAt(k, f, c)'
    BY <1>2, <2>1 DEF PipeAt
  <2>3. PipeBuffer'
    BY <1>5 DEF PipeInv, PipeBuffer
  <2> QED BY <2>2, <2>3 DEF PipeInv
<1>6. ASSUME ChunkInv PROVE ChunkInv'
  <2>1. PICK m \in Nat, p \in Nat, o \in Nat : ChunkAt(m, p, o)
    BY <1>6 DEF ChunkInv
  <2>2. ChunkPosition(o)'
    BY <2>1 DEF ChunkAt, ChunkPosition
  <2>3. ChunkAt(m, p, o)'
    BY <1>2, <2>1, <2>2 DEF ChunkAt
  <2> QED BY <2>3 DEF ChunkInv
<1>7. ASSUME BgzfInv PROVE BgzfInv'
  <2>1. PICK c \in Nat, bs \in Batches : BgzfAt(c, bs)
    BY <1>7 DEF BgzfInv
  <2>2. BgzfAt(c, bs)'
    BY <1>2, <2>1 DEF BgzfAt
  <2> QED BY <2>2 DEF BgzfInv
<1> QED BY <1>1, <1>3, <1>4, <1>5, <1>6, <1>7 DEF ReadInv, DecoderInv

\* ReadInv is inductive.
LEMMA ReadInvNext == ReadInv /\ [Next]_vars => ReadInv'
<1> SUFFICES ASSUME ReadInv, [Next]_vars PROVE ReadInv'
  OBVIOUS
<1>0. input \in Inputs /\ status \in Statuses
  BY DEF ReadInv, Values, Statuses
<1>1. CASE Open
  BY <1>1, OpenKeeps
<1>2. CASE FirstHeader
  BY <1>2, FirstHeaderKeeps
<1>3. CASE PipeStep
  <2>1. /\ path = "pipe" /\ path' = "pipe" /\ Pipe!Step
        /\ UNCHANGED <<setup, pos, first, final, ends, folded, walk>>
    BY <1>3 DEF PipeStep, chunkVars, bgzfVars
  <2>2. PipeInv /\ pos = 0 /\ ChunkIdle
    BY <2>1 DEF ReadInv, DecoderInv
  <2>3. PipeInv'
    BY <1>0, <2>1, <2>2, PipeSteps
  <2>4. status' \in Statuses /\ bfinal' \in BOOLEAN /\ UNCHANGED <<input, sinkOpen>>
    BY <1>0, <2>1, PipeValues DEF ReadInv, Values
  <2>5. ChunkIdle' /\ pos' = 0
    BY <2>1, <2>2 DEF ChunkIdle
  <2>6. Values'
    BY <2>1, <2>4 DEF ReadInv, Values, Statuses
  <2> QED BY <2>1, <2>3, <2>5, <2>6 DEF ReadInv, DecoderInv
<1>4. CASE SerialStep
  <2>1. /\ path = "serial" /\ path' = "serial" /\ File!Step
        /\ UNCHANGED <<setup, base, filled, bitOff, srcEof, member, first, final, ends, folded, walk>>
    BY <1>4 DEF SerialStep, pipeVars, chunkVars, bgzfVars
  <2>2. SerialInv /\ PipeIdle /\ ChunkIdle
    BY <2>1 DEF ReadInv, DecoderInv
  <2>3. SerialInv'
    BY <1>0, <2>1, <2>2, SerialSteps
  <2>4. status' \in Statuses /\ bfinal' \in BOOLEAN /\ UNCHANGED <<input, sinkOpen>>
    BY <1>0, <2>1, SerialValues DEF ReadInv, Values
  <2>5. PipeIdle' /\ ChunkIdle'
    BY <2>1, <2>2 DEF PipeIdle, ChunkIdle
  <2>6. Values'
    BY <2>1, <2>4 DEF ReadInv, Values, Statuses
  <2> QED BY <2>1, <2>3, <2>5, <2>6 DEF ReadInv, DecoderInv
<1>5. CASE ChunkStep
  <2>1. /\ path = "chunks" /\ path' = "chunks" /\ Chunks!Step
        /\ UNCHANGED <<bfinal, base, filled, bitOff, srcEof, member, walk>>
    BY <1>5 DEF ChunkStep, pipeVars, bgzfVars
  <2>2. ChunkInv /\ PipeIdle
    BY <2>1 DEF ReadInv, DecoderInv
  <2>3. ChunkInv'
    BY <1>0, <2>1, <2>2, ChunkSteps
  <2>4. /\ status' \in Statuses /\ first' \in BOOLEAN /\ final' \in BOOLEAN
        /\ UNCHANGED <<input, setup, sinkOpen>>
    BY <1>0, <2>1, ChunkValues DEF ReadInv, Values
  <2>5. PipeIdle'
    BY <2>1, <2>2 DEF PipeIdle
  <2>6. Values'
    BY <2>1, <2>4 DEF ReadInv, Values, Statuses
  <2> QED BY <2>1, <2>3, <2>5, <2>6 DEF ReadInv, DecoderInv
<1>6. CASE BgzfStep
  <2>1. /\ path = "bgzf" /\ path' = "bgzf" /\ Bgzf!Step
        /\ UNCHANGED <<bfinal, crcFed, memberUc, base, filled, bitOff, srcEof, member,
                       first, final, ends, folded>>
    BY <1>6 DEF BgzfStep, pipeVars, chunkVars
  <2>2. BgzfInv /\ PipeIdle /\ ChunkIdle
    BY <2>1 DEF ReadInv, DecoderInv
  <2>3. BgzfInv'
    BY <1>0, <2>1, <2>2, BgzfSteps
  <2>4. /\ status' \in Statuses /\ walk' \in {"on", "end", "truncated"}
        /\ UNCHANGED <<input, setup, sinkOpen>>
    BY <1>0, <2>1, BgzfValues DEF ReadInv, Values
  <2>5. PipeIdle' /\ ChunkIdle'
    BY <2>1, <2>2 DEF PipeIdle, ChunkIdle
  <2>6. Values'
    BY <2>1, <2>4 DEF ReadInv, Values, Statuses
  <2> QED BY <2>1, <2>3, <2>5, <2>6 DEF ReadInv, DecoderInv
<1>7. CASE HangUp
  BY <1>7, HangUpKeeps DEF HangUp
<1>8. CASE UNCHANGED vars
  BY <1>8, HangUpKeeps DEF vars
<1> QED BY <1>1, <1>2, <1>3, <1>4, <1>5, <1>6, <1>7, <1>8 DEF Next, Step

\* So ReadInv always holds.
LEMMA ReadInvHolds == Spec => []ReadInv
  BY ReadInvInit, ReadInvNext, PTL DEF Spec

-----------------------------------------------------------------------------
(* Types. *)

\* What ReadGzTypeOK says of the numbers.
Numbers ==
    /\ pos \in 0 .. 8 * input.len
    /\ base \in 0 .. filled /\ filled \in 0 .. input.len
    /\ bitOff \in 0 .. 7 /\ (bitOff > 0 => filled > base) /\ srcEof \in BOOLEAN
    /\ memberUc = Len(crcFed) /\ member \in 0 .. NumBlocks
    /\ folded \in 0 .. Len(out)
    /\ \A i \in DOMAIN ends : ends[i].offset \in folded .. Len(out)

\* The decoders other than SerialPipe leave its buffer empty.
LEMMA IdleNumbers ==
    ASSUME input.len \in Nat, PipeIdle
    PROVE  /\ base \in 0 .. filled /\ filled \in 0 .. input.len
           /\ bitOff \in 0 .. 7 /\ (bitOff > 0 => filled > base) /\ srcEof \in BOOLEAN
           /\ member \in 0 .. NumBlocks
<1>1. base = 0 /\ filled = 0 /\ bitOff = 0 /\ member = 0 /\ NumBlocks \in Nat
  BY Constants DEF PipeIdle
<1>2. srcEof \in BOOLEAN
  BY Zenon DEF PipeIdle
<1> QED BY <1>1, <1>2

\* The decoders other than ChunkChain leave no ends of members.
LEMMA IdleEnds ==
    ASSUME ChunkIdle, Len(out) \in Nat
    PROVE  /\ folded \in 0 .. Len(out)
           /\ \A i \in DOMAIN ends : ends[i].offset \in folded .. Len(out)
<1>1. folded = 0 /\ ends = <<>>
  BY DEF ChunkIdle
<1>2. DOMAIN ends = {}
  BY <1>1
<1> QED BY <1>1, <1>2

\* Before a decoder is in charge.
LEMMA FreshNumbers ==
    ASSUME input.len \in Nat, Fresh, PipeIdle, ChunkIdle
    PROVE  Numbers
<1>1. pos = 0 /\ memberUc = Len(crcFed) /\ Len(out) \in Nat
  BY DEF Fresh
<1> QED BY <1>1, IdleNumbers, IdleEnds DEF Numbers

\* In SerialFile.
LEMMA SerialNumbers ==
    ASSUME input.len \in Nat, SerialInv, PipeIdle, ChunkIdle
    PROVE  Numbers
<1>1. PICK k \in Nat, c \in Nat : SerialAt(k, c)
  BY DEF SerialInv
<1>2. k \in Blocks /\ pos <= 8 * input.len /\ (pos = BlockStart[k] \/ pos = BlockEnd(k))
  BY <1>1 DEF SerialAt
<1>3. pos \in 0 .. 8 * input.len
  BY <1>2, Positions
<1>4. PICK f, b : Holds(crcFed, memberUc, out, f, c, b)
  BY <1>1 DEF SerialAt
<1>5. memberUc = Len(crcFed) /\ out \in Seq(Nat)
  BY <1>4, HoldsInOrder
<1>6. Len(out) \in Nat
  BY <1>5, LenProperties
<1> QED BY <1>3, <1>5, <1>6, IdleNumbers, IdleEnds DEF Numbers

\* In SerialPipe.
LEMMA PipeNumbers ==
    ASSUME input.len \in Nat, PipeInv, pos = 0, ChunkIdle
    PROVE  Numbers
<1>1. PICK k \in Nat, f \in Nat, c \in Nat : PipeAt(k, f, c)
  BY DEF PipeInv
<1>2. PICK b : Holds(crcFed, memberUc, out, f, c, b)
  BY <1>1 DEF PipeAt
<1>3. memberUc = Len(crcFed) /\ out \in Seq(Nat)
  BY <1>2, HoldsInOrder
<1>4. Len(out) \in Nat
  BY <1>3, LenProperties
<1>5. /\ base \in Nat /\ filled \in Nat /\ filled <= input.len /\ srcEof \in BOOLEAN
      /\ bitOff \in 0 .. 7 /\ 8 * base + bitOff <= 8 * filled
  BY DEF PipeInv, PipeBuffer
<1>6. base \in 0 .. filled /\ filled \in 0 .. input.len /\ (bitOff > 0 => filled > base)
  BY <1>5
<1>7. member \in 0 .. NumBlocks
  <2>1. k = 0 \/ k \in Boundaries \/ k \in Blocks \/ k \in MemberEnds
    BY <1>1 DEF PipeAt
  <2>2. k <= NumBlocks /\ NumBlocks \in Nat
    BY <2>1, Constants, BoundaryNumbers
  <2>3. member \in 0 .. k
    BY <1>1 DEF PipeAt
  <2> QED BY <2>2, <2>3
<1>8. pos \in 0 .. 8 * input.len
  OBVIOUS
<1> QED BY <1>3, <1>4, <1>5, <1>6, <1>7, <1>8, IdleEnds DEF Numbers

\* In ChunkChain.
LEMMA ChunkNumbers ==
    ASSUME input.len \in Nat, ChunkInv, PipeIdle
    PROVE  Numbers
<1>1. PICK m \in Nat, p \in Nat, o \in Nat : ChunkAt(m, p, o)
  BY DEF ChunkInv
<1>2. /\ m \in Boundaries /\ p <= o /\ out = Bytes(p, o)
      /\ folded \in Nat /\ OutAt(m) <= p + folded /\ p + folded <= o
      /\ crcFed = Bytes(OutAt(m), p + folded) /\ memberUc = (p + folded) - OutAt(m)
      /\ EndsAt(ends, folded, p, o) /\ pos \in 0 .. 8 * input.len
  BY <1>1 DEF ChunkAt
<1>3. Len(out) = o - p
  BY <1>2, BytesType
<1>4. folded \in 0 .. Len(out)
  BY <1>2, <1>3
<1>5. memberUc = Len(crcFed)
  <2>1. PICK a \in Nat, q \in Nat : a = OutAt(m) /\ q = p + folded /\ a <= q
    BY <1>2, BoundaryNumbers
  <2>2. Len(Bytes(a, q)) = q - a
    BY <2>1, BytesType
  <2> QED BY <1>2, <2>1, <2>2
<1>6. ASSUME NEW i \in DOMAIN ends PROVE ends[i].offset \in folded .. Len(out)
  <2>1. i \in 1 .. Len(ends)
    BY <1>2, LenProperties DEF EndsAt
  <2>2. ends[i].offset \in Nat
    BY <1>2, <2>1, EndsType
  <2>3. folded <= ends[i].offset /\ p + ends[i].offset <= o
    BY <1>2, <2>1 DEF EndsAt
  <2> QED BY <1>2, <1>3, <2>2, <2>3
<1> QED BY <1>2, <1>4, <1>5, <1>6, IdleNumbers DEF Numbers

\* In BgzfChain.
LEMMA BgzfNumbers ==
    ASSUME input.len \in Nat, BgzfInv, PipeIdle, ChunkIdle
    PROVE  Numbers
<1>1. PICK c \in Nat, bs \in Batches : BgzfAt(c, bs)
  BY DEF BgzfInv
<1>2. /\ crcFed = <<>> /\ memberUc = 0 /\ SlicesAt(cur, bs)
      /\ pos = 8 * HdrAt(bs[Len(cur)]) /\ pos <= 8 * input.len
      /\ c <= OutAt(bs[0]) /\ out = Bytes(c, OutAt(bs[0]))
  BY <1>1 DEF BgzfAt
<1>3. HdrAt(bs[Len(cur)]) \in Nat /\ OutAt(bs[0]) \in Nat
  BY <1>2, SlicesType, BoundaryNumbers
<1>4. pos \in 0 .. 8 * input.len
  BY <1>2, <1>3
<1>5. Len(out) \in Nat
  <2>1. PICK y \in Nat : y = OutAt(bs[0]) /\ c <= y
    BY <1>2, <1>3
  <2>2. Len(Bytes(c, y)) = y - c
    BY <2>1, BytesType
  <2> QED BY <1>2, <2>1, <2>2
<1>6. memberUc = Len(crcFed)
  BY <1>2
<1> QED BY <1>4, <1>5, <1>6, IdleNumbers, IdleEnds DEF Numbers

\* Type correctness of read_gz: whichever decoder runs, positions stay in the
\* input, the pipe's buffer is a part of it, the byte counter of a member is
\* the number of bytes folded into its CRC, and the ends of members that a
\* chunk records lie in the part of it that is still to be folded.
THEOREM ReadGzTypeCorrect == Spec => []ReadGzTypeOK
<1>1. ReadInv => ReadGzTypeOK
  <2> SUFFICES ASSUME ReadInv PROVE ReadGzTypeOK
    OBVIOUS
  <2>1. /\ input \in Inputs /\ setup \in Setups
        /\ status \in {"running", "ok", "closed", "truncated", "io"} \cup FaultKind
        /\ {sinkOpen, bfinal, first, final} \subseteq BOOLEAN
        /\ walk \in {"on", "end", "truncated"}
    BY DEF ReadInv, Values
  <2>2. path \in {"open", "plain", "pipe", "serial", "chunks", "bgzf"}
    BY DEF ReadInv, DecoderInv
  <2>3. input.len \in Nat
    BY <2>1, InputLength
  <2>4. Numbers
    BY <2>3, FreshNumbers, SerialNumbers, PipeNumbers, ChunkNumbers, BgzfNumbers DEF ReadInv, DecoderInv
  <2> QED BY <2>1, <2>2, <2>4 DEF ReadGzTypeOK, Numbers
<1> QED BY <1>1, ReadInvHolds, PTL

-----------------------------------------------------------------------------
(* Every byte once. *)

\* A sequence that is an interval from x on.
StartsAt(s, x) == s = Bytes(x, x + Len(s))

\* A sequence that is a first part of the output.
OutputPrefix(s) == s = Bytes(0, Len(s))

\* An interval is one.
LEMMA IntervalStarts ==
    ASSUME NEW a \in Nat, NEW b \in Nat, a <= b
    PROVE  StartsAt(Bytes(a, b), a)
<1>1. Len(Bytes(a, b)) = b - a
  BY BytesType
<1>2. a + (b - a) = b
  OBVIOUS
<1> QED BY <1>1, <1>2 DEF StartsAt

\* What was sent and what is held are the output up to b.
LEMMA SentAndHeld ==
    ASSUME NEW c \in Nat, NEW b \in Nat, c <= b, NEW d, IsOutput(d, c)
    PROVE  OutputPrefix(d \o Bytes(c, b))
<1>1. PICK z \in Nat : z = 0 /\ z <= c /\ z <= b
  OBVIOUS
<1>2. Bytes(z, c) \o Bytes(c, b) = Bytes(z, b)
  BY <1>1, BytesConcat
<1>3. Len(Bytes(z, b)) = b - z
  BY <1>1, BytesType
<1>4. Len(Bytes(z, b)) = b
  BY <1>1, <1>3
<1> QED BY <1>1, <1>2, <1>4 DEF IsOutput, OutputPrefix

\* Held by a serial decoder.
LEMMA HeldOnce ==
    ASSUME NEW m \in FirstBlocks, NEW c, NEW b, Holds(crcFed, memberUc, out, OutStart[m], c, b), Sent(c)
    PROVE  /\ StartsAt(crcFed \o out, OutStart[m])
           /\ sinkOpen => OutputPrefix(delivered \o out)
<1>1. PICK f \in Nat : f = OutStart[m]
  BY DEF Holds
<1>2. c \in Nat /\ b \in Nat /\ f <= c /\ c <= b /\ f <= b /\ out = Bytes(c, b)
  BY <1>1 DEF Holds
<1>3. crcFed \o out = Bytes(f, b)
  BY <1>1, HoldsInOrder
<1>4. StartsAt(Bytes(f, b), f)
  BY <1>2, IntervalStarts
<1>5. ASSUME sinkOpen PROVE OutputPrefix(delivered \o out)
  BY <1>2, <1>5, SentAndHeld DEF Sent
<1> QED BY <1>1, <1>3, <1>4, <1>5

\* Whatever the decoder, the number of times a byte of the output is folded
\* into the CRC of its member, and sent, is one: in the serial decoders and
\* between the chunks of the parallel one, what was folded and what is held
\* are together the output of the member from its first byte on, and in all of
\* them what was sent to an open sink and what is held are the whole output so
\* far.  No byte is lost, repeated or out of place when a window is carried
\* over, a member straddles chunks or a library starts again.
THEOREM FoldedExactlyOnce == Spec => []FoldedOnce
<1>1. ReadInv => FoldedOnce
  <2> SUFFICES ASSUME ReadInv PROVE FoldedOnce
    OBVIOUS
  <2> DEFINE held == IF path = "chunks" THEN SubSeq(out, folded + 1, Len(out)) ELSE out
  <2>1. SUFFICES /\ path \in {"serial", "pipe"} \/ (path = "chunks" /\ ends = <<>>) =>
                       \E m \in FirstBlocks : StartsAt(crcFed \o held, OutStart[m])
                 /\ sinkOpen => OutputPrefix(delivered \o out)
    BY DEF FoldedOnce, StartsAt, OutputPrefix
  <2>2. CASE path \in {"open", "plain"}
    <3>1. Fresh
      BY <2>2 DEF ReadInv, DecoderInv
    <3>2. delivered = Bytes(0, 0) /\ out = Bytes(0, 0)
      BY <3>1, FirstBoundary DEF Fresh
    <3>3. PICK z \in Nat : z = 0 /\ z <= z
      OBVIOUS
    <3>4. OutputPrefix(Bytes(z, z) \o Bytes(z, z))
      BY <3>3, SentAndHeld DEF IsOutput
    <3> QED BY <2>2, <3>2, <3>3, <3>4
  <2>3. CASE path = "serial"
    <3>1. PICK k \in Nat, c \in Nat : SerialAt(k, c)
      BY <2>3 DEF ReadInv, DecoderInv, SerialInv
    <3>2. PICK b : k \in Blocks /\ Sent(c) /\ Holds(crcFed, memberUc, out, MemberOutAt(k), c, b)
      BY <3>1 DEF SerialAt
    <3>3. PICK m \in FirstBlocks : MemberOutAt(k) = OutStart[m]
      BY <3>2, MemberOutType
    <3>4. /\ StartsAt(crcFed \o out, OutStart[m])
          /\ sinkOpen => OutputPrefix(delivered \o out)
      BY <3>2, <3>3, HeldOnce
    <3> QED BY <2>3, <3>4
  <2>4. CASE path = "pipe"
    <3>1. PICK k \in Nat, f \in Nat, c \in Nat : PipeAt(k, f, c)
      BY <2>4 DEF ReadInv, DecoderInv, PipeInv
    <3>2. PICK b : Sent(c) /\ Holds(crcFed, memberUc, out, f, c, b)
      BY <3>1 DEF PipeAt
    <3>3. PICK m \in FirstBlocks : f = OutStart[m]
      BY <3>1 DEF PipeAt
    <3>4. /\ StartsAt(crcFed \o out, OutStart[m])
          /\ sinkOpen => OutputPrefix(delivered \o out)
      BY <3>2, <3>3, HeldOnce
    <3> QED BY <2>4, <3>4
  <2>5. CASE path = "chunks"
    <3>1. PICK m \in Nat, p \in Nat, o \in Nat : ChunkAt(m, p, o)
      BY <2>5 DEF ReadInv, DecoderInv, ChunkInv
    <3>2. /\ m \in Boundaries /\ Sent(p) /\ p <= o /\ o <= OutEnd(NumBlocks - 1) /\ out = Bytes(p, o)
          /\ folded \in Nat /\ OutAt(m) <= p + folded /\ p + folded <= o
          /\ crcFed = Bytes(OutAt(m), p + folded)
      BY <3>1 DEF ChunkAt
    <3>3. sinkOpen => OutputPrefix(delivered \o out)
      BY <3>2, SentAndHeld DEF Sent
    <3>4. PICK a \in Nat, q \in Nat : a = OutAt(m) /\ q = p + folded /\ a <= q /\ q <= o /\ a <= o
      BY <3>2, BoundaryNumbers
    <3>5. SubSeq(out, folded + 1, Len(out)) = Bytes(q, o)
      <4>1. Len(Bytes(p, o)) = o - p
        BY <3>2, BytesType
      <4>2. PICK i, n : i = folded + 1 /\ n = Len(out)
        OBVIOUS
      <4>3. Places(p, o, i, n, q, o)
        BY <3>2, <3>4, <4>1, <4>2 DEF Places
      <4>4. SubSeq(Bytes(p, o), i, n) = Bytes(q, o)
        BY ONLY <4>3, BytesPart
      <4> QED BY <3>2, <4>2, <4>4
    <3>6. crcFed \o held = Bytes(a, o)
      <4>1. Bytes(a, q) \o Bytes(q, o) = Bytes(a, o)
        BY <3>4, BytesConcat
      <4> QED BY <2>5, <3>2, <3>4, <3>5, <4>1
    <3>7. \E j \in FirstBlocks : StartsAt(Bytes(a, o), OutStart[j])
      <4>1. CASE m \in Blocks
        <5>1. m \in FirstBlocks /\ OutStart[m] = a
          BY <3>2, <3>4, <4>1, BoundaryStarts
        <5>2. StartsAt(Bytes(a, o), a)
          BY <3>4, IntervalStarts
        <5> QED BY <5>1, <5>2
      <4>2. CASE m \notin Blocks
        <5>1. a = OutEnd(NumBlocks - 1)
          BY <3>2, <3>4, <4>2, BoundaryNumbers
        <5>2. a = o
          BY <3>2, <3>4, <5>1
        <5>3. Bytes(a, o) = Bytes(0, 0)
          <6>1. Bytes(a, o) = <<>>
            BY <3>4, <5>2, BytesType
          <6> QED BY <6>1, FirstBoundary
        <5>4. PICK z \in Nat : z = 0 /\ z <= z
          OBVIOUS
        <5>5. StartsAt(Bytes(z, z), z)
          BY <5>4, IntervalStarts
        <5> QED BY <5>3, <5>4, <5>5, FirstBoundary
      <4> QED BY <4>1, <4>2
    <3> QED BY <3>3, <3>6, <3>7
  <2>6. CASE path = "bgzf"
    <3>1. PICK c \in Nat, bs \in Batches : BgzfAt(c, bs)
      BY <2>6 DEF ReadInv, DecoderInv, BgzfInv
    <3>2. /\ SlicesAt(cur, bs) /\ Sent(c) /\ c <= OutAt(bs[0]) /\ out = Bytes(c, OutAt(bs[0]))
      BY <3>1 DEF BgzfAt
    <3>3. PICK y \in Nat : y = OutAt(bs[0]) /\ c <= y
      BY <3>2, SlicesType, BoundaryNumbers
    <3>4. sinkOpen => OutputPrefix(delivered \o out)
      BY <3>2, <3>3, SentAndHeld DEF Sent
    <3> QED BY <2>6, <3>4
  <2> QED BY <2>2, <2>3, <2>4, <2>5, <2>6 DEF ReadInv, DecoderInv
<1> QED BY <1>1, ReadInvHolds, PTL

-----------------------------------------------------------------------------
(* Bounds. *)

\* No block has more output than the largest.
LEMMA LargestBlock ==
    /\ Max({BlockOut[k] : k \in Blocks}) \in Nat
    /\ \A k \in Blocks : BlockOut[k] <= Max({BlockOut[j] : j \in Blocks})
<1> DEFINE S == {BlockOut[k] : k \in Blocks}
<1>1. BlockOut \in [0 .. NumBlocks - 1 -> Nat] /\ NumBlocks - 1 \in Nat /\ Blocks = 0 .. NumBlocks - 1
  BY Constants, GzipInputAssumption
<1>2. PICK n \in Nat : \A k \in 0 .. NumBlocks - 1 : BlockOut[k] <= n
  BY <1>1, Bounded
<1>3. S \subseteq 0 .. n
  BY <1>1, <1>2
<1>4. S # {}
  <2>1. BlockOut[0] \in S
    BY Constants
  <2> QED BY <2>1
<1>5. \A k \in Blocks : BlockOut[k] \in S
  OBVIOUS
<1> HIDE DEF S
<1>6. Max(S) \in S /\ \A y \in S : Max(S) >= y
  BY <1>3, <1>4, MaxProperty
<1>7. \A k \in Blocks : BlockOut[k] <= Max(S)
  BY <1>3, <1>5, <1>6
<1> QED BY <1>3, <1>6, <1>7 DEF S

\* The memory of the serial decoders does not grow with the member: from a
\* pipe they hold at most the window and the output of one block, from a file
\* at most a chunk more.
THEOREM OutputStaysBounded == Spec => []OutputBounded
<1> DEFINE block == Max({BlockOut[k] : k \in Blocks})
<1>0. block \in Nat /\ \A k \in Blocks : BlockOut[k] <= block /\ BlockOut[k] \in Nat
  BY LargestBlock, Constants
<1>1. ReadInv => OutputBounded
  <2> SUFFICES ASSUME ReadInv PROVE OutputBounded
    OBVIOUS
  <2> HIDE DEF block
  <2>0. Window \in Nat /\ Window >= 1 /\ ChunkTarget \in Nat /\ ChunkTarget >= 1
    BY Constants, ReadGzAssumption
  <2>1. ASSUME path = "pipe" PROVE Len(out) <= Window + block
    <3>1. PICK k \in Nat, f \in Nat, c \in Nat : PipeAt(k, f, c)
      BY <2>1 DEF ReadInv, DecoderInv, PipeInv
    <3>2. CASE Holds(crcFed, memberUc, out, f, c, c)
      <4>1. Len(out) = 0
        BY <3>2, HoldsInOrder
      <4> QED BY <1>0, <2>0, <4>1
    <3>3. ASSUME NEW b, Holds(crcFed, memberUc, out, f, c, b) PROVE Len(out) \in Nat
      BY <3>3, HoldsInOrder, LenProperties
    <3>4. CASE pc \in {"block", "emit"}
      <4>1. /\ Len(out) <= Window \/ (k \in Blocks /\ Len(out) <= Window + BlockOut[k])
            /\ \E b : Holds(crcFed, memberUc, out, f, c, b)
        BY <3>1, <3>4 DEF PipeAt
      <4>2. Len(out) \in Nat
        BY <3>3, <4>1
      <4> QED BY <1>0, <2>0, <4>1, <4>2
    <3> QED BY <3>1, <3>2, <3>4 DEF PipeAt
  <2>2. ASSUME path = "serial" PROVE Len(out) <= ChunkTarget + Window - 1 + block
    <3>1. PICK k \in Nat, c \in Nat : SerialAt(k, c)
      BY <2>2 DEF ReadInv, DecoderInv, SerialInv
    <3>2. PICK b : k \in Blocks /\ Holds(crcFed, memberUc, out, MemberOutAt(k), c, b)
      BY <3>1 DEF SerialAt
    <3>3. Len(out) \in Nat
      BY <3>2, HoldsInOrder, LenProperties
    <3>4. CASE pc = "trailer"
      <4>1. Holds(crcFed, memberUc, out, MemberOutAt(k), c, c)
        BY <3>1, <3>4 DEF SerialAt
      <4>2. Len(out) = 0
        BY <4>1, HoldsInOrder
      <4> QED BY <1>0, <2>0, <4>2
    <3>5. CASE pc # "trailer"
      <4>1. Len(out) < ChunkTarget + Window \/ Len(out) < ChunkTarget + Window + BlockOut[k]
        BY <3>1, <3>5 DEF SerialAt
      <4> QED BY <1>0, <2>0, <3>2, <3>3, <4>1
    <3> QED BY <3>4, <3>5
  <2> QED BY <2>1, <2>2 DEF OutputBounded, block
<1> QED BY <1>1, ReadInvHolds, PTL

\* Every item has a size, and none is larger than the largest.
LEMMA LargestItem ==
    /\ Max(ItemBytes) \in Nat
    /\ \A x \in ItemBytes : x \in Nat /\ x <= Max(ItemBytes)
<1> DEFINE Size(k) == BytesOfBits(NeedsBits(k) - 8 * (BlockStart[k] \div 8))
           f == [k \in 0 .. NumBlocks - 1 |-> Size(k)]
<1>1. NumBlocks - 1 \in Nat /\ Blocks = 0 .. NumBlocks - 1 /\ HeaderLen \in Nat /\ TrailerLen = 8
  BY Constants
<1>2. ASSUME NEW k \in Blocks PROVE Size(k) \in Nat
  <2>1. /\ BlockStart[k] \in Nat /\ NeedsBits(k) \in Nat /\ NeedsBits(k) >= BlockEnd(k)
        /\ BlockEnd(k) \in Nat /\ BlockEnd(k) >= BlockStart[k]
    BY Positions
  <2>2. PICK q \in Nat, r \in 0 .. 7 : q = BlockStart[k] \div 8 /\ BlockStart[k] = 8 * q + r
    BY <2>1, ByteRounding
  <2>3. NeedsBits(k) - 8 * q \in Nat
    BY <2>1, <2>2
  <2>4. BytesOfBits(NeedsBits(k) - 8 * q) \in Nat
    BY <2>3, ByteRounding
  <2> QED BY <2>2, <2>4
<1> HIDE DEF Size
<1>3. f \in [0 .. NumBlocks - 1 -> Nat]
  BY <1>1, <1>2
<1>4. PICK n \in Nat : \A k \in 0 .. NumBlocks - 1 : f[k] <= n
  <2> HIDE DEF f
  <2> QED BY <1>1, <1>3, Bounded
<1>5. PICK b \in Nat : b = n + HeaderLen + 8
  BY <1>1
<1>6. ItemBytes = {HeaderLen, TrailerLen} \cup {Size(k) : k \in Blocks}
  BY DEF ItemBytes, Size
<1>7. ItemBytes \subseteq 0 .. b
  <2>1. \A k \in Blocks : Size(k) \in 0 .. b
    <3>1. \A k \in Blocks : Size(k) <= n
      BY <1>1, <1>4
    <3> QED BY <1>1, <1>2, <1>5, <3>1
  <2>2. HeaderLen \in 0 .. b /\ TrailerLen \in 0 .. b
    BY <1>1, <1>5
  <2> QED BY <1>6, <2>1, <2>2
<1>8. ItemBytes # {}
  BY <1>6
<1>9. PICK m : m = Max(ItemBytes) /\ m \in ItemBytes /\ \A y \in ItemBytes : m >= y
  BY <1>7, <1>8, MaxProperty
<1>10. \A x \in ItemBytes : x \in Nat
  BY <1>7
<1>11. \A x \in ItemBytes : x <= m
  BY <1>9, <1>10
<1> QED BY <1>9, <1>10, <1>11

\* What is held is the history of the block if it goes back to the start of
\* the member, or the window.
LEMMA ReachIsHistory ==
    ASSUME NEW k \in Blocks, NEW c \in Nat, c <= OutStart[k], NEW o, o = Bytes(c, OutStart[k]),
           c <= MemberOutAt(k) \/ OutStart[k] - c >= Window
    PROVE  HasHistory(k, o)
<1>1. PICK f \in Nat, b \in Nat : f = MemberOutAt(k) /\ b = OutStart[k] /\ f <= b
  BY MemberOutType, Positions
<1>2. c <= b /\ o = Bytes(c, b)
  BY <1>1
<1>3. Len(o) = b - c
  BY <1>2, BytesType
<1>4. b - f \in Nat /\ Window \in Nat
  BY <1>1, <1>2, Constants
<1>5. PICK n \in Nat : n = Min({Window, b - f}) /\ n <= Window /\ n <= b - f
  BY <1>4, MinOfTwo
<1>6. n <= b - c
  BY <1>1, <1>2, <1>4, <1>5
<1>7. PICK x, i, j : /\ x = b - n /\ i = Len(o) - n + 1 /\ j = Len(o)
                     /\ Places(c, b, i, j, x, b)
  <2>1. b - n \in Nat /\ c <= b - n /\ b - n <= b
    BY <1>2, <1>6
  <2>2. Places(c, b, Len(o) - n + 1, Len(o), b - n, b)
    BY <1>1, <1>2, <1>3, <2>1 DEF Places
  <2> QED BY <2>2
<1>8. Places(c, b, i, j, x, b)
  BY <1>7
<1>9. SubSeq(Bytes(c, b), i, j) = Bytes(x, b)
  BY ONLY <1>8, BytesPart
<1>10. Len(o) >= n /\ SubSeq(o, Len(o) - n + 1, Len(o)) = Bytes(b - n, b)
  BY <1>2, <1>3, <1>6, <1>7, <1>9
<1> QED BY <1>1, <1>5, <1>10 DEF HasHistory, MemberOutAt

\* A decoder that keeps the window has the history of the next block.
LEMMA WindowIsHistory ==
    ASSUME NEW k \in Blocks, NEW crc, NEW uc, NEW o, NEW c,
           Holds(crc, uc, o, MemberOutAt(k), c, OutStart[k]), KeepsWindow(MemberOutAt(k), c, OutStart[k])
    PROVE  HasHistory(k, o)
<1>1. MemberOutAt(k) \in Nat /\ OutStart[k] \in Nat /\ Window \in Nat
  BY MemberOutType, Positions, Constants
<1>2. c \in Nat /\ MemberOutAt(k) <= c /\ c <= OutStart[k] /\ o = Bytes(c, OutStart[k])
  BY <1>1 DEF Holds
<1>3. c <= MemberOutAt(k) \/ OutStart[k] - c >= Window
  BY <1>1, <1>2 DEF KeepsWindow
<1> QED BY <1>2, <1>3, ReachIsHistory

\* A sound block whose history is there fails to decode for want of bits only.
LEMMA SoundBlock ==
    ASSUME NEW k \in Blocks, NEW avail, NEW o, input.fault[k] # "deflate", HasHistory(k, o),
           NEW r \in InflateBlock(BlockStart[k], avail, o)
    PROVE  r = IF NeedsBits(k) <= 8 * avail THEN k ELSE Eof
<1> DEFINE here == {j \in Blocks : /\ BlockStart[j] = BlockStart[k]
                                   /\ input.fault[j] # "deflate"
                                   /\ HasHistory(j, o)}
<1>1. k \in here
  OBVIOUS
<1>2. \A j \in here : j = k
  BY OneBlockHere
<1>3. InflateBlock(BlockStart[k], avail, o) = {IF NeedsBits(j) <= 8 * avail THEN j ELSE Eof : j \in here}
  BY <1>1 DEF InflateBlock
<1>4. PICK j \in here : r = IF NeedsBits(j) <= 8 * avail THEN j ELSE Eof
  BY <1>3
<1> QED BY <1>2, <1>4

\* The blocks of the input are not damaged.
SoundBlocks == \A k \in Blocks : input.fault[k] # "deflate"

\* What is buffered when more is read is less than an item.
WantsMore == filled - base <= Max(ItemBytes) - 1

\* A read then keeps the bound.
LEMMA ReadKeepsBound ==
    ASSUME input \in Inputs, PipeBuffer, WantsMore, Pipe!FillMore
    PROVE  filled' - base' <= Max(ItemBytes) - 1 + ReadMax
<1>1. PipeReads
  BY PipeFills
<1>2. base \in Nat /\ filled \in Nat /\ ReadMax \in Nat /\ Max(ItemBytes) \in Nat
  BY ReadGzAssumption, LargestItem DEF PipeBuffer
<1> QED BY <1>1, <1>2 DEF PipeReads, WantsMore

\* A step that reads nothing and drops nothing back keeps it too.
LEMMA DropKeepsBound ==
    ASSUME base \in Nat, filled \in Nat, filled - base <= Max(ItemBytes) - 1 + ReadMax,
           filled' = filled, base' \in Nat, base <= base'
    PROVE  filled' - base' <= Max(ItemBytes) - 1 + ReadMax
<1>1. ReadMax \in Nat /\ Max(ItemBytes) \in Nat
  BY ReadGzAssumption, LargestItem
<1> QED BY <1>1

\* When the pipe's decoder reads on, it has less than the item it is at.
LEMMA ReadsForItem ==
    ASSUME input \in Inputs, PipeInv, SoundBlocks,
           \/ pc = "prime"
           \/ pc = "peek" /\ filled - base = 0
           \/ pc = "header" /\ ParseHeader(base, filled) = "truncated"
           \/ pc = "trailer" /\ filled - base < 8
           \/ pc = "block" /\ Eof \in InflateBlock(8 * base + bitOff, filled, out)
    PROVE  WantsMore
<1>0. base \in Nat /\ filled \in Nat /\ bitOff \in 0 .. 7
  BY DEF PipeInv, PipeBuffer
<1>1. PICK k \in Nat, f \in Nat, c \in Nat : PipeAt(k, f, c)
  BY DEF PipeInv
<1>2. /\ Max(ItemBytes) \in Nat /\ HeaderLen \in Nat /\ HeaderLen >= 10
      /\ HeaderLen <= Max(ItemBytes) /\ 8 <= Max(ItemBytes)
  BY LargestItem, Constants DEF ItemBytes
<1>3. CASE pc = "prime"
  <2>1. base = 0 /\ filled = 0
    BY <1>1, <1>3 DEF PipeAt
  <2> QED BY <1>2, <2>1 DEF WantsMore
<1>4. CASE pc = "peek" /\ filled - base = 0
  BY <1>2, <1>4 DEF WantsMore
<1>5. CASE pc = "header" /\ ParseHeader(base, filled) = "truncated"
  <2>1. filled - base < HeaderLen
    BY <1>0, <1>5, HeaderParses
  <2> QED BY <1>0, <1>2, <2>1 DEF WantsMore
<1>6. CASE pc = "trailer" /\ filled - base < 8
  BY <1>0, <1>2, <1>6 DEF WantsMore
<1>7. CASE pc = "block" /\ Eof \in InflateBlock(8 * base + bitOff, filled, out)
  <2>1. /\ k \in Blocks /\ 8 * base + bitOff = BlockStart[k]
        /\ KeepsWindow(MemberOutAt(k), c, OutStart[k])
        /\ Holds(crcFed, memberUc, out, MemberOutAt(k), c, OutStart[k])
    BY <1>1, <1>7 DEF PipeAt
  <2>2. HasHistory(k, out) /\ input.fault[k] # "deflate"
    BY <2>1, WindowIsHistory DEF SoundBlocks
  <2>3. Eof = IF NeedsBits(k) <= 8 * filled THEN k ELSE Eof
    BY <1>7, <2>1, <2>2, SoundBlock
  <2>4. NeedsBits(k) > 8 * filled
    <3>1. Eof # k /\ NeedsBits(k) \in Nat
      BY <2>1, Constants, Positions DEF Eof
    <3> QED BY <1>0, <2>3, <3>1
  <2>5. base = BlockStart[k] \div 8
    <3>1. PICK n \in Nat : n = 8 * base + bitOff
      BY <1>0
    <3> QED BY <1>0, <2>1, <3>1, BytesAndBits
  <2>6. BytesOfBits(NeedsBits(k) - 8 * base) \in ItemBytes
    BY <2>1, <2>5 DEF ItemBytes
  <2>7. BytesOfBits(NeedsBits(k) - 8 * base) <= Max(ItemBytes)
    BY <2>6, LargestItem
  <2>8. filled - base < BytesOfBits(NeedsBits(k) - 8 * base)
    <3>1. NeedsBits(k) \in Nat /\ NeedsBits(k) >= BlockEnd(k) /\ BlockEnd(k) \in Nat /\ BlockEnd(k) >= BlockStart[k]
          /\ BlockStart[k] \in Nat
      BY <2>1, Positions
    <3>2. PICK n \in Nat : n = NeedsBits(k) - 8 * base
      BY <1>0, <2>1, <3>1
    <3>3. 8 * BytesOfBits(n) >= n /\ BytesOfBits(n) \in Nat
      BY ByteRounding
    <3>4. n > 8 * (filled - base)
      BY <1>0, <2>4, <3>1, <3>2
    <3> QED BY <1>0, <3>2, <3>3, <3>4
  <2>9. BytesOfBits(NeedsBits(k) - 8 * base) \in Nat
    BY <2>6, LargestItem
  <2> QED BY <1>0, <1>2, <2>7, <2>8, <2>9 DEF WantsMore
<1> QED BY <1>3, <1>4, <1>5, <1>6, <1>7

\* A step of the pipe's decoder reads for want of an item, or reads nothing
\* and moves the start of the buffer forward only.
LEMMA PipeKeepsBound ==
    ASSUME input \in Inputs, PipeInv, SoundBlocks, Pipe!Step,
           filled - base <= Max(ItemBytes) - 1 + ReadMax
    PROVE  filled' - base' <= Max(ItemBytes) - 1 + ReadMax
<1>0. PipeBuffer /\ base \in Nat /\ filled \in Nat /\ bitOff \in 0 .. 7
  BY DEF PipeInv, PipeBuffer
<1>a. PICK k \in Nat, f \in Nat, c \in Nat : PipeAt(k, f, c)
  BY DEF PipeInv
<1>b. ASSUME Pipe!FillMore, WantsMore PROVE filled' - base' <= Max(ItemBytes) - 1 + ReadMax
  BY <1>0, <1>b, ReadKeepsBound
<1>c. ASSUME filled' = filled, base' \in Nat, base <= base'
      PROVE  filled' - base' <= Max(ItemBytes) - 1 + ReadMax
  BY <1>0, <1>c, DropKeepsBound
<1>d. ASSUME UNCHANGED Pipe!bufVars PROVE filled' - base' <= Max(ItemBytes) - 1 + ReadMax
  BY <1>d DEF Pipe!bufVars
<1>e. ASSUME Pipe!FillOrTruncated, WantsMore PROVE filled' - base' <= Max(ItemBytes) - 1 + ReadMax
  BY <1>b, <1>d, <1>e DEF Pipe!FillOrTruncated, Pipe!Return, Pipe!ReadFails
<1>f. ASSUME NEW r, Pipe!Return(r) PROVE filled' - base' <= Max(ItemBytes) - 1 + ReadMax
  BY <1>d, <1>f DEF Pipe!Return
<1>1. CASE Pipe!Prime
  <2>1. WantsMore
    BY <1>1, ReadsForItem DEF Pipe!Prime
  <2> QED BY <1>1, <1>b, <1>d, <2>1 DEF Pipe!Prime, Pipe!ReadFails
<1>2. CASE Pipe!NextMember
  BY <1>2, <1>d, <1>f DEF Pipe!NextMember
<1>3. CASE Pipe!ReadGzipHeader
  <2>1. CASE ParseHeader(base, filled) = "truncated" /\ Pipe!FillOrTruncated
    <3>1. WantsMore
      BY <1>3, <2>1, ReadsForItem DEF Pipe!ReadGzipHeader
    <3> QED BY <1>e, <2>1, <3>1
  <2>2. CASE base' = base + HeaderLen /\ filled' = filled
    <3>1. HeaderLen \in Nat
      BY Constants
    <3>2. base' \in Nat /\ base <= base'
      BY <1>0, <2>2, <3>1
    <3> QED BY <1>c, <2>2, <3>2
  <2>3. CASE Pipe!Return("header")
    BY <1>f, <2>3
  <2> QED BY <1>3, <2>1, <2>2, <2>3, PipeParsers DEF Pipe!ReadGzipHeader
<1>4. CASE Pipe!DecodeBlock
  <2>0. pc = "block"
    BY <1>4 DEF Pipe!DecodeBlock
  <2>1. PICK r \in InflateBlock(8 * base + bitOff, filled, out) :
           \/ r \in Blocks /\ base' = BlockEnd(r) \div 8 /\ filled' = filled
           \/ r = Eof /\ Pipe!FillOrTruncated
           \/ Pipe!Return("deflate")
    BY <1>4, PipeLayout, PipeParsers DEF Pipe!DecodeBlock
  <2>2. CASE r \in Blocks /\ base' = BlockEnd(r) \div 8 /\ filled' = filled
    <3>1. BlockStart[r] = 8 * base + bitOff
      BY <1>0, <2>2, BlockDecodes
    <3>2. BlockEnd(r) \in Nat /\ BlockStart[r] \in Nat /\ BlockEnd(r) >= BlockStart[r]
      BY <2>2, Positions
    <3>3. PICK q \in Nat, s \in 0 .. 7 : q = BlockEnd(r) \div 8 /\ BlockEnd(r) = 8 * q + s
      BY <3>2, ByteRounding
    <3>4. base <= q
      BY <1>0, <3>1, <3>2, <3>3
    <3> QED BY <1>c, <2>2, <3>3, <3>4
  <2>3. CASE r = Eof /\ Pipe!FillOrTruncated
    <3>1. WantsMore
      BY <2>0, <2>1, <2>3, ReadsForItem
    <3> QED BY <1>e, <2>3, <3>1
  <2> QED BY <1>f, <2>1, <2>2, <2>3
<1>5. CASE Pipe!Emit
  BY <1>5, <1>d DEF Pipe!Emit
<1>6. CASE Pipe!ByteAlign
  <2>1. filled' = filled /\ (base' = base + 1 \/ base' = base)
    BY <1>6 DEF Pipe!ByteAlign
  <2>2. base' \in Nat /\ base <= base'
    BY <1>0, <2>1
  <2> QED BY <1>c, <2>1, <2>2
<1>7. CASE Pipe!ReadTrailer
  <2>1. CASE filled - base < 8 /\ Pipe!FillOrTruncated
    <3>1. WantsMore
      BY <1>7, <2>1, ReadsForItem DEF Pipe!ReadTrailer
    <3> QED BY <1>e, <2>1, <3>1
  <2>2. CASE base' = base + 8 /\ filled' = filled
    <3>1. base' \in Nat /\ base <= base'
      BY <1>0, <2>2
    <3> QED BY <1>c, <2>2, <3>1
  <2>3. CASE \E r : Pipe!Return(r)
    BY <1>f, <2>3
  <2> QED BY <1>7, <2>1, <2>2, <2>3 DEF Pipe!ReadTrailer, Pipe!BufLen, Pipe!TrailerLen
<1>8. CASE Pipe!PeekNext
  <2>1. CASE Pipe!MustPeek /\ Pipe!FillMore
    <3>1. WantsMore
      BY <1>8, <2>1, ReadsForItem DEF Pipe!PeekNext, Pipe!MustPeek, Pipe!BufLen
    <3> QED BY <1>b, <2>1, <3>1
  <2>2. CASE UNCHANGED Pipe!bufVars
    BY <1>d, <2>2
  <2> QED BY <1>8, <2>1, <2>2 DEF Pipe!PeekNext, Pipe!ReadFails
<1> QED BY <1>1, <1>2, <1>3, <1>4, <1>5, <1>6, <1>7, <1>8 DEF Pipe!Step

\* The memory bound that the module comment of lib.rs states: as long as the
\* blocks decode, however the reads of a pipe are cut, its buffer never holds
\* more than one item (a header, a block with its look-ahead, a trailer) and
\* one read.
THEOREM BufferStaysBounded == Spec => []BufferBounded
<1> DEFINE limit == Max(ItemBytes) - 1 + ReadMax
<1>0. limit \in Nat
  <2>1. HeaderLen \in ItemBytes
    BY DEF ItemBytes
  <2>2. Max(ItemBytes) \in Nat /\ HeaderLen <= Max(ItemBytes) /\ HeaderLen \in Nat /\ HeaderLen >= 10
    BY <2>1, LargestItem, Constants
  <2>3. ReadMax \in Nat
    BY ReadGzAssumption
  <2> QED BY <2>2, <2>3
<1>1. Init => BufferBounded
  <2> SUFFICES ASSUME Init PROVE filled - base <= limit
    BY DEF BufferBounded
  <2>1. filled = 0 /\ base = 0
    BY DEF Init
  <2> QED BY <1>0, <2>1
<1>2. ReadInv /\ BufferBounded /\ [Next]_vars => BufferBounded'
  <2> SUFFICES ASSUME ReadInv, BufferBounded, [Next]_vars, SoundBlocks' PROVE filled' - base' <= limit
    BY DEF BufferBounded, SoundBlocks
  <2>0. input \in Inputs /\ status \in Statuses /\ bfinal \in BOOLEAN
    BY DEF ReadInv, Values, Statuses
  <2>1. CASE PipeStep
    <3>1. path = "pipe" /\ Pipe!Step
      BY <2>1 DEF PipeStep
    <3>2. PipeInv
      BY <3>1 DEF ReadInv, DecoderInv
    <3>3. input' = input
      BY <2>0, <3>1, PipeValues
    <3>4. SoundBlocks
      BY <3>3 DEF SoundBlocks
    <3>5. filled - base <= limit
      BY <3>4 DEF BufferBounded, SoundBlocks
    <3> QED BY <2>0, <3>1, <3>2, <3>4, <3>5, PipeKeepsBound
  <2>2. CASE UNCHANGED <<input, base, filled>>
    <3>1. SoundBlocks
      BY <2>2 DEF SoundBlocks
    <3>2. filled - base <= limit
      BY <3>1 DEF BufferBounded, SoundBlocks
    <3> QED BY <2>2, <3>2
  <2>3. CASE SerialStep
    <3>1. UNCHANGED <<input, base, filled>>
      BY <2>0, <2>3, SerialValues DEF SerialStep, pipeVars
    <3> QED BY <2>2, <3>1
  <2>4. CASE ChunkStep
    <3>1. UNCHANGED <<input, base, filled>>
      BY <2>0, <2>4, ChunkValues DEF ChunkStep, pipeVars, ReadInv, Values
    <3> QED BY <2>2, <3>1
  <2>5. CASE BgzfStep
    <3>1. UNCHANGED <<input, base, filled>>
      BY <2>0, <2>5, BgzfValues DEF BgzfStep, pipeVars, ReadInv, Values
    <3> QED BY <2>2, <3>1
  <2>6. CASE Open \/ FirstHeader \/ HangUp \/ UNCHANGED vars
    <3>1. UNCHANGED <<input, base, filled>>
      BY <2>6 DEF Open, FirstHeader, HangUp, vars, pipeVars
    <3> QED BY <2>2, <3>1
  <2> QED BY <2>1, <2>3, <2>4, <2>5, <2>6 DEF Next, Step
<1> QED BY <1>1, <1>2, ReadInvHolds, PTL DEF Spec

-----------------------------------------------------------------------------
(* What the decoders know of the input. *)

\* Block k of input i is there and decodes.
DecodesIn(i, k) == i.fault[k] \notin {"header", "deflate"} /\ BlockEnd(k) <= 8 * i.len

\* The trailer after block k, if it ends a member, is there.
TrailerIn(i, k) == k \in MemberEnds => MemberLimit(k) <= i.len

\* Nothing is wrong with block k of input i.
SoundIn(i, k) == i.fault[k] = "none" /\ BlockEnd(k) <= 8 * i.len /\ TrailerIn(i, k)

\* The blocks before b, and their trailers, are there and decode; nothing is wrong with them.
DecodedTo(i, b) == \A j \in Blocks : j < b => DecodesIn(i, j) /\ TrailerIn(i, j)
CleanTo(i, b) == \A j \in Blocks : j < b => SoundIn(i, j)

\* The header of the member of block k was parsed.
Opened(i, k) == i.fault[MemberStart(k)] # "header" /\ HdrAt(MemberStart(k)) < i.len

\* A decoder before and after block k that checks as it goes.
AtBlock(i, k) == CleanTo(i, k) /\ Opened(i, k)
AfterBlock(i, k) == AtBlock(i, k) /\ DecodesIn(i, k)

\* The same at a position.
AtStart(i, x) == \A k \in Blocks : BlockStart[k] = x => AtBlock(i, k)
AtEnd(i, x) == \A k \in Blocks : BlockEnd(k) = x => AfterBlock(i, k)
AtTrailer(i, x) == \A k \in MemberEnds : TrailerAt(k) = x => AfterBlock(i, k)
AtHeader(i, x) == \A b \in Boundaries : HdrAt(b) = x => CleanTo(i, b)

\* The member that ends before the trailer at x was folded.
FoldedAt(crc, uc, x) ==
    \A k \in MemberEnds : TrailerAt(k) = x => /\ crc = Bytes(MemberOutAt(k), OutEnd(k))
                                              /\ uc = OutEnd(k) - MemberOutAt(k)

\* What SerialFile knows of the blocks behind it.
SerialClean ==
    /\ pc = "block" => AtStart(input, pos)
    /\ pc \in {"emit", "flush", "trailer"} => AtEnd(input, pos)
    /\ pc \in {"block", "emit"} => crcFed = <<>> \/ Len(out) >= Window

\* What SerialPipe knows of the blocks behind it and of the end of the pipe.
PipeClean ==
    /\ pc = "block" => AtStart(input, 8 * base + bitOff)
    /\ pc = "emit" => AtEnd(input, 8 * base + bitOff)
    /\ pc \in {"align", "trailer"} => /\ AtTrailer(input, BytesOfBits(8 * base + bitOff))
                                      /\ FoldedAt(crcFed, memberUc, BytesOfBits(8 * base + bitOff))
    /\ pc \in {"member", "header", "peek"} => AtHeader(input, base)
    /\ srcEof => filled = input.len
    /\ pc = "header" => base < filled
    /\ pc = "member" /\ status = "running" /\ base = filled => filled = input.len
    /\ pc = "peek" => member # 0
    /\ pc \in {"prime", "member", "header"} /\ member = 0 => base = 0

\* A slice of the batch is a BGZF member that the input holds.
SliceIn(i, x) == \E k \in i.bgzf : /\ x.at = HdrAt(k) /\ x.limit = MemberLimit(LastBlock(k))
                                   /\ x.limit <= i.len

\* The BGZF member at byte x reaches past the end of the input.
CutAt(i, x) == \E k \in i.bgzf : x = HdrAt(k) /\ x < i.len /\ MemberLimit(LastBlock(k)) > i.len

\* What BgzfChain knows: the members before the batch are sound, those of the
\* batch are in the input, and the walk stopped for a reason.
BgzfClean ==
    /\ input.len > 0 /\ 0 \in input.bgzf /\ setup.source = "file"
    /\ AtHeader(input, IF cur = <<>> THEN pos \div 8 ELSE Head(cur).at)
    /\ \A j \in 1 .. Len(cur) : SliceIn(input, cur[j])
    /\ walk = "truncated" => CutAt(input, pos \div 8)
    /\ pc = "walk" => walk = "on"
    /\ pc = "header" => pos \div 8 < input.len

\* End x of a chunk whose output starts at p is that of the member from
\* boundary b to boundary e.
EndHere(x, b, e, p) ==
    /\ b \in Blocks /\ e = LastBlock(b) + 1
    /\ p + x.offset = OutAt(e) /\ x.trailer = TrailerAt(LastBlock(b))

\* The members that end in a chunk whose output starts at p, between the
\* boundaries bs.
PendingAt(es, bs, p) ==
    /\ bs \in [0 .. Len(es) -> Boundaries]
    /\ \A j \in 1 .. Len(es) : EndHere(es[j], bs[j - 1], bs[j], p)
    /\ \A i, j \in 0 .. Len(es) : i <= j => bs[i] <= bs[j]

\* ChunkChain has decoded up to the output o, in the member that starts at
\* boundary f or, at the end, before it.
ChunkFrontier(f, o) ==
    \/ /\ pc \in {"chunk", "output"} /\ final
       /\ f # 0 /\ pos = 8 * HdrAt(f) /\ HdrAt(f) = input.len /\ o = OutAt(f) /\ DecodedTo(input, f)
    \/ /\ pc \in {"chunk", "top", "block", "library", "output"} /\ ~final
       /\ \E k \in Blocks : /\ pos = BlockStart[k] /\ o = OutStart[k] /\ MemberStart(k) = f
                            /\ DecodedTo(input, k) /\ Opened(input, k)
                            /\ pc = "library" \/ (pc = "top" /\ ~first) => k = f
    \/ /\ pc = "trailer" /\ ~final
       /\ \E k \in MemberEnds : /\ BytesOfBits(pos) = TrailerAt(k) /\ o = OutEnd(k) /\ MemberStart(k) = f
                                /\ DecodedTo(input, k) /\ DecodesIn(input, k) /\ Opened(input, k)

\* The tail of the output before p is the window of a decoder in the member
\* whose output starts at a.
TailAt(t, a, p) == \E q \in 0 .. p : t = Bytes(q, p) /\ (q <= a \/ p - q >= Window)

\* The chunk whose output starts at p: which members end in it, what is known
\* of the blocks before its first and behind its last byte.
ChunkCleanAt(bs, p) ==
    /\ PendingAt(ends, bs, p)
    /\ OutAt(bs[0]) + memberUc = p + folded
    /\ TailAt(tail, OutAt(bs[0]), p)
    /\ CleanTo(input, bs[0])
    /\ ChunkFrontier(bs[Len(ends)], p + Len(out))
    /\ pc \in {"top", "block", "library", "trailer"} => (first <=> ends = <<>>)
    /\ pc = "library" => ~first

\* What ChunkChain knows of its chunk.
ChunkClean == setup.threads # 1 /\ input.len > 0 /\ \E bs \in Batches, p \in Nat : ChunkCleanAt(bs, p)

\* Whichever decoder runs: what it knows of the input, and that nothing it
\* sent comes after damage.
CleanInv ==
    /\ delivered \in Seq(Nat)
    /\ path = "open" => walk = "on"
    /\ path = "plain" => input.len > 0
    /\ path = "pipe" => PipeClean
    /\ path = "serial" => SerialClean
    /\ path = "bgzf" => BgzfClean
    /\ path = "chunks" => ChunkClean
    /\ path # "chunks" => tail = <<>>

-----------------------------------------------------------------------------
(* How a decoder gets on. *)

\* An input in numbers; which faults a block may have.
LEMMA InputFacts ==
    ASSUME NEW i \in Inputs, NEW k \in Blocks
    PROVE  /\ i.len \in Nat /\ i.fault[k] \in {"header", "deflate", "crc", "isize", "none"}
           /\ i.fault[k] = "header" => k \in FirstBlocks /\ MemberStart(k) = k
           /\ i.fault[k] \in {"crc", "isize"} => k \in MemberEnds
<1>1. /\ i.fault \in [Blocks -> FaultKind \cup {"none"}]
      /\ i.fault[k] = "header" => k \in FirstBlocks
      /\ i.fault[k] \in {"crc", "isize"} => k \in MemberEnds
  BY GzipInputAssumption
<1>2. i.fault[k] \in {"header", "deflate", "crc", "isize", "none"}
  BY <1>1 DEF FaultKind
<1>3. i.len \in Nat
  BY InputLength
<1>4. k \in FirstBlocks => MemberStart(k) = k
  BY Members
<1> QED BY <1>1, <1>2, <1>3, <1>4

\* A block decodes.
LEMMA BlockPasses ==
    ASSUME NEW i \in Inputs, NEW k \in Blocks, AtBlock(i, k), i.fault[k] # "deflate",
           BlockEnd(k) <= 8 * i.len
    PROVE  AfterBlock(i, k)
<1>1. i.fault[k] # "header"
  BY InputFacts DEF AtBlock, Opened
<1> QED BY <1>1 DEF AfterBlock, DecodesIn

\* A block inside a member that decodes is sound.
LEMMA InnerSound ==
    ASSUME NEW i \in Inputs, NEW k \in Blocks, k \notin MemberEnds, DecodesIn(i, k)
    PROVE  SoundIn(i, k)
  BY InputFacts DEF DecodesIn, SoundIn, TrailerIn

\* On to the next block of the member.
LEMMA OnToNext ==
    ASSUME NEW i \in Inputs, NEW k \in Blocks, k \notin MemberEnds, AfterBlock(i, k)
    PROVE  k + 1 \in Blocks /\ AtBlock(i, k + 1)
<1>1. SoundIn(i, k)
  BY InnerSound DEF AfterBlock
<1>2. k + 1 \in Blocks /\ Blocks \subseteq Nat
  BY Constants
<1>3. MemberStart(k + 1) = MemberStart(k)
  BY Members
<1>4. \A j \in Blocks : j < k + 1 => j < k \/ j = k
  BY <1>2
<1> QED BY <1>1, <1>2, <1>3, <1>4 DEF AfterBlock, AtBlock, CleanTo, Opened

\* The trailer agrees.
LEMMA TrailerPasses ==
    ASSUME NEW i \in Inputs, NEW k \in MemberEnds, AfterBlock(i, k), i.fault[k] \notin {"crc", "isize"},
           MemberLimit(k) <= i.len
    PROVE  CleanTo(i, k + 1)
<1>1. k \in Blocks /\ Blocks \subseteq Nat
  BY Constants
<1>2. SoundIn(i, k)
  BY <1>1, InputFacts DEF AfterBlock, DecodesIn, SoundIn, TrailerIn
<1>3. \A j \in Blocks : j < k + 1 => j < k \/ j = k
  BY <1>1
<1> QED BY <1>2, <1>3 DEF AfterBlock, AtBlock, CleanTo

\* A header is passed.
LEMMA HeaderPasses ==
    ASSUME NEW i, NEW b \in Boundaries, b \in Blocks, CleanTo(i, b), i.fault[b] # "header",
           HdrAt(b) < i.len
    PROVE  AtBlock(i, b)
  BY BoundaryStarts DEF AtBlock, Opened

\* A bit is the end of at most one block.
LEMMA OneEndHere ==
    ASSUME NEW j \in Blocks, NEW k \in Blocks, BlockEnd(j) = BlockEnd(k)
    PROVE  j = k
<1>1. CASE j < k
  <2>1. BlockEnd(j) <= BlockStart[k] /\ BlockEnd(k) > BlockStart[k]
    BY <1>1, Order, Positions DEF Follows
  <2> QED BY <2>1, Positions
<1>2. CASE k < j
  <2>1. BlockEnd(k) <= BlockStart[j] /\ BlockEnd(j) > BlockStart[j]
    BY <1>2, Order, Positions DEF Follows
  <2> QED BY <2>1, Positions
<1> QED BY <1>1, <1>2, Positions

\* A member ends before the next one does.
LEMMA LimitsAscend ==
    ASSUME NEW j \in MemberEnds, NEW k \in Blocks, j < k
    PROVE  MemberLimit(j) < TrailerAt(k) /\ MemberLimit(j) < MemberLimit(k)
<1>1. j \in Blocks
  BY Constants
<1>2. 8 * (MemberLimit(j) + HeaderLen) <= BlockStart[k]
  BY <1>1, Order DEF Follows
<1>3. /\ BlockStart[k] \in Nat /\ BlockEnd(k) \in Nat /\ BlockEnd(k) > BlockStart[k] /\ TrailerAt(k) \in Nat
      /\ 8 * TrailerAt(k) >= BlockEnd(k) /\ MemberLimit(k) = TrailerAt(k) + 8
  BY Positions
<1>4. TrailerAt(j) \in Nat /\ MemberLimit(j) = TrailerAt(j) + 8 /\ HeaderLen \in Nat
  BY <1>1, Positions, Constants
<1> QED BY <1>2, <1>3, <1>4

\* A byte is the trailer of at most one member.
LEMMA OneTrailerHere ==
    ASSUME NEW j \in MemberEnds, NEW k \in MemberEnds, TrailerAt(j) = TrailerAt(k)
    PROVE  j = k
<1>1. j \in Blocks /\ k \in Blocks /\ Blocks \subseteq Nat
  BY Constants
<1>2. TrailerAt(j) \in Nat /\ MemberLimit(j) = TrailerAt(j) + 8 /\ MemberLimit(k) = TrailerAt(k) + 8
  BY <1>1, Positions
<1>3. ~(j < k)
  BY <1>1, <1>2, LimitsAscend
<1>4. ~(k < j)
  BY <1>1, <1>2, LimitsAscend
<1> QED BY <1>1, <1>3, <1>4

\* A byte is at most one boundary.
LEMMA OneBoundaryHere ==
    ASSUME NEW a \in Boundaries, NEW b \in Boundaries, HdrAt(a) = HdrAt(b)
    PROVE  a = b
<1>0. a \in Nat /\ b \in Nat
  BY BoundaryNumbers
<1>1. ASSUME NEW x \in Boundaries, NEW y \in Boundaries, x \in Nat, y \in Nat, HdrAt(x) = HdrAt(y), x < y
      PROVE  FALSE
  <2>1. PICK l : l = y - 1 /\ l \in MemberEnds /\ l \in Blocks /\ HdrAt(y) = MemberLimit(l)
    BY <1>1, Constants DEF Boundaries, HdrAt
  <2>2. TrailerAt(l) \in Nat /\ MemberLimit(l) = TrailerAt(l) + 8
    BY <2>1, Positions
  <2>3. CASE x = 0
    <3>1. HdrAt(x) = 0
      BY <2>3 DEF HdrAt
    <3> QED BY <1>1, <2>1, <2>2, <3>1
  <2>4. CASE x # 0
    <3>1. PICK j : j = x - 1 /\ j \in MemberEnds /\ j < l /\ HdrAt(x) = MemberLimit(j)
      BY <1>1, <2>1, <2>4 DEF Boundaries, HdrAt
    <3>2. MemberLimit(j) < MemberLimit(l)
      BY <2>1, <3>1, LimitsAscend
    <3> QED BY <1>1, <2>1, <2>2, <3>1, <3>2
  <2> QED BY <2>3, <2>4
<1>2. ~(a < b) /\ ~(b < a)
  BY <1>0, <1>1
<1> QED BY <1>0, <1>2

\* What holds at the block, end, trailer or boundary here holds at the position.
LEMMA AtPositions ==
    /\ \A i : \A k \in Blocks : AtBlock(i, k) => AtStart(i, BlockStart[k])
    /\ \A i : \A k \in Blocks : AfterBlock(i, k) => AtEnd(i, BlockEnd(k))
    /\ \A i : \A k \in MemberEnds : AfterBlock(i, k) => AtTrailer(i, TrailerAt(k))
    /\ \A i : \A b \in Boundaries : CleanTo(i, b) => AtHeader(i, HdrAt(b))
<1>1. \A i : \A k \in Blocks : AtBlock(i, k) => AtStart(i, BlockStart[k])
  BY OneBlockHere DEF AtStart
<1>2. \A i : \A k \in Blocks : AfterBlock(i, k) => AtEnd(i, BlockEnd(k))
  BY OneEndHere DEF AtEnd
<1>3. \A i : \A k \in MemberEnds : AfterBlock(i, k) => AtTrailer(i, TrailerAt(k))
  BY OneTrailerHere DEF AtTrailer
<1>4. \A i : \A b \in Boundaries : CleanTo(i, b) => AtHeader(i, HdrAt(b))
  BY OneBoundaryHere DEF AtHeader
<1> QED BY <1>1, <1>2, <1>3, <1>4

-----------------------------------------------------------------------------
(* What a decoder reports. *)

\* At least one byte of the member of block k is there.
PresentIn(i, k) == HeaderAt(MemberStart(k)) < i.len

\* Block k, or the trailer after it, is cut off.
CutOff(i, k) == IF k \in MemberEnds THEN MemberLimit(k) > i.len ELSE BlockEnd(k) > 8 * i.len

\* What block k may be reported as.
CausesIn(i, su, k) ==
    ({i.fault[k]} \ {"none"}) \cup
    (IF \/ CutOff(i, k) \/ i.fault[k] = "deflate"
        \/ su.backend /\ MemberStart(k) \in i.bgzf
     THEN {"truncated", "deflate"} ELSE {})

\* The first damage from block k on is in the member of k, and is reported as s.
Blame(i, su, k, s) ==
    \E j \in Blocks :
       /\ k <= j /\ PresentIn(i, j) /\ ~SoundIn(i, j) /\ s \in CausesIn(i, su, j)
       /\ MemberStart(j) = MemberStart(k)
       /\ \A n \in Blocks : k <= n /\ n < j => SoundIn(i, n)

\* The blocks up to the end of a member are of that member.
LEMMA SameMember ==
    ASSUME NEW k \in Blocks, NEW j \in Blocks, k <= j, j <= LastBlock(k)
    PROVE  MemberStart(j) = MemberStart(k) /\ (j # LastBlock(k) => j \notin MemberEnds)
<1>1. /\ LastBlock(k) \in MemberEnds /\ LastBlock(k) \in Blocks
      /\ \A e \in MemberEnds : e >= k => LastBlock(k) <= e
      /\ MemberStart(LastBlock(k)) = MemberStart(k)
  BY LastBlocks
<1>2. /\ LastBlock(j) \in MemberEnds /\ LastBlock(j) \in Blocks /\ j <= LastBlock(j)
      /\ \A e \in MemberEnds : e >= j => LastBlock(j) <= e
      /\ MemberStart(LastBlock(j)) = MemberStart(j)
  BY LastBlocks
<1>3. Blocks \subseteq Nat
  BY Constants
<1>4. PICK l \in Nat, h \in Nat : l = LastBlock(k) /\ h = LastBlock(j)
  BY <1>1, <1>2, <1>3
<1>5. l <= h /\ h <= l
  BY <1>1, <1>2, <1>3, <1>4
<1>6. l = h
  BY <1>5
<1>7. j # l => j \notin MemberEnds
  BY <1>1, <1>3, <1>4
<1> QED BY <1>1, <1>2, <1>4, <1>6, <1>7

\* The trailer is enough look-ahead for every block of the member.
LEMMA NeedsWithin ==
    ASSUME NEW k \in Blocks
    PROVE  NeedsBits(k) <= 8 * MemberLimit(LastBlock(k))
<1>1. PICK l \in Blocks : l = LastBlock(k) /\ k <= l
  BY LastBlocks
<1>2. /\ BlockEnd(k) \in Nat /\ BlockEnd(l) \in Nat /\ BlockStart[l] \in Nat /\ BlockEnd(l) > BlockStart[l]
      /\ TrailerAt(l) \in Nat /\ 8 * TrailerAt(l) >= BlockEnd(l) /\ MemberLimit(l) = TrailerAt(l) + 8
  BY Positions
<1>3. NeedsBits(k) <= BlockEnd(k) + 47
  BY <1>2, EobLengths DEF NeedsBits, NEEDED
<1>4. BlockEnd(k) <= BlockEnd(l)
  <2>1. CASE k = l
    BY <1>2, <2>1
  <2>2. CASE k # l
    <3>1. k < l
      BY <1>1, <2>2, Constants
    <3>2. BlockEnd(k) <= BlockStart[l]
      BY <3>1, Order DEF Follows
    <3> QED BY <1>2, <3>2
  <2> QED BY <2>1, <2>2
<1>5. NeedsBits(k) \in Nat
  BY Positions
<1> QED BY <1>1, <1>2, <1>3, <1>4, <1>5

\* A member whose header was parsed is present.
LEMMA OpenedPresent ==
    ASSUME NEW i, NEW k \in Blocks, Opened(i, k)
    PROVE  PresentIn(i, k)
<1>1. MemberStart(k) \in FirstBlocks
  BY Members
<1>2. MemberStart(k) \in Boundaries /\ MemberStart(k) \in Blocks
  BY <1>1, FirstIsBoundary
<1>3. HeaderAt(MemberStart(k)) = HdrAt(MemberStart(k))
  BY <1>2, BoundaryStarts
<1> QED BY <1>3 DEF Opened, PresentIn

\* Damage at block k itself.
LEMMA BlameHere ==
    ASSUME NEW i, NEW su, NEW k \in Blocks, PresentIn(i, k), ~SoundIn(i, k), NEW s \in CausesIn(i, su, k)
    PROVE  Blame(i, su, k, s)
<1>1. k \in Nat /\ k <= k /\ \A n \in Blocks : ~(k <= n /\ n < k)
  BY Constants
<1> QED BY <1>1 DEF Blame

\* A block that is damaged, or for which there is too little input.
LEMMA BlockBlamed ==
    ASSUME NEW i \in Inputs, NEW su, NEW k \in Blocks, Opened(i, k),
           i.fault[k] = "deflate" \/ NeedsBits(k) > 8 * i.len, NEW s \in {"truncated", "deflate"}
    PROVE  Blame(i, su, k, s)
<1>0. PresentIn(i, k) /\ i.len \in Nat
  BY OpenedPresent, InputFacts
<1>1. CASE i.fault[k] = "deflate"
  <2>1. ~SoundIn(i, k) /\ s \in CausesIn(i, su, k)
    BY <1>1 DEF SoundIn, CausesIn
  <2> QED BY <1>0, <2>1, BlameHere
<1>2. CASE NeedsBits(k) > 8 * i.len
  <2> DEFINE T == {n \in Blocks : k <= n /\ ~SoundIn(i, n)}
  <2>1. PICK l \in Blocks : l = LastBlock(k) /\ k <= l /\ l \in MemberEnds
    BY LastBlocks
  <2>2. MemberLimit(l) > i.len
    <3>1. NeedsBits(k) <= 8 * MemberLimit(l) /\ NeedsBits(k) \in Nat
      BY <2>1, NeedsWithin, Positions
    <3>2. TrailerAt(l) \in Nat /\ MemberLimit(l) = TrailerAt(l) + 8
      BY Positions
    <3> QED BY <1>0, <1>2, <3>1, <3>2
  <2>3. l \in T
    <3>1. ~(MemberLimit(l) <= i.len)
      <4>1. TrailerAt(l) \in Nat /\ MemberLimit(l) = TrailerAt(l) + 8
        BY Positions
      <4> QED BY <1>0, <2>2, <4>1
    <3> QED BY <2>1, <3>1 DEF SoundIn, TrailerIn
  <2>4. T \subseteq Nat /\ Blocks \subseteq Nat
    BY Constants
  <2>5. PICK j : j \in T /\ \A n \in T : j <= n
    <3> HIDE DEF T
    <3> QED BY <2>3, <2>4, MinProperty
  <2>6. /\ j \in Blocks /\ k <= j /\ ~SoundIn(i, j) /\ j <= l
        /\ \A n \in Blocks : k <= n /\ n < j => SoundIn(i, n)
    BY <2>3, <2>4, <2>5
  <2>7. MemberStart(j) = MemberStart(k) /\ (j # l => j \notin MemberEnds)
    BY <2>1, <2>6, SameMember
  <2>8. PresentIn(i, j)
    BY <1>0, <2>7 DEF PresentIn
  <2>9. CutOff(i, j) \/ i.fault[j] = "deflate"
    <3>1. CASE j = l
      BY <2>1, <2>2, <3>1 DEF CutOff
    <3>2. CASE j # l
      <4>1. j \notin MemberEnds
        BY <2>7, <3>2
      <4>2. CASE ~(BlockEnd(j) <= 8 * i.len)
        <5>1. BlockEnd(j) \in Nat
          BY <2>6, Positions
        <5>2. BlockEnd(j) > 8 * i.len
          BY <1>0, <4>2, <5>1
        <5> QED BY <4>1, <5>2 DEF CutOff
      <4>3. CASE BlockEnd(j) <= 8 * i.len
        <5>1. i.fault[j] # "none"
          BY <2>6, <4>1, <4>3 DEF SoundIn, TrailerIn
        <5>2. i.fault[j] # "header"
          BY <2>6, <2>7, InputFacts DEF Opened
        <5>3. i.fault[j] \notin {"crc", "isize"}
          BY <2>6, <4>1, InputFacts
        <5> QED BY <2>6, <5>1, <5>2, <5>3, InputFacts
      <4> QED BY <4>2, <4>3
    <3> QED BY <3>1, <3>2
  <2>10. s \in CausesIn(i, su, j)
    BY <2>9 DEF CausesIn
  <2> QED BY <2>6, <2>7, <2>8, <2>10 DEF Blame
<1> QED BY <1>1, <1>2

\* A trailer that is cut off, or that disagrees.
LEMMA TrailerBlamed ==
    ASSUME NEW i \in Inputs, NEW su, NEW k \in MemberEnds, Opened(i, k), NEW s,
           \/ MemberLimit(k) > i.len /\ s = "truncated"
           \/ i.fault[k] = s /\ s \in {"crc", "isize"}
    PROVE  Blame(i, su, k, s)
<1>0. k \in Blocks
  BY Constants
<1>1. PresentIn(i, k) /\ i.len \in Nat
  BY <1>0, OpenedPresent, InputFacts
<1>2. s \in CausesIn(i, su, k)
  BY DEF CausesIn, CutOff
<1>3. ~SoundIn(i, k)
  <2>1. TrailerAt(k) \in Nat /\ MemberLimit(k) = TrailerAt(k) + 8
    BY <1>0, Positions
  <2> QED BY <1>1, <2>1 DEF SoundIn, TrailerIn
<1> QED BY <1>0, <1>1, <1>2, <1>3, BlameHere

\* A header that is cut off or damaged.
LEMMA HeaderBlamed ==
    ASSUME NEW i \in Inputs, NEW su, NEW b \in Boundaries, b \in Blocks, HdrAt(b) < i.len, NEW s,
           \/ i.len - HdrAt(b) < HeaderLen /\ s = "truncated"
           \/ i.fault[b] = "header" /\ s = "header"
    PROVE  Blame(i, su, b, s)
<1>1. HeaderAt(b) = HdrAt(b) /\ BlockStart[b] = 8 * (HdrAt(b) + HeaderLen) /\ MemberStart(b) = b
  BY BoundaryStarts
<1>2. PresentIn(i, b)
  BY <1>1 DEF PresentIn
<1>3. CASE i.fault[b] = "header" /\ s = "header"
  <2>1. s \in CausesIn(i, su, b) /\ ~SoundIn(i, b)
    BY <1>3 DEF CausesIn, SoundIn
  <2> QED BY <1>2, <2>1, BlameHere
<1>4. CASE i.len - HdrAt(b) < HeaderLen /\ s = "truncated"
  <2>1. i.len \in Nat /\ HdrAt(b) \in Nat /\ HeaderLen \in Nat
    BY InputFacts, BoundaryNumbers, Constants
  <2>2. /\ BlockEnd(b) \in Nat /\ BlockEnd(b) > BlockStart[b] /\ TrailerAt(b) \in Nat
        /\ 8 * TrailerAt(b) >= BlockEnd(b) /\ MemberLimit(b) = TrailerAt(b) + 8
    BY Positions
  <2>3. BlockEnd(b) > 8 * i.len /\ MemberLimit(b) > i.len
    BY <1>1, <1>4, <2>1, <2>2
  <2>4. CutOff(i, b)
    BY <2>3 DEF CutOff
  <2>5. s \in CausesIn(i, su, b)
    BY <1>4, <2>4 DEF CausesIn
  <2>6. ~SoundIn(i, b)
    BY <2>1, <2>2, <2>3 DEF SoundIn
  <2> QED BY <1>2, <2>5, <2>6, BlameHere
<1> QED BY <1>3, <1>4

-----------------------------------------------------------------------------
(* The steps of the promise. *)

\* The layout as the promise sees it.
LEMMA PromiseLayout ==
    /\ Promise!Blocks = Blocks /\ Promise!Eof = Eof /\ Promise!Invalid = Invalid
    /\ Promise!TrailerLen = TrailerLen
    /\ \A n : Promise!BytesOfBits(n) = BytesOfBits(n)
    /\ Promise!BlockStart = BlockStart /\ Promise!OutStart = OutStart
    /\ \A k : Promise!BlockEnd(k) = BlockEnd(k) /\ Promise!OutEnd(k) = OutEnd(k)
    /\ \A k : Promise!TrailerAt(k) = TrailerAt(k) /\ Promise!MemberLimit(k) = MemberLimit(k)
    /\ \A k : Promise!MemberStart(k) = MemberStart(k) /\ Promise!LastBlock(k) = LastBlock(k)
    /\ \A k : Promise!HeaderAt(k) = HeaderAt(k)
    /\ Promise!FirstBlocks = FirstBlocks
    /\ \A a, b : Promise!Bytes(a, b) = Bytes(a, b)
<1>1. Promise!Blocks = Blocks /\ Promise!Eof = Eof /\ Promise!Invalid = Invalid /\ Promise!TrailerLen = TrailerLen
  BY DEF Promise!Blocks, Blocks, Promise!Eof, Eof, Promise!Invalid, Invalid, Promise!TrailerLen, TrailerLen
<1>2. \A n : Promise!BytesOfBits(n) = BytesOfBits(n)
  BY Zenon DEF Promise!BytesOfBits, BytesOfBits
<1>3. Promise!BlockStart = BlockStart
  BY Zenon DEF Promise!BlockStart, BlockStart, Promise!Blocks, Blocks, Promise!TrailerLen, TrailerLen, Promise!BytesOfBits, BytesOfBits
<1>4. Promise!OutStart = OutStart
  BY Zenon DEF Promise!OutStart, OutStart, Promise!Blocks, Blocks
<1>5. \A k : Promise!BlockEnd(k) = BlockEnd(k) /\ Promise!OutEnd(k) = OutEnd(k)
  BY <1>3, <1>4, Zenon DEF Promise!BlockEnd, BlockEnd, Promise!OutEnd, OutEnd
<1>6. \A k : Promise!TrailerAt(k) = TrailerAt(k) /\ Promise!MemberLimit(k) = MemberLimit(k)
  BY <1>1, <1>2, <1>5, Zenon DEF Promise!TrailerAt, TrailerAt, Promise!MemberLimit, MemberLimit
<1>7. \A k : Promise!MemberStart(k) = MemberStart(k) /\ Promise!LastBlock(k) = LastBlock(k)
  BY Zenon DEF Promise!MemberStart, MemberStart, Promise!LastBlock, LastBlock, Promise!Min, Min
<1>8. \A k : Promise!HeaderAt(k) = HeaderAt(k)
  BY <1>3, Zenon DEF Promise!HeaderAt, HeaderAt
<1>9. Promise!FirstBlocks = FirstBlocks
  BY <1>1, Zenon DEF Promise!FirstBlocks, FirstBlocks, Promise!MemberStart, MemberStart
<1>10. \A a, b : Promise!Bytes(a, b) = Bytes(a, b)
  BY Zenon DEF Promise!Bytes, Bytes
<1> QED BY <1>1, <1>2, <1>3, <1>4, <1>5, <1>6, <1>7, <1>8, <1>9, <1>10


\* What the promise says of the input.
LEMMA PromiseWords ==
    /\ \A k : Promise!Decodes(k) <=> DecodesIn(input, k)
    /\ \A k : Promise!Sound(k) <=> SoundIn(input, k)
    /\ \A k : k \in Promise!Present <=> k \in Blocks /\ PresentIn(input, k)
    /\ \A k : k \in Promise!Damaged <=> k \in Blocks /\ PresentIn(input, k) /\ ~SoundIn(input, k)
    /\ \A k : Promise!Causes(k) = CausesIn(input, setup, k)
    /\ \A S : Promise!Min(S) = Min(S) /\ Promise!Max(S) = Max(S)
<1> USE PromiseLayout
<1>1. \A k : Promise!Decodes(k) <=> DecodesIn(input, k)
  BY Zenon DEF Promise!Decodes, DecodesIn
<1>2. \A k : Promise!Sound(k) <=> SoundIn(input, k)
  BY Zenon DEF Promise!Sound, SoundIn, TrailerIn
<1>3. \A k : k \in Promise!Present <=> k \in Blocks /\ PresentIn(input, k)
  BY Zenon DEF Promise!Present, PresentIn
<1>4. \A k : k \in Promise!Damaged <=> k \in Blocks /\ PresentIn(input, k) /\ ~SoundIn(input, k)
  BY <1>2, <1>3, Zenon DEF Promise!Damaged
<1>5. \A k : Promise!Causes(k) = CausesIn(input, setup, k)
  BY Zenon DEF Promise!Causes, CausesIn, CutOff
<1>6. \A S : Promise!Min(S) = Min(S) /\ Promise!Max(S) = Max(S)
  BY Zenon DEF Promise!Min, Min, Promise!Max, Max
<1> QED BY <1>1, <1>2, <1>3, <1>4, <1>5, <1>6

\* Only the status changes for the consumer.
Returns(s) == Running /\ status' = s /\ UNCHANGED <<input, setup, delivered, sinkOpen>>

\* A block that is there is in a member of which something is there.
LEMMA EndPresent ==
    ASSUME NEW i \in Inputs, NEW k \in Blocks, BlockEnd(k) <= 8 * i.len
    PROVE  PresentIn(i, k)
<1>1. MemberStart(k) \in FirstBlocks /\ MemberStart(k) <= k
  BY Members
<1>2. PICK s \in Boundaries : s = MemberStart(k) /\ s \in Blocks /\ s <= k
  BY <1>1, FirstIsBoundary
<1>3. HeaderAt(s) = HdrAt(s) /\ BlockStart[s] = 8 * (HdrAt(s) + HeaderLen) /\ HdrAt(s) \in Nat
  BY <1>2, BoundaryStarts, BoundaryNumbers
<1>4. BlockStart[k] < BlockEnd(k) /\ BlockStart[k] \in Nat /\ BlockEnd(k) \in Nat
  BY Positions
<1>5. BlockStart[s] <= BlockStart[k]
  <2>1. CASE s = k
    BY <1>4, <2>1
  <2>2. CASE s # k
    <3>1. s < k
      BY <1>2, <2>2, Constants
    <3>2. BlockEnd(s) <= BlockStart[k] /\ BlockStart[s] < BlockEnd(s) /\ BlockEnd(s) \in Nat /\ BlockStart[s] \in Nat
      BY <1>2, <3>1, Order, Positions DEF Follows
    <3> QED BY <1>4, <3>2
  <2> QED BY <2>1, <2>2
<1>6. i.len \in Nat /\ HeaderLen \in Nat /\ HeaderLen >= 10
  BY InputFacts, Constants
<1>7. HdrAt(s) < i.len
  BY <1>3, <1>4, <1>5, <1>6
<1> QED BY <1>2, <1>3, <1>7 DEF PresentIn

\* An error is that of the first damage, and the members before it were sent.
LEMMA FailStep ==
    ASSUME NEW k \in Blocks, NEW s, CleanTo(input, k), Blame(input, setup, k, s),
           sinkOpen => Len(delivered) >= MemberOutAt(k), Returns(s)
    PROVE  Promise!Fail
<1>1. PICK j \in Blocks : /\ k <= j /\ PresentIn(input, j) /\ ~SoundIn(input, j)
                          /\ s \in CausesIn(input, setup, j) /\ MemberStart(j) = MemberStart(k)
                          /\ \A n \in Blocks : k <= n /\ n < j => SoundIn(input, n)
  BY DEF Blame
<1>2. PICK T : T = Promise!Damaged
  OBVIOUS
<1>3. j \in T /\ T \subseteq Blocks /\ Blocks \subseteq Nat
  BY <1>1, <1>2, PromiseWords, Constants
<1>4. \A n \in T : n \in Blocks /\ ~SoundIn(input, n)
  BY <1>2, PromiseWords
<1>5. Min(T) \in T /\ \A n \in T : Min(T) <= n
  <2>1. T \subseteq Nat /\ T # {}
    BY <1>3
  <2> QED BY ONLY <2>1, MinProperty
<1>6. Min(T) = j
  <2>1. ASSUME NEW n \in T PROVE ~(n < j)
    <3>1. CASE n < k
      BY <1>4, <3>1 DEF CleanTo
    <3>2. CASE ~(n < k)
      <4>1. k <= n
        BY <1>3, <3>2
      <4> QED BY <1>1, <1>4, <4>1
    <3> QED BY <3>1, <3>2
  <2>2. PICK x : x = Min(T) /\ x \in T /\ x <= j
    BY <1>3, <1>5
  <2>3. ~(x < j) /\ x \in Nat /\ j \in Nat
    BY <1>3, <2>1, <2>2
  <2> QED BY <2>2, <2>3
<1>7. Promise!Min(Promise!Damaged) = j
  BY <1>2, <1>6, PromiseWords
<1>8. Promise!OutStart[Promise!MemberStart(j)] = MemberOutAt(k)
  BY <1>1, PromiseLayout DEF MemberOutAt
<1>9. /\ status = "running" /\ status' = s /\ UNCHANGED <<input, setup, delivered, sinkOpen>>
      /\ j \in Promise!Damaged /\ s \in Promise!Causes(j)
  BY <1>1, <1>2, <1>3, PromiseWords DEF Returns, Running
<1> QED BY <1>7, <1>8, <1>9, Zenon DEF Promise!Fail

\* With more threads, or after BGZF members, an error is that of some damage.
LEMMA FailSomewhere ==
    ASSUME NEW k, NEW s, Blame(input, setup, k, s), ~Promise!Serial, Returns(s)
    PROVE  Promise!Fail
<1>1. PICK j \in Blocks : /\ PresentIn(input, j) /\ ~SoundIn(input, j) /\ s \in CausesIn(input, setup, j)
  BY DEF Blame
<1>2. /\ status = "running" /\ status' = s /\ UNCHANGED <<input, setup, delivered, sinkOpen>>
      /\ j \in Promise!Damaged /\ s \in Promise!Causes(j)
  BY <1>1, PromiseWords DEF Returns, Running
<1> QED BY <1>2, Zenon DEF Promise!Fail

\* Output is sent up to d, after block k was decoded.
LEMMA DeliverStep ==
    ASSUME input \in Inputs, NEW k \in Blocks, CleanTo(input, k), DecodesIn(input, k), Running, sinkOpen,
           NEW c \in Nat, NEW d \in Nat, c <= d, d <= OutEnd(k),
           delivered = Bytes(0, c), delivered' = Bytes(0, d),
           UNCHANGED <<input, setup, sinkOpen, status>>
    PROVE  Promise!Deliver
<1>1. Len(delivered) = c
  <2>1. 0 \in Nat /\ 0 <= c
    OBVIOUS
  <2>2. Len(Bytes(0, c)) = c - 0
    BY <2>1, BytesType
  <2> QED BY <2>2
<1>2. PresentIn(input, k)
  BY EndPresent DEF DecodesIn
<1>3. k \in Promise!Present /\ Promise!Decodes(k)
  BY <1>2, PromiseWords
<1>4. \A j \in 0 .. k - 1 : Promise!Sound(j)
  <2>1. ASSUME NEW j \in 0 .. k - 1 PROVE j \in Blocks /\ j < k
    BY Constants
  <2> QED BY <2>1, PromiseWords DEF CleanTo
<1>5. d \in Len(delivered) .. Promise!OutEnd(k)
  <2>1. OutEnd(k) \in Nat /\ Promise!OutEnd(k) = OutEnd(k)
    BY Positions, PromiseLayout
  <2> QED BY <1>1, <2>1
<1>6. delivered' = Promise!Bytes(0, d)
  BY PromiseLayout
<1>7. status = "running"
  BY DEF Running
<1> QED BY <1>3, <1>4, <1>5, <1>6, <1>7, Zenon DEF Promise!Deliver

\* The blocks before and after a boundary.
LEMMA BoundaryPresent ==
    ASSUME input \in Inputs, NEW b \in Boundaries, HdrAt(b) = input.len, CleanTo(input, b), NEW k \in Blocks
    PROVE  PresentIn(input, k) <=> k < b
<1>1. b \in Nat /\ k \in Nat
  BY BoundaryNumbers, Constants
<1>2. CASE k < b
  BY <1>2, EndPresent DEF CleanTo, SoundIn
<1>3. CASE b <= k
  <2>1. PICK s \in Boundaries : s = MemberStart(k) /\ s \in Blocks /\ StartsMember(s, k)
    BY Members, FirstIsBoundary, MemberStarts
  <2>2. s \in Nat
    BY BoundaryNumbers
  <2>3. b <= s
    <3>1. ASSUME s < b PROVE FALSE
      <4>1. b - 1 \in MemberEnds /\ b - 1 \in s .. k - 1
        BY <1>1, <1>3, <2>2, <3>1 DEF Boundaries
      <4> QED BY <2>1, <4>1 DEF StartsMember
    <3> QED BY <1>1, <2>2, <3>1
  <2>4. HdrAt(b) <= HdrAt(s) /\ HdrAt(b) \in Nat /\ HdrAt(s) \in Nat
    <3>0. HdrAt(b) \in Nat /\ HdrAt(s) \in Nat
      BY BoundaryNumbers
    <3>1. CASE b = s
      BY <3>0, <3>1
    <3>2. CASE b = 0
      <4>1. HdrAt(b) = 0
        BY <3>2 DEF HdrAt
      <4> QED BY <3>0, <4>1
    <3>3. CASE b # s /\ b # 0
      <4>1. PICK j : j = b - 1 /\ j \in MemberEnds /\ HdrAt(b) = MemberLimit(j)
        BY <3>3 DEF Boundaries, HdrAt
      <4>2. PICK l : l = s - 1 /\ l \in MemberEnds /\ l \in Blocks /\ HdrAt(s) = MemberLimit(l) /\ j < l
        BY <1>1, <2>2, <2>3, <3>3, <4>1, Constants DEF Boundaries, HdrAt
      <4>3. MemberLimit(j) < MemberLimit(l)
        BY <4>1, <4>2, LimitsAscend
      <4> QED BY <3>0, <4>1, <4>2, <4>3
    <3> QED BY <3>1, <3>2, <3>3
  <2>5. ~(HeaderAt(s) < input.len)
    BY <2>1, <2>4, BoundaryStarts
  <2> QED BY <1>1, <1>3, <2>1, <2>5 DEF PresentIn
<1> QED BY <1>1, <1>2, <1>3

\* Ok, at the end of the input.
LEMMA SucceedStep ==
    ASSUME input \in Inputs, NEW b \in Boundaries, b # 0, HdrAt(b) = input.len, CleanTo(input, b),
           sinkOpen => delivered = Bytes(0, OutAt(b)), Returns("ok")
    PROVE  Promise!Succeed
<1>1. PICK z : z = b - 1 /\ z \in Blocks /\ z \in Nat /\ OutAt(b) = OutEnd(z) /\ b = z + 1 /\ z < b
  BY Constants DEF Boundaries, OutAt
<1>2. Blocks \subseteq Nat
  BY Constants
<1>3. PICK P : P = Promise!Present
  OBVIOUS
<1>4. \A k : k \in P <=> k \in Blocks /\ k < b
  BY <1>3, PromiseWords, BoundaryPresent
<1>5. Promise!Damaged = {}
  <2>1. ASSUME NEW k \in Promise!Damaged PROVE FALSE
    <3>1. k \in Blocks /\ PresentIn(input, k) /\ ~SoundIn(input, k)
      BY <2>1, PromiseWords
    <3>2. k < b
      BY <3>1, BoundaryPresent
    <3> QED BY <3>1, <3>2 DEF CleanTo
  <2> QED BY <2>1
<1>6. z \in P /\ P \subseteq 0 .. z
  <2>1. ASSUME NEW k \in P PROVE k \in 0 .. z
    <3>1. k \in Blocks /\ k < b
      BY <1>4
    <3>2. k \in Nat /\ k < z + 1
      BY <1>1, <1>2, <3>1
    <3> QED BY <1>1, <3>2
  <2>2. z \in P
    BY <1>1, <1>4
  <2> QED BY <2>1, <2>2
<1>7. Max(P) \in P /\ \A k \in P : Max(P) >= k
  <2>1. z \in Nat /\ P # {}
    BY <1>1, <1>6
  <2> QED BY <1>6, <2>1, MaxProperty
<1>8. Max(P) = z
  <2>1. PICK x : x = Max(P) /\ x \in 0 .. z /\ x >= z
    BY <1>6, <1>7
  <2> QED BY <1>1, <2>1
<1>9. Promise!Max(Promise!Present) = z /\ Promise!Present # {}
  BY <1>3, <1>6, <1>8, PromiseWords
<1>10. Promise!OutEnd(z) = OutAt(b) /\ Promise!Bytes(0, OutAt(b)) = Bytes(0, OutAt(b))
  BY <1>1, PromiseLayout
<1>11. status = "running" /\ status' = "ok" /\ UNCHANGED <<input, setup, delivered, sinkOpen>>
  BY DEF Returns, Running
<1> QED BY <1>5, <1>9, <1>10, <1>11, Zenon DEF Promise!Succeed

\* The step of the promise that a step of a decoder is.
Kept == [Promise!Next]_Promise!promiseVars

\* The other steps.
LEMMA KeptSteps ==
    /\ Promise!Fail \/ Promise!Deliver \/ Promise!Succeed => Kept
    /\ Returns("io") => Kept
    /\ ~sinkOpen /\ Returns("closed") => Kept
    /\ UNCHANGED <<input, setup, delivered, sinkOpen, status>> => Kept
<1>1. Promise!Fail \/ Promise!Deliver \/ Promise!Succeed => Kept
  BY Zenon DEF Kept, Promise!Next
<1>2. Returns("io") => Kept
  BY DEF Kept, Promise!Next, Promise!SourceFails, Returns, Running
<1>3. ~sinkOpen /\ Returns("closed") => Kept
  BY DEF Kept, Promise!Next, Promise!Stop, Returns, Running
<1>4. UNCHANGED <<input, setup, delivered, sinkOpen, status>> => Kept
  BY DEF Kept, Promise!promiseVars
<1> QED BY <1>1, <1>2, <1>3, <1>4

\* What a trailer says of a member that was folded in full.
LEMMA VerdictHere ==
    ASSUME NEW k \in MemberEnds, NEW crc, NEW uc, FoldedAt(crc, uc, TrailerAt(k))
    PROVE  /\ TrailerVerdict(TrailerAt(k), crc, uc) = "ok" => input.fault[k] \notin {"crc", "isize"}
           /\ TrailerVerdict(TrailerAt(k), crc, uc) # "ok" =>
                 /\ TrailerVerdict(TrailerAt(k), crc, uc) \in {"crc", "isize"}
                 /\ input.fault[k] = TrailerVerdict(TrailerAt(k), crc, uc)
<1>1. crc = Bytes(MemberOutAt(k), OutEnd(k)) /\ uc = OutEnd(k) - MemberOutAt(k)
  BY DEF FoldedAt
<1>2. \A j \in MemberEnds : TrailerAt(j) = TrailerAt(k) <=> j = k
  BY OneTrailerHere
<1> DEFINE here == {j \in MemberEnds : TrailerAt(j) = TrailerAt(k)}
<1>3. here = {k}
  BY <1>2
<1>4. TrailerVerdict(TrailerAt(k), crc, uc) =
         IF input.fault[k] = "crc" THEN "crc" ELSE IF input.fault[k] = "isize" THEN "isize" ELSE "ok"
  <2>1. (\A j \in here : input.fault[j] = "crc" \/ crc # Bytes(OutStart[MemberStart(j)], OutEnd(j)))
           <=> input.fault[k] = "crc"
    BY <1>1, <1>3 DEF MemberOutAt
  <2>2. (\A j \in here : \/ input.fault[j] = "isize"
                         \/ uc % IsizeModulus # (OutEnd(j) - OutStart[MemberStart(j)]) % IsizeModulus)
           <=> input.fault[k] = "isize"
    BY <1>1, <1>3 DEF MemberOutAt
  <2> QED BY <2>1, <2>2, Zenon DEF TrailerVerdict
<1> QED BY <1>4

\* What a header at a boundary is taken for.
LEMMA HeaderHere ==
    ASSUME input \in Inputs, NEW b \in Boundaries, NEW avail \in Nat, avail <= input.len, HdrAt(b) < avail
    PROVE  /\ b \in Blocks
           /\ ParseHeader(HdrAt(b), avail) = "ok" => input.fault[b] # "header"
           /\ ParseHeader(HdrAt(b), avail) = "truncated" => avail - HdrAt(b) < HeaderLen
           /\ ParseHeader(HdrAt(b), avail) = "header" => input.fault[b] = "header"
           /\ ParseHeader(HdrAt(b), avail) \in {"ok", "truncated", "header"}
<1>1. b \in Blocks
  <2>1. HdrAt(b) \in Nat /\ (b \notin Blocks => HdrAt(b) = MemberLimit(NumBlocks - 1))
    BY BoundaryNumbers
  <2>2. input.len \in Nat /\ input.len <= MemberLimit(NumBlocks - 1)
    BY InputLength
  <2> QED BY <2>1, <2>2
<1>2. b \in FirstBlocks /\ HeaderAt(b) = HdrAt(b) /\ HdrAt(b) \in Nat
  BY <1>1, BoundaryStarts, BoundaryNumbers
<1>3. \A k \in FirstBlocks : HeaderAt(k) = HdrAt(b) <=> k = b
  BY <1>1, <1>2, OneHeaderHere
<1> DEFINE here == {k \in FirstBlocks : HeaderAt(k) = HdrAt(b)}
<1>4. here = {b}
  BY <1>2, <1>3
<1>5. (\A k \in here : input.fault[k] = "header") <=> input.fault[b] = "header"
  BY <1>4
<1>6. ParseHeader(HdrAt(b), avail) =
         IF avail - HdrAt(b) < MinHeader THEN "truncated"
         ELSE IF input.fault[b] = "header" THEN "header"
         ELSE IF avail - HdrAt(b) < HeaderLen THEN "truncated"
         ELSE "ok"
  BY <1>5, Zenon DEF ParseHeader
<1>7. MinHeader = 10 /\ HeaderLen \in Nat /\ HeaderLen >= 10
  BY Constants DEF MinHeader
<1>8. ParseHeader(HdrAt(b), avail) \in {"ok", "truncated", "header"}
  BY <1>6
<1>9. /\ ParseHeader(HdrAt(b), avail) = "ok" => input.fault[b] # "header"
      /\ ParseHeader(HdrAt(b), avail) = "header" => input.fault[b] = "header"
  BY <1>6
<1>10. ParseHeader(HdrAt(b), avail) = "truncated" => avail - HdrAt(b) < HeaderLen
  <2>1. PICK n \in Int : n = avail - HdrAt(b)
    BY <1>2
  <2> QED BY <1>6, <1>7, <2>1
<1> QED BY <1>1, <1>8, <1>9, <1>10

\* A member of which the header at boundary b does not parse is damaged.
LEMMA HeaderRefused ==
    ASSUME input \in Inputs, NEW b \in Boundaries, HdrAt(b) < input.len,
           ParseHeader(HdrAt(b), input.len) # "ok", NEW su
    PROVE  Blame(input, su, b, ParseHeader(HdrAt(b), input.len))
<1>1. input.len \in Nat /\ input.len <= input.len
  BY InputLength
<1>2. PICK s : s = ParseHeader(HdrAt(b), input.len)
  OBVIOUS
<1>3. /\ b \in Blocks
      /\ s = "truncated" => input.len - HdrAt(b) < HeaderLen
      /\ s = "header" => input.fault[b] = "header"
      /\ s \in {"truncated", "header"}
  BY <1>1, <1>2, HeaderHere
<1> QED BY <1>2, <1>3, HeaderBlamed

\* A block that does not decode although its history is there.
LEMMA BlockRefused ==
    ASSUME input \in Inputs, NEW k \in Blocks, NEW avail \in Nat, NEW o, HasHistory(k, o),
           NEW r \in InflateBlock(BlockStart[k], avail, o), r \notin Blocks
    PROVE  /\ input.fault[k] = "deflate" \/ (r = Eof /\ NeedsBits(k) > 8 * avail)
           /\ r = Invalid => input.fault[k] = "deflate"
<1>1. CASE input.fault[k] # "deflate"
  <2>1. r = IF NeedsBits(k) <= 8 * avail THEN k ELSE Eof
    BY <1>1, SoundBlock
  <2>2. NeedsBits(k) \in Nat
    BY Positions
  <2>3. Eof # Invalid
    BY DEF Eof, Invalid
  <2> QED BY <2>1, <2>2, <2>3
<1> QED BY <1>1

\* A block that decodes.
LEMMA BlockTaken ==
    ASSUME input \in Inputs, NEW k \in Blocks, NEW avail \in Nat, avail <= input.len, NEW o,
           NEW r \in InflateBlock(BlockStart[k], avail, o), r \in Blocks
    PROVE  r = k /\ input.fault[k] # "deflate" /\ BlockEnd(k) <= 8 * input.len
<1>1. BlockStart[r] = BlockStart[k] /\ BlockEnd(r) <= 8 * avail
  BY BlockDecodes
<1>2. r = k
  BY <1>1, OneBlockHere
<1>3. BlockEnd(k) \in Nat /\ input.len \in Nat
  BY Positions, InputLength
<1>4. input.fault[k] # "deflate"
  <2> DEFINE here == {j \in Blocks : /\ BlockStart[j] = BlockStart[k]
                                     /\ input.fault[j] # "deflate"
                                     /\ HasHistory(j, o)}
  <2>1. r \notin {Eof, Invalid}
    BY BlockDecodes
  <2>2. here # {}
    BY <2>1 DEF InflateBlock
  <2>3. PICK j \in here : TRUE
    BY <2>2
  <2>4. j = k
    BY <2>3, OneBlockHere
  <2> QED BY <2>3, <2>4
<1> QED BY <1>1, <1>2, <1>3, <1>4

\* The bytes held from c on are the history of the block at b.
LEMMA HeldIsHistory ==
    ASSUME NEW k \in Blocks, NEW crc, NEW uc, NEW o, NEW c,
           Holds(crc, uc, o, MemberOutAt(k), c, OutStart[k]), crc = <<>> \/ Len(o) >= Window
    PROVE  HasHistory(k, o)
<1>1. MemberOutAt(k) \in Nat /\ OutStart[k] \in Nat
  BY MemberOutType, Positions
<1>2. Len(o) = OutStart[k] - c /\ Len(crc) = c - MemberOutAt(k) /\ c \in Nat
  <2>1. PICK f, b : f = MemberOutAt(k) /\ b = OutStart[k] /\ Holds(crc, uc, o, f, c, b)
    OBVIOUS
  <2>2. Len(o) = b - c /\ Len(crc) = c - f
    BY ONLY <2>1, HoldsInOrder
  <2>3. c \in Nat
    BY DEF Holds
  <2> QED BY <2>1, <2>2, <2>3
<1>3. KeepsWindow(MemberOutAt(k), c, OutStart[k])
  <2>1. CASE crc = <<>>
    <3>1. c - MemberOutAt(k) = 0
      BY <1>2, <2>1
    <3> QED BY <1>1, <1>2, <3>1 DEF KeepsWindow
  <2>2. CASE Len(o) >= Window
    BY <1>2, <2>2 DEF KeepsWindow
  <2> QED BY <2>1, <2>2
<1> QED BY <1>3, WindowIsHistory

\* The output in a member is not before its start.
LEMMA SentInMember ==
    ASSUME NEW crc, NEW uc, NEW o, NEW f, NEW c, NEW b, Holds(crc, uc, o, f, c, b), Sent(c)
    PROVE  sinkOpen => Len(delivered) >= f
<1>1. f \in Nat /\ c \in Nat /\ f <= c
  BY DEF Holds
<1>2. 0 \in Nat /\ 0 <= c
  BY <1>1
<1>3. Len(Bytes(0, c)) = c - 0
  BY <1>1, <1>2, BytesType
<1> QED BY <1>1, <1>3 DEF Sent, IsOutput

\* What was sent is a sequence.
LEMMA OutputType ==
    ASSUME NEW d, NEW c \in Nat, IsOutput(d, c)
    PROVE  d \in Seq(Nat)
<1>1. 0 \in Nat /\ 0 <= c
  OBVIOUS
<1> QED BY <1>1, BytesType DEF IsOutput

-----------------------------------------------------------------------------
(* SerialFile keeps the promise. *)

\* A block is decoded.
LEMMA SerialDecodeKept ==
    ASSUME input \in Inputs, SerialInv, SerialClean, delivered \in Seq(Nat), File!DecodeOneBlock,
           setup' = setup
    PROVE  Kept /\ SerialClean' /\ delivered' \in Seq(Nat)
<1>1. PICK k \in Nat, c \in Nat : SerialAt(k, c)
  BY DEF SerialInv
<1>2. pc = "block" /\ Running /\ UNCHANGED <<input, setup, delivered, sinkOpen>>
  BY DEF File!DecodeOneBlock, File!Return, File!Running, Running
<1>3. /\ k \in Blocks /\ Sent(c) /\ pos = BlockStart[k]
      /\ Holds(crcFed, memberUc, out, MemberOutAt(k), c, OutStart[k])
  BY <1>1, <1>2 DEF SerialAt
<1>4. AtBlock(input, k) /\ (crcFed = <<>> \/ Len(out) >= Window)
  BY <1>2, <1>3 DEF SerialClean, AtStart
<1>5. HasHistory(k, out)
  BY <1>3, <1>4, HeldIsHistory
<1>6. PICK r \in InflateBlock(pos, input.len, out) :
         \/ /\ r \in Blocks
            /\ out' = out \o Bytes(OutStart[r], OutEnd(r))
            /\ bfinal' = (r \in MemberEnds)
            /\ pos' = BlockEnd(r)
            /\ pc' = IF bfinal' THEN "flush" ELSE "emit"
            /\ crcFed' = crcFed /\ status' = status
         \/ /\ r \in {Eof, Invalid} /\ status' = "deflate"
            /\ UNCHANGED <<pc, pos, out, crcFed>>
  BY <1>2, FileLayout, FileParsers DEF File!DecodeOneBlock, File!Return, File!memberVars
<1>7. input.len \in Nat /\ input.len <= input.len
  BY InputLength
<1>8. r \in InflateBlock(BlockStart[k], input.len, out)
  BY <1>3, <1>6
<1>9. CASE /\ r \in Blocks
           /\ out' = out \o Bytes(OutStart[r], OutEnd(r))
           /\ bfinal' = (r \in MemberEnds)
           /\ pos' = BlockEnd(r)
           /\ pc' = IF bfinal' THEN "flush" ELSE "emit"
           /\ crcFed' = crcFed /\ status' = status
  <2>1. r = k /\ input.fault[k] # "deflate" /\ BlockEnd(k) <= 8 * input.len
    BY <1>3, <1>7, <1>8, <1>9, BlockTaken
  <2>2. AfterBlock(input, k)
    BY <1>3, <1>4, <2>1, BlockPasses
  <2>3. AtEnd(input, BlockEnd(k))
    BY <1>3, <2>2, AtPositions
  <2>4. AtEnd(input', pos')
    BY <1>2, <1>9, <2>1, <2>3
  <2>5. crcFed' = <<>> \/ Len(out') >= Window
    <3>1. PICK l \in Nat, n \in Nat : l = Len(out) /\ n = Len(Bytes(OutStart[k], OutEnd(k)))
                                     /\ Len(out') = l + n
      <4>1. OutStart[k] \in Nat /\ OutEnd(k) \in Nat /\ OutStart[k] <= OutEnd(k)
        BY <1>3, Positions
      <4>2. Bytes(OutStart[k], OutEnd(k)) \in Seq(Nat)
        BY <4>1, BytesType
      <4>3. out \in Seq(Nat)
        BY <1>3, HoldsInOrder
      <4>4. PICK t \in Seq(Nat) : t = Bytes(OutStart[k], OutEnd(k))
        BY <4>2
      <4>5. Len(out \o t) = Len(out) + Len(t) /\ Len(out) \in Nat /\ Len(t) \in Nat
        BY <4>3, <4>4
      <4> QED BY <1>9, <2>1, <4>4, <4>5
    <3>2. Window \in Nat
      BY Constants
    <3> QED BY <1>4, <1>9, <3>1, <3>2
  <2>6. SerialClean'
    BY <1>9, <2>4, <2>5 DEF SerialClean
  <2>7. Kept
    BY <1>2, <1>9, KeptSteps
  <2> QED BY <1>2, <2>6, <2>7
<1>10. CASE r \in {Eof, Invalid} /\ status' = "deflate" /\ UNCHANGED <<pc, pos, out, crcFed>>
  <2>1. r \notin Blocks
    BY <1>10, Constants DEF Eof, Invalid
  <2>2. input.fault[k] = "deflate" \/ NeedsBits(k) > 8 * input.len
    BY <1>3, <1>5, <1>7, <1>8, <2>1, BlockRefused
  <2>3. Opened(input, k) /\ CleanTo(input, k)
    BY <1>4 DEF AtBlock
  <2>4. PICK s : s = "deflate" /\ s \in {"truncated", "deflate"}
    OBVIOUS
  <2>5. Blame(input, setup, k, s)
    BY <1>3, <2>2, <2>3, <2>4, BlockBlamed
  <2>6. sinkOpen => Len(delivered) >= MemberOutAt(k)
    BY <1>3, SentInMember
  <2>7. Returns(s)
    BY <1>2, <1>10, <2>4 DEF Returns
  <2>8. Promise!Fail
    BY <1>3, <2>3, <2>5, <2>6, <2>7, FailStep
  <2>9. SerialClean'
    BY <1>2, <1>10 DEF SerialClean, AtStart, AtEnd
  <2> QED BY <1>2, <2>8, <2>9, KeptSteps
<1> QED BY <1>6, <1>9, <1>10

\* A chunk is handed over, or not yet.
LEMMA SerialEmitKept ==
    ASSUME input \in Inputs, SerialInv, SerialClean, delivered \in Seq(Nat), File!EmitChunk,
           setup' = setup
    PROVE  Kept /\ SerialClean' /\ delivered' \in Seq(Nat)
<1>1. PICK k \in Nat, c \in Nat : SerialAt(k, c)
  BY DEF SerialInv
<1>2. pc = "emit" /\ Running /\ UNCHANGED <<input, setup, sinkOpen, pos>>
  BY DEF File!EmitChunk, File!Return, File!Running, Running
<1>3. /\ k \in Blocks /\ k \notin MemberEnds /\ Sent(c) /\ pos = BlockEnd(k)
      /\ Holds(crcFed, memberUc, out, MemberOutAt(k), c, OutEnd(k))
  BY <1>1, <1>2 DEF SerialAt
<1>4. AfterBlock(input, k) /\ (crcFed = <<>> \/ Len(out) >= Window)
  BY <1>2, <1>3 DEF SerialClean, AtEnd
<1>5. /\ ChunkTarget \in Nat /\ Window \in Nat /\ ChunkTarget >= 1
      /\ OutEnd(k) \in Nat /\ c <= OutEnd(k) /\ Len(out) = OutEnd(k) - c /\ out \in Seq(Nat)
  <2>1. ChunkTarget \in Nat /\ Window \in Nat /\ ChunkTarget >= 1
    BY ReadGzAssumption, Constants
  <2>2. Len(out) = OutEnd(k) - c /\ out \in Seq(Nat)
    BY <1>3, HoldsInOrder
  <2>3. OutEnd(k) \in Nat /\ c <= OutEnd(k)
    BY <1>3 DEF Holds
  <2> QED BY <2>1, <2>2, <2>3
<1>6. CASE /\ pc' = "block" /\ UNCHANGED <<delivered, status, out, crcFed>>
  <2>1. k + 1 \in Blocks /\ AtBlock(input, k + 1) /\ BlockStart[k + 1] = BlockEnd(k)
    BY <1>3, <1>4, OnToNext, NextBlock
  <2>2. PICK j \in Blocks : AtBlock(input, j) /\ BlockStart[j] = BlockEnd(k)
    BY <2>1
  <2>3. AtStart(input', pos')
    BY <1>2, <1>3, <2>2, AtPositions
  <2>4. SerialClean'
    BY <1>4, <1>6, <2>3 DEF SerialClean
  <2> QED BY <1>2, <1>6, <2>4, KeptSteps
<1>7. CASE /\ Len(out) >= ChunkTarget + Window /\ sinkOpen /\ UNCHANGED <<pc, status>>
           /\ delivered' = delivered \o SubSeq(out, 1, Len(out) - Window)
           /\ out' = SubSeq(out, (Len(out) - Window) + 1, Len(out))
  <2>1. PICK n \in Nat : n = Len(out) - Window /\ n <= Len(out)
    BY <1>5, <1>7
  <2>2. IsOutput(delivered, c)
    BY <1>3, <1>7 DEF Sent
  <2>3. IsOutput(delivered \o SubSeq(out, 1, n), c + n)
    BY <1>3, <2>1, <2>2, SendFirst
  <2>4. PICK d \in Nat : d = c + n /\ c <= d /\ d <= OutEnd(k) /\ IsOutput(delivered', d)
    <3>1. PICK e \in Nat : e = c + n /\ c <= e
      OBVIOUS
    <3>2. e <= OutEnd(k)
      BY <1>5, <2>1, <3>1
    <3>3. IsOutput(delivered', e)
      BY <1>7, <2>1, <2>3, <3>1
    <3> QED BY <3>1, <3>2, <3>3
  <2>5. Promise!Deliver
    BY <1>2, <1>3, <1>4, <1>7, <2>2, <2>4, DeliverStep DEF AfterBlock, AtBlock, IsOutput
  <2>6. Len(out') = Window
    <3>1. Holds(crcFed \o SubSeq(out, 1, n), memberUc + n, SubSeq(out, n + 1, Len(out)), MemberOutAt(k), c + n, OutEnd(k))
      BY <1>3, <2>1, HoldsFolded
    <3>2. PICK o : o = SubSeq(out, n + 1, Len(out)) /\ o = out'
      BY <1>7, <2>1
    <3>3. PICK x, y, f, e, z : /\ e = c + n /\ z = OutEnd(k) /\ Holds(x, y, o, f, e, z)
      BY <3>1, <3>2
    <3>4. Len(o) = z - e
      BY ONLY <3>3, HoldsInOrder
    <3>5. OutEnd(k) - (c + n) = Window
      BY <1>5, <2>1, SMTT(30)
    <3> QED BY <3>2, <3>3, <3>4, <3>5
  <2>7. AtEnd(input', pos')
    BY <1>2, <1>3, <1>4, AtPositions
  <2>8. SerialClean'
    <3>1. pc' = "emit"
      BY <1>2, <1>7
    <3>2. PICK l \in Nat : l = Window /\ Len(out') = l
      BY <1>5, <2>6
    <3>3. Len(out') >= Window
      BY ONLY <3>2
    <3> QED BY <2>7, <3>1, <3>3 DEF SerialClean
  <2>9. delivered' \in Seq(Nat)
    BY <2>4, OutputType
  <2> QED BY <2>5, <2>8, <2>9, KeptSteps
<1>8. CASE ~sinkOpen /\ status' = "closed" /\ UNCHANGED <<delivered, pc, out, crcFed>>
  <2>1. SerialClean'
    BY <1>2, <1>8 DEF SerialClean, AtStart, AtEnd
  <2>2. Returns("closed")
    BY <1>2, <1>8 DEF Returns
  <2> QED BY <1>8, <2>1, <2>2, KeptSteps
<1> QED BY <1>6, <1>7, <1>8 DEF File!EmitChunk, File!Return, File!memberVars, File!ChunkReady, File!Carried

\* The rest of a member is handed over.
LEMMA SerialFlushKept ==
    ASSUME input \in Inputs, SerialInv, SerialClean, delivered \in Seq(Nat), File!FlushMember,
           setup' = setup
    PROVE  Kept /\ SerialClean' /\ delivered' \in Seq(Nat)
<1>1. PICK k \in Nat, c \in Nat : SerialAt(k, c)
  BY DEF SerialInv
<1>2. pc = "flush" /\ Running /\ UNCHANGED <<input, setup, sinkOpen, pos>>
  BY DEF File!FlushMember, File!Return, File!Running, Running
<1>3. /\ k \in Blocks /\ Sent(c) /\ pos = BlockEnd(k)
      /\ Holds(crcFed, memberUc, out, MemberOutAt(k), c, OutEnd(k))
  BY <1>1, <1>2 DEF SerialAt
<1>4. AfterBlock(input, k)
  BY <1>2, <1>3 DEF SerialClean, AtEnd
<1>5. /\ c \in Nat /\ OutEnd(k) \in Nat /\ c <= OutEnd(k)
      /\ Len(out) = OutEnd(k) - c /\ out \in Seq(Nat)
  <2>1. Len(out) = OutEnd(k) - c /\ out \in Seq(Nat)
    BY <1>3, HoldsInOrder
  <2>2. c \in Nat /\ OutEnd(k) \in Nat /\ c <= OutEnd(k)
    BY <1>3 DEF Holds
  <2> QED BY <2>1, <2>2
<1>6. CASE (sinkOpen \/ out = <<>>) /\ delivered' = delivered \o out /\ pc' = "trailer" /\ status' = status
  <2>1. AtEnd(input', pos')
    BY <1>2, <1>3, <1>4, AtPositions
  <2>2. SerialClean'
    BY <1>6, <2>1 DEF SerialClean
  <2>3. CASE sinkOpen
    <3>1. PICK n \in Nat : n = Len(out) /\ n <= Len(out) /\ c + n = OutEnd(k)
      BY <1>5
    <3>2. SubSeq(out, 1, n) = out
      BY <1>5, <3>1, AllOfIt
    <3>3. IsOutput(delivered, c)
      BY <1>3, <2>3 DEF Sent
    <3>4. IsOutput(delivered \o SubSeq(out, 1, n), c + n)
      BY <1>3, <3>1, <3>3, SendFirst
    <3>5. IsOutput(delivered', OutEnd(k))
      BY <1>6, <3>1, <3>2, <3>4
    <3>6. PICK d \in Nat : d = OutEnd(k) /\ c <= d /\ d <= OutEnd(k) /\ IsOutput(delivered', d)
      BY <1>5, <3>5
    <3>7. Promise!Deliver
      BY <1>2, <1>3, <1>4, <1>6, <2>3, <3>3, <3>6, DeliverStep DEF AfterBlock, AtBlock, IsOutput
    <3>8. delivered' \in Seq(Nat)
      BY <3>6, OutputType
    <3> QED BY <2>2, <3>7, <3>8, KeptSteps
  <2>4. CASE out = <<>>
    <3>1. delivered' = delivered
      BY <1>6, <2>4
    <3> QED BY <1>2, <1>6, <2>2, <3>1, KeptSteps
  <2> QED BY <1>6, <2>3, <2>4
<1>7. CASE ~sinkOpen /\ status' = "closed" /\ UNCHANGED <<delivered, pc, out, crcFed>>
  <2>1. SerialClean'
    BY <1>2, <1>7 DEF SerialClean, AtStart, AtEnd
  <2>2. Returns("closed")
    BY <1>2, <1>7 DEF Returns
  <2> QED BY <1>7, <2>1, <2>2, KeptSteps
<1> QED BY <1>6, <1>7 DEF File!FlushMember, File!Return, File!memberVars

\* A trailer is checked and the next member is begun.
LEMMA SerialTrailerKept ==
    ASSUME input \in Inputs, SerialInv, SerialClean, delivered \in Seq(Nat), File!CheckTrailer,
           setup' = setup
    PROVE  Kept /\ SerialClean' /\ delivered' \in Seq(Nat)
<1>1. PICK k \in Nat, c \in Nat : SerialAt(k, c)
  BY DEF SerialInv
<1>2. pc = "trailer" /\ Running /\ UNCHANGED <<input, setup, delivered, sinkOpen>>
  BY DEF File!CheckTrailer, File!Return, File!Running, Running
<1>3. /\ k \in Blocks /\ k \in MemberEnds /\ Sent(c) /\ pos = BlockEnd(k)
      /\ c = OutEnd(k) /\ Holds(crcFed, memberUc, out, MemberOutAt(k), c, c)
  BY <1>1, <1>2 DEF SerialAt
<1>4. AfterBlock(input, k) /\ Opened(input, k) /\ CleanTo(input, k)
  BY <1>2, <1>3 DEF SerialClean, AtEnd, AfterBlock, AtBlock
<1>5. FoldedAt(crcFed, memberUc, TrailerAt(k))
  <2>1. crcFed = Bytes(MemberOutAt(k), OutEnd(k)) /\ memberUc = OutEnd(k) - MemberOutAt(k)
    BY <1>3 DEF Holds
  <2> QED BY <1>3, <2>1, OneTrailerHere DEF FoldedAt
<1>6. PICK b \in Boundaries : b = k + 1 /\ HdrAt(b) = MemberLimit(k) /\ OutAt(b) = OutEnd(k)
  BY <1>3, AfterMember
<1>7. PICK v, h : /\ v = TrailerVerdict(TrailerAt(k), crcFed, memberUc)
                  /\ h = ParseHeader(HdrAt(b), input.len)
                  /\ \/ MemberLimit(k) > input.len /\ File!Return("truncated")
                     \/ v # "ok" /\ File!Return(v)
                     \/ HdrAt(b) = input.len /\ v = "ok" /\ File!Return("ok")
                     \/ HdrAt(b) < input.len /\ v = "ok" /\ h # "ok" /\ File!Return(h)
                     \/ /\ HdrAt(b) < input.len /\ v = "ok" /\ h = "ok"
                        /\ crcFed' = <<>> /\ pos' = 8 * (HdrAt(b) + HeaderLen) /\ pc' = "block"
                        /\ status' = status
  <2>1. BytesOfBits(pos) = TrailerAt(k) /\ BytesOfBits(pos) + TrailerLen = HdrAt(b)
    BY <1>3, <1>6 DEF TrailerAt, MemberLimit
  <2> QED BY <1>6, <2>1, FileLayout, FileParsers, Zenon DEF File!CheckTrailer
<1>8. ASSUME NEW s, File!Return(s)
      PROVE  Returns(s) /\ SerialClean'
  <2>1. Returns(s) /\ UNCHANGED <<pc, pos, out, crcFed>>
    BY <1>2, <1>8 DEF File!Return, File!memberVars, Returns
  <2> QED BY <1>2, <2>1 DEF SerialClean, AtEnd
<1>9. b # 0 /\ b \in Nat
  BY <1>3, <1>6, BoundaryNumbers
<1>10. sinkOpen => Len(delivered) >= MemberOutAt(k)
  BY <1>3, SentInMember
<1>11. v = "ok" /\ MemberLimit(k) <= input.len => CleanTo(input, b)
  BY <1>3, <1>4, <1>5, <1>6, <1>7, VerdictHere, TrailerPasses
<1>12. HdrAt(b) \in Nat /\ input.len \in Nat
  BY BoundaryNumbers, InputLength
<1>13. CASE MemberLimit(k) > input.len /\ File!Return("truncated")
  <2>1. PICK s : s = "truncated" /\ Returns(s)
    BY <1>8, <1>13
  <2>2. Blame(input, setup, k, s)
    BY <1>3, <1>4, <1>13, <2>1, TrailerBlamed
  <2>3. Promise!Fail
    BY <1>3, <1>4, <1>10, <2>1, <2>2, FailStep
  <2> QED BY <1>2, <1>8, <1>13, <2>3, KeptSteps
<1>14. CASE v # "ok" /\ File!Return(v)
  <2>1. input.fault[k] = v /\ v \in {"crc", "isize"}
    BY <1>3, <1>5, <1>7, <1>14, VerdictHere
  <2>2. Blame(input, setup, k, v)
    BY <1>3, <1>4, <2>1, TrailerBlamed
  <2>3. Promise!Fail
    BY <1>3, <1>4, <1>8, <1>10, <1>14, <2>2, FailStep
  <2> QED BY <1>2, <1>8, <1>14, <2>3, KeptSteps
<1>15. CASE HdrAt(b) = input.len /\ v = "ok" /\ File!Return("ok")
  <2>1. CleanTo(input, b)
    BY <1>6, <1>11, <1>12, <1>15
  <2>2. sinkOpen => delivered = Bytes(0, OutAt(b))
    BY <1>3, <1>6 DEF Sent, IsOutput
  <2>3. Promise!Succeed
    BY <1>8, <1>9, <1>15, <2>1, <2>2, SucceedStep
  <2> QED BY <1>2, <1>8, <1>15, <2>3, KeptSteps
<1>16. CASE HdrAt(b) < input.len /\ v = "ok" /\ h # "ok" /\ File!Return(h)
  <2>1. CleanTo(input, b)
    BY <1>6, <1>11, <1>12, <1>16
  <2>2. Blame(input, setup, b, h)
    BY <1>7, <1>16, HeaderRefused
  <2>3. b \in Blocks /\ MemberOutAt(b) = c
    <3>1. input.len <= input.len
      BY <1>12
    <3>2. b \in Blocks
      BY <1>12, <1>16, <3>1, HeaderHere
    <3> QED BY <1>3, <1>6, <3>2, BoundaryStarts DEF MemberOutAt
  <2>4. sinkOpen => Len(delivered) >= MemberOutAt(b)
    <3>1. Holds(crcFed, memberUc, out, MemberOutAt(k), c, c)
      BY <1>3
    <3>2. c \in Nat /\ 0 \in Nat /\ 0 <= c
      OBVIOUS
    <3>3. Len(Bytes(0, c)) = c - 0
      BY <3>2, BytesType
    <3> QED BY <1>3, <2>3, <3>3 DEF Sent, IsOutput
  <2>5. Promise!Fail
    BY <1>8, <1>16, <2>1, <2>2, <2>3, <2>4, FailStep
  <2> QED BY <1>2, <1>8, <1>16, <2>5, KeptSteps
<1>17. CASE /\ HdrAt(b) < input.len /\ v = "ok" /\ h = "ok"
            /\ crcFed' = <<>> /\ pos' = 8 * (HdrAt(b) + HeaderLen) /\ pc' = "block"
            /\ status' = status
  <2>1. CleanTo(input, b)
    BY <1>6, <1>11, <1>12, <1>17
  <2>2. b \in Blocks /\ input.fault[b] # "header"
    <3>1. input.len <= input.len
      BY <1>12
    <3> QED BY <1>7, <1>12, <1>17, <3>1, HeaderHere
  <2>3. AtBlock(input, b)
    BY <1>17, <2>1, <2>2, HeaderPasses
  <2>4. BlockStart[b] = pos'
    BY <1>17, <2>2, BoundaryStarts
  <2>5. AtStart(input', pos')
    BY <1>2, <2>2, <2>3, <2>4, AtPositions
  <2>6. SerialClean'
    BY <1>17, <2>5 DEF SerialClean
  <2> QED BY <1>2, <1>17, <2>6, KeptSteps
<1> QED BY <1>7, <1>13, <1>14, <1>15, <1>16, <1>17, Zenon

\* Every step of SerialFile.
LEMMA SerialStepsKept ==
    ASSUME input \in Inputs, SerialInv, SerialClean, delivered \in Seq(Nat), File!Step, setup' = setup
    PROVE  Kept /\ SerialClean' /\ delivered' \in Seq(Nat)
  BY SerialDecodeKept, SerialEmitKept, SerialFlushKept, SerialTrailerKept DEF File!Step

-----------------------------------------------------------------------------
(* SerialPipe keeps the promise. *)

\* An open sink was sent the output up to c, and so no less.
LEMMA SentAtLeast ==
    ASSUME NEW c \in Nat, Sent(c), NEW f \in Nat, f <= c
    PROVE  sinkOpen => Len(delivered) >= f
<1>1. 0 \in Nat /\ 0 <= c
  OBVIOUS
<1>2. Len(Bytes(0, c)) = c - 0
  BY <1>1, BytesType
<1> QED BY <1>2 DEF Sent, IsOutput

\* A step that returns leaves everything where it is.
LEMMA PipeReturnKept ==
    ASSUME PipeClean, Pipe!Running, Pipe!Quiet, setup' = setup, NEW s, Pipe!Return(s)
    PROVE  Returns(s) /\ PipeClean'
<1>1. Returns(s) /\ UNCHANGED <<pc, base, filled, bitOff, srcEof, out, crcFed, memberUc, member>>
  BY DEF Pipe!Running, Pipe!Quiet, Pipe!Return, Pipe!memberVars, Pipe!bufVars, Returns, Running
<1>2. status = "running" /\ input' = input
  BY <1>1 DEF Returns, Running
<1> QED BY <1>1, <1>2 DEF PipeClean, AtStart, AtEnd, AtTrailer, AtHeader, FoldedAt

\* After the end of the source was seen, the buffer ends with the input.
LEMMA PipeFillMeets ==
    ASSUME input \in Inputs, PipeBuffer, srcEof => filled = input.len, Pipe!FillMore
    PROVE  /\ srcEof' => filled' = input.len
           /\ filled <= filled' /\ (filled = filled' => filled' = input.len)
           /\ base' = base /\ bitOff' = bitOff /\ status' = status
<1>1. PipeReads /\ status' = status
  BY PipeFills
<1>2. filled \in Nat /\ input.len \in Nat
  BY InputLength DEF PipeBuffer
<1>3. filled # input.len => filled' > filled
  <2>1. PICK a \in Nat : a = filled + ReadMax
    BY <1>2, ReadGzAssumption
  <2>2. PICK m \in Nat : m = Min({a, input.len})
    BY <1>2, MinOfTwo
  <2>3. \A S : Pipe!Min(S) = Min(S)
    BY Zenon DEF Pipe!Min, Min
  <2>4. filled # input.len => filled' \in filled + 1 .. m
    BY <2>1, <2>2, <2>3 DEF Pipe!FillMore
  <2> QED BY <1>2, <2>4
<1>4. filled = filled' => filled' = input.len
  BY <1>2, <1>3
<1>5. srcEof' => srcEof \/ filled' = filled
  BY Zenon DEF Pipe!FillMore
<1>6. srcEof => filled' = input.len
  BY <1>1, <1>2 DEF PipeReads
<1>7. srcEof' => filled' = input.len
  BY <1>4, <1>5, <1>6
<1> QED BY <1>1, <1>4, <1>7 DEF PipeReads

\* A step that reads on, or finds the input truncated.
LEMMA PipeFillKept ==
    ASSUME input \in Inputs, PipeBuffer, PipeClean, delivered \in Seq(Nat),
           pc \in {"header", "block", "trailer"},
           Pipe!Running, Pipe!Quiet, setup' = setup, Pipe!FillOrTruncated,
           srcEof /\ Returns("truncated") => Promise!Fail
    PROVE  Kept /\ PipeClean' /\ delivered' \in Seq(Nat)
<1>1. UNCHANGED <<input, delivered, sinkOpen>> /\ Running
  BY DEF Pipe!Quiet, Pipe!Running, Running
<1>2. srcEof => filled = input.len
  BY DEF PipeClean
<1>3. CASE srcEof /\ Pipe!Return("truncated")
  <2>1. PICK s : s = "truncated" /\ Returns(s) /\ PipeClean'
    BY <1>3, PipeReturnKept
  <2> QED BY <1>1, <1>3, <2>1, KeptSteps
<1>4. CASE Pipe!FillMore /\ UNCHANGED <<pc, Pipe!memberVars>>
  <2>1. /\ srcEof' => filled' = input.len
        /\ filled <= filled' /\ base' = base /\ bitOff' = bitOff /\ status' = status
    BY <1>2, <1>4, PipeFillMeets
  <2>2. pc = "header" => base' < filled'
    <3>1. base \in Nat /\ filled \in Nat /\ filled' \in Nat
      BY <1>4, PipeFills DEF PipeBuffer, PipeReads
    <3> QED BY <2>1, <3>1 DEF PipeClean
  <2>3. PipeClean'
    BY <1>1, <1>4, <2>1, <2>2 DEF PipeClean, AtStart, AtEnd, AtTrailer, AtHeader, FoldedAt, Pipe!memberVars
  <2> QED BY <1>1, <2>1, <2>3, KeptSteps
<1>5. CASE Pipe!ReadFails /\ UNCHANGED <<pc, Pipe!memberVars>>
  <2>1. Returns("io")
    BY <1>1, <1>5 DEF Pipe!ReadFails, Returns
  <2>2. PipeClean'
    BY <1>1, <1>5 DEF PipeClean, AtStart, AtEnd, AtTrailer, AtHeader, FoldedAt, Pipe!ReadFails, Pipe!memberVars, Pipe!bufVars
  <2> QED BY <1>1, <2>1, <2>2, KeptSteps
<1> QED BY <1>3, <1>4, <1>5 DEF Pipe!FillOrTruncated

\* The first read, and the look at what follows a member.
LEMMA PipeReadKept ==
    ASSUME input \in Inputs, PipeInv, PipeClean, delivered \in Seq(Nat),
           Pipe!Prime \/ Pipe!PeekNext, setup' = setup
    PROVE  Kept /\ PipeClean' /\ delivered' \in Seq(Nat)
<1>0. PipeBuffer /\ (srcEof => filled = input.len)
  BY DEF PipeInv, PipeClean
<1>1. /\ Running /\ pc \in {"prime", "peek"} /\ pc' = "member"
      /\ UNCHANGED <<input, setup, delivered, sinkOpen, member>>
  BY DEF Pipe!Prime, Pipe!PeekNext, Pipe!Quiet, Pipe!Running, Running, Pipe!memberVars
<1>2. AtHeader(input, base) /\ (member = 0 => base = 0)
  <2>1. CASE pc = "peek"
    BY <2>1 DEF PipeClean
  <2>2. CASE pc = "prime"
    <3>1. PICK k \in Nat, f \in Nat, c \in Nat : PipeAt(k, f, c)
      BY DEF PipeInv
    <3>2. base = 0
      BY <2>2, <3>1 DEF PipeAt
    <3>3. PICK b \in Boundaries : b = 0 /\ HdrAt(b) = 0
      BY Constants DEF Boundaries, HdrAt
    <3>4. CleanTo(input, b)
      BY <3>3, Constants DEF CleanTo
    <3>5. AtHeader(input, HdrAt(b))
      BY <3>4, AtPositions
    <3> QED BY <3>2, <3>3, <3>5
  <2> QED BY <1>1, <2>1, <2>2
<1>3. CASE Pipe!FillMore
  <2>1. /\ srcEof' => filled' = input.len
        /\ filled = filled' => filled' = input.len
        /\ filled <= filled' /\ base' = base /\ bitOff' = bitOff /\ status' = status
    BY <1>0, <1>3, PipeFillMeets
  <2>2. base' = filled' => filled' = input.len
    <3>1. base \in Nat /\ filled \in Nat /\ filled' \in Nat /\ base <= filled
      BY <1>0, <1>3, PipeFills DEF PipeBuffer, PipeReads
    <3> QED BY <2>1, <3>1
  <2>3. PipeClean'
    BY <1>1, <1>2, <2>1, <2>2 DEF PipeClean, AtHeader
  <2> QED BY <1>1, <2>1, <2>3, KeptSteps
<1>4. CASE Pipe!ReadFails
  <2>1. Returns("io") /\ UNCHANGED <<base, filled, srcEof>> /\ status' # "running"
    BY <1>1, <1>4 DEF Pipe!ReadFails, Returns, Pipe!bufVars
  <2>2. PipeClean'
    BY <1>0, <1>1, <1>2, <2>1 DEF PipeClean, AtHeader
  <2> QED BY <1>1, <2>1, <2>2, KeptSteps
<1>5. CASE ~Pipe!MustPeek /\ UNCHANGED <<status, Pipe!bufVars>>
  <2>1. base = filled => filled = input.len
    <3>1. base \in Nat /\ filled \in Nat
      BY <1>0 DEF PipeBuffer
    <3> QED BY <1>0, <1>5, <3>1 DEF Pipe!MustPeek, Pipe!BufLen
  <2>2. PipeClean'
    BY <1>0, <1>1, <1>2, <1>5, <2>1 DEF PipeClean, AtHeader, Pipe!bufVars
  <2> QED BY <1>1, <1>5, <2>2, KeptSteps
<1> QED BY <1>3, <1>4, <1>5 DEF Pipe!Prime, Pipe!PeekNext

\* The top of the member loop.
LEMMA PipeNextMemberKept ==
    ASSUME input \in Inputs, PipeInv, PipeClean, delivered \in Seq(Nat), Pipe!NextMember, setup' = setup
    PROVE  Kept /\ PipeClean' /\ delivered' \in Seq(Nat)
<1>0. PipeBuffer
  BY DEF PipeInv
<1>1. PICK k \in Nat, f \in Nat, c \in Nat : PipeAt(k, f, c)
  BY DEF PipeInv
<1>2. Running /\ pc = "member" /\ Pipe!Running /\ Pipe!Quiet /\ UNCHANGED <<input, delivered, sinkOpen>>
  BY DEF Pipe!NextMember, Pipe!Quiet, Pipe!Running, Running
<1>3. Sent(c) /\ member \in 0 .. k /\ k \in Boundaries /\ base = HdrAt(k) /\ c = OutAt(k)
  BY <1>1, <1>2 DEF PipeAt
<1>4. CleanTo(input, k)
  BY <1>2, <1>3 DEF PipeClean, AtHeader
<1>5. base \in Nat /\ filled \in Nat /\ base <= filled
  BY <1>0 DEF PipeBuffer
<1>6. CASE filled - base = 0 /\ Pipe!Return(IF member = 0 THEN "truncated" ELSE "ok")
  <2>1. base = filled /\ filled = input.len
    BY <1>2, <1>5, <1>6 DEF PipeClean, Running
  <2>2. CASE member = 0
    <3>1. Returns("truncated") /\ PipeClean'
      BY <1>2, <1>6, <2>2, PipeReturnKept
    <3>2. input.len = 0
      BY <1>2, <2>1, <2>2 DEF PipeClean
    <3>3. Promise!Present = {}
      <4>1. ASSUME NEW j \in Promise!Present PROVE FALSE
        <5>1. j \in Blocks /\ PresentIn(input, j)
          BY <4>1, PromiseWords
        <5>2. PICK s \in Boundaries : s = MemberStart(j) /\ s \in Blocks
          BY <5>1, Members, FirstIsBoundary
        <5>3. HeaderAt(s) \in Nat
          BY <5>2, BoundaryStarts, BoundaryNumbers
        <5> QED BY <3>2, <5>1, <5>2, <5>3 DEF PresentIn
      <4> QED BY <4>1
    <3>4. status = "running" /\ status' = "truncated" /\ UNCHANGED <<input, setup, delivered, sinkOpen>>
      BY <3>1 DEF Returns, Running
    <3>5. Promise!Fail
      BY <3>3, <3>4, Zenon DEF Promise!Fail
    <3> QED BY <1>2, <3>1, <3>5, KeptSteps
  <2>3. CASE member # 0
    <3>1. Returns("ok") /\ PipeClean'
      BY <1>2, <1>6, <2>3, PipeReturnKept
    <3>2. k # 0
      BY <1>3, <2>3
    <3>3. sinkOpen => delivered = Bytes(0, OutAt(k))
      BY <1>3 DEF Sent, IsOutput
    <3>4. HdrAt(k) = input.len
      BY <1>3, <2>1
    <3>5. Promise!Succeed
      BY <1>3, <1>4, <3>1, <3>2, <3>3, <3>4, SucceedStep
    <3> QED BY <1>2, <3>1, <3>5, KeptSteps
  <2> QED BY <2>2, <2>3
<1>7. CASE filled - base > 0 /\ pc' = "header" /\ UNCHANGED <<status, Pipe!bufVars, Pipe!memberVars>>
  <2>1. base < filled
    BY <1>5, <1>7
  <2>2. PipeClean'
    BY <1>2, <1>7, <2>1 DEF PipeClean, AtHeader, Pipe!bufVars, Pipe!memberVars
  <2> QED BY <1>2, <1>7, <2>2, KeptSteps
<1> QED BY <1>6, <1>7 DEF Pipe!NextMember, Pipe!BufLen

\* The header of a member.
LEMMA PipeHeaderKept ==
    ASSUME input \in Inputs, PipeInv, PipeClean, delivered \in Seq(Nat), Pipe!ReadGzipHeader, setup' = setup
    PROVE  Kept /\ PipeClean' /\ delivered' \in Seq(Nat)
<1>0. PipeBuffer
  BY DEF PipeInv
<1>1. PICK k \in Nat, f \in Nat, c \in Nat : PipeAt(k, f, c)
  BY DEF PipeInv
<1>2. Running /\ pc = "header" /\ Pipe!Running /\ Pipe!Quiet /\ UNCHANGED <<input, delivered, sinkOpen>>
  BY DEF Pipe!ReadGzipHeader, Pipe!Quiet, Pipe!Running, Running
<1>3. Sent(c) /\ k \in Boundaries /\ base = HdrAt(k) /\ bitOff = 0 /\ c = OutAt(k)
  BY <1>1, <1>2 DEF PipeAt
<1>4. CleanTo(input, k) /\ HdrAt(k) < filled /\ (srcEof => filled = input.len)
  BY <1>2, <1>3 DEF PipeClean, AtHeader
<1>5. filled \in Nat /\ filled <= input.len /\ input.len \in Nat
  BY <1>0, InputLength DEF PipeBuffer
<1>6. PICK h : /\ h = ParseHeader(HdrAt(k), filled)
               /\ \/ /\ h = "ok" /\ base' = base + HeaderLen /\ pc' = "block"
                     /\ out' = <<>> /\ crcFed' = <<>> /\ memberUc' = 0
                     /\ UNCHANGED <<status, filled, bitOff, srcEof, bfinal, member>>
                  \/ h = "truncated" /\ Pipe!FillOrTruncated
                  \/ h = "header" /\ Pipe!Return("header")
  BY <1>3, PipeParsers DEF Pipe!ReadGzipHeader
<1>7. /\ k \in Blocks
      /\ h = "ok" => input.fault[k] # "header"
      /\ h = "truncated" => filled - HdrAt(k) < HeaderLen
      /\ h = "header" => input.fault[k] = "header"
  BY <1>3, <1>4, <1>5, <1>6, HeaderHere
<1>8. HdrAt(k) < input.len
  BY <1>3, <1>4, <1>5, BoundaryNumbers
<1>9. sinkOpen => Len(delivered) >= MemberOutAt(k)
  <2>1. MemberOutAt(k) = c /\ c <= c
    BY <1>3, <1>7, BoundaryStarts DEF MemberOutAt
  <2> QED BY <1>3, <2>1, SentAtLeast
<1>10. ASSUME NEW s, Returns(s), \/ input.len - HdrAt(k) < HeaderLen /\ s = "truncated"
                                 \/ input.fault[k] = "header" /\ s = "header"
       PROVE  Promise!Fail
  <2>1. Blame(input, setup, k, s)
    BY <1>3, <1>7, <1>8, <1>10, HeaderBlamed
  <2> QED BY <1>4, <1>7, <1>9, <1>10, <2>1, FailStep
<1>11. CASE /\ h = "ok" /\ base' = base + HeaderLen /\ pc' = "block"
            /\ out' = <<>> /\ crcFed' = <<>> /\ memberUc' = 0
            /\ UNCHANGED <<status, filled, bitOff, srcEof, bfinal, member>>
  <2>1. AtBlock(input, k)
    BY <1>3, <1>4, <1>7, <1>8, <1>11, HeaderPasses
  <2>2. BlockStart[k] = 8 * base' + bitOff'
    <3>1. BlockStart[k] = 8 * (HdrAt(k) + HeaderLen) /\ HdrAt(k) \in Nat /\ HeaderLen \in Nat
      BY <1>3, <1>7, BoundaryStarts, BoundaryNumbers, Constants
    <3> QED BY <1>3, <1>11, <3>1
  <2>3. AtStart(input', 8 * base' + bitOff')
    BY <1>2, <1>7, <2>1, <2>2, AtPositions
  <2>4. PipeClean'
    BY <1>2, <1>4, <1>11, <2>3 DEF PipeClean
  <2> QED BY <1>2, <1>11, <2>4, KeptSteps
<1>12. CASE h = "truncated" /\ Pipe!FillOrTruncated
  <2>1. ASSUME srcEof, Returns("truncated") PROVE Promise!Fail
    BY <1>4, <1>7, <1>10, <1>12, <2>1
  <2> QED BY <1>0, <1>2, <1>12, <2>1, PipeFillKept
<1>13. CASE h = "header" /\ Pipe!Return("header")
  <2>1. PICK s : s = "header" /\ Returns(s) /\ PipeClean'
    BY <1>2, <1>13, PipeReturnKept
  <2>2. Promise!Fail
    BY <1>7, <1>10, <1>13, <2>1
  <2> QED BY <1>2, <2>1, <2>2, KeptSteps
<1> QED BY <1>6, <1>11, <1>12, <1>13

\* A block is decoded, or tried again with more input.
LEMMA PipeDecodeKept ==
    ASSUME input \in Inputs, PipeInv, PipeClean, delivered \in Seq(Nat), Pipe!DecodeBlock, setup' = setup
    PROVE  Kept /\ PipeClean' /\ delivered' \in Seq(Nat)
<1>0. PipeBuffer
  BY DEF PipeInv
<1>1. PICK k \in Nat, f \in Nat, c \in Nat : PipeAt(k, f, c)
  BY DEF PipeInv
<1>2. Running /\ pc = "block" /\ Pipe!Running /\ Pipe!Quiet /\ UNCHANGED <<input, delivered, sinkOpen>>
  BY DEF Pipe!DecodeBlock, Pipe!Quiet, Pipe!Running, Running
<1>3. /\ Sent(c) /\ k \in Blocks /\ 8 * base + bitOff = BlockStart[k] /\ f = MemberOutAt(k)
      /\ KeepsWindow(f, c, OutStart[k]) /\ Holds(crcFed, memberUc, out, f, c, OutStart[k])
  BY <1>1, <1>2 DEF PipeAt
<1>4. AtBlock(input, k) /\ CleanTo(input, k) /\ Opened(input, k) /\ (srcEof => filled = input.len)
  BY <1>2, <1>3 DEF PipeClean, AtStart, AtBlock
<1>5. filled \in Nat /\ filled <= input.len /\ input.len \in Nat
  BY <1>0, InputLength DEF PipeBuffer
<1>6. HasHistory(k, out)
  BY <1>3, WindowIsHistory
<1>7. PICK r \in InflateBlock(BlockStart[k], filled, out) :
         \/ /\ r \in Blocks /\ base' = BlockEnd(r) \div 8 /\ bitOff' = BlockEnd(r) % 8
            /\ pc' = "emit" /\ UNCHANGED <<status, filled, srcEof>>
         \/ r = Eof /\ Pipe!FillOrTruncated
         \/ r = Invalid /\ Pipe!Return("deflate")
  BY <1>3, PipeLayout, PipeParsers DEF Pipe!DecodeBlock, Pipe!NextBitOff
<1>8. sinkOpen => Len(delivered) >= MemberOutAt(k)
  BY <1>3, SentInMember
<1>9. ASSUME NEW s \in {"truncated", "deflate"}, Returns(s),
             input.fault[k] = "deflate" \/ NeedsBits(k) > 8 * input.len
      PROVE  Promise!Fail
  <2>1. Blame(input, setup, k, s)
    BY <1>3, <1>4, <1>9, BlockBlamed
  <2> QED BY <1>3, <1>4, <1>8, <1>9, <2>1, FailStep
<1>10. CASE /\ r \in Blocks /\ base' = BlockEnd(r) \div 8 /\ bitOff' = BlockEnd(r) % 8
            /\ pc' = "emit" /\ UNCHANGED <<status, filled, srcEof>>
  <2>1. r = k /\ input.fault[k] # "deflate" /\ BlockEnd(k) <= 8 * input.len
    BY <1>3, <1>5, <1>7, <1>10, BlockTaken
  <2>2. AfterBlock(input, k)
    BY <1>3, <1>4, <2>1, BlockPasses
  <2>3. BlockEnd(k) = 8 * base' + bitOff'
    <3>1. BlockEnd(k) \in Nat
      BY <1>3, Positions
    <3>2. BlockEnd(k) = 8 * (BlockEnd(k) \div 8) + (BlockEnd(k) % 8)
      BY <3>1, ByteRounding
    <3> QED BY <1>10, <2>1, <3>2
  <2>4. AtEnd(input', 8 * base' + bitOff')
    BY <1>2, <1>3, <2>2, <2>3, AtPositions
  <2>5. PipeClean'
    BY <1>2, <1>4, <1>10, <2>4 DEF PipeClean
  <2> QED BY <1>2, <1>10, <2>5, KeptSteps
<1>11. CASE r = Eof /\ Pipe!FillOrTruncated
  <2>1. ASSUME srcEof, Returns("truncated") PROVE Promise!Fail
    <3>1. r \notin Blocks
      BY <1>11, Constants DEF Eof
    <3>2. input.fault[k] = "deflate" \/ NeedsBits(k) > 8 * filled
      BY <1>3, <1>5, <1>6, <1>7, <3>1, BlockRefused
    <3>3. PICK s \in {"truncated", "deflate"} : s = "truncated"
      OBVIOUS
    <3> QED BY <1>4, <1>9, <2>1, <3>2, <3>3
  <2> QED BY <1>0, <1>2, <1>11, <2>1, PipeFillKept
<1>12. CASE r = Invalid /\ Pipe!Return("deflate")
  <2>1. PICK s \in {"truncated", "deflate"} : s = "deflate" /\ Returns(s) /\ PipeClean'
    BY <1>2, <1>12, PipeReturnKept
  <2>2. r \notin Blocks
    BY <1>12, Constants DEF Invalid
  <2>3. input.fault[k] = "deflate"
    BY <1>3, <1>5, <1>6, <1>7, <1>12, <2>2, BlockRefused
  <2> QED BY <1>2, <1>9, <2>1, <2>3, KeptSteps
<1> QED BY <1>7, <1>10, <1>11, <1>12

\* Output is sent.
LEMMA PipeEmitKept ==
    ASSUME input \in Inputs, PipeInv, PipeClean, delivered \in Seq(Nat), Pipe!Emit, setup' = setup
    PROVE  Kept /\ PipeClean' /\ delivered' \in Seq(Nat)
<1>1. PICK k \in Nat, f \in Nat, c \in Nat : PipeAt(k, f, c)
  BY DEF PipeInv
<1> DEFINE EE == IF bfinal THEN Len(out) ELSE IF Len(out) > Window THEN Len(out) - Window ELSE 0
<1>2. /\ Running /\ pc = "emit"
      /\ delivered' = IF sinkOpen THEN delivered \o SubSeq(out, 1, EE) ELSE delivered
      /\ crcFed' = crcFed \o SubSeq(out, 1, EE)
      /\ memberUc' = memberUc + Len(SubSeq(out, 1, EE))
      /\ pc' = IF bfinal THEN "align" ELSE "block"
      /\ UNCHANGED <<input, sinkOpen, status, base, filled, bitOff, srcEof, bfinal, member>>
  BY DEF Pipe!Emit, Pipe!EmitEnd, Pipe!bufVars, Pipe!Running, Running
<1>3. /\ Sent(c) /\ k \in Blocks /\ 8 * base + bitOff = BlockEnd(k) /\ f = MemberOutAt(k)
      /\ bfinal = (k \in MemberEnds) /\ Holds(crcFed, memberUc, out, f, c, OutEnd(k))
  BY <1>1, <1>2 DEF PipeAt
<1>4. /\ OutEnd(k) \in Nat /\ c <= OutEnd(k) /\ Len(out) = OutEnd(k) - c /\ out \in Seq(Nat)
      /\ Len(out) \in Nat /\ Window \in Nat
  <2>1. Len(out) = OutEnd(k) - c /\ out \in Seq(Nat)
    BY <1>3, HoldsInOrder
  <2>2. OutEnd(k) \in Nat /\ c <= OutEnd(k)
    BY <1>3 DEF Holds
  <2>3. Len(out) \in Nat /\ Window \in Nat
    BY <2>1, LenProperties, Constants
  <2> QED BY <2>1, <2>2, <2>3
<1>5. PICK n \in Nat : n = EE /\ n <= Len(out)
  <2>1. Len(out) \in Nat /\ Window \in Nat
    BY <1>4
  <2>2. EE \in Nat /\ EE <= Len(out)
    BY <2>1
  <2> QED BY <2>2
<1>6. k \in MemberEnds => n = Len(out)
  BY <1>3, <1>5
<1> HIDE DEF EE
<1>7. AfterBlock(input, k) /\ CleanTo(input, k) /\ DecodesIn(input, k)
  BY <1>2, <1>3 DEF PipeClean, AtEnd, AfterBlock, AtBlock
<1>8. PICK d \in Nat : d = c + n /\ c <= d
  OBVIOUS
<1>9. d <= OutEnd(k)
  BY <1>4, <1>5, <1>8
<1>10. srcEof' => filled' = input'.len
  BY <1>2 DEF PipeClean
<1>11. PipeClean'
  <2>1. CASE k \in MemberEnds
    <3>1. Holds(crcFed \o SubSeq(out, 1, n), memberUc + n, SubSeq(out, n + 1, Len(out)), f, c + n, OutEnd(k))
      BY <1>3, <1>5, HoldsFolded
    <3>2. Len(SubSeq(out, 1, n)) = n
      <4>1. SubSeq(out, 1, n) = out
        BY <1>4, <1>6, <2>1, AllOfIt
      <4> QED BY <1>6, <2>1, <4>1
    <3>3. crcFed' = Bytes(f, d) /\ memberUc' = d - f
      <4>1. PICK x, y, z, e : /\ x = crcFed' /\ y = memberUc' /\ e = d /\ Holds(x, y, z, f, e, OutEnd(k))
        BY <1>2, <1>5, <1>8, <3>1, <3>2
      <4> QED BY <4>1 DEF Holds
    <3>4. d = OutEnd(k)
      BY <1>4, <1>6, <1>8, <2>1
    <3>5. BytesOfBits(8 * base' + bitOff') = TrailerAt(k)
      BY <1>2, <1>3 DEF TrailerAt
    <3>6. FoldedAt(crcFed', memberUc', TrailerAt(k))
      BY <1>3, <2>1, <3>3, <3>4, OneTrailerHere DEF FoldedAt
    <3>7. AtTrailer(input', TrailerAt(k))
      BY <1>2, <1>7, <2>1, AtPositions
    <3>8. pc' = "align"
      BY <1>2, <1>3, <2>1
    <3> QED BY <1>10, <3>5, <3>6, <3>7, <3>8 DEF PipeClean
  <2>2. CASE k \notin MemberEnds
    <3>1. k + 1 \in Blocks /\ AtBlock(input, k + 1) /\ BlockStart[k + 1] = BlockEnd(k)
      BY <1>3, <1>7, <2>2, OnToNext, NextBlock
    <3>2. PICK j \in Blocks : AtBlock(input, j) /\ BlockStart[j] = BlockEnd(k)
      BY <3>1
    <3>3. AtStart(input', 8 * base' + bitOff')
      BY <1>2, <1>3, <3>2, AtPositions
    <3>4. pc' = "block"
      BY <1>2, <1>3, <2>2
    <3> QED BY <1>10, <3>3, <3>4 DEF PipeClean
  <2> QED BY <2>1, <2>2
<1>12. CASE sinkOpen
  <2>1. IsOutput(delivered, c)
    BY <1>3, <1>12 DEF Sent
  <2>2. IsOutput(delivered \o SubSeq(out, 1, n), c + n)
    BY <1>3, <1>5, <2>1, SendFirst
  <2>3. IsOutput(delivered', d)
    BY <1>2, <1>5, <1>8, <1>12, <2>2
  <2>4. Promise!Deliver
    BY <1>2, <1>3, <1>7, <1>8, <1>9, <1>12, <2>1, <2>3, DeliverStep DEF IsOutput
  <2>5. delivered' \in Seq(Nat)
    BY <2>3, OutputType
  <2> QED BY <1>11, <2>4, <2>5, KeptSteps
<1>13. CASE ~sinkOpen
  <2>1. delivered' = delivered
    BY <1>2, <1>13
  <2> QED BY <1>2, <1>11, <2>1, KeptSteps
<1> QED BY <1>12, <1>13

\* The rest of the last byte is skipped.
LEMMA PipeAlignKept ==
    ASSUME input \in Inputs, PipeInv, PipeClean, delivered \in Seq(Nat), Pipe!ByteAlign, setup' = setup
    PROVE  Kept /\ PipeClean' /\ delivered' \in Seq(Nat)
<1>1. /\ Running /\ pc = "align" /\ pc' = "trailer"
      /\ IF bitOff > 0 /\ filled - base > 0
         THEN base' = base + 1 /\ bitOff' = 0
         ELSE base' = base /\ bitOff' = bitOff
      /\ UNCHANGED <<input, delivered, sinkOpen, status, filled, srcEof, crcFed, memberUc, member>>
  BY DEF Pipe!ByteAlign, Pipe!BufLen, Pipe!Quiet, Pipe!memberVars, Pipe!Running, Running
<1>2. base \in Nat /\ bitOff \in 0 .. 7 /\ filled \in Nat /\ 8 * base + bitOff <= 8 * filled
  BY DEF PipeInv, PipeBuffer
<1>3. BytesOfBits(8 * base' + bitOff') = BytesOfBits(8 * base + bitOff)
  <2>1. PICK n \in Nat : n = 8 * base + bitOff
    BY <1>2
  <2>2. BytesOfBits(n) = IF bitOff > 0 THEN base + 1 ELSE base
    BY <1>2, <2>1, BytesAndBits
  <2>3. bitOff > 0 => filled - base > 0
    BY <1>2
  <2>4. CASE bitOff > 0
    <3>1. PICK a \in Nat, z \in 0 .. 7, m \in Nat : a = base + 1 /\ z = 0 /\ m = 8 * a + z
      BY <1>2
    <3>2. BytesOfBits(m) = IF z > 0 THEN a + 1 ELSE a
      BY <3>1, BytesAndBits
    <3>3. base' = a /\ bitOff' = z
      BY <1>1, <2>3, <2>4, <3>1
    <3> QED BY <2>1, <2>2, <2>4, <3>1, <3>2, <3>3
  <2>5. CASE ~(bitOff > 0)
    BY <1>1, <2>5
  <2> QED BY <2>4, <2>5
<1>4. PipeClean'
  BY <1>1, <1>3 DEF PipeClean
<1> QED BY <1>1, <1>4, KeptSteps

\* A trailer is read and checked.
LEMMA PipeTrailerKept ==
    ASSUME input \in Inputs, PipeInv, PipeClean, delivered \in Seq(Nat), Pipe!ReadTrailer, setup' = setup
    PROVE  Kept /\ PipeClean' /\ delivered' \in Seq(Nat)
<1>0. PipeBuffer
  BY DEF PipeInv
<1>1. PICK k \in Nat, f \in Nat, c \in Nat : PipeAt(k, f, c)
  BY DEF PipeInv
<1>2. Running /\ pc = "trailer" /\ Pipe!Running /\ Pipe!Quiet /\ UNCHANGED <<input, delivered, sinkOpen>>
  BY DEF Pipe!ReadTrailer, Pipe!Quiet, Pipe!Running, Running
<1>3. /\ Sent(c) /\ member \in 0 .. k /\ k \in MemberEnds /\ base = TrailerAt(k) /\ bitOff = 0 /\ c = OutEnd(k)
  BY <1>1, <1>2 DEF PipeAt
<1>4. /\ base \in Nat /\ filled \in Nat /\ filled <= input.len /\ input.len \in Nat
      /\ MemberLimit(k) = base + 8 /\ TrailerLen = 8
  BY <1>0, <1>3, InputLength DEF PipeBuffer, MemberLimit, TrailerLen
<1>5. BytesOfBits(8 * base + bitOff) = TrailerAt(k)
  <2>1. PICK n \in Nat, z \in 0 .. 7 : z = 0 /\ bitOff = z /\ n = 8 * base + z
    BY <1>3, <1>4
  <2>2. BytesOfBits(n) = IF z > 0 THEN base + 1 ELSE base
    BY <1>4, <2>1, BytesAndBits
  <2> QED BY <1>3, <2>1, <2>2
<1>6. AtTrailer(input, TrailerAt(k)) /\ FoldedAt(crcFed, memberUc, TrailerAt(k)) /\ (srcEof => filled = input.len)
  BY <1>2, <1>5 DEF PipeClean
<1>7. AfterBlock(input, k) /\ CleanTo(input, k) /\ Opened(input, k)
  BY <1>3, <1>6 DEF AtTrailer, AfterBlock, AtBlock
<1>8. PICK v : /\ v = TrailerVerdict(TrailerAt(k), crcFed, memberUc)
               /\ \/ filled - base < 8 /\ Pipe!FillOrTruncated
                  \/ filled - base >= 8 /\ v # "ok" /\ Pipe!Return(v)
                  \/ /\ filled - base >= 8 /\ v = "ok" /\ base' = base + 8 /\ member' = member + 1
                     /\ pc' = "peek" /\ UNCHANGED <<status, filled, bitOff, srcEof, crcFed, memberUc>>
  BY <1>3, PipeLayout, PipeParsers DEF Pipe!ReadTrailer, Pipe!BufLen, TrailerLen
<1>9. k \in Blocks /\ (sinkOpen => Len(delivered) >= MemberOutAt(k))
  <2>1. k \in Blocks
    BY <1>3, Constants
  <2>2. MemberOutAt(k) \in Nat /\ MemberOutAt(k) <= OutStart[k] /\ OutStart[k] <= OutEnd(k)
        /\ OutStart[k] \in Nat /\ OutEnd(k) \in Nat
    BY <2>1, MemberOutType, Positions
  <2>3. MemberOutAt(k) <= c
    BY <1>3, <2>2
  <2> QED BY <1>3, <2>1, <2>2, <2>3, SentAtLeast
<1>10. ASSUME NEW s, Returns(s), \/ MemberLimit(k) > input.len /\ s = "truncated"
                                 \/ input.fault[k] = s /\ s \in {"crc", "isize"}
       PROVE  Promise!Fail
  <2>1. Blame(input, setup, k, s)
    BY <1>3, <1>7, <1>10, TrailerBlamed
  <2> QED BY <1>7, <1>9, <1>10, <2>1, FailStep
<1>11. CASE filled - base < 8 /\ Pipe!FillOrTruncated
  <2>1. ASSUME srcEof, Returns("truncated") PROVE Promise!Fail
    <3>1. MemberLimit(k) > input.len
      BY <1>4, <1>6, <1>11, <2>1
    <3> QED BY <1>10, <2>1, <3>1
  <2> QED BY <1>0, <1>2, <1>11, <2>1, PipeFillKept
<1>12. CASE filled - base >= 8 /\ v # "ok" /\ Pipe!Return(v)
  <2>1. Returns(v) /\ PipeClean'
    BY <1>2, <1>12, PipeReturnKept
  <2>2. input.fault[k] = v /\ v \in {"crc", "isize"}
    BY <1>3, <1>6, <1>8, <1>12, VerdictHere
  <2>3. Promise!Fail
    BY <1>10, <2>1, <2>2
  <2> QED BY <1>2, <2>1, <2>3, KeptSteps
<1>13. CASE /\ filled - base >= 8 /\ v = "ok" /\ base' = base + 8 /\ member' = member + 1
            /\ pc' = "peek" /\ UNCHANGED <<status, filled, bitOff, srcEof, crcFed, memberUc>>
  <2>1. input.fault[k] \notin {"crc", "isize"}
    BY <1>3, <1>6, <1>8, <1>13, VerdictHere
  <2>2. MemberLimit(k) <= input.len
    BY <1>4, <1>13
  <2>3. CleanTo(input, k + 1)
    BY <1>3, <1>7, <2>1, <2>2, TrailerPasses
  <2>4. PICK b \in Boundaries : b = k + 1 /\ HdrAt(b) = MemberLimit(k)
    BY <1>3, AfterMember
  <2>5. AtHeader(input', base')
    BY <1>2, <1>4, <1>13, <2>3, <2>4, AtPositions
  <2>6. member' # 0
    BY <1>3, <1>13
  <2>7. PipeClean'
    BY <1>2, <1>6, <1>13, <2>5, <2>6 DEF PipeClean
  <2> QED BY <1>2, <1>13, <2>7, KeptSteps
<1> QED BY <1>8, <1>11, <1>12, <1>13

\* Every step of SerialPipe.
LEMMA PipeStepsKept ==
    ASSUME input \in Inputs, PipeInv, PipeClean, delivered \in Seq(Nat), Pipe!Step, setup' = setup
    PROVE  Kept /\ PipeClean' /\ delivered' \in Seq(Nat)
  BY PipeReadKept, PipeNextMemberKept, PipeHeaderKept, PipeDecodeKept, PipeEmitKept, PipeAlignKept,
     PipeTrailerKept DEF Pipe!Step

-----------------------------------------------------------------------------
(* Whole members. *)

\* The blocks up to the end of a member end with it.
LEMMA SameEnd ==
    ASSUME NEW k \in Blocks, NEW j \in Blocks, k <= j, j <= LastBlock(k)
    PROVE  LastBlock(j) = LastBlock(k)
<1>1. /\ LastBlock(k) \in MemberEnds /\ LastBlock(k) \in Blocks
      /\ \A e \in MemberEnds : e >= k => LastBlock(k) <= e
  BY LastBlocks
<1>2. /\ LastBlock(j) \in MemberEnds /\ LastBlock(j) \in Blocks /\ j <= LastBlock(j)
      /\ \A e \in MemberEnds : e >= j => LastBlock(j) <= e
  BY LastBlocks
<1>3. Blocks \subseteq Nat
  BY Constants
<1>4. PICK l \in Nat, h \in Nat : l = LastBlock(k) /\ h = LastBlock(j)
  BY <1>1, <1>2, <1>3
<1>5. l <= h /\ h <= l
  BY <1>1, <1>2, <1>3, <1>4
<1> QED BY <1>4, <1>5

\* A block of a member ends no later than the member.
LEMMA EndsWithin ==
    ASSUME NEW k \in Blocks, NEW j \in Blocks, k <= j, j <= LastBlock(k)
    PROVE  BlockEnd(j) <= BlockEnd(LastBlock(k))
<1>1. PICK l \in Blocks : l = LastBlock(k)
  BY LastBlocks
<1>2. CASE j = l
  BY <1>1, <1>2, Positions
<1>3. CASE j # l
  <2>1. j < l
    BY <1>1, <1>3, Constants
  <2>2. BlockEnd(j) <= BlockStart[l] /\ BlockEnd(l) > BlockStart[l]
    BY <2>1, Order, Positions DEF Follows
  <2>3. BlockEnd(j) \in Nat /\ BlockEnd(l) \in Nat /\ BlockStart[l] \in Nat
    BY Positions
  <2> QED BY <1>1, <2>2, <2>3
<1> QED BY <1>2, <1>3

\* All blocks of a member decode if it is there and none is damaged.
LEMMA MemberDecodes ==
    ASSUME NEW i \in Inputs, NEW k \in FirstBlocks, i.fault[k] # "header",
           \A j \in k .. LastBlock(k) : i.fault[j] # "deflate", BlockEnd(LastBlock(k)) <= 8 * i.len,
           NEW j \in Blocks, k <= j, j <= LastBlock(k)
    PROVE  DecodesIn(i, j) /\ (j # LastBlock(k) => SoundIn(i, j))
<1>1. k \in Blocks /\ MemberStart(k) = k
  BY FirstIsBoundary, Members
<1>2. PICK l \in Blocks : l = LastBlock(k)
  BY <1>1, LastBlocks
<1>3. j \in k .. l
  BY <1>1, <1>2, Constants
<1>4. MemberStart(j) = k /\ (j # l => j \notin MemberEnds)
  BY <1>1, <1>2, SameMember
<1>5. i.fault[j] \notin {"header", "deflate"}
  BY <1>2, <1>3, <1>4, InputFacts
<1>6. BlockEnd(j) <= 8 * i.len
  <2>1. BlockEnd(j) <= BlockEnd(l) /\ BlockEnd(j) \in Nat /\ BlockEnd(l) \in Nat /\ i.len \in Nat
    BY <1>1, <1>2, EndsWithin, Positions, InputFacts
  <2> QED BY <1>2, <2>1
<1>7. DecodesIn(i, j)
  BY <1>5, <1>6 DEF DecodesIn
<1> QED BY <1>2, <1>4, <1>7, InnerSound

\* If also the trailer agrees, the member is sound.
LEMMA MemberSound ==
    ASSUME NEW i \in Inputs, NEW k \in FirstBlocks, i.fault[k] # "header", CleanTo(i, k),
           \A j \in k .. LastBlock(k) : i.fault[j] # "deflate", MemberLimit(LastBlock(k)) <= i.len,
           i.fault[LastBlock(k)] \notin {"crc", "isize"}
    PROVE  CleanTo(i, LastBlock(k) + 1)
<1>1. PICK l \in Blocks : l = LastBlock(k) /\ k \in Blocks
  BY FirstIsBoundary, LastBlocks
<1>2. /\ BlockEnd(l) \in Nat /\ TrailerAt(l) \in Nat /\ 8 * TrailerAt(l) >= BlockEnd(l)
      /\ MemberLimit(l) = TrailerAt(l) + 8 /\ i.len \in Nat
  BY Positions, InputFacts
<1>3. BlockEnd(l) <= 8 * i.len
  BY <1>1, <1>2
<1>4. \A j \in Blocks : k <= j /\ j <= l => DecodesIn(i, j) /\ (j # l => SoundIn(i, j))
  BY <1>1, <1>3, MemberDecodes
<1>5. k <= l /\ l <= l
  BY <1>1, LastBlocks, Constants
<1>6. SoundIn(i, l)
  BY <1>1, <1>4, <1>5, InputFacts DEF DecodesIn, SoundIn, TrailerIn
<1>7. ASSUME NEW j \in Blocks, j < l + 1 PROVE SoundIn(i, j)
  <2>1. Blocks \subseteq Nat
    BY Constants
  <2>2. j < k \/ j = l \/ (k <= j /\ j <= l /\ j # l)
    BY <1>1, <1>7, <2>1
  <2> QED BY <1>4, <1>6, <2>2 DEF CleanTo
<1> QED BY <1>1, <1>7 DEF CleanTo

-----------------------------------------------------------------------------
(* BgzfChain keeps the promise. *)

\* The decode is not the one of one thread.
LEMMA BgzfNotSerial == ASSUME BgzfClean PROVE ~Promise!Serial
  BY DEF BgzfClean, Promise!Serial

\* A length stated at a boundary is that of a BGZF member.
LEMMA StatedBgzf ==
    ASSUME input \in Inputs, NEW b \in Boundaries,
           NEW size \in ParseBgzfBlockSize(HdrAt(b), input.len), size # NoBlockSize
    PROVE  /\ b \in input.bgzf /\ b \in Blocks /\ HdrAt(b) < input.len
           /\ HdrAt(b) + size = MemberLimit(LastBlock(b))
<1>1. input.len \in Nat /\ input.bgzf \subseteq FirstBlocks /\ HdrAt(b) \in Nat /\ HeaderLen \in Nat /\ HeaderLen >= 10
  BY InputLength, BoundaryNumbers, Constants
<1> DEFINE here == {k \in input.bgzf : HeaderAt(k) = HdrAt(b) /\ input.len - HdrAt(b) >= HeaderLen}
<1>2. here # {}
  BY Zenon DEF ParseBgzfBlockSize
<1>3. size \in UNION {{MemberLimit(LastBlock(k)) - HdrAt(b)}
              \cup (IF input.fault[k] = "header" THEN {NoBlockSize} ELSE {}) : k \in here}
  BY <1>2, Zenon DEF ParseBgzfBlockSize
<1>4. PICK k \in here : size \in {MemberLimit(LastBlock(k)) - HdrAt(b)}
              \cup (IF input.fault[k] = "header" THEN {NoBlockSize} ELSE {})
  BY <1>3, Zenon
<1>5. size = MemberLimit(LastBlock(k)) - HdrAt(b)
  BY <1>4
<1>6. k \in Boundaries /\ k \in Blocks /\ HeaderAt(k) = HdrAt(k)
  BY <1>1, FirstIsBoundary, BoundaryStarts
<1>7. k = b
  BY <1>4, <1>6, OneBoundaryHere
<1>8. MemberLimit(LastBlock(k)) \in Nat
  BY <1>6, LastBlocks, Positions
<1>9. input.len - HdrAt(b) >= HeaderLen
  BY <1>4
<1>10. HdrAt(b) < input.len
  BY <1>1, <1>9
<1> QED BY <1>1, <1>4, <1>5, <1>6, <1>7, <1>8, <1>10

\* The first boundary of a batch is where its first slice is, or the walk.
LEMMA BatchStarts ==
    ASSUME NEW cs, NEW bs, SlicesAt(cs, bs), NEW p, p = 8 * HdrAt(bs[Len(cs)])
    PROVE  (IF cs = <<>> THEN p \div 8 ELSE Head(cs).at) = HdrAt(bs[0])
<1>1. PICK b \in Boundaries : b = bs[Len(cs)] /\ p = 8 * HdrAt(b)
  BY SlicesType
<1>2. p \div 8 = HdrAt(b)
  BY <1>1, BoundaryNumbers, WholeBytes
<1>3. CASE cs = <<>>
  <2>1. Len(cs) = 0
    BY <1>3
  <2> QED BY <1>1, <1>2, <1>3, <2>1
<1>4. CASE cs # <<>>
  <2>1. IsSlice(Head(cs), bs[0], bs[1])
    BY <1>4, SlicesPop
  <2> QED BY <1>4, <2>1 DEF IsSlice
<1> QED BY <1>3, <1>4

\* A step that returns leaves everything where it is.
LEMMA BgzfReturnKept ==
    ASSUME BgzfClean, Bgzf!Running, NEW s, Bgzf!Return(s)
    PROVE  Returns(s) /\ BgzfClean'
<1>1. Returns(s) /\ UNCHANGED <<pc, pos, cur, walk>>
  BY DEF Bgzf!Running, Bgzf!Return, Bgzf!environment, Bgzf!bgzfVars, Returns, Running
<1>2. UNCHANGED <<input, setup>>
  BY <1>1 DEF Returns
<1> QED BY <1>1, <1>2 DEF BgzfClean, AtHeader

\* The slices of a batch after one more.
LEMMA SlicesInMore ==
    ASSUME NEW cs \in Seq([at : Nat, limit : Nat]), NEW i, \A j \in 1 .. Len(cs) : SliceIn(i, cs[j]),
           NEW x \in [at : Nat, limit : Nat], SliceIn(i, x)
    PROVE  /\ \A j \in 1 .. Len(Append(cs, x)) : SliceIn(i, Append(cs, x)[j])
           /\ Append(cs, x) # <<>>
           /\ Head(Append(cs, x)) = IF cs = <<>> THEN x ELSE Head(cs)
<1> DEFINE R == [at : Nat, limit : Nat]
<1>0. cs \in Seq(R) /\ x \in R
  OBVIOUS
<1> HIDE DEF R
<1>1. PICK u : u = Append(cs, x)
  OBVIOUS
<1>2. PICK n \in Nat : n = Len(cs)
  BY <1>0, LenProperties
<1>3. u \in Seq(R) /\ Len(u) = n + 1 /\ \A j \in 1 .. n + 1 : u[j] = IF j <= n THEN cs[j] ELSE x
  BY <1>0, <1>1, <1>2, AppendProperties
<1>4. \A j \in 1 .. Len(u) : SliceIn(i, u[j])
  <2>1. ASSUME NEW j \in 1 .. n + 1 PROVE SliceIn(i, u[j])
    <3>1. CASE j <= n
      BY <1>2, <1>3, <3>1
    <3>2. CASE ~(j <= n)
      BY <1>3, <3>2
    <3> QED BY <3>1, <3>2
  <2> QED BY <1>3, <2>1
<1>5. u # <<>>
  <2>1. Len(u) # 0
    BY <1>3
  <2>2. Len(<<>>) = 0
    OBVIOUS
  <2> QED BY <2>1, <2>2
<1>6. Head(u) = IF cs = <<>> THEN x ELSE Head(cs)
  <2>1. PICK o : o = 1 /\ o \in 1 .. n + 1 /\ Head(u) = u[o]
    BY <1>3, <1>5, HeadTailProperties
  <2>2. CASE cs = <<>>
    <3>1. n = 0
      BY <1>2, <2>2
    <3> QED BY <1>3, <2>1, <2>2, <3>1
  <2>3. CASE cs # <<>>
    <3>1. n >= 1 /\ Head(cs) = cs[o]
      <4>1. Head(cs) = cs[1] /\ n # 0
        BY <1>0, <1>2, <2>3, HeadTailProperties, EmptySeq
      <4> QED BY <2>1, <4>1
    <3> QED BY <1>3, <2>1, <2>3, <3>1
  <2> QED BY <2>2, <2>3
<1> QED BY <1>1, <1>4, <1>5, <1>6

\* A member joins the batch.
LEMMA BgzfWalkKept ==
    ASSUME input \in Inputs, BgzfInv, BgzfClean, delivered \in Seq(Nat), Bgzf!WalkMember
    PROVE  Kept /\ BgzfClean' /\ delivered' \in Seq(Nat)
<1>1. PICK c \in Nat, bs \in Batches : BgzfAt(c, bs)
  BY DEF BgzfInv
<1>2. PICK at : at = pos \div 8
  OBVIOUS
<1>3. PICK size \in ParseBgzfBlockSize(at, input.len) \ {NoBlockSize} :
        /\ at + size <= input.len
        /\ cur' = Append(cur, [at |-> at, limit |-> at + size])
        /\ pos' = 8 * (at + size)
  BY <1>2, BgzfParsers DEF Bgzf!WalkMember, Bgzf!At
<1>4. /\ pc = "walk" /\ pc' \in {"walk", "batch"}
      /\ UNCHANGED <<input, setup, sinkOpen, delivered, status, walk>>
  BY DEF Bgzf!WalkMember, Bgzf!environment
<1>5. SlicesAt(cur, bs) /\ pos = 8 * HdrAt(bs[Len(cur)])
  BY <1>1, <1>4 DEF BgzfAt
<1>6. PICK b \in Boundaries : b = bs[Len(cur)]
  BY <1>5, SlicesType
<1>7. HdrAt(b) \in Nat /\ at = HdrAt(b)
  BY <1>2, <1>5, <1>6, BoundaryNumbers, WholeBytes
<1>8. b \in input.bgzf /\ b \in Blocks /\ HdrAt(b) + size = MemberLimit(LastBlock(b))
  BY <1>3, <1>7, StatedBgzf
<1>9. PICK x : x = [at |-> at, limit |-> at + size]
  OBVIOUS
<1>10. SliceIn(input, x)
  BY <1>3, <1>7, <1>8, <1>9 DEF SliceIn
<1>11. x \in [at : Nat, limit : Nat]
  BY <1>7, <1>8, <1>9, LastBlocks, Positions, SMTT(30)
<1>12. \A j \in 1 .. Len(cur) : SliceIn(input, cur[j])
  BY DEF BgzfClean
<1>13. /\ \A j \in 1 .. Len(Append(cur, x)) : SliceIn(input, Append(cur, x)[j])
       /\ Append(cur, x) # <<>>
       /\ Head(Append(cur, x)) = IF cur = <<>> THEN x ELSE Head(cur)
  BY <1>5, <1>10, <1>11, <1>12, SlicesType, SlicesInMore
<1>14. /\ \A j \in 1 .. Len(cur') : SliceIn(input', cur'[j])
       /\ cur' # <<>> /\ Head(cur') = IF cur = <<>> THEN x ELSE Head(cur)
  BY <1>3, <1>4, <1>9, <1>13
<1>15. (IF cur' = <<>> THEN pos' \div 8 ELSE Head(cur').at) = IF cur = <<>> THEN pos \div 8 ELSE Head(cur).at
  BY <1>2, <1>9, <1>14
<1>16. AtHeader(input', IF cur' = <<>> THEN pos' \div 8 ELSE Head(cur').at)
  BY <1>4, <1>15 DEF BgzfClean
<1>17. walk = "on"
  BY <1>4 DEF BgzfClean
<1>18. BgzfClean'
  BY <1>4, <1>14, <1>16, <1>17 DEF BgzfClean
<1> QED BY <1>4, <1>18, KeptSteps

\* The walk ends.
LEMMA BgzfWalkEndsKept ==
    ASSUME input \in Inputs, BgzfInv, BgzfClean, delivered \in Seq(Nat), Bgzf!WalkEnds
    PROVE  Kept /\ BgzfClean' /\ delivered' \in Seq(Nat)
<1>1. PICK c \in Nat, bs \in Batches : BgzfAt(c, bs)
  BY DEF BgzfInv
<1>2. PICK at : at = pos \div 8
  OBVIOUS
<1>3. PICK size \in ParseBgzfBlockSize(at, input.len) :
        /\ size = NoBlockSize \/ at + size > input.len
        /\ walk' = IF size = NoBlockSize THEN "end" ELSE "truncated"
  BY <1>2, BgzfParsers DEF Bgzf!WalkEnds, Bgzf!At
<1>4. /\ pc = "walk" /\ pc' \in {"remainder", "batch"}
      /\ UNCHANGED <<input, setup, sinkOpen, delivered, status, pos, cur>>
  BY DEF Bgzf!WalkEnds, Bgzf!environment
<1>5. SlicesAt(cur, bs) /\ pos = 8 * HdrAt(bs[Len(cur)])
  BY <1>1, <1>4 DEF BgzfAt
<1>6. PICK b \in Boundaries : b = bs[Len(cur)]
  BY <1>5, SlicesType
<1>7. HdrAt(b) \in Nat /\ at = HdrAt(b)
  BY <1>2, <1>5, <1>6, BoundaryNumbers, WholeBytes
<1>8. walk' = "truncated" => CutAt(input', pos' \div 8)
  <2>1. ASSUME size # NoBlockSize PROVE CutAt(input, at)
    <3>1. b \in input.bgzf /\ HdrAt(b) < input.len /\ HdrAt(b) + size = MemberLimit(LastBlock(b))
      BY <1>3, <1>7, <2>1, StatedBgzf
    <3> QED BY <1>3, <1>7, <2>1, <3>1 DEF CutAt
  <2> QED BY <1>2, <1>3, <1>4, <2>1
<1>9. BgzfClean'
  BY <1>4, <1>8 DEF BgzfClean
<1> QED BY <1>4, <1>9, KeptSteps

\* What is wrong with the member at boundary b, if something is, when its slice is decoded.
LEMMA SliceVerdict ==
    ASSUME input \in Inputs, NEW b \in Boundaries, b \in Blocks, NEW limit \in Nat, limit <= input.len,
           limit = MemberLimit(LastBlock(b)), CleanTo(input, b)
    PROVE  /\ Bgzf!DecodeOneIndexed(b, limit) = "ok" => CleanTo(input, LastBlock(b) + 1)
           /\ Bgzf!DecodeOneIndexed(b, limit) # "ok" =>
                 \E j \in Blocks : /\ MemberStart(j) = b
                                   /\ input.fault[j] = Bgzf!DecodeOneIndexed(b, limit)
           /\ Bgzf!DecodeOneIndexed(b, limit) # "none"
<1>1. b \in FirstBlocks /\ HeaderAt(b) = HdrAt(b) /\ BlockStart[b] = 8 * (HdrAt(b) + HeaderLen) /\ MemberStart(b) = b
      /\ HdrAt(b) \in Nat /\ HeaderLen \in Nat /\ HeaderLen >= 10
  BY BoundaryStarts, BoundaryNumbers, Constants
<1>2. PICK l \in Blocks : l = LastBlock(b) /\ l \in MemberEnds /\ b <= l /\ MemberStart(l) = b
  BY <1>1, LastBlocks
<1>3. HdrAt(b) + HeaderLen <= limit
  <2>1. /\ BlockEnd(l) \in Nat /\ BlockEnd(b) \in Nat /\ BlockEnd(b) > BlockStart[b] /\ TrailerAt(l) \in Nat
        /\ 8 * TrailerAt(l) >= BlockEnd(l) /\ MemberLimit(l) = TrailerAt(l) + 8
    BY <1>2, Positions
  <2>2. b <= b
    BY Constants
  <2>3. BlockEnd(b) <= BlockEnd(l)
    BY <1>2, <2>2, EndsWithin
  <2> QED BY <1>1, <1>2, <2>1, <2>3
<1>4. PICK h : h = ParseHeader(HdrAt(b), limit)
  OBVIOUS
<1>5. HdrAt(b) < limit
  BY <1>1, <1>3
<1>6. /\ h = "ok" => input.fault[b] # "header"
      /\ h = "truncated" => limit - HdrAt(b) < HeaderLen
      /\ h = "header" => input.fault[b] = "header"
      /\ h \in {"ok", "truncated", "header"}
  BY <1>4, <1>5, HeaderHere
<1>7. h # "truncated"
  BY <1>1, <1>3, <1>6
<1>8. PICK crc, uc : /\ crc = Bytes(OutStart[b], OutEnd(l)) /\ uc = Len(crc)
  OBVIOUS
<1>9. FoldedAt(crc, uc, TrailerAt(l))
  <2>1. OutStart[b] \in Nat /\ OutEnd(l) \in Nat /\ OutStart[b] <= OutEnd(l)
    BY <1>2, MemberOutput
  <2>2. uc = OutEnd(l) - OutStart[b]
    BY <1>8, <2>1, BytesType
  <2> QED BY <1>2, <1>8, <2>2, OneTrailerHere DEF FoldedAt, MemberOutAt
<1>10. PICK v : v = TrailerVerdict(TrailerAt(l), crc, uc)
  OBVIOUS
<1>11. /\ v = "ok" => input.fault[l] \notin {"crc", "isize"}
       /\ v # "ok" => input.fault[l] = v
  BY <1>2, <1>9, <1>10, VerdictHere
<1>18. v # "none"
  BY <1>10 DEF TrailerVerdict
<1>12. Bgzf!DecodeOneIndexed(b, limit) =
         IF h # "ok" THEN h
         ELSE IF \E j \in b .. l : input.fault[j] = "deflate" \/ NeedsBits(j) > 8 * limit THEN "deflate"
         ELSE IF MemberLimit(l) > limit THEN "truncated"
         ELSE v
  BY <1>1, <1>2, <1>4, <1>8, <1>10, BgzfLayout, BgzfParsers, Zenon DEF Bgzf!DecodeOneIndexed, Bgzf!MemberBytes
<1>13. ~(MemberLimit(l) > limit)
  BY <1>2
<1>14. \A j \in b .. l : j \in Blocks /\ MemberStart(j) = b /\ NeedsBits(j) <= 8 * limit
  <2>1. ASSUME NEW j \in b .. l PROVE j \in Blocks /\ b <= j /\ j <= l
    BY <1>2, Constants
  <2>2. ASSUME NEW j \in b .. l PROVE MemberStart(j) = b /\ NeedsBits(j) <= 8 * limit
    <3>1. j \in Blocks /\ b <= j /\ j <= LastBlock(b)
      BY <1>2, <2>1
    <3>2. MemberStart(j) = b
      BY <1>1, <3>1, SameMember
    <3>3. LastBlock(j) = l
      BY <1>2, <3>1, SameEnd
    <3> QED BY <1>2, <3>1, <3>2, <3>3, NeedsWithin
  <2> QED BY <2>1, <2>2
<1>15. CASE h # "ok"
  <2>1. h = "header" /\ input.fault[b] = "header"
    BY <1>6, <1>7, <1>15
  <2> QED BY <1>1, <1>12, <1>15, <2>1
<1>16. CASE h = "ok" /\ \E j \in b .. l : input.fault[j] = "deflate" \/ NeedsBits(j) > 8 * limit
  <2>1. PICK j \in b .. l : input.fault[j] = "deflate" \/ NeedsBits(j) > 8 * limit
    BY <1>16
  <2>2. j \in Blocks /\ MemberStart(j) = b /\ NeedsBits(j) <= 8 * limit /\ NeedsBits(j) \in Nat
    BY <1>14, Positions
  <2>3. input.fault[j] = "deflate"
    BY <2>1, <2>2
  <2>4. Bgzf!DecodeOneIndexed(b, limit) = "deflate"
    BY <1>12, <1>16
  <2> QED BY <2>2, <2>3, <2>4
<1>17. CASE h = "ok" /\ ~(\E j \in b .. l : input.fault[j] = "deflate" \/ NeedsBits(j) > 8 * limit)
  <2>1. Bgzf!DecodeOneIndexed(b, limit) = v
    BY <1>12, <1>13, <1>17
  <2>2. ASSUME v = "ok" PROVE CleanTo(input, l + 1)
    <3>1. input.fault[b] # "header" /\ input.fault[l] \notin {"crc", "isize"} /\ MemberLimit(l) <= input.len
      BY <1>2, <1>6, <1>11, <1>17, <2>2
    <3>2. \A j \in b .. l : input.fault[j] # "deflate"
      BY <1>17
    <3> QED BY <1>1, <1>2, <3>1, <3>2, MemberSound
  <2>3. ASSUME v # "ok" PROVE input.fault[l] = v
    BY <1>11, <2>3
  <2> QED BY <1>2, <1>18, <2>1, <2>2, <2>3
<1> QED BY <1>15, <1>16, <1>17

\* The slices of a batch after the first has left it.
LEMMA SlicesInFewer ==
    ASSUME NEW cs \in Seq([at : Nat, limit : Nat]), NEW i, \A j \in 1 .. Len(cs) : SliceIn(i, cs[j]), cs # <<>>
    PROVE  SliceIn(i, Head(cs)) /\ \A j \in 1 .. Len(Tail(cs)) : SliceIn(i, Tail(cs)[j])
<1> DEFINE R == [at : Nat, limit : Nat]
<1>0. cs \in Seq(R)
  OBVIOUS
<1> HIDE DEF R
<1>1. PICK n \in Nat : n = Len(cs) /\ n # 0
  BY <1>0, LenProperties, EmptySeq
<1>2. Head(cs) = cs[1] /\ Len(Tail(cs)) = n - 1 /\ \A j \in 1 .. n - 1 : Tail(cs)[j] = cs[j + 1]
  BY <1>0, <1>1, HeadTailProperties
<1>3. 1 \in 1 .. n /\ \A j \in 1 .. n - 1 : j + 1 \in 1 .. n
  BY <1>1
<1> QED BY <1>1, <1>2, <1>3

\* A member of the batch is decoded.
LEMMA BgzfDecodeKept ==
    ASSUME input \in Inputs, BgzfInv, BgzfClean, delivered \in Seq(Nat), Bgzf!DecodeMember
    PROVE  Kept /\ BgzfClean' /\ delivered' \in Seq(Nat)
<1>1. PICK c \in Nat, bs \in Batches : BgzfAt(c, bs)
  BY DEF BgzfInv
<1>2. pc = "batch" /\ cur # <<>> /\ Running /\ Bgzf!Running
  BY DEF Bgzf!DecodeMember, Bgzf!Running, Running
<1>3. SlicesAt(cur, bs) /\ pos = 8 * HdrAt(bs[Len(cur)])
  BY <1>1 DEF BgzfAt
<1>4. PICK b, e : b = bs[0] /\ e = bs[1] /\ IsSlice(Head(cur), b, e)
  BY <1>2, <1>3, SlicesPop
<1>5. b \in Blocks /\ b \in Boundaries /\ e = LastBlock(b) + 1 /\ Head(cur).at = HdrAt(b)
  BY <1>4 DEF IsSlice
<1>6. PICK k, o, v :
        /\ k \in FirstBlocks /\ HeaderAt(k) = Head(cur).at
        /\ o = Bgzf!DecodeOneIndexed(k, Head(cur).limit)
        /\ v = IF setup.backend THEN (IF o = "ok" THEN "ok" ELSE "deflate") ELSE o
        /\ \/ v # "ok" /\ Bgzf!Return(v)
           \/ /\ v = "ok"
              /\ cur' = Tail(cur)
              /\ UNCHANGED <<input, setup, sinkOpen, delivered, status, pc, pos, walk>>
  BY BgzfLayout DEF Bgzf!DecodeMember, Bgzf!Verdict, Bgzf!DecodeGzipMember, Bgzf!environment
<1>7. k = b
  BY <1>5, <1>6, OneHeaderHere
<1>8. /\ SliceIn(input, Head(cur))
      /\ \A j \in 1 .. Len(Tail(cur)) : SliceIn(input, Tail(cur)[j])
  BY <1>2, <1>3, SlicesType, SlicesInFewer DEF BgzfClean
<1>9. b \in input.bgzf /\ Head(cur).limit = MemberLimit(LastBlock(b)) /\ Head(cur).limit <= input.len
  <2>1. PICK j \in input.bgzf : /\ Head(cur).at = HdrAt(j) /\ Head(cur).limit = MemberLimit(LastBlock(j))
                                /\ Head(cur).limit <= input.len
    BY <1>8 DEF SliceIn
  <2>2. j \in Boundaries
    BY InputLength, FirstIsBoundary
  <2>3. j = b
    BY <1>5, <2>1, <2>2, OneBoundaryHere
  <2> QED BY <2>1, <2>3
<1>10. Head(cur).limit \in Nat /\ HdrAt(b) < Head(cur).limit
  <2>1. PICK l \in Blocks : l = LastBlock(b) /\ b <= l
    BY <1>5, LastBlocks
  <2>2. /\ BlockStart[b] \in Nat /\ BlockEnd(b) > BlockStart[b] /\ BlockEnd(b) \in Nat /\ BlockEnd(l) \in Nat
        /\ TrailerAt(l) \in Nat /\ 8 * TrailerAt(l) >= BlockEnd(l) /\ MemberLimit(l) = TrailerAt(l) + 8
        /\ BlockStart[b] = 8 * (HdrAt(b) + HeaderLen) /\ HdrAt(b) \in Nat /\ HeaderLen \in Nat
    BY <1>5, Positions, BoundaryStarts, BoundaryNumbers, Constants
  <2>3. BlockEnd(b) <= BlockEnd(l)
    <3>1. b <= b
      BY <1>5, Constants
    <3> QED BY <1>5, <2>1, <3>1, EndsWithin
  <2> QED BY <1>9, <2>1, <2>2, <2>3
<1>11. CleanTo(input, b)
  <2>1. (IF cur = <<>> THEN pos \div 8 ELSE Head(cur).at) = HdrAt(b)
    BY <1>2, <1>5
  <2> QED BY <1>5, <2>1 DEF BgzfClean, AtHeader
<1>12. /\ o = "ok" => CleanTo(input, LastBlock(b) + 1)
       /\ o # "ok" => \E j \in Blocks : MemberStart(j) = b /\ input.fault[j] = o
       /\ o # "none"
  BY <1>5, <1>6, <1>7, <1>9, <1>10, <1>11, SliceVerdict
<1>13. CASE v # "ok" /\ Bgzf!Return(v)
  <2>1. Returns(v) /\ BgzfClean'
    BY <1>2, <1>13, BgzfReturnKept
  <2>2. PICK j \in Blocks : MemberStart(j) = b /\ input.fault[j] = o /\ o # "ok"
    BY <1>6, <1>12, <1>13
  <2>3. PresentIn(input, j)
    <3>1. HeaderAt(b) = HdrAt(b) /\ HdrAt(b) \in Nat /\ input.len \in Nat
      BY <1>5, BoundaryStarts, BoundaryNumbers, InputLength
    <3>2. HdrAt(b) < input.len
      BY <1>9, <1>10, <3>1
    <3> QED BY <2>2, <3>1, <3>2 DEF PresentIn
  <2>4. o # "none" /\ ~SoundIn(input, j)
    <3>1. o # "none"
      BY <1>12
    <3> QED BY <2>2, <3>1 DEF SoundIn
  <2>5. v \in CausesIn(input, setup, j)
    <3>1. CASE setup.backend
      BY <1>6, <1>9, <1>13, <2>2, <3>1 DEF CausesIn
    <3>2. CASE ~setup.backend
      BY <1>6, <2>2, <2>4, <3>2 DEF CausesIn
    <3> QED BY <3>1, <3>2
  <2>6. Blame(input, setup, j, v)
    BY <2>3, <2>4, <2>5, BlameHere
  <2>7. Promise!Fail
    BY <2>1, <2>6, BgzfNotSerial, FailSomewhere
  <2>8. delivered' = delivered
    BY <2>1 DEF Returns
  <2> QED BY <2>1, <2>7, <2>8, KeptSteps
<1>14. CASE /\ v = "ok"
            /\ cur' = Tail(cur)
            /\ UNCHANGED <<input, setup, sinkOpen, delivered, status, pc, pos, walk>>
  <2>1. o = "ok"
    BY <1>6, <1>14
  <2>2. CleanTo(input, e)
    BY <1>5, <1>12, <2>1
  <2>3. PICK bt : SlicesAt(Tail(cur), bt) /\ bt[0] = e /\ bt[Len(Tail(cur))] = bs[Len(cur)]
    BY <1>2, <1>3, <1>4, SlicesPop
  <2>4. (IF Tail(cur) = <<>> THEN pos \div 8 ELSE Head(Tail(cur)).at) = HdrAt(e)
    <3>1. pos = 8 * HdrAt(bt[Len(Tail(cur))])
      BY <1>3, <2>3
    <3> QED BY <2>3, <3>1, BatchStarts
  <2>5. e \in Boundaries
    BY <1>4 DEF IsSlice
  <2>6. AtHeader(input, HdrAt(e))
    BY <2>2, <2>5, AtPositions
  <2>7. AtHeader(input', IF cur' = <<>> THEN pos' \div 8 ELSE Head(cur').at)
    BY <1>14, <2>4, <2>6
  <2>8. \A j \in 1 .. Len(cur') : SliceIn(input', cur'[j])
    BY <1>8, <1>14
  <2>9. BgzfClean'
    BY <1>14, <2>7, <2>8 DEF BgzfClean
  <2> QED BY <1>14, <2>9, KeptSteps
<1> QED BY <1>6, <1>13, <1>14

\* The batch is sent.
LEMMA BgzfSendKept ==
    ASSUME input \in Inputs, BgzfInv, BgzfClean, delivered \in Seq(Nat), Bgzf!SendBatch
    PROVE  Kept /\ BgzfClean' /\ delivered' \in Seq(Nat)
<1>1. PICK c \in Nat, bs \in Batches : BgzfAt(c, bs)
  BY DEF BgzfInv
<1>2. pc = "batch" /\ cur = <<>> /\ Running /\ Bgzf!Running
  BY DEF Bgzf!SendBatch, Bgzf!Running, Running
<1>3. /\ Sent(c) /\ SlicesAt(cur, bs) /\ pos = 8 * HdrAt(bs[Len(cur)])
      /\ out = Bytes(c, OutAt(bs[0])) /\ c <= OutAt(bs[0])
  BY <1>1 DEF BgzfAt
<1>4. PICK b \in Boundaries : b = bs[0] /\ pos \div 8 = HdrAt(b)
  BY <1>2, <1>3, SlicesType, BatchStarts
<1>5. CleanTo(input, b)
  BY <1>2, <1>4 DEF BgzfClean, AtHeader
<1>6. CASE ~sinkOpen /\ Bgzf!Return("closed")
  <2>1. PICK s : s = "closed" /\ Returns(s) /\ BgzfClean'
    BY <1>2, <1>6, BgzfReturnKept
  <2>2. delivered' = delivered
    BY <2>1 DEF Returns
  <2> QED BY <1>6, <2>1, <2>2, KeptSteps
<1>7. CASE /\ sinkOpen /\ delivered' = delivered \o out
           /\ pc' = (IF walk = "on" THEN "walk" ELSE "remainder")
           /\ UNCHANGED <<input, setup, sinkOpen, status, pos, walk, cur>>
  <2>1. PICK y \in Nat : y = OutAt(b) /\ c <= y
    BY <1>3, <1>4, BoundaryNumbers
  <2>2. delivered = Bytes(0, c)
    BY <1>3, <1>7 DEF Sent, IsOutput
  <2>3. Bytes(0, c) \o Bytes(c, y) = Bytes(0, y)
    <3>1. 0 \in Nat /\ 0 <= c /\ c <= y
      BY <2>1
    <3> QED BY <3>1, BytesConcat
  <2>4. delivered' = Bytes(0, y)
    BY <1>3, <1>4, <1>7, <2>1, <2>2, <2>3
  <2>5. BgzfClean'
    BY <1>2, <1>7 DEF BgzfClean, AtHeader
  <2>6. delivered' \in Seq(Nat)
    BY <2>4, OutputType DEF IsOutput
  <2>7. CASE b = 0
    <3>1. y = 0 /\ c = 0
      BY <2>1, <2>7 DEF OutAt
    <3>2. delivered' = delivered
      BY <2>2, <2>4, <3>1
    <3> QED BY <1>7, <2>5, <2>6, <3>2, KeptSteps
  <2>8. CASE b # 0
    <3>1. PICK k \in Blocks : k = b - 1 /\ k < b /\ OutAt(b) = OutEnd(k)
      BY <2>8, BoundaryNumbers, Constants DEF Boundaries, OutAt
    <3>2. SoundIn(input, k)
      BY <1>5, <3>1 DEF CleanTo
    <3>3. CleanTo(input, k) /\ DecodesIn(input, k)
      <4>1. \A j \in Blocks : j < k => j < b
        BY <3>1, BoundaryNumbers, Constants
      <4> QED BY <1>5, <3>2, <4>1 DEF CleanTo, SoundIn, DecodesIn
    <3>4. y <= OutEnd(k)
      BY <2>1, <3>1
    <3>5. Promise!Deliver
      BY <1>2, <1>7, <2>1, <2>2, <2>4, <3>3, <3>4, DeliverStep
    <3> QED BY <2>5, <2>6, <3>5, KeptSteps
  <2> QED BY <2>7, <2>8
<1> QED BY <1>6, <1>7 DEF Bgzf!SendBatch, Bgzf!environment, Bgzf!bgzfVars

\* After the last batch.
LEMMA BgzfRemainderKept ==
    ASSUME input \in Inputs, BgzfInv, BgzfClean, delivered \in Seq(Nat), Bgzf!Remainder
    PROVE  Kept /\ BgzfClean' /\ delivered' \in Seq(Nat)
<1>1. PICK c \in Nat, bs \in Batches : BgzfAt(c, bs)
  BY DEF BgzfInv
<1>2. pc = "remainder" /\ Running /\ Bgzf!Running
  BY DEF Bgzf!Remainder, Bgzf!Running, Running
<1>3. /\ cur = <<>> /\ Sent(c) /\ SlicesAt(cur, bs) /\ pos = 8 * HdrAt(bs[Len(cur)]) /\ c = OutAt(bs[0])
      /\ pos <= 8 * input.len
  BY <1>1, <1>2 DEF BgzfAt
<1>4. PICK b \in Boundaries : b = bs[0] /\ pos \div 8 = HdrAt(b)
  BY <1>3, SlicesType, BatchStarts
<1>5. CleanTo(input, b)
  BY <1>3, <1>4 DEF BgzfClean, AtHeader
<1>6. CASE walk = "truncated" /\ Bgzf!Return("truncated")
  <2>1. PICK s : s = "truncated" /\ Returns(s) /\ BgzfClean'
    BY <1>2, <1>6, BgzfReturnKept
  <2>2. delivered' = delivered
    BY <2>1 DEF Returns
  <2>3. PICK k \in input.bgzf : HdrAt(k) < input.len /\ MemberLimit(LastBlock(k)) > input.len
    BY <1>6 DEF BgzfClean, CutAt
  <2>4. k \in Boundaries /\ k \in Blocks /\ HeaderAt(k) = HdrAt(k) /\ MemberStart(k) = k
    BY InputLength, FirstIsBoundary, BoundaryStarts
  <2>5. PICK l \in Blocks : l = LastBlock(k) /\ l \in MemberEnds /\ MemberStart(l) = k
    BY <2>4, LastBlocks
  <2>6. PresentIn(input, l)
    BY <2>3, <2>4, <2>5 DEF PresentIn
  <2>7. CutOff(input, l) /\ ~SoundIn(input, l)
    <3>1. MemberLimit(l) \in Nat /\ input.len \in Nat
      BY <2>5, Positions, InputLength
    <3> QED BY <2>3, <2>5, <3>1 DEF CutOff, SoundIn, TrailerIn
  <2>8. s \in CausesIn(input, setup, l)
    BY <2>1, <2>7 DEF CausesIn
  <2>9. Blame(input, setup, l, s)
    BY <2>6, <2>7, <2>8, BlameHere
  <2>10. Promise!Fail
    BY <2>1, <2>9, BgzfNotSerial, FailSomewhere
  <2> QED BY <2>1, <2>2, <2>10, KeptSteps
<1>7. CASE HdrAt(b) = input.len /\ Bgzf!Return("ok")
  <2>1. Returns("ok") /\ BgzfClean'
    BY <1>2, <1>7, BgzfReturnKept
  <2>2. delivered' = delivered
    BY <2>1 DEF Returns
  <2>3. b # 0
    <3>1. input.len > 0 /\ HdrAt(0) = 0
      BY DEF BgzfClean, HdrAt
    <3> QED BY <1>7, <3>1
  <2>4. sinkOpen => delivered = Bytes(0, OutAt(b))
    BY <1>3, <1>4 DEF Sent, IsOutput
  <2>5. Promise!Succeed
    BY <1>5, <1>7, <2>1, <2>3, <2>4, SucceedStep
  <2> QED BY <2>1, <2>2, <2>5, KeptSteps
<1>8. CASE /\ pos \div 8 < input.len /\ pc' = "header"
           /\ UNCHANGED <<input, setup, sinkOpen, delivered, status, pos, walk, cur>>
  <2>1. BgzfClean'
    BY <1>8 DEF BgzfClean, AtHeader
  <2> QED BY <1>8, <2>1, KeptSteps
<1> QED BY <1>4, <1>6, <1>7, <1>8 DEF Bgzf!Remainder, Bgzf!At, Bgzf!environment, Bgzf!bgzfVars

\* Every step of BgzfChain.
LEMMA BgzfStepsKept ==
    ASSUME input \in Inputs, BgzfInv, BgzfClean, delivered \in Seq(Nat), Bgzf!Step
    PROVE  Kept /\ BgzfClean' /\ delivered' \in Seq(Nat)
  BY BgzfWalkKept, BgzfWalkEndsKept, BgzfDecodeKept, BgzfSendKept, BgzfRemainderKept DEF Bgzf!Step

-----------------------------------------------------------------------------
(* ChunkChain keeps the promise. *)

\* The boundaries of the members that end in a chunk, in order.
LEMMA PendingType ==
    ASSUME NEW es \in Seq([offset : Nat, trailer : Nat]), NEW bs, NEW p, PendingAt(es, bs, p)
    PROVE  /\ Len(es) \in Nat /\ bs \in Batches
           /\ \A i \in 0 .. Len(es) : bs[i] \in Boundaries
           /\ bs[0] \in Boundaries /\ bs[Len(es)] \in Boundaries
<1> DEFINE R == [offset : Nat, trailer : Nat]
<1>1. es \in Seq(R) /\ bs \in [0 .. Len(es) -> Boundaries]
  BY DEF PendingAt
<1> HIDE DEF R
<1>2. Len(es) \in Nat
  BY <1>1, LenProperties
<1>3. \A i \in 0 .. Len(es) : bs[i] \in Boundaries
  BY <1>1
<1>4. 0 \in 0 .. Len(es) /\ Len(es) \in 0 .. Len(es)
  BY <1>2
<1> QED BY <1>1, <1>2, <1>3, <1>4 DEF Batches

\* No member ends in the chunk.
LEMMA PendingNone ==
    ASSUME NEW b \in Boundaries, NEW p
    PROVE  \E bs \in Batches : PendingAt(<<>>, bs, p) /\ bs[0] = b /\ bs[Len(<<>>)] = b
<1> DEFINE bs == [i \in 0 .. 0 |-> b]
<1>1. Len(<<>>) = 0
  BY EmptySeq
<1>2. bs \in [0 .. 0 -> Boundaries] /\ bs[0] = b /\ \A i \in 0 .. 0 : bs[i] = b
  OBVIOUS
<1>3. 1 .. 0 = {} /\ b \in Nat /\ b <= b
  BY BoundaryNumbers
<1> HIDE DEF bs
<1>4. bs \in Batches
  BY <1>2 DEF Batches
<1>5. PendingAt(<<>>, bs, p)
  BY <1>1, <1>2, <1>3 DEF PendingAt
<1> QED BY <1>1, <1>2, <1>4, <1>5

\* A member ends in the chunk.
LEMMA PendingAppend ==
    ASSUME NEW es \in Seq([offset : Nat, trailer : Nat]), NEW bs, NEW p, PendingAt(es, bs, p),
           NEW x \in [offset : Nat, trailer : Nat], NEW e \in Boundaries, EndHere(x, bs[Len(es)], e, p),
           bs[Len(es)] <= e
    PROVE  \E bt \in Batches : /\ PendingAt(Append(es, x), bt, p) /\ bt[0] = bs[0]
                               /\ bt[Len(Append(es, x))] = e
<1> DEFINE R == [offset : Nat, trailer : Nat]
<1>1. /\ es \in Seq(R) /\ Len(es) \in Nat /\ x \in R
      /\ \A i \in 0 .. Len(es) : bs[i] \in Boundaries
  BY PendingType
<1> HIDE DEF R
<1>2. PICK n \in Nat : n = Len(es)
  BY <1>1
<1>3. /\ \A i \in 1 .. n : EndHere(es[i], bs[i - 1], bs[i], p)
      /\ \A i, j \in 0 .. n : i <= j => bs[i] <= bs[j]
      /\ \A i \in 0 .. n : bs[i] \in Boundaries
      /\ EndHere(x, bs[n], e, p) /\ bs[n] <= e
  BY <1>1, <1>2 DEF PendingAt
<1>4. PICK u : u = Append(es, x)
  OBVIOUS
<1>5. u \in Seq(R) /\ Len(u) = n + 1 /\ \A i \in 1 .. n + 1 : u[i] = IF i <= n THEN es[i] ELSE x
  <2>1. u \in Seq(R) /\ Len(u) = n + 1
    BY <1>1, <1>2, <1>4, AppendProperties
  <2>2. \A i \in 1 .. n + 1 : u[i] = IF i <= n THEN es[i] ELSE x
    BY <1>1, <1>2, <1>4, AppendProperties
  <2> QED BY <2>1, <2>2
<1> DEFINE bt == [i \in 0 .. n + 1 |-> IF i <= n THEN bs[i] ELSE e]
<1>6. bt \in [0 .. n + 1 -> Boundaries]
  BY <1>3
<1>7. \A i \in 0 .. n : bt[i] = bs[i]
  OBVIOUS
<1>8. bt[n + 1] = e
  OBVIOUS
<1> HIDE DEF bt
<1>9. ASSUME NEW i \in 1 .. n + 1 PROVE EndHere(u[i], bt[i - 1], bt[i], p)
  <2>1. CASE i <= n
    <3>1. i \in 1 .. n /\ i \in 0 .. n /\ i - 1 \in 0 .. n
      BY <2>1
    <3>2. bt[i] = bs[i] /\ bt[i - 1] = bs[i - 1] /\ u[i] = es[i]
      BY <1>5, <1>7, <2>1, <3>1
    <3> QED BY <1>3, <3>1, <3>2
  <2>2. CASE ~(i <= n)
    <3>1. i = n + 1 /\ i - 1 = n /\ n \in 0 .. n
      BY <2>2
    <3>2. bt[i] = e /\ bt[i - 1] = bs[n] /\ u[i] = x
      BY <1>5, <1>7, <1>8, <2>2, <3>1
    <3> QED BY <1>3, <3>2
  <2> QED BY <2>1, <2>2
<1>10. ASSUME NEW i \in 0 .. n + 1, NEW j \in 0 .. n + 1, i <= j PROVE bt[i] <= bt[j]
  <2>1. CASE j <= n
    <3>1. i \in 0 .. n /\ j \in 0 .. n
      BY <1>10, <2>1
    <3> QED BY <1>3, <1>7, <1>10, <3>1
  <2>2. CASE i <= n /\ ~(j <= n)
    <3>1. i \in 0 .. n /\ n \in 0 .. n /\ j = n + 1
      BY <2>2
    <3>2. bs[i] <= bs[n] /\ bs[i] \in Nat /\ bs[n] \in Nat /\ e \in Nat
      BY <1>3, <2>2, <3>1, BoundaryNumbers
    <3>3. bs[i] <= e
      BY <1>3, <3>2
    <3> QED BY <1>7, <1>8, <3>1, <3>3
  <2>3. CASE ~(i <= n)
    <3>1. i = n + 1 /\ j = n + 1
      BY <1>10, <2>3
    <3>2. e \in Nat /\ e <= e
      BY BoundaryNumbers
    <3> QED BY <1>8, <3>1, <3>2
  <2> QED BY <2>1, <2>2, <2>3
<1>11. PendingAt(u, bt, p)
  BY <1>5, <1>6, <1>9, <1>10 DEF PendingAt
<1>12. bt[0] = bs[0] /\ bt[Len(u)] = e
  <2>1. 0 \in 0 .. n
    OBVIOUS
  <2> QED BY <1>5, <1>7, <1>8, <2>1
<1>13. bt \in Batches
  <2>1. n + 1 \in Nat
    OBVIOUS
  <2> QED BY <1>6, <2>1 DEF Batches
<1> QED BY <1>4, <1>11, <1>12, <1>13

\* The first member of the chunk is checked.
LEMMA PendingPop ==
    ASSUME NEW es \in Seq([offset : Nat, trailer : Nat]), NEW bs, NEW p, PendingAt(es, bs, p), es # <<>>
    PROVE  /\ EndHere(Head(es), bs[0], bs[1], p) /\ bs[1] \in Boundaries /\ bs[1] <= bs[Len(es)]
           /\ \E bt \in Batches : /\ PendingAt(Tail(es), bt, p) /\ bt[0] = bs[1]
                                  /\ bt[Len(Tail(es))] = bs[Len(es)]
<1> DEFINE R == [offset : Nat, trailer : Nat]
<1>1. /\ es \in Seq(R) /\ Len(es) \in Nat
      /\ \A i \in 0 .. Len(es) : bs[i] \in Boundaries
  BY PendingType
<1> HIDE DEF R
<1>2. Len(es) >= 1 /\ Head(es) = es[1]
  BY <1>1, HeadOfSome
<1>3. PICK n \in Nat : n + 1 = Len(es)
  <2>1. Len(es) - 1 \in Nat /\ (Len(es) - 1) + 1 = Len(es)
    BY <1>1, <1>2
  <2> QED BY <2>1
<1>4. /\ \A i \in 1 .. n + 1 : EndHere(es[i], bs[i - 1], bs[i], p)
      /\ \A i, j \in 0 .. n + 1 : i <= j => bs[i] <= bs[j]
      /\ \A i \in 0 .. n + 1 : bs[i] \in Boundaries
  BY <1>1, <1>3 DEF PendingAt
<1>5. PICK u : u = Tail(es)
  OBVIOUS
<1>6. u \in Seq(R) /\ Len(u) = n /\ \A i \in 1 .. n : u[i] = es[i + 1]
  <2>1. Tail(es) \in Seq(R) /\ Len(Tail(es)) = Len(es) - 1 /\ \A i \in 1 .. Len(es) - 1 : Tail(es)[i] = es[i + 1]
    BY <1>1, <1>2, HeadTailProperties
  <2>2. Len(es) - 1 = n
    BY <1>3
  <2> QED BY <1>5, <2>1, <2>2
<1>7. EndHere(Head(es), bs[0], bs[1], p) /\ bs[1] \in Boundaries /\ bs[1] <= bs[Len(es)]
  <2>1. PICK i : i = 1 /\ i \in 1 .. n + 1 /\ i \in 0 .. n + 1 /\ i - 1 = 0 /\ n + 1 \in 0 .. n + 1 /\ i <= n + 1
    OBVIOUS
  <2>2. EndHere(es[i], bs[0], bs[i], p) /\ bs[i] <= bs[n + 1] /\ bs[i] \in Boundaries
    BY <1>4, <2>1
  <2> QED BY <1>2, <1>3, <2>1, <2>2
<1> DEFINE bt == [i \in 0 .. n |-> bs[i + 1]]
<1>8. \A i \in 0 .. n : i + 1 \in 0 .. n + 1
  OBVIOUS
<1>9. bt \in [0 .. n -> Boundaries]
  BY <1>4, <1>8
<1>10. \A i \in 0 .. n : bt[i] = bs[i + 1]
  OBVIOUS
<1> HIDE DEF bt
<1>11. ASSUME NEW i \in 1 .. n PROVE EndHere(u[i], bt[i - 1], bt[i], p)
  <2>1. i \in 0 .. n /\ i - 1 \in 0 .. n /\ (i - 1) + 1 = i
    OBVIOUS
  <2>2. bt[i] = bs[i + 1] /\ bt[i - 1] = bs[i] /\ u[i] = es[i + 1]
    BY <1>6, <1>10, <2>1
  <2>3. PICK j : j = i + 1 /\ j \in 1 .. n + 1 /\ j - 1 = i
    OBVIOUS
  <2>4. EndHere(es[j], bs[i], bs[j], p)
    BY <1>4, <2>3
  <2> QED BY <2>2, <2>3, <2>4
<1>12. ASSUME NEW i \in 0 .. n, NEW j \in 0 .. n, i <= j PROVE bt[i] <= bt[j]
  <2>1. PICK a, b : /\ a = i + 1 /\ b = j + 1 /\ a \in 0 .. n + 1 /\ b \in 0 .. n + 1 /\ a <= b
    BY <1>12
  <2>2. bs[a] <= bs[b]
    BY <1>4, <2>1
  <2> QED BY <1>10, <2>1, <2>2
<1>13. PendingAt(u, bt, p)
  BY <1>6, <1>9, <1>11, <1>12 DEF PendingAt
<1>14. bt[0] = bs[1] /\ bt[Len(u)] = bs[Len(es)]
  <2>1. 0 \in 0 .. n /\ n \in 0 .. n /\ 0 + 1 = 1
    OBVIOUS
  <2> QED BY <1>3, <1>6, <1>10, <2>1
<1>15. bt \in Batches
  BY <1>9 DEF Batches
<1> QED BY <1>5, <1>7, <1>13, <1>14, <1>15

\* ChunkChain as both invariants see it: the chunk, whose output starts at p
\* and was decoded up to o, has the ends of members between the boundaries bs.
ChunkJoint(bs, p, o) ==
    /\ bs \in Batches /\ p \in Nat /\ o \in Nat /\ p <= o
    /\ ChunkCleanAt(bs, p) /\ ChunkFrontier(bs[Len(ends)], o)
    /\ Sent(p) /\ out = Bytes(p, o) /\ p + Len(out) = o
    /\ folded \in Nat /\ OutAt(bs[0]) <= p + folded /\ p + folded <= o
    /\ crcFed = Bytes(OutAt(bs[0]), p + folded) /\ memberUc = (p + folded) - OutAt(bs[0])
    /\ EndsAt(ends, folded, p, o)
    /\ ends \in Seq([offset : Nat, trailer : Nat])
    /\ pc # "output" => folded = 0
    /\ pc = "chunk" => p = o /\ ends = <<>>

\* Both invariants speak of the same output.
LEMMA OneFrontier ==
    ASSUME NEW f \in Boundaries, NEW o, NEW q, ChunkFrontier(f, o), ChunkPosition(q)
    PROVE  o = q
<1>1. CASE final
  <2>1. f # 0 /\ pos = 8 * HdrAt(f) /\ o = OutAt(f)
    BY <1>1 DEF ChunkFrontier
  <2>2. PICK k \in MemberEnds : pos = 8 * MemberLimit(k) /\ q = OutEnd(k)
    BY <1>1 DEF ChunkPosition
  <2>3. PICK l : l = f - 1 /\ l \in MemberEnds /\ HdrAt(f) = MemberLimit(l) /\ OutAt(f) = OutEnd(l)
    BY <2>1 DEF Boundaries, HdrAt, OutAt
  <2>4. /\ l \in Blocks /\ k \in Blocks /\ TrailerAt(l) \in Nat /\ TrailerAt(k) \in Nat
        /\ MemberLimit(l) = TrailerAt(l) + 8 /\ MemberLimit(k) = TrailerAt(k) + 8
    BY <2>3, Constants, Positions
  <2>5. TrailerAt(l) = TrailerAt(k)
    BY <2>1, <2>2, <2>3, <2>4
  <2> QED BY <2>1, <2>2, <2>3, <2>5, OneTrailerHere
<1>2. CASE ~final /\ pc = "trailer"
  <2>1. PICK k \in MemberEnds : BytesOfBits(pos) = TrailerAt(k) /\ o = OutEnd(k)
    BY <1>2 DEF ChunkFrontier
  <2>2. PICK j \in MemberEnds : BytesOfBits(pos) = TrailerAt(j) /\ q = OutEnd(j)
    BY <1>2 DEF ChunkPosition
  <2> QED BY <2>1, <2>2, OneTrailerHere
<1>3. CASE ~final /\ pc # "trailer"
  <2>1. PICK k \in Blocks : pos = BlockStart[k] /\ o = OutStart[k]
    BY <1>3 DEF ChunkFrontier
  <2>2. PICK j \in Blocks : pos = BlockStart[j] /\ q = OutStart[j]
    BY <1>3 DEF ChunkPosition
  <2> QED BY <2>1, <2>2, OneBlockHere
<1> QED BY <1>1, <1>2, <1>3

\* So they can be taken together.
LEMMA ChunkMeets ==
    ASSUME ChunkInv, ChunkClean
    PROVE  \E bs, p, o : ChunkJoint(bs, p, o)
<1>1. PICK m \in Nat, q \in Nat, o \in Nat : ChunkAt(m, q, o)
  BY DEF ChunkInv
<1>2. PICK bs \in Batches, p \in Nat : ChunkCleanAt(bs, p)
  BY DEF ChunkClean
<1>3. /\ m \in Boundaries /\ Sent(q) /\ q <= o /\ out = Bytes(q, o)
      /\ folded \in Nat /\ OutAt(m) <= q + folded /\ q + folded <= o
      /\ crcFed = Bytes(OutAt(m), q + folded) /\ memberUc = (q + folded) - OutAt(m)
      /\ EndsAt(ends, folded, q, o) /\ ChunkPosition(o)
      /\ pc # "output" => folded = 0
      /\ pc = "chunk" => q = o /\ ends = <<>>
  BY <1>1 DEF ChunkAt
<1>4. ends \in Seq([offset : Nat, trailer : Nat])
  BY <1>3 DEF EndsAt
<1>5. PendingAt(ends, bs, p) /\ OutAt(bs[0]) + memberUc = p + folded /\ ChunkFrontier(bs[Len(ends)], p + Len(out))
  BY <1>2 DEF ChunkCleanAt
<1>6. bs[Len(ends)] \in Boundaries /\ bs[0] \in Boundaries
  BY <1>4, <1>5, PendingType
<1>7. p + Len(out) = o
  BY <1>3, <1>5, <1>6, OneFrontier
<1>8. Len(out) = o - q
  BY <1>3, BytesType
<1>9. p = q
  BY <1>3, <1>7, <1>8
<1>10. PICK a \in Nat, b \in Nat : a = OutAt(m) /\ b = OutAt(bs[0])
  BY <1>3, <1>6, BoundaryNumbers
<1>11. a = b
  <2>1. PICK u : u = memberUc /\ u = (q + folded) - a /\ b + u = q + folded
    BY <1>3, <1>5, <1>9, <1>10
  <2>2. folded \in Nat
    BY <1>3
  <2> QED BY ONLY <2>1, <2>2, a \in Nat, b \in Nat, q \in Nat
<1>12. ChunkFrontier(bs[Len(ends)], o)
  BY <1>5, <1>7
<1> QED BY <1>2, <1>3, <1>4, <1>7, <1>9, <1>10, <1>11, <1>12 DEF ChunkJoint

\* The next state is clean if the new chunk is.
LEMMA ChunkCleanNext ==
    ASSUME NEW bs \in Batches, NEW p \in Nat, ChunkCleanAt(bs, p)', ChunkClean, UNCHANGED <<input, setup>>
    PROVE  ChunkClean'
  BY DEF ChunkClean

\* The decode returns.
LEMMA ChunkReturnKept ==
    ASSUME ChunkClean, Running, NEW s, Chunks!Return(s)
    PROVE  Returns(s) /\ ChunkClean' /\ delivered' = delivered
<1>1. /\ UNCHANGED <<input, setup, sinkOpen, delivered, pc, pos, hint, first, final, ends, room, tail, folded,
                     out, crcFed, memberUc>>
      /\ status' = s
  BY DEF Chunks!Return, Chunks!environment, Chunks!chunkVars, Chunks!memberVars
<1>2. PICK bs \in Batches, p \in Nat : ChunkCleanAt(bs, p)
  BY DEF ChunkClean
<1>3. \A f, o : ChunkFrontier(f, o) => ChunkFrontier(f, o)'
  BY <1>1 DEF ChunkFrontier
<1>4. ChunkCleanAt(bs, p)'
  BY <1>1, <1>2, <1>3 DEF ChunkCleanAt
<1>5. ChunkClean'
  BY <1>1, <1>2, <1>4, ChunkCleanNext
<1> QED BY <1>1, <1>5 DEF Returns

\* With more threads an error is that of some damage.
LEMMA ChunkNotSerial ==
    ASSUME ChunkClean
    PROVE  ~Promise!Serial
  BY DEF ChunkClean, Promise!Serial

\* An error of the chunk decoder.
LEMMA ChunkFails ==
    ASSUME ChunkClean, Running, delivered \in Seq(Nat), NEW k, NEW s, Blame(input, setup, k, s), Chunks!Return(s)
    PROVE  Kept /\ ChunkClean' /\ delivered' \in Seq(Nat)
<1>1. Returns(s) /\ ChunkClean' /\ delivered' = delivered
  BY ChunkReturnKept
<1>2. Promise!Fail
  BY <1>1, ChunkNotSerial, FailSomewhere
<1> QED BY <1>1, <1>2, KeptSteps

\* What holds of a chunk, piece by piece.
LEMMA JointParts ==
    ASSUME NEW bs, NEW p, NEW o, ChunkJoint(bs, p, o)
    PROVE  /\ bs \in Batches /\ p \in Nat /\ o \in Nat /\ p <= o /\ p + Len(out) = o
           /\ bs[0] \in Boundaries /\ bs[Len(ends)] \in Boundaries /\ Len(ends) \in Nat
           /\ PendingAt(ends, bs, p) /\ ends \in Seq([offset : Nat, trailer : Nat])
           /\ OutAt(bs[0]) + memberUc = p + folded /\ TailAt(tail, OutAt(bs[0]), p)
           /\ CleanTo(input, bs[0]) /\ ChunkFrontier(bs[Len(ends)], o)
           /\ pc \in {"top", "block", "library", "trailer"} => (first <=> ends = <<>>)
           /\ pc = "library" => ~first
           /\ Sent(p) /\ out = Bytes(p, o)
  BY PendingType DEF ChunkJoint, ChunkCleanAt

\* ChunkChain goes on in the chunk it is in.
LEMMA ChunkGoesOn ==
    ASSUME ChunkClean, NEW bs, NEW p, NEW o, ChunkJoint(bs, p, o), delivered \in Seq(Nat),
           UNCHANGED <<input, setup, delivered, sinkOpen, status, folded, memberUc, tail, ends>>,
           ChunkFrontier(bs[Len(ends)], p + Len(out))',
           pc' \in {"top", "block", "library", "trailer"} => (first' <=> ends = <<>>),
           pc' = "library" => ~first'
    PROVE  Kept /\ ChunkClean' /\ delivered' \in Seq(Nat)
<1>1. /\ PendingAt(ends, bs, p) /\ OutAt(bs[0]) + memberUc = p + folded
      /\ TailAt(tail, OutAt(bs[0]), p) /\ CleanTo(input, bs[0])
      /\ bs \in Batches /\ p \in Nat
  BY JointParts
<1>2. ChunkCleanAt(bs, p)'
  BY <1>1 DEF ChunkCleanAt
<1>3. ChunkClean'
  BY <1>1, <1>2, ChunkCleanNext
<1> QED BY <1>3, KeptSteps

\* The next chunk is started.
LEMMA ChunkStartKept ==
    ASSUME input \in Inputs, ChunkInv, ChunkClean, delivered \in Seq(Nat), Chunks!StartChunk
    PROVE  Kept /\ ChunkClean' /\ delivered' \in Seq(Nat)
<1>1. PICK bs, p, o : ChunkJoint(bs, p, o)
  BY ChunkMeets
<1>2. /\ pc = "chunk" /\ ~final /\ pc' = "top" /\ first' = TRUE /\ final' = FALSE /\ ends' = <<>> /\ out' = <<>>
      /\ UNCHANGED <<input, setup, delivered, sinkOpen, status, pos, folded, memberUc, tail>>
  BY DEF Chunks!StartChunk, Chunks!environment
<1>3. p = o /\ ends = <<>> /\ p \in Nat
  BY <1>1, <1>2 DEF ChunkJoint
<1>4. ends' = ends /\ (first' <=> ends = <<>>)
  BY <1>2, <1>3
<1>5. ChunkFrontier(bs[Len(ends)], o)
  BY <1>1, JointParts
<1>6. PICK k \in Blocks : /\ pos = BlockStart[k] /\ o = OutStart[k] /\ MemberStart(k) = bs[Len(ends)]
                          /\ DecodedTo(input, k) /\ Opened(input, k)
  BY <1>2, <1>5 DEF ChunkFrontier
<1>7. p + Len(out') = o
  <2>1. Len(<<>>) = 0
    BY EmptySeq
  <2> QED BY <1>2, <1>3, <2>1
<1>8. ChunkFrontier(bs[Len(ends)], p + Len(out))'
  BY <1>2, <1>4, <1>6, <1>7 DEF ChunkFrontier
<1> QED BY <1>1, <1>2, <1>4, <1>8, ChunkGoesOn

\* The top of the member loop.
LEMMA ChunkNextMemberKept ==
    ASSUME input \in Inputs, ChunkInv, ChunkClean, delivered \in Seq(Nat), Chunks!NextMember
    PROVE  Kept /\ ChunkClean' /\ delivered' \in Seq(Nat)
<1>1. PICK bs, p, o : ChunkJoint(bs, p, o)
  BY ChunkMeets
<1>2. /\ pc = "top" /\ pc' \in {"output", "library", "block"} /\ (pc' = "library" => ~first)
      /\ UNCHANGED <<input, setup, delivered, sinkOpen, status, pos, out, folded, memberUc, ends, tail, first, final>>
  BY DEF Chunks!NextMember, Chunks!environment, Chunks!memberVars
<1>3. ChunkFrontier(bs[Len(ends)], o) /\ p + Len(out) = o /\ (first <=> ends = <<>>)
  BY <1>1, <1>2, JointParts
<1>4. ChunkFrontier(bs[Len(ends)], p + Len(out))'
  BY <1>2, <1>3 DEF ChunkFrontier
<1> QED BY <1>1, <1>2, <1>3, <1>4, ChunkGoesOn

\* A block of a member that was opened, of which the bits are there, decodes.
LEMMA OpenedDecodes ==
    ASSUME NEW i \in Inputs, NEW k \in Blocks, Opened(i, k), i.fault[k] # "deflate", BlockEnd(k) <= 8 * i.len
    PROVE  DecodesIn(i, k)
  BY InputFacts DEF DecodesIn, Opened

\* The chunk has the history of the block it is at: of the first member with
\* the tail of the chunk before, of the others from their start.
LEMMA ChunkHistory ==
    ASSUME NEW bs, NEW p, NEW o, ChunkJoint(bs, p, o), pc = "block",
           NEW k \in Blocks, o = OutStart[k], MemberStart(k) = bs[Len(ends)]
    PROVE  HasHistory(k, IF first THEN tail \o out ELSE out)
<1>1. /\ p \in Nat /\ o \in Nat /\ p <= o /\ out = Bytes(p, o) /\ TailAt(tail, OutAt(bs[0]), p)
      /\ bs[0] \in Boundaries /\ bs[Len(ends)] \in Boundaries /\ (first <=> ends = <<>>)
      /\ PendingAt(ends, bs, p) /\ ends \in Seq([offset : Nat, trailer : Nat]) /\ Len(ends) \in Nat
  BY JointParts
<1>2. MemberStart(k) \in Blocks
  BY Members
<1>3. MemberOutAt(k) = OutAt(bs[Len(ends)])
  BY <1>1, <1>2, BoundaryStarts DEF MemberOutAt
<1>4. CASE first
  <2>1. Len(ends) = 0
    BY <1>1, <1>4, EmptySeq
  <2>2. PICK a \in Nat : a = OutAt(bs[0]) /\ a = MemberOutAt(k)
    BY <1>1, <1>3, <2>1, BoundaryNumbers
  <2>3. PICK q \in 0 .. p : tail = Bytes(q, p) /\ (q <= a \/ p - q >= Window)
    BY <1>1, <2>2 DEF TailAt
  <2>4. q \in Nat /\ q <= p /\ q <= o /\ (q <= a \/ o - q >= Window)
    BY <1>1, <2>3, Constants
  <2>5. tail \o out = Bytes(q, o)
    BY <1>1, <2>3, <2>4, BytesConcat
  <2> QED BY <1>4, <2>2, <2>4, <2>5, ReachIsHistory
<1>5. CASE ~first
  <2>1. PICK n \in Nat : n = Len(ends) /\ n # 0
    BY <1>1, <1>5, EmptySeq
  <2>2. n \in 1 .. n
    BY <2>1
  <2>3. p + ends[n].offset = OutAt(bs[n])
    BY <1>1, <2>1, <2>2 DEF PendingAt, EndHere
  <2>4. EndsAt(ends, folded, p, o)
    BY DEF ChunkJoint
  <2>5. ends[n].offset \in Nat
    BY <2>1, <2>2, <2>4, EndsType
  <2>6. p <= MemberOutAt(k)
    BY <1>1, <1>3, <2>1, <2>3, <2>5
  <2> QED BY <1>1, <1>5, <2>6, ReachIsHistory
<1> QED BY <1>4, <1>5

\* A block is decoded.
LEMMA ChunkDecodeKept ==
    ASSUME input \in Inputs, ChunkInv, ChunkClean, delivered \in Seq(Nat), Chunks!DecodeBlock
    PROVE  Kept /\ ChunkClean' /\ delivered' \in Seq(Nat)
<1>1. PICK bs, p, o : ChunkJoint(bs, p, o)
  BY ChunkMeets
<1>2. pc = "block" /\ Running
  BY DEF Chunks!DecodeBlock, Chunks!Running, Running
<1>3. PICK r \in InflateBlock(pos, input.len, IF first THEN tail \o out ELSE out) :
         \/ /\ r \in Blocks
            /\ out' = out \o Bytes(OutStart[r], OutEnd(r))
            /\ pos' = BlockEnd(r)
            /\ pc' = IF r \in MemberEnds THEN "trailer"
                     ELSE IF BlockEnd(r) >= hint THEN "output" ELSE "block"
            /\ UNCHANGED <<input, setup, delivered, sinkOpen, status, folded, memberUc, tail, ends, first, final>>
         \/ r \in {Eof, Invalid} /\ Chunks!Return("deflate")
  BY ChunksLayout, ChunksParsers DEF Chunks!DecodeBlock, Chunks!environment, Chunks!chunkVars
<1>4. ChunkFrontier(bs[Len(ends)], o)
  BY <1>1, JointParts
<1>5. PICK k \in Blocks : /\ pos = BlockStart[k] /\ o = OutStart[k] /\ MemberStart(k) = bs[Len(ends)]
                          /\ DecodedTo(input, k) /\ Opened(input, k) /\ ~final
  BY <1>2, <1>4 DEF ChunkFrontier
<1>6. /\ p \in Nat /\ o \in Nat /\ p <= o /\ out = Bytes(p, o) /\ (first <=> ends = <<>>)
      /\ input.len \in Nat /\ input.len <= input.len
  BY <1>1, <1>2, JointParts, InputLength
<1>7. CASE r \notin Blocks
  <2>1. PICK h : h = (IF first THEN tail \o out ELSE out) /\ HasHistory(k, h)
    BY <1>1, <1>2, <1>5, ChunkHistory
  <2>2. r \in InflateBlock(BlockStart[k], input.len, h)
    BY <1>3, <1>5, <2>1
  <2>3. input.fault[k] = "deflate" \/ NeedsBits(k) > 8 * input.len
    BY <1>6, <1>7, <2>1, <2>2, BlockRefused
  <2>4. PICK s : s = "deflate" /\ s \in {"truncated", "deflate"} /\ Chunks!Return(s)
    BY <1>3, <1>7
  <2>5. Blame(input, setup, k, s)
    BY <1>5, <2>3, <2>4, BlockBlamed
  <2> QED BY <1>2, <2>4, <2>5, ChunkFails
<1>8. CASE r \in Blocks
  <2>1. r = k /\ input.fault[k] # "deflate" /\ BlockEnd(k) <= 8 * input.len
    <3>1. PICK h : h = (IF first THEN tail \o out ELSE out)
      OBVIOUS
    <3>2. r \in InflateBlock(BlockStart[k], input.len, h)
      BY <1>3, <1>5, <3>1
    <3> QED BY <1>6, <1>8, <3>2, BlockTaken
  <2>2. /\ out' = out \o Bytes(OutStart[k], OutEnd(k)) /\ pos' = BlockEnd(k)
        /\ pc' = IF k \in MemberEnds THEN "trailer"
                 ELSE IF BlockEnd(k) >= hint THEN "output" ELSE "block"
        /\ UNCHANGED <<input, setup, delivered, sinkOpen, status, folded, memberUc, tail, ends, first, final>>
    <3>1. r \notin {Eof, Invalid}
      BY <1>8, Constants DEF Eof, Invalid
    <3> QED BY <1>3, <2>1, <3>1
  <2>3. DecodesIn(input, k)
    BY <1>5, <2>1, OpenedDecodes
  <2>4. OutEnd(k) \in Nat /\ OutStart[k] <= OutEnd(k)
    BY Positions
  <2>5. p + Len(out') = OutEnd(k)
    <3>1. out' = Bytes(p, OutEnd(k))
      BY <1>5, <1>6, <2>2, <2>4, BytesConcat
    <3>2. p <= OutEnd(k)
      BY <1>5, <1>6, <2>4
    <3>3. PICK e \in Nat : e = OutEnd(k) /\ p <= e
      BY <2>4, <3>2
    <3>4. Len(Bytes(p, e)) = e - p
      BY <1>6, <3>3, BytesType
    <3>5. Len(out') = e - p
      BY <3>1, <3>3, <3>4
    <3> QED BY <1>6, <3>3, <3>5
  <2>6. ChunkFrontier(bs[Len(ends)], p + Len(out))'
    <3>1. CASE k \in MemberEnds
      <4>1. pc' = "trailer" /\ ~final' /\ BytesOfBits(pos') = TrailerAt(k)
        BY <1>5, <2>2, <3>1 DEF TrailerAt
      <4> QED BY <1>5, <2>2, <2>3, <2>5, <3>1, <4>1 DEF ChunkFrontier
    <3>2. CASE k \notin MemberEnds
      <4>1. PICK j \in Blocks : /\ j = k + 1 /\ BlockStart[j] = BlockEnd(k) /\ OutStart[j] = OutEnd(k)
                                /\ MemberStart(j) = MemberStart(k)
        BY <3>2, NextBlock, Members
      <4>2. DecodedTo(input, j)
        <5>1. \A n \in Blocks : n < j => n < k \/ n = k
          BY <4>1, Constants
        <5> QED BY <1>5, <2>3, <3>2, <5>1 DEF DecodedTo, TrailerIn
      <4>3. Opened(input, j)
        BY <1>5, <4>1 DEF Opened
      <4>4. pc' \in {"output", "block"} /\ ~final' /\ pos' = BlockStart[j]
        BY <1>5, <2>2, <3>2, <4>1
      <4> QED BY <1>5, <2>2, <2>5, <4>1, <4>2, <4>3, <4>4 DEF ChunkFrontier
    <3> QED BY <3>1, <3>2
  <2>7. pc' # "library" /\ (first' <=> ends = <<>>)
    BY <1>6, <2>2
  <2> QED BY <1>1, <2>2, <2>6, <2>7, ChunkGoesOn
<1> QED BY <1>7, <1>8

\* A library fails on a member only if something is wrong with it.
LEMMA LibraryRefused ==
    ASSUME input \in Inputs, NEW k \in Blocks, MemberStart(k) = k, Opened(input, k), ~Chunks!LibraryDecodes(k)
    PROVE  \E j \in Blocks : Blame(input, setup, j, "deflate")
<1>1. PICK l \in Blocks : l = LastBlock(k) /\ k <= l /\ MemberStart(l) = k
  BY LastBlocks
<1>2. PICK s : s = "deflate" /\ s \in {"truncated", "deflate"}
  OBVIOUS
<1>3. \/ \E j \in k .. l : input.fault[j] = "deflate"
      \/ ~(BlockEnd(l) <= 8 * input.len)
  BY <1>1, ChunksLayout DEF Chunks!LibraryDecodes
<1>4. ASSUME NEW j \in k .. l, input.fault[j] = "deflate" PROVE \E n \in Blocks : Blame(input, setup, n, s)
  <2>1. j \in Blocks /\ k <= j /\ j <= l
    BY <1>1, Constants
  <2>2. MemberStart(j) = k
    BY <1>1, <2>1, SameMember
  <2>3. Opened(input, j)
    BY <2>2 DEF Opened
  <2> QED BY <1>2, <1>4, <2>1, <2>3, BlockBlamed
<1>5. ASSUME ~(BlockEnd(l) <= 8 * input.len) PROVE \E n \in Blocks : Blame(input, setup, n, s)
  <2>1. Opened(input, l)
    BY <1>1 DEF Opened
  <2>2. NeedsBits(l) > 8 * input.len
    <3>1. NeedsBits(l) \in Nat /\ NeedsBits(l) >= BlockEnd(l) /\ BlockEnd(l) \in Nat /\ input.len \in Nat
      BY <1>1, Positions, InputLength
    <3> QED BY <1>5, <3>1
  <2> QED BY <1>1, <1>2, <2>1, <2>2, BlockBlamed
<1> QED BY <1>2, <1>3, <1>4, <1>5

\* All blocks up to the end of a member decode if a library decodes it.
LEMMA LibraryPasses ==
    ASSUME input \in Inputs, NEW k \in Blocks, MemberStart(k) = k, Opened(input, k), DecodedTo(input, k),
           Chunks!LibraryDecodes(k)
    PROVE  DecodedTo(input, LastBlock(k)) /\ DecodesIn(input, LastBlock(k))
<1>1. PICK l \in Blocks : l = LastBlock(k) /\ l \in MemberEnds /\ k <= l /\ k \in FirstBlocks
  BY LastBlocks DEF FirstBlocks
<1>2. /\ \A j \in k .. LastBlock(k) : input.fault[j] # "deflate"
      /\ BlockEnd(LastBlock(k)) <= 8 * input.len
  BY ChunksLayout DEF Chunks!LibraryDecodes
<1>3. input.fault[k] # "header"
  BY DEF Opened
<1>4. \A j \in Blocks : k <= j /\ j <= l => DecodesIn(input, j) /\ (j # l => SoundIn(input, j))
  BY <1>1, <1>2, <1>3, MemberDecodes
<1>5. Blocks \subseteq Nat
  BY Constants
<1>6. ASSUME NEW j \in Blocks, j < l PROVE DecodesIn(input, j) /\ TrailerIn(input, j)
  <2>1. j < k \/ (k <= j /\ j <= l /\ j # l)
    BY <1>1, <1>5, <1>6
  <2> QED BY <1>4, <2>1 DEF DecodedTo, SoundIn
<1>7. l <= l
  BY <1>5
<1> QED BY <1>1, <1>4, <1>6, <1>7 DEF DecodedTo

\* A library is called.
LEMMA ChunkLibraryKept ==
    ASSUME input \in Inputs, ChunkInv, ChunkClean, delivered \in Seq(Nat), Chunks!DecodeWithLibrary
    PROVE  Kept /\ ChunkClean' /\ delivered' \in Seq(Nat)
<1>1. PICK bs, p, o : ChunkJoint(bs, p, o)
  BY ChunkMeets
<1>2. pc = "library" /\ Running
  BY DEF Chunks!DecodeWithLibrary, Chunks!Running, Running
<1>3. ChunkFrontier(bs[Len(ends)], o) /\ ~first /\ (first <=> ends = <<>>)
  BY <1>1, <1>2, JointParts
<1>4. PICK k \in Blocks : /\ pos = BlockStart[k] /\ o = OutStart[k] /\ MemberStart(k) = bs[Len(ends)]
                          /\ DecodedTo(input, k) /\ Opened(input, k) /\ ~final /\ k = bs[Len(ends)]
  BY <1>2, <1>3 DEF ChunkFrontier
<1>5. MemberStart(k) = k /\ k \in FirstBlocks
  BY <1>4 DEF FirstBlocks
<1>6. p \in Nat /\ o \in Nat /\ p <= o /\ out = Bytes(p, o) /\ p + Len(out) = o
  BY <1>1, JointParts
<1>7. CASE (\A j \in FirstBlocks : BlockStart[j] = pos => ~Chunks!LibraryDecodes(j)) /\ Chunks!Return("deflate")
  <2>1. ~Chunks!LibraryDecodes(k)
    BY <1>4, <1>5, <1>7
  <2>2. PICK j \in Blocks : Blame(input, setup, j, "deflate")
    BY <1>4, <1>5, <2>1, LibraryRefused
  <2> QED BY <1>2, <1>7, <2>2, ChunkFails
<1>8. CASE \E j \in FirstBlocks :
             LET outcome == Chunks!LibraryOutcome(j) IN
             /\ BlockStart[j] = pos
             /\ outcome = "overflow" \/ Chunks!LibraryDecodes(j)
             /\ out' = Chunks!LibraryOut(j, outcome)
             /\ pc' = CASE outcome = "overflow" -> "library"
                        [] outcome = "straddle" -> "block"
                        [] outcome = "done"     -> "trailer"
             /\ pos' = IF outcome = "done" THEN 8 * TrailerAt(LastBlock(j)) ELSE pos
             /\ UNCHANGED <<input, setup, delivered, sinkOpen, status, folded, memberUc, tail, ends, first, final>>
  <2>1. PICK j \in FirstBlocks, c \in {"overflow", "straddle", "done"} :
             /\ BlockStart[j] = pos
             /\ c = "overflow" \/ Chunks!LibraryDecodes(j)
             /\ out' = Chunks!LibraryOut(j, c)
             /\ pc' = CASE c = "overflow" -> "library"
                        [] c = "straddle" -> "block"
                        [] c = "done"     -> "trailer"
             /\ pos' = IF c = "done" THEN 8 * TrailerAt(LastBlock(j)) ELSE pos
             /\ UNCHANGED <<input, setup, delivered, sinkOpen, status, folded, memberUc, tail, ends, first, final>>
    <3>1. \A j : Chunks!LibraryOutcome(j) \in {"overflow", "straddle", "done"}
      BY DEF Chunks!LibraryOutcome
    <3> QED BY <1>8, <3>1
  <2>2. j = k
    BY <1>4, <2>1, Members, OneBlockHere
  <2>3. UNCHANGED <<input, setup, delivered, sinkOpen, status, folded, memberUc, tail, ends, first, final>>
    BY <2>1
  <2>4. CASE c = "done"
    <3>1. PICK l \in Blocks : /\ l = LastBlock(k) /\ l \in MemberEnds /\ MemberStart(l) = k
                              /\ OutEnd(l) \in Nat /\ OutStart[k] <= OutEnd(l) /\ TrailerAt(l) \in Nat
      BY <1>5, LastBlocks, MemberOutput
    <3>2. out' = out \o Bytes(OutStart[k], OutEnd(l)) /\ pc' = "trailer" /\ pos' = 8 * TrailerAt(l)
      BY <2>1, <2>2, <2>4, <3>1, ChunksLayout DEF Chunks!LibraryOut
    <3>3. DecodedTo(input, l) /\ DecodesIn(input, l)
      <4>1. Chunks!LibraryDecodes(k)
        BY <2>1, <2>2, <2>4
      <4> QED BY <1>4, <1>5, <3>1, <4>1, LibraryPasses
    <3>4. Opened(input, l)
      BY <1>4, <1>5, <3>1 DEF Opened
    <3>5. p + Len(out') = OutEnd(l)
      <4>1. PICK e \in Nat : e = OutEnd(l) /\ o <= e /\ p <= e
        BY <1>4, <1>6, <3>1
      <4>2. out' = Bytes(p, e)
        BY <1>4, <1>6, <3>2, <4>1, BytesConcat
      <4>3. Len(Bytes(p, e)) = e - p
        BY <1>6, <4>1, BytesType
      <4> QED BY <1>6, <4>1, <4>2, <4>3
    <3>6. BytesOfBits(pos') = TrailerAt(l)
      BY <3>1, <3>2, WholeBytes
    <3>7. ChunkFrontier(bs[Len(ends)], p + Len(out))'
      BY <1>4, <1>5, <2>3, <3>1, <3>2, <3>3, <3>4, <3>5, <3>6 DEF ChunkFrontier
    <3> QED BY <1>1, <1>3, <2>3, <3>2, <3>7, ChunkGoesOn
  <2>5. CASE c # "done"
    <3>1. out' = out /\ pos' = pos /\ pc' \in {"library", "block"}
      BY <2>1, <2>5 DEF Chunks!LibraryOut
    <3>2. ChunkFrontier(bs[Len(ends)], p + Len(out))'
      BY <1>4, <1>5, <1>6, <2>3, <3>1 DEF ChunkFrontier
    <3> QED BY <1>1, <1>3, <2>3, <3>1, <3>2, ChunkGoesOn
  <2> QED BY <2>4, <2>5
<1> QED BY <1>7, <1>8, ChunksLayout DEF Chunks!DecodeWithLibrary, Chunks!environment

\* A trailer and, unless the input ends, a header.
LEMMA ChunkTrailerKept ==
    ASSUME input \in Inputs, ChunkInv, ChunkClean, delivered \in Seq(Nat), Chunks!ReadTrailer
    PROVE  Kept /\ ChunkClean' /\ delivered' \in Seq(Nat)
<1>1. PICK bs, p, o : ChunkJoint(bs, p, o)
  BY ChunkMeets
<1>2. pc = "trailer" /\ Running
  BY DEF Chunks!ReadTrailer, Chunks!Running, Running
<1>3. ChunkFrontier(bs[Len(ends)], o)
  BY <1>1, JointParts
<1>4. PICK k \in MemberEnds : /\ BytesOfBits(pos) = TrailerAt(k) /\ o = OutEnd(k) /\ MemberStart(k) = bs[Len(ends)]
                              /\ DecodedTo(input, k) /\ DecodesIn(input, k) /\ Opened(input, k)
  BY <1>2, <1>3 DEF ChunkFrontier
<1>5. k \in Blocks
  BY Constants
<1>6. PICK at \in Nat : at = TrailerAt(k) /\ MemberLimit(k) = at + 8
  BY <1>5, Positions
<1>7. PICK b \in Boundaries : b = k + 1 /\ HdrAt(b) = at + 8 /\ OutAt(b) = OutEnd(k)
  BY <1>6, AfterMember
<1>8. input.len \in Nat /\ input.len <= input.len /\ HeaderLen \in Nat
  BY InputLength, Constants
<1>9. /\ Chunks!BytesOfBits(pos) = at /\ Chunks!TrailerLen = 8
      /\ Chunks!ParseHeader(at + 8, input.len) = ParseHeader(at + 8, input.len)
  BY <1>4, <1>6, ChunksLayout, ChunksParsers, Constants
<1>10. \/ at + 8 > input.len /\ Chunks!Return("truncated")
       \/ /\ at + 8 < input.len /\ ParseHeader(at + 8, input.len) # "ok"
          /\ Chunks!Return(ParseHeader(at + 8, input.len))
       \/ /\ at + 8 <= input.len /\ (at + 8 = input.len \/ ParseHeader(at + 8, input.len) = "ok")
          /\ ends' = Append(ends, [offset |-> Len(out), trailer |-> at])
          /\ final' = (at + 8 = input.len)
          /\ pos' = IF final' THEN 8 * (at + 8) ELSE 8 * ((at + 8) + HeaderLen)
          /\ pc' = IF final' THEN "output" ELSE "top"
          /\ first' = FALSE
          /\ UNCHANGED <<input, setup, delivered, sinkOpen, status, folded, out, memberUc, tail>>
  BY <1>9, ChunksLayout, Zenon DEF Chunks!ReadTrailer, Chunks!environment, Chunks!memberVars
<1>11. CASE at + 8 > input.len /\ Chunks!Return("truncated")
  <2>1. MemberLimit(k) > input.len
    BY <1>6, <1>11
  <2>2. Blame(input, setup, k, "truncated")
    BY <1>4, <2>1, TrailerBlamed
  <2> QED BY <1>2, <1>11, <2>2, ChunkFails
<1>12. CASE /\ at + 8 < input.len /\ ParseHeader(at + 8, input.len) # "ok"
            /\ Chunks!Return(ParseHeader(at + 8, input.len))
  <2>1. HdrAt(b) < input.len /\ ParseHeader(HdrAt(b), input.len) # "ok"
    BY <1>7, <1>12
  <2>2. Blame(input, setup, b, ParseHeader(HdrAt(b), input.len))
    BY <2>1, HeaderRefused
  <2> QED BY <1>2, <1>7, <1>12, <2>2, ChunkFails
<1>13. CASE /\ at + 8 <= input.len /\ (at + 8 = input.len \/ ParseHeader(at + 8, input.len) = "ok")
            /\ ends' = Append(ends, [offset |-> Len(out), trailer |-> at])
            /\ final' = (at + 8 = input.len)
            /\ pos' = IF final' THEN 8 * (at + 8) ELSE 8 * ((at + 8) + HeaderLen)
            /\ pc' = IF final' THEN "output" ELSE "top"
            /\ first' = FALSE
            /\ UNCHANGED <<input, setup, delivered, sinkOpen, status, folded, out, memberUc, tail>>
  <2>1. /\ bs \in Batches /\ p \in Nat /\ o \in Nat /\ p <= o /\ p + Len(out) = o
        /\ PendingAt(ends, bs, p) /\ ends \in Seq([offset : Nat, trailer : Nat])
        /\ OutAt(bs[0]) + memberUc = p + folded /\ TailAt(tail, OutAt(bs[0]), p)
        /\ CleanTo(input, bs[0]) /\ bs[Len(ends)] \in Boundaries /\ out = Bytes(p, o)
    BY <1>1, JointParts
  <2>2. PICK f : f = bs[Len(ends)] /\ f = MemberStart(k) /\ f \in Blocks /\ f \in Boundaries /\ f <= k
    BY <1>4, <1>5, <2>1, Members, MemberStarts DEF StartsMember
  <2>3. LastBlock(f) = k
    <3>1. MemberStart(f) = f
      BY <2>2, BoundaryStarts
    <3>2. PICK l \in Blocks : /\ l = LastBlock(f) /\ l \in MemberEnds /\ f <= l /\ MemberStart(l) = f
                              /\ \A e \in MemberEnds : e >= f => l <= e
      BY <2>2, <3>1, LastBlocks
    <3>3. l <= k /\ Blocks \subseteq Nat
      BY <1>5, <2>2, <3>2, Constants
    <3>4. ASSUME l # k PROVE FALSE
      <4>1. l < k /\ f <= l
        BY <1>5, <3>2, <3>3, <3>4
      <4>2. StartsMember(f, k)
        BY <1>5, <2>2, MemberStarts
      <4> QED BY <3>2, <4>1, <4>2, <1>5, <3>3 DEF StartsMember
    <3> QED BY <3>2, <3>4
  <2>4. PICK n \in Nat : n = Len(out) /\ p + n = OutEnd(k)
    <3>1. Len(Bytes(p, o)) = o - p
      BY <2>1, BytesType
    <3>2. Len(out) \in Nat
      BY <2>1, <3>1
    <3> QED BY <1>4, <2>1, <3>2
  <2>5. PICK x \in [offset : Nat, trailer : Nat] : /\ x = [offset |-> n, trailer |-> at]
                                                   /\ x.offset = n /\ x.trailer = at
    <3>1. [offset |-> n, trailer |-> at] \in [offset : Nat, trailer : Nat]
      BY n \in Nat, at \in Nat
    <3>2. [offset |-> n, trailer |-> at].offset = n /\ [offset |-> n, trailer |-> at].trailer = at
      OBVIOUS
    <3> QED BY <3>1, <3>2
  <2>6. EndHere(x, bs[Len(ends)], b, p)
    BY <1>6, <1>7, <2>2, <2>3, <2>4, <2>5 DEF EndHere
  <2>7. bs[Len(ends)] <= b
    BY <1>5, <1>7, <2>2, Constants
  <2>8. PICK bt \in Batches : /\ PendingAt(Append(ends, x), bt, p) /\ bt[0] = bs[0]
                              /\ bt[Len(Append(ends, x))] = b
    BY <2>1, <2>6, <2>7, PendingAppend
  <2>9. ends' = Append(ends, x)
    BY <1>13, <2>4, <2>5
  <2>10. ends' # <<>>
    <3>1. ends' = Append(ends, x)
      BY <2>9
    <3>2. Len(Append(ends, x)) = Len(ends) + 1 /\ Len(ends) \in Nat
      BY <2>1, AppendProperties, LenProperties
    <3>3. Len(<<>>) = 0
      BY EmptySeq
    <3> QED BY <3>1, <3>2, <3>3
  <2>11. DecodedTo(input, b)
    <3>1. \A j \in Blocks : j < b => j < k \/ j = k
      BY <1>5, <1>7, Constants
    <3>2. TrailerIn(input, k)
      BY <1>6, <1>13 DEF TrailerIn
    <3> QED BY <1>4, <3>1, <3>2 DEF DecodedTo
  <2>12. ChunkFrontier(b, o)'
    <3>1. CASE at + 8 = input.len
      <4>1. final' = TRUE /\ pc' = "output" /\ pos' = 8 * (at + 8)
        BY <1>13, <3>1
      <4>2. pos' = 8 * HdrAt(b) /\ HdrAt(b) = input.len /\ o = OutAt(b)
        BY <1>4, <1>7, <3>1, <4>1
      <4>3. b # 0
        BY <1>5, <1>7, Constants
      <4> QED BY <1>13, <2>11, <4>1, <4>2, <4>3 DEF ChunkFrontier
    <3>2. CASE at + 8 # input.len
      <4>5. /\ final' = FALSE /\ pc' = "top" /\ pos' = 8 * ((at + 8) + HeaderLen)
            /\ ParseHeader(at + 8, input.len) = "ok" /\ at + 8 < input.len
        <5>1. final' = FALSE
          BY <1>13, <3>2
        <5>2. at + 8 <= input.len /\ at + 8 \in Nat
          BY <1>13
        <5> QED BY <1>8, <1>13, <3>2, <5>1, <5>2
      <4>1. ~final' /\ pc' = "top" /\ pos' = 8 * (HdrAt(b) + HeaderLen) /\ HdrAt(b) < input.len
            /\ ParseHeader(HdrAt(b), input.len) = "ok"
        BY <1>7, <4>5
      <4>2. b \in Blocks /\ input.fault[b] # "header"
        BY <1>8, <4>1, HeaderHere
      <4>3. BlockStart[b] = pos' /\ OutStart[b] = o /\ MemberStart(b) = b
        BY <1>4, <1>7, <4>1, <4>2, BoundaryStarts
      <4>4. Opened(input, b)
        BY <4>1, <4>2, <4>3 DEF Opened
      <4> QED BY <1>13, <2>11, <4>1, <4>2, <4>3, <4>4 DEF ChunkFrontier
    <3> QED BY <3>1, <3>2
  <2>13. bt[Len(ends)'] = b /\ PendingAt(ends', bt, p)
    BY <2>8, <2>9
  <2>14. ChunkFrontier(bt[Len(ends)], p + Len(out))'
    BY <1>13, <2>1, <2>12, <2>13
  <2>15. pc' # "library"
    BY <1>13
  <2>16. ChunkCleanAt(bt, p)'
    BY <1>13, <2>1, <2>8, <2>10, <2>13, <2>14, <2>15 DEF ChunkCleanAt
  <2>17. ChunkClean'
    BY <1>13, <2>1, <2>16, ChunkCleanNext
  <2> QED BY <1>13, <2>17, KeptSteps
<1> QED BY <1>10, <1>11, <1>12, <1>13

\* All members before the one the decoder is in were decoded.
LEMMA FrontierDecoded ==
    ASSUME NEW f \in Boundaries, NEW o, ChunkFrontier(f, o)
    PROVE  DecodedTo(input, f)
<1>1. ASSUME NEW k \in Blocks, MemberStart(k) = f, DecodedTo(input, k) PROVE DecodedTo(input, f)
  <2>1. f \in Nat /\ f <= k /\ Blocks \subseteq Nat
    BY <1>1, MemberStarts, BoundaryNumbers, Constants DEF StartsMember
  <2>2. \A j \in Blocks : j < f => j < k
    BY <1>1, <2>1
  <2> QED BY <1>1, <2>2 DEF DecodedTo
<1>2. MemberEnds \subseteq Blocks
  BY Constants
<1> QED BY <1>1, <1>2 DEF ChunkFrontier

\* A member of which the first block decodes was opened.
LEMMA DecodedOpened ==
    ASSUME NEW i \in Inputs, NEW b \in Boundaries, b \in Blocks, DecodesIn(i, b),
           NEW k \in Blocks, MemberStart(k) = b
    PROVE  Opened(i, k)
<1>1. /\ BlockStart[b] = 8 * (HdrAt(b) + HeaderLen) /\ HdrAt(b) \in Nat /\ HeaderLen \in Nat
      /\ BlockEnd(b) > BlockStart[b] /\ BlockEnd(b) \in Nat /\ i.len \in Nat
  BY BoundaryStarts, BoundaryNumbers, Constants, Positions, InputFacts
<1>2. i.fault[b] # "header" /\ BlockEnd(b) <= 8 * i.len
  BY DEF DecodesIn
<1>3. HdrAt(b) < i.len
  BY <1>1, <1>2
<1> QED BY <1>2, <1>3 DEF Opened

\* A member that was decoded and of which the trailer agrees is clean.
LEMMA MemberClean ==
    ASSUME NEW i \in Inputs, NEW b \in Boundaries, b \in Blocks, CleanTo(i, b),
           DecodedTo(i, LastBlock(b) + 1), i.fault[LastBlock(b)] \notin {"crc", "isize"}
    PROVE  CleanTo(i, LastBlock(b) + 1)
<1>1. PICK l \in Blocks : l = LastBlock(b) /\ l \in MemberEnds /\ b <= l
  BY LastBlocks
<1>2. b \in FirstBlocks /\ Blocks \subseteq Nat
  BY BoundaryStarts, Constants
<1>3. \A j \in Blocks : j <= l => DecodesIn(i, j) /\ TrailerIn(i, j)
  <2>1. \A j \in Blocks : j <= l => j < l + 1
    BY <1>1, <1>2
  <2> QED BY <1>1, <2>1 DEF DecodedTo
<1>4. \A j \in b .. l : j \in Blocks /\ j <= l
  BY <1>1, Constants
<1>5. \A j \in b .. l : i.fault[j] # "deflate"
  BY <1>3, <1>4 DEF DecodesIn
<1>6. i.fault[b] # "header"
  BY <1>1, <1>3 DEF DecodesIn
<1>7. MemberLimit(l) <= i.len
  <2>1. l <= l
    BY <1>1, <1>2
  <2> QED BY <1>1, <1>3, <2>1 DEF TrailerIn
<1> QED BY <1>1, <1>2, <1>5, <1>6, <1>7, MemberSound

\* A member that ends in the chunk is checked.
LEMMA ChunkCheckKept ==
    ASSUME input \in Inputs, ChunkInv, ChunkClean, delivered \in Seq(Nat), Chunks!CheckMember
    PROVE  Kept /\ ChunkClean' /\ delivered' \in Seq(Nat)
<1>1. PICK bs, p, o : ChunkJoint(bs, p, o)
  BY ChunkMeets
<1>2. pc = "output" /\ ends # <<>> /\ Running
  BY DEF Chunks!CheckMember, Chunks!Running, Running
<1>3. /\ bs \in Batches /\ p \in Nat /\ o \in Nat /\ p <= o /\ p + Len(out) = o /\ out = Bytes(p, o)
      /\ PendingAt(ends, bs, p) /\ ends \in Seq([offset : Nat, trailer : Nat])
      /\ OutAt(bs[0]) + memberUc = p + folded /\ TailAt(tail, OutAt(bs[0]), p)
      /\ CleanTo(input, bs[0]) /\ bs[Len(ends)] \in Boundaries /\ bs[0] \in Boundaries
      /\ ChunkFrontier(bs[Len(ends)], o)
  BY <1>1, JointParts
<1>4. /\ folded \in Nat /\ OutAt(bs[0]) <= p + folded /\ p + folded <= o
      /\ crcFed = Bytes(OutAt(bs[0]), p + folded) /\ memberUc = (p + folded) - OutAt(bs[0])
      /\ EndsAt(ends, folded, p, o)
  BY <1>1 DEF ChunkJoint
<1>5. PICK n, at : n = Head(ends).offset /\ at = Head(ends).trailer
  OBVIOUS
<1>6. n \in Nat /\ folded <= n /\ p + n <= o
  BY <1>2, <1>3, <1>4, <1>5, EndsPop
<1>7. PICK b, e : b = bs[0] /\ e = bs[1] /\ EndHere(Head(ends), b, e, p) /\ e \in Boundaries /\ e <= bs[Len(ends)]
  BY <1>2, <1>3, PendingPop
<1>8. PICK l \in Blocks : l = LastBlock(b) /\ l \in MemberEnds /\ b \in Blocks /\ e = l + 1 /\ MemberStart(l) = b
  <2>1. b \in Blocks /\ e = LastBlock(b) + 1 /\ b \in Boundaries
    BY <1>3, <1>7 DEF EndHere
  <2>2. MemberStart(b) = b
    BY <2>1, BoundaryStarts
  <2> QED BY <2>1, <2>2, LastBlocks
<1>9. p + n = OutAt(e) /\ at = TrailerAt(l) /\ OutAt(e) = OutEnd(l) /\ OutAt(b) = MemberOutAt(l)
  <2>1. p + n = OutAt(e) /\ at = TrailerAt(l)
    BY <1>5, <1>7, <1>8 DEF EndHere
  <2>2. OutAt(e) = OutEnd(l)
    BY <1>8, AfterMember
  <2>3. OutAt(b) = MemberOutAt(l)
    BY <1>3, <1>7, <1>8, BoundaryStarts DEF MemberOutAt
  <2> QED BY <2>1, <2>2, <2>3
<1>10. DecodedTo(input, e)
  <2>1. DecodedTo(input, bs[Len(ends)])
    BY <1>3, FrontierDecoded
  <2>2. \A j \in Blocks : j < e => j < bs[Len(ends)]
    <3>1. Blocks \subseteq Nat /\ e \in Nat /\ bs[Len(ends)] \in Nat
      BY <1>3, <1>7, BoundaryNumbers, Constants
    <3> QED BY <1>7, <3>1
  <2> QED BY <2>1, <2>2 DEF DecodedTo
<1>11. PICK a \in Nat, q \in Nat, y \in Nat : /\ a = OutAt(b) /\ q = p + folded /\ y = p + n
                                              /\ a <= q /\ q <= y /\ y <= o
  <2>1. OutAt(b) \in Nat
    BY <1>3, <1>7, BoundaryNumbers
  <2> QED BY <1>3, <1>4, <1>6, <1>7, <2>1
<1>12. PICK piece : piece = SubSeq(out, folded + 1, n) /\ piece = Bytes(q, y)
  <2>1. PICK i : i = folded + 1
    OBVIOUS
  <2>2. Places(p, o, i, n, q, y)
    BY <1>3, <1>4, <1>6, <1>11, <2>1 DEF Places
  <2>3. SubSeq(Bytes(p, o), i, n) = Bytes(q, y)
    BY ONLY <2>2, BytesPart
  <2> QED BY <1>3, <2>1, <2>3
<1>13. crcFed \o piece = Bytes(a, y) /\ memberUc + Len(piece) = y - a
  <2>1. Bytes(a, q) \o Bytes(q, y) = Bytes(a, y)
    BY <1>11, BytesConcat
  <2>2. Len(piece) = y - q
    <3>1. Len(Bytes(q, y)) = y - q
      BY <1>11, BytesType
    <3> QED BY <1>12, <3>1
  <2>3. memberUc = q - a
    BY <1>4, <1>7, <1>11
  <2>4. crcFed \o piece = Bytes(a, y)
    BY <1>4, <1>7, <1>11, <1>12, <2>1
  <2>5. memberUc + Len(piece) = y - a
    <3>1. memberUc + Len(piece) = (q - a) + (y - q)
      BY <2>2, <2>3
    <3> QED BY <1>11, <3>1
  <2> QED BY <2>4, <2>5
<1>14. FoldedAt(crcFed \o piece, memberUc + Len(piece), TrailerAt(l))
  <2>1. ASSUME NEW k \in MemberEnds, TrailerAt(k) = TrailerAt(l) PROVE k = l
    BY <1>8, <2>1, OneTrailerHere
  <2> QED BY <1>9, <1>11, <1>13, <2>1 DEF FoldedAt
<1>15. PICK v : v = TrailerVerdict(at, crcFed \o piece, memberUc + Len(piece))
  OBVIOUS
<1>16. /\ v = "ok" => input.fault[l] \notin {"crc", "isize"}
       /\ v # "ok" => v \in {"crc", "isize"} /\ input.fault[l] = v
  BY <1>8, <1>9, <1>14, <1>15, VerdictHere
<1>17. \/ v # "ok" /\ Chunks!Return(v)
       \/ /\ v = "ok" /\ folded' = n /\ ends' = Tail(ends)
          /\ crcFed' = <<>> /\ memberUc' = 0
          /\ UNCHANGED <<input, setup, delivered, sinkOpen, status, pc, pos, out, first, final, tail>>
  BY <1>5, <1>12, <1>15, ChunksParsers DEF Chunks!CheckMember, Chunks!environment, Chunks!Piece
<1>18. CASE v # "ok" /\ Chunks!Return(v)
  <2>1. DecodesIn(input, b)
    <3>1. b < e
      BY <1>8, LastBlocks, Constants
    <3> QED BY <1>8, <1>10, <3>1 DEF DecodedTo
  <2>2. Opened(input, l)
    BY <1>3, <1>7, <1>8, <2>1, DecodedOpened
  <2>3. Blame(input, setup, l, v)
    BY <1>8, <1>16, <1>18, <2>2, TrailerBlamed
  <2> QED BY <1>2, <1>18, <2>3, ChunkFails
<1>19. CASE /\ v = "ok" /\ folded' = n /\ ends' = Tail(ends)
            /\ crcFed' = <<>> /\ memberUc' = 0
            /\ UNCHANGED <<input, setup, delivered, sinkOpen, status, pc, pos, out, first, final, tail>>
  <2>1. CleanTo(input, e)
    BY <1>3, <1>7, <1>8, <1>10, <1>16, <1>19, MemberClean
  <2>2. PICK bt \in Batches : PendingAt(Tail(ends), bt, p) /\ bt[0] = e /\ bt[Len(Tail(ends))] = bs[Len(ends)]
    BY <1>2, <1>3, <1>7, PendingPop
  <2>3. PICK z \in Nat : z = OutAt(e) /\ z = y
    BY <1>9, <1>11
  <2>4. OutAt(bt[0]) + memberUc' = p + folded'
    BY <1>9, <1>11, <1>19, <2>2, <2>3
  <2>5. TailAt(tail, z, p)
    <3>1. PICK x \in 0 .. p : tail = Bytes(x, p)
      BY <1>3 DEF TailAt
    <3>2. x <= z
      BY <1>3, <1>4, <1>11, <2>3, <3>1
    <3> QED BY <3>1, <3>2 DEF TailAt
  <2>6. PICK f : f = bs[Len(ends)] /\ ChunkFrontier(f, o)
    BY <1>3
  <2>7. (ChunkFrontier(f, o))'
    BY <1>2, <1>19, <2>6 DEF ChunkFrontier
  <2>8. bt[Len(ends')] = f
    BY <1>19, <2>2, <2>6
  <2>9. ChunkFrontier(bt[Len(ends)], p + Len(out))'
    BY <1>3, <1>19, <2>7, <2>8
  <2>10. pc' = "output"
    BY <1>2, <1>19
  <2>11. TailAt(tail, OutAt(bt[0]), p) /\ CleanTo(input, bt[0])
    BY <2>1, <2>2, <2>3, <2>5
  <2>12. ChunkCleanAt(bt, p)'
    BY <1>19, <2>2, <2>4, <2>9, <2>10, <2>11 DEF ChunkCleanAt
  <2>13. ChunkClean'
    BY <1>3, <1>19, <2>2, <2>12, ChunkCleanNext
  <2> QED BY <1>19, <2>13, KeptSteps
<1> QED BY <1>17, <1>18, <1>19

\* The last n bytes of an interval.
LEMMA LastBytes ==
    ASSUME NEW a \in Nat, NEW b \in Nat, a <= b, NEW n \in Nat
    PROVE  \E c \in a .. b : Chunks!LastN(Bytes(a, b), n) = Bytes(c, b) /\ (c = a \/ b - c = n)
<1>1. Len(Bytes(a, b)) = b - a
  BY BytesType
<1>2. CASE b - a > n
  <2>1. PICK c \in a .. b : c = b - n /\ c \in Nat /\ a <= c /\ c <= b /\ b - c = n
    BY <1>2
  <2>2. PICK i, j : i = (b - a) - n + 1 /\ j = b - a /\ Places(a, b, i, j, c, b)
    BY <2>1 DEF Places
  <2>3. SubSeq(Bytes(a, b), i, j) = Bytes(c, b)
    <3>1. Places(a, b, i, j, c, b)
      BY <2>2
    <3> QED BY ONLY <3>1, BytesPart
  <2>4. Chunks!LastN(Bytes(a, b), n) = Bytes(c, b)
    BY <1>1, <1>2, <2>2, <2>3 DEF Chunks!LastN
  <2> QED BY <2>1, <2>4
<1>3. CASE ~(b - a > n)
  <2>1. Chunks!LastN(Bytes(a, b), n) = Bytes(a, b)
    BY <1>1, <1>3 DEF Chunks!LastN
  <2>2. a \in a .. b
    OBVIOUS
  <2> QED BY <2>1, <2>2
<1> QED BY <1>2, <1>3

\* The tail that is carried from chunk to chunk.
LEMMA TailCarried ==
    ASSUME NEW t, NEW a \in Nat, NEW p \in Nat, TailAt(t, a, p), NEW o \in Nat, p <= o
    PROVE  TailAt(Chunks!LastN(t \o Bytes(p, o), Window), a, o)
<1>1. PICK q \in 0 .. p : t = Bytes(q, p) /\ (q <= a \/ p - q >= Window)
  BY DEF TailAt
<1>2. q \in Nat /\ q <= p /\ q <= o /\ Window \in Nat
  BY <1>1, Constants
<1>3. t \o Bytes(p, o) = Bytes(q, o)
  BY <1>1, <1>2, BytesConcat
<1>4. PICK c \in q .. o : Chunks!LastN(Bytes(q, o), Window) = Bytes(c, o) /\ (c = q \/ o - c = Window)
  BY <1>2, LastBytes
<1>5. c \in 0 .. o /\ (c <= a \/ o - c >= Window)
  BY <1>1, <1>2, <1>4
<1> QED BY <1>3, <1>4, <1>5 DEF TailAt

\* What was decoded when the chunk is sent is clean up to the last block.
LEMMA CleanSoFar ==
    ASSUME input \in Inputs, NEW f \in Boundaries, NEW o \in Nat, o # 0, pc = "output",
           ChunkFrontier(f, o), CleanTo(input, f)
    PROVE  \E k \in Blocks : CleanTo(input, k) /\ DecodesIn(input, k) /\ o <= OutEnd(k)
<1>0. Blocks \subseteq Nat /\ MemberEnds \subseteq Blocks
  BY Constants
<1>1. ASSUME NEW k \in Blocks, NEW b, b = k + 1, CleanTo(input, b), o = OutEnd(k)
      PROVE  \E j \in Blocks : CleanTo(input, j) /\ DecodesIn(input, j) /\ o <= OutEnd(j)
  <2>1. k < b /\ \A j \in Blocks : j < k => j < b
    BY <1>0, <1>1
  <2>2. CleanTo(input, k) /\ DecodesIn(input, k)
    BY <1>1, <2>1 DEF CleanTo, SoundIn, DecodesIn
  <2>3. o <= OutEnd(k)
    BY <1>1
  <2> QED BY <2>2, <2>3
<1>2. CASE final
  <2>1. f # 0 /\ o = OutAt(f)
    BY <1>2 DEF ChunkFrontier
  <2>2. PICK k : k = f - 1 /\ k \in MemberEnds /\ k \in Blocks /\ OutAt(f) = OutEnd(k)
    BY <1>0, <2>1 DEF Boundaries, OutAt
  <2>3. f = k + 1
    BY <2>2, BoundaryNumbers
  <2> QED BY <1>1, <2>1, <2>2, <2>3
<1>3. CASE ~final
  <2>1. PICK j \in Blocks : o = OutStart[j] /\ MemberStart(j) = f /\ DecodedTo(input, j)
    BY <1>3 DEF ChunkFrontier
  <2>2. CleanTo(input, j)
    <3>1. StartsMember(f, j) /\ f \in Nat
      BY <2>1, MemberStarts, BoundaryNumbers
    <3>2. ASSUME NEW n \in Blocks, n < j PROVE SoundIn(input, n)
      <4>1. CASE n < f
        BY <4>1 DEF CleanTo
      <4>2. CASE ~(n < f)
        <5>1. n \in f .. j - 1
          BY <1>0, <3>1, <3>2, <4>2
        <5>2. n \notin MemberEnds
          BY <3>1, <5>1 DEF StartsMember
        <5> QED BY <2>1, <3>2, <5>2, InnerSound DEF DecodedTo
      <4> QED BY <4>1, <4>2
    <3> QED BY <3>2 DEF CleanTo
  <2>3. j # 0
    BY <2>1, OutStarts
  <2>4. PICK k \in Blocks : k = j - 1 /\ j = k + 1 /\ OutStart[j] = OutEnd(k)
    <3>1. j - 1 \in Blocks /\ (j - 1) + 1 = j
      BY <2>3, Constants
    <3>2. PICK k \in Blocks : k = j - 1 /\ j = k + 1 /\ k + 1 \in Blocks
      BY <3>1
    <3> QED BY <3>2, OutStarts
  <2> QED BY <1>1, <2>1, <2>2, <2>4
<1> QED BY <1>2, <1>3

\* The chunk is sent.
LEMMA ChunkSendKept ==
    ASSUME input \in Inputs, ChunkInv, ChunkClean, delivered \in Seq(Nat), Chunks!SendChunk
    PROVE  Kept /\ ChunkClean' /\ delivered' \in Seq(Nat)
<1>1. PICK bs, p, o : ChunkJoint(bs, p, o)
  BY ChunkMeets
<1>2. pc = "output" /\ ends = <<>> /\ Running
  BY DEF Chunks!SendChunk, Chunks!Running, Running
<1>3. /\ bs \in Batches /\ p \in Nat /\ o \in Nat /\ p <= o /\ p + Len(out) = o /\ out = Bytes(p, o)
      /\ bs[0] \in Boundaries /\ TailAt(tail, OutAt(bs[0]), p)
      /\ CleanTo(input, bs[0]) /\ ChunkFrontier(bs[Len(ends)], o) /\ Sent(p)
  BY <1>1, JointParts
<1>4. /\ folded \in Nat /\ OutAt(bs[0]) <= p + folded /\ p + folded <= o
      /\ memberUc = (p + folded) - OutAt(bs[0])
  BY <1>1 DEF ChunkJoint
<1>5. PICK f \in Boundaries : f = bs[0] /\ ChunkFrontier(f, o) /\ CleanTo(input, f)
  <2>1. Len(ends) = 0
    BY <1>2, EmptySeq
  <2> QED BY <1>3, <2>1
<1>6. CASE ~sinkOpen /\ Chunks!Return("closed")
  <2>1. PICK s : s = "closed" /\ Chunks!Return(s)
    BY <1>6
  <2>2. Returns(s) /\ ChunkClean' /\ delivered' = delivered
    BY <1>2, <2>1, ChunkReturnKept
  <2> QED BY <1>6, <2>1, <2>2, KeptSteps
<1>7. CASE /\ sinkOpen /\ delivered' = delivered \o out
           /\ memberUc' = memberUc + Len(SubSeq(out, folded + 1, Len(out)))
           /\ tail' = Chunks!LastN(tail \o out, Window)
           /\ out' = <<>> /\ folded' = 0 /\ pc' = "chunk"
           /\ UNCHANGED <<input, setup, sinkOpen, status, pos, first, final, ends>>
  <2>1. PICK a \in Nat, q \in Nat, n \in Nat :
           a = OutAt(f) /\ q = p + folded /\ n = Len(out) /\ n = o - p /\ a <= q /\ q <= o
    <3>1. Len(Bytes(p, o)) = o - p
      BY <1>3, BytesType
    <3>2. Len(out) = o - p /\ o - p \in Nat /\ p + folded \in Nat
      BY <1>3, <1>4, <3>1
    <3>3. OutAt(f) \in Nat
      BY BoundaryNumbers
    <3> QED BY <1>4, <1>5, <3>2, <3>3
  <2>2. SubSeq(out, folded + 1, n) = Bytes(q, o)
    <3>1. PICK i : i = folded + 1
      OBVIOUS
    <3>2. Places(p, o, i, n, q, o)
      BY <1>3, <1>4, <2>1, <3>1 DEF Places
    <3>3. SubSeq(Bytes(p, o), i, n) = Bytes(q, o)
      BY ONLY <3>2, BytesPart
    <3> QED BY <1>3, <3>1, <3>3
  <2>3. memberUc' = o - a
    <3>1. Len(Bytes(q, o)) = o - q
      BY <1>3, <2>1, BytesType
    <3>2. memberUc' = (q - a) + (o - q)
      BY <1>4, <1>5, <1>7, <2>1, <2>2, <3>1
    <3> QED BY <1>3, <2>1, <3>2
  <2>4. delivered = Bytes(0, p) /\ delivered' = Bytes(0, o)
    <3>1. delivered = Bytes(0, p)
      BY <1>3, <1>7 DEF Sent, IsOutput
    <3>2. Bytes(0, p) \o Bytes(p, o) = Bytes(0, o)
      <4>1. 0 \in Nat /\ 0 <= p
        BY <1>3
      <4> QED BY <1>3, <4>1, BytesConcat
    <3> QED BY <1>3, <1>7, <3>1, <3>2
  <2>5. TailAt(tail', a, o)
    <3>1. TailAt(tail, a, p)
      BY <1>3, <1>5, <2>1
    <3> QED BY <1>3, <1>7, <3>1, TailCarried
  <2>6. (ChunkFrontier(f, o))'
    BY <1>2, <1>5, <1>7 DEF ChunkFrontier
  <2>7. PICK bt \in Batches : PendingAt(<<>>, bt, o) /\ bt[0] = f /\ bt[Len(<<>>)] = f
    BY PendingNone
  <2>8. ends' = <<>>
    BY <1>2, <1>7
  <2>9. o + Len(out') = o /\ o + folded' = o /\ a + memberUc' = o
    <3>1. Len(<<>>) = 0
      BY EmptySeq
    <3>2. PICK w \in Nat : w = o
      BY <1>3
    <3>3. w + 0 = w /\ a + (w - a) = w
      OBVIOUS
    <3> QED BY <1>7, <2>3, <3>1, <3>2, <3>3
  <2>10. ChunkFrontier(bt[Len(ends)], o + Len(out))'
    BY <2>6, <2>7, <2>8, <2>9
  <2>11. OutAt(bt[0]) + memberUc' = o + folded' /\ TailAt(tail', OutAt(bt[0]), o) /\ CleanTo(input', bt[0])
    BY <1>5, <1>7, <2>1, <2>5, <2>7, <2>9
  <2>12. ChunkCleanAt(bt, o)'
    BY <1>7, <2>7, <2>8, <2>10, <2>11 DEF ChunkCleanAt
  <2>13. ChunkClean'
    BY <1>3, <1>7, <2>7, <2>12, ChunkCleanNext
  <2>14. delivered' \in Seq(Nat)
    BY <1>3, <2>4, OutputType DEF IsOutput
  <2>15. CASE o = 0
    <3>1. p = 0
      BY <1>3, <2>15
    <3>2. delivered' = delivered
      BY <2>4, <2>15, <3>1
    <3> QED BY <1>7, <2>13, <2>14, <3>2, KeptSteps
  <2>16. CASE o # 0
    <3>1. PICK k \in Blocks : CleanTo(input, k) /\ DecodesIn(input, k) /\ o <= OutEnd(k)
      BY <1>2, <1>3, <1>5, <2>16, CleanSoFar
    <3>2. Promise!Deliver
      BY <1>2, <1>3, <1>7, <2>4, <3>1, DeliverStep
    <3> QED BY <2>13, <2>14, <3>2, KeptSteps
  <2> QED BY <2>15, <2>16
<1> QED BY <1>6, <1>7 DEF Chunks!SendChunk, Chunks!environment, Chunks!Piece

\* The last chunk was sent.
LEMMA ChunkFinishKept ==
    ASSUME input \in Inputs, ChunkInv, ChunkClean, delivered \in Seq(Nat), Chunks!Finish
    PROVE  Kept /\ ChunkClean' /\ delivered' \in Seq(Nat)
<1>1. PICK bs, p, o : ChunkJoint(bs, p, o)
  BY ChunkMeets
<1>2. pc = "chunk" /\ final /\ Running /\ Chunks!Return("ok")
  BY DEF Chunks!Finish, Chunks!Running, Running
<1>3. Returns("ok") /\ ChunkClean' /\ delivered' = delivered
  BY <1>2, ChunkReturnKept
<1>4. p = o /\ ends = <<>> /\ Sent(p)
  BY <1>1, <1>2 DEF ChunkJoint
<1>5. bs[0] \in Boundaries /\ CleanTo(input, bs[0]) /\ ChunkFrontier(bs[Len(ends)], o)
  BY <1>1, JointParts
<1>6. PICK f \in Boundaries : f = bs[0] /\ ChunkFrontier(f, o) /\ CleanTo(input, f)
  <2>1. Len(ends) = 0
    BY <1>4, EmptySeq
  <2> QED BY <1>5, <2>1
<1>7. f # 0 /\ HdrAt(f) = input.len /\ o = OutAt(f)
  BY <1>2, <1>6 DEF ChunkFrontier
<1>8. sinkOpen => delivered = Bytes(0, OutAt(f))
  BY <1>4, <1>7 DEF Sent, IsOutput
<1>9. Promise!Succeed
  BY <1>3, <1>6, <1>7, <1>8, SucceedStep
<1> QED BY <1>3, <1>9, KeptSteps

\* Every step of ChunkChain.
LEMMA ChunkStepsKept ==
    ASSUME input \in Inputs, ChunkInv, ChunkClean, delivered \in Seq(Nat), Chunks!Step
    PROVE  Kept /\ ChunkClean' /\ delivered' \in Seq(Nat)
  BY ChunkStartKept, ChunkNextMemberKept, ChunkDecodeKept, ChunkLibraryKept, ChunkTrailerKept, ChunkCheckKept,
     ChunkSendKept, ChunkFinishKept DEF Chunks!Step

-----------------------------------------------------------------------------
(* read_gz keeps the promise. *)

\* The start.
LEMMA CleanInvInit == Init => CleanInv /\ Promise!Init
<1>1. Init => CleanInv
  BY DEF Init, CleanInv
<1>2. Init => Promise!Init
  BY DEF Init, Promise!Init
<1> QED BY <1>1, <1>2

\* The decoder is chosen.
LEMMA OpenKept ==
    ASSUME ReadInv, CleanInv, Open
    PROVE  Kept /\ CleanInv'
<1>1. /\ path = "open" /\ PipeIdle /\ BgzfIdle /\ pos = 0
      /\ UNCHANGED <<input, setup, delivered, sinkOpen, status, pos,
                     base, filled, bitOff, srcEof, member, tail, walk, cur>>
  BY DEF ReadInv, DecoderInv, Fresh, Open, memberVars, pipeVars, chunkVars, bgzfVars
<1>2. walk = "on" /\ tail = <<>> /\ delivered \in Seq(Nat) /\ input \in Inputs
  BY <1>1 DEF CleanInv, ReadInv, Values
<1>3. Kept
  BY <1>1, KeptSteps
<1>4. CASE path' = "pipe" /\ pc' = "prime"
  <2>1. PipeClean'
    BY <1>1, <1>4 DEF PipeIdle, PipeClean
  <2> QED BY <1>1, <1>2, <1>3, <1>4, <2>1 DEF CleanInv
<1>5. CASE /\ Mapped
           /\ \E size \in ParseBgzfBlockSize(0, input.len) : size # NoBlockSize
           /\ path' = "bgzf" /\ pc' = "walk"
  <2>1. PICK size \in ParseBgzfBlockSize(HdrAt(0), input.len) : size # NoBlockSize
    BY <1>5, FirstBoundary
  <2>2. 0 \in input.bgzf
    BY <1>2, <2>1, FirstBoundary, StatedBgzf
  <2>3. setup.source = "file" /\ input.len > 0
    BY <1>5 DEF Mapped
  <2>4. AtHeader(input, 0)
    <3>1. CleanTo(input, 0)
      BY Constants DEF CleanTo
    <3>2. AtHeader(input, HdrAt(0))
      BY <3>1, FirstBoundary, AtPositions
    <3> QED BY <3>2, FirstBoundary
  <2>5. cur' = <<>> /\ pos' = 0 /\ Len(<<>>) = 0 /\ 0 \div 8 = 0
    BY <1>1, EmptySeq DEF BgzfIdle
  <2>6. \A j \in 1 .. Len(cur') : SliceIn(input', cur'[j])
    <3>1. 1 .. 0 = {}
      OBVIOUS
    <3> QED BY <2>5, <3>1
  <2>7. AtHeader(input', IF cur' = <<>> THEN pos' \div 8 ELSE Head(cur').at)
    BY <1>1, <2>4, <2>5
  <2>8. BgzfClean'
    BY <1>1, <1>2, <1>5, <2>2, <2>3, <2>6, <2>7 DEF BgzfClean
  <2> QED BY <1>1, <1>2, <1>3, <1>5, <2>8 DEF CleanInv
<1>6. CASE Mapped /\ path' = "plain" /\ pc' = "header"
  BY <1>1, <1>2, <1>3, <1>6 DEF CleanInv, Mapped
<1> QED BY <1>4, <1>5, <1>6 DEF Open

\* Before the header of a first plain member, all is clean.
LEMMA CleanBefore ==
    ASSUME ReadInv, CleanInv, path \in {"plain", "bgzf"}, pc = "header"
    PROVE  \E b \in Nat : BeforeMember(b) /\ CleanTo(input, b) /\ HdrAt(b) < input.len
<1>1. CASE path = "plain"
  <2>1. Fresh /\ input.len > 0
    BY <1>1 DEF ReadInv, DecoderInv, CleanInv
  <2>2. BeforeMember(0) /\ HdrAt(0) = 0
    BY <2>1, FirstBoundary DEF BeforeMember, Fresh, Sent, IsOutput
  <2>3. CleanTo(input, 0)
    BY Constants DEF CleanTo
  <2> QED BY <2>1, <2>2, <2>3
<1>2. CASE path = "bgzf"
  <2>1. PICK b \in Nat : BeforeMember(b)
    BY PlainOrBgzf
  <2>2. BgzfClean /\ BgzfInv
    BY <1>2 DEF ReadInv, DecoderInv, CleanInv
  <2>3. cur = <<>>
    BY <2>2 DEF BgzfInv, BgzfAt
  <2>4. b \in Boundaries /\ pos = 8 * HdrAt(b) /\ HdrAt(b) \in Nat
    BY <2>1, BoundaryNumbers DEF BeforeMember
  <2>5. pos \div 8 = HdrAt(b)
    BY <2>4, WholeBytes
  <2>6. AtHeader(input, HdrAt(b)) /\ HdrAt(b) < input.len
    BY <2>2, <2>3, <2>5 DEF BgzfClean
  <2>7. CleanTo(input, b)
    BY <2>4, <2>6 DEF AtHeader
  <2> QED BY <2>1, <2>6, <2>7
<1> QED BY <1>1, <1>2

\* The first header of a plain member.
LEMMA FirstHeaderKept ==
    ASSUME ReadInv, CleanInv, FirstHeader
    PROVE  Kept /\ CleanInv'
<1>1. /\ path \in {"plain", "bgzf"} /\ pc = "header" /\ Running
      /\ UNCHANGED <<input, setup, delivered, sinkOpen, out, crcFed, memberUc, first, final, ends, tail,
                     folded, walk, cur>>
  BY DEF FirstHeader, memberVars, pipeVars, chunkVars, bgzfVars
<1>2. PICK b \in Nat : BeforeMember(b) /\ CleanTo(input, b) /\ HdrAt(b) < input.len
  BY <1>1, CleanBefore
<1>3. /\ input \in Inputs /\ delivered \in Seq(Nat) /\ tail = <<>>
      /\ input.len \in Nat /\ input.len <= input.len
  BY <1>1, InputLength DEF ReadInv, Values, CleanInv
<1>4. /\ b \in Boundaries /\ pos = 8 * HdrAt(b) /\ HdrAt(b) \in Nat /\ OutAt(b) \in Nat
      /\ out = <<>> /\ crcFed = <<>> /\ memberUc = 0
  BY <1>2, BoundaryNumbers DEF BeforeMember
<1>5. b \in Blocks
  BY <1>2, <1>3, <1>4, HeaderHere
<1>6. PICK parsed : parsed = ParseHeader(HdrAt(b), input.len)
  OBVIOUS
<1>7. \/ parsed # "ok" /\ status' = parsed /\ UNCHANGED <<path, pc, pos>>
      \/ /\ parsed = "ok" /\ pos' = pos + 8 * HeaderLen /\ status' = status
         /\ IF setup.threads = 1 THEN path' = "serial" /\ pc' = "block"
                                 ELSE path' = "chunks" /\ pc' = "chunk"
  <2>1. pos \div 8 = HdrAt(b)
    BY <1>4, WholeBytes
  <2> QED BY <1>6, <2>1 DEF FirstHeader
<1>8. CASE parsed # "ok" /\ status' = parsed /\ UNCHANGED <<path, pc, pos>>
  <2>1. Blame(input, setup, b, parsed)
    BY <1>2, <1>3, <1>4, <1>6, <1>8, HeaderRefused
  <2>2. Returns(parsed)
    BY <1>1, <1>8 DEF Returns
  <2>3. MemberOutAt(b) = OutAt(b)
    BY <1>4, <1>5, BoundaryStarts DEF MemberOutAt
  <2>4. sinkOpen => Len(delivered) >= MemberOutAt(b)
    <3>1. Sent(OutAt(b))
      BY <1>2 DEF BeforeMember
    <3>2. PICK c \in Nat : c = OutAt(b)
      BY <1>4
    <3>3. 0 \in Nat /\ 0 <= c
      BY <3>2
    <3>4. Len(Bytes(0, c)) = c - 0
      BY <3>3, BytesType
    <3> QED BY <2>3, <3>1, <3>2, <3>4 DEF Sent, IsOutput
  <2>5. Promise!Fail
    BY <1>2, <1>5, <2>1, <2>2, <2>4, FailStep
  <2>6. CASE path = "plain"
    BY <1>1, <1>3, <1>8, <2>5, <2>6, KeptSteps DEF CleanInv
  <2>7. CASE path = "bgzf"
    <3>1. BgzfClean'
      BY <1>1, <1>8, <2>7 DEF CleanInv, BgzfClean, AtHeader
    <3> QED BY <1>1, <1>3, <1>8, <2>5, <2>7, <3>1, KeptSteps DEF CleanInv
  <2> QED BY <1>1, <2>6, <2>7
<1>9. CASE parsed = "ok" /\ pos' = pos + 8 * HeaderLen /\ status' = status
  <2>1. Kept
    BY <1>1, <1>9, KeptSteps
  <2>2. input.fault[b] # "header"
    BY <1>2, <1>3, <1>4, <1>6, <1>9, HeaderHere
  <2>3. AtBlock(input, b)
    BY <1>2, <1>4, <1>5, <2>2, HeaderPasses
  <2>4. pos' = BlockStart[b] /\ OutStart[b] = OutAt(b) /\ MemberStart(b) = b
    <3>1. BlockStart[b] = 8 * (HdrAt(b) + HeaderLen) /\ HeaderLen \in Nat
      BY <1>4, <1>5, BoundaryStarts, Constants
    <3> QED BY <1>4, <1>5, <1>9, <3>1, BoundaryStarts
  <2>5. CASE path' = "serial" /\ pc' = "block"
    <3>1. AtStart(input', pos')
      BY <1>1, <1>5, <2>3, <2>4, AtPositions
    <3>2. SerialClean'
      BY <1>1, <1>4, <2>5, <3>1 DEF SerialClean
    <3> QED BY <1>1, <1>3, <2>1, <2>5, <3>2 DEF CleanInv
  <2>6. CASE setup.threads # 1 /\ path' = "chunks" /\ pc' = "chunk"
    <3>1. first /\ ~final /\ ends = <<>> /\ folded = 0
      BY <1>1, PlainOrBgzf DEF ChunkIdle
    <3>2. PICK c \in Nat : c = OutAt(b) /\ c <= c
      BY <1>4
    <3>3. PICK bs \in Batches : PendingAt(<<>>, bs, c) /\ bs[0] = b /\ bs[Len(<<>>)] = b
      BY <1>4, PendingNone
    <3>4. TailAt(<<>>, c, c)
      <4>1. Bytes(c, c) = <<>>
        BY <3>2, BytesType
      <4>2. c \in 0 .. c /\ c <= c
        BY <3>2
      <4> QED BY <4>1, <4>2 DEF TailAt
    <3>5. DecodedTo(input, b) /\ Opened(input, b)
      BY <1>2, <2>3 DEF CleanTo, SoundIn, DecodedTo, DecodesIn, AtBlock
    <3>6. (ChunkFrontier(b, c))'
      BY <1>1, <1>5, <2>4, <2>6, <3>1, <3>2, <3>5 DEF ChunkFrontier
    <3>7. ends' = <<>> /\ c + Len(out') = c /\ c + folded' = c /\ c + memberUc' = c
      <4>1. Len(<<>>) = 0
        BY EmptySeq
      <4> QED BY <1>1, <1>4, <3>1, <3>2, <4>1
    <3>8. ChunkFrontier(bs[Len(ends)], c + Len(out))'
      BY <3>3, <3>6, <3>7
    <3>9. /\ OutAt(bs[0]) + memberUc' = c + folded' /\ TailAt(tail', OutAt(bs[0]), c)
          /\ CleanTo(input', bs[0])
      BY <1>1, <1>2, <1>3, <3>2, <3>3, <3>4, <3>7
    <3>10. ChunkCleanAt(bs, c)'
      BY <2>6, <3>3, <3>7, <3>8, <3>9 DEF ChunkCleanAt
    <3>11. input'.len > 0 /\ setup'.threads # 1
      BY <1>1, <1>2, <1>3, <1>4, <2>6
    <3>12. ChunkClean'
      BY <3>3, <3>10, <3>11 DEF ChunkClean
    <3> QED BY <1>1, <1>3, <2>1, <2>6, <3>12 DEF CleanInv
  <2> QED BY <1>7, <1>9, <2>5, <2>6
<1> QED BY <1>7, <1>8, <1>9

\* What is clean stays so when the decoder rests.
LEMMA CleanStays ==
    ASSUME CleanInv,
           UNCHANGED <<input, setup, path, delivered, status, pc, pos, bfinal,
                       memberVars, pipeVars, chunkVars, bgzfVars>>
    PROVE  CleanInv'
<1> USE DEF memberVars, pipeVars, chunkVars, bgzfVars
<1>1. SerialClean => SerialClean'
  BY DEF SerialClean
<1>2. PipeClean => PipeClean'
  BY DEF PipeClean
<1>3. BgzfClean => BgzfClean'
  BY DEF BgzfClean
<1>4. ASSUME ChunkClean PROVE ChunkClean'
  <2>1. PICK bs \in Batches, p \in Nat : ChunkCleanAt(bs, p)
    BY <1>4 DEF ChunkClean
  <2>2. \A f, o : ChunkFrontier(f, o) => (ChunkFrontier(f, o))'
    BY DEF ChunkFrontier
  <2>3. ChunkCleanAt(bs, p)'
    BY <2>1, <2>2 DEF ChunkCleanAt
  <2> QED BY <1>4, <2>1, <2>3, ChunkCleanNext
<1> QED BY <1>1, <1>2, <1>3, <1>4 DEF CleanInv

\* CleanInv is inductive, and every step keeps the promise.
LEMMA CleanInvNext ==
    ASSUME ReadInv, CleanInv, [Next]_vars
    PROVE  CleanInv' /\ Kept
<1>0. input \in Inputs /\ delivered \in Seq(Nat)
  BY DEF ReadInv, Values, CleanInv
<1>1. CASE Open
  BY <1>1, OpenKept
<1>2. CASE FirstHeader
  BY <1>2, FirstHeaderKept
<1>3. CASE PipeStep
  <2>1. path = "pipe" /\ path' = "pipe" /\ Pipe!Step /\ setup' = setup /\ tail' = tail
    BY <1>3 DEF PipeStep, chunkVars
  <2>2. PipeInv /\ PipeClean /\ tail = <<>>
    BY <2>1 DEF ReadInv, DecoderInv, CleanInv
  <2>3. Kept /\ PipeClean' /\ delivered' \in Seq(Nat)
    BY <1>0, <2>1, <2>2, PipeStepsKept
  <2> QED BY <2>1, <2>2, <2>3 DEF CleanInv
<1>4. CASE SerialStep
  <2>1. path = "serial" /\ path' = "serial" /\ File!Step /\ setup' = setup /\ tail' = tail
    BY <1>4 DEF SerialStep, chunkVars
  <2>2. SerialInv /\ SerialClean /\ tail = <<>>
    BY <2>1 DEF ReadInv, DecoderInv, CleanInv
  <2>3. Kept /\ SerialClean' /\ delivered' \in Seq(Nat)
    BY <1>0, <2>1, <2>2, SerialStepsKept
  <2> QED BY <2>1, <2>2, <2>3 DEF CleanInv
<1>5. CASE ChunkStep
  <2>1. path = "chunks" /\ path' = "chunks" /\ Chunks!Step
    BY <1>5 DEF ChunkStep
  <2>2. ChunkInv /\ ChunkClean
    BY <2>1 DEF ReadInv, DecoderInv, CleanInv
  <2>3. Kept /\ ChunkClean' /\ delivered' \in Seq(Nat)
    BY <1>0, <2>1, <2>2, ChunkStepsKept
  <2> QED BY <2>1, <2>3 DEF CleanInv
<1>6. CASE BgzfStep
  <2>1. path = "bgzf" /\ path' = "bgzf" /\ Bgzf!Step /\ tail' = tail
    BY <1>6 DEF BgzfStep, chunkVars
  <2>2. BgzfInv /\ BgzfClean /\ tail = <<>>
    BY <2>1 DEF ReadInv, DecoderInv, CleanInv
  <2>3. Kept /\ BgzfClean' /\ delivered' \in Seq(Nat)
    BY <1>0, <2>1, <2>2, BgzfStepsKept
  <2> QED BY <2>1, <2>2, <2>3 DEF CleanInv
<1>7. CASE HangUp
  <2>1. CleanInv'
    BY <1>7, CleanStays DEF HangUp
  <2>2. Promise!HangUp
    BY <1>7 DEF HangUp, Promise!HangUp, Running
  <2> QED BY <2>1, <2>2 DEF Kept, Promise!Next
<1>8. CASE UNCHANGED vars
  <2>1. CleanInv'
    BY <1>8, CleanStays DEF vars
  <2>2. UNCHANGED <<input, setup, delivered, sinkOpen, status>>
    BY <1>8 DEF vars
  <2> QED BY <2>1, <2>2, KeptSteps
<1> QED BY <1>1, <1>2, <1>3, <1>4, <1>5, <1>6, <1>7, <1>8 DEF Next, Step

\* Whichever way read_gz decodes (from a pipe or a mapped file, with one
\* thread or several, BGZF member by BGZF member, with the crate's kernels or
\* a library), it implements ReadPromise: the sink receives the output in
\* order and nothing that comes after damage, an error names damage of the
\* input (the first, when the decode is serial), and Ok means that every
\* member is complete, checked and delivered.
THEOREM ReadGzKeepsPromise == Spec => KeepsReadPromise
<1>1. Init => CleanInv /\ Promise!Init
  BY CleanInvInit
<1>2. ReadInv /\ CleanInv /\ [Next]_vars => CleanInv' /\ [Promise!Next]_Promise!promiseVars
  BY CleanInvNext DEF Kept
<1>3. Spec => []ReadInv
  BY ReadInvHolds
<1> QED BY <1>1, <1>2, <1>3, PTL DEF Spec, KeepsReadPromise, Promise!Spec
=============================================================================
