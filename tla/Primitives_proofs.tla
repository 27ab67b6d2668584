-------------------------- MODULE Primitives_proofs -------------------------
(***************************************************************************)
(* The two primitives under the decoders, for every size: the bit reader,  *)
(* which all kernels use, and the in-flight cap, which bounds the parallel *)
(* drivers.                                                                *)
(*                                                                         *)
(* The bit reader buffers the input faithfully and is a cursor over its    *)
(* bits, for every length of the input and every size of the byte, of the  *)
(* buffer and of the requests.  Good says of a state of the reader what    *)
(* holds before and after each refill.  A refill leaves the position Pos   *)
(* where it was; it ends with enough bits or at the end of the input.      *)
(*                                                                         *)
(* The cap loses no wake-up and implements the steps of SlotCounter, for   *)
(* every bound Max.                                                        *)
(***************************************************************************)
EXTENDS BitReader, InflightCap, TLAPS

-----------------------------------------------------------------------------
(* Arithmetic of bytes and bits. *)

\* Division with remainder by a positive number.
LEMMA DivMod ==
    ASSUME NEW a \in Int, NEW b \in Nat \ {0}
    PROVE  /\ a \div b \in Int /\ a % b \in 0 .. b - 1
           /\ a = (a \div b) * b + (a % b)
  BY Z3

\* A product of naturals is a natural.
LEMMA TimesNat ==
    ASSUME NEW a \in Nat, NEW b \in Nat
    PROVE  a * b \in Nat
  BY Z3

\* A product grows with its factor.
LEMMA TimesMonotone ==
    ASSUME NEW a \in Int, NEW b \in Int, NEW c \in Nat, a <= b
    PROVE  a * c <= b * c
  BY Z3

\* A strictly smaller factor gives a product smaller by a whole c.
LEMMA TimesStrict ==
    ASSUME NEW a \in Int, NEW b \in Int, NEW c \in Nat, a < b
    PROVE  a * c + c <= b * c
<1>1. (a + 1) * c <= b * c
  BY TimesMonotone
<1>2. (a + 1) * c = a * c + c
  BY Z3
<1> QED BY <1>1, <1>2

\* Multiplication distributes over sums and differences.
LEMMA TimesSum ==
    ASSUME NEW a \in Int, NEW b \in Int, NEW c \in Int
    PROVE  /\ a * c \in Int /\ b * c \in Int
           /\ (a + b) * c = a * c + b * c /\ (a - b) * c = a * c - b * c
  BY Z3

\* A quotient is known by its remainder.
LEMMA DivUnique ==
    ASSUME NEW a \in Int, NEW b \in Nat \ {0}, NEW c \in Int, NEW r \in 0 .. b - 1,
           a = c * b + r
    PROVE  a \div b = c
<1> DEFINE q == a \div b
<1>1. q \in Int /\ a % b \in 0 .. b - 1 /\ a = q * b + (a % b)
  BY DivMod
<1> HIDE DEF q
<1>2. q * b \in Int /\ c * b \in Int
  BY <1>1, TimesSum
<1>3. ~(q < c)
  <2> SUFFICES ASSUME q < c PROVE FALSE
    OBVIOUS
  <2>1. q * b + b <= c * b
    BY <1>1, TimesStrict
  <2> QED BY <1>1, <1>2, <2>1
<1>4. ~(c < q)
  <2> SUFFICES ASSUME c < q PROVE FALSE
    OBVIOUS
  <2>1. c * b + b <= q * b
    BY <1>1, TimesStrict
  <2> QED BY <1>1, <1>2, <2>1
<1>5. q = c
  BY <1>1, <1>3, <1>4
<1> QED BY <1>5 DEF q

-----------------------------------------------------------------------------
(* The refills. *)

\* Position of a reader in state s, and what a refill may rely on and keeps.
Pos(s) == s.byte_pos * ByteBits - s.bits

BufType == [BitIndex -> SUBSET (0 .. TotalBits - 1)]

FaithfulAt(b, n, p) ==
    \A i \in BitIndex : IF i < n THEN b[i] = {p + i} ELSE b[i] \subseteq {p + i}

Good(s) ==
    /\ s.byte_pos \in 0 .. NumBytes /\ s.bits \in 0 .. WordBits /\ s.buf \in BufType
    /\ FaithfulAt(s.buf, s.bits, Pos(s))

\* What a refill to n bits promises of its result t.
RefilledTo(s, n, t) ==
    /\ Good(t) /\ Pos(t) = Pos(s)
    /\ t.bits >= n \/ t.byte_pos = NumBytes

LEMMA Sizes ==
    /\ WordBits \in Nat /\ TotalBits \in Nat
    /\ WordBits >= 2 * ByteBits /\ ByteBits >= 1
    /\ MaxAsk \in Nat /\ MaxAsk >= 1 /\ MaxAsk <= WordBits - ByteBits
<1>1. WordBits \in Nat /\ TotalBits \in Nat
  BY BitReaderAssumption, TimesNat DEF WordBits, TotalBits
<1>2. WordBits >= 2 * ByteBits
  <2>1. 2 * ByteBits <= WordBytes * ByteBits
    BY BitReaderAssumption, TimesMonotone
  <2> QED BY <2>1 DEF WordBits
<1> QED BY <1>1, <1>2, BitReaderAssumption

\* The fields of a state of the reader.
LEMMA FilledFields ==
    ASSUME NEW p, NEW n, NEW b
    PROVE  Filled(p, n, b).byte_pos = p /\ Filled(p, n, b).bits = n /\ Filled(p, n, b).buf = b
  BY DEF Filled

\* A load of n bytes at byte_pos, of which the reader takes k, keeps the buffer
\* faithful.
LEMMA LoadKeepsGood ==
    ASSUME NEW s, Good(s), NEW n \in Nat, NEW k \in 0 .. n,
           s.byte_pos + n <= NumBytes,
           s.bits + k * ByteBits <= WordBits
    PROVE  LET t == Filled(s.byte_pos + k, s.bits + k * ByteBits,
                           OrInput(s.buf, s.byte_pos, n, s.bits))
           IN  Good(t) /\ Pos(t) = Pos(s)
<1> DEFINE t == Filled(s.byte_pos + k, s.bits + k * ByteBits,
                       OrInput(s.buf, s.byte_pos, n, s.bits))
           at == s.byte_pos * ByteBits
<1>0. /\ t.byte_pos = s.byte_pos + k /\ t.bits = s.bits + k * ByteBits
      /\ t.buf = OrInput(s.buf, s.byte_pos, n, s.bits)
  BY FilledFields
<1>1. /\ s.byte_pos \in 0 .. NumBytes /\ s.bits \in 0 .. WordBits /\ s.buf \in BufType
      /\ FaithfulAt(s.buf, s.bits, Pos(s))
  BY DEF Good
<1>2. ByteBits \in Nat /\ NumBytes \in Nat /\ WordBits \in Nat /\ TotalBits \in Nat
  BY BitReaderAssumption, Sizes
<1>3. /\ at \in Nat /\ k * ByteBits \in Nat /\ n * ByteBits \in Nat
      /\ k * ByteBits <= n * ByteBits
      /\ at + n * ByteBits <= TotalBits
  <2>1. at \in Nat /\ k * ByteBits \in Nat /\ n * ByteBits \in Nat
    BY <1>1, <1>2, TimesNat
  <2>2. k * ByteBits <= n * ByteBits
    BY <1>2, TimesMonotone
  <2>3. (s.byte_pos + n) * ByteBits = at + n * ByteBits
    BY <1>1, <1>2, TimesSum
  <2>4. (s.byte_pos + n) * ByteBits <= NumBytes * ByteBits
    BY <1>1, <1>2, TimesMonotone
  <2> QED BY <2>1, <2>2, <2>3, <2>4 DEF TotalBits
<1>4. Pos(s) = at - s.bits
  BY DEF Pos
<1>5. Pos(t) = Pos(s)
  <2>1. t.byte_pos * ByteBits = at + k * ByteBits
    BY <1>0, <1>1, <1>2, TimesSum
  <2> QED BY <1>0, <1>1, <1>3, <1>4, <2>1 DEF Pos
<1>6. ASSUME NEW i \in BitIndex
      PROVE  /\ t.buf[i] = IF i >= s.bits /\ i < s.bits + n * ByteBits
                           THEN s.buf[i] \cup {Pos(s) + i} ELSE s.buf[i]
             /\ t.buf[i] \subseteq 0 .. TotalBits - 1
             /\ IF i < t.bits THEN t.buf[i] = {Pos(s) + i} ELSE t.buf[i] \subseteq {Pos(s) + i}
  <2>1. i \in Nat
    BY <1>2 DEF BitIndex
  <2> HIDE DEF at
  <2>2. at + i - s.bits = Pos(s) + i
    BY <1>1, <1>3, <1>4, <2>1
  <2>3. t.buf[i] = IF i >= s.bits /\ i < s.bits + n * ByteBits
                   THEN s.buf[i] \cup {Pos(s) + i} ELSE s.buf[i]
    BY <1>0, <2>2 DEF OrInput, at
  <2>4. /\ s.buf[i] \subseteq 0 .. TotalBits - 1
        /\ IF i < s.bits THEN s.buf[i] = {Pos(s) + i} ELSE s.buf[i] \subseteq {Pos(s) + i}
    BY <1>1 DEF BufType, FaithfulAt
  <2>5. CASE i >= s.bits /\ i < s.bits + n * ByteBits
    <3>1. t.buf[i] = {Pos(s) + i}
      BY <1>1, <2>1, <2>3, <2>4, <2>5
    <3>2. Pos(s) + i \in 0 .. TotalBits - 1
      BY <1>1, <1>2, <1>3, <2>1, <2>2, <2>5
    <3> QED BY <2>3, <3>1, <3>2
  <2>6. CASE ~(i >= s.bits /\ i < s.bits + n * ByteBits)
    <3>1. t.buf[i] = s.buf[i]
      BY <2>3, <2>6
    <3>2. i < t.bits => i < s.bits
      BY <1>0, <1>1, <1>3, <2>1, <2>6
    <3> QED BY <2>3, <2>4, <3>1, <3>2, <1>0, <1>1, <1>3, <2>1
  <2> QED BY <2>5, <2>6
<1>7. t.buf \in BufType
  <2>1. t.buf = [i \in BitIndex |-> t.buf[i]]
    BY <1>0 DEF OrInput
  <2> HIDE DEF t
  <2> QED BY <1>6, <2>1 DEF BufType
<1> HIDE DEF t, at
<1>8. t.byte_pos \in 0 .. NumBytes /\ t.bits \in 0 .. WordBits
  BY <1>0, <1>1, <1>2, <1>3
<1>9. FaithfulAt(t.buf, t.bits, Pos(t))
  BY <1>5, <1>6 DEF FaithfulAt
<1> QED BY <1>5, <1>7, <1>8, <1>9 DEF Good, t

\* The byte-by-byte refill to n bits.
LEMMA SlowRefillGood ==
    ASSUME NEW s, Good(s), NEW n \in 1 .. WordBits - ByteBits, s.bits < n
    PROVE  RefilledTo(s, n, SlowRefill(s, n)) /\ SlowRefill(s, n).bits < WordBits
<1> DEFINE want == BytesWanted(s, n)
           k == BytesToTake(s, n)
           t == SlowRefill(s, n)
<1>1. s.byte_pos \in 0 .. NumBytes /\ s.bits \in Nat /\ n \in Nat
  BY Sizes DEF Good
<1>2. ByteBits \in Nat \ {0} /\ NumBytes \in Nat /\ WordBits \in Nat
  BY BitReaderAssumption, Sizes
<1>3. want \in Int /\ want * ByteBits \in Int /\ want >= 1
      /\ want * ByteBits <= n - s.bits + ByteBits - 1 /\ want * ByteBits >= n - s.bits
  <2> DEFINE a == n - s.bits + ByteBits - 1
  <2>1. a \in Int
    BY <1>1, <1>2
  <2> HIDE DEF a
  <2>2. want = a \div ByteBits
    BY DEF BytesWanted, a
  <2> HIDE DEF want
  <2>3. want \in Int /\ a % ByteBits \in 0 .. ByteBits - 1 /\ a = want * ByteBits + (a % ByteBits)
    BY <1>2, <2>1, <2>2, DivMod
  <2>4. want * ByteBits \in Int
    BY <1>2, <2>3, TimesSum
  <2>5. want * ByteBits <= a /\ want * ByteBits > a - ByteBits
    BY <1>2, <2>1, <2>3, <2>4
  <2>6. want * ByteBits <= n - s.bits + ByteBits - 1 /\ want * ByteBits >= n - s.bits
    BY <1>1, <1>2, <2>4, <2>5 DEF a
  <2>7. want >= 1
    <3> SUFFICES ASSUME want < 1 PROVE FALSE
      BY <2>3
    <3>1. want * ByteBits <= 0 * ByteBits
      BY <1>2, <2>3, TimesMonotone
    <3> QED BY <1>1, <1>2, <2>4, <2>6, <3>1
  <2> QED BY <2>3, <2>4, <2>6, <2>7
<1> HIDE DEF want
<1>4. k = IF want <= NumBytes - s.byte_pos THEN want ELSE NumBytes - s.byte_pos
  BY DEF BytesToTake, want
<1> HIDE DEF k
<1>5. k \in Nat /\ k <= want /\ s.byte_pos + k <= NumBytes
  BY <1>1, <1>2, <1>3, <1>4
<1>6. k * ByteBits \in Nat /\ k * ByteBits <= want * ByteBits
  BY <1>2, <1>3, <1>5, TimesNat, TimesMonotone
<1>7. s.bits + k * ByteBits < WordBits
  BY <1>1, <1>2, <1>3, <1>6
<1>8. t = Filled(s.byte_pos + k, s.bits + k * ByteBits, OrInput(s.buf, s.byte_pos, k, s.bits))
  BY DEF SlowRefill, k
<1>9. k \in 0 .. k /\ s.bits + k * ByteBits <= WordBits
  BY <1>1, <1>2, <1>5, <1>6, <1>7
<1>10. Good(t) /\ Pos(t) = Pos(s)
  BY <1>5, <1>8, <1>9, LoadKeepsGood
<1>11. t.byte_pos = s.byte_pos + k /\ t.bits = s.bits + k * ByteBits
  BY <1>8, FilledFields
<1> HIDE DEF t
<1>12. t.bits >= n \/ t.byte_pos = NumBytes
  BY <1>1, <1>2, <1>3, <1>4, <1>5, <1>6, <1>11
<1> QED BY <1>7, <1>10, <1>11, <1>12 DEF RefilledTo, t

\* BitReader::refill to n bits.
LEMMA RefillGood ==
    ASSUME NEW s, Good(s), NEW n \in 1 .. WordBits - ByteBits
    PROVE  RefilledTo(s, n, Refill(s, n))
<1> DEFINE k == (WordBits - s.bits) \div ByteBits
<1>1. s.byte_pos \in 0 .. NumBytes /\ s.bits \in 0 .. WordBits /\ n \in Nat
  BY Sizes DEF Good
<1>2. ByteBits \in Nat \ {0} /\ NumBytes \in Nat /\ WordBits \in Nat /\ WordBytes \in Nat
  BY BitReaderAssumption, Sizes
<1>3. CASE s.bits >= n
  <2>1. Refill(s, n) = s
    BY <1>3 DEF Refill
  <2> QED BY <1>3, <2>1 DEF RefilledTo
<1>4. CASE s.bits < n /\ CanLoad(s) /\ s.bits <= WordBits - ByteBits
  <2> DEFINE a == WordBits - s.bits
             t == Refill(s, n)
  <2>1. a \in Int /\ k = a \div ByteBits
    BY <1>1, <1>2
  <2> HIDE DEF k, a
  <2>2. k \in Int /\ a % ByteBits \in 0 .. ByteBits - 1 /\ a = k * ByteBits + (a % ByteBits)
    BY <1>2, <2>1, DivMod
  <2>3. k * ByteBits \in Int
    BY <1>2, <2>2, TimesSum
  <2>4. k * ByteBits <= WordBits - s.bits /\ k * ByteBits > WordBits - s.bits - ByteBits
    <3>1. k * ByteBits <= a /\ k * ByteBits > a - ByteBits
      BY <1>2, <2>1, <2>2, <2>3
    <3> QED BY <3>1 DEF a
  <2>5. k \in 0 .. WordBytes
    <3>1. ~(k < 0)
      <4> SUFFICES ASSUME k < 0 PROVE FALSE
        OBVIOUS
      <4>1. k * ByteBits + ByteBits <= 0 * ByteBits
        BY <1>2, <2>2, TimesStrict
      <4> QED BY <1>1, <1>2, <1>4, <2>3, <2>4, <4>1
    <3>2. ~(WordBytes < k)
      <4> SUFFICES ASSUME WordBytes < k PROVE FALSE
        OBVIOUS
      <4>1. WordBits + ByteBits <= k * ByteBits
        BY <1>2, <2>2, TimesStrict DEF WordBits
      <4> QED BY <1>1, <1>2, <2>3, <2>4, <4>1
    <3> QED BY <1>2, <2>2, <3>1, <3>2
  <2>6. t = Filled(s.byte_pos + k, s.bits + k * ByteBits, OrInput(s.buf, s.byte_pos, WordBytes, s.bits))
    <3>1. ~(s.bits >= n)
      BY <1>1, <1>4
    <3> QED BY <1>4, <3>1 DEF Refill, k
  <2>7. s.bits + k * ByteBits <= WordBits /\ s.byte_pos + WordBytes <= NumBytes
    BY <1>1, <1>2, <1>4, <2>3, <2>4 DEF CanLoad
  <2>8. Good(t) /\ Pos(t) = Pos(s)
    BY <1>2, <2>5, <2>6, <2>7, LoadKeepsGood
  <2>9. t.bits = s.bits + k * ByteBits
    BY <2>6, FilledFields
  <2> HIDE DEF t
  <2>10. t.bits >= n
    BY <1>1, <1>2, <2>3, <2>4, <2>9
  <2> QED BY <2>8, <2>10 DEF RefilledTo, t
<1>5. CASE s.bits < n /\ ~(CanLoad(s) /\ s.bits <= WordBits - ByteBits)
  <2>1. ~(s.bits >= n)
    BY <1>1, <1>5
  <2>2. Refill(s, n) = SlowRefill(s, n)
    BY <1>5, <2>1 DEF Refill
  <2> QED BY <1>5, <2>2, SlowRefillGood
<1> QED BY <1>1, <1>3, <1>4, <1>5

\* The refill of the kernels: (63 ^ bits) >> 3 bytes and bits |= 56 agree.
LEMMA KernelRefillGood ==
    ASSUME NEW s, Good(s), s.bits < WordBits
    PROVE  RefilledTo(s, NEEDED, KernelRefill(s)) /\ KernelRefill(s).bits < WordBits
<1> DEFINE q == s.bits \div ByteBits
           r == s.bits % ByteBits
           k == KernelAdvance(s.bits)
<1>1. s.byte_pos \in 0 .. NumBytes /\ s.bits \in 0 .. WordBits /\ NEEDED \in Nat
      /\ NEEDED \in 1 .. WordBits - ByteBits
  BY Sizes, BitReaderAssumption DEF Good
<1>2. ByteBits \in Nat \ {0} /\ NumBytes \in Nat /\ WordBits \in Nat /\ WordBytes \in Nat
  BY BitReaderAssumption, Sizes
<1>3. CASE CanLoad(s)
  <2>1. q \in Int /\ r \in 0 .. ByteBits - 1 /\ s.bits = q * ByteBits + r /\ q * ByteBits \in Int
    <3>1. s.bits \in Int
      BY <1>1, <1>2
    <3>2. q \in Int /\ r \in 0 .. ByteBits - 1 /\ s.bits = q * ByteBits + r
      BY <1>2, <3>1, DivMod
    <3>3. q * ByteBits \in Int
      BY <1>2, <3>2, TimesSum
    <3> QED BY <3>2, <3>3
  <2> HIDE DEF q, r
  <2>2. (WordBytes - q - 1) * ByteBits = WordBits - q * ByteBits - ByteBits
    <3>1. (WordBytes - q - 1) * ByteBits = (WordBytes - q) * ByteBits - 1 * ByteBits
      BY <1>2, <2>1, TimesSum
    <3>2. (WordBytes - q) * ByteBits = WordBytes * ByteBits - q * ByteBits
      BY <1>2, <2>1, TimesSum
    <3> QED BY <1>2, <2>1, <3>1, <3>2 DEF WordBits
  <2>3. k = WordBytes - q - 1
    <3> DEFINE a == WordBits - 1 - s.bits
               c == WordBytes - q - 1
    <3>1. a \in Int /\ c \in Int /\ ByteBits - 1 - r \in 0 .. ByteBits - 1
      BY <1>1, <1>2, <2>1
    <3>2. a = c * ByteBits + (ByteBits - 1 - r)
      BY <1>1, <1>2, <2>1, <2>2
    <3> HIDE DEF a, c
    <3>3. a \div ByteBits = c
      BY <1>2, <3>1, <3>2, DivUnique
    <3> QED BY <3>3 DEF KernelAdvance, a, c
  <2>4. k * ByteBits = WordBits - q * ByteBits - ByteBits
    BY <2>2, <2>3
  <2>5. s.bits + k * ByteBits = WordBits - ByteBits + r
    BY <1>1, <1>2, <2>1, <2>4
  <2>6. k \in 0 .. WordBytes
    <3>1. ~(q < 0)
      <4> SUFFICES ASSUME q < 0 PROVE FALSE
        OBVIOUS
      <4>1. q * ByteBits + ByteBits <= 0 * ByteBits
        BY <1>2, <2>1, TimesStrict
      <4> QED BY <1>1, <1>2, <2>1, <4>1
    <3>2. ~(WordBytes - 1 < q)
      <4> SUFFICES ASSUME WordBytes - 1 < q PROVE FALSE
        OBVIOUS
      <4>1. WordBytes <= q
        BY <1>2, <2>1
      <4>2. WordBits <= q * ByteBits
        BY <1>2, <2>1, <4>1, TimesMonotone DEF WordBits
      <4> QED BY <1>1, <1>2, <2>1, <4>2
    <3> QED BY <1>2, <2>1, <2>3, <3>1, <3>2
  <2> DEFINE t == KernelRefill(s)
  <2>7. t = Filled(s.byte_pos + k, s.bits + k * ByteBits, OrInput(s.buf, s.byte_pos, WordBytes, s.bits))
    BY <1>3, <2>5 DEF KernelRefill, r
  <2> HIDE DEF k
  <2>8. s.bits + k * ByteBits <= WordBits /\ s.byte_pos + WordBytes <= NumBytes
    BY <1>2, <1>3, <2>1, <2>5 DEF CanLoad
  <2>9. Good(t) /\ Pos(t) = Pos(s)
    BY <1>2, <2>6, <2>7, <2>8, LoadKeepsGood
  <2>10. t.bits = s.bits + k * ByteBits
    BY <2>7, FilledFields
  <2> HIDE DEF t
  <2>11. t.bits >= NEEDED /\ t.bits < WordBits
    BY <1>1, <1>2, <2>1, <2>5, <2>10
  <2> QED BY <2>9, <2>11 DEF RefilledTo, t
<1>4. CASE ~CanLoad(s) /\ s.bits < NEEDED
  <2>1. KernelRefill(s) = SlowRefill(s, NEEDED)
    BY <1>4 DEF KernelRefill
  <2> QED BY <1>1, <1>4, <2>1, SlowRefillGood
<1>5. CASE ~CanLoad(s) /\ ~(s.bits < NEEDED)
  <2>1. KernelRefill(s) = s
    BY <1>5 DEF KernelRefill
  <2>2. s.bits >= NEEDED
    BY <1>1, <1>5
  <2> QED BY <2>1, <2>2 DEF RefilledTo
<1> QED BY <1>3, <1>4, <1>5

-----------------------------------------------------------------------------
(* The operations. *)

\* Consuming m valid bits moves the position by m and keeps the rest.
LEMMA ShiftKeepsGood ==
    ASSUME NEW s, Good(s), NEW m \in 0 .. s.bits
    PROVE  LET t == Filled(s.byte_pos, s.bits - m, ShiftRight(s.buf, m))
           IN  Good(t) /\ Pos(t) = Pos(s) + m
<1> DEFINE t == Filled(s.byte_pos, s.bits - m, ShiftRight(s.buf, m))
           p == Pos(s)
<1>0. /\ t.byte_pos = s.byte_pos /\ t.bits = s.bits - m
      /\ t.buf = ShiftRight(s.buf, m)
  BY FilledFields
<1> HIDE DEF t
<1>1. /\ s.byte_pos \in 0 .. NumBytes /\ s.bits \in 0 .. WordBits /\ s.buf \in BufType
      /\ FaithfulAt(s.buf, s.bits, p)
  BY DEF Good
<1>2. ByteBits \in Nat /\ NumBytes \in Nat /\ WordBits \in Nat /\ TotalBits \in Nat
  BY BitReaderAssumption, Sizes
<1>3. s.byte_pos * ByteBits \in Nat
  BY <1>1, <1>2, TimesNat
<1>4. p \in Int /\ Pos(t) = p + m /\ m \in Nat
  BY <1>0, <1>1, <1>2, <1>3 DEF Pos
<1> HIDE DEF p
<1>5. ASSUME NEW i \in BitIndex
      PROVE  /\ t.buf[i] = IF i + m < WordBits THEN s.buf[i + m] ELSE {}
             /\ t.buf[i] \subseteq 0 .. TotalBits - 1
             /\ IF i < t.bits THEN t.buf[i] = {p + m + i} ELSE t.buf[i] \subseteq {p + m + i}
  <2>1. i \in Nat
    BY <1>2 DEF BitIndex
  <2>2. t.buf[i] = IF i + m < WordBits THEN s.buf[i + m] ELSE {}
    BY <1>0 DEF ShiftRight
  <2>3. CASE i + m < WordBits
    <3>1. i + m \in BitIndex
      BY <1>2, <1>4, <2>1, <2>3 DEF BitIndex
    <3>2. /\ s.buf[i + m] \subseteq 0 .. TotalBits - 1
          /\ IF i + m < s.bits THEN s.buf[i + m] = {p + (i + m)}
             ELSE s.buf[i + m] \subseteq {p + (i + m)}
      BY <1>1, <3>1 DEF BufType, FaithfulAt
    <3>3. p + (i + m) = p + m + i /\ (i + m < s.bits <=> i < t.bits)
      BY <1>0, <1>1, <1>2, <1>4, <2>1
    <3> QED BY <2>2, <2>3, <3>2, <3>3
  <2>4. CASE ~(i + m < WordBits)
    <3>1. ~(i < t.bits)
      BY <1>0, <1>1, <1>2, <1>4, <2>1, <2>4
    <3> QED BY <2>2, <2>4, <3>1
  <2> QED BY <2>3, <2>4
<1>6. t.buf \in BufType
  <2>1. t.buf = [i \in BitIndex |-> t.buf[i]]
    BY <1>0 DEF ShiftRight
  <2> QED BY <1>5, <2>1 DEF BufType
<1>7. t.byte_pos \in 0 .. NumBytes /\ t.bits \in 0 .. WordBits
  BY <1>0, <1>1, <1>2
<1>8. FaithfulAt(t.buf, t.bits, Pos(t))
  BY <1>4, <1>5 DEF FaithfulAt
<1> QED BY <1>4, <1>6, <1>7, <1>8 DEF Good, t, p

\* The reader between two operations.
ReaderInv == ReaderTypeOK /\ BufferFaithful

\* The invariant as a statement about Now.
LEMMA NowGood ==
    /\ ReaderInv => Good(Now) /\ Pos(Now) = tell_bit
    /\ Now.byte_pos = byte_pos /\ Now.bits = bits /\ Now.buf = buf
<1>1. Now.byte_pos = byte_pos /\ Now.bits = bits /\ Now.buf = buf
  BY FilledFields DEF Now
<1>2. Pos(Now) = tell_bit
  BY <1>1 DEF Pos, tell_bit
<1>3. ASSUME ReaderInv PROVE Good(Now)
  <2>1. byte_pos \in 0 .. NumBytes /\ bits \in 0 .. WordBits /\ buf \in BufType
    BY <1>3, Sizes DEF ReaderInv, ReaderTypeOK, BufType
  <2>2. FaithfulAt(buf, bits, tell_bit)
    BY <1>3 DEF ReaderInv, BufferFaithful, FaithfulAt
  <2> QED BY <1>1, <1>2, <2>1, <2>2 DEF Good
<1> QED BY <1>1, <1>2, <1>3

\* A good state with room for another bit, reached by a step, satisfies the
\* invariant.
LEMMA GoodNext ==
    ASSUME NEW t, Good(t), t.bits < WordBits,
           byte_pos' = t.byte_pos, bits' = t.bits, buf' = t.buf,
           call' \in ({"take"} \X (1 .. MaxAsk)) \cup ({"align"} \X {0})
                     \cup ({"seek"} \X (0 .. TotalBits + 1)),
           got' \in Seq(SUBSET (0 .. TotalBits - 1)), eof' \in BOOLEAN
    PROVE  ReaderInv' /\ tell_bit' = Pos(t)
<1>1. tell_bit' = Pos(t)
  BY DEF tell_bit, Pos
<1>2. t.byte_pos \in 0 .. NumBytes /\ t.bits \in 0 .. WordBits - 1 /\ t.buf \in BufType
  BY Sizes DEF Good
<1>3. ReaderTypeOK'
  BY <1>2 DEF ReaderTypeOK, BufType
<1>4. BufferFaithful'
  BY <1>1 DEF BufferFaithful, Good, FaithfulAt
<1> QED BY <1>1, <1>3, <1>4 DEF ReaderInv

\* A step of the cursor or no visible change.
StreamStep == [Stream!Next]_(Stream!streamVars)

\* The bits an operation returns are the next bits of the input.
LEMMA TakenBits ==
    ASSUME NEW s, Good(s), NEW m \in 0 .. s.bits
    PROVE  /\ [i \in 1 .. m |-> s.buf[i - 1]] = Stream!BitsFrom(Pos(s), m)
           /\ [i \in 1 .. m |-> s.buf[i - 1]] \in Seq(SUBSET (0 .. TotalBits - 1))
<1>1. s.bits \in 0 .. WordBits /\ s.buf \in BufType /\ FaithfulAt(s.buf, s.bits, Pos(s))
      /\ s.byte_pos \in Nat
  BY BitReaderAssumption DEF Good
<1>2. WordBits \in Nat /\ m \in Nat
  BY <1>1, Sizes
<1>3. Pos(s) \in Int
  BY <1>1, BitReaderAssumption, TimesNat, <1>2 DEF Pos
<1>4. ASSUME NEW i \in 1 .. m
      PROVE  s.buf[i - 1] = {Pos(s) + i - 1} /\ s.buf[i - 1] \in SUBSET (0 .. TotalBits - 1)
  <2>1. i - 1 \in BitIndex /\ i - 1 < s.bits
    BY <1>1, <1>2 DEF BitIndex
  <2>2. s.buf[i - 1] = {Pos(s) + (i - 1)} /\ s.buf[i - 1] \in SUBSET (0 .. TotalBits - 1)
    BY <1>1, <2>1 DEF BufType, FaithfulAt
  <2>3. Pos(s) + (i - 1) = Pos(s) + i - 1
    BY <1>2, <1>3
  <2> QED BY <2>2, <2>3
<1>5. [i \in 1 .. m |-> s.buf[i - 1]] = Stream!BitsFrom(Pos(s), m)
  BY <1>4 DEF Stream!BitsFrom
<1>6. [i \in 1 .. m |-> s.buf[i - 1]] \in Seq(SUBSET (0 .. TotalBits - 1))
  BY <1>2, <1>4
<1> QED BY <1>5, <1>6

\* An operation that takes m of at least n bits out of a refilled reader.
LEMMA TakeStep ==
    ASSUME ReaderInv, NEW s, NEW n \in 1 .. MaxAsk, NEW m \in 1 .. n,
           RefilledTo(Now, n, s), TakeFrom(s, n, m)
    PROVE  ReaderInv' /\ StreamStep
<1>1. Good(s) /\ Pos(s) = tell_bit /\ (s.bits >= n \/ s.byte_pos = NumBytes)
  BY NowGood DEF RefilledTo
<1>2. s.bits \in 0 .. WordBits /\ s.byte_pos \in 0 .. NumBytes
  BY <1>1 DEF Good
<1>3. /\ WordBits \in Nat /\ TotalBits \in Nat /\ ByteBits \in Nat /\ NumBytes \in Nat
      /\ n \in Nat /\ m \in Nat /\ m >= 1 /\ m <= n /\ n < WordBits
  BY Sizes, BitReaderAssumption
<1>4. call' = <<"take", n>> /\ byte_pos' = s.byte_pos
  BY DEF TakeFrom
<1>5. call' \in ({"take"} \X (1 .. MaxAsk)) \cup ({"align"} \X {0})
                 \cup ({"seek"} \X (0 .. TotalBits + 1))
  BY <1>4
<1>6. s.byte_pos * ByteBits \in Nat /\ s.byte_pos * ByteBits <= TotalBits
      /\ (s.byte_pos = NumBytes => s.byte_pos * ByteBits = TotalBits)
      /\ Pos(s) + s.bits = s.byte_pos * ByteBits /\ Pos(s) \in Int
  <2>1. s.byte_pos * ByteBits \in Nat /\ s.byte_pos * ByteBits <= TotalBits
    BY <1>2, <1>3, TimesNat, TimesMonotone DEF TotalBits
  <2> QED BY <1>2, <1>3, <2>1 DEF Pos, TotalBits
<1>7. CASE s.bits >= n
  <2> DEFINE t == Filled(s.byte_pos, s.bits - m, ShiftRight(s.buf, m))
  <2>1. /\ got' = [i \in 1 .. m |-> s.buf[i - 1]] /\ bits' = s.bits - m
        /\ buf' = ShiftRight(s.buf, m) /\ eof' = FALSE
    BY <1>7 DEF TakeFrom
  <2>2. m \in 0 .. s.bits
    BY <1>2, <1>3, <1>7
  <2>3. Good(t) /\ Pos(t) = Pos(s) + m
    BY <1>1, <2>2, ShiftKeepsGood
  <2>4. byte_pos' = t.byte_pos /\ bits' = t.bits /\ buf' = t.buf
    BY <1>4, <2>1, FilledFields
  <2>5. t.bits < WordBits
    BY <1>2, <1>3, <2>1, <2>4
  <2>6. got' = Stream!BitsFrom(Pos(s), m) /\ got' \in Seq(SUBSET (0 .. TotalBits - 1))
    BY <1>1, <2>1, <2>2, TakenBits
  <2> HIDE DEF t
  <2>7. ReaderInv' /\ tell_bit' = Pos(t)
    BY <1>5, <2>1, <2>3, <2>4, <2>5, <2>6, GoodNext
  <2>8. tell_bit + n <= TotalBits
    BY <1>1, <1>2, <1>3, <1>6, <1>7
  <2>9. Stream!Take(n, m)
    BY <1>1, <1>4, <2>1, <2>3, <2>6, <2>7, <2>8 DEF Stream!Take, Stream!TotalBits, TotalBits
  <2> QED BY <2>7, <2>9 DEF StreamStep, Stream!Next
<1>8. CASE ~(s.bits >= n)
  <2>1. bits' = s.bits /\ buf' = s.buf /\ eof' = TRUE /\ got' = got
    BY <1>8 DEF TakeFrom
  <2>2. s.bits < WordBits
    BY <1>2, <1>3, <1>8
  <2>3. got' \in Seq(SUBSET (0 .. TotalBits - 1))
    BY <2>1 DEF ReaderInv, ReaderTypeOK
  <2>4. ReaderInv' /\ tell_bit' = Pos(s)
    BY <1>1, <1>4, <1>5, <2>1, <2>2, <2>3, GoodNext
  <2>5. tell_bit + n > TotalBits
    BY <1>1, <1>2, <1>3, <1>6, <1>8
  <2>6. Stream!Starve(n)
    BY <1>1, <1>4, <2>1, <2>4, <2>5 DEF Stream!Starve, Stream!TotalBits, TotalBits
  <2> QED BY <2>4, <2>6 DEF StreamStep, Stream!Next
<1> QED BY <1>7, <1>8

\* byte_align drops the rest of the current byte.
LEMMA AlignStep ==
    ASSUME ReaderInv, ByteAlign
    PROVE  ReaderInv' /\ StreamStep
<1> DEFINE q == bits \div ByteBits
           r == bits % ByteBits
           t == Filled(Now.byte_pos, Now.bits - r, ShiftRight(Now.buf, r))
<1>1. /\ byte_pos \in Nat /\ bits \in 0 .. WordBits - 1 /\ ByteBits \in Nat \ {0}
      /\ WordBits \in Nat /\ TotalBits \in Nat
  BY Sizes, BitReaderAssumption DEF ReaderInv, ReaderTypeOK
<1>2. q \in Int /\ r \in 0 .. ByteBits - 1 /\ bits = q * ByteBits + r /\ q * ByteBits \in Int
  <2>1. bits \in Int
    BY <1>1
  <2>2. q \in Int /\ r \in 0 .. ByteBits - 1 /\ bits = q * ByteBits + r
    BY <1>1, <2>1, DivMod
  <2> HIDE DEF q
  <2>3. q * ByteBits \in Int
    BY <1>1, <2>2, TimesSum
  <2> QED BY <2>2, <2>3
<1>3. /\ call' = <<"align", 0>> /\ bits' = bits - r /\ buf' = ShiftRight(buf, r)
      /\ got' = <<>> /\ eof' = FALSE /\ byte_pos' = byte_pos
  BY DEF ByteAlign, AlignDrop
<1> HIDE DEF q, r
<1>4. r \in 0 .. bits
  <2>1. ~(q < 0)
    <3> SUFFICES ASSUME q < 0 PROVE FALSE
      OBVIOUS
    <3>1. q * ByteBits + ByteBits <= 0 * ByteBits
      BY <1>1, <1>2, TimesStrict
    <3> QED BY <1>1, <1>2, <3>1
  <2>2. q * ByteBits \in Nat
    BY <1>1, <1>2, <2>1, TimesNat
  <2> QED BY <1>1, <1>2, <2>2
<1>5. Good(Now) /\ Pos(Now) = tell_bit /\ Now.byte_pos = byte_pos /\ Now.bits = bits /\ Now.buf = buf
  BY NowGood
<1>6. Good(t) /\ Pos(t) = tell_bit + r
  BY <1>4, <1>5, ShiftKeepsGood
<1>7. byte_pos' = t.byte_pos /\ bits' = t.bits /\ buf' = t.buf
  BY <1>3, <1>5, FilledFields
<1>8. t.bits < WordBits
  BY <1>1, <1>3, <1>4, <1>7
<1> HIDE DEF t
<1>9. /\ call' \in ({"take"} \X (1 .. MaxAsk)) \cup ({"align"} \X {0})
                   \cup ({"seek"} \X (0 .. TotalBits + 1))
      /\ got' \in Seq(SUBSET (0 .. TotalBits - 1)) /\ eof' \in BOOLEAN
  <2>1. eof' \in BOOLEAN /\ call' = <<"align", 0>> /\ got' = <<>>
    BY <1>3, Zenon
  <2>2. <<>> \in Seq(SUBSET (0 .. TotalBits - 1))
    OBVIOUS
  <2> QED BY <2>1, <2>2
<1>10. ReaderInv' /\ tell_bit' = tell_bit + r
  BY <1>6, <1>7, <1>8, <1>9, GoodNext
<1>11. tell_bit' = ((tell_bit + ByteBits - 1) \div ByteBits) * ByteBits
  <2> DEFINE c == byte_pos - q
             a == tell_bit + ByteBits - 1
  <2>1. c * ByteBits = byte_pos * ByteBits - q * ByteBits /\ byte_pos * ByteBits \in Int
    BY <1>1, <1>2, TimesSum
  <2>2. tell_bit = c * ByteBits - r /\ c * ByteBits \in Int
    BY <1>1, <1>2, <2>1 DEF tell_bit
  <2>3. a = c * ByteBits + (ByteBits - 1 - r) /\ a \in Int /\ ByteBits - 1 - r \in 0 .. ByteBits - 1
    BY <1>1, <1>2, <2>2
  <2>4. c \in Int
    BY <1>1, <1>2
  <2> HIDE DEF a, c
  <2>5. a \div ByteBits = c
    BY <1>1, <2>3, <2>4, DivUnique
  <2>6. tell_bit' = c * ByteBits
    BY <1>1, <1>2, <1>10, <2>2
  <2> QED BY <2>5, <2>6 DEF a
<1>12. Stream!Align
  BY <1>3, <1>11 DEF Stream!Align
<1> QED BY <1>10, <1>12 DEF StreamStep, Stream!Next

\* seek_to_bit, to a bit of the input or beyond it.
LEMMA SeekStep ==
    ASSUME ReaderInv, NEW p \in 0 .. TotalBits + 1, SeekToBit(p)
    PROVE  ReaderInv' /\ StreamStep
<1>1. /\ ByteBits \in Nat \ {0} /\ NumBytes \in Nat /\ WordBits \in Nat /\ TotalBits \in Nat
      /\ WordBits >= 2 * ByteBits /\ p \in Nat
  BY Sizes, BitReaderAssumption
<1>2. call' = <<"seek", p>>
  BY DEF SeekToBit
<1>3. call' \in ({"take"} \X (1 .. MaxAsk)) \cup ({"align"} \X {0})
                 \cup ({"seek"} \X (0 .. TotalBits + 1))
  BY <1>2
<1>4. CASE p > TotalBits
  <2>1. eof' = TRUE /\ byte_pos' = byte_pos /\ bits' = bits /\ buf' = buf /\ got' = got
    BY <1>1, <1>4 DEF SeekToBit
  <2>2. Good(Now) /\ Pos(Now) = tell_bit /\ Now.byte_pos = byte_pos /\ Now.bits = bits /\ Now.buf = buf
    BY NowGood
  <2>3. Now.bits < WordBits /\ got' \in Seq(SUBSET (0 .. TotalBits - 1))
    BY <1>1, <2>1, <2>2 DEF ReaderInv, ReaderTypeOK
  <2>4. ReaderInv' /\ tell_bit' = tell_bit
    BY <1>3, <2>1, <2>2, <2>3, GoodNext
  <2>5. Stream!SeekBeyond(p)
    BY <1>2, <1>4, <2>1, <2>4 DEF Stream!SeekBeyond, Stream!TotalBits, TotalBits
  <2>6. p \in 0 .. Stream!TotalBits + 1
    BY DEF TotalBits, Stream!TotalBits
  <2> QED BY <2>4, <2>5, <2>6 DEF StreamStep, Stream!Next
<1>5. CASE p <= TotalBits
  <2> DEFINE q == p \div ByteBits
             r == p % ByteBits
             s0 == SeekState(p)
             s == SeekDiscard(p)
             t == Filled(s.byte_pos, s.bits - r, ShiftRight(s.buf, r))
  <2>1. q \in Int /\ r \in 0 .. ByteBits - 1 /\ p = q * ByteBits + r /\ q * ByteBits \in Int
    <3>1. p \in Int
      BY <1>1
    <3>2. q \in Int /\ r \in 0 .. ByteBits - 1 /\ p = q * ByteBits + r
      BY <1>1, <3>1, DivMod
    <3> HIDE DEF q
    <3>3. q * ByteBits \in Int
      BY <1>1, <3>2, TimesSum
    <3> QED BY <3>2, <3>3
  <2>2. /\ byte_pos' = s.byte_pos /\ bits' = s.bits - r /\ buf' = ShiftRight(s.buf, r)
        /\ got' = <<>> /\ eof' = FALSE
    BY <1>1, <1>5 DEF SeekToBit
  <2>3. s0.byte_pos = q /\ s0.bits = 0 /\ s0.buf = EmptyBuf
    BY FilledFields DEF SeekState
  <2>4. s = IF r = 0 THEN s0 ELSE Refill(s0, r)
    BY DEF SeekDiscard
  <2> HIDE DEF q, r, s0, s
  <2>5. q \in 0 .. NumBytes /\ (q = NumBytes => r = 0)
    <3>1. ~(q < 0)
      <4> SUFFICES ASSUME q < 0 PROVE FALSE
        OBVIOUS
      <4>1. q * ByteBits + ByteBits <= 0 * ByteBits
        BY <1>1, <2>1, TimesStrict
      <4> QED BY <1>1, <2>1, <4>1
    <3>2. ~(NumBytes < q)
      <4> SUFFICES ASSUME NumBytes < q PROVE FALSE
        OBVIOUS
      <4>1. TotalBits + ByteBits <= q * ByteBits
        BY <1>1, <2>1, TimesStrict DEF TotalBits
      <4> QED BY <1>1, <1>5, <2>1, <4>1
    <3>3. q = NumBytes => r = 0
      <4> SUFFICES ASSUME q = NumBytes PROVE r = 0
        OBVIOUS
      <4>1. q * ByteBits = TotalBits
        BY DEF TotalBits
      <4> QED BY <1>1, <1>5, <2>1, <4>1
    <3> QED BY <1>1, <2>1, <3>1, <3>2, <3>3
  <2>6. Good(s0) /\ Pos(s0) = q * ByteBits
    <3>1. Pos(s0) = q * ByteBits
      BY <2>1, <2>3 DEF Pos
    <3>2. EmptyBuf \in BufType /\ \A i \in BitIndex : EmptyBuf[i] = {}
      BY DEF EmptyBuf, BufType
    <3>3. FaithfulAt(EmptyBuf, 0, q * ByteBits)
      <4> SUFFICES ASSUME NEW i \in BitIndex
                   PROVE  IF i < 0 THEN EmptyBuf[i] = {q * ByteBits + i}
                          ELSE EmptyBuf[i] \subseteq {q * ByteBits + i}
        BY DEF FaithfulAt
      <4>1. ~(i < 0)
        BY <1>1 DEF BitIndex
      <4> QED BY <3>2, <4>1
    <3> QED BY <1>1, <2>3, <2>5, <3>1, <3>2, <3>3 DEF Good
  <2>7. Good(s) /\ Pos(s) = q * ByteBits /\ r \in 0 .. s.bits
    <3>1. CASE r = 0
      <4>1. s = s0
        BY <2>4, <3>1
      <4> QED BY <2>3, <2>6, <3>1, <4>1
    <3>2. CASE r # 0
      <4>1. r \in 1 .. WordBits - ByteBits
        BY <1>1, <2>1, <3>2
      <4>2. RefilledTo(s0, r, s)
        BY <2>4, <2>6, <3>2, <4>1, RefillGood
      <4>3. Good(s) /\ Pos(s) = q * ByteBits /\ (s.bits >= r \/ s.byte_pos = NumBytes)
        BY <2>6, <4>2 DEF RefilledTo
      <4>4. s.bits \in 0 .. WordBits
        BY <4>3 DEF Good
      <4>5. s.bits >= r
        <5> SUFFICES ASSUME s.byte_pos = NumBytes PROVE s.bits >= r
          BY <4>3
        <5>1. TotalBits - s.bits = q * ByteBits
          BY <4>3 DEF Pos, TotalBits
        <5>2. q < NumBytes
          BY <1>1, <2>1, <2>5, <3>2
        <5>3. q * ByteBits + ByteBits <= TotalBits
          BY <1>1, <2>1, <5>2, TimesStrict DEF TotalBits
        <5> QED BY <1>1, <2>1, <4>4, <5>1, <5>3
      <4> QED BY <1>1, <2>1, <4>3, <4>4, <4>5
    <3> QED BY <3>1, <3>2
  <2>8. Good(t) /\ Pos(t) = Pos(s) + r
    BY <2>7, ShiftKeepsGood
  <2>9. byte_pos' = t.byte_pos /\ bits' = t.bits /\ buf' = t.buf
    BY <2>2, FilledFields
  <2>10. t.bits < WordBits
    <3>1. CASE r = 0
      BY <1>1, <2>2, <2>3, <2>4, <2>9, <3>1
    <3>2. CASE r # 0
      <4>1. s.bits \in 0 .. WordBits
        BY <2>7 DEF Good
      <4> QED BY <1>1, <2>1, <2>2, <2>9, <3>2, <4>1
    <3> QED BY <3>1, <3>2
  <2> HIDE DEF t
  <2>11. got' \in Seq(SUBSET (0 .. TotalBits - 1)) /\ eof' \in BOOLEAN
    <3>1. eof' \in BOOLEAN /\ got' = <<>>
      BY <2>2, Zenon
    <3>2. <<>> \in Seq(SUBSET (0 .. TotalBits - 1))
      OBVIOUS
    <3> QED BY <3>1, <3>2
  <2>12. ReaderInv' /\ tell_bit' = Pos(t)
    BY <1>3, <2>8, <2>9, <2>10, <2>11, GoodNext
  <2>13. tell_bit' = p
    BY <2>1, <2>7, <2>8, <2>12
  <2>14. Stream!Seek(p)
    BY <1>2, <1>5, <2>2, <2>13 DEF Stream!Seek, Stream!TotalBits, TotalBits
  <2>15. p \in 0 .. Stream!TotalBits + 1
    BY DEF TotalBits, Stream!TotalBits
  <2> QED BY <2>12, <2>14, <2>15 DEF StreamStep, Stream!Next
<1> QED BY <1>1, <1>4, <1>5

LEMMA ReaderStep ==
    ASSUME ReaderInv, [Next]_vars
    PROVE  ReaderInv' /\ StreamStep
<1>0. /\ MaxAsk \in Nat /\ \A n \in 1 .. MaxAsk : n \in 1 .. WordBits - ByteBits
      /\ NEEDED \in 1 .. MaxAsk /\ LIT_GUARD \in 1 .. MaxAsk
  BY Sizes, BitReaderAssumption
<1>1. ASSUME NEW n \in 1 .. MaxAsk, Read(n) PROVE ReaderInv' /\ StreamStep
  <2>1. RefilledTo(Now, n, Refill(Now, n))
    BY <1>0, NowGood, RefillGood
  <2>2. n \in 1 .. n
    BY <1>0
  <2>3. TakeFrom(Refill(Now, n), n, n)
    BY <1>1 DEF Read
  <2> QED BY <2>1, <2>2, <2>3, TakeStep
<1>2. ASSUME NEW n \in 1 .. MaxAsk, NEW m \in 1 .. n, Lookup(n, m) PROVE ReaderInv' /\ StreamStep
  <2>1. RefilledTo(Now, n, Refill(Now, n))
    BY <1>0, NowGood, RefillGood
  <2>2. TakeFrom(Refill(Now, n), n, m)
    BY <1>2 DEF Lookup
  <2> QED BY <2>1, <2>2, TakeStep
<1>3. ASSUME NEW m \in 1 .. NEEDED, KernelSymbol(m) PROVE ReaderInv' /\ StreamStep
  <2>1. Now.bits < WordBits
    BY NowGood, Sizes DEF ReaderInv, ReaderTypeOK
  <2>2. RefilledTo(Now, NEEDED, KernelRefill(Now))
    BY <2>1, NowGood, KernelRefillGood
  <2>3. TakeFrom(KernelRefill(Now), NEEDED, m)
    BY <1>3 DEF KernelSymbol
  <2> QED BY <1>0, <2>2, <2>3, TakeStep
<1>4. ASSUME NEW m \in 1 .. LIT_GUARD, KernelLiteral(m) PROVE ReaderInv' /\ StreamStep
  <2>1. RefilledTo(Now, LIT_GUARD, Now)
    BY <1>4, NowGood DEF RefilledTo, KernelLiteral
  <2>2. TakeFrom(Now, LIT_GUARD, m)
    BY <1>4 DEF KernelLiteral
  <2> QED BY <1>0, <2>1, <2>2, TakeStep
<1>5. CASE UNCHANGED vars
  <2>1. ReaderInv'
    BY <1>5 DEF vars, ReaderInv, ReaderTypeOK, BufferFaithful, tell_bit
  <2>2. StreamStep
    BY <1>5 DEF vars, StreamStep, Stream!streamVars, tell_bit
  <2> QED BY <2>1, <2>2
<1> QED BY <1>1, <1>2, <1>3, <1>4, <1>5, AlignStep, SeekStep DEF Next

LEMMA ReaderInit == Init => ReaderInv
<1> SUFFICES ASSUME Init PROVE ReaderInv
  OBVIOUS
<1>1. byte_pos = 0 /\ bits = 0 /\ buf = EmptyBuf /\ call = <<"seek", 0>> /\ got = <<>> /\ eof = FALSE
  BY DEF Init
<1>2. WordBits \in Nat \ {0} /\ TotalBits \in Nat /\ NumBytes \in Nat
  BY Sizes, BitReaderAssumption
<1>3. EmptyBuf \in [BitIndex -> SUBSET (0 .. TotalBits - 1)] /\ \A i \in BitIndex : EmptyBuf[i] = {}
  BY DEF EmptyBuf
<1>4. ReaderTypeOK
  <2>1. eof \in BOOLEAN
    BY <1>1, Zenon
  <2>2. byte_pos \in 0 .. NumBytes /\ bits \in 0 .. WordBits - 1
    BY <1>1, <1>2
  <2>3. call \in {"seek"} \X (0 .. TotalBits + 1)
    BY <1>1, <1>2
  <2>4. <<>> \in Seq(SUBSET (0 .. TotalBits - 1))
    OBVIOUS
  <2> QED BY <1>1, <1>3, <2>1, <2>2, <2>3, <2>4 DEF ReaderTypeOK
<1>5. BufferFaithful
  <2>1. \A i \in BitIndex : ~(i < 0)
    BY <1>2 DEF BitIndex
  <2> QED BY <1>1, <1>3, <2>1 DEF BufferFaithful
<1> QED BY <1>4, <1>5 DEF ReaderInv

-----------------------------------------------------------------------------
(* The theorems. *)

LEMMA ReaderInvariant == Spec => []ReaderInv
<1>1. ReaderInv /\ [Next]_vars => ReaderInv'
  BY ReaderStep
<1> QED BY <1>1, ReaderInit, PTL DEF Spec

\* The reader never runs past the input and always leaves room in its buffer
\* for the next unconditional load, whatever is asked of it.
THEOREM ReaderTypeCorrect == Spec => []ReaderTypeOK
<1>1. ReaderInv => ReaderTypeOK
  BY DEF ReaderInv
<1> QED BY <1>1, ReaderInvariant, PTL

\* However the two refills are mixed, the valid bits of the buffer are the
\* next bits of the input, and what a kernel's load left above them is what
\* the next refill puts there.
THEOREM ReaderFaithful == Spec => []BufferFaithful
<1>1. ReaderInv => BufferFaithful
  BY DEF ReaderInv
<1> QED BY <1>1, ReaderInvariant, PTL

\* The bit reader implements the cursor of BitStream: every operation returns
\* the next bits of the input or, exactly when too few are left, fails
\* without moving.
THEOREM ReaderIsBitStream == Spec => IsBitStream
<1>1. Init => Stream!Init
  <2> SUFFICES ASSUME Init PROVE Stream!Init
    OBVIOUS
  <2>1. tell_bit = 0
    BY BitReaderAssumption DEF Init, tell_bit
  <2> QED BY <2>1 DEF Init, Stream!Init
<1>2. ReaderInv /\ [Next]_vars => [Stream!Next]_(Stream!streamVars)
  BY ReaderStep DEF StreamStep
<1> QED BY <1>1, <1>2, ReaderInvariant, PTL DEF Spec, IsBitStream, Stream!Spec

-----------------------------------------------------------------------------
(* The in-flight cap. *)

\* Who is where, and what the mutex protects meanwhile.
CapInv ==
    /\ CapTypeOK
    /\ mutex = "dispatch" <=> dPc \in {"check", "park"}
    /\ mutex = "output" <=> oPc \in {"release", "shutdown"}
    /\ asleep => dPc = "wait"
    /\ dPc = "park" => inFlight >= Max /\ ~shutdown
    /\ oPc = "release" => inFlight > 0
    /\ shutdown <=> oPc \in {"notifyAll", "end"}
    /\ SleeperIsNotified

\* Every step of the two threads keeps CapInv.
LEMMA CapInvStep == CapInv /\ [CapNext]_capVars => CapInv'
<1> SUFFICES ASSUME CapInv, [CapNext]_capVars PROVE CapInv'
  OBVIOUS
<1> USE CapAssumption DEF CapInv, CapTypeOK, SleeperIsNotified
<1>1. CASE Call
  BY <1>1 DEF Call
<1>2. CASE Lock
  BY <1>2 DEF Lock
<1>3. CASE SeeShutdown
  BY <1>3 DEF SeeShutdown
<1>4. CASE TakeSlot
  BY <1>4 DEF TakeSlot
<1>5. CASE NoSlot
  BY <1>5 DEF NoSlot
<1>6. CASE Wait
  BY <1>6 DEF Wait
<1>7. CASE LeaveWait
  BY <1>7 DEF LeaveWait
<1>8. CASE BeginRelease
  BY <1>8 DEF BeginRelease
<1>9. CASE Decrement
  BY <1>9 DEF Decrement
<1>10. CASE NotifyOne
  BY <1>10 DEF NotifyOne
<1>11. CASE BeginShutdown
  BY <1>11 DEF BeginShutdown
<1>12. CASE SetShutdown
  BY <1>12 DEF SetShutdown
<1>13. CASE NotifyAll
  BY <1>13 DEF NotifyAll
<1>14. CASE UNCHANGED capVars
  BY <1>14 DEF capVars
<1> QED BY <1>1, <1>2, <1>3, <1>4, <1>5, <1>6, <1>7, <1>8, <1>9, <1>10, <1>11, <1>12, <1>13, <1>14
     DEF CapNext, Acquire, Output, Done

\* Hence CapInv is an invariant.
LEMMA CapInvariant == CapSpec => []CapInv
<1>1. CapInit => CapInv
  <2> SUFFICES ASSUME CapInit PROVE CapInv
    OBVIOUS
  <2>1. inFlight \in 0 .. Max
    BY CapAssumption DEF CapInit
  <2>2. ~shutdown /\ ~asleep /\ shutdown \in BOOLEAN /\ asleep \in BOOLEAN
    BY Zenon DEF CapInit
  <2> QED BY <2>1, <2>2 DEF CapInit, CapInv, CapTypeOK, SleeperIsNotified
<1> QED BY <1>1, CapInvStep, PTL DEF CapSpec

\* The counter stays in 0 .. Max and every other variable of InflightCap (who
\* holds the mutex, where each thread is, who sleeps) has a value the code can
\* give it, for every bound Max.
THEOREM CapTypeCorrect == CapSpec => []CapTypeOK
<1>1. CapInv => CapTypeOK
  BY DEF CapInv
<1> QED BY <1>1, CapInvariant, PTL

\* InflightCap loses no wake-up: whenever the dispatcher sleeps in acquire
\* although it could go on, release or shutdown is about to notify it.
THEOREM NoLostWakeup == CapSpec => []SleeperIsNotified
<1>1. CapInv => SleeperIsNotified
  BY DEF CapInv
<1> QED BY <1>1, CapInvariant, PTL

\* Every step of InflightCap, with its mutex, its condition variable and its
\* spurious wake-ups, is a step of the atomic counter or changes nothing of it.
THEOREM CapImplementsCounter ==
    CapSpec => Counter!Init /\ [][Counter!Next]_(Counter!slotVars)
<1>1. CapInit => Counter!Init
  BY DEF CapInit, Counter!Init
<1>2. CapInv /\ [CapNext]_capVars => [Counter!Next]_(Counter!slotVars)
  <2> SUFFICES ASSUME CapInv, [CapNext]_capVars PROVE [Counter!Next]_(Counter!slotVars)
    OBVIOUS
  <2> USE CapAssumption DEF CapInv, CapTypeOK, Counter!Next, Counter!slotVars
  <2>1. CASE Call
    BY <2>1 DEF Call, Counter!Ask
  <2>2. CASE Lock \/ NoSlot \/ Wait \/ LeaveWait
    BY <2>2 DEF Lock, NoSlot, Wait, LeaveWait
  <2>3. CASE SeeShutdown
    BY <2>3 DEF SeeShutdown, Counter!Refuse
  <2>4. CASE TakeSlot
    BY <2>4 DEF TakeSlot, Counter!Take
  <2>5. CASE BeginRelease \/ NotifyOne \/ BeginShutdown \/ NotifyAll
    BY <2>5 DEF BeginRelease, NotifyOne, BeginShutdown, NotifyAll
  <2>6. CASE Decrement
    BY <2>6 DEF Decrement, Counter!Release
  <2>7. CASE SetShutdown
    BY <2>7 DEF SetShutdown, Counter!Shutdown
  <2>8. CASE UNCHANGED capVars
    BY <2>8 DEF capVars
  <2> QED BY <2>1, <2>2, <2>3, <2>4, <2>5, <2>6, <2>7, <2>8 DEF CapNext, Acquire, Output, Done
<1> QED BY <1>1, <1>2, CapInvariant, PTL DEF CapSpec
=============================================================================
