-------------------------- MODULE BlockFinder_proofs ------------------------
(***************************************************************************)
(* The block finder: its scan (BlockFinder) and the parser of a header it  *)
(* verifies a candidate with (DynamicHeader).                              *)
(*                                                                         *)
(* What the scan misses, for data of any length and content: only starts   *)
(* one or two bits before the end of a skipped window.  The core is        *)
(* KeepsCandidate: the zeros that come into a shifted window never hide a  *)
(* candidate whose BTYPE is inside it, because HLIT and HDIST only get     *)
(* smaller.                                                                *)
(***************************************************************************)
EXTENDS DynamicHeader, FiniteSetTheorems, WellFoundedInduction, SequenceTheorems, TLAPS

\* The constants and the state of the scan.
CONSTANTS TotalBits, DataSet
VARIABLES data, starts, from, pos, probed, returned

Scan == INSTANCE BlockFinder

\* Cleared bits make a sum of bits no larger.
LEMMA SumMonotone ==
    ASSUME NEW p0 \in Int, NEW p1 \in Int, NEW p2 \in Int, NEW p3 \in Int, NEW p4 \in Int,
           NEW q0 \in Int, NEW q1 \in Int, NEW q2 \in Int, NEW q3 \in Int, NEW q4 \in Int,
           q0 <= p0, q1 <= p1, q2 <= p2, q3 <= p3, q4 <= p4
    PROVE  q0 + 2 * q1 + 4 * q2 + 8 * q3 + 16 * q4 <= p0 + 2 * p1 + 4 * p2 + 8 * p3 + 16 * p4
  OBVIOUS

\* A five-bit number does not grow when some of its bits are cleared.
LEMMA FieldMonotone ==
    ASSUME NEW a, NEW b, NEW lo \in {3, 8},
           \A i \in lo .. lo + 4 : a[i] \in Scan!Bit /\ b[i] \in {0, a[i]}
    PROVE  Scan!Field(b, lo) <= Scan!Field(a, lo)
  <1>1. /\ a[lo] \in Int /\ b[lo] \in Int /\ b[lo] <= a[lo]
        /\ a[lo + 1] \in Int /\ b[lo + 1] \in Int /\ b[lo + 1] <= a[lo + 1]
        /\ a[lo + 2] \in Int /\ b[lo + 2] \in Int /\ b[lo + 2] <= a[lo + 2]
        /\ a[lo + 3] \in Int /\ b[lo + 3] \in Int /\ b[lo + 3] <= a[lo + 3]
        /\ a[lo + 4] \in Int /\ b[lo + 4] \in Int /\ b[lo + 4] <= a[lo + 4]
    BY DEF Scan!Bit
  <1> QED BY ONLY <1>1, SumMonotone DEF Scan!Field

\* Seen from up to ten bits before it, a candidate is still recognised in the
\* shifted window.
LEMMA KeepsCandidate ==
    ASSUME NEW a \in [0 .. 12 -> Scan!Bit], NEW b, NEW n \in 0 .. 10,
           Scan!is_dynamic_candidate(a),
           \A i \in 0 .. 12 : b[i] = IF i + n < Scan!LUT_BITS THEN a[i] ELSE 0
    PROVE  Scan!is_dynamic_candidate(b)
  <1>1. b[0] = 0 /\ b[1] = 0 /\ b[2] = 1
    BY DEF Scan!is_dynamic_candidate, Scan!LUT_BITS
  <1>2. \A i \in 0 .. 12 : a[i] \in Scan!Bit /\ b[i] \in {0, a[i]}
    OBVIOUS
  <1>3. Scan!Field(b, 3) <= Scan!Field(a, 3) /\ Scan!Field(b, 8) <= Scan!Field(a, 8)
    <2>1. \A i \in 3 .. 3 + 4 : a[i] \in Scan!Bit /\ b[i] \in {0, a[i]}
      BY <1>2
    <2>2. \A i \in 8 .. 8 + 4 : a[i] \in Scan!Bit /\ b[i] \in {0, a[i]}
      BY <1>2
    <2> QED BY <2>1, <2>2, FieldMonotone
  <1>4. \A lo \in {3, 8} : Scan!Field(a, lo) \in Int /\ Scan!Field(b, lo) \in Int
    <2> SUFFICES ASSUME NEW lo \in {3, 8} PROVE Scan!Field(a, lo) \in Int /\ Scan!Field(b, lo) \in Int
      OBVIOUS
    <2>1. \A i \in {lo, lo + 1, lo + 2, lo + 3, lo + 4} : a[i] \in Int /\ b[i] \in Int
      BY <1>2 DEF Scan!Bit
    <2> QED BY <2>1 DEF Scan!Field
  <1> QED BY <1>1, <1>3, <1>4 DEF Scan!is_dynamic_candidate

\* NEXT_LUT holds the smallest match of the window, if there is one.
LEMMA NextLutFirst ==
    ASSUME NEW bits
    PROVE  /\ Scan!NextLut(bits) \in 0 .. Scan!LUT_BITS
           /\ \A n \in Scan!Matches(bits) : Scan!NextLut(bits) <= n
  <1>1. CASE Scan!Matches(bits) = {}
    BY <1>1 DEF Scan!NextLut, Scan!LUT_BITS
  <1>2. CASE Scan!Matches(bits) # {}
    <2>1. \E n \in Scan!Matches(bits) : \A k \in Scan!Matches(bits) : n <= k
      <3> DEFINE M(n) == Scan!is_dynamic_candidate(Scan!ShiftRight(bits, n))
      <3>1. \A n \in 0 .. 12 : M(n) <=> n \in Scan!Matches(bits)
        BY DEF Scan!Matches, Scan!LUT_BITS
      <3>2. Scan!Matches(bits) \subseteq 0 .. 12
        BY DEF Scan!Matches, Scan!LUT_BITS
      <3> HIDE DEF M
      <3>3. \E n \in 0 .. 12 : M(n)
        BY <1>2, <3>1, <3>2
      <3>4. \E n \in 0 .. 12 : M(n) /\ \A k \in 0 .. 12 : M(k) => n <= k
        <4>1. M(0) \/ M(1) \/ M(2) \/ M(3) \/ M(4) \/ M(5) \/ M(6) \/ M(7) \/ M(8) \/ M(9)
              \/ M(10) \/ M(11) \/ M(12)
          BY <3>3
        <4> QED BY <4>1
      <3> QED BY <3>1, <3>2, <3>4
    <2>2. /\ Scan!NextLut(bits) \in Scan!Matches(bits)
          /\ \A k \in Scan!Matches(bits) : Scan!NextLut(bits) <= k
      BY <1>2, <2>1 DEF Scan!NextLut
    <2> QED BY <2>2 DEF Scan!Matches, Scan!LUT_BITS
  <1> QED BY <1>1, <1>2

\* The scan never jumps past a candidate by more than the two positions at the
\* end of a window.
LEMMA JumpMisses ==
    ASSUME TotalBits \in Nat, data \in [Scan!Position -> Scan!Bit],
           NEW p \in Nat, NEW s \in Nat,
           p < s, s + Scan!LUT_BITS <= TotalBits, p + Scan!LUT_BITS <= TotalBits,
           Scan!is_dynamic_candidate(Scan!Window(s)),
           s < p + Scan!NextLut(Scan!Window(p))
    PROVE  s \in {p + 11, p + 12} /\ Scan!NextLut(Scan!Window(p)) = Scan!LUT_BITS
  <1> DEFINE n == s - p
             w == Scan!Window(p)
  <1>1. n \in 1 .. 12 /\ Scan!NextLut(w) \in 0 .. 13
    BY NextLutFirst DEF Scan!LUT_BITS
  <1>2. n \notin 0 .. 10
    <2> SUFFICES ASSUME n \in 0 .. 10 PROVE FALSE
      OBVIOUS
    <2>1. Scan!Window(s) \in [0 .. 12 -> Scan!Bit]
      BY DEF Scan!Window, Scan!Position, Scan!LUT_BITS
    <2>2. \A i \in 0 .. 12 :
             Scan!ShiftRight(w, n)[i] = IF i + n < Scan!LUT_BITS THEN Scan!Window(s)[i] ELSE 0
      BY <1>1 DEF Scan!ShiftRight, Scan!Window, Scan!LUT_BITS
    <2>3. Scan!is_dynamic_candidate(Scan!ShiftRight(w, n))
      BY <2>1, <2>2, KeepsCandidate
    <2>4. n \in Scan!Matches(w)
      BY <1>1, <2>3 DEF Scan!Matches, Scan!LUT_BITS
    <2>5. Scan!NextLut(w) <= n
      BY <2>4, NextLutFirst
    <2> QED BY <1>1, <2>5
  <1>3. n \in {11, 12} 
    BY <1>1, <1>2
  <1>4. Scan!NextLut(w) = 13
    <2>1. CASE Scan!Matches(w) = {}
      BY <2>1 DEF Scan!NextLut, Scan!LUT_BITS
    <2>2. CASE Scan!Matches(w) # {}
      <3>1. PICK m \in Scan!Matches(w) : TRUE
        BY <2>2
      <3>2. m \in 0 .. 12 /\ Scan!is_dynamic_candidate(Scan!ShiftRight(w, m))
        BY DEF Scan!Matches, Scan!LUT_BITS
      <3>3. Scan!ShiftRight(w, m)[2] = 1
        BY <3>2 DEF Scan!is_dynamic_candidate
      <3>4. m <= 10
        BY <3>2, <3>3 DEF Scan!ShiftRight, Scan!LUT_BITS
      <3>5. Scan!NextLut(w) <= 10
        BY <1>1, <3>2, <3>4, NextLutFirst
      <3> QED BY <1>1, <1>3, <3>5
    <2> QED BY <2>1, <2>2
  <1> QED BY <1>3, <1>4 DEF Scan!LUT_BITS

-----------------------------------------------------------------------------
\* The inductive invariant: the state is what the scan works on, and what it
\* passed over so far is accounted for.
ScanInv ==
    /\ data \in [Scan!Position -> Scan!Bit]
    /\ starts \subseteq {p \in Scan!Position : p + Scan!LUT_BITS <= TotalBits /\ Scan!is_dynamic_candidate(Scan!Window(p))}
    /\ from \in Scan!Position /\ pos \in Nat /\ probed \subseteq Nat
    /\ Scan!MissesOnlyBeforeJump

\* The scan starts with what ScanInv says.
LEMMA ScanInvInit ==
    ASSUME TotalBits \in Nat, DataSet \subseteq [Scan!Position -> Scan!Bit]
    PROVE  Scan!Init => ScanInv
  BY DEF Scan!Init, ScanInv, Scan!MissesOnlyBeforeJump, Scan!Position

\* A step of the scan keeps ScanInv.
LEMMA ScanInvNext ==
    ASSUME TotalBits \in Nat, ScanInv, [Scan!Next]_(Scan!vars)
    PROVE  ScanInv'
  <1>1. CASE Scan!Probe
    <2> DEFINE step == Scan!NextLut(Scan!Window(pos))
    <2>1. step \in 0 .. 13
      BY NextLutFirst DEF Scan!LUT_BITS
    <2>2. /\ data' = data /\ starts' = starts /\ from' = from
          /\ probed' = probed \cup {pos} /\ pos + Scan!LUT_BITS <= TotalBits
          /\ \/ step = 0 /\ pos \in starts /\ pos' = pos
             \/ step = 0 /\ pos \notin starts /\ pos' = pos + 1
             \/ step > 0 /\ pos' = pos + step
      BY <1>1 DEF Scan!Probe
    <2>3. pos \in Nat /\ pos' \in Nat /\ pos <= pos'
      BY <2>1, <2>2 DEF ScanInv
    <2>4. \A p : Scan!Window(p)' = Scan!Window(p)
      BY <2>2 DEF Scan!Window
    <2>5. starts' \subseteq {p \in Scan!Position : p + Scan!LUT_BITS <= TotalBits /\ Scan!is_dynamic_candidate(Scan!Window(p)')}
      BY <2>2, <2>4 DEF ScanInv
    <2>6. Scan!MissesOnlyBeforeJump'
      <3> SUFFICES ASSUME NEW s \in starts, from <= s, s < pos'
                   PROVE  \E p \in probed' : s \in {p + 11, p + 12} /\ p + Scan!LUT_BITS <= pos'
        BY <2>2 DEF Scan!MissesOnlyBeforeJump
      <3>1. /\ s \in Scan!Position /\ s \in Nat /\ s + Scan!LUT_BITS <= TotalBits
            /\ Scan!is_dynamic_candidate(Scan!Window(s))
        BY DEF ScanInv, Scan!Position
      <3>2. CASE s < pos
        <4>1. PICK p \in probed : s \in {p + 11, p + 12} /\ p + Scan!LUT_BITS <= pos
          BY <3>2 DEF ScanInv, Scan!MissesOnlyBeforeJump
        <4>2. p \in probed'
          BY <2>2
        <4>3. p + Scan!LUT_BITS <= pos'
          BY <2>3, <4>1 DEF Scan!LUT_BITS, ScanInv
        <4> QED BY <4>1, <4>2, <4>3
      <3>3. CASE s = pos
        <4>1. Scan!ShiftRight(Scan!Window(pos), 0) = Scan!Window(pos)
          BY DEF Scan!ShiftRight, Scan!Window, Scan!LUT_BITS
        <4>2. 0 \in Scan!Matches(Scan!Window(pos))
          BY <3>1, <3>3, <4>1 DEF Scan!Matches, Scan!LUT_BITS
        <4>3. step = 0
          BY <2>1, <4>2, NextLutFirst
        <4> QED BY <2>2, <2>3, <3>3, <4>3
      <3>4. CASE pos < s
        <4>1. pos' = pos + step
          BY <2>1, <2>2, <2>3, <3>1, <3>4
        <4>2. s \in {pos + 11, pos + 12} /\ step = Scan!LUT_BITS
          BY <2>2, <2>3, <3>1, <3>4, <4>1, JumpMisses DEF ScanInv
        <4>3. pos \in probed' /\ pos + Scan!LUT_BITS <= pos'
          BY <2>2, <2>3, <4>1, <4>2 DEF Scan!LUT_BITS
        <4> QED BY <4>2, <4>3
      <3> QED BY <2>3, <3>1, <3>2, <3>3, <3>4
    <2> QED BY <2>2, <2>3, <2>5, <2>6 DEF ScanInv
  <1>2. CASE UNCHANGED <<data, starts, from, pos, probed>>
    BY <1>2 DEF ScanInv, Scan!MissesOnlyBeforeJump, Scan!Window
  <1> QED BY <1>1, <1>2 DEF Scan!Next, Scan!ReturnNone, Scan!vars

\* MissesOnlyBeforeJump holds for all data: the scan of the block finder never
\* passes over a block that starts in the first eleven positions of a window.
THEOREM FinderMissesOnlyBeforeJump ==
    ASSUME TotalBits \in Nat, DataSet \subseteq [Scan!Position -> Scan!Bit]
    PROVE  Scan!Spec => []Scan!MissesOnlyBeforeJump
  <1>1. Scan!Init => ScanInv
    BY ScanInvInit
  <1>2. ScanInv /\ [Scan!Next]_(Scan!vars) => ScanInv'
    BY ScanInvNext
  <1>3. ScanInv => Scan!MissesOnlyBeforeJump
    BY DEF ScanInv
  <1> QED BY <1>1, <1>2, <1>3, PTL DEF Scan!Spec

-----------------------------------------------------------------------------
(* The strict parser and inflate's: where the first gets through, so does   *)
(* the second, with the same code lengths.                                  *)

\* A construction does not depend on what was in the decoder before, and the
\* strict one refuses whatever the other refuses.
LEMMA StrictBuildIsBuild ==
    ASSUME NEW d, NEW e, NEW lengths, BuildInto(d, lengths, TRUE).ok
    PROVE  BuildInto(e, lengths, FALSE) = BuildInto(d, lengths, TRUE)
  <1>1. ~Refused(lengths, TRUE)
    BY DEF BuildInto
  <1>2. ~Refused(lengths, FALSE)
    BY <1>1 DEF Refused
  <1> QED BY <1>1, <1>2 DEF BuildInto, Cleared

\* The finder, as far as it got, is where inflate is, with the same table of
\* the code-length code and the same code lengths.
Together ==
    /\ inflate.cl = finder.cl
    /\ inflate.i = finder.i
    /\ inflate.lengths = finder.lengths

\* What a parser's record consists of.
IsParser(p) == p = [status |-> p.status, i |-> p.i, lengths |-> p.lengths,
                    cl |-> p.cl, lit |-> p.lit, dist |-> p.dist]

\* The inductive invariant: while the finder goes on, so does inflate, with the
\* same table and the same code lengths; only the trial, which inflate does not
\* make, can end differently.
HeaderInv ==
    /\ IsParser(inflate) /\ IsParser(finder)
    /\ phase = "start" =>
          /\ inflate.status = "parsing" /\ finder.status = "parsing"
          /\ inflate.i = 0 /\ finder.i = 0 /\ inflate.lengths = Zeros(total)
    /\ phase = "codes" =>
          /\ inflate.status \in {"parsing", "invalid", "eof"}
          /\ finder.status \in {"parsing", "invalid", "eof"}
          /\ finder.status = "parsing" => inflate.status = "parsing" /\ Together
    /\ phase = "trial" =>
          finder.status = "done" /\ inflate.status = "done" /\ Together
    /\ phase = "end" =>
          (finder.status \in {"parsing", "done", "verified"} =>
              inflate.status \in {"parsing", "done"} /\ Together)
    /\ phase \in {"start", "codes", "trial", "end"}

\* The parsers start together, the finder on stale tables.
LEMMA HeaderInvInit == Init => HeaderInv
  <1> SUFFICES ASSUME Init PROVE HeaderInv
    OBVIOUS
  <1>1. \A a, b, c, d : /\ Parser(a, b, c, d).status = "parsing" /\ Parser(a, b, c, d).i = 0
                        /\ Parser(a, b, c, d).lengths = a /\ IsParser(Parser(a, b, c, d))
    BY DEF Parser, IsParser
  <1>2. \E a, b : finder = Parser(a, b, b, b)
    BY Zenon DEF Init
  <1> QED BY <1>1, <1>2 DEF Init, HeaderInv

\* Stopping a parser changes nothing but its status.
LEMMA StoppedParser ==
    ASSUME NEW p, NEW s, IsParser(p)
    PROVE  /\ IsParser(Stopped(p, s)) /\ Stopped(p, s).status = s
           /\ Stopped(p, s).i = p.i /\ Stopped(p, s).lengths = p.lengths
           /\ Stopped(p, s).cl = p.cl
  BY DEF Stopped, IsParser

\* A new table of the code-length code changes that table and the status.
LEMMA WithClParser ==
    ASSUME NEW p, NEW r, IsParser(p)
    PROVE  /\ IsParser(WithCl(p, r)) /\ WithCl(p, r).i = p.i
           /\ WithCl(p, r).lengths = p.lengths /\ WithCl(p, r).cl = r.table
           /\ WithCl(p, r).status = IF r.ok THEN "parsing" ELSE "invalid"
  <1> DEFINE st == IF r.ok THEN "parsing" ELSE "invalid"
  <1>1. WithCl(p, r) = [status |-> st, i |-> p.i, lengths |-> p.lengths,
                        cl |-> r.table, lit |-> p.lit, dist |-> p.dist]
    <2>1. WithCl(p, r) = [p EXCEPT !.cl = r.table, !.status = st]
      BY Zenon DEF WithCl
    <2> HIDE DEF st
    <2> QED BY <2>1 DEF IsParser
  <1> HIDE DEF st
  <1>2. /\ IsParser(WithCl(p, r)) /\ WithCl(p, r).i = p.i
        /\ WithCl(p, r).lengths = p.lengths /\ WithCl(p, r).cl = r.table
        /\ WithCl(p, r).status = st
    BY <1>1 DEF IsParser
  <1> QED BY <1>2, Zenon DEF st

\* Reading the code-length code keeps the parsers together.
LEMMA ReadPreCodeHeaderInv ==
    ASSUME HeaderInv, ReadPreCode
    PROVE  HeaderInv'
  <1> DEFINE f == [finder EXCEPT !.lengths = FinderLengths(finder.lengths)]
             b == BuildInto(inflate.cl, shape.pre, FALSE)
             s == BuildInto(finder.cl, shape.pre, TRUE)
  <1>0. total' = total
    BY DEF ReadPreCode, total
  <1>1. IsParser(inflate) /\ IsParser(finder) /\ inflate.lengths = Zeros(total)
        /\ inflate.i = 0 /\ finder.i = 0
    BY DEF HeaderInv, ReadPreCode
  <1>2. CASE shape.hlit > MaxLit \/ shape.hdist > MaxDist
    <2>1. /\ phase' = "end" /\ inflate' = Stopped(inflate, "invalid")
          /\ finder' = Stopped(finder, "invalid")
      BY <1>2 DEF ReadPreCode
    <2> QED BY <1>1, <2>1, StoppedParser DEF HeaderInv
  <1>3. CASE ~(shape.hlit > MaxLit \/ shape.hdist > MaxDist)
    <2>1. /\ phase' = "codes" /\ inflate' = WithCl(inflate, b) /\ finder' = WithCl(f, s)
      BY <1>3 DEF ReadPreCode
    <2>2. s.ok => b = s
      BY StrictBuildIsBuild
    <2> HIDE DEF b, s
    <2>3. IsParser(f) /\ f.lengths = Zeros(total) /\ f.i = 0
      BY <1>1 DEF IsParser, FinderLengths
    <2> HIDE DEF f
    <2>4. \A p, r : IsParser(p) =>
             /\ IsParser(WithCl(p, r)) /\ WithCl(p, r).i = p.i
             /\ WithCl(p, r).lengths = p.lengths /\ WithCl(p, r).cl = r.table
             /\ WithCl(p, r).status = IF r.ok THEN "parsing" ELSE "invalid"
      BY WithClParser
    <2>5. /\ IsParser(inflate') /\ inflate'.i = 0 /\ inflate'.lengths = Zeros(total)
          /\ inflate'.cl = b.table /\ inflate'.status = IF b.ok THEN "parsing" ELSE "invalid"
      BY <1>1, <2>1, <2>4
    <2>6. /\ IsParser(finder') /\ finder'.i = 0 /\ finder'.lengths = Zeros(total)
          /\ finder'.cl = s.table /\ finder'.status = IF s.ok THEN "parsing" ELSE "invalid"
      BY <2>1, <2>3, <2>4
    <2> QED BY <2>1, <2>2, <2>5, <2>6 DEF HeaderInv, Together
  <1> QED BY <1>2, <1>3

\* Two parsers that are at the same place with the same code lengths.
SameParse(a, b) ==
    /\ IsParser(a) /\ IsParser(b)
    /\ a.status = b.status /\ a.cl = b.cl /\ a.i = b.i /\ a.lengths = b.lengths
    /\ a.status \in {"parsing", "invalid", "eof"}

\* A symbol of the code-length code does the same to two parsers that are at
\* the same place with the same code lengths.
LEMMA SameSymbol ==
    ASSUME NEW p, NEW q, NEW d, NEW extra, IsParser(p), IsParser(q),
           p.status = "parsing", q.status = "parsing",
           p.cl = q.cl, p.i = q.i, p.lengths = q.lengths
    PROVE  SameParse(AfterSymbol(p, d, extra, FALSE), AfterSymbol(q, d, extra, FALSE))
  <1>1. \A s : LET a == Stopped(p, s) b == Stopped(q, s)
               IN  /\ IsParser(a) /\ IsParser(b) /\ a.status = s /\ b.status = s
                   /\ a.cl = b.cl /\ a.i = b.i /\ a.lengths = b.lengths
    BY StoppedParser
  <1>2. ASSUME NEW n, NEW v, NEW w
        PROVE  LET a == Written(p, n, v, w) b == Written(q, n, v, w)
               IN  /\ IsParser(a) /\ IsParser(b)
                   /\ a.status = "parsing" /\ b.status = "parsing"
                   /\ a.cl = b.cl /\ a.i = b.i /\ a.lengths = b.lengths
    <2>1. PICK k, l : /\ k = p.i + n
                      /\ l = [j \in DOMAIN p.lengths |->
                               IF w /\ j \in p.i .. p.i + n - 1 THEN v ELSE p.lengths[j]]
      OBVIOUS
    <2>2. Written(p, n, v, w) = [p EXCEPT !.i = k, !.lengths = l]
      BY <2>1, Zenon DEF Written
    <2>3. Written(q, n, v, w) = [q EXCEPT !.i = k, !.lengths = l]
      BY <2>1, Zenon DEF Written
    <2>4. Written(p, n, v, w) = [status |-> "parsing", i |-> k, lengths |-> l,
                                 cl |-> p.cl, lit |-> p.lit, dist |-> p.dist]
      BY <2>2 DEF IsParser
    <2>5. Written(q, n, v, w) = [status |-> "parsing", i |-> k, lengths |-> l,
                                 cl |-> q.cl, lit |-> q.lit, dist |-> q.dist]
      BY <2>3 DEF IsParser
    <2> QED BY <2>4, <2>5 DEF IsParser
  <1> DEFINE n == RunBase[d.sym] + extra
  <1>3. /\ SameParse(Stopped(p, "eof"), Stopped(q, "eof"))
        /\ SameParse(Stopped(p, "invalid"), Stopped(q, "invalid"))
        /\ \A k, v, w : SameParse(Written(p, k, v, w), Written(q, k, v, w))
    BY <1>1, <1>2 DEF SameParse
  <1>4. CASE d = Eof
    BY <1>3, <1>4, Zenon DEF AfterSymbol
  <1>5. CASE d # Eof /\ d = Invalid
    BY <1>3, <1>5, Zenon DEF AfterSymbol
  <1>6. CASE d # Eof /\ d # Invalid
    <2> USE <1>6
    <2>1. CASE d.sym <= MAX_CODE_LEN
      BY <1>3, <2>1, Zenon DEF AfterSymbol
    <2>2. CASE ~(d.sym <= MAX_CODE_LEN) /\ d.sym = CopyPrevious /\ p.i = 0
      BY <1>3, <2>2, Zenon DEF AfterSymbol
    <2>3. CASE ~(d.sym <= MAX_CODE_LEN) /\ ~(d.sym = CopyPrevious /\ p.i = 0)
      <3>1. CASE extra < 0
        BY <1>3, <2>3, <3>1, Zenon DEF AfterSymbol
      <3>2. CASE ~(extra < 0) /\ Overruns(p.i, n)
        BY <1>3, <2>3, <3>2, Zenon DEF AfterSymbol
      <3>3. CASE ~(extra < 0) /\ ~Overruns(p.i, n) /\ d.sym = CopyPrevious
        BY <1>3, <2>3, <3>3, Zenon DEF AfterSymbol
      <3>4. CASE ~(extra < 0) /\ ~Overruns(p.i, n) /\ d.sym # CopyPrevious
        BY <1>3, <2>3, <3>4, Zenon DEF AfterSymbol
      <3> QED BY <3>1, <3>2, <3>3, <3>4
    <2> QED BY <2>1, <2>2, <2>3
  <1> QED BY <1>4, <1>5, <1>6

\* A symbol of the code-length code leaves a parser parsing, or stops it.
LEMMA AfterSymbolParser ==
    ASSUME NEW p, NEW d, NEW extra, IsParser(p), p.status = "parsing"
    PROVE  /\ IsParser(AfterSymbol(p, d, extra, FALSE))
           /\ AfterSymbol(p, d, extra, FALSE).status \in {"parsing", "invalid", "eof"}
  BY SameSymbol DEF SameParse

\* It does not change the table it was looked up in.
LEMMA AfterSymbolCl ==
    ASSUME NEW p, NEW d, NEW extra, IsParser(p), p.status = "parsing"
    PROVE  AfterSymbol(p, d, extra, FALSE).cl = p.cl
  <1>1. Stopped(p, "eof").cl = p.cl /\ Stopped(p, "invalid").cl = p.cl
    BY StoppedParser
  <1>2. ASSUME NEW n, NEW v, NEW w PROVE Written(p, n, v, w).cl = p.cl
    <2>1. PICK k, l : /\ k = p.i + n
                      /\ l = [j \in DOMAIN p.lengths |->
                               IF w /\ j \in p.i .. p.i + n - 1 THEN v ELSE p.lengths[j]]
      OBVIOUS
    <2>2. Written(p, n, v, w) = [p EXCEPT !.i = k, !.lengths = l]
      BY <2>1, Zenon DEF Written
    <2> QED BY <2>2 DEF IsParser
  <1> QED BY <1>1, <1>2, Zenon DEF AfterSymbol

\* A code length, a run, or the end of the input keeps them together.
LEMMA ReadCodeLengthHeaderInv ==
    ASSUME HeaderInv, NEW bits, NEW have, NEW extra, ReadCodeLength(bits, have, extra)
    PROVE  HeaderInv'
  <1>1. /\ phase = "codes" /\ phase' = "codes"
        /\ IsParser(inflate) /\ IsParser(finder)
        /\ inflate.status \in {"parsing", "invalid", "eof"}
        /\ finder.status \in {"parsing", "invalid", "eof"}
        /\ finder.status = "parsing" => inflate.status = "parsing" /\ Together
    BY DEF HeaderInv, ReadCodeLength
  <1>2. /\ inflate' = IF ~Reads(inflate) THEN inflate
                      ELSE AfterSymbol(inflate, Lookup(inflate.cl, bits), extra, FALSE)
        /\ finder' = IF ~Reads(finder) THEN finder
                     ELSE AfterSymbol(finder, Lookup(finder.cl, bits), extra, FALSE)
    BY Zenon DEF ReadCodeLength
  <1>3. /\ IsParser(inflate') /\ inflate'.status \in {"parsing", "invalid", "eof"}
    BY <1>1, <1>2, AfterSymbolParser DEF Reads, Parsing
  <1>4. /\ IsParser(finder') /\ finder'.status \in {"parsing", "invalid", "eof"}
    BY <1>1, <1>2, AfterSymbolParser DEF Reads, Parsing
  <1>5. ASSUME finder'.status = "parsing" PROVE inflate'.status = "parsing" /\ Together'
    <2>1. finder.status = "parsing"
      BY <1>2, <1>5 DEF Reads, Parsing
    <2>2. inflate.status = "parsing" /\ Together
      BY <1>1, <2>1
    <2>3. Reads(finder) <=> Reads(inflate)
      BY <2>1, <2>2 DEF Reads, Parsing, Together
    <2>4. CASE ~Reads(finder)
      BY <1>2, <2>2, <2>3, <2>4 DEF Together
    <2>5. CASE Reads(finder)
      <3>1. PICK d : d = Lookup(finder.cl, bits)
        OBVIOUS
      <3>2. /\ finder' = AfterSymbol(finder, d, extra, FALSE)
            /\ inflate' = AfterSymbol(inflate, d, extra, FALSE)
        BY <1>2, <2>2, <2>3, <2>5, <3>1 DEF Together
      <3>3. /\ inflate.cl = finder.cl /\ inflate.i = finder.i /\ inflate.lengths = finder.lengths
        BY <2>2 DEF Together
      <3>4. /\ inflate'.status = finder'.status /\ inflate'.cl = finder'.cl
            /\ inflate'.i = finder'.i /\ inflate'.lengths = finder'.lengths
        <4> DEFINE a == AfterSymbol(inflate, d, extra, FALSE)
                   b == AfterSymbol(finder, d, extra, FALSE)
        <4>0. IsParser(inflate) /\ IsParser(finder)
              /\ inflate.status = "parsing" /\ finder.status = "parsing"
          BY <1>1, <2>1, <2>2
        <4>1. SameParse(a, b)
          BY ONLY <4>0, <3>3, SameSymbol
        <4> HIDE DEF a, b
        <4>2. finder' = b /\ inflate' = a
          BY <3>2 DEF a, b
        <4> QED BY <4>1, <4>2 DEF SameParse
      <3> QED BY <1>5, <3>4 DEF Together
    <2> QED BY <2>4, <2>5
  <1> QED BY <1>1, <1>3, <1>4, <1>5 DEF HeaderInv

\* Record t is the parser p with the given status and perhaps other tables for
\* the block.
Keeps(p, t, status) ==
    /\ IsParser(t) /\ t.cl = p.cl /\ t.i = p.i /\ t.lengths = p.lengths
    /\ t.status = status

Tabled(p, lit, dist) == [p EXCEPT !.lit = lit, !.dist = dist]
LitTabled(p, lit) == [p EXCEPT !.lit = lit]

\* The constructions of the block's tables, ok or not, change the tables and
\* the status of a parser.
LEMMA WithTablesParser ==
    ASSUME NEW p, NEW lit, NEW dist, IsParser(p)
    PROVE  Keeps(p, WithTables(p, lit, dist),
                 IF p.status # "parsing" THEN p.status
                 ELSE IF p.lengths[EndOfBlock] # 0 /\ lit.ok /\ dist.ok THEN "done"
                 ELSE "invalid")
  <1>1. ASSUME NEW q, NEW s, Keeps(p, q, p.status) PROVE Keeps(p, Stopped(q, s), s)
    BY <1>1, StoppedParser DEF Keeps
  <1>2. ASSUME NEW a, NEW b PROVE Keeps(p, Tabled(p, a, b), p.status)
    <2>1. PICK q : q = [p EXCEPT !.lit = a, !.dist = b]
      OBVIOUS
    <2>2. q = [status |-> p.status, i |-> p.i, lengths |-> p.lengths,
               cl |-> p.cl, lit |-> a, dist |-> b]
      BY <2>1 DEF IsParser
    <2>3. Keeps(p, q, p.status)
      BY <2>2 DEF IsParser, Keeps
    <2> QED BY <2>1, <2>3, Zenon DEF Tabled
  <1>3. ASSUME NEW a PROVE Keeps(p, LitTabled(p, a), p.status)
    <2>1. LitTabled(p, a) = [status |-> p.status, i |-> p.i, lengths |-> p.lengths,
                             cl |-> p.cl, lit |-> a, dist |-> p.dist]
      BY DEF IsParser, LitTabled
    <2> QED BY <2>1 DEF IsParser, Keeps
  <1>4. Keeps(p, p, p.status)
    BY DEF Keeps
  <1>5. WithTables(p, lit, dist) =
            IF p.status # "parsing" THEN p
            ELSE IF p.lengths[EndOfBlock] = 0 THEN Stopped(p, "invalid")
            ELSE IF ~lit.ok THEN Stopped(LitTabled(p, lit.table), "invalid")
            ELSE IF ~dist.ok THEN Stopped(Tabled(p, lit.table, dist.table), "invalid")
            ELSE Stopped(Tabled(p, lit.table, dist.table), "done")
    BY Zenon DEF WithTables, Parsing, Tabled, LitTabled
  <1>6. /\ Keeps(p, Stopped(p, "invalid"), "invalid")
        /\ Keeps(p, Stopped(LitTabled(p, lit.table), "invalid"), "invalid")
        /\ Keeps(p, Stopped(Tabled(p, lit.table, dist.table), "invalid"), "invalid")
        /\ Keeps(p, Stopped(Tabled(p, lit.table, dist.table), "done"), "done")
    BY <1>1, <1>2, <1>3, <1>4, Zenon
  <1> QED BY <1>4, <1>5, <1>6, Zenon

\* So does the construction of the two tables,
LEMMA BuildTablesHeaderInv ==
    ASSUME HeaderInv, BuildTables
    PROVE  HeaderInv'
  <1> DEFINE il == BuildInto(inflate.lit, LitLengths(inflate), FALSE)
             id == BuildInto(inflate.dist, DistLengths(inflate), FALSE)
             fl == BuildInto(finder.lit, LitLengths(finder), TRUE)
             fd == BuildInto(finder.dist, DistLengths(finder), TRUE)
  <1>1. /\ IsParser(inflate) /\ IsParser(finder)
        /\ inflate.status \in {"parsing", "invalid", "eof"}
        /\ finder.status \in {"parsing", "invalid", "eof"}
        /\ finder.status = "parsing" => inflate.status = "parsing" /\ Together
    BY DEF HeaderInv, BuildTables
  <1>2. /\ inflate' = WithTables(inflate, il, id)
        /\ finder' = WithTables(finder, fl, fd)
        /\ phase' = IF finder'.status = "done" THEN "trial" ELSE "end"
    BY Zenon DEF BuildTables
  <1>3. Together => (fl.ok => il = fl) /\ (fd.ok => id = fd)
    <2> SUFFICES ASSUME Together PROVE (fl.ok => il = fl) /\ (fd.ok => id = fd)
      OBVIOUS
    <2>1. LitLengths(inflate) = LitLengths(finder) /\ DistLengths(inflate) = DistLengths(finder)
      BY DEF Together, LitLengths, DistLengths
    <2>2. \A d, e, l : BuildInto(d, l, TRUE).ok => BuildInto(e, l, FALSE) = BuildInto(d, l, TRUE)
      BY StrictBuildIsBuild
    <2> QED BY <2>1, <2>2, Zenon
  <1> HIDE DEF il, id, fl, fd
  <1>4. /\ IsParser(inflate') /\ inflate'.cl = inflate.cl /\ inflate'.i = inflate.i
        /\ inflate'.lengths = inflate.lengths
        /\ inflate.status = "parsing" =>
              inflate'.status = IF inflate.lengths[EndOfBlock] # 0 /\ il.ok /\ id.ok
                                THEN "done" ELSE "invalid"
    <2>1. PICK s : /\ s = IF inflate.status # "parsing" THEN inflate.status
                          ELSE IF inflate.lengths[EndOfBlock] # 0 /\ il.ok /\ id.ok THEN "done"
                          ELSE "invalid"
                   /\ Keeps(inflate, WithTables(inflate, il, id), s)
      BY <1>1, WithTablesParser, Zenon
    <2> QED BY <1>2, <2>1 DEF Keeps
  <1>5. /\ IsParser(finder') /\ finder'.cl = finder.cl /\ finder'.i = finder.i
        /\ finder'.lengths = finder.lengths
        /\ finder.status # "parsing" => finder'.status = finder.status
        /\ finder.status = "parsing" =>
              finder'.status = IF finder.lengths[EndOfBlock] # 0 /\ fl.ok /\ fd.ok
                               THEN "done" ELSE "invalid"
    <2>1. PICK s : /\ s = IF finder.status # "parsing" THEN finder.status
                          ELSE IF finder.lengths[EndOfBlock] # 0 /\ fl.ok /\ fd.ok THEN "done"
                          ELSE "invalid"
                   /\ Keeps(finder, WithTables(finder, fl, fd), s)
      BY <1>1, WithTablesParser, Zenon
    <2> QED BY <1>2, <2>1 DEF Keeps
  <1>6. CASE finder'.status = "done"
    <2>1. finder.status = "parsing"
      BY <1>1, <1>5, <1>6
    <2>2. finder.lengths[EndOfBlock] # 0 /\ fl.ok /\ fd.ok
      BY <1>5, <1>6, <2>1
    <2>3. Together /\ inflate.status = "parsing"
      BY <1>1, <2>1
    <2>4. inflate.lengths[EndOfBlock] # 0 /\ il.ok /\ id.ok
      BY <1>3, <2>2, <2>3 DEF Together
    <2>5. inflate'.status = "done"
      BY <1>4, <2>3, <2>4
    <2>6. Together'
      BY <1>4, <1>5, <2>3 DEF Together
    <2> QED BY <1>2, <1>4, <1>5, <1>6, <2>5, <2>6 DEF HeaderInv
  <1>7. CASE finder'.status # "done"
    <2>1. finder'.status \in {"invalid", "eof"}
      BY <1>1, <1>5, <1>7
    <2>2. phase' = "end"
      BY <1>2, <1>7
    <2> QED BY <1>4, <1>5, <2>1, <2>2 DEF HeaderInv
  <1> QED BY <1>6, <1>7

\* and the trial decode, which only the finder does.
LEMMA TrialDecodeHeaderInv ==
    ASSUME HeaderInv, NEW bits, NEW distBits, NEW extraThere,
           TrialDecode(bits, distBits, extraThere)
    PROVE  HeaderInv'
  <1>1. /\ phase = "trial" /\ UNCHANGED inflate
        /\ \/ \E s \in {"eof", "invalid", "verified"} : Verdict(s)
           \/ UNCHANGED <<finder, phase>>
    BY Zenon DEF TrialDecode, Counted
  <1>2. CASE UNCHANGED <<finder, phase>>
    BY <1>1, <1>2 DEF HeaderInv, Together
  <1>3. CASE \E s \in {"eof", "invalid", "verified"} : Verdict(s)
    <2>1. PICK s \in {"eof", "invalid", "verified"} :
             finder' = Stopped(finder, s) /\ phase' = "end"
      BY <1>3 DEF Verdict
    <2>2. IsParser(finder) /\ IsParser(inflate) /\ inflate.status = "done" /\ Together
      BY <1>1 DEF HeaderInv
    <2>3. IsParser(finder') /\ finder'.cl = finder.cl /\ finder'.i = finder.i
          /\ finder'.lengths = finder.lengths /\ finder'.status = s
      BY <2>1, <2>2, StoppedParser
    <2> QED BY <1>1, <2>1, <2>2, <2>3 DEF HeaderInv, Together
  <1> QED BY <1>1, <1>2, <1>3

\* Hence every step keeps HeaderInv.
LEMMA HeaderInvNext == HeaderInv /\ [Next]_vars => HeaderInv'
  <1> SUFFICES ASSUME HeaderInv, [Next]_vars PROVE HeaderInv'
    OBVIOUS
  <1>1. CASE UNCHANGED vars
    BY <1>1 DEF vars, HeaderInv, Together, total
  <1> QED BY <1>1, ReadPreCodeHeaderInv, ReadCodeLengthHeaderInv, BuildTablesHeaderInv,
             TrialDecodeHeaderInv, Zenon DEF Next

\* VerifiedIsParsed for all alphabets, code lengths and inputs: the finder never
\* reports a block whose header inflate does not parse, to the same code
\* lengths, whatever an earlier candidate left in the finder's tables.
THEOREM VerifiedHeadersParse == Spec => []VerifiedIsParsed
  <1>1. HeaderInv => VerifiedIsParsed
    <2> SUFFICES ASSUME HeaderInv, finder.status \in {"parsing", "done", "verified"}
                 PROVE  /\ inflate.status \in {"parsing", "done"} /\ inflate.i = finder.i
                        /\ \A j \in 0 .. finder.i - 1 : inflate.lengths[j] = finder.lengths[j]
      BY DEF VerifiedIsParsed
    <2>1. CASE phase = "start"
      BY <2>1 DEF HeaderInv
    <2>2. CASE phase # "start"
      BY <2>2 DEF HeaderInv, Together
    <2> QED BY <2>1, <2>2
  <1> QED BY <1>1, HeaderInvInit, HeaderInvNext, PTL DEF Spec

-----------------------------------------------------------------------------
(* The decode tables: what is looked up is a symbol that has a code.        *)

\* A nonempty set of natural numbers has a least element, and Min is it.
LEMMA MinProperty ==
    ASSUME NEW T, T \subseteq Nat, T # {}
    PROVE  Min(T) \in T /\ \A y \in T : Min(T) <= y
<1> DEFINE R == {ss \in Nat \X Nat : ss[1] < ss[2]}
<1>1. IsWellFoundedOn(R, Nat)
  BY NatLessThanWellFounded DEF OpToRel
<1> HIDE DEF R
<1>2. PICK x \in T : \A y \in T : ~(<<y, x>> \in R)
  BY <1>1, WFMin
<1>3. \A y \in T : x <= y
  <2>1. SUFFICES ASSUME NEW y \in T, y < x PROVE FALSE
    OBVIOUS
  <2>2. <<y, x>> \in R
    BY <2>1 DEF R
  <2> QED BY <1>2, <2>2
<1> QED BY <1>3 DEF Min

\* A nonempty set of natural numbers with a bound has a greatest element, and
\* Max is it.
LEMMA MaxProperty ==
    ASSUME NEW n \in Nat, NEW T, T \subseteq 0 .. n, T # {}
    PROVE  Max(T) \in T /\ \A y \in T : Max(T) >= y
<1> DEFINE D == {n - x : x \in T}
<1>1. D \subseteq Nat /\ D # {}
  <2>1. PICK t \in T : TRUE
    OBVIOUS
  <2>2. n - t \in D
    OBVIOUS
  <2>3. D \subseteq Nat
    OBVIOUS
  <2> QED BY <2>2, <2>3
<1>2. PICK d \in D : \A y \in D : d <= y
  BY <1>1, MinProperty
<1>3. PICK x \in T : d = n - x
  BY <1>2
<1>4. \A y \in T : x >= y
  <2> TAKE y \in T
  <2>1. n - x <= n - y
    BY <1>2, <1>3
  <2> QED BY <2>1
<1> QED BY <1>4 DEF Max

\* The code lengths a decode table can be built from.
IsLengths(lengths) ==
    IsFiniteSet(DOMAIN lengths) /\ DOMAIN lengths \subseteq Int
    /\ \A s \in DOMAIN lengths : lengths[s] \in Nat

\* The counting sort reaches every place: some symbol has exactly i - 1 symbols
\* before it.
LEMMA SortedSymExists ==
    ASSUME NEW lengths, IsLengths(lengths), NEW i \in 1 .. Cardinality(Used(lengths))
    PROVE  SortedSym(lengths, i) \in Used(lengths)
  <1> DEFINE U == Used(lengths)
             B(s) == Before(lengths, s)
             n == Cardinality(U)
             r == [s \in U |-> Cardinality(B(s))]
  <1>1. U \subseteq DOMAIN lengths /\ U \subseteq Int /\ \A s \in U : lengths[s] \in Nat
    BY DEF Used, IsLengths
  <1>2. IsFiniteSet(U) /\ n \in Nat
    <2>1. IsFiniteSet(U)
      BY <1>1, FS_Subset DEF IsLengths
    <2> QED BY <2>1, FS_CardinalityType
  <1>3. \A s, t \in U : t \in B(s) <=> lengths[t] < lengths[s] \/ (lengths[t] = lengths[s] /\ t < s)
    BY DEF Before
  <1>4. \A s \in U : B(s) \in SUBSET U
    BY DEF Before
  <1> HIDE DEF U, B
  <1>5. \A s \in U : IsFiniteSet(B(s)) /\ Cardinality(B(s)) \in Nat
    <2> SUFFICES ASSUME NEW s \in U PROVE IsFiniteSet(B(s)) /\ Cardinality(B(s)) \in Nat
      OBVIOUS
    <2>1. IsFiniteSet(B(s))
      BY <1>2, <1>4, FS_Subset
    <2> QED BY <2>1, FS_CardinalityType
  <1>6. \A s \in U : s \notin B(s)
    BY <1>1, <1>3
  <1>7. \A s \in U : Cardinality(B(s)) \in 0 .. n - 1
    <2> SUFFICES ASSUME NEW s \in U PROVE Cardinality(B(s)) \in 0 .. n - 1
      OBVIOUS
    <2>1. B(s) \in SUBSET (U \ {s})
      BY <1>4, <1>6
    <2>2. IsFiniteSet(U \ {s}) /\ Cardinality(U \ {s}) = n - 1
      BY <1>2, FS_RemoveElement
    <2>3. Cardinality(B(s)) <= n - 1
      BY <2>1, <2>2, FS_Subset
    <2> QED BY <1>2, <1>5, <2>3
  <1>8. \A s, t \in U : s \in B(t) => Cardinality(B(s)) < Cardinality(B(t))
    <2> SUFFICES ASSUME NEW s \in U, NEW t \in U, s \in B(t)
                 PROVE  Cardinality(B(s)) < Cardinality(B(t))
      OBVIOUS
    <2>1. \A x \in B(s) : x \in B(t)
      <3> SUFFICES ASSUME NEW x \in B(s) PROVE x \in B(t)
        OBVIOUS
      <3>1. x \in U
        BY <1>4
      <3> QED BY <1>1, <1>3, <3>1
    <2>2. B(s) \cup {s} \in SUBSET B(t)
      BY <2>1
    <2>3. IsFiniteSet(B(s) \cup {s}) /\ Cardinality(B(s) \cup {s}) = Cardinality(B(s)) + 1
      BY <1>5, <1>6, FS_AddElement
    <2>4. Cardinality(B(s) \cup {s}) <= Cardinality(B(t))
      BY <1>5, <2>2, FS_Subset
    <2> QED BY <1>5, <2>3, <2>4
  <1>9. \A s, t \in U : s # t => Cardinality(B(s)) # Cardinality(B(t))
    <2> SUFFICES ASSUME NEW s \in U, NEW t \in U, s # t
                 PROVE  Cardinality(B(s)) # Cardinality(B(t))
      OBVIOUS
    <2>1. s \in B(t) \/ t \in B(s)
      BY <1>1, <1>3
    <2> QED BY <1>5, <1>8, <2>1
  <1>10. r \in Injection(U, 0 .. n - 1)
    BY <1>7, <1>9 DEF Injection, IsInjective
  <1>11. IsFiniteSet(0 .. n - 1) /\ Cardinality(0 .. n - 1) = n
    <2>1. 0 \in Int /\ n - 1 \in Int
      BY <1>2
    <2> QED BY <1>2, <2>1, FS_Interval
  <1> HIDE DEF r
  <1>12. r \in Surjection(U, 0 .. n - 1)
    BY <1>2, <1>10, <1>11, FS_Injection
  <1>13. i - 1 \in 0 .. n - 1
    BY <1>2 DEF U
  <1>14. PICK s \in U : r[s] = i - 1
    BY <1>12, <1>13 DEF Surjection
  <1>15. Cardinality(Before(lengths, s)) = i - 1 /\ s \in Used(lengths)
    BY <1>14 DEF r, B, U
  <1> QED BY <1>15, Zenon DEF SortedSym

\* The decode table of the given lengths.
TableOf(lengths) ==
    LET rev == ReversedCodes(lengths)
        entry == [i \in DOMAIN rev |-> Decoded(SortedSym(lengths, i), Len(rev[i]))]
        Hits(w) == {i \in DOMAIN rev : Len(rev[i]) <= LUT_BITS /\ StartsWith(w, rev[i])}
        short == Cardinality({i \in DOMAIN rev : Len(rev[i]) <= LUT_BITS})
    IN  [lut |-> [w \in DOMAIN new_empty.lut |-> IF Hits(w) = {} THEN new_empty.lut[w]
                                                 ELSE entry[Max(Hits(w))]],
         long_codes |-> new_empty.long_codes \o
             [i \in 1 .. Cardinality(Used(lengths)) - short |->
                 [reversed |-> rev[short + i], entry |-> entry[short + i]]]]

\* What build_into leaves in a table, whatever was there before.
LEMMA BuiltTable ==
    ASSUME NEW d, NEW lengths, NEW strict, BuildInto(d, lengths, strict).ok
    PROVE  BuildInto(d, lengths, strict).table = TableOf(lengths)
  <1>1. ~Refused(lengths, strict)
    BY DEF BuildInto
  <1> QED BY <1>1 DEF BuildInto, Cleared, TableOf

\* The entries a table is made of belong to symbols that have a code.
LEMMA CodeEntries ==
    ASSUME NEW lengths, IsLengths(lengths)
    PROVE  LET rev == ReversedCodes(lengths) IN
           /\ Cardinality(Used(lengths)) \in Nat
           /\ DOMAIN rev = 1 .. Cardinality(Used(lengths))
           /\ \A i \in DOMAIN rev :
                 Decoded(SortedSym(lengths, i), Len(rev[i])).sym \in Used(lengths)
  <1> DEFINE n == Cardinality(Used(lengths))
  <1>1. n \in Nat
    BY FS_Subset, FS_CardinalityType DEF Used, IsLengths
  <1>2. DOMAIN ReversedCodes(lengths) = 1 .. n
    BY DEF ReversedCodes
  <1>3. \A i \in 1 .. n : SortedSym(lengths, i) \in Used(lengths)
    BY SortedSymExists
  <1> QED BY <1>1, <1>2, <1>3 DEF Decoded

\* The bits ahead are a sequence, and the table has an entry for its first
\* LUT_BITS bits.
LEMMA AheadIndex ==
    ASSUME NEW bits \in Ahead, ~(Len(bits) < LUT_BITS)
    PROVE  SubSeq(bits, 1, LUT_BITS) \in DOMAIN new_empty.lut
  <1>1. PICK m \in 0 .. MAX_CODE_LEN : bits \in [1 .. m -> Bit]
    BY DEF Ahead, BitStrings
  <1>2. m \in Nat /\ LUT_BITS \in Nat /\ 1 <= LUT_BITS
    BY CanonicalCodeAssumption
  <1>3. bits \in Seq(Bit) /\ Len(bits) = m
    BY <1>1, <1>2
  <1>4. LUT_BITS <= m
    BY <1>2, <1>3
  <1>5. /\ Len(SubSeq(bits, 1, LUT_BITS)) = LUT_BITS /\ SubSeq(bits, 1, LUT_BITS) \in Seq(Bit)
    BY <1>2, <1>3, <1>4
  <1>6. SubSeq(bits, 1, LUT_BITS) \in [1 .. LUT_BITS -> Bit]
    <2>1. PICK q \in Seq(Bit) : q = SubSeq(bits, 1, LUT_BITS)
      BY <1>5
    <2>2. q \in [1 .. Len(q) -> Bit]
      BY LenProperties
    <2> QED BY <1>5, <2>1, <2>2
  <1> QED BY <1>6 DEF new_empty, BitStrings

\* A lookup in a table of the code finds a symbol of the code, or says that there
\* is none or that the input ends.
Finds(lengths, e) == e = Eof \/ e = Invalid \/ e.sym \in Used(lengths)

\* What a lookup in such a table may return.
LEMMA TableFinds ==
    ASSUME NEW lengths, IsLengths(lengths), NEW bits \in Ahead
    PROVE  Finds(lengths, Lookup(TableOf(lengths), bits))
  <1> DEFINE rev == ReversedCodes(lengths)
             n == Cardinality(Used(lengths))
             entry == [i \in DOMAIN rev |-> Decoded(SortedSym(lengths, i), Len(rev[i]))]
             Hits(w) == {i \in DOMAIN rev : Len(rev[i]) <= LUT_BITS /\ StartsWith(w, rev[i])}
             shorts == {i \in DOMAIN rev : Len(rev[i]) <= LUT_BITS}
             short == Cardinality(shorts)
             long == [i \in 1 .. n - short |->
                         [reversed |-> rev[short + i], entry |-> entry[short + i]]]
             T == TableOf(lengths)
  <1>1. n \in Nat /\ DOMAIN rev = 1 .. n /\ \A i \in 1 .. n : entry[i].sym \in Used(lengths)
    BY CodeEntries
  <1>2. /\ T.lut = [w \in DOMAIN new_empty.lut |-> IF Hits(w) = {} THEN new_empty.lut[w]
                                                   ELSE entry[Max(Hits(w))]]
        /\ T.long_codes = new_empty.long_codes \o long
    BY DEF TableOf
  <1>3. \A w : Hits(w) \subseteq 1 .. n
    BY <1>1
  <1>4. short \in 0 .. n
    <2>1. shorts \in SUBSET (1 .. n)
      BY <1>1
    <2> HIDE DEF shorts
    <2>2. IsFiniteSet(1 .. n) /\ Cardinality(1 .. n) = n
      BY <1>1, FS_Interval
    <2>3. IsFiniteSet(shorts) /\ Cardinality(shorts) <= n
      BY <2>1, <2>2, FS_Subset
    <2> QED BY <1>1, <2>3, FS_CardinalityType
  <1> HIDE DEF rev, entry, Hits, short, T
  <1>5. T.long_codes = long
    <2>1. new_empty.long_codes = <<>>
      BY DEF new_empty
    <2> DEFINE m == n - short
               S == {long[i] : i \in 1 .. m}
    <2>2. m \in Nat
      BY <1>1, <1>4
    <2>3. DOMAIN long = 1 .. m /\ long = [i \in 1 .. m |-> long[i]]
      OBVIOUS
    <2> HIDE DEF long, m
    <2>4. \A i \in 1 .. m : long[i] \in S
      OBVIOUS
    <2> HIDE DEF S
    <2>5. long \in [1 .. m -> S]
      BY <2>3, <2>4
    <2>6. long \in Seq(S)
      BY <2>2, <2>5, IsASeq
    <2> QED BY <1>2, <2>1, <2>6
  <1>6. \A i \in DOMAIN long : long[i].entry.sym \in Used(lengths)
    <2> SUFFICES ASSUME NEW i \in 1 .. n - short PROVE long[i].entry.sym \in Used(lengths)
      BY <1>1, <1>4
    <2>1. long[i].entry = entry[short + i] /\ short + i \in 1 .. n
      BY <1>1, <1>4
    <2> QED BY <1>1, <2>1
  <1>7. DOMAIN long \subseteq Nat
    BY <1>1, <1>4
  <1> HIDE DEF long
  <1>8. Finds(lengths, LookupLong(T, bits))
    <2> DEFINE hits == {i \in DOMAIN T.long_codes : StartsWith(bits, T.long_codes[i].reversed)}
    <2>1. CASE Len(bits) < MAX_CODE_LEN
      BY <2>1 DEF LookupLong, Finds
    <2>2. CASE ~(Len(bits) < MAX_CODE_LEN) /\ hits = {}
      BY <2>2 DEF LookupLong, Finds
    <2>3. CASE ~(Len(bits) < MAX_CODE_LEN) /\ hits # {}
      <3>1. LookupLong(T, bits) = T.long_codes[Min(hits)].entry
        BY <2>3 DEF LookupLong
      <3>2. hits \subseteq Nat /\ hits \subseteq DOMAIN long
        BY <1>5, <1>7
      <3> HIDE DEF hits
      <3>3. Min(hits) \in DOMAIN long
        BY <2>3, <3>2, MinProperty
      <3> QED BY <1>5, <1>6, <3>1, <3>3 DEF Finds
    <2> QED BY <2>1, <2>2, <2>3
  <1>9. CASE Len(bits) < LUT_BITS
    BY <1>9 DEF Lookup, Finds
  <1>10. CASE ~(Len(bits) < LUT_BITS)
    <2> DEFINE w == SubSeq(bits, 1, LUT_BITS)
    <2>1. w \in DOMAIN new_empty.lut
      BY <1>10, AheadIndex
    <2>2. Lookup(T, bits) = IF T.lut[w].len = 0 THEN LookupLong(T, bits) ELSE T.lut[w]
      BY <1>10 DEF Lookup
    <2> HIDE DEF w
    <2>3. CASE Hits(w) = {}
      <3>1. T.lut[w] = new_empty.lut[w]
        BY <1>2, <2>1, <2>3
      <3>2. T.lut[w].len = 0
        BY <2>1, <3>1 DEF new_empty, NoEntry, Decoded
      <3> QED BY <1>8, <2>2, <3>2 DEF T
    <2>4. CASE Hits(w) # {}
      <3>1. T.lut[w] = entry[Max(Hits(w))]
        BY <1>2, <2>1, <2>4
      <3>2. Hits(w) \subseteq 1 .. n /\ Hits(w) \subseteq 0 .. n
        BY <1>1, <1>3
      <3>3. Max(Hits(w)) \in Hits(w)
        BY <1>1, <2>4, <3>2, MaxProperty
      <3>4. entry[Max(Hits(w))].sym \in Used(lengths)
        BY <1>1, <3>2, <3>3
      <3>5. Finds(lengths, T.lut[w])
        BY <3>1, <3>4 DEF Finds
      <3> QED BY <1>8, <2>2, <3>5 DEF T
    <2> QED BY <2>3, <2>4
  <1> QED BY <1>9, <1>10 DEF T

-----------------------------------------------------------------------------
(* Types of the header parsers. *)

\* The fields of a parser that HeaderTypeOK speaks of.
Typed(p) ==
    /\ p.status \in {"parsing", "done", "invalid", "eof", "verified"}
    /\ p.i \in 0 .. total
    /\ p.lengths \in [0 .. total - 1 -> 0 .. MAX_CODE_LEN]

\* Table d leads to code-length symbols only.
LeadsToCl(d) ==
    \A bits \in Ahead : LET e == Lookup(d, bits)
                        IN  e = Eof \/ e = Invalid \/ e.sym \in ClSymbols

\* The inductive invariant for the types: what a parser reads with the table of
\* the code-length code are symbols of that code.
HeaderTypes ==
    /\ HeaderInv
    /\ HeaderTypeOK
    /\ phase = "codes" => \A p \in {inflate, finder} : p.status = "parsing" => LeadsToCl(p.cl)

\* The constants in the form the provers use.
LEMMA HeaderConstants ==
    ASSUME shape \in [hlit : LitSizes, hdist : DistSizes, pre : PreCodes]
    PROVE  /\ total \in Nat /\ shape.hlit \in Nat /\ shape.hdist \in Nat
           /\ EndOfBlock \in 0 .. shape.hlit - 1
           /\ shape.pre \in [ClSymbols -> 0 .. MAX_CODE_LEN]
           /\ MAX_CODE_LEN \in Nat
  <1>1. shape.hlit \in LitSizes /\ shape.hdist \in DistSizes /\ shape.pre \in PreCodes
    OBVIOUS
  <1>2. /\ shape.hlit \in Nat /\ shape.hlit > EndOfBlock /\ EndOfBlock \in Nat
    BY <1>1, DynamicHeaderAssumption
  <1>3. shape.hdist \in Nat /\ shape.pre \in [ClSymbols -> 0 .. MAX_CODE_LEN]
    BY <1>1, DynamicHeaderAssumption
  <1> QED BY <1>2, <1>3, CanonicalCodeAssumption DEF total

\* A table built for the code-length code leads to its symbols.
LEMMA BuiltLeadsToCl ==
    ASSUME NEW d, NEW strict, NEW pre \in [ClSymbols -> 0 .. MAX_CODE_LEN],
           BuildInto(d, pre, strict).ok
    PROVE  LeadsToCl(BuildInto(d, pre, strict).table)
  <1>1. MAX_CODE_LEN \in Nat
    BY CanonicalCodeAssumption
  <1>2. IsFiniteSet(ClSymbols) /\ ClSymbols \subseteq Int
    BY <1>1, FS_Interval DEF ClSymbols
  <1>3. IsLengths(pre)
    BY <1>1, <1>2 DEF IsLengths
  <1>4. Used(pre) \subseteq ClSymbols
    BY DEF Used
  <1>5. BuildInto(d, pre, strict).table = TableOf(pre)
    BY BuiltTable
  <1>6. \A bits \in Ahead : Finds(pre, Lookup(TableOf(pre), bits))
    BY <1>3, TableFinds
  <1>7. LeadsToCl(TableOf(pre))
    BY <1>4, <1>6 DEF LeadsToCl, Finds
  <1> QED BY <1>5, <1>7

\* The types hold at the start.
LEMMA HeaderTypesInit == Init => HeaderTypes
  <1> SUFFICES ASSUME Init PROVE HeaderTypes
    OBVIOUS
  <1>1. shape \in [hlit : LitSizes, hdist : DistSizes, pre : PreCodes] /\ phase = "start" /\ trial = 0
    BY Zenon DEF Init
  <1>2. total \in Nat /\ MAX_CODE_LEN \in Nat
    BY <1>1, HeaderConstants
  <1>3. trial \in 0 .. TrialSymbols - 1
    BY <1>1, DynamicHeaderAssumption
  <1>4. \A a, b, c, d : /\ Parser(a, b, c, d).status = "parsing" /\ Parser(a, b, c, d).i = 0
                        /\ Parser(a, b, c, d).lengths = a
    BY DEF Parser
  <1>5. Zeros(total) \in [0 .. total - 1 -> 0 .. MAX_CODE_LEN]
    BY <1>2 DEF Zeros
  <1>6. Typed(inflate)
    BY <1>2, <1>4, <1>5 DEF Init, Typed
  <1>7. PICK a, b : /\ finder = Parser(a, b, b, b)
                    /\ \/ a = Zeros(total)
                       \/ \E c \in EarlierCodes :
                            a = [i \in 0 .. total - 1 |-> IF i \in DOMAIN c THEN c[i] ELSE 0]
    BY Zenon DEF Init
  <1>8. a \in [0 .. total - 1 -> 0 .. MAX_CODE_LEN]
    <2>1. CASE a = Zeros(total)
      BY <1>5, <2>1
    <2>2. CASE a # Zeros(total)
      <3>1. PICK c \in EarlierCodes :
               a = [i \in 0 .. total - 1 |-> IF i \in DOMAIN c THEN c[i] ELSE 0]
        BY <1>7, <2>2
      <3>2. c \in [ClSymbols -> 0 .. MAX_CODE_LEN]
        BY DynamicHeaderAssumption
      <3> QED BY <1>2, <3>1, <3>2
    <2> QED BY <2>1, <2>2
  <1>9. Typed(finder)
    BY <1>2, <1>4, <1>7, <1>8 DEF Typed
  <1>10. HeaderTypeOK
    BY <1>1, <1>3, <1>6, <1>9 DEF HeaderTypeOK, Typed
  <1> QED BY <1>1, <1>10, HeaderInvInit DEF HeaderTypes

\* Reading a symbol of the code-length code keeps a parser's types.
LEMMA AfterSymbolTyped ==
    ASSUME NEW p, NEW d, NEW extra \in -1 .. ExtraMax, IsParser(p), p.status = "parsing",
           total \in Nat, Typed(p), p.i < total,
           d = Eof \/ d = Invalid \/ d.sym \in ClSymbols
    PROVE  Typed(AfterSymbol(p, d, extra, FALSE))
  <1>1. MAX_CODE_LEN \in Nat /\ ExtraMax \in Nat
        /\ RunBase \in [CopyPrevious .. MAX_CODE_LEN + 3 -> Nat \ {0}]
    BY CanonicalCodeAssumption, DynamicHeaderAssumption
  <1>2. p.i \in Nat /\ p.lengths \in [0 .. total - 1 -> 0 .. MAX_CODE_LEN] /\ p.i <= total
    BY DEF Typed
  <1>3. \A s \in {"eof", "invalid"} : Typed(Stopped(p, s))
    BY StoppedParser DEF Typed
  <1>4. ASSUME NEW n \in Nat, NEW v \in 0 .. MAX_CODE_LEN, NEW w, p.i + n <= total
        PROVE  Typed(Written(p, n, v, w))
    <2>1. PICK k, l : /\ k = p.i + n
                      /\ l = [j \in DOMAIN p.lengths |->
                               IF w /\ j \in p.i .. p.i + n - 1 THEN v ELSE p.lengths[j]]
      OBVIOUS
    <2>2. Written(p, n, v, w) = [p EXCEPT !.i = k, !.lengths = l]
      BY <2>1, Zenon DEF Written
    <2>3. Written(p, n, v, w) = [status |-> "parsing", i |-> k, lengths |-> l,
                                 cl |-> p.cl, lit |-> p.lit, dist |-> p.dist]
      BY <2>2 DEF IsParser
    <2>4. k \in 0 .. total
      BY <1>2, <1>4, <2>1
    <2>5. l \in [0 .. total - 1 -> 0 .. MAX_CODE_LEN]
      BY <1>2, <2>1
    <2> QED BY <2>3, <2>4, <2>5 DEF Typed
  <1>5. CASE d = Eof
    BY <1>3, <1>5 DEF AfterSymbol
  <1>6. CASE d # Eof /\ d = Invalid
    BY <1>3, <1>6 DEF AfterSymbol
  <1>7. CASE d # Eof /\ d # Invalid
    <2> USE <1>7
    <2>0. d.sym \in 0 .. MAX_CODE_LEN + 3
      BY DEF ClSymbols
    <2>1. CASE d.sym <= MAX_CODE_LEN
      <3>1. AfterSymbol(p, d, extra, FALSE) = Written(p, 1, d.sym, TRUE)
        BY <2>1, Zenon DEF AfterSymbol
      <3>2. d.sym \in 0 .. MAX_CODE_LEN /\ p.i + 1 <= total
        BY <1>1, <1>2, <2>0, <2>1
      <3> QED BY <1>4, <3>1, <3>2
    <2>2. CASE ~(d.sym <= MAX_CODE_LEN)
      <3> DEFINE n == RunBase[d.sym] + extra
      <3>1. d.sym \in CopyPrevious .. MAX_CODE_LEN + 3
        BY <1>1, <2>0, <2>2 DEF CopyPrevious
      <3>2. RunBase[d.sym] \in Nat \ {0}
        BY <1>1, <3>1
      <3>3. CASE (d.sym = CopyPrevious /\ p.i = 0) \/ extra < 0 \/ Overruns(p.i, n)
        <4>1. AfterSymbol(p, d, extra, FALSE) \in {Stopped(p, "eof"), Stopped(p, "invalid")}
          BY <2>2, <3>3 DEF AfterSymbol
        <4> QED BY <1>3, <4>1
      <3>4. CASE ~((d.sym = CopyPrevious /\ p.i = 0) \/ extra < 0 \/ Overruns(p.i, n))
        <4>1. n \in Nat
          BY <1>1, <3>2, <3>4
        <4>2. p.i + n <= total
          BY <1>2, <3>4, <4>1 DEF Overruns
        <4>3. CASE d.sym = CopyPrevious
          <5>1. AfterSymbol(p, d, extra, FALSE) = Written(p, n, p.lengths[p.i - 1], TRUE)
            BY <2>2, <3>4, <4>3, Zenon DEF AfterSymbol
          <5>2. p.lengths[p.i - 1] \in 0 .. MAX_CODE_LEN
            BY <1>2, <3>4, <4>3
          <5> HIDE DEF n
          <5> QED BY <1>4, <4>1, <4>2, <5>1, <5>2
        <4>4. CASE d.sym # CopyPrevious
          <5>1. AfterSymbol(p, d, extra, FALSE) = Written(p, n, 0, FALSE)
            BY <2>2, <3>4, <4>4, Zenon DEF AfterSymbol
          <5> HIDE DEF n
          <5>2. 0 \in 0 .. MAX_CODE_LEN
            BY <1>1
          <5> QED BY <1>4, <4>1, <4>2, <5>1, <5>2, Zenon
        <4> QED BY <4>3, <4>4
      <3> QED BY <3>3, <3>4
    <2> QED BY <2>1, <2>2
  <1> QED BY <1>5, <1>6, <1>7

\* Every step keeps the types.
LEMMA HeaderTypesNext == HeaderTypes /\ [Next]_vars => HeaderTypes'
  <1> SUFFICES ASSUME HeaderTypes, [Next]_vars PROVE HeaderTypes'
    OBVIOUS
  <1>0. HeaderInv' /\ HeaderInv
    BY HeaderInvNext DEF HeaderTypes
  <1>1. /\ shape \in [hlit : LitSizes, hdist : DistSizes, pre : PreCodes]
        /\ trial \in 0 .. TrialSymbols - 1
        /\ Typed(inflate) /\ Typed(finder)
        /\ IsParser(inflate) /\ IsParser(finder)
    BY <1>0 DEF HeaderTypes, HeaderTypeOK, Typed, HeaderInv
  <1>2. /\ total \in Nat /\ MAX_CODE_LEN \in Nat /\ shape.hlit \in Nat /\ shape.hdist \in Nat
        /\ shape.pre \in [ClSymbols -> 0 .. MAX_CODE_LEN]
    BY <1>1, HeaderConstants
  <1>3. UNCHANGED shape
    BY DEF Next, vars, ReadPreCode, ReadCodeLength, BuildTables, TrialDecode
  <1>4. total' = total /\ \A p : Typed(p)' <=> Typed(p)
    BY <1>3 DEF total, Typed
  <1>5. phase' \in {"start", "codes", "trial", "end"}
    BY <1>0 DEF HeaderInv
  <1>6. SUFFICES /\ trial' \in 0 .. TrialSymbols - 1
                 /\ (Typed(inflate))' /\ (Typed(finder))'
                 /\ phase' = "codes" =>
                       /\ inflate'.status = "parsing" => LeadsToCl(inflate'.cl)
                       /\ finder'.status = "parsing" => LeadsToCl(finder'.cl)
    <2>1. HeaderTypeOK'
      BY <1>1, <1>3, <1>5, <1>6 DEF HeaderTypeOK, Typed
    <2> QED BY <1>0, <1>6, <2>1 DEF HeaderTypes
  <1>7. CASE ReadPreCode
    <2>1. trial' = trial
      BY <1>7 DEF ReadPreCode
    <2>2. CASE shape.hlit > MaxLit \/ shape.hdist > MaxDist
      <3>1. /\ phase' = "end" /\ inflate' = Stopped(inflate, "invalid")
            /\ finder' = Stopped(finder, "invalid")
        BY <1>7, <2>2 DEF ReadPreCode
      <3> QED BY <1>1, <1>4, <2>1, <3>1, StoppedParser DEF Typed
    <2>3. CASE ~(shape.hlit > MaxLit \/ shape.hdist > MaxDist)
      <3> DEFINE f == [finder EXCEPT !.lengths = FinderLengths(finder.lengths)]
                 b == BuildInto(inflate.cl, shape.pre, FALSE)
                 s == BuildInto(finder.cl, shape.pre, TRUE)
      <3>1. /\ phase' = "codes" /\ inflate' = WithCl(inflate, b) /\ finder' = WithCl(f, s)
        BY <1>7, <2>3 DEF ReadPreCode
      <3>2. (b.ok => LeadsToCl(b.table)) /\ (s.ok => LeadsToCl(s.table))
        BY <1>2, BuiltLeadsToCl
      <3> HIDE DEF b, s
      <3>3. IsParser(f) /\ f.lengths = Zeros(total) /\ f.i = finder.i
        BY <1>1 DEF IsParser, FinderLengths
      <3> HIDE DEF f
      <3>4. /\ inflate'.i = inflate.i /\ inflate'.lengths = inflate.lengths
            /\ inflate'.cl = b.table
            /\ inflate'.status = IF b.ok THEN "parsing" ELSE "invalid"
        BY <1>1, <3>1, WithClParser
      <3>5. /\ finder'.i = finder.i /\ finder'.lengths = Zeros(total)
            /\ finder'.cl = s.table
            /\ finder'.status = IF s.ok THEN "parsing" ELSE "invalid"
        BY <3>1, <3>3, WithClParser
      <3>6. Zeros(total) \in [0 .. total - 1 -> 0 .. MAX_CODE_LEN]
        BY <1>2 DEF Zeros
      <3>7. Typed(inflate)' /\ Typed(finder)'
        BY <1>1, <1>4, <3>4, <3>5, <3>6 DEF Typed
      <3> QED BY <1>1, <2>1, <3>2, <3>4, <3>5, <3>7
    <2> QED BY <2>2, <2>3
  <1>8. ASSUME NEW bits \in Ahead, NEW have, NEW extra \in -1 .. ExtraMax,
               ReadCodeLength(bits, have, extra)
        PROVE  /\ trial' \in 0 .. TrialSymbols - 1
               /\ (Typed(inflate))' /\ (Typed(finder))'
               /\ phase' = "codes" =>
                     /\ inflate'.status = "parsing" => LeadsToCl(inflate'.cl)
                     /\ finder'.status = "parsing" => LeadsToCl(finder'.cl)
    <2>1. trial' = trial /\ phase = "codes" /\ phase' = "codes"
      BY <1>8 DEF ReadCodeLength
    <2>2. /\ inflate' = IF ~Reads(inflate) THEN inflate
                        ELSE AfterSymbol(inflate, Lookup(inflate.cl, bits), extra, FALSE)
          /\ finder' = IF ~Reads(finder) THEN finder
                       ELSE AfterSymbol(finder, Lookup(finder.cl, bits), extra, FALSE)
      BY <1>8, Zenon DEF ReadCodeLength
    <2>3. /\ inflate.status = "parsing" => LeadsToCl(inflate.cl)
          /\ finder.status = "parsing" => LeadsToCl(finder.cl)
      BY <2>1 DEF HeaderTypes
    <2>4. ASSUME NEW p, NEW q, IsParser(p), Typed(p), p.status = "parsing" => LeadsToCl(p.cl),
                 q = IF ~Reads(p) THEN p ELSE AfterSymbol(p, Lookup(p.cl, bits), extra, FALSE)
          PROVE  Typed(q) /\ (q.status = "parsing" => LeadsToCl(q.cl))
      <3>1. CASE ~Reads(p)
        BY <2>4, <3>1
      <3>2. CASE Reads(p)
        <4>1. p.status = "parsing" /\ p.i < total
          BY <3>2 DEF Reads, Parsing
        <4>2. PICK d : d = Lookup(p.cl, bits)
          OBVIOUS
        <4>3. d = Eof \/ d = Invalid \/ d.sym \in ClSymbols
          BY <2>4, <4>1, <4>2 DEF LeadsToCl
        <4>4. q = AfterSymbol(p, d, extra, FALSE)
          BY <2>4, <3>2, <4>2
        <4>5. Typed(q)
          BY <1>2, <2>4, <4>1, <4>3, <4>4, AfterSymbolTyped
        <4>6. q.cl = p.cl
          BY <2>4, <4>1, <4>4, AfterSymbolCl
        <4> QED BY <2>4, <4>1, <4>5, <4>6
      <3> QED BY <3>1, <3>2
    <2>5. PICK q : q = inflate' 
      OBVIOUS
    <2>6. PICK r : r = finder' 
      OBVIOUS
    <2>7. /\ Typed(q) /\ (q.status = "parsing" => LeadsToCl(q.cl))
      BY <1>1, <2>2, <2>3, <2>4, <2>5
    <2>8. /\ Typed(r) /\ (r.status = "parsing" => LeadsToCl(r.cl))
      BY <1>1, <2>2, <2>3, <2>4, <2>6
    <2>9. Typed(inflate)' /\ Typed(finder)'
      BY <1>4, <2>5, <2>6, <2>7, <2>8 DEF Typed
    <2> QED BY <1>1, <2>1, <2>5, <2>6, <2>7, <2>8, <2>9
  <1>9. CASE BuildTables
    <2> DEFINE il == BuildInto(inflate.lit, LitLengths(inflate), FALSE)
               id == BuildInto(inflate.dist, DistLengths(inflate), FALSE)
               fl == BuildInto(finder.lit, LitLengths(finder), TRUE)
               fd == BuildInto(finder.dist, DistLengths(finder), TRUE)
    <2>1. /\ inflate' = WithTables(inflate, il, id) /\ finder' = WithTables(finder, fl, fd)
          /\ phase' = IF finder'.status = "done" THEN "trial" ELSE "end"
          /\ trial' = trial
      BY <1>9, Zenon DEF BuildTables
    <2> HIDE DEF il, id, fl, fd
    <2>2. ASSUME NEW p, NEW lit, NEW dist, IsParser(p), Typed(p)
          PROVE  Typed(WithTables(p, lit, dist))
      <3>1. PICK s : /\ s = IF p.status # "parsing" THEN p.status
                            ELSE IF p.lengths[EndOfBlock] # 0 /\ lit.ok /\ dist.ok THEN "done"
                            ELSE "invalid"
                     /\ Keeps(p, WithTables(p, lit, dist), s)
        BY <2>2, WithTablesParser, Zenon
      <3> QED BY <2>2, <3>1 DEF Keeps, Typed
    <2>3. Typed(WithTables(inflate, il, id)) /\ Typed(WithTables(finder, fl, fd))
      BY <1>1, <2>2
    <2>4. Typed(inflate)' /\ Typed(finder)'
      BY <1>4, <2>1, <2>3 DEF Typed
    <2> QED BY <1>1, <2>1, <2>4
  <1>10. ASSUME NEW bits, NEW distBits, NEW extraThere, TrialDecode(bits, distBits, extraThere)
         PROVE  /\ trial' \in 0 .. TrialSymbols - 1
                /\ (Typed(inflate))' /\ (Typed(finder))'
                /\ phase' # "codes"
    <2>1. /\ phase = "trial" /\ UNCHANGED inflate
          /\ \/ \E s \in {"eof", "invalid", "verified"} : Verdict(s)
             \/ trial + 1 # TrialSymbols /\ trial' = trial + 1 /\ UNCHANGED <<finder, phase>>
      BY <1>10, Zenon DEF TrialDecode, Counted
    <2>2. CASE \E s \in {"eof", "invalid", "verified"} : Verdict(s)
      <3>1. PICK s \in {"eof", "invalid", "verified"} :
               finder' = Stopped(finder, s) /\ phase' = "end" /\ trial' = trial
        BY <2>2 DEF Verdict
      <3> QED BY <1>1, <1>4, <2>1, <3>1, StoppedParser DEF Typed
    <2>3. CASE trial + 1 # TrialSymbols /\ trial' = trial + 1 /\ UNCHANGED <<finder, phase>>
      <3>1. trial' \in 0 .. TrialSymbols - 1
        BY <1>1, <2>3, DynamicHeaderAssumption
      <3> QED BY <1>1, <1>4, <2>1, <2>3, <3>1 DEF Typed
    <2> QED BY <2>1, <2>2, <2>3
  <1>11. CASE UNCHANGED vars
    BY <1>1, <1>4, <1>11 DEF vars, HeaderTypes, Typed
  <1> QED BY <1>7, <1>8, <1>9, <1>10, <1>11, Zenon DEF Next

\* The header parsers never write past the lengths they were promised and never
\* store a length that is none: every symbol that a table of the code-length
\* code leads to has a code in it.
THEOREM HeaderTypeCorrect == Spec => []HeaderTypeOK
  <1>1. HeaderTypes => HeaderTypeOK
    BY DEF HeaderTypes
  <1> QED BY <1>1, HeaderTypesInit, HeaderTypesNext, PTL DEF Spec

-----------------------------------------------------------------------------
(* What the strict parser refuses. *)

\* Where the strict construction fails and the other one does not, the tree is
\* not complete.
LEMMA StrictRefusal ==
    ASSUME NEW d, NEW e, NEW lengths,
           ~BuildInto(d, lengths, TRUE).ok, BuildInto(e, lengths, FALSE).ok
    PROVE  ~Complete(lengths)
  <1>1. Refused(lengths, TRUE) /\ ~Refused(lengths, FALSE)
    BY DEF BuildInto
  <1> QED BY <1>1 DEF Refused, Complete

\* The invariant before the trial.
RefusalInv == HeaderInv /\ (phase \in {"start", "codes", "trial"} => RefusesOnlyIncomplete)

\* Every step of the parsers keeps to refusing incomplete trees.
LEMMA RefusalStep ==
    ASSUME RefusalInv, [Next]_vars, phase \in {"start", "codes"}
    PROVE  RefusesOnlyIncomplete'
  <1>0. HeaderInv /\ RefusesOnlyIncomplete /\ IsParser(inflate) /\ IsParser(finder)
    BY DEF RefusalInv, HeaderInv
  <1>1. UNCHANGED shape
    BY DEF Next, vars, ReadPreCode, ReadCodeLength, BuildTables, TrialDecode
  <1>2. SUFFICES ASSUME finder'.status = "invalid", inflate'.status \notin {"invalid", "eof"},
                        Complete(shape.pre)
                 PROVE  inflate'.status = "done" /\
                        \E lengths \in {LitLengths(inflate'), DistLengths(inflate')} :
                            ~Complete(lengths)
    BY <1>1 DEF RefusesOnlyIncomplete, LitLengths, DistLengths
  <1>3. ASSUME phase = "codes" PROVE finder.status # "invalid" \/ inflate.status \in {"invalid", "eof"}
    BY <1>0, <1>2, <1>3 DEF RefusesOnlyIncomplete, HeaderInv
  <1>4. CASE ReadPreCode
    <2>1. CASE shape.hlit > MaxLit \/ shape.hdist > MaxDist
      <3>1. inflate' = Stopped(inflate, "invalid")
        BY <1>4, <2>1 DEF ReadPreCode
      <3> QED BY <1>0, <1>2, <3>1, StoppedParser
    <2>2. CASE ~(shape.hlit > MaxLit \/ shape.hdist > MaxDist)
      <3> DEFINE f == [finder EXCEPT !.lengths = FinderLengths(finder.lengths)]
                 b == BuildInto(inflate.cl, shape.pre, FALSE)
                 s == BuildInto(finder.cl, shape.pre, TRUE)
      <3>1. inflate' = WithCl(inflate, b) /\ finder' = WithCl(f, s)
        BY <1>4, <2>2 DEF ReadPreCode
      <3>2. ~s.ok /\ b.ok => ~Complete(shape.pre)
        BY StrictRefusal
      <3> HIDE DEF b, s
      <3>3. IsParser(f)
        BY <1>0 DEF IsParser
      <3> HIDE DEF f
      <3>4. /\ inflate'.status = IF b.ok THEN "parsing" ELSE "invalid"
            /\ finder'.status = IF s.ok THEN "parsing" ELSE "invalid"
        BY <1>0, <3>1, <3>3, WithClParser
      <3> QED BY <1>2, <3>2, <3>4
    <2> QED BY <2>1, <2>2
  <1>5. ASSUME NEW bits, NEW have, NEW extra, ReadCodeLength(bits, have, extra)
        PROVE  FALSE
    <2>1. /\ phase = "codes"
          /\ inflate' = IF ~Reads(inflate) THEN inflate
                        ELSE AfterSymbol(inflate, Lookup(inflate.cl, bits), extra, FALSE)
          /\ finder' = IF ~Reads(finder) THEN finder
                       ELSE AfterSymbol(finder, Lookup(finder.cl, bits), extra, FALSE)
      BY <1>5, Zenon DEF ReadCodeLength
    <2>2. CASE inflate.status \in {"invalid", "eof"}
      BY <1>2, <2>1, <2>2 DEF Reads, Parsing
    <2>3. CASE inflate.status \notin {"invalid", "eof"}
      <3>1. finder.status # "invalid"
        BY <1>3, <2>1, <2>3
      <3>2. Reads(finder)
        BY <1>2, <2>1, <3>1
      <3>3. /\ finder.status = "parsing" /\ inflate.status = "parsing"
            /\ inflate.cl = finder.cl /\ inflate.i = finder.i /\ inflate.lengths = finder.lengths
        BY <1>0, <2>1, <3>2 DEF HeaderInv, Reads, Parsing, Together
      <3>4. Reads(inflate)
        BY <3>2, <3>3 DEF Reads, Parsing
      <3>5. PICK d : d = Lookup(finder.cl, bits)
        OBVIOUS
      <3> DEFINE a == AfterSymbol(inflate, d, extra, FALSE)
                 b == AfterSymbol(finder, d, extra, FALSE)
      <3>6. SameParse(a, b)
        BY ONLY <1>0, <3>3, SameSymbol
      <3> HIDE DEF a, b
      <3>7. finder' = b /\ inflate' = a
        BY <2>1, <3>2, <3>3, <3>4, <3>5 DEF a, b
      <3> QED BY <1>2, <3>6, <3>7 DEF SameParse
    <2> QED BY <2>2, <2>3
  <1>6. CASE BuildTables
    <2> DEFINE il == BuildInto(inflate.lit, LitLengths(inflate), FALSE)
               id == BuildInto(inflate.dist, DistLengths(inflate), FALSE)
               fl == BuildInto(finder.lit, LitLengths(finder), TRUE)
               fd == BuildInto(finder.dist, DistLengths(finder), TRUE)
    <2>1. /\ phase = "codes"
          /\ inflate' = WithTables(inflate, il, id) /\ finder' = WithTables(finder, fl, fd)
      BY <1>6, Zenon DEF BuildTables
    <2>2. Together => (~fl.ok /\ il.ok => ~Complete(LitLengths(inflate)))
                      /\ (~fd.ok /\ id.ok => ~Complete(DistLengths(inflate)))
      <3> SUFFICES ASSUME Together
                   PROVE  (~fl.ok /\ il.ok => ~Complete(LitLengths(inflate)))
                          /\ (~fd.ok /\ id.ok => ~Complete(DistLengths(inflate)))
        OBVIOUS
      <3>1. LitLengths(inflate) = LitLengths(finder) /\ DistLengths(inflate) = DistLengths(finder)
        BY DEF Together, LitLengths, DistLengths
      <3>2. \A d, e, l : ~BuildInto(d, l, TRUE).ok /\ BuildInto(e, l, FALSE).ok => ~Complete(l)
        BY StrictRefusal
      <3> QED BY <3>1, <3>2, Zenon
    <2> HIDE DEF il, id, fl, fd
    <2>3. PICK s : /\ s = IF inflate.status # "parsing" THEN inflate.status
                          ELSE IF inflate.lengths[EndOfBlock] # 0 /\ il.ok /\ id.ok THEN "done"
                          ELSE "invalid"
                   /\ Keeps(inflate, WithTables(inflate, il, id), s)
      BY <1>0, WithTablesParser, Zenon
    <2>4. PICK t : /\ t = IF finder.status # "parsing" THEN finder.status
                          ELSE IF finder.lengths[EndOfBlock] # 0 /\ fl.ok /\ fd.ok THEN "done"
                          ELSE "invalid"
                   /\ Keeps(finder, WithTables(finder, fl, fd), t)
      BY <1>0, WithTablesParser, Zenon
    <2>5. inflate'.status = s /\ inflate'.lengths = inflate.lengths /\ finder'.status = t
      BY <2>1, <2>3, <2>4 DEF Keeps
    <2>6. inflate.status \notin {"invalid", "eof"}
      BY <1>2, <2>3, <2>5
    <2>7. finder.status # "invalid"
      BY <1>3, <2>1, <2>6
    <2>8. finder.status = "parsing"
      BY <1>2, <2>4, <2>5, <2>7
    <2>9. inflate.status = "parsing" /\ Together
      BY <1>0, <2>1, <2>8 DEF HeaderInv
    <2>10. s = "done" /\ il.ok /\ id.ok /\ inflate.lengths[EndOfBlock] # 0
      BY <1>2, <2>3, <2>5, <2>9
    <2>11. ~fl.ok \/ ~fd.ok
      BY <1>2, <2>4, <2>5, <2>8, <2>9, <2>10 DEF Together
    <2>12. ~Complete(LitLengths(inflate)) \/ ~Complete(DistLengths(inflate))
      BY <2>2, <2>9, <2>10, <2>11
    <2>13. LitLengths(inflate') = LitLengths(inflate) /\ DistLengths(inflate') = DistLengths(inflate)
      BY <2>5 DEF LitLengths, DistLengths
    <2> QED BY <2>5, <2>10, <2>12, <2>13
  <1>7. ~\E bits, distBits \in Ahead, extraThere \in BOOLEAN :
            TrialDecode(bits, distBits, extraThere)
    BY DEF TrialDecode
  <1>8. CASE UNCHANGED vars
    BY <1>0, <1>2, <1>8 DEF vars, RefusesOnlyIncomplete
  <1> QED BY <1>4, <1>5, <1>6, <1>7, <1>8, Zenon DEF Next

\* Every step keeps RefusalInv.
LEMMA RefusalInvNext == RefusalInv /\ [Next]_vars => RefusalInv'
  <1> SUFFICES ASSUME RefusalInv, [Next]_vars PROVE RefusalInv'
    OBVIOUS
  <1>1. HeaderInv /\ HeaderInv'
    BY HeaderInvNext DEF RefusalInv
  <1>2. CASE phase \in {"start", "codes"}
    BY <1>1, <1>2, RefusalStep DEF RefusalInv
  <1>3. CASE phase \notin {"start", "codes"}
    <2>1. phase' \notin {"start", "codes"}
      BY <1>1, <1>3 DEF Next, vars, ReadPreCode, ReadCodeLength, BuildTables, TrialDecode,
                        Verdict, Counted
    <2>2. phase' = "trial" => finder'.status # "invalid"
      BY <1>1 DEF HeaderInv
    <2> QED BY <1>1, <2>1, <2>2 DEF RefusalInv, RefusesOnlyIncomplete
  <1> QED BY <1>2, <1>3

\* A step of the strict parser: what it refuses and inflate would parse has a
\* tree that is not complete.
RefusalOnlyIncomplete == phase \in {"start", "codes"} => RefusesOnlyIncomplete'

\* Before the trial, RefusesOnlyIncomplete for all alphabets and inputs: what the
\* strict parser refuses and inflate would parse has a tree that is not complete.
\* (That the trial does not refuse a block with complete trees either needs the
\* sums of powers of two in Kraft, which the provers know nothing about; TLC
\* checks it.)
THEOREM StrictParserRefusesOnlyIncomplete ==
    Spec => [][RefusalOnlyIncomplete]_vars
  <1>1. Init => RefusalInv
    <2> SUFFICES ASSUME Init PROVE RefusalInv
      OBVIOUS
    <2>1. HeaderInv /\ phase = "start"
      BY HeaderInvInit DEF Init
    <2>2. finder.status # "invalid"
      BY <2>1 DEF HeaderInv
    <2> QED BY <2>1, <2>2 DEF RefusalInv, RefusesOnlyIncomplete
  <1>2. RefusalInv /\ [Next]_vars => [RefusalOnlyIncomplete]_vars
    BY RefusalStep DEF RefusalOnlyIncomplete
  <1> QED BY <1>1, <1>2, RefusalInvNext, PTL DEF Spec
=============================================================================
