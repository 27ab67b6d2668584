--------------------------- MODULE HuffmanDecoder ---------------------------
(***************************************************************************)
(* HuffmanDecoder: the decode table of the inflate kernels and of the block*)
(* finder.  Codes of at most LUT_BITS bits are in a table indexed by the   *)
(* next LUT_BITS bits of the stream, longer ones in a list that is searched*)
(* in order.  A decoder is rebuilt in place, so what an earlier block left *)
(* in it is an input of the construction.                                  *)
(*                                                                         *)
(* A reversed code, and an index of the table, is the sequence of its bits *)
(* from the lowest, which is the order of the stream.                      *)
(***************************************************************************)
EXTENDS CanonicalCode

NoEntry == Decoded(0, 0)

new_empty == [lut |-> [w \in BitStrings(LUT_BITS) |-> NoEntry], long_codes |-> <<>>]

\* Faulty variant: the list of long codes is not cleared.
ClearedLutOnly(d) == [new_empty EXCEPT !.long_codes = d.long_codes]

\* The decoder d when its construction begins.
Cleared(d) == new_empty

\* The counting sort: the i-th symbol in order of length, then of symbol.
SortedSym(lengths, i) == CHOOSE s \in Used(lengths) : Cardinality(Before(lengths, s)) = i - 1

\* The reversed code after rev: the carry runs from the bit of the code's
\* length downwards, and falls out at the end.
Successor(rev, len) ==
    LET carry == {i \in 1 .. len : \A j \in i .. len : rev[j] = 1}
    IN  [i \in DOMAIN rev |-> IF i \in carry THEN 0
                              ELSE IF i = len - Cardinality(carry) THEN 1 ELSE rev[i]]

\* The reversed codes of all symbols, in the order of SortedSym.
ReversedCodes(lengths) ==
    LET n == Cardinality(Used(lengths))
        rev[i \in 1 .. n] ==
            IF i = 1 THEN [b \in 1 .. MAX_CODE_LEN |-> 0]
            ELSE Successor(rev[i - 1], lengths[SortedSym(lengths, i - 1)])
    IN  [i \in 1 .. n |-> SubSeq(rev[i], 1, lengths[SortedSym(lengths, i)])]

\* Faulty variant: the longest codes are left out of the sum.
RefusedLongestUncounted(lengths, strict) ==
    LET kraft == Kraft([s \in DOMAIN lengths |->
                            IF lengths[s] = MAX_CODE_LEN THEN 0 ELSE lengths[s]])
    IN  Cardinality(Used(lengths)) >= 2 /\ (kraft > Full \/ (strict /\ kraft # Full))

\* Why a tree is refused; with fewer than two symbols it never is.
Refused(lengths, strict) ==
    \/ \E s \in DOMAIN lengths : lengths[s] > MAX_CODE_LEN
    \/ /\ Cardinality(Used(lengths)) >= 2
       /\ Kraft(lengths) > Full \/ (strict /\ Kraft(lengths) # Full)

\* build_into: every index that starts with a short code leads to its symbol;
\* a long code is appended to the list.  In the order of SortedSym the long
\* codes are the last ones.
BuildInto(d, lengths, strict) ==
    LET c == Cleared(d)
        rev == ReversedCodes(lengths)
        entry == [i \in DOMAIN rev |-> Decoded(SortedSym(lengths, i), Len(rev[i]))]
        Hits(w) == {i \in DOMAIN rev : Len(rev[i]) <= LUT_BITS /\ StartsWith(w, rev[i])}
        short == Cardinality({i \in DOMAIN rev : Len(rev[i]) <= LUT_BITS})
    IN  IF Refused(lengths, strict) THEN [ok |-> FALSE, table |-> c]
        ELSE [ok |-> TRUE,
              table |-> [lut |-> [w \in DOMAIN c.lut |-> IF Hits(w) = {} THEN c.lut[w]
                                                         ELSE entry[Max(Hits(w))]],
                         long_codes |-> c.long_codes \o
                             [i \in 1 .. Cardinality(Used(lengths)) - short |->
                                 [reversed |-> rev[short + i], entry |-> entry[short + i]]]]]

\* lookup_long: wants MAX_CODE_LEN bits, whatever the code's length.
LookupLong(d, bits) ==
    LET hits == {i \in DOMAIN d.long_codes : StartsWith(bits, d.long_codes[i].reversed)}
    IN  IF Len(bits) < MAX_CODE_LEN THEN Eof
        ELSE IF hits = {} THEN Invalid
        ELSE d.long_codes[Min(hits)].entry

\* lookup: wants LUT_BITS bits.
Lookup(d, bits) ==
    IF Len(bits) < LUT_BITS THEN Eof
    ELSE LET entry == d.lut[SubSeq(bits, 1, LUT_BITS)]
         IN  IF entry.len = 0 THEN LookupLong(d, bits) ELSE entry
=============================================================================
