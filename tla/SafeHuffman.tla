---------------------------- MODULE SafeHuffman -----------------------------
(***************************************************************************)
(* The Huffman tables of the pure-safe inflater: counts per length and the *)
(* symbols in canonical order, walked bit by bit, with a lookup table in   *)
(* front.  A table is rebuilt in place for the second and third alphabet.  *)
(*                                                                         *)
(* Codes are numbers here, as in the code: the code of a length starts from*)
(* count[0], the number of unused symbols, whose bits lie above the code   *)
(* and must be lost in reverse_bits.                                       *)
(***************************************************************************)
EXTENDS CanonicalCode

CONSTANTS
    RevHalf,        \* half the width of reverse_bits (8)
    MaxSymbols      \* size of the symbol array (286)

ASSUME SafeHuffmanAssumption ==
    /\ RevHalf \in Nat \ {0} /\ LUT_BITS <= 2 * RevHalf
    /\ MaxSymbols \in Nat \ {0}

LutIndex == 0 .. 2 ^ LUT_BITS - 1
SafeNoEntry == Decoded(0, 0)

SafeEmpty == [count |-> [l \in 0 .. MAX_CODE_LEN |-> 0],
              symbol |-> [i \in 0 .. MaxSymbols - 1 |-> 0],
              lut |-> [i \in LutIndex |-> SafeNoEntry]]

\* x with its low n bits in reverse order.
Reversed(x, n) ==
    MapThenSumSet(LAMBDA i : ((x \div 2 ^ i) % 2) * 2 ^ (n - 1 - i), 0 .. n - 1)

\* reverse_bits: each half is reversed, then the halves change places in a
\* word that is wider than both, so that the upper half also stays above.
reverse_bits(code, bits) ==
    LET lo == Reversed(code % 2 ^ RevHalf, RevHalf)
        hi == Reversed((code \div 2 ^ RevHalf) % 2 ^ RevHalf, RevHalf)
    IN  (hi * 2 ^ (2 * RevHalf) + lo * 2 ^ RevHalf + hi) \div 2 ^ (2 * RevHalf - bits)

\* construct for the first n of lengths.  With no code at all it returns
\* before it looks at anything else.
Construct(h, lengths, n) ==
    LET syms == 0 .. n - 1
        count == [l \in 0 .. MAX_CODE_LEN |-> Cardinality({s \in syms : lengths[s] = l})]
        left[l \in 0 .. MAX_CODE_LEN] == IF l = 0 THEN 1 ELSE 2 * left[l - 1] - count[l]
        offs[l \in 1 .. MAX_CODE_LEN] == IF l = 1 THEN 0 ELSE offs[l - 1] + count[l - 1]
        nextCode[l \in 0 .. MAX_CODE_LEN] ==
            IF l = 0 THEN 0 ELSE 2 * (nextCode[l - 1] + count[l - 1])
        Rank(s) == Cardinality({t \in 0 .. s - 1 : lengths[t] = lengths[s]})
        used == {s \in syms : lengths[s] # 0}
        base == [s \in {u \in used : lengths[u] <= LUT_BITS} |->
                    reverse_bits(nextCode[lengths[s]] + Rank(s), lengths[s])]
        Fills(i) == {s \in DOMAIN base : i >= base[s] /\ (i - base[s]) % 2 ^ lengths[s] = 0}
        At(i) == {s \in used : offs[lengths[s]] + Rank(s) = i}
        cleared == [h EXCEPT !.count = count, !.lut = SafeEmpty.lut]
    IN  IF count[0] = n THEN [ok |-> TRUE, table |-> cleared]
        ELSE IF \E l \in 1 .. MAX_CODE_LEN : left[l] < 0 THEN [ok |-> FALSE, table |-> cleared]
        ELSE [ok |-> TRUE,
              table |-> [count |-> count,
                         symbol |-> [i \in DOMAIN h.symbol |->
                             IF At(i) = {} THEN h.symbol[i] ELSE Max(At(i))],
                         lut |-> [i \in LutIndex |->
                             IF Fills(i) = {} THEN SafeNoEntry
                             ELSE Decoded(Max(Fills(i)), lengths[Max(Fills(i))])]]]

\* The first code of each length and where its symbol is.
Walk(h) ==
    LET first[l \in 1 .. MAX_CODE_LEN] == IF l = 1 THEN 0 ELSE 2 * (first[l - 1] + h.count[l - 1])
        index[l \in 1 .. MAX_CODE_LEN] == IF l = 1 THEN 0 ELSE index[l - 1] + h.count[l - 1]
    IN  [l \in 1 .. MAX_CODE_LEN |-> [first |-> first[l], index |-> index[l]]]

\* decode_short: one bit after the other, until the code is below the first
\* code that is longer.
DecodeShort(h, bits) ==
    LET walk == Walk(h)
        code[l \in 0 .. Len(bits)] == IF l = 0 THEN 0 ELSE 2 * code[l - 1] + bits[l]
        stops == {l \in 1 .. Len(bits) : code[l] < walk[l].first + h.count[l]}
        l == Min(stops)
    IN  IF stops # {} THEN Decoded(h.symbol[walk[l].index + code[l] - walk[l].first], l)
        ELSE IF Len(bits) < MAX_CODE_LEN THEN Eof
        ELSE Invalid

\* decode, with the first have bits in the buffer: the lookup table if they
\* suffice for an index, otherwise, or on a miss, the walk.
SafeDecode(h, bits, have) ==
    LET index == MapThenSumSet(LAMBDA i : bits[i] * 2 ^ (i - 1), 1 .. LUT_BITS)
    IN  IF have >= LUT_BITS /\ h.lut[index].len # 0 THEN h.lut[index]
        ELSE DecodeShort(h, bits)
=============================================================================
