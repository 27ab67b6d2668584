--------------------------- MODULE CanonicalCode ----------------------------
(***************************************************************************)
(* The canonical Huffman code of a function of code lengths, written from  *)
(* its definition: codes are handed out in order of length and then of     *)
(* symbol, each the successor of the one before.  A code is the sequence of*)
(* its bits in the order of the stream.  This is the reference the decode  *)
(* tables of the crate are checked against.                                *)
(***************************************************************************)
EXTENDS Integers, Sequences, FiniteSetsExt

CONSTANTS
    MAX_CODE_LEN,   \* longest code (15)
    LUT_BITS        \* index bits of the direct lookup tables (10 and 9)

ASSUME CanonicalCodeAssumption ==
    /\ MAX_CODE_LEN \in Nat \ {0}
    /\ LUT_BITS \in 1 .. MAX_CODE_LEN

Bit == {0, 1}
BitStrings(n) == [1 .. n -> Bit]

Used(lengths) == {s \in DOMAIN lengths : lengths[s] > 0}

\* The symbols whose code comes before that of s.
Before(lengths, s) ==
    {t \in Used(lengths) : \/ lengths[t] < lengths[s]
                           \/ lengths[t] = lengths[s] /\ t < s}

\* The code of s as a number, its first bit the most significant.
CodeValue(lengths, s) ==
    MapThenSumSet(LAMBDA t : 2 ^ (lengths[s] - lengths[t]), Before(lengths, s))

Code(lengths, s) ==
    [i \in 1 .. lengths[s] |-> (CodeValue(lengths, s) \div 2 ^ (lengths[s] - i)) % 2]

\* Sum of 2^-length in units of 2^-MAX_CODE_LEN.
Kraft(lengths) == MapThenSumSet(LAMBDA s : 2 ^ (MAX_CODE_LEN - lengths[s]), Used(lengths))
Full == 2 ^ MAX_CODE_LEN

\* Some code is a prefix of another, or the codes run out.
Oversubscribed(lengths) == Kraft(lengths) > Full

\* Every sequence of bits starts with a code.
Complete(lengths) == Kraft(lengths) = Full

StartsWith(bits, code) ==
    Len(code) <= Len(bits) /\ \A i \in 1 .. Len(code) : bits[i] = code[i]

-----------------------------------------------------------------------------
(* What decoding one symbol returns: the symbol and the bits it took, or an *)
(* error.                                                                   *)

Decoded(s, n) == [sym |-> s, len |-> n]
Eof == Decoded(-1, 0)
Invalid == Decoded(-2, 0)

\* The symbol at the start of bits, of which there may be less than a code.
Decode(lengths, bits) ==
    LET here == {s \in Used(lengths) : StartsWith(bits, Code(lengths, s))} IN
    IF here # {} THEN LET s == CHOOSE s \in here : TRUE IN Decoded(s, lengths[s])
    ELSE IF Len(bits) < MAX_CODE_LEN THEN Eof
    ELSE Invalid
=============================================================================
