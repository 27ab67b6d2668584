--------------------------- MODULE DynamicHeader ----------------------------
(***************************************************************************)
(* The header of a dynamic block, read by the three parsers of the crate:  *)
(* inflate's read_dynamic_header, the block finder's strict version of it, *)
(* whose tables are kept from candidate to candidate, and the safe         *)
(* inflater's.  They are given the same bits, chosen as they are read; the *)
(* finder then decodes a few symbols of the body.                          *)
(*                                                                         *)
(* Alphabets and code lengths are scaled down; the numbers keep their      *)
(* order.  The code-length symbols are the lengths 0 .. MAX_CODE_LEN and,  *)
(* after them, copy the previous length, a few zeros, many zeros           *)
(* (16, 17, 18 in the code).                                               *)
(***************************************************************************)
EXTENDS HuffmanDecoder, SafeHuffman

CONSTANTS
    LitSizes,       \* values of HLIT + 257
    DistSizes,      \* values of HDIST + 1
    MaxLit,         \* 286
    MaxDist,        \* 30
    EndOfBlock,     \* 256
    RunBase,        \* shortest run of each of the three run symbols (3, 3, 11)
    ExtraMax,       \* largest value of the extra bits of a run
    TrialSymbols,   \* TRIAL_SYMBOLS (64)
    PreCodes,       \* the code lengths of the code-length symbols considered
    EarlierCodes    \* code lengths of which tables may be left in SCAN_POOL

CopyPrevious == MAX_CODE_LEN + 1
ClSymbols == 0 .. MAX_CODE_LEN + 3

ASSUME DynamicHeaderAssumption ==
    /\ MaxLit \in Nat /\ MaxDist \in Nat /\ MaxLit <= MaxSymbols
    /\ MAX_CODE_LEN + 4 <= MaxLit + MaxDist
    /\ EndOfBlock \in Nat /\ LitSizes \subseteq Nat /\ \A n \in LitSizes : n > EndOfBlock
    /\ DistSizes \subseteq Nat \ {0}
    /\ RunBase \in [CopyPrevious .. MAX_CODE_LEN + 3 -> Nat \ {0}]
    /\ ExtraMax \in Nat /\ TrialSymbols \in Nat \ {0}
    /\ PreCodes \subseteq [ClSymbols -> 0 .. MAX_CODE_LEN]
    /\ \A c \in EarlierCodes : c \in [ClSymbols -> 0 .. MAX_CODE_LEN] /\ Complete(c)

VARIABLES
    shape,          \* hlit, hdist and the lengths of the code-length codes
    phase,          \* "start", "codes", "trial" or "end"
    inflate,        \* state of each parser
    finder,
    safe,
    trial           \* symbols the finder has decoded of the body

vars == <<shape, phase, inflate, finder, safe, trial>>

total == shape.hlit + shape.hdist

\* A parser: what it returned so far, its place and the code lengths, and its
\* tables.  The safe parser has one table for the code lengths and literals.
Parser(lengths, cl, lit, dist) ==
    [status |-> "parsing", i |-> 0, lengths |-> lengths, cl |-> cl, lit |-> lit, dist |-> dist]

Stopped(p, status) == [p EXCEPT !.status = status]
Parsing(p) == p.status = "parsing"
Zeros(n) == [i \in 0 .. n - 1 |-> 0]

Init ==
    /\ shape \in [hlit : LitSizes, hdist : DistSizes, pre : PreCodes]
    /\ phase = "start" /\ trial = 0
    /\ inflate = Parser(Zeros(total), new_empty, new_empty, new_empty)
    /\ \/ finder = Parser(Zeros(total), new_empty, new_empty, new_empty)
       \/ \E c \in EarlierCodes :
             LET old == BuildInto(new_empty, c, TRUE).table
             IN  finder = Parser([i \in 0 .. total - 1 |-> IF i \in DOMAIN c THEN c[i] ELSE 0],
                                 old, old, old)
    /\ safe = Parser(Zeros(MaxLit + MaxDist), SafeEmpty, SafeEmpty, SafeEmpty)

-----------------------------------------------------------------------------
(* The code-length code. *)

\* Result b of a table construction becomes the table cl of p.
WithCl(p, b) ==
    [p EXCEPT !.cl = b.table, !.status = IF b.ok THEN "parsing" ELSE "invalid"]

\* The safe parser reads the code-length code into the array that is going to
\* hold the code lengths.
SafePre(lengths) == [i \in DOMAIN lengths |-> IF i \in ClSymbols THEN shape.pre[i] ELSE lengths[i]]

\* Faulty variant: the code lengths of the last candidate are kept.
FinderKeepsLengths(lengths) == lengths

\* The finder clears the code lengths of the last candidate.
FinderLengths(lengths) == Zeros(total)

\* The sizes and the code-length code.
ReadPreCode ==
    /\ phase = "start"
    /\ IF shape.hlit > MaxLit \/ shape.hdist > MaxDist
       THEN /\ phase' = "end"
            /\ inflate' = Stopped(inflate, "invalid")
            /\ finder' = Stopped(finder, "invalid")
            /\ safe' = Stopped(safe, "invalid")
       ELSE /\ phase' = "codes"
            /\ inflate' = WithCl(inflate, BuildInto(inflate.cl, shape.pre, FALSE))
            /\ finder' = WithCl([finder EXCEPT !.lengths = FinderLengths(finder.lengths)],
                                BuildInto(finder.cl, shape.pre, TRUE))
            /\ LET lengths == SafePre(safe.lengths)
               IN  safe' = WithCl([safe EXCEPT !.lengths = lengths],
                                  Construct(safe.cl, lengths, MAX_CODE_LEN + 4))
    /\ UNCHANGED <<shape, trial>>

-----------------------------------------------------------------------------
(* The code lengths. *)

\* p after n code lengths of the given value; the array is not written when
\* the value is known to be there.
Written(p, n, value, write) ==
    [p EXCEPT !.i = p.i + n,
              !.lengths = [j \in DOMAIN p.lengths |->
                  IF write /\ j \in p.i .. p.i + n - 1 THEN value ELSE p.lengths[j]]]

\* Faulty variant: the safe parser skips zeros like the others.
SafeSkipsZeros == FALSE

\* The arrays of inflate and of the finder start as zeros, that of the safe
\* parser with the code-length code: it writes the zeros.
SafeWritesZeros == TRUE

\* Faulty variant: a run may end one past the end.
OverrunsLate(i, n) == i + n > total + 1

Overruns(i, n) == i + n > total

\* p after symbol d of the code-length code, with extra bits of value extra
\* (-1: the input ends before them).
AfterSymbol(p, d, extra, writesZeros) ==
    LET n == RunBase[d.sym] + extra IN
    IF d = Eof THEN Stopped(p, "eof")
    ELSE IF d = Invalid THEN Stopped(p, "invalid")
    ELSE IF d.sym <= MAX_CODE_LEN THEN Written(p, 1, d.sym, TRUE)
    ELSE IF d.sym = CopyPrevious /\ p.i = 0 THEN Stopped(p, "invalid")
    ELSE IF extra < 0 THEN Stopped(p, "eof")
    ELSE IF Overruns(p.i, n) THEN Stopped(p, "invalid")
    ELSE IF d.sym = CopyPrevious THEN Written(p, n, p.lengths[p.i - 1], TRUE)
    ELSE Written(p, n, 0, writesZeros)

Reads(p) == Parsing(p) /\ p.i < total

\* Each parser that has not stopped decodes the symbol at bits, the rest of
\* the input or as much of it as a code may take.
ReadCodeLength(bits, have, extra) ==
    /\ phase = "codes"
    /\ Reads(inflate) \/ Reads(finder) \/ Reads(safe)
    /\ inflate' = IF ~Reads(inflate) THEN inflate
                  ELSE AfterSymbol(inflate, Lookup(inflate.cl, bits), extra, FALSE)
    /\ finder' = IF ~Reads(finder) THEN finder
                 ELSE AfterSymbol(finder, Lookup(finder.cl, bits), extra, FALSE)
    /\ safe' = IF ~Reads(safe) THEN safe
               ELSE AfterSymbol(safe, SafeDecode(safe.cl, bits, have), extra, SafeWritesZeros)
    /\ UNCHANGED <<shape, phase, trial>>

-----------------------------------------------------------------------------
(* The tables. *)

LitLengths(p) == [s \in 0 .. shape.hlit - 1 |-> p.lengths[s]]
DistLengths(p) == [s \in 0 .. shape.hdist - 1 |-> p.lengths[shape.hlit + s]]

\* p after the constructions lit and dist.  The second is not made when the
\* first fails.
WithTables(p, lit, dist) ==
    IF ~Parsing(p) THEN p
    ELSE IF p.lengths[EndOfBlock] = 0 THEN Stopped(p, "invalid")
    ELSE IF ~lit.ok THEN Stopped([p EXCEPT !.lit = lit.table], "invalid")
    ELSE IF ~dist.ok THEN Stopped([p EXCEPT !.lit = lit.table, !.dist = dist.table], "invalid")
    ELSE Stopped([p EXCEPT !.lit = lit.table, !.dist = dist.table], "done")

BuildTables ==
    /\ phase = "codes"
    /\ ~Reads(inflate) /\ ~Reads(finder) /\ ~Reads(safe)
    /\ inflate' = WithTables(inflate, BuildInto(inflate.lit, LitLengths(inflate), FALSE),
                                      BuildInto(inflate.dist, DistLengths(inflate), FALSE))
    /\ finder' = WithTables(finder, BuildInto(finder.lit, LitLengths(finder), TRUE),
                                    BuildInto(finder.dist, DistLengths(finder), TRUE))
    /\ safe' = WithTables(safe, Construct(safe.cl, LitLengths(safe), shape.hlit),
                                Construct(safe.dist, DistLengths(safe), shape.hdist))
    /\ phase' = IF finder'.status = "done" THEN "trial" ELSE "end"
    /\ UNCHANGED <<shape, trial>>

-----------------------------------------------------------------------------
(* The finder's trial. *)

Verdict(status) ==
    /\ finder' = Stopped(finder, status)
    /\ phase' = "end"
    /\ UNCHANGED trial

Counted ==
    IF trial + 1 = TrialSymbols THEN Verdict("verified")
    ELSE trial' = trial + 1 /\ UNCHANGED <<finder, phase>>

\* One round of trial_decode: a symbol and, for a length, its extra bits
\* (unless the input ends) and a distance.
TrialDecode(bits, distBits, extraThere) ==
    LET d == Lookup(finder.lit, bits)
        dist == Lookup(finder.dist, distBits)
    IN
    /\ phase = "trial"
    /\ \/ d = Eof /\ Verdict("eof")
       \/ d = Invalid /\ Verdict("invalid")
       \/ d.sym \in 0 .. EndOfBlock - 1 /\ Counted
       \/ d.sym = EndOfBlock /\ Verdict("verified")
       \/ /\ d.sym > EndOfBlock
          /\ \/ ~extraThere /\ Verdict("eof")
             \/ extraThere /\ dist = Eof /\ Verdict("eof")
             \/ extraThere /\ dist = Invalid /\ Verdict("invalid")
             \/ extraThere /\ dist.sym >= 0 /\ Counted
    /\ UNCHANGED <<shape, inflate, safe>>

\* The input ahead, to the length of a code.
Ahead == UNION {BitStrings(n) : n \in 0 .. MAX_CODE_LEN}

Next ==
    \/ ReadPreCode
    \/ \E bits \in Ahead : \E have \in {0, Len(bits)}, extra \in -1 .. ExtraMax :
          ReadCodeLength(bits, have, extra)
    \/ BuildTables
    \/ \E bits, distBits \in Ahead, extraThere \in BOOLEAN : TrialDecode(bits, distBits, extraThere)

Spec == Init /\ [][Next]_vars

-----------------------------------------------------------------------------
(* Properties. *)

HeaderTypeOK ==
    /\ shape \in [hlit : LitSizes, hdist : DistSizes, pre : PreCodes]
    /\ phase \in {"start", "codes", "trial", "end"}
    /\ trial \in 0 .. TrialSymbols - 1
    /\ \A p \in {inflate, finder} :
          /\ p.status \in {"parsing", "done", "invalid", "eof", "verified"}
          /\ p.i \in 0 .. total
          /\ p.lengths \in [0 .. total - 1 -> 0 .. MAX_CODE_LEN]

\* Decoder d decodes the canonical code of lengths, and may only ask for more
\* input than it needs near the end.
LooksUp(d, lengths) ==
    \A bits \in Ahead :
        \/ Lookup(d, bits) = Decode(lengths, bits)
        \/ Lookup(d, bits) = Eof /\ Len(bits) < MAX_CODE_LEN

\* The same of the safe tables, which never ask for too much.
SafeLooksUp(h, lengths) ==
    \A bits \in Ahead : \A have \in {0, Len(bits)} :
        SafeDecode(h, bits, have) = Decode(lengths, bits)

\* Every table decodes exactly the canonical prefix code of its lengths,
\* whatever an earlier block, or the code-length code, left in it.
TablesCanonical ==
    /\ phase = "codes" =>
          /\ Reads(inflate) /\ inflate.i = 0 => LooksUp(inflate.cl, shape.pre)
          /\ Reads(finder) /\ finder.i = 0 => LooksUp(finder.cl, shape.pre)
          /\ Reads(safe) /\ safe.i = 0 => SafeLooksUp(safe.cl, shape.pre)
    /\ inflate.status = "done" =>
          LooksUp(inflate.lit, LitLengths(inflate)) /\ LooksUp(inflate.dist, DistLengths(inflate))
    /\ finder.status \in {"done", "verified"} =>
          LooksUp(finder.lit, LitLengths(finder)) /\ LooksUp(finder.dist, DistLengths(finder))
    /\ safe.status = "done" =>
          SafeLooksUp(safe.lit, LitLengths(safe)) /\ SafeLooksUp(safe.dist, DistLengths(safe))

Shorter(p, q) == IF p.i < q.i THEN p.i ELSE q.i

\* The safe parser and inflate read the same code lengths and accept the same
\* headers; at the end of the input the safe parser may get further.
SafeAgrees ==
    /\ \A j \in 0 .. Shorter(inflate, safe) - 1 : inflate.lengths[j] = safe.lengths[j]
    /\ inflate.status = safe.status \/ inflate.status = "eof"

\* What the doc comment of find_next_dynamic_block promises: where the strict
\* parser gets through, so does inflate, with the same code lengths.
VerifiedIsParsed ==
    finder.status \in {"parsing", "done", "verified"} =>
        /\ inflate.status \in {"parsing", "done"} /\ inflate.i = finder.i
        /\ \A j \in 0 .. finder.i - 1 : inflate.lengths[j] = finder.lengths[j]

\* The finder refuses a header that inflate parses only for a tree that is not
\* complete, which encoders do not write (a single code apart).
RefusesOnlyIncomplete ==
    finder.status = "invalid" =>
        \/ inflate.status \in {"invalid", "eof"}
        \/ ~Complete(shape.pre)
        \/ inflate.status = "done" /\ \E lengths \in {LitLengths(inflate), DistLengths(inflate)} :
                                          ~Complete(lengths)
=============================================================================
