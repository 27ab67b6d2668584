---------------------------- MODULE BlockFinder -----------------------------
(***************************************************************************)
(* find_next_dynamic_block: the scan for the next dynamic block.  At each  *)
(* position 13 bits are looked up in NEXT_LUT, which says how many bits to *)
(* go on; at 0 the full header is verified there.                          *)
(*                                                                         *)
(* The widths are those of the code.  Verification is an oracle: starts is *)
(* the set of positions whose header parses and whose body can be decoded  *)
(* (DynamicHeader has the parser).                                         *)
(***************************************************************************)
EXTENDS Integers

CONSTANTS
    TotalBits,      \* length of the data in bits; the scan goes to its end
    DataSet         \* the data considered: functions from positions to bits

LUT_BITS == 13
Bit == {0, 1}
Position == 0 .. TotalBits - 1

VARIABLES
    data,
    starts,         \* where verify_candidate succeeds
    from,           \* from_bit
    pos,
    probed,         \* the positions looked up so far
    returned        \* the scan has returned: pos if that is a start, else None

vars == <<data, starts, from, pos, probed, returned>>

-----------------------------------------------------------------------------
\* A five-bit number of the header.
Field(bits, lo) ==
    bits[lo] + 2 * bits[lo + 1] + 4 * bits[lo + 2] + 8 * bits[lo + 3] + 16 * bits[lo + 4]

\* BFINAL = 0, BTYPE = 2, HLIT and HDIST in range.
is_dynamic_candidate(bits) ==
    /\ bits[0] = 0
    /\ bits[1] = 0 /\ bits[2] = 1
    /\ Field(bits, 3) <= 29
    /\ Field(bits, 8) <= 29

\* The 13 bits at p.
Window(p) == [i \in 0 .. LUT_BITS - 1 |-> data[p + i]]

\* A window shifted right: zeros come in from above.
ShiftRight(bits, n) ==
    [i \in 0 .. LUT_BITS - 1 |-> IF i + n < LUT_BITS THEN bits[i + n] ELSE 0]

\* The shifts at which a window looks like the start of a block.
Matches(bits) == {n \in 0 .. LUT_BITS - 1 : is_dynamic_candidate(ShiftRight(bits, n))}

\* NEXT_LUT: the first of them, or past the window.
NextLut(bits) ==
    IF Matches(bits) = {} THEN LUT_BITS
    ELSE CHOOSE n \in Matches(bits) : \A k \in Matches(bits) : n <= k

Init ==
    /\ data \in DataSet
    /\ from \in Position
    /\ starts \in SUBSET {p \in Position : p + LUT_BITS <= TotalBits /\ is_dynamic_candidate(Window(p))}
    /\ pos = from /\ probed = {} /\ returned = FALSE

\* One pass of the loop: verify here, or go on.
Probe ==
    LET step == NextLut(Window(pos)) IN
    /\ ~returned
    /\ pos + LUT_BITS <= TotalBits
    /\ probed' = probed \cup {pos}
    /\ \/ step = 0 /\ pos \in starts /\ returned' = TRUE /\ UNCHANGED pos
       \/ step = 0 /\ pos \notin starts /\ pos' = pos + 1 /\ UNCHANGED returned
       \/ step > 0 /\ pos' = pos + step /\ UNCHANGED returned
    /\ UNCHANGED <<data, starts, from>>

ReturnNone ==
    /\ ~returned
    /\ pos + LUT_BITS > TotalBits
    /\ returned' = TRUE
    /\ UNCHANGED <<data, starts, from, pos, probed>>

Next == Probe \/ ReturnNone

Spec == Init /\ [][Next]_vars

-----------------------------------------------------------------------------
(* Properties. *)

\* What the doc comment of find_next_dynamic_block says: the scan returns the
\* next block at or after from_bit, None only if there is none.  It does not
\* hold: NEXT_LUT cannot recognise a block whose BTYPE is not inside the
\* window, and skips the last two positions with the rest.
FindsNextBlock ==
    returned => \A s \in starts : s >= from => pos <= s

\* What does hold: a start is passed over only when it lies one or two bits
\* before a position the scan jumps to from thirteen bits before it.
MissesOnlyBeforeJump ==
    \A s \in starts :
        from <= s /\ s < pos => \E p \in probed : s \in {p + 11, p + 12} /\ p + LUT_BITS <= pos

=============================================================================
