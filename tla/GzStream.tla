------------------------------ MODULE GzStream ------------------------------
(***************************************************************************)
(* The input of a decode, as every decoder of the crate sees it: a deflate *)
(* body that is a row of deflate blocks, grouped into gzip members, whose  *)
(* bytes may be damaged.  The compressed bits and the decoded bytes are    *)
(* abstracted to what the decoders tell apart:                             *)
(*                                                                         *)
(*   - block k (0-based) starts at bit Bit(k); Bit(NumBlocks) is the end   *)
(*     of the input; Inside(k) stands for any other bit of block k, or of  *)
(*     the trailer and header that follow it: a start there is a false     *)
(*     block boundary;                                                     *)
(*   - the decoded bytes of block k are the value k, and Corrupt stands    *)
(*     for decoded bytes that are not the right ones;                      *)
(*   - fault[k] is what is wrong with block k or with the trailer and      *)
(*     header after it ("none" for a healthy block).                       *)
(*                                                                         *)
(* The file does not change during a decode: fault is chosen once.         *)
(***************************************************************************)
EXTENDS Integers, Sequences, FiniteSets

CONSTANTS
    NumBlocks,     \* number of deflate blocks in the input
    MemberEnds,    \* the blocks with BFINAL set: each ends a gzip member
    Window,        \* length of the LZ77 window, in blocks (32 KiB in the code)
    InputFaults    \* the damage considered: the functions fault may be

VARIABLE fault     \* fault[k]: what is wrong with block k of this input

Blocks == 0 .. NumBlocks - 1
Corrupt == -1
Value == Blocks \cup {Corrupt}

(***************************************************************************)
(* "decode": the block, or the header after its trailer, does not decode,  *)
(* or the input ends inside it.  "resolve": a back-reference reaches       *)
(* before the first byte of the output, which a speculative decode can     *)
(* only see when its markers are resolved.  "crc", "isize": the trailer    *)
(* after the block disagrees with the member.                              *)
(***************************************************************************)
FaultKind == {"decode", "resolve", "crc", "isize"}

(***************************************************************************)
(* Only a block that ends a member has a trailer, only the first member    *)
(* can reach before the start of the output, and an input that does not    *)
(* end with a complete member fails to decode in its last block.           *)
(***************************************************************************)
PossibleFault(f) ==
    /\ f \in [Blocks -> FaultKind \cup {"none"}]
    /\ \A k \in Blocks :
          /\ f[k] \in {"crc", "isize"} => k \in MemberEnds
          /\ f[k] = "resolve" => \A m \in MemberEnds : m >= k
    /\ NumBlocks - 1 \notin MemberEnds => f[NumBlocks - 1] = "decode"

ASSUME StreamAssumption ==
    /\ NumBlocks \in Nat \ {0}
    /\ MemberEnds \subseteq Blocks
    /\ Window \in Nat \ {0}
    /\ \A f \in InputFaults : PossibleFault(f)

-----------------------------------------------------------------------------
(* Bit positions. *)

Bit(k) == 2 * k
Inside(k) == 2 * k + 1
EndOfInput == Bit(NumBlocks)
NoHint == EndOfInput + 1        \* u64::MAX: past every position
FalseStarts == {Inside(k) : k \in Blocks}
Position == 0 .. NoHint

-----------------------------------------------------------------------------
(* Decoded bytes. *)

\* The bytes of blocks lo .. hi-1, in order.
Bytes(lo, hi) == [i \in 1 .. (hi - lo) |-> lo + i - 1]

\* The window a decoder needs at block k: the last Window blocks before it.
WindowAt(k) == Bytes(IF k > Window THEN k - Window ELSE 0, k)

\* The first block of the member that block k belongs to.
MemberStart(k) ==
    CHOOSE s \in 0 .. k :
        /\ s = 0 \/ s - 1 \in MemberEnds
        /\ \A j \in s .. k - 1 : j \notin MemberEnds

\* The whole healthy output.
TrueOutput == Bytes(0, NumBlocks)

Healthy == \A k \in Blocks : fault[k] = "none"
=============================================================================
