------------------------------ MODULE MCReadGz ------------------------------
(***************************************************************************)
(* Three members: a compressed, a stored and a compressed block whose      *)
(* output is longer than the window and than the length field counts; two  *)
(* compressed blocks, of which the last ends at a byte; a member with      *)
(* empty output.  96 bytes, cut off after any byte, or whole with one      *)
(* defect.  None or the first two of the members are BGZF.  The boundaries *)
(* reported are the block starts and some false ones: inside blocks, at    *)
(* trailers, in trailers and in headers.  One library is told of no more   *)
(* room than two bytes, fewer than the second member decodes to.           *)
(***************************************************************************)
EXTENDS ReadGz, TLC

MCBlockBits == (0 :> 20) @@ (1 :> 52) @@ (2 :> 13) @@ (3 :> 22) @@ (4 :> 18) @@ (5 :> 10)
MCBlockOut == (0 :> 3) @@ (1 :> 2) @@ (2 :> 1) @@ (3 :> 2) @@ (4 :> 1) @@ (5 :> 0)
MCMemberEnds == {2, 4, 5}
MCEobBits == [k \in Blocks |-> CASE k = 3 -> 15 [] k = 4 -> 1 [] OTHER -> 7]
MCStoredBlocks == {1}

NoFault == [k \in Blocks |-> "none"]
Whole == MemberLimit(NumBlocks - 1)
Bgzfs == {{}, {0, 3}}
Cut == {[fault |-> NoFault, len |-> n, bgzf |-> b] : n \in 0 .. Whole, b \in Bgzfs}
OneDefect ==
    {[fault |-> [NoFault EXCEPT ![d[1]] = d[2]], len |-> Whole, bgzf |-> b] :
        d \in FirstBlocks \X {"header"} \cup Blocks \X {"deflate"}
              \cup MemberEnds \X {"crc", "isize"},
        b \in Bgzfs}
MCInputs == Cut \cup OneDefect

MCSetups ==
    {[source |-> "pipe", threads |-> 1, backend |-> FALSE, roomLimit |-> 8]}
    \cup [source : {"file"}, threads : {1, 2}, backend : BOOLEAN, roomLimit : {8}]
    \cup [source : {"file"}, threads : {2}, backend : {TRUE}, roomLimit : {2}]

MCHints ==
    {BlockStart[k] : k \in Blocks \ {0}}
    \cup {BlockStart[k] + 1 : k \in {1, 4}}
    \cup {8 * TrailerAt(k) : k \in MemberEnds}
    \cup {8 * TrailerAt(k) + 20 : k \in {2, 4}}
    \cup {8 * HeaderAt(k) + 30 : k \in FirstBlocks \ {0}}
=============================================================================
