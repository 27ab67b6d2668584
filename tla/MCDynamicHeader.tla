-------------------------- MODULE MCDynamicHeader ---------------------------
(***************************************************************************)
(* Codes of up to three bits, two of them in the lookup tables; one literal*)
(* before the end-of-block symbol and up to two length symbols after it.   *)
(* The code-length codes: all seven symbols, short codes only, incomplete, *)
(* a single code, none, oversubscribed.                                    *)
(***************************************************************************)
EXTENDS DynamicHeader, TLC

MCRunBase == (4 :> 2) @@ (5 :> 2) @@ (6 :> 4)

Lengths(s) == [i \in ClSymbols |-> s[i + 1]]

MCPreCodes ==
    {Lengths(<<3, 3, 3, 3, 2, 3, 3>>), Lengths(<<0, 2, 1, 0, 2, 0, 0>>),
     Lengths(<<0, 2, 0, 3, 0, 2, 0>>), Lengths(<<0, 1, 0, 0, 0, 0, 0>>),
     Lengths(<<0, 0, 0, 0, 0, 0, 0>>), Lengths(<<2, 1, 1, 0, 3, 0, 0>>)}

MCEarlierCodes == {Lengths(<<3, 1, 3, 2, 0, 0, 0>>)}
=============================================================================
