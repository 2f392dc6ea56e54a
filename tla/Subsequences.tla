---------------------------- MODULE Subsequences ----------------------------
(***************************************************************************)
(* Sequences without some of their elements: what is left of a list when   *)
(* a loop of the program skips some of it.  This is SelectSeq with a set   *)
(* in place of a test, as a recursive function, so that                    *)
(* SubsequencesProofs.tla can prove what it yields.                        *)
(***************************************************************************)
EXTENDS Naturals, Sequences

\* The elements of s that are in K, in their order.
Kept(s, K) ==
    LET kept[k \in 0..Len(s)] ==
            IF k = 0 THEN <<>>
            ELSE IF s[k] \in K THEN Append(kept[k - 1], s[k])
            ELSE kept[k - 1]
    IN  kept[Len(s)]

\* The elements of s.
Elements(s) == {s[k] : k \in DOMAIN s}
=============================================================================
