------------------------------- MODULE Selection -------------------------------
(***************************************************************************)
(* The elements of a sequence that belong to a set, in their order: what   *)
(* `filter' makes of an array.  It is what SelectSeq of the module         *)
(* Sequences gives, without recursion, so that its value can be reasoned   *)
(* about.                                                                  *)
(***************************************************************************)
EXTENDS Naturals, FiniteSets, Sequences

Positions(s, S) == {i \in DOMAIN s : s[i] \in S}

\* The k-th element is at the position up to which there are k.
Filtered(s, S) ==
    LET P == Positions(s, S)
    IN  [k \in 1..Cardinality(P) |->
            s[CHOOSE i \in P : Cardinality(P \cap 1..i) = k]]
=============================================================================
