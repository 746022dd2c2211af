----------------------------- MODULE Subsequences -----------------------------
(***************************************************************************)
(* Parts of a sequence, for queues that keep or drop some of their entries *)
(* (Vec::retain, filters, ORDER BY).                                       *)
(***************************************************************************)
EXTENDS Naturals, Sequences, FiniteSets

(* The entries of s at the positions in I, in their order.                 *)
Entries(s, I) ==
    LET Rank(i) == Cardinality({j \in I : j <= i})
    IN  [k \in 1..Cardinality(I) |-> s[CHOOSE i \in I : Rank(i) = k]]

===============================================================================
