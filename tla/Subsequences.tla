---------------------------- MODULE Subsequences ----------------------------
(***************************************************************************)
(* Finite sets of numbers in order, and the elements of a sequence at some *)
(* of its positions: what a list comprehension with a condition leaves.    *)
(*                                                                         *)
(* SelectSeq and the sorts of the community modules take an operator, and  *)
(* nothing is known of them to a proof; these take a set.                  *)
(***************************************************************************)
EXTENDS Integers, Sequences, FiniteSets

(* The numbers of S, in order. *)
Ascending(S) ==
    [i \in 1..Cardinality(S) |-> CHOOSE t \in S : Cardinality({u \in S : u < t}) = i - 1]

(* The elements of s at the positions in I, in the order of s. *)
Picked(s, I) ==
    LET at == Ascending(I)
    IN  [k \in 1..Cardinality(I) |-> s[at[k]]]

(* The natural numbers of s in order.  A key is a number with its position. *)
Sorted(s) ==
    LET n == Len(s) + 1
        keys == Ascending({s[i] * n + i : i \in DOMAIN s})
    IN  [k \in DOMAIN s |-> keys[k] \div n]
=============================================================================
