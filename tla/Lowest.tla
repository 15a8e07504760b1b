------------------------------- MODULE Lowest -------------------------------
(* Positions in lists: the first one of a set of them.                     *)
EXTENDS Integers

Lowest(S) == CHOOSE n \in S : \A m \in S : n <= m
=============================================================================
