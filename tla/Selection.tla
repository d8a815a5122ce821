------------------------------ MODULE Selection ------------------------------
(***************************************************************************)
(* What a list comprehension with a condition, or a WHERE clause, leaves   *)
(* of a list.  It is SelectSeq with a set for the condition, written       *)
(* without recursion because the theorems rest on it.                      *)
(***************************************************************************)
EXTENDS Naturals, Sequences, FiniteSets

UpToIn(at, i) == {j \in at : j <= i}

\* The number in at up to which, itself included, there are k.
Nth(at, k) == CHOOSE i \in at : Cardinality(UpToIn(at, i)) = k

\* The elements of s that are in T, in their order.
Only(s, T) ==
  LET at == {i \in DOMAIN s : s[i] \in T}
  IN  [k \in 1..Cardinality(at) |-> s[Nth(at, k)]]
==============================================================================
