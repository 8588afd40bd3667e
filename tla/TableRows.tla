------------------------------ MODULE TableRows ------------------------------
(***************************************************************************)
(* What a query of an append-only table returns.  SQLite gives the rows in *)
(* the order of their numbers, whether it is by ORDER BY or by rowid.      *)
(***************************************************************************)
EXTENDS Naturals, FiniteSets

\* The j-th of the numbers K: the one with j - 1 of them before it.
Nth(K, j) == CHOOSE n \in K : Cardinality({m \in K : m < n}) = j - 1

\* The rows of the table s with the numbers K.
Selected(s, K) == [j \in 1..Cardinality(K) |-> s[Nth(K, j)]]
=============================================================================
