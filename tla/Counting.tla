------------------------------ MODULE Counting ------------------------------
(***************************************************************************)
(* What the code adds up or sorts, said by counting, so that a proof can   *)
(* reason about it with the cardinality of sets: a SUM() over rows as the  *)
(* number of its units, a sorted list by the number of elements before     *)
(* each.                                                                   *)
(***************************************************************************)
EXTENDS Integers, FiniteSets

\* A unit of its own for each of the f[x] units of an element x of S.
Units(f, S) == UNION { {x} \X (1..f[x]) : x \in S }

Total(f, S) == Cardinality(Units(f, S))

\* The elements of S before x in the strict order R, a set of pairs.
Rank(x, S, R) == Cardinality({ y \in S : <<y, x>> \in R })

\* The elements of S in the order R.
Ranked(S, R) == [n \in 1..Cardinality(S) |-> CHOOSE x \in S : Rank(x, S, R) = n - 1]

=============================================================================
