-------------------------------- MODULE Lists --------------------------------
(***************************************************************************)
(* Lists of numbered things, as the web client keeps them.  The sequences  *)
(* are given by what is in them and by recursive functions, which can be   *)
(* reasoned about, and not by an operator to compare or to filter with.    *)
(***************************************************************************)
EXTENDS Naturals, Sequences, FiniteSets

\* A set of numbers in ascending order, the ORDER BY of a query.
Sorted(S) == CHOOSE seq \in [1 .. Cardinality(S) -> S] :
               \A i, j \in DOMAIN seq : i < j => seq[i] < seq[j]

\* filter: the list without the elements of a set.
Without(seq, S) ==
  LET left[i \in 0 .. Len(seq)] == IF i = 0 THEN <<>>
                                   ELSE IF seq[i] \in S THEN left[i - 1]
                                   ELSE Append(left[i - 1], seq[i])
  IN left[Len(seq)]
=============================================================================
