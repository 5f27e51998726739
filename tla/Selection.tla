------------------------------ MODULE Selection ------------------------------
(***************************************************************************)
(* Array.filter and slice: some of a sequence, in its order.  (SelectSeq   *)
(* does the first, too, by a recursion that proofs cannot take apart.)     *)
(***************************************************************************)
EXTENDS Integers, Sequences, FiniteSets

Fewer(a, b) == IF a < b THEN a ELSE b

\* The place of i in the order of the numbers of S.
Rank(i, S) == Cardinality({j \in S : j <= i})

\* What stands at the places at.
Pick(seq, at) == [n \in 1..Cardinality(at) |-> seq[CHOOSE i \in at : Rank(i, at) = n]]

Select(seq, set) == Pick(seq, {i \in DOMAIN seq : seq[i] \in set})

Page(seq, offset, n) == SubSeq(seq, offset + 1, Fewer(offset + n, Len(seq)))
=============================================================================
