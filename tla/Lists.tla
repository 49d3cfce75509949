-------------------------------- MODULE Lists --------------------------------
(***************************************************************************)
(* A list comprehension with a condition, [x for x in q if x in S], and    *)
(* sum(q), as recursive functions: proofs cannot look inside SelectSeq and *)
(* FoldLeft, which take an operator.                                       *)
(***************************************************************************)
EXTENDS Integers, Sequences, Functions

\* The elements of q that are in S, in order.
Filtered(q, S) ==
    LET kept[n \in 0..Len(q)] ==
          IF n = 0 THEN <<>>
          ELSE IF q[n] \in S THEN Append(kept[n - 1], q[n]) ELSE kept[n - 1]
    IN  kept[Len(q)]

SumSeq(q) ==
    LET sum[n \in 0..Len(q)] == IF n = 0 THEN 0 ELSE sum[n - 1] + q[n]
    IN  sum[Len(q)]
=============================================================================
