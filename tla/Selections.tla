----------------------------- MODULE Selections -----------------------------
(***************************************************************************)
(* What the comprehensions of the program that filter a list do: dlq.py    *)
(* keeps the headers of others, aggregation.py the products it has seen.   *)
(* It is SelectSeq with the places instead of a test, written out as a     *)
(* recursive function so that proofs can reason about it.                  *)
(***************************************************************************)
EXTENDS Naturals, Sequences

\* The elements of s at the places in I, in their order.
Picked(s, I) ==
    LET upTo[n \in 0..Len(s)] ==
            IF n = 0 THEN <<>>
            ELSE IF n \in I THEN Append(upTo[n - 1], s[n])
            ELSE upTo[n - 1]
    IN  upTo[Len(s)]
=============================================================================
