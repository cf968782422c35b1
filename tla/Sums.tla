--------------------------------- MODULE Sums ---------------------------------
(***************************************************************************)
(* Sums and products of a sequence of integers, as recursive functions:    *)
(* unlike the folds of the community modules they can be reasoned about    *)
(* (Induction.tla).                                                        *)
(***************************************************************************)
EXTENDS Integers, Sequences

SumOf(seq) ==
    LET sum[n \in 0 .. Len(seq)] == IF n = 0 THEN 0 ELSE sum[n - 1] + seq[n]
    IN  sum[Len(seq)]

ProductOf(seq) ==
    LET product[n \in 0 .. Len(seq)] == IF n = 0 THEN 1 ELSE product[n - 1] * seq[n]
    IN  product[Len(seq)]
=============================================================================
