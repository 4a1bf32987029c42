-------------------------------- MODULE Loops --------------------------------
(***************************************************************************)
(* What loops over sequences come to that the offline programs have in     *)
(* common: as recursive functions of the number of turns, so that they can *)
(* be proved about.                                                        *)
(***************************************************************************)
EXTENDS Integers, Sequences

\* The sum of the first n of some numbers.
Total(numbers, n) ==
    LET sum[k \in 0..n] == IF k = 0 THEN 0 ELSE sum[k - 1] + numbers[k]
    IN  sum[n]

\* Their product.
Product(numbers, n) ==
    LET product[k \in 0..n] == IF k = 0 THEN 1 ELSE product[k - 1] * numbers[k]
    IN  product[n]

\* What a loop over a sequence keeps that goes on with the next element
\* whenever the number of an element is not among those wanted.
Kept(seq, wanted) ==
    LET after[k \in 0..Len(seq)] ==
            IF k = 0 THEN <<>>
            ELSE IF k \in wanted THEN Append(after[k - 1], seq[k])
            ELSE after[k - 1]
    IN  after[Len(seq)]

=============================================================================
