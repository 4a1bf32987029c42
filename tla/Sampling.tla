------------------------------ MODULE Sampling ------------------------------
(***************************************************************************)
(* Products of the values of parameters, and how scripts thin them out: a  *)
(* value is its place in the tuple it is taken from.                       *)
(***************************************************************************)
EXTENDS Loops, SequencesExt

Volume(shape) == Product(shape, Len(shape))

\* The places of the values at an index of the product, the last one fastest.
AtIndex(shape, index) ==
    [k \in DOMAIN shape |->
        (index \div Volume(SubSeq(shape, k + 1, Len(shape)))) % shape[k]]

\* Python's round(): of two integers as near, the even one.
Rounded(n, d) ==
    LET whole == n \div d
        twice == 2 * (n % d)
    IN  IF twice > d \/ (twice = d /\ whole % 2 = 1) THEN whole + 1 ELSE whole

InOrder(places, total) == SelectSeq([i \in 1..total |-> i - 1], LAMBDA p : p \in places)

FirstOf(seq, limit) == SubSeq(seq, 1, IF Len(seq) < limit THEN Len(seq) ELSE limit)

=============================================================================
