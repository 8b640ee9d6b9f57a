----------------------------- MODULE Collections -----------------------------
(***************************************************************************)
(* What the readers of the logs do with collections, in a form that can be *)
(* reasoned about for every length: sorting by counting, the sum as a      *)
(* recursive function, a map without the operators of module TLC.          *)
(***************************************************************************)
EXTENDS Integers, Sequences, FiniteSets

\* The place of x in S when S is sorted by prec, a set of pairs.
Place(S, prec, x) == Cardinality({y \in S : <<y, x>> \in prec}) + 1

\* sort_by_key: the elements of S as a sequence.  (A stable sort of rows is
\* one of their positions, by key and then by position.)
InOrder(S, prec) ==
    LET place == [x \in S |-> Place(S, prec, x)]
    IN [n \in 1 .. Cardinality(S) |-> CHOOSE x \in S : place[x] = n]

\* The rising order of a set of numbers.
Upward(S) == {p \in S \X S : p[1] < p[2]}

\* Iterator::filter: the elements of seq at the positions in S.
Filter(seq, S) ==
    LET order == InOrder(S, Upward(S))
    IN [n \in 1 .. Cardinality(S) |-> seq[order[n]]]

\* HashMap::insert
Put(map, key, value) ==
    [k \in DOMAIN map \cup {key} |-> IF k = key THEN value ELSE map[k]]

\* Iterator::sum
SumOf(values) ==
    LET sum[n \in 0 .. Len(values)] ==
            IF n = 0 THEN 0 ELSE sum[n - 1] + values[n]
    IN sum[Len(values)]

=============================================================================
