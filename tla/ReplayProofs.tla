---------------------------- MODULE ReplayProofs ----------------------------
(***************************************************************************)
(* Proofs about FillPairing: what the filter, the sort and the fold of     *)
(* pnl.rs compute of any log.                                              *)
(*                                                                         *)
(* Induction over a log is done by hand: a property of all numbers is      *)
(* shown of their set, whose complement would have a least element.  A     *)
(* recursive function is unfolded by the lemma Recursion, to which its     *)
(* step is given as a function on the set of its values.                   *)
(***************************************************************************)
EXTENDS FillPairing, WellFoundedInduction, FiniteSetTheorems, SequenceTheorems, TLAPS

-----------------------------------------------------------------------------
(* Induction *)

\* The order of the numbers is well founded.
LEMMA LessThan ==
  \E R : IsWellFoundedOn(R, Nat) /\ \A x, y \in Nat : y < x => <<y, x>> \in R
<1>1. \A x, y \in Nat : y < x => <<y, x>> \in OpToRel(<, Nat)
  BY DEF OpToRel
<1> QED
  BY <1>1, NatLessThanWellFounded, Zenon

\* A set of numbers has a least element.
LEMMA Least ==
  ASSUME NEW T, T \subseteq Nat, T # {}
  PROVE  \E x \in T : \A y \in T : x <= y
<1>1. PICK R : IsWellFoundedOn(R, Nat) /\ \A x, y \in Nat : y < x => <<y, x>> \in R
  BY LessThan
<1>2. PICK x \in T : \A y \in T : ~ (<<y, x>> \in R)
  BY <1>1, WFMin, Zenon
<1>3. ASSUME NEW y \in T PROVE x <= y
  <2>1. x \in Nat /\ y \in Nat
    OBVIOUS
  <2>2. ~ (y < x)
    BY <1>1, <1>2, <2>1
  <2> QED
    BY <2>1, <2>2
<1> QED
  BY <1>3

\* Induction, for the set of the numbers that have a property.
LEMMA Induct ==
  ASSUME NEW S, 0 \in S, \A n \in Nat : n \in S => n + 1 \in S
  PROVE  Nat \subseteq S
<1> DEFINE T == Nat \ S
<1>1. SUFFICES ASSUME T # {} PROVE FALSE
  OBVIOUS
<1>2. PICK x \in T : \A y \in T : x <= y
  BY <1>1, Least
<1>3. x # 0 /\ x - 1 \in Nat /\ x - 1 \notin T
  BY <1>2
<1> QED
  BY <1>2, <1>3

\* f lists the values that step goes through from base.
Iterates(f, base, step, N) ==
    f[0] = base /\ \A n \in 1 .. N : f[n] = step[<<f[n - 1], n>>]

\* A recursion over 0..N by a step on a set of values D defines a function.
LEMMA Recursion ==
  ASSUME NEW D, NEW base \in D, NEW N \in Nat, NEW step \in [D \X (1 .. N) -> D]
  PROVE  \E f \in [0 .. N -> D] : Iterates(f, base, step, N)
<1> DEFINE Upto(m) == \E f \in [0 .. m -> D] :
                          f[0] = base /\ \A n \in 1 .. m : f[n] = step[<<f[n - 1], n>>]
           S == {m \in Nat : m <= N => Upto(m)}
<1>1. Upto(0)
  <2> DEFINE f == [n \in 0 .. 0 |-> base]
  <2>1. f \in [0 .. 0 -> D] /\ f[0] = base
    OBVIOUS
  <2>2. \A n \in 1 .. 0 : f[n] = step[<<f[n - 1], n>>]
    OBVIOUS
  <2> QED
    BY <2>1, <2>2
<1>2. ASSUME NEW m \in Nat, m + 1 <= N, Upto(m)
      PROVE  Upto(m + 1)
  <2>1. PICK f \in [0 .. m -> D] :
            f[0] = base /\ \A n \in 1 .. m : f[n] = step[<<f[n - 1], n>>]
    BY <1>2
  <2> DEFINE g == [n \in 0 .. m + 1 |-> IF n = m + 1 THEN step[<<f[m], m + 1>>] ELSE f[n]]
  <2>2. step[<<f[m], m + 1>>] \in D
    <3>1. f[m] \in D /\ m + 1 \in 1 .. N
      BY <1>2
    <3>2. <<f[m], m + 1>> \in D \X (1 .. N)
      BY <3>1
    <3> QED
      BY <3>2
  <2>3. g \in [0 .. m + 1 -> D]
    <3>1. \A n \in 0 .. m + 1 : n # m + 1 => n \in 0 .. m
      OBVIOUS
    <3> QED
      BY <2>2, <3>1
  <2>4. g[0] = base
    BY <2>1
  <2>5. ASSUME NEW n \in 1 .. m + 1 PROVE g[n] = step[<<g[n - 1], n>>]
    <3>1. n - 1 \in 0 .. m /\ n - 1 \in 0 .. m + 1 /\ n \in 0 .. m + 1
      OBVIOUS
    <3>2. g[n - 1] = f[n - 1]
      BY <3>1
    <3>3. CASE n = m + 1
      BY <3>1, <3>2, <3>3
    <3>4. CASE n # m + 1
      <4>1. n \in 1 .. m
        BY <3>4
      <4> QED
        BY <2>1, <3>1, <3>2, <3>4, <4>1
    <3> QED
      BY <3>3, <3>4
  <2> QED
    BY <2>3, <2>4, <2>5
<1> HIDE DEF Upto
<1>3. Nat \subseteq S
  <2>1. 0 \in S
    BY <1>1
  <2>2. ASSUME NEW m \in Nat, m \in S PROVE m + 1 \in S
    BY <1>2, <2>2
  <2> HIDE DEF S
  <2> QED
    BY <2>1, <2>2, Induct
<1>4. Upto(N)
  BY <1>3
<1> QED
  BY <1>4 DEF Upto, Iterates

\* The same of a function that is not known to have its values in D.
Recurs(f, D, base, step, N) ==
    /\ f = [n \in 0 .. N |-> f[n]] /\ f[0] = base
    /\ \A n \in 1 .. N : f[n - 1] \in D => f[n] = step[<<f[n - 1], n>>]

\* It has.
LEMMA Unfolded ==
  ASSUME NEW D, NEW base \in D, NEW N \in Nat, NEW step \in [D \X (1 .. N) -> D],
         NEW f, Recurs(f, D, base, step, N)
  PROVE  f \in [0 .. N -> D] /\ Iterates(f, base, step, N)
<1> USE DEF Recurs
<1> DEFINE S == {n \in Nat : n <= N => f[n] \in D}
<1>1. 0 \in S
  OBVIOUS
<1>2. ASSUME NEW n \in Nat, n \in S PROVE n + 1 \in S
  <2> SUFFICES ASSUME n + 1 <= N PROVE f[n + 1] \in D
    OBVIOUS
  <2>1. n + 1 \in 1 .. N /\ f[n] \in D /\ (n + 1) - 1 = n
    BY <1>2
  <2>2. <<f[n], n + 1>> \in D \X (1 .. N)
    BY <2>1
  <2>3. f[n + 1] = step[<<f[n], n + 1>>]
    BY <2>1
  <2> QED
    BY <2>2, <2>3
<1>3. Nat \subseteq S
  <2> HIDE DEF S
  <2> QED
    BY <1>1, <1>2, Induct
<1>4. \A n \in 0 .. N : f[n] \in D
  BY <1>3
<1>5. \A n \in 1 .. N : n - 1 \in 0 .. N
  OBVIOUS
<1> QED
  BY <1>4, <1>5 DEF Iterates

-----------------------------------------------------------------------------
(* Sorting *)

\* prec orders S strictly and totally.
OrderOn(S, prec) ==
    /\ \A x \in S : <<x, x>> \notin prec
    /\ \A x, y \in S : x # y => <<x, y>> \in prec \/ <<y, x>> \in prec
    /\ \A x, y, z \in S : <<x, y>> \in prec /\ <<y, z>> \in prec => <<x, z>> \in prec

\* The places are 1 to the number of elements, and rise with the order.
LEMMA PlaceRises ==
  ASSUME NEW S, IsFiniteSet(S), NEW prec, OrderOn(S, prec)
  PROVE  /\ \A x \in S : Place(S, prec, x) \in 1 .. Cardinality(S)
         /\ \A x, y \in S : <<x, y>> \in prec => Place(S, prec, x) < Place(S, prec, y)
<1> DEFINE Below(x) == {y \in S : <<y, x>> \in prec}
<1>1. Cardinality(S) \in Nat
  BY FS_CardinalityType
<1>2. ASSUME NEW x \in S PROVE IsFiniteSet(Below(x)) /\ Cardinality(Below(x)) \in Nat
  <2>1. Below(x) \in SUBSET S
    OBVIOUS
  <2> HIDE DEF Below
  <2> QED
    BY <2>1, FS_Subset, FS_CardinalityType
<1>3. ASSUME NEW x \in S PROVE Cardinality(Below(x)) + 1 <= Cardinality(S)
  <2>1. Below(x) \in SUBSET (S \ {x})
    BY DEF OrderOn
  <2>2. IsFiniteSet(S \ {x}) /\ Cardinality(S \ {x}) = Cardinality(S) - 1
    BY FS_RemoveElement
  <2> HIDE DEF Below
  <2>3. Cardinality(Below(x)) <= Cardinality(S \ {x})
    BY <2>1, <2>2, FS_Subset
  <2> QED
    BY <1>1, <1>2, <2>2, <2>3
<1>4. ASSUME NEW x \in S, NEW y \in S, <<x, y>> \in prec
      PROVE  Cardinality(Below(x)) + 1 <= Cardinality(Below(y))
  <2>1. Below(x) \cup {x} \in SUBSET Below(y) /\ x \notin Below(x)
    BY <1>4 DEF OrderOn
  <2> HIDE DEF Below
  <2>2. Cardinality(Below(x) \cup {x}) = Cardinality(Below(x)) + 1
    BY <1>2, <2>1, FS_AddElement
  <2>3. Cardinality(Below(x) \cup {x}) <= Cardinality(Below(y))
    BY <1>2, <2>1, FS_Subset
  <2> QED
    BY <2>2, <2>3
<1>5. \A x : Place(S, prec, x) = Cardinality(Below(x)) + 1
  BY DEF Place
<1> HIDE DEF Below
<1>6. ASSUME NEW x \in S PROVE Place(S, prec, x) \in 1 .. Cardinality(S)
  BY <1>1, <1>2, <1>3, <1>5
<1>7. ASSUME NEW x \in S, NEW y \in S, <<x, y>> \in prec
      PROVE  Place(S, prec, x) < Place(S, prec, y)
  <2>1. Cardinality(Below(x)) \in Nat /\ Cardinality(Below(y)) \in Nat
    BY <1>2
  <2>2. Cardinality(Below(x)) + 1 <= Cardinality(Below(y))
    BY <1>4, <1>7
  <2> QED
    BY <1>5, <2>1, <2>2
<1> QED
  BY <1>6, <1>7

\* InOrder lists the elements of a finite set, each once, in their order.
LEMMA InOrderSorts ==
  ASSUME NEW S, IsFiniteSet(S), NEW prec, OrderOn(S, prec)
  PROVE  LET s == InOrder(S, prec)
         IN /\ Cardinality(S) \in Nat
            /\ s \in [1 .. Cardinality(S) -> S]
            /\ \A x \in S : /\ Place(S, prec, x) \in 1 .. Cardinality(S)
                            /\ s[Place(S, prec, x)] = x
            /\ \A n \in 1 .. Cardinality(S) : Place(S, prec, s[n]) = n
            /\ \A m, n \in 1 .. Cardinality(S) : m < n <=> <<s[m], s[n]>> \in prec
<1> DEFINE N == Cardinality(S)
           place == [x \in S |-> Place(S, prec, x)]
           s == InOrder(S, prec)
<1>1. N \in Nat
  BY FS_CardinalityType
<1>2. /\ place \in [S -> 1 .. N]
      /\ \A x, y \in S : <<x, y>> \in prec => place[x] < place[y]
      /\ \A x \in S : place[x] = Place(S, prec, x)
  BY PlaceRises
<1>3. s = [n \in 1 .. N |-> CHOOSE x \in S : place[x] = n]
  BY DEF InOrder
<1> HIDE DEF N, place, s
<1>4. \A x, y \in S : place[x] = place[y] => x = y
  <2> SUFFICES ASSUME NEW x \in S, NEW y \in S, place[x] = place[y], x # y PROVE FALSE
    OBVIOUS
  <2>1. place[x] < place[y] \/ place[y] < place[x]
    BY <1>2 DEF OrderOn
  <2>2. place[x] \in 1 .. N /\ place[y] \in 1 .. N
    BY <1>2
  <2> QED
    BY <1>1, <2>1, <2>2
<1>5. \A n \in 1 .. N : \E x \in S : place[x] = n
  <2>1. IsFiniteSet(1 .. N) /\ Cardinality(1 .. N) = N
    BY <1>1, FS_Interval
  <2>2. place \in Injection(S, 1 .. N)
    BY <1>2, <1>4 DEF Injection, IsInjective
  <2>3. place \in Surjection(S, 1 .. N)
    BY <2>1, <2>2, FS_Injection DEF N
  <2> QED
    BY <2>3 DEF Surjection
<1>6. \A n \in 1 .. N : s[n] \in S /\ place[s[n]] = n
  BY <1>3, <1>5
<1>7. s \in [1 .. N -> S]
  BY <1>3, <1>6
<1>8. \A x \in S : place[x] \in 1 .. N /\ s[place[x]] = x
  BY <1>2, <1>4, <1>6
<1>9. ASSUME NEW m \in 1 .. N, NEW n \in 1 .. N
      PROVE  m < n <=> <<s[m], s[n]>> \in prec
  <2>1. s[m] \in S /\ s[n] \in S /\ place[s[m]] = m /\ place[s[n]] = n
    BY <1>6
  <2>2. <<s[m], s[n]>> \in prec => m < n
    BY <1>2, <2>1
  <2>3. <<s[n], s[m]>> \in prec => n < m
    BY <1>2, <2>1
  <2>4. m < n => s[m] # s[n]
    BY <1>1, <2>1
  <2> QED
    BY <1>1, <2>1, <2>2, <2>3, <2>4 DEF OrderOn
<1>10. \A n \in 1 .. N : Place(S, prec, s[n]) = n
  BY <1>2, <1>6
<1>11. \A x \in S : Place(S, prec, x) \in 1 .. N /\ s[Place(S, prec, x)] = x
  BY <1>2, <1>8
<1> QED
  BY <1>1, <1>7, <1>9, <1>10, <1>11 DEF N, s

\* A greatest element more is one entry more, at the end.
LEMMA InOrderAppend ==
  ASSUME NEW S, IsFiniteSet(S), NEW prec, OrderOn(S, prec), NEW z, z \notin S,
         NEW wider, OrderOn(S \cup {z}, wider),
         \A x, y \in S : <<x, y>> \in wider <=> <<x, y>> \in prec,
         \A x \in S : <<x, z>> \in wider
  PROVE  LET s == InOrder(S, prec)
             t == InOrder(S \cup {z}, wider)
         IN /\ Cardinality(S \cup {z}) = Cardinality(S) + 1
            /\ \A n \in 1 .. Cardinality(S) : t[n] = s[n]
            /\ t[Cardinality(S) + 1] = z
<1> DEFINE N == Cardinality(S)
           W == S \cup {z}
           s == InOrder(S, prec)
           t == InOrder(W, wider)
<1>1. N \in Nat /\ IsFiniteSet(W) /\ Cardinality(W) = N + 1
  BY FS_CardinalityType, FS_AddElement
<1>2. /\ s \in [1 .. N -> S]
      /\ \A n \in 1 .. N : Place(S, prec, s[n]) = n
  BY InOrderSorts
<1>3. \A x \in W : t[Place(W, wider, x)] = x
  <2> HIDE DEF W
  <2> QED
    BY <1>1, InOrderSorts DEF W
<1>4. \A x \in S : Place(W, wider, x) = Place(S, prec, x)
  <2> SUFFICES ASSUME NEW x \in S PROVE Place(W, wider, x) = Place(S, prec, x)
    OBVIOUS
  <2>1. <<z, x>> \notin wider
    BY DEF OrderOn
  <2>2. {y \in W : <<y, x>> \in wider} = {y \in S : <<y, x>> \in prec}
    BY <2>1
  <2> QED
    BY <2>2 DEF Place
<1>5. Place(W, wider, z) = N + 1
  <2>1. {y \in W : <<y, z>> \in wider} = S
    BY DEF OrderOn
  <2> QED
    BY <2>1 DEF Place
<1> HIDE DEF W, s, t, N
<1>6. ASSUME NEW n \in 1 .. N PROVE t[n] = s[n]
  <2>1. s[n] \in S /\ s[n] \in W
    BY <1>2 DEF W
  <2>2. Place(W, wider, s[n]) = n
    BY <1>2, <1>4, <2>1
  <2> QED
    BY <1>3, <2>1, <2>2
<1>7. t[N + 1] = z
  BY <1>3, <1>5 DEF W
<1> QED
  BY <1>1, <1>6, <1>7 DEF W, s, t, N

-----------------------------------------------------------------------------
(* Reading the log *)

\* How read_fills orders the lines it keeps.
KeptOrder(log) ==
    {p \in Whole(log) \X Whole(log) : Before(log, p[1], p[2])}

\* A line that parses is a fill.
LEMMA KeptFill ==
  ASSUME NEW log \in Seq(Line)
  PROVE  /\ \A i \in Whole(log) : /\ i \in 1 .. Len(log) /\ log[i] \in Fill
                                  /\ log[i].filled_at \in Int
         /\ IsFiniteSet(Whole(log))
<1>1. \A i \in Whole(log) : i \in 1 .. Len(log) /\ log[i] \in Fill
  BY DEF Whole, Line
<1>2. Whole(log) \in SUBSET (1 .. Len(log))
  BY DEF Whole
<1>3. IsFiniteSet(1 .. Len(log))
  BY FS_Interval
<1>4. IsFiniteSet(Whole(log))
  BY <1>2, <1>3, FS_Subset
<1> QED
  BY <1>1, <1>4 DEF Fill

\* The stable sort's order is one: no two fills have the same place.
LEMMA KeptOrdered ==
  ASSUME NEW log \in Seq(Line)
  PROVE  OrderOn(Whole(log), KeptOrder(log))
  BY KeptFill DEF OrderOn, KeptOrder, Before

\* What read_fills returns: the fills on disk, each once, in their order.
LEMMA Reading ==
  ASSUME NEW log \in Seq(Line)
  PROVE  LET N == Cardinality(Whole(log))
             order == InOrder(Whole(log), KeptOrder(log))
         IN /\ N \in Nat
            /\ order \in [1 .. N -> Whole(log)]
            /\ \A i \in Whole(log) : \E n \in 1 .. N : order[n] = i
            /\ \A m, n \in 1 .. N : m < n <=> Before(log, order[m], order[n])
            /\ ReadFills(log) = [n \in 1 .. N |-> log[order[n]]]
            /\ ReadFills(log) \in Seq(Fill)
            /\ Len(ReadFills(log)) = N
<1> DEFINE N == Cardinality(Whole(log))
           order == InOrder(Whole(log), KeptOrder(log))
<1>1. /\ N \in Nat
      /\ order \in [1 .. N -> Whole(log)]
      /\ \A i \in Whole(log) : \E n \in 1 .. N : order[n] = i
      /\ \A m, n \in 1 .. N : m < n <=> <<order[m], order[n]>> \in KeptOrder(log)
  BY KeptFill, KeptOrdered, InOrderSorts
<1>2. ReadFills(log) = [n \in 1 .. N |-> log[order[n]]]
  BY DEF ReadFills, KeptOrder
<1> HIDE DEF N, order
<1>3. \A m, n \in 1 .. N : m < n <=> Before(log, order[m], order[n])
  BY <1>1 DEF KeptOrder
<1>4. \A n \in 1 .. N : log[order[n]] \in Fill
  BY <1>1, KeptFill
<1>5. ReadFills(log) \in Seq(Fill) /\ Len(ReadFills(log)) = N
  BY <1>1, <1>2, <1>4
<1> QED
  BY <1>1, <1>2, <1>3, <1>5 DEF N, order

\* A fill stamped no earlier than the log is read as the last.
LEMMA ReadingAppended ==
  ASSUME NEW log \in Seq(Line), NEW f \in Fill,
         \A i \in Whole(log) : log[i].filled_at <= f.filled_at
  PROVE  ReadFills(Append(log, f)) = Append(ReadFills(log), f)
<1> DEFINE new == Append(log, f)
           z == Len(log) + 1
           S == Whole(log)
           N == Cardinality(S)
           s == InOrder(S, KeptOrder(log))
           t == InOrder(Whole(new), KeptOrder(new))
<1>1. new \in Seq(Line) /\ f.filled_at \in Int /\ z \in Nat
  BY DEF Line, Fill
<1>2. /\ Whole(new) = S \cup {z} /\ z \notin S
      /\ new[z] = f /\ \A i \in S : new[i] = log[i] /\ i < z /\ i \in Nat
  BY TornAssumption DEF Whole
<1>3. \A x, y \in S : <<x, y>> \in KeptOrder(new) <=> <<x, y>> \in KeptOrder(log)
  BY <1>2 DEF KeptOrder, Before
<1>4. \A x \in S : <<x, z>> \in KeptOrder(new)
  BY <1>1, <1>2, KeptFill DEF KeptOrder, Before
<1>5. OrderOn(S \cup {z}, KeptOrder(new)) /\ OrderOn(S, KeptOrder(log)) /\ IsFiniteSet(S)
  BY <1>1, <1>2, KeptOrdered, KeptFill
<1>6. /\ Cardinality(Whole(new)) = N + 1
      /\ \A n \in 1 .. N : t[n] = s[n]
      /\ t[N + 1] = z
  <2> HIDE DEF z, S, new
  <2> QED
    BY <1>2, <1>3, <1>4, <1>5, InOrderAppend
<1>7. /\ N \in Nat /\ s \in [1 .. N -> S]
      /\ ReadFills(log) = [n \in 1 .. N |-> log[s[n]]]
      /\ ReadFills(log) \in Seq(Fill) /\ Len(ReadFills(log)) = N
  BY Reading
<1>8. ReadFills(new) = [n \in 1 .. N + 1 |-> new[t[n]]]
  BY <1>1, <1>6, Reading
<1> HIDE DEF z, S, new, N, s, t
<1>9. \A n \in 1 .. N + 1 : new[t[n]] = IF n = N + 1 THEN f ELSE log[s[n]]
  BY <1>2, <1>6, <1>7
<1>10. ReadFills(new) = Append(ReadFills(log), f)
  BY <1>7, <1>8, <1>9
<1> QED
  BY <1>10 DEF new

-----------------------------------------------------------------------------
(* The fold of pair_fills *)

\* The maps from some keys to fills, and what the fold accumulates.
Current == UNION {[K -> Fill] : K \in SUBSET Keys}

Trades == [open : Fill, close : Fill]

Pairing == [current_open : Current, closed : Seq(Trades)]

NothingPaired == [current_open |-> <<>>, closed |-> <<>>]

\* What an iteration does, in terms of the map and the list.
LEMMA PairStepIs ==
  ASSUME NEW acc \in Pairing, NEW f \in Fill
  PROVE  LET key == Upper[f.asset]
             open == acc.current_open
             next == PairStep(acc, f)
         IN /\ key \in Keys /\ next \in Pairing
            /\ f.intent = "open" =>
                   /\ DOMAIN next.current_open = DOMAIN open \cup {key}
                   /\ next.current_open[key] = f
                   /\ \A k \in DOMAIN open : k # key => next.current_open[k] = open[k]
                   /\ next.closed = acc.closed
            /\ f.intent = "close" /\ key \in DOMAIN open =>
                   /\ DOMAIN next.current_open = DOMAIN open \ {key}
                   /\ \A k \in DOMAIN open : k # key => next.current_open[k] = open[k]
                   /\ next.closed = Append(acc.closed, [open |-> open[key], close |-> f])
            /\ f.intent = "close" /\ key \notin DOMAIN open => next = acc
<1> DEFINE key == Upper[f.asset]
           open == acc.current_open
           next == PairStep(acc, f)
<1>1. key \in Keys /\ f.intent \in {"open", "close"}
  BY DEF Keys, Fill, Intents
<1>2. PICK K \in SUBSET Keys : open \in [K -> Fill]
  BY DEF Pairing, Current
<1>3. acc = [current_open |-> open, closed |-> acc.closed] /\ acc.closed \in Seq(Trades)
  BY DEF Pairing
<1>4. CASE f.intent = "open"
  <2> DEFINE wider == [k \in K \cup {key} |-> IF k = key THEN f ELSE open[k]]
  <2>1. InsertOpen(open, key, f) = wider
    BY <1>2 DEF InsertOpen, Put
  <2>2. next = [current_open |-> wider, closed |-> acc.closed]
    BY <1>3, <1>4, <2>1 DEF PairStep
  <2>3. wider \in [K \cup {key} -> Fill] /\ K \cup {key} \in SUBSET Keys
    BY <1>1, <1>2
  <2>4. wider \in Current
    BY <2>3 DEF Current
  <2> QED
    BY <1>1, <1>2, <1>3, <1>4, <2>2, <2>3, <2>4 DEF Pairing
<1>5. CASE f.intent = "close" /\ key \in K
  <2> DEFINE less == [k \in K \ {key} |-> open[k]]
             trade == [open |-> open[key], close |-> f]
  <2>1. RemoveOpen(open, key) = less
    BY <1>2 DEF RemoveOpen, Restrict
  <2>2. next = [current_open |-> less, closed |-> Append(acc.closed, trade)]
    BY <1>2, <1>5, <2>1 DEF PairStep
  <2>3. less \in [K \ {key} -> Fill] /\ K \ {key} \in SUBSET Keys
    BY <1>2
  <2>4. less \in Current
    BY <2>3 DEF Current
  <2>5. Append(acc.closed, trade) \in Seq(Trades)
    BY <1>2, <1>3, <1>5 DEF Trades
  <2> QED
    BY <1>1, <1>2, <1>5, <2>2, <2>3, <2>4, <2>5 DEF Pairing
<1>6. CASE f.intent = "close" /\ key \notin K
  <2>1. next = acc
    BY <1>2, <1>6 DEF PairStep
  <2> QED
    BY <1>1, <1>2, <1>6, <2>1
<1> QED
  BY <1>1, <1>4, <1>5, <1>6

\* The fold, unfolded.
LEMMA Folding ==
  ASSUME NEW fills \in Seq(Fill)
  PROVE  \E paired \in [0 .. Len(fills) -> Pairing] :
             /\ paired[0] = NothingPaired
             /\ \A n \in 1 .. Len(fills) : paired[n] = PairStep(paired[n - 1], fills[n])
             /\ PairFills(fills) = paired[Len(fills)]
<1> DEFINE N == Len(fills)
           step == [p \in Pairing \X (1 .. N) |-> PairStep(p[1], fills[p[2]])]
           Is(f) == f = [n \in 0 .. N |-> IF n = 0 THEN NothingPaired
                                          ELSE PairStep(f[n - 1], fills[n])]
           paired == CHOOSE f : Is(f)
<1>1. NothingPaired \in Pairing
  <2>1. <<>> \in [{} -> Fill] /\ {} \in SUBSET Keys
    OBVIOUS
  <2>2. <<>> \in Current
    BY <2>1 DEF Current
  <2> QED
    BY <2>2 DEF NothingPaired, Pairing
<1>2. step \in [Pairing \X (1 .. N) -> Pairing]
  <2>1. ASSUME NEW p \in Pairing \X (1 .. N)
        PROVE  PairStep(p[1], fills[p[2]]) \in Pairing
    <3>1. p[1] \in Pairing /\ fills[p[2]] \in Fill
      OBVIOUS
    <3> QED
      BY <3>1, PairStepIs
  <2> QED
    BY <2>1
<1>3. PICK g \in [0 .. N -> Pairing] : Iterates(g, NothingPaired, step, N)
  <2>1. N \in Nat
    OBVIOUS
  <2> HIDE DEF step, N
  <2> QED
    BY <1>1, <1>2, <2>1, Recursion
<1>4. ASSUME NEW n \in 1 .. N PROVE g[n] = PairStep(g[n - 1], fills[n])
  <2>1. n - 1 \in 0 .. N
    OBVIOUS
  <2>2. <<g[n - 1], n>> \in Pairing \X (1 .. N)
    BY <1>3, <2>1
  <2> QED
    BY <1>3, <2>2 DEF Iterates
<1>5. Is(g)
  <2>1. \A n \in 0 .. N : g[n] = IF n = 0 THEN NothingPaired
                                 ELSE PairStep(g[n - 1], fills[n])
    BY <1>3, <1>4
  <2> QED
    BY <1>3, <2>1 DEF Iterates
<1>6. Is(paired)
  BY <1>5
<1>7. PairFills(fills) = paired[N]
  BY DEF PairFills, NothingPaired
<1> HIDE DEF paired
<1>8. /\ paired[0] = NothingPaired
      /\ \A n \in 1 .. N : paired[n] = PairStep(paired[n - 1], fills[n])
      /\ DOMAIN paired = 0 .. N /\ paired = [n \in 0 .. N |-> paired[n]]
  BY <1>6
<1>9. \A n \in 0 .. N : paired[n] = g[n]
  <2> DEFINE S == {n \in Nat : n <= N => paired[n] = g[n]}
  <2>1. 0 \in S
    BY <1>3, <1>8 DEF Iterates
  <2>2. ASSUME NEW n \in Nat, n \in S PROVE n + 1 \in S
    <3> SUFFICES ASSUME n + 1 <= N PROVE paired[n + 1] = g[n + 1]
      OBVIOUS
    <3>1. n + 1 \in 1 .. N /\ paired[n] = g[n] /\ (n + 1) - 1 = n
      BY <2>2
    <3>2. paired[n + 1] = PairStep(paired[n], fills[n + 1])
      BY <1>8, <3>1
    <3>3. g[n + 1] = PairStep(g[n], fills[n + 1])
      BY <1>4, <3>1
    <3> QED
      BY <3>1, <3>2, <3>3
  <2>3. Nat \subseteq S
    <3> HIDE DEF S
    <3> QED
      BY <2>1, <2>2, Induct
  <2> QED
    BY <2>3
<1>10. PairFills(fills) = g[N]
  BY <1>7, <1>9
<1> QED
  BY <1>3, <1>4, <1>10 DEF Iterates

-----------------------------------------------------------------------------
(* What the fold leaves open *)

\* The last fill of an asset among the first n, and whether it is an Open.
LastUpto(fills, n, key) ==
    {i \in 1 .. n : /\ Upper[fills[i].asset] = key
                    /\ \A m \in 1 .. n : Upper[fills[m].asset] = key => m <= i}

OpenUpto(fills, n, key) == {i \in LastUpto(fills, n, key) : fills[i].intent = "open"}

\* The map of current opens has an asset's last fill, if that is an Open.
Opens(fills, n, open) ==
    \A key \in Keys :
        /\ key \in DOMAIN open <=> OpenUpto(fills, n, key) # {}
        /\ \A i \in OpenUpto(fills, n, key) : open[key] = fills[i]

\* One fill more is the last of its asset, and of no other.
LEMMA LastStep ==
  ASSUME NEW fills, NEW n \in Nat, NEW key
  PROVE  LastUpto(fills, n + 1, key) =
             IF key = Upper[fills[n + 1].asset] THEN {n + 1} ELSE LastUpto(fills, n, key)
<1>1. \A i : i \in 1 .. n + 1 <=> i \in 1 .. n \/ i = n + 1
  OBVIOUS
<1>2. CASE key = Upper[fills[n + 1].asset]
  <2>1. ASSUME NEW i \in LastUpto(fills, n + 1, key) PROVE i = n + 1
    <3>1. i \in 1 .. n + 1 /\ n + 1 <= i
      BY <1>2 DEF LastUpto
    <3> QED
      BY <3>1
  <2>2. n + 1 \in LastUpto(fills, n + 1, key)
    BY <1>2 DEF LastUpto
  <2> QED
    BY <1>2, <2>1, <2>2
<1>3. CASE key # Upper[fills[n + 1].asset]
  BY <1>1, <1>3 DEF LastUpto
<1> QED
  BY <1>2, <1>3

\* An asset has at most one last fill.
LEMMA LastIsOne ==
  ASSUME NEW fills, NEW n \in Nat, NEW key, NEW i \in LastUpto(fills, n, key),
         NEW j \in LastUpto(fills, n, key)
  PROVE  i = j
<1>1. i \in 1 .. n /\ j \in 1 .. n /\ i <= j /\ j <= i
  BY DEF LastUpto
<1> QED
  BY <1>1

\* One iteration of pair_fills keeps the map right.
LEMMA OpensStep ==
  ASSUME NEW fills \in Seq(Fill), NEW n \in Nat, n + 1 <= Len(fills),
         NEW acc \in Pairing, Opens(fills, n, acc.current_open)
  PROVE  Opens(fills, n + 1, PairStep(acc, fills[n + 1]).current_open)
<1> DEFINE f == fills[n + 1]
           own == Upper[f.asset]
           open == acc.current_open
           next == PairStep(acc, f).current_open
<1>1. f \in Fill /\ f.intent \in {"open", "close"}
  <2>1. n + 1 \in 1 .. Len(fills)
    OBVIOUS
  <2>2. f \in Fill
    BY <2>1
  <2> QED
    BY <2>2 DEF Fill, Intents
<1> HIDE DEF f
<1>2. /\ own \in Keys
      /\ f.intent = "open" =>
             /\ DOMAIN next = DOMAIN open \cup {own}
             /\ next[own] = f
             /\ \A k \in DOMAIN open : k # own => next[k] = open[k]
      /\ f.intent = "close" /\ own \in DOMAIN open =>
             /\ DOMAIN next = DOMAIN open \ {own}
             /\ \A k \in DOMAIN open : k # own => next[k] = open[k]
      /\ f.intent = "close" /\ own \notin DOMAIN open => next = open
  <2>1. own \in Keys
    BY <1>1, PairStepIs
  <2>2. ASSUME f.intent = "open"
        PROVE  /\ DOMAIN next = DOMAIN open \cup {own}
               /\ next[own] = f
               /\ \A k \in DOMAIN open : k # own => next[k] = open[k]
    <3>1. DOMAIN next = DOMAIN open \cup {own}
      BY <1>1, <2>2, PairStepIs
    <3>2. next[own] = f
      BY <1>1, <2>2, PairStepIs
    <3>3. \A k \in DOMAIN open : k # own => next[k] = open[k]
      <4>1. next = InsertOpen(open, own, f)
        BY <2>2 DEF PairStep, Pairing
      <4> QED
        BY <4>1 DEF InsertOpen, Put
    <3> QED
      BY <3>1, <3>2, <3>3
  <2>3. ASSUME f.intent = "close", own \in DOMAIN open
        PROVE  /\ DOMAIN next = DOMAIN open \ {own}
               /\ \A k \in DOMAIN open : k # own => next[k] = open[k]
    BY <1>1, <2>3, PairStepIs
  <2>4. ASSUME f.intent = "close", own \notin DOMAIN open
        PROVE  next = open
    BY <1>1, <2>4, PairStepIs
  <2> QED
    BY <2>1, <2>2, <2>3, <2>4
<1> HIDE DEF next, open, own
<1>3. \A k \in Keys : k # own => /\ k \in DOMAIN next <=> k \in DOMAIN open
                                 /\ k \in DOMAIN open => next[k] = open[k]
  BY <1>1, <1>2
<1>4. /\ own \in DOMAIN next <=> f.intent = "open"
      /\ f.intent = "open" => next[own] = f
  BY <1>1, <1>2
<1>5. ASSUME NEW key \in Keys
      PROVE  /\ key \in DOMAIN next <=> OpenUpto(fills, n + 1, key) # {}
             /\ \A i \in OpenUpto(fills, n + 1, key) : next[key] = fills[i]
  <2>1. CASE key = own
    <3>1. LastUpto(fills, n + 1, key) = {n + 1}
      BY <2>1, LastStep DEF own, f
    <3> QED
      BY <1>4, <2>1, <3>1 DEF OpenUpto, f
  <2>2. CASE key # own
    <3>1. OpenUpto(fills, n + 1, key) = OpenUpto(fills, n, key)
      BY <2>2, LastStep DEF OpenUpto, own, f
    <3>2. /\ key \in DOMAIN open <=> OpenUpto(fills, n, key) # {}
          /\ \A i \in OpenUpto(fills, n, key) : open[key] = fills[i]
      BY DEF Opens, open
    <3> QED
      BY <1>3, <2>2, <3>1, <3>2
  <2> QED
    BY <2>1, <2>2
<1> QED
  BY <1>5 DEF Opens, next, f

-----------------------------------------------------------------------------
(* What it has closed *)

\* The Open a Close is paired with, if there is one.
Opener(fills, j) == OpenUpto(fills, j - 1, Upper[fills[j].asset])

Closings(fills, n) ==
    {j \in 1 .. n : fills[j].intent = "close" /\ Opener(fills, j) # {}}

\* The neighbouring pairs among the first n fills, in closing order.
Neighbours(fills, n) ==
    LET closings == Closings(fills, n)
        order == InOrder(closings, Upward(closings))
    IN [k \in 1 .. Cardinality(closings) |->
           [open |-> fills[CHOOSE i \in Opener(fills, order[k]) : TRUE],
            close |-> fills[order[k]]]]

\* The closings are finitely many, in the order of the fills.
LEMMA ClosingsOrdered ==
  ASSUME NEW fills, NEW n \in Nat
  PROVE  /\ IsFiniteSet(Closings(fills, n))
         /\ OrderOn(Closings(fills, n), Upward(Closings(fills, n)))
<1>1. Closings(fills, n) \in SUBSET (1 .. n) /\ IsFiniteSet(1 .. n)
  BY FS_Interval DEF Closings
<1>2. IsFiniteSet(Closings(fills, n))
  BY <1>1, FS_Subset
<1>3. \A x \in Closings(fills, n) : x \in Int
  BY <1>1
<1>4. OrderOn(Closings(fills, n), Upward(Closings(fills, n)))
  <2> DEFINE C == Closings(fills, n)
  <2> HIDE DEF C
  <2>1. \A x \in C : x \in Int
    BY <1>3 DEF C
  <2>2. OrderOn(C, Upward(C))
    BY <2>1 DEF OrderOn, Upward
  <2> QED
    BY <2>2 DEF C
<1> QED
  BY <1>2, <1>4

\* One pair more is one entry more, at the end.
LEMMA NeighboursStep ==
  ASSUME NEW fills, NEW n \in Nat
  PROVE  Neighbours(fills, n + 1) =
             IF fills[n + 1].intent = "close" /\ Opener(fills, n + 1) # {}
             THEN Append(Neighbours(fills, n),
                         [open |-> fills[CHOOSE i \in Opener(fills, n + 1) : TRUE],
                          close |-> fills[n + 1]])
             ELSE Neighbours(fills, n)
<1> DEFINE C == Closings(fills, n)
           D == Closings(fills, n + 1)
           s == InOrder(C, Upward(C))
           t == InOrder(D, Upward(D))
           Trade(j) == [open |-> fills[CHOOSE i \in Opener(fills, j) : TRUE],
                        close |-> fills[j]]
<1>1. \A i : i \in 1 .. n + 1 <=> i \in 1 .. n \/ i = n + 1
  OBVIOUS
<1>2. CASE fills[n + 1].intent = "close" /\ Opener(fills, n + 1) # {}
  <2> DEFINE z == n + 1
  <2>1. D = C \cup {z} /\ z \notin C /\ z \in Int /\ \A j \in C : j < z /\ j \in Int
    BY <1>1, <1>2 DEF Closings
  <2>2. IsFiniteSet(C) /\ OrderOn(C, Upward(C)) /\ Cardinality(C) \in Nat
    BY ClosingsOrdered, FS_CardinalityType
  <2> DEFINE P == Upward(C)
             W == Upward(D)
  <2>3. OrderOn(D, W)
    BY ClosingsOrdered
  <2>4. /\ \A x, y \in C : <<x, y>> \in W <=> <<x, y>> \in P
        /\ \A x \in C : <<x, z>> \in W
    BY <2>1 DEF Upward
  <2>5. /\ Cardinality(D) = Cardinality(C) + 1
        /\ \A k \in 1 .. Cardinality(C) : t[k] = s[k]
        /\ t[Cardinality(C) + 1] = z
    <3>1. OrderOn(C, P)
      BY <2>2
    <3>2. s = InOrder(C, P) /\ t = InOrder(D, W)
      OBVIOUS
    <3> HIDE DEF C, D, z, P, W, s, t
    <3>3. OrderOn(C \cup {z}, W) /\ IsFiniteSet(C) /\ z \notin C
      BY <2>1, <2>2, <2>3
    <3>4. /\ Cardinality(C \cup {z}) = Cardinality(C) + 1
          /\ \A k \in 1 .. Cardinality(C) : InOrder(C \cup {z}, W)[k] = InOrder(C, P)[k]
          /\ InOrder(C \cup {z}, W)[Cardinality(C) + 1] = z
      BY <2>4, <3>1, <3>3, InOrderAppend, SMTT(30)
    <3> QED
      BY <2>1, <3>2, <3>4
  <2> HIDE DEF C, D, z
  <2>6. /\ Neighbours(fills, n) = [k \in 1 .. Cardinality(C) |-> Trade(s[k])]
        /\ Neighbours(fills, n + 1) = [k \in 1 .. Cardinality(D) |-> Trade(t[k])]
    BY DEF Neighbours, C, D
  <2> HIDE DEF s, t, Trade
  <2>7. Neighbours(fills, n + 1) = Append(Neighbours(fills, n), Trade(z))
    BY <2>2, <2>5, <2>6
  <2> QED
    BY <1>2, <2>7 DEF Trade, z
<1>3. CASE ~ (fills[n + 1].intent = "close" /\ Opener(fills, n + 1) # {})
  <2>1. D = C
    BY <1>1, <1>3 DEF Closings
  <2> QED
    BY <1>3, <2>1 DEF Neighbours
<1> QED
  BY <1>2, <1>3

\* One iteration of pair_fills keeps the list of closed trades right.
LEMMA ClosedStep ==
  ASSUME NEW fills \in Seq(Fill), NEW n \in Nat, n + 1 <= Len(fills),
         NEW acc \in Pairing, Opens(fills, n, acc.current_open),
         acc.closed = Neighbours(fills, n)
  PROVE  PairStep(acc, fills[n + 1]).closed = Neighbours(fills, n + 1)
<1> DEFINE f == fills[n + 1]
           own == Upper[f.asset]
           open == acc.current_open
<1>1. f \in Fill /\ f.intent \in {"open", "close"} /\ own \in Keys
  <2>1. n + 1 \in 1 .. Len(fills)
    OBVIOUS
  <2>2. f \in Fill
    BY <2>1
  <2> QED
    BY <2>2 DEF Fill, Intents, Keys
<1>2. Opener(fills, n + 1) = OpenUpto(fills, n, own)
  BY DEF Opener
<1>3. own \in DOMAIN open <=> Opener(fills, n + 1) # {}
  BY <1>1, <1>2 DEF Opens
<1>4. CASE f.intent = "close" /\ own \in DOMAIN open
  <2>1. Opener(fills, n + 1) # {}
    BY <1>3, <1>4
  <2>2. open[own] = fills[CHOOSE i \in Opener(fills, n + 1) : TRUE]
    BY <1>1, <1>2, <2>1 DEF Opens
  <2>3. PairStep(acc, f).closed = Append(acc.closed, [open |-> open[own], close |-> f])
    BY <1>1, <1>4, PairStepIs
  <2> QED
    BY <1>4, <2>1, <2>2, <2>3, NeighboursStep
<1>5. CASE ~ (f.intent = "close" /\ own \in DOMAIN open)
  <2>1. PairStep(acc, f).closed = acc.closed
    BY <1>1, <1>5, PairStepIs
  <2>2. ~ (fills[n + 1].intent = "close" /\ Opener(fills, n + 1) # {})
    BY <1>3, <1>5
  <2> QED
    BY <2>1, <2>2, NeighboursStep
<1> QED
  BY <1>4, <1>5

\* What pair_fills returns of any fills: the last fill of each asset, if it is
\* an Open, and the neighbouring pairs.
LEMMA Pairs ==
  ASSUME NEW fills \in Seq(Fill)
  PROVE  /\ PairFills(fills) \in Pairing
         /\ Opens(fills, Len(fills), PairFills(fills).current_open)
         /\ PairFills(fills).closed = Neighbours(fills, Len(fills))
<1> DEFINE N == Len(fills)
<1>1. PICK paired \in [0 .. N -> Pairing] :
          /\ paired[0] = NothingPaired
          /\ \A n \in 1 .. N : paired[n] = PairStep(paired[n - 1], fills[n])
          /\ PairFills(fills) = paired[N]
  BY Folding
<1> DEFINE Good(n) == /\ Opens(fills, n, paired[n].current_open)
                      /\ paired[n].closed = Neighbours(fills, n)
           S == {n \in Nat : n <= N => Good(n)}
<1>2. Good(0)
  <2>1. \A key : OpenUpto(fills, 0, key) = {}
    BY DEF OpenUpto, LastUpto
  <2>2. Opens(fills, 0, paired[0].current_open)
    BY <1>1, <2>1 DEF Opens, NothingPaired
  <2>3. Closings(fills, 0) = {}
    BY DEF Closings
  <2>4. Neighbours(fills, 0) = <<>>
    BY <2>3, FS_EmptySet DEF Neighbours
  <2> QED
    BY <1>1, <2>2, <2>4 DEF NothingPaired
<1>3. ASSUME NEW n \in Nat, n + 1 <= N, Good(n) PROVE Good(n + 1)
  <2>1. paired[n] \in Pairing /\ paired[n + 1] = PairStep(paired[n], fills[n + 1])
    <3>1. n \in 0 .. N /\ n + 1 \in 1 .. N /\ (n + 1) - 1 = n
      BY <1>3
    <3> QED
      BY <1>1, <3>1
  <2> QED
    BY <1>3, <2>1, OpensStep, ClosedStep
<1> HIDE DEF Good
<1>4. Nat \subseteq S
  <2>1. 0 \in S
    BY <1>2
  <2>2. ASSUME NEW n \in Nat, n \in S PROVE n + 1 \in S
    BY <1>3, <2>2
  <2> HIDE DEF S
  <2> QED
    BY <2>1, <2>2, Induct
<1>5. Good(N) /\ N \in 0 .. N
  BY <1>4
<1> QED
  BY <1>1, <1>5 DEF Good

-----------------------------------------------------------------------------
(* What is left open, and what a respawn restores *)

\* The last of the fills read is the latest line of its asset.
LEMMA LastIsLatest ==
  ASSUME NEW log \in Seq(Line), NEW n \in 1 .. Len(ReadFills(log))
  PROVE  LET fills == ReadFills(log)
             order == InOrder(Whole(log), KeptOrder(log))
         IN n \in LastUpto(fills, Len(fills), Upper[fills[n].asset])
                <=> LatestOfAsset(log, order[n])
<1> DEFINE fills == ReadFills(log)
           N == Len(fills)
           order == InOrder(Whole(log), KeptOrder(log))
<1>1. /\ N \in Nat /\ order \in [1 .. N -> Whole(log)]
      /\ \A i \in Whole(log) : \E m \in 1 .. N : order[m] = i
      /\ \A l, m \in 1 .. N : l < m <=> Before(log, order[l], order[m])
      /\ \A m \in 1 .. N : fills[m] = log[order[m]]
  BY Reading
<1> HIDE DEF fills, N, order
<1>2. n \in 1 .. N
  BY DEF N, fills
<1>3. ASSUME n \in LastUpto(fills, N, Upper[fills[n].asset]), NEW j \in Whole(log) \ {order[n]},
             SameAsset(log[j].asset, log[order[n]].asset)
      PROVE  Before(log, j, order[n])
  <2>1. PICK m \in 1 .. N : order[m] = j
    BY <1>1
  <2>2. m <= n /\ m # n
    BY <1>1, <1>2, <1>3, <2>1 DEF LastUpto, SameAsset
  <2> QED
    BY <1>1, <1>2, <2>1, <2>2
<1>4. ASSUME LatestOfAsset(log, order[n]), NEW m \in 1 .. N,
             Upper[fills[m].asset] = Upper[fills[n].asset]
      PROVE  m <= n
  <2> SUFFICES ASSUME n < m PROVE FALSE
    BY <1>1, <1>2
  <2>1. Before(log, order[n], order[m]) /\ ~ Before(log, order[m], order[n])
    BY <1>1, <1>2
  <2>2. order[m] \in Whole(log)
    BY <1>1
  <2>3. order[m] # order[n]
    BY <2>1
  <2> QED
    BY <1>1, <1>2, <1>4, <2>1, <2>2, <2>3 DEF LatestOfAsset, SameAsset
<1> QED
  BY <1>2, <1>3, <1>4 DEF LatestOfAsset, LastUpto, fills, N, order

\* The open trades stand for what FillsLog says the log restores; no two of
\* them are of one asset.
LEMMA OpenIsRestored ==
  ASSUME NEW log \in Seq(Line)
  PROVE  LET open == OpenTrades(ReadFills(log))
         IN /\ open \subseteq Fill /\ IsFiniteSet(open)
            /\ \A f, g \in open : Upper[f.asset] = Upper[g.asset] => f = g
            /\ {PositionOf(f) : f \in open} = Restore(log)
<1> DEFINE fills == ReadFills(log)
           N == Len(fills)
           order == InOrder(Whole(log), KeptOrder(log))
           current == PairFills(fills).current_open
           open == OpenTrades(fills)
<1>1. /\ N \in Nat /\ fills \in Seq(Fill) /\ order \in [1 .. N -> Whole(log)]
      /\ \A i \in Whole(log) : \E m \in 1 .. N : order[m] = i
      /\ \A m \in 1 .. N : fills[m] = log[order[m]] /\ fills[m] \in Fill
  BY Reading
<1>2. Opens(fills, N, current) /\ current \in Current
  BY <1>1, Pairs DEF Pairing
<1>3. \A m \in 1 .. N : m \in LastUpto(fills, N, Upper[fills[m].asset])
                             <=> LatestOfAsset(log, order[m])
  BY LastIsLatest
<1>4. open = {current[k] : k \in DOMAIN current} /\ DOMAIN current \subseteq Keys
  BY <1>2 DEF OpenTrades, Range, Current
<1> HIDE DEF fills, N, order, current, open
<1>5. ASSUME NEW k \in DOMAIN current
      PROVE  \E m \in 1 .. N : /\ current[k] = fills[m] /\ Upper[fills[m].asset] = k
                               /\ fills[m].intent = "open" /\ LatestOfAsset(log, order[m])
  <2>1. k \in Keys /\ OpenUpto(fills, N, k) # {}
    BY <1>2, <1>4 DEF Opens
  <2>2. PICK m : m \in OpenUpto(fills, N, k)
    BY <2>1
  <2>3. m \in 1 .. N /\ Upper[fills[m].asset] = k /\ fills[m].intent = "open"
        /\ m \in LastUpto(fills, N, k)
    BY <2>2 DEF OpenUpto, LastUpto
  <2>4. current[k] = fills[m]
    BY <1>2, <2>1, <2>2 DEF Opens
  <2> QED
    BY <1>3, <2>3, <2>4
<1>6. ASSUME NEW m \in 1 .. N, fills[m].intent = "open", LatestOfAsset(log, order[m])
      PROVE  fills[m] \in open
  <2> DEFINE k == Upper[fills[m].asset]
  <2>1. k \in Keys
    BY <1>1 DEF Keys, Fill
  <2>2. m \in OpenUpto(fills, N, k)
    BY <1>3, <1>6 DEF OpenUpto
  <2> HIDE DEF k
  <2>3. k \in DOMAIN current /\ current[k] = fills[m]
    BY <1>2, <2>1, <2>2 DEF Opens
  <2> QED
    BY <1>4, <2>3
<1>7. open \subseteq Fill
  BY <1>1, <1>4, <1>5
<1>8. \A f, g \in open : Upper[f.asset] = Upper[g.asset] => f = g
  BY <1>4, <1>5
<1>9. IsFiniteSet(open)
  <2> DEFINE T == {fills[m] : m \in 1 .. N}
             listed == [m \in 1 .. N |-> fills[m]]
  <2>1. open \in SUBSET T
    BY <1>4, <1>5
  <2>2. IsFiniteSet(1 .. N)
    <3>1. N \in Int /\ 1 \in Int
      BY <1>1
    <3> QED
      BY <3>1, FS_Interval
  <2>3. listed \in Surjection(1 .. N, T)
    BY DEF Surjection
  <2> HIDE DEF T, listed
  <2>4. IsFiniteSet(T)
    BY <2>2, <2>3, FS_Surjection
  <2> QED
    BY <2>1, <2>4, FS_Subset
<1>10. {PositionOf(f) : f \in open} = Restore(log)
  <2>1. ASSUME NEW f \in open PROVE PositionOf(f) \in Restore(log)
    <3>1. PICK m \in 1 .. N : /\ f = fills[m] /\ fills[m].intent = "open"
                             /\ LatestOfAsset(log, order[m])
      BY <1>4, <1>5
    <3>2. order[m] \in Whole(log) /\ f = log[order[m]]
      BY <1>1, <3>1
    <3> QED
      BY <3>1, <3>2 DEF Restore
  <2>2. ASSUME NEW i \in Whole(log), log[i].intent = "open", LatestOfAsset(log, i)
        PROVE  log[i] \in open
    <3>1. PICK m \in 1 .. N : order[m] = i
      BY <1>1
    <3> QED
      BY <1>1, <1>6, <2>2, <3>1
  <2> QED
    BY <2>1, <2>2 DEF Restore
<1> QED
  BY <1>7, <1>8, <1>9, <1>10 DEF open, fills

\* SetToSeq lists a finite set.
LEMMA Listing ==
  ASSUME NEW S, IsFiniteSet(S)
  PROVE  /\ SetToSeq(S) \in Seq(S)
         /\ \A i, j \in 1 .. Len(SetToSeq(S)) : SetToSeq(S)[i] = SetToSeq(S)[j] => i = j
         /\ \A x \in S : \E i \in 1 .. Len(SetToSeq(S)) : SetToSeq(S)[i] = x
<1> DEFINE N == Cardinality(S)
           s == SetToSeq(S)
<1>1. N \in Nat /\ ExistsBijection(1 .. N, S)
  BY FS_CardinalityType
<1>2. \E f \in [1 .. N -> S] : IsInjective(f)
  BY <1>1 DEF ExistsBijection, Bijection, Injection
<1>3. s \in [1 .. N -> S] /\ IsInjective(s)
  BY <1>2 DEF SetToSeq
<1> HIDE DEF s
<1>4. s \in Injection(1 .. N, S)
  BY <1>3 DEF Injection
<1>5. IsFiniteSet(1 .. N) /\ Cardinality(1 .. N) = N
  BY <1>1, FS_Interval
<1>6. s \in Surjection(1 .. N, S)
  BY <1>4, <1>5, FS_Injection
<1>7. s \in Seq(S) /\ Len(s) = N
  BY <1>1, <1>3
<1> QED
  BY <1>3, <1>6, <1>7 DEF s, IsInjective, Surjection

\* A respawn that opens them one after the other, in any order, restores
\* exactly those positions: no one replaces another.
LEMMA RestoringPortfolio ==
  ASSUME NEW log \in Seq(Line)
  PROVE  RestorePortfolio(log) = Restore(log)
<1> DEFINE open == OpenTrades(ReadFills(log))
           trades == SetToSeq(open)
           N == Len(trades)
           step == [p \in (SUBSET Position) \X (1 .. N) |->
                       OpenPosition(p[1], PositionOf(trades[p[2]]))]
           Is(f) == f = [n \in 0 .. N |-> IF n = 0 THEN {}
                                          ELSE OpenPosition(f[n - 1], PositionOf(trades[n]))]
           portfolio == CHOOSE f : Is(f)
<1>1. /\ open \subseteq Fill /\ IsFiniteSet(open)
      /\ \A f, g \in open : Upper[f.asset] = Upper[g.asset] => f = g
      /\ {PositionOf(f) : f \in open} = Restore(log)
  BY OpenIsRestored
<1>2. RestorePortfolio(log) = portfolio[N]
  BY DEF RestorePortfolio
<1> HIDE DEF open
<1>3. /\ trades \in Seq(open) /\ N \in Nat
      /\ \A i, j \in 1 .. N : trades[i] = trades[j] => i = j
      /\ \A x \in open : \E i \in 1 .. N : trades[i] = x
  BY <1>1, Listing
<1> HIDE DEF trades
<1>4. \A n \in 1 .. N : trades[n] \in open /\ trades[n] \in Fill
  BY <1>1, <1>3
<1> HIDE DEF N
<1>5. step \in [(SUBSET Position) \X (1 .. N) -> SUBSET Position]
  <2>1. ASSUME NEW p \in (SUBSET Position) \X (1 .. N)
        PROVE  OpenPosition(p[1], PositionOf(trades[p[2]])) \in SUBSET Position
    <3>1. p[1] \in SUBSET Position /\ trades[p[2]] \in Fill
      BY <1>4
    <3>2. PositionOf(trades[p[2]]) \in Position
      BY <3>1 DEF PositionOf, Fill, Position
    <3> QED
      BY <3>1, <3>2 DEF OpenPosition
  <2> QED
    BY <2>1
<1>6. \A n \in 1 .. N, held \in SUBSET Position :
          step[<<held, n>>] = OpenPosition(held, PositionOf(trades[n]))
  OBVIOUS
<1> HIDE DEF step
<1>7. PICK g \in [0 .. N -> SUBSET Position] : Iterates(g, {}, step, N)
  BY <1>3, <1>5, Recursion
<1>8. Is(g)
  <2>1. \A n \in 1 .. N : n - 1 \in 0 .. N
    BY <1>3
  <2>2. \A n \in 0 .. N : g[n] = IF n = 0 THEN {}
                                 ELSE OpenPosition(g[n - 1], PositionOf(trades[n]))
    BY <1>3, <1>6, <1>7, <2>1 DEF Iterates
  <2> QED
    BY <1>7, <2>2
<1>9. Is(portfolio)
  BY <1>8
<1> HIDE DEF portfolio
<1>10. /\ portfolio[0] = {}
       /\ \A n \in 1 .. N : portfolio[n] = OpenPosition(portfolio[n - 1], PositionOf(trades[n]))
  <2>1. \A n \in 0 .. N : portfolio[n] = IF n = 0 THEN {}
                              ELSE OpenPosition(portfolio[n - 1], PositionOf(trades[n]))
    BY <1>9, Zenon
  <2>2. 0 \in 0 .. N /\ \A n \in 1 .. N : n \in 0 .. N /\ n # 0
    BY <1>3
  <2> QED
    BY <2>1, <2>2
<1> DEFINE Opened(n) == {PositionOf(trades[i]) : i \in 1 .. n}
           S == {n \in Nat : n <= N => portfolio[n] = Opened(n)}
<1>11. 0 \in S
  BY <1>10
<1>12. ASSUME NEW n \in Nat, n \in S PROVE n + 1 \in S
  <2> SUFFICES ASSUME n + 1 <= N PROVE portfolio[n + 1] = Opened(n + 1)
    OBVIOUS
  <2>1. n + 1 \in 1 .. N /\ n <= N /\ (n + 1) - 1 = n
    BY <1>3
  <2>2. portfolio[n] = Opened(n)
    BY <1>12, <2>1
  <2>3. portfolio[n + 1] = OpenPosition(Opened(n), PositionOf(trades[n + 1]))
    BY <1>10, <2>1, <2>2
  <2>4. \A p \in Opened(n) : ~ SameAsset(p.asset, PositionOf(trades[n + 1]).asset)
    <3> SUFFICES ASSUME NEW i \in 1 .. n,
                        Upper[trades[i].asset] = Upper[trades[n + 1].asset]
                 PROVE  FALSE
      BY DEF PositionOf, SameAsset
    <3>1. i \in 1 .. N
      BY <1>3, <2>1
    <3>2. trades[i] = trades[n + 1]
      BY <1>1, <1>4, <2>1, <3>1
    <3> QED
      BY <1>3, <2>1, <3>1, <3>2
  <2>5. OpenPosition(Opened(n), PositionOf(trades[n + 1]))
            = Opened(n) \cup {PositionOf(trades[n + 1])}
    BY <2>4 DEF OpenPosition
  <2>6. \A i : i \in 1 .. n + 1 <=> i \in 1 .. n \/ i = n + 1
    OBVIOUS
  <2>7. Opened(n) \cup {PositionOf(trades[n + 1])} = Opened(n + 1)
    BY <2>6
  <2> QED
    BY <2>3, <2>5, <2>7
<1>13. portfolio[N] = Opened(N)
  <2> HIDE DEF S
  <2>1. N \in S
    BY <1>3, <1>11, <1>12, Induct
  <2> QED
    BY <2>1 DEF S
<1>14. Opened(N) = {PositionOf(f) : f \in open}
  BY <1>3, <1>4
<1> QED
  BY <1>1, <1>2, <1>13, <1>14

-----------------------------------------------------------------------------
(* Sums *)

\* SumOf adds the values up, from the first to the last.
LEMMA Summing ==
  ASSUME NEW values \in Seq(Int)
  PROVE  \E sum \in [0 .. Len(values) -> Int] :
             /\ sum[0] = 0
             /\ \A n \in 1 .. Len(values) : sum[n] = sum[n - 1] + values[n]
             /\ SumOf(values) = sum[Len(values)]
<1> DEFINE D == Int
           N == Len(values)
           step == [p \in D \X (1 .. N) |-> p[1] + values[p[2]]]
           Is(f) == f = [n \in 0 .. N |-> IF n = 0 THEN 0 ELSE f[n - 1] + values[n]]
           sum == CHOOSE f : Is(f)
<1>1. SumOf(values) = sum[N]
  BY DEF SumOf
<1>2. N \in Nat /\ (\A n \in 1 .. N : values[n] \in D /\ n - 1 \in 0 .. N) /\ 0 \in D
  OBVIOUS
<1>3. step \in [D \X (1 .. N) -> D]
  BY <1>2
<1>4. \A n \in 1 .. N, v \in D : step[<<v, n>>] = v + values[n]
  OBVIOUS
<1> HIDE DEF step, N, D
<1>5. PICK g \in [0 .. N -> D] : Iterates(g, 0, step, N)
  BY <1>2, <1>3, Recursion
<1>6. Is(g)
  <2>1. \A n \in 1 .. N : g[n] = step[<<g[n - 1], n>>]
    BY <1>5 DEF Iterates
  <2>2. \A n \in 1 .. N : g[n] = g[n - 1] + values[n]
    BY <1>2, <1>4, <1>5, <2>1
  <2>3. \A n \in 0 .. N : g[n] = IF n = 0 THEN 0 ELSE g[n - 1] + values[n]
    BY <1>2, <1>5, <2>2 DEF Iterates
  <2> QED
    BY <1>5, <2>3
<1>7. Is(sum)
  BY <1>6
<1> HIDE DEF sum
<1>8. sum = [n \in 0 .. N |-> sum[n]]
  BY <1>7
<1>9. sum[0] = 0 /\ \A n \in 1 .. N : sum[n] = sum[n - 1] + values[n]
  <2>1. \A n \in 0 .. N : sum[n] = IF n = 0 THEN 0 ELSE sum[n - 1] + values[n]
    BY <1>7, Zenon
  <2>2. 0 \in 0 .. N /\ \A n \in 1 .. N : n \in 0 .. N /\ n # 0
    BY <1>2
  <2> QED
    BY <2>1, <2>2
<1>10. Recurs(sum, D, 0, step, N)
  BY <1>4, <1>8, <1>9 DEF Recurs
<1>11. sum \in [0 .. N -> D]
  BY <1>2, <1>3, <1>10, Unfolded
<1> QED
  BY <1>1, <1>9, <1>11 DEF N, D

\* A sum of numbers is a number.
LEMMA SumType ==
  ASSUME NEW values \in Seq(Int)
  PROVE  SumOf(values) \in Int
<1>1. Len(values) \in 0 .. Len(values)
  OBVIOUS
<1> QED
  BY <1>1, Summing

\* The sum of nothing.
LEMMA SumEmpty == SumOf(<<>>) = 0
<1>1. <<>> \in Seq(Int) /\ Len(<<>>) = 0
  OBVIOUS
<1> QED
  BY <1>1, Summing

\* The sum with one more value.
LEMMA SumAppended ==
  ASSUME NEW values \in Seq(Int), NEW v \in Int
  PROVE  SumOf(Append(values, v)) = SumOf(values) + v
<1> DEFINE N == Len(values)
           more == Append(values, v)
<1>1. /\ N \in Nat /\ more \in Seq(Int) /\ Len(more) = N + 1 /\ more[N + 1] = v
      /\ \A n \in 1 .. N : more[n] = values[n]
  OBVIOUS
<1>2. PICK f \in [0 .. N -> Int] :
          /\ f[0] = 0 /\ \A n \in 1 .. N : f[n] = f[n - 1] + values[n]
          /\ SumOf(values) = f[N]
  BY Summing
<1> HIDE DEF more
<1>3. PICK g \in [0 .. N + 1 -> Int] :
          /\ g[0] = 0 /\ \A n \in 1 .. N + 1 : g[n] = g[n - 1] + more[n]
          /\ SumOf(more) = g[N + 1]
  BY <1>1, Summing
<1> DEFINE S == {n \in Nat : n <= N => g[n] = f[n]}
<1>4. 0 \in S
  BY <1>2, <1>3
<1>5. ASSUME NEW n \in Nat, n \in S PROVE n + 1 \in S
  <2> SUFFICES ASSUME n + 1 <= N PROVE g[n + 1] = f[n + 1]
    OBVIOUS
  <2>1. n + 1 \in 1 .. N /\ n + 1 \in 1 .. N + 1 /\ (n + 1) - 1 = n /\ g[n] = f[n]
    BY <1>1, <1>5
  <2>2. g[n + 1] = g[n] + more[n + 1] /\ f[n + 1] = f[n] + values[n + 1]
    BY <1>2, <1>3, <2>1
  <2> QED
    BY <1>1, <2>1, <2>2
<1>6. g[N] = f[N]
  <2> HIDE DEF S, N
  <2>1. N \in S
    BY <1>1, <1>4, <1>5, Induct
  <2> QED
    BY <1>1, <2>1 DEF S
<1>7. g[N + 1] = g[N] + more[N + 1]
  <2>1. N + 1 \in 1 .. N + 1 /\ (N + 1) - 1 = N
    BY <1>1
  <2> QED
    BY <1>3, <2>1
<1> QED
  BY <1>1, <1>2, <1>3, <1>6, <1>7 DEF more

=============================================================================
