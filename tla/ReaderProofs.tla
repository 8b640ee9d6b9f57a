---------------------------- MODULE ReaderProofs ----------------------------
(***************************************************************************)
(* Proofs about LogReaders: what the readers make of any log, in terms of  *)
(* the lines it holds and not of the folds that read them.                 *)
(***************************************************************************)
EXTENDS LogReaders, ReplayProofs

-----------------------------------------------------------------------------
(* The logs *)

Decision == [asset : Assets, kind : {"open", "close", "hold"}, decided_at : Int]

\* Each of the three files is a sequence of rows of its own and of lines that
\* do not parse.
ReadersType ==
    /\ log \in Seq(Line)
    /\ observations \in Seq(Observation \cup {Torn})
    /\ decisions \in Seq(Decision \cup {Torn})

\* What a sequence holds is what it is a sequence of.
LEMMA ItemOfSeq ==
  ASSUME NEW S, NEW items \in Seq(S), NEW n \in 1 .. Len(items)
  PROVE  items[n] \in S
  OBVIOUS

\* The logs only ever hold rows and unparsable lines.
LEMMA LogTypes == ReadersSpec => []ReadersType
<1> USE DEF ReadersType
<1>1. ReadersInit => ReadersType
  BY DEF ReadersInit
<1>2. ReadersType /\ [ReadersNext]_readerVars => ReadersType'
  <2> SUFFICES ASSUME ReadersType, [ReadersNext]_readerVars PROVE ReadersType'
    OBVIOUS
  <2> FillStamps \cup ObsStamps \subseteq Int
    BY StampAssumption
  <2>1. CASE WriteFill
    <3> DEFINE terms == FillTerms[Len(log) + 1]
    <3>1. PICK asset \in Assets, intent \in Intents, stamp \in FillStamps :
              log' = Append(log, [asset |-> asset, side |-> terms.side,
                                  size |-> terms.size, price |-> terms.price,
                                  intent |-> intent, filled_at |-> stamp])
      BY <2>1 DEF WriteFill
    <3>2. Len(log) + 1 \in 1 .. Len(FillTerms)
      BY <2>1, TermsAssumption DEF WriteFill
    <3>3. terms \in [side : Side, size : Int, price : Int]
      BY <3>2, TermsAssumption, ItemOfSeq
    <3>4. [asset |-> asset, side |-> terms.side, size |-> terms.size,
           price |-> terms.price, intent |-> intent, filled_at |-> stamp] \in Line
      BY <3>3 DEF Line, Fill
    <3>5. UNCHANGED <<observations, decisions>>
      BY <2>1 DEF WriteFill
    <3> HIDE DEF terms
    <3> QED
      BY <3>1, <3>4, <3>5
  <2>2. CASE WriteObservation
    <3> DEFINE terms == ObsTerms[Len(observations) + 1]
    <3>1. PICK asset \in Assets, stamp \in ObsStamps, has_mid \in BOOLEAN :
              observations' = Append(observations,
                  [asset |-> asset, rate |-> terms.rate, observed_at |-> stamp,
                   mid |-> IF has_mid THEN terms.mid ELSE NoMid])
      BY <2>2 DEF WriteObservation
    <3>2. Len(observations) + 1 \in 1 .. Len(ObsTerms)
      BY <2>2, TermsAssumption DEF WriteObservation
    <3>3. terms \in [rate : Int, mid : Int]
      BY <3>2, TermsAssumption, ItemOfSeq
    <3>4. [asset |-> asset, rate |-> terms.rate, observed_at |-> stamp,
           mid |-> IF has_mid THEN terms.mid ELSE NoMid] \in Observation
      BY <3>3 DEF Observation
    <3>5. UNCHANGED <<log, decisions>>
      BY <2>2 DEF WriteObservation
    <3> HIDE DEF terms
    <3> QED
      BY <3>1, <3>4, <3>5
  <2>3. CASE WriteDecision
    BY <2>3 DEF WriteDecision, Decision
  <2>4. CASE WriteTorn
    <3>1. /\ log' = log \/ log' = Append(log, Torn)
          /\ observations' = observations \/ observations' = Append(observations, Torn)
          /\ decisions' = decisions \/ decisions' = Append(decisions, Torn)
      BY <2>4 DEF WriteTorn
    <3>2. Torn \in Line
      BY DEF Line
    <3>3. log' \in Seq(Line)
      BY <3>1, <3>2
    <3>4. observations' \in Seq(Observation \cup {Torn})
      BY <3>1
    <3>5. decisions' \in Seq(Decision \cup {Torn})
      BY <3>1
    <3> QED
      BY <3>3, <3>4, <3>5
  <2>5. CASE UNCHANGED readerVars
    BY <2>5 DEF readerVars
  <2> QED
    BY <2>1, <2>2, <2>3, <2>4, <2>5 DEF ReadersNext
<1> QED
  BY <1>1, <1>2, PTL DEF ReadersSpec

-----------------------------------------------------------------------------
(* The replay *)

\* Whatever the log holds, opening one by one what the fold leaves open
\* restores the position of each asset's last fill, if that is an Open.
THEOREM FoldRestores == ReadersSpec => []RestoreMatchesFold
<1>1. log \in Seq(Line) => RestoreMatchesFold
  BY RestoringPortfolio DEF RestoreMatchesFold
<1> QED
  BY <1>1, LogTypes, PTL DEF ReadersType

\* Whatever the log holds, the closed trades are the neighbouring Open-Close
\* pairs of each asset, in closing order.
THEOREM FoldPairsNeighbours == ReadersSpec => []PairsAreNeighbours
<1>1. log \in Seq(Line) => PairsAreNeighbours
  <2> SUFFICES ASSUME log \in Seq(Line) PROVE PairsAreNeighbours
    OBVIOUS
  <2> DEFINE fills == ReadFills(log)
             N == Len(fills)
             Opening(j) == {i \in Preceding(fills, j) : fills[i].intent = "open"}
             closings == {j \in DOMAIN fills : fills[j].intent = "close" /\ Opening(j) # {}}
             order == InOrder(closings, Upward(closings))
  <2>1. fills \in Seq(Fill)
    BY Reading
  <2>2. ClosedTrades(fills) = Neighbours(fills, N)
    BY <2>1, Pairs DEF ClosedTrades
  <2>3. \A j : Opening(j) = Opener(fills, j)
    BY DEF Preceding, Opener, OpenUpto, LastUpto, SameAsset
  <2>4. closings = Closings(fills, N)
    BY <2>1, <2>3 DEF Closings
  <2> HIDE DEF fills, Opening
  <2>5. Neighbours(fills, N) =
            [n \in 1 .. Cardinality(closings) |->
               [open |-> fills[CHOOSE i \in Opening(order[n]) : TRUE],
                close |-> fills[order[n]]]]
    BY <2>3, <2>4 DEF Neighbours
  <2> QED
    BY <2>2, <2>5 DEF PairsAreNeighbours, fills, Opening
<1> QED
  BY <1>1, LogTypes, PTL DEF ReadersType

-----------------------------------------------------------------------------
(* The time of the report *)

\* A log without observations owes no funding.
LEMMA NothingOwed ==
  ASSUME NEW asset, NEW side, NEW notional, NEW from, NEW to
  PROVE  AccruedFunding(asset, side, notional, from, to, <<>>) = 0
<1>1. RowsOf(<<>>, asset) = {}
  BY DEF RowsOf
<1>2. \A S : S = {} => Filter(<<>>, S) = <<>>
  BY FS_EmptySet DEF Filter
<1>3. Relevant(<<>>, asset, from, to) = <<>> /\ PriorTo(<<>>, asset, from) = <<>>
  BY <1>1, <1>2 DEF Relevant, PriorTo
<1> QED
  BY <1>3 DEF AccruedFunding

\* An open position accrues until the last observation, whenever that is read.
LEMMA AccruesUntilObserved ==
  ASSUME NEW open, NEW obs, NEW now, NEW later
  PROVE  Funding(open, LastObserved(obs, now), obs)
             = Funding(open, LastObserved(obs, later), obs)
<1>1. CASE obs = <<>>
  BY <1>1, NothingOwed DEF Funding
<1>2. CASE obs # <<>>
  BY <1>2 DEF LastObserved
<1> QED
  BY <1>1, <1>2

\* The digest of given logs is the same whenever it is run.
THEOREM DigestStandsStill == ReadersSpec => []DigestIgnoresNow
<1>1. ASSUME NEW key, NEW closed, NEW open, NEW mids, NEW obs, NEW now, NEW later
      PROVE  AssetPnl(key, closed, open, mids, obs, now)
                 = AssetPnl(key, closed, open, mids, obs, later)
  BY AccruesUntilObserved DEF AssetPnl
<1>2. ASSUME NEW fills, NEW obs, NEW now, NEW later
      PROVE  DigestOf(fills, obs, now) = DigestOf(fills, obs, later)
  <2> DEFINE closed == ClosedTrades(fills)
             open == OpenTrades(fills)
             mids == LatestMids(obs)
             keys == {Upper[fills[i].asset] : i \in DOMAIN fills}
             shown == {k \in keys : \/ \E i \in DOMAIN closed : RowOf(closed[i].open, k)
                                    \/ \E o \in open : RowOf(o, k)}
             Rows(time) == [key \in shown |-> AssetPnl(key, closed, open, mids, obs, time)]
  <2>1. Rows(now) = Rows(later)
    BY <1>1
  <2>2. \A time : DigestOf(fills, obs, time) =
            LET stamps == {fills[i].filled_at : i \in DOMAIN fills}
                              \cup {obs[i].observed_at : i \in DOMAIN obs}
            IN IF fills = <<>> THEN [rows |-> <<>>]
               ELSE [rows |-> Rows(time), net |-> NetOf(Rows(time)),
                     earliest |-> Min(stamps), latest |-> Max(stamps),
                     positions |-> {OpenRow(o, mids) : o \in open}]
    BY DEF DigestOf
  <2> HIDE DEF Rows
  <2> QED
    BY <2>1, <2>2
<1>3. DigestIgnoresNow
  BY <1>2 DEF DigestIgnoresNow
<1> QED
  BY <1>3, PTL

-----------------------------------------------------------------------------
(* Reading the observations *)

\* How read_funding orders the lines it keeps.
EarlierOrder(lines) ==
    {p \in Whole(lines) \X Whole(lines) : Earlier(lines, p[1], p[2])}

\* What read_funding returns: the observations on disk, each once, oldest first.
LEMMA ReadingFunding ==
  ASSUME NEW lines \in Seq(Observation \cup {Torn})
  PROVE  LET N == Cardinality(Whole(lines))
             order == InOrder(Whole(lines), EarlierOrder(lines))
             obs == ReadFunding(lines)
         IN /\ IsFiniteSet(Whole(lines)) /\ OrderOn(Whole(lines), EarlierOrder(lines))
            /\ \A i \in Whole(lines) : i \in 1 .. Len(lines) /\ lines[i] \in Observation
            /\ obs \in Seq(Observation) /\ Len(obs) = N
            /\ obs = [n \in 1 .. N |-> lines[order[n]]]
            /\ \A m, n \in 1 .. N : m < n => obs[m].observed_at <= obs[n].observed_at
<1> DEFINE S == Whole(lines)
           N == Cardinality(S)
           order == InOrder(S, EarlierOrder(lines))
           obs == ReadFunding(lines)
<1>1. \A i \in S : i \in 1 .. Len(lines) /\ lines[i] \in Observation
  BY DEF Whole
<1>2. \A i \in S : i \in Int /\ lines[i].observed_at \in Int
  BY <1>1 DEF Observation
<1>3. IsFiniteSet(S)
  <2>1. S \in SUBSET (1 .. Len(lines)) /\ IsFiniteSet(1 .. Len(lines))
    BY FS_Interval DEF Whole
  <2> QED
    BY <2>1, FS_Subset
<1>4. OrderOn(S, EarlierOrder(lines))
  BY <1>2 DEF OrderOn, EarlierOrder, Earlier
<1>5. /\ N \in Nat /\ order \in [1 .. N -> S]
      /\ \A m, n \in 1 .. N : m < n <=> <<order[m], order[n]>> \in EarlierOrder(lines)
  BY <1>3, <1>4, InOrderSorts
<1>6. obs = [n \in 1 .. N |-> lines[order[n]]]
  BY DEF ReadFunding, EarlierOrder
<1> HIDE DEF S, N, order, obs
<1>7. \A n \in 1 .. N : obs[n] = lines[order[n]] /\ obs[n] \in Observation
  BY <1>1, <1>5, <1>6
<1>8. obs \in Seq(Observation) /\ Len(obs) = N
  BY <1>5, <1>6, <1>7
<1>9. \A m, n \in 1 .. N : m < n => obs[m].observed_at <= obs[n].observed_at
  <2> SUFFICES ASSUME NEW m \in 1 .. N, NEW n \in 1 .. N, m < n
               PROVE  obs[m].observed_at <= obs[n].observed_at
    OBVIOUS
  <2>1. order[m] \in S /\ order[n] \in S /\ Earlier(lines, order[m], order[n])
    BY <1>5 DEF EarlierOrder
  <2>2. /\ lines[order[m]].observed_at \in Int
        /\ lines[order[n]].observed_at \in Int
        /\ lines[order[m]].observed_at <= lines[order[n]].observed_at
    BY <1>2, <2>1 DEF Earlier
  <2> QED
    BY <1>7, <2>2
<1> QED
  BY <1>1, <1>3, <1>4, <1>6, <1>8, <1>9 DEF S, N, order, obs

-----------------------------------------------------------------------------
(* The latest mids *)

\* The maps from some keys to a mid and its stamp.
Quotes == UNION {[K -> [at : Int, mid : Int]] : K \in SUBSET Keys}

Quote(o) == [at |-> o.observed_at, mid |-> o.mid]

\* What an iteration of latest_mids does to the map.
LEMMA MidStepIs ==
  ASSUME NEW latest \in Quotes, NEW o \in Observation
  PROVE  LET next == MidStep(latest, o)
             key == Upper[o.asset]
             stands == \/ o.mid = NoMid
                       \/ key \in DOMAIN latest /\ o.observed_at <= latest[key].at
         IN /\ key \in Keys /\ next \in Quotes
            /\ stands => next = latest
            /\ ~ stands => /\ DOMAIN next = DOMAIN latest \cup {key}
                           /\ next[key] = Quote(o)
                           /\ \A k \in DOMAIN latest : k # key => next[k] = latest[k]
<1> DEFINE next == MidStep(latest, o)
           key == Upper[o.asset]
           stands == \/ o.mid = NoMid
                     \/ key \in DOMAIN latest /\ o.observed_at <= latest[key].at
<1>1. key \in Keys
  BY DEF Keys, Observation
<1>2. PICK K \in SUBSET Keys : latest \in [K -> [at : Int, mid : Int]]
  BY DEF Quotes
<1>3. CASE stands
  <2>1. next = latest
    BY <1>3 DEF MidStep, MidKey
  <2> QED
    BY <1>1, <1>3, <2>1
<1>4. CASE ~ stands
  <2> DEFINE wider == [k \in K \cup {key} |-> IF k = key THEN Quote(o) ELSE latest[k]]
  <2>1. next = wider
    BY <1>2, <1>4 DEF MidStep, MidKey, Put, Quote
  <2>2. Quote(o) \in [at : Int, mid : Int]
    BY <1>4 DEF Quote, Observation
  <2>3. wider \in [K \cup {key} -> [at : Int, mid : Int]] /\ K \cup {key} \in SUBSET Keys
    BY <1>1, <1>2, <2>2
  <2>4. wider \in Quotes
    BY <2>3 DEF Quotes
  <2> HIDE DEF next
  <2> QED
    BY <1>1, <1>2, <1>4, <2>1, <2>4 DEF next
<1> QED
  BY <1>3, <1>4

\* latest_mids, unfolded.
LEMMA MidsFolding ==
  ASSUME NEW obs \in Seq(Observation)
  PROVE  \E latest \in [0 .. Len(obs) -> Quotes] :
             /\ latest[0] = <<>>
             /\ \A n \in 1 .. Len(obs) : latest[n] = MidStep(latest[n - 1], obs[n])
             /\ LatestMids(obs) = [key \in DOMAIN latest[Len(obs)] |-> latest[Len(obs)][key].mid]
<1> DEFINE N == Len(obs)
           step == [p \in Quotes \X (1 .. N) |-> MidStep(p[1], obs[p[2]])]
           Is(f) == f = [n \in 0 .. N |-> IF n = 0 THEN <<>> ELSE MidStep(f[n - 1], obs[n])]
           latest == CHOOSE f : Is(f)
<1>1. LatestMids(obs) = [key \in DOMAIN latest[N] |-> latest[N][key].mid]
  BY DEF LatestMids
<1>2. <<>> \in Quotes
  <2>1. <<>> \in [{} -> [at : Int, mid : Int]] /\ {} \in SUBSET Keys
    OBVIOUS
  <2> QED
    BY <2>1 DEF Quotes
<1>3. N \in Nat /\ \A n \in 1 .. N : obs[n] \in Observation /\ n - 1 \in 0 .. N
  OBVIOUS
<1>4. step \in [Quotes \X (1 .. N) -> Quotes]
  <2>1. ASSUME NEW p \in Quotes \X (1 .. N) PROVE MidStep(p[1], obs[p[2]]) \in Quotes
    <3>1. p[1] \in Quotes /\ obs[p[2]] \in Observation
      BY <1>3
    <3> QED
      BY <3>1, MidStepIs
  <2> QED
    BY <2>1
<1>5. \A n \in 1 .. N, v \in Quotes : step[<<v, n>>] = MidStep(v, obs[n])
  OBVIOUS
<1> HIDE DEF step, N
<1>6. PICK g \in [0 .. N -> Quotes] : Iterates(g, <<>>, step, N)
  BY <1>2, <1>3, <1>4, Recursion
<1>7. Is(g)
  <2>1. \A n \in 1 .. N : g[n] = step[<<g[n - 1], n>>] /\ g[n - 1] \in Quotes
    BY <1>3, <1>6 DEF Iterates
  <2>2. \A n \in 0 .. N : g[n] = IF n = 0 THEN <<>> ELSE MidStep(g[n - 1], obs[n])
    BY <1>3, <1>5, <1>6, <2>1 DEF Iterates
  <2> QED
    BY <1>6, <2>2
<1>8. Is(latest)
  BY <1>7
<1> HIDE DEF latest
<1>9. latest = [n \in 0 .. N |-> latest[n]]
  BY <1>8
<1>10. latest[0] = <<>> /\ \A n \in 1 .. N : latest[n] = MidStep(latest[n - 1], obs[n])
  <2>1. \A n \in 0 .. N : latest[n] = IF n = 0 THEN <<>> ELSE MidStep(latest[n - 1], obs[n])
    BY <1>8, Zenon
  <2>2. 0 \in 0 .. N /\ \A n \in 1 .. N : n \in 0 .. N /\ n # 0
    BY <1>3
  <2> QED
    BY <2>1, <2>2
<1>11. Recurs(latest, Quotes, <<>>, step, N)
  BY <1>5, <1>9, <1>10 DEF Recurs
<1>12. latest \in [0 .. N -> Quotes]
  BY <1>2, <1>3, <1>4, <1>11, Unfolded
<1> QED
  BY <1>1, <1>10, <1>12 DEF N

\* The priced observations of an asset among the first n.
PricedUpto(obs, n, key) ==
    {i \in 1 .. n : obs[i].mid # NoMid /\ Upper[obs[i].asset] = key}

\* The map has the assets priced so far, each with a latest quote.
QuotesLatest(obs, n, latest) ==
    \A key \in Keys :
        /\ key \in DOMAIN latest <=> PricedUpto(obs, n, key) # {}
        /\ key \in DOMAIN latest =>
               \E i \in PricedUpto(obs, n, key) :
                   /\ latest[key] = Quote(obs[i])
                   /\ \A j \in PricedUpto(obs, n, key) :
                          obs[j].observed_at <= obs[i].observed_at

\* An iteration keeps it so.
LEMMA QuotesStep ==
  ASSUME NEW obs \in Seq(Observation), NEW n \in Nat, n + 1 <= Len(obs),
         NEW latest \in Quotes, QuotesLatest(obs, n, latest)
  PROVE  QuotesLatest(obs, n + 1, MidStep(latest, obs[n + 1]))
<1> DEFINE o == obs[n + 1]
           asset == Upper[o.asset]
           next == MidStep(latest, o)
           Old(key) == PricedUpto(obs, n, key)
           New(key) == PricedUpto(obs, n + 1, key)
           stands == \/ o.mid = NoMid
                     \/ asset \in DOMAIN latest /\ o.observed_at <= latest[asset].at
<1>1. o \in Observation /\ \A i \in 1 .. n + 1 : obs[i].observed_at \in Int
  <2>1. \A i \in 1 .. n + 1 : i \in 1 .. Len(obs)
    OBVIOUS
  <2>2. \A i \in 1 .. n + 1 : obs[i] \in Observation
    BY <2>1
  <2> QED
    BY <2>2 DEF Observation
<1>2. \A i : i \in 1 .. n + 1 <=> i \in 1 .. n \/ i = n + 1
  OBVIOUS
<1>3. \A key : New(key) = IF o.mid # NoMid /\ asset = key THEN Old(key) \cup {n + 1}
                          ELSE Old(key)
  BY <1>2 DEF PricedUpto
<1>4. \A key : \A i \in Old(key) : i \in 1 .. n /\ i \in 1 .. n + 1
  BY <1>2 DEF PricedUpto
<1>5. /\ asset \in Keys
      /\ stands => next = latest
      /\ ~ stands => /\ DOMAIN next = DOMAIN latest \cup {asset}
                     /\ next[asset] = Quote(o)
                     /\ \A k \in DOMAIN latest : k # asset => next[k] = latest[k]
  BY <1>1, MidStepIs
<1> HIDE DEF o, next, asset, Old, New, stands
<1> SUFFICES ASSUME NEW key \in Keys
             PROVE  /\ key \in DOMAIN next <=> New(key) # {}
                    /\ key \in DOMAIN next =>
                           \E i \in New(key) :
                               /\ next[key] = Quote(obs[i])
                               /\ \A j \in New(key) :
                                      obs[j].observed_at <= obs[i].observed_at
  BY DEF QuotesLatest, next, o, New
<1>6. /\ key \in DOMAIN latest <=> Old(key) # {}
      /\ key \in DOMAIN latest =>
             \E i \in Old(key) :
                 /\ latest[key] = Quote(obs[i])
                 /\ \A j \in Old(key) : obs[j].observed_at <= obs[i].observed_at
  BY DEF QuotesLatest, Old
<1>7. CASE New(key) = Old(key)
  <2>1. o.mid = NoMid \/ asset # key
    <3>1. n + 1 \notin Old(key)
      BY <1>4
    <3> QED
      BY <1>3, <1>7, <3>1
  <2>2. /\ key \in DOMAIN next <=> key \in DOMAIN latest
        /\ key \in DOMAIN latest => next[key] = latest[key]
    BY <1>5, <2>1 DEF stands
  <2> QED
    BY <1>6, <1>7, <2>2
<1>8. CASE New(key) # Old(key)
  <2>1. o.mid # NoMid /\ asset = key /\ New(key) = Old(key) \cup {n + 1}
    BY <1>3, <1>8
  <2>2. CASE stands
    <3>1. key \in DOMAIN latest /\ o.observed_at <= latest[key].at /\ next = latest
      BY <1>5, <2>1, <2>2 DEF stands
    <3>2. PICK i \in Old(key) :
              /\ latest[key] = Quote(obs[i])
              /\ \A j \in Old(key) : obs[j].observed_at <= obs[i].observed_at
      BY <1>6, <3>1
    <3>3. obs[n + 1].observed_at <= obs[i].observed_at
      BY <3>1, <3>2 DEF Quote, o
    <3> QED
      BY <2>1, <3>1, <3>2, <3>3
  <2>3. CASE ~ stands
    <3>1. key \in DOMAIN next /\ next[key] = Quote(obs[n + 1])
      BY <1>5, <2>1, <2>3 DEF o
    <3>2. \A j \in Old(key) : obs[j].observed_at <= obs[n + 1].observed_at
      <4> SUFFICES ASSUME NEW j \in Old(key)
                   PROVE  obs[j].observed_at <= obs[n + 1].observed_at
        OBVIOUS
      <4>1. PICK i \in Old(key) :
                /\ latest[key] = Quote(obs[i])
                /\ obs[j].observed_at <= obs[i].observed_at
        BY <1>6
      <4>2. ~ (obs[n + 1].observed_at <= obs[i].observed_at)
        BY <1>6, <2>1, <2>3, <4>1 DEF stands, Quote, o
      <4>3. i \in 1 .. n + 1 /\ j \in 1 .. n + 1 /\ n + 1 \in 1 .. n + 1
        BY <1>4
      <4> QED
        BY <1>1, <4>1, <4>2, <4>3
    <3>3. obs[n + 1].observed_at <= obs[n + 1].observed_at
      <4>1. n + 1 \in 1 .. n + 1
        OBVIOUS
      <4> QED
        BY <1>1, <4>1
    <3> QED
      BY <2>1, <3>1, <3>2, <3>3
  <2> QED
    BY <2>2, <2>3
<1> QED
  BY <1>7, <1>8

\* latest_mids has each asset that was ever priced, with a latest of its mids.
LEMMA MidsAreLatest ==
  ASSUME NEW obs \in Seq(Observation)
  PROVE  \A key \in Keys :
             LET priced == PricedUpto(obs, Len(obs), key)
                 mids == LatestMids(obs)
             IN /\ key \in DOMAIN mids <=> priced # {}
                /\ key \in DOMAIN mids => \E i \in LatestOf(obs, priced) : mids[key] = obs[i].mid
<1> DEFINE N == Len(obs)
<1>1. PICK latest \in [0 .. N -> Quotes] :
          /\ latest[0] = <<>>
          /\ \A n \in 1 .. N : latest[n] = MidStep(latest[n - 1], obs[n])
          /\ LatestMids(obs) = [key \in DOMAIN latest[N] |-> latest[N][key].mid]
  BY MidsFolding
<1> DEFINE S == {n \in Nat : n <= N => QuotesLatest(obs, n, latest[n])}
<1>2. 0 \in S
  <2>1. \A key : PricedUpto(obs, 0, key) = {}
    BY DEF PricedUpto
  <2>2. DOMAIN latest[0] = {}
    BY <1>1
  <2> QED
    BY <2>1, <2>2 DEF QuotesLatest
<1>3. ASSUME NEW n \in Nat, n \in S PROVE n + 1 \in S
  <2> SUFFICES ASSUME n + 1 <= N PROVE QuotesLatest(obs, n + 1, latest[n + 1])
    OBVIOUS
  <2>1. n \in 0 .. N /\ n + 1 \in 1 .. N /\ (n + 1) - 1 = n
    OBVIOUS
  <2>2. latest[n + 1] = MidStep(latest[n], obs[n + 1])
    BY <1>1, <2>1
  <2>3. QuotesLatest(obs, n, latest[n]) /\ latest[n] \in Quotes
    BY <1>1, <1>3, <2>1
  <2> QED
    BY <2>2, <2>3, QuotesStep
<1>4. N \in Nat /\ QuotesLatest(obs, N, latest[N])
  <2> HIDE DEF S
  <2>1. N \in Nat /\ N \in S
    BY <1>2, <1>3, Induct
  <2> QED
    BY <2>1 DEF S
<1> HIDE DEF N
<1> SUFFICES ASSUME NEW key \in Keys
             PROVE  LET priced == PricedUpto(obs, N, key)
                        mids == LatestMids(obs)
                    IN /\ key \in DOMAIN mids <=> priced # {}
                       /\ key \in DOMAIN mids =>
                              \E i \in LatestOf(obs, priced) : mids[key] = obs[i].mid
  BY DEF N
<1>5. DOMAIN LatestMids(obs) = DOMAIN latest[N]
  BY <1>1
<1>6. ASSUME key \in DOMAIN latest[N]
      PROVE  \E i \in LatestOf(obs, PricedUpto(obs, N, key)) :
                 LatestMids(obs)[key] = obs[i].mid
  <2>1. PICK i \in PricedUpto(obs, N, key) :
            /\ latest[N][key] = Quote(obs[i])
            /\ \A j \in PricedUpto(obs, N, key) : obs[j].observed_at <= obs[i].observed_at
    BY <1>4, <1>6 DEF QuotesLatest
  <2>2. LatestMids(obs)[key] = obs[i].mid
    BY <1>1, <1>6, <2>1 DEF Quote
  <2> QED
    BY <2>1, <2>2 DEF LatestOf
<1> QED
  BY <1>4, <1>5, <1>6 DEF QuotesLatest

\* The mark of every asset is its latest mid, under any spelling.
THEOREM MarksAreLatest == ReadersSpec => []MarkIsLatest
<1>1. ReadersType => MarkIsLatest
  <2> SUFFICES ASSUME ReadersType PROVE MarkIsLatest
    OBVIOUS
  <2> DEFINE obs == ReadFunding(observations)
             Of(key) == {i \in {j \in DOMAIN obs : obs[j].mid # NoMid} :
                            Upper[obs[i].asset] = key}
  <2>1. obs \in Seq(Observation)
    BY ReadingFunding DEF ReadersType
  <2> HIDE DEF obs
  <2>2. \A key : Of(key) = PricedUpto(obs, Len(obs), key)
    BY <2>1 DEF PricedUpto
  <2>3. \A key \in Keys :
            IF Of(key) = {} THEN key \notin DOMAIN LatestMids(obs)
            ELSE /\ key \in DOMAIN LatestMids(obs)
                 /\ \E i \in LatestOf(obs, Of(key)) : LatestMids(obs)[key] = obs[i].mid
    BY <2>1, <2>2, MidsAreLatest
  <2> QED
    BY <2>3 DEF MarkIsLatest, obs
<1> QED
  BY <1>1, LogTypes, PTL

-----------------------------------------------------------------------------
(* The summaries of stats *)

Kinds == {"open", "close", "hold"}

Row == [asset : Assets, kind : Kinds, at : Int]

\* The maps from some of the keys Ks to values Vs.
MapsOf(Ks, Vs) == UNION {[K -> Vs] : K \in SUBSET Ks}

\* The maps from some kinds to counts, and from some assets to what is shown.
KindCounts == MapsOf(Kinds, Nat)

Seen == [counts : KindCounts, last_kind : Kinds, at : Int]

Summaries == MapsOf(Assets, Seen)

\* The first row of an asset, and each one after it.
FirstSeen(row) ==
    [counts |-> Put(<<>>, row.kind, 1), last_kind |-> row.kind, at |-> row.at]

NextSeen(seen, row) ==
    [counts |-> Put(seen.counts, row.kind,
                    (IF row.kind \in DOMAIN seen.counts THEN seen.counts[row.kind]
                     ELSE 0) + 1),
     last_kind |-> IF row.at >= seen.at THEN row.kind ELSE seen.last_kind,
     at |-> IF row.at >= seen.at THEN row.at ELSE seen.at]

\* Putting a value in a map.
LEMMA PutIn ==
  ASSUME NEW Ks, NEW Vs, NEW map \in MapsOf(Ks, Vs),
         NEW key \in Ks, NEW value \in Vs
  PROVE  LET next == Put(map, key, value)
         IN /\ next \in MapsOf(Ks, Vs)
            /\ \A k \in DOMAIN next : next[k] \in Vs
            /\ DOMAIN next = DOMAIN map \cup {key}
            /\ next[key] = value
            /\ \A k \in DOMAIN map : k # key => next[k] = map[k]
<1>1. PICK K \in SUBSET Ks : map \in [K -> Vs]
  BY DEF MapsOf
<1> DEFINE wider == [k \in K \cup {key} |-> IF k = key THEN value ELSE map[k]]
<1>2. Put(map, key, value) = wider
  BY <1>1 DEF Put
<1>3. K \cup {key} \in SUBSET Ks /\ wider \in [K \cup {key} -> Vs]
  BY <1>1
<1>4. wider \in MapsOf(Ks, Vs)
  BY <1>3 DEF MapsOf
<1> QED
  BY <1>1, <1>2, <1>3, <1>4

\* An entry of a summary stays an entry.
LEMMA SeenType ==
  ASSUME NEW row \in Row
  PROVE  /\ FirstSeen(row) \in Seen
         /\ \A seen \in Seen : NextSeen(seen, row) \in Seen
<1>1. row.kind \in Kinds /\ row.at \in Int
  BY DEF Row
<1>2. FirstSeen(row) \in Seen
  <2>1. <<>> \in [{} -> Nat] /\ {} \in SUBSET Kinds
    OBVIOUS
  <2>2. <<>> \in MapsOf(Kinds, Nat) /\ 1 \in Nat
    BY <2>1 DEF MapsOf
  <2>3. Put(<<>>, row.kind, 1) \in KindCounts
    BY <1>1, <2>2, PutIn DEF KindCounts
  <2> QED
    BY <1>1, <2>3 DEF FirstSeen, Seen
<1>3. ASSUME NEW seen \in Seen PROVE NextSeen(seen, row) \in Seen
  <2>1. seen.counts \in KindCounts /\ seen.last_kind \in Kinds /\ seen.at \in Int
    BY DEF Seen
  <2> DEFINE count == IF row.kind \in DOMAIN seen.counts THEN seen.counts[row.kind] ELSE 0
  <2>2. count + 1 \in Nat
    BY <2>1 DEF KindCounts, MapsOf
  <2> HIDE DEF count
  <2>3. Put(seen.counts, row.kind, count + 1) \in KindCounts
    BY <1>1, <2>1, <2>2, PutIn DEF KindCounts
  <2> QED
    BY <1>1, <2>1, <2>3 DEF NextSeen, Seen, count
<1> QED
  BY <1>2, <1>3

\* What a row does to the map.
LEMMA CountRowIs ==
  ASSUME NEW map \in Summaries, NEW row \in Row
  PROVE  LET next == CountRow(map, row)
         IN /\ next \in Summaries
            /\ DOMAIN next = DOMAIN map \cup {row.asset}
            /\ next[row.asset] = IF row.asset \in DOMAIN map
                                 THEN NextSeen(map[row.asset], row) ELSE FirstSeen(row)
            /\ \A a \in DOMAIN map : a # row.asset => next[a] = map[a]
<1> DEFINE value == IF row.asset \in DOMAIN map THEN NextSeen(map[row.asset], row)
                    ELSE FirstSeen(row)
<1>1. CountRow(map, row) = Put(map, row.asset, value)
  BY DEF CountRow, NextSeen, FirstSeen, Supersedes
<1>2. row.asset \in Assets
  BY DEF Row
<1>3. value \in Seen
  <2>1. row.asset \in DOMAIN map => map[row.asset] \in Seen
    BY DEF Summaries, MapsOf
  <2> QED
    BY <2>1, SeenType
<1> HIDE DEF value
<1>4. map \in MapsOf(Assets, Seen)
  BY DEF Summaries
<1>5. ASSUME NEW key \in Assets, NEW v \in Seen
      PROVE  /\ Put(map, key, v) \in MapsOf(Assets, Seen)
             /\ DOMAIN Put(map, key, v) = DOMAIN map \cup {key}
             /\ Put(map, key, v)[key] = v
             /\ \A a \in DOMAIN map : a # key => Put(map, key, v)[a] = map[a]
  BY <1>4, PutIn
<1> DEFINE next == CountRow(map, row)
<1>6. /\ next \in MapsOf(Assets, Seen)
      /\ DOMAIN next = DOMAIN map \cup {row.asset}
      /\ next[row.asset] = value
      /\ \A a \in DOMAIN map : a # row.asset => next[a] = map[a]
  <2> DEFINE key == row.asset
  <2>1. key \in Assets /\ value \in Seen
    BY <1>2, <1>3
  <2>2. next = Put(map, key, value)
    BY <1>1
  <2> HIDE DEF key, next
  <2>3. /\ next \in MapsOf(Assets, Seen)
        /\ DOMAIN next = DOMAIN map \cup {key}
        /\ next[key] = value
        /\ \A a \in DOMAIN map : a # key => next[a] = map[a]
    BY <1>5, <2>1, <2>2
  <2> QED
    BY <2>3 DEF key
<1> HIDE DEF next
<1> QED
  BY <1>6 DEF value, next, Summaries

\* One line of the pass.
PassStep(rows, map, n) == IF n \in DOMAIN rows THEN CountRow(map, rows[n]) ELSE map

\* The pass, unfolded.
LEMMA SummaryFolding ==
  ASSUME NEW size \in Nat, NEW P \in SUBSET (1 .. size), NEW rows \in [P -> Row]
  PROVE  \E map \in [0 .. size -> Summaries] :
             /\ map[0] = <<>>
             /\ \A n \in 1 .. size : map[n] = PassStep(rows, map[n - 1], n)
             /\ Summary(rows, size) = map[size]
<1> DEFINE step == [p \in Summaries \X (1 .. size) |-> PassStep(rows, p[1], p[2])]
           Is(f) == f = [n \in 0 .. size |->
                            IF n = 0 THEN <<>>
                            ELSE IF n \in DOMAIN rows THEN CountRow(f[n - 1], rows[n])
                            ELSE f[n - 1]]
           map == CHOOSE f : Is(f)
<1>1. Summary(rows, size) = map[size]
  BY DEF Summary
<1>2. <<>> \in Summaries
  <2>1. <<>> \in [{} -> Seen] /\ {} \in SUBSET Assets
    OBVIOUS
  <2> QED
    BY <2>1 DEF Summaries, MapsOf
<1>3. ASSUME NEW v \in Summaries, NEW n \in 1 .. size PROVE PassStep(rows, v, n) \in Summaries
  <2>1. CASE n \in P
    <3>1. rows[n] \in Row
      BY <2>1
    <3>2. CountRow(v, rows[n]) \in Summaries
      BY <3>1, CountRowIs
    <3> QED
      BY <2>1, <3>2 DEF PassStep
  <2>2. CASE n \notin P
    BY <2>2 DEF PassStep
  <2> QED
    BY <2>1, <2>2
<1>4. step \in [Summaries \X (1 .. size) -> Summaries]
  BY <1>3
<1>5. \A n \in 1 .. size, v \in Summaries : step[<<v, n>>] = PassStep(rows, v, n)
  OBVIOUS
<1>6. \A n \in 1 .. size : n - 1 \in 0 .. size
  OBVIOUS
<1> HIDE DEF step
<1>7. PICK g \in [0 .. size -> Summaries] : Iterates(g, <<>>, step, size)
  BY <1>2, <1>4, Recursion
<1>8. Is(g)
  <2>1. \A n \in 1 .. size : g[n] = PassStep(rows, g[n - 1], n)
    BY <1>5, <1>6, <1>7 DEF Iterates
  <2>2. \A n \in 0 .. size : g[n] = IF n = 0 THEN <<>>
                                    ELSE IF n \in DOMAIN rows THEN CountRow(g[n - 1], rows[n])
                                    ELSE g[n - 1]
    BY <1>7, <2>1 DEF Iterates, PassStep
  <2> QED
    BY <1>7, <2>2
<1>9. Is(map)
  BY <1>8
<1> HIDE DEF map
<1>10. map = [n \in 0 .. size |-> map[n]]
  BY <1>9
<1>11. map[0] = <<>> /\ \A n \in 1 .. size : map[n] = PassStep(rows, map[n - 1], n)
  <2>1. \A n \in 0 .. size : map[n] = IF n = 0 THEN <<>>
                                      ELSE IF n \in DOMAIN rows
                                      THEN CountRow(map[n - 1], rows[n]) ELSE map[n - 1]
    BY <1>9, Zenon
  <2>2. 0 \in 0 .. size /\ \A n \in 1 .. size : n \in 0 .. size /\ n # 0
    OBVIOUS
  <2> QED
    BY <2>1, <2>2 DEF PassStep
<1>12. Recurs(map, Summaries, <<>>, step, size)
  BY <1>5, <1>10, <1>11 DEF Recurs
<1>13. map \in [0 .. size -> Summaries]
  BY <1>2, <1>4, <1>12, Unfolded
<1> QED
  BY <1>1, <1>11, <1>13

\* The rows of an asset among the first n lines, and how many of each kind.
RowsUpto(rows, n, a) == {i \in DOMAIN rows : i <= n /\ rows[i].asset = a}

CountsOf(rows, S) ==
    [kind \in {rows[i].kind : i \in S} |-> Cardinality({i \in S : rows[i].kind = kind})]

\* Row i is the latest of S, the file's order deciding between equal stamps.
LatestRow(rows, S, i) ==
    \A j \in S \ {i} : \/ rows[j].at < rows[i].at
                       \/ rows[j].at = rows[i].at /\ j < i

\* The entry of an asset tells of its rows so far.
TellsOf(seen, rows, S) ==
    /\ seen.counts = CountsOf(rows, S)
    /\ \E i \in S : /\ seen.last_kind = rows[i].kind /\ seen.at = rows[i].at
                    /\ LatestRow(rows, S, i)

Tells(map, rows, n) ==
    \A a \in Assets :
        /\ a \in DOMAIN map <=> RowsUpto(rows, n, a) # {}
        /\ a \in DOMAIN map => TellsOf(map[a], rows, RowsUpto(rows, n, a))

\* One row more is one more of its kind.
LEMMA CountsStep ==
  ASSUME NEW rows, NEW S, IsFiniteSet(S), NEW z, z \notin S
  PROVE  CountsOf(rows, S \cup {z}) =
             Put(CountsOf(rows, S), rows[z].kind,
                 (IF rows[z].kind \in DOMAIN CountsOf(rows, S)
                  THEN CountsOf(rows, S)[rows[z].kind] ELSE 0) + 1)
<1> DEFINE kind == rows[z].kind
           Of(T, k) == {i \in T : rows[i].kind = k}
           old == CountsOf(rows, S)
           W == S \cup {z}
           count == IF kind \in DOMAIN old THEN old[kind] ELSE 0
<1>1. DOMAIN old = {rows[i].kind : i \in S}
      /\ \A k \in DOMAIN old : old[k] = Cardinality(Of(S, k))
  BY DEF CountsOf
<1>2. {rows[i].kind : i \in W} = DOMAIN old \cup {kind}
  BY <1>1
<1>3. \A k : k # kind => Of(W, k) = Of(S, k)
  OBVIOUS
<1>4. Of(W, kind) = Of(S, kind) \cup {z} /\ z \notin Of(S, kind)
  OBVIOUS
<1>5. IsFiniteSet(Of(S, kind))
  <2>1. Of(S, kind) \in SUBSET S
    OBVIOUS
  <2> QED
    BY <2>1, FS_Subset
<1>6. kind \notin DOMAIN old => Of(S, kind) = {}
  BY <1>1
<1> HIDE DEF Of, kind
<1>7. Cardinality(Of(W, kind)) = Cardinality(Of(S, kind)) + 1
  BY <1>4, <1>5, FS_AddElement
<1>8. count = Cardinality(Of(S, kind))
  BY <1>1, <1>6, FS_EmptySet
<1>9. CountsOf(rows, W) = [k \in DOMAIN old \cup {kind} |-> Cardinality(Of(W, k))]
  BY <1>2 DEF CountsOf, Of
<1> HIDE DEF old, count, W
<1>10. \A k \in DOMAIN old \cup {kind} :
           Cardinality(Of(W, k)) = IF k = kind THEN count + 1 ELSE old[k]
  BY <1>1, <1>3, <1>7, <1>8
<1>11. CountsOf(rows, W) = Put(old, kind, count + 1)
  BY <1>9, <1>10 DEF Put
<1> QED
  BY <1>11 DEF W, old, count, kind

\* The row that comes later in the file is the latest unless a stamp is later.
LEMMA LatestStep ==
  ASSUME NEW P \in SUBSET Nat, NEW rows \in [P -> Row], NEW S \in SUBSET P,
         NEW z \in P, \A j \in S : j < z,
         NEW i \in S, LatestRow(rows, S, i)
  PROVE  /\ rows[z].at >= rows[i].at => LatestRow(rows, S \cup {z}, z)
         /\ ~ (rows[z].at >= rows[i].at) => LatestRow(rows, S \cup {z}, i)
<1>1. \A j \in P : rows[j].at \in Int /\ j \in Nat
  BY DEF Row
<1>2. ASSUME rows[z].at >= rows[i].at, NEW j \in S
      PROVE  rows[j].at < rows[z].at \/ (rows[j].at = rows[z].at /\ j < z)
  <2>1. rows[j].at <= rows[i].at
    BY <1>1 DEF LatestRow
  <2> QED
    BY <1>1, <1>2, <2>1
<1>3. ASSUME ~ (rows[z].at >= rows[i].at) PROVE rows[z].at < rows[i].at
  BY <1>1, <1>3
<1> QED
  BY <1>2, <1>3 DEF LatestRow

\* The entry after one row more.
LEMMA EntryStep ==
  ASSUME NEW P \in SUBSET Nat, NEW rows \in [P -> Row], NEW S \in SUBSET P, IsFiniteSet(S),
         NEW z \in P, \A j \in S : j < z, z \notin S
  PROVE  /\ S = {} => TellsOf(FirstSeen(rows[z]), rows, S \cup {z})
         /\ \A seen : TellsOf(seen, rows, S) =>
                          TellsOf(NextSeen(seen, rows[z]), rows, S \cup {z})
<1> DEFINE row == rows[z]
           kind == rows[z].kind
           W == S \cup {z}
<1>1. CountsOf(rows, W) = Put(CountsOf(rows, S), kind,
                              (IF kind \in DOMAIN CountsOf(rows, S)
                               THEN CountsOf(rows, S)[kind] ELSE 0) + 1)
  BY CountsStep
<1>2. ASSUME S = {} PROVE TellsOf(FirstSeen(row), rows, W)
  <2>1. CountsOf(rows, S) = <<>>
    BY <1>2 DEF CountsOf
  <2>2. kind \notin DOMAIN CountsOf(rows, S)
    BY <2>1
  <2>3. FirstSeen(row).counts = Put(<<>>, kind, 1)
    BY DEF FirstSeen
  <2>4. FirstSeen(row).counts = CountsOf(rows, W)
    BY <1>1, <2>1, <2>2, <2>3
  <2>5. z \in W /\ LatestRow(rows, W, z)
    BY <1>2 DEF LatestRow
  <2>6. FirstSeen(row).last_kind = rows[z].kind /\ FirstSeen(row).at = rows[z].at
    BY DEF FirstSeen
  <2> QED
    BY <2>4, <2>5, <2>6 DEF TellsOf
<1>3. ASSUME NEW seen, TellsOf(seen, rows, S) PROVE TellsOf(NextSeen(seen, row), rows, W)
  <2> DEFINE next == NextSeen(seen, row)
  <2>1. next.counts = CountsOf(rows, W)
    BY <1>1, <1>3 DEF NextSeen, TellsOf
  <2>2. PICK i \in S : /\ seen.last_kind = rows[i].kind /\ seen.at = rows[i].at
                       /\ LatestRow(rows, S, i)
    BY <1>3 DEF TellsOf
  <2>3. /\ rows[z].at >= rows[i].at => LatestRow(rows, W, z)
        /\ ~ (rows[z].at >= rows[i].at) => LatestRow(rows, W, i)
    BY <2>2, LatestStep
  <2>4. /\ next.last_kind = IF row.at >= seen.at THEN row.kind ELSE seen.last_kind
        /\ next.at = IF row.at >= seen.at THEN row.at ELSE seen.at
    BY DEF NextSeen
  <2> HIDE DEF next
  <2>5. \E k \in W : /\ next.last_kind = rows[k].kind /\ next.at = rows[k].at
                     /\ LatestRow(rows, W, k)
    BY <2>2, <2>3, <2>4
  <2> QED
    BY <2>1, <2>5 DEF TellsOf, next
<1> QED
  BY <1>2, <1>3

\* One more line, and the summary tells of that one too.
LEMMA TellsStep ==
  ASSUME NEW size \in Nat, NEW P \in SUBSET (1 .. size), NEW rows \in [P -> Row],
         NEW n \in Nat, n + 1 <= size,
         NEW map \in Summaries, Tells(map, rows, n)
  PROVE  Tells(PassStep(rows, map, n + 1), rows, n + 1)
<1> DEFINE z == n + 1
           next == PassStep(rows, map, z)
           Old(a) == RowsUpto(rows, n, a)
           New(a) == RowsUpto(rows, z, a)
<1>1. \A i \in P : i \in Nat /\ (i <= z <=> i <= n \/ i = z)
  OBVIOUS
<1>2. \A a : Old(a) \in SUBSET P /\ z \notin Old(a) /\ \A j \in Old(a) : j < z
  BY <1>1 DEF RowsUpto
<1>3. \A a : IsFiniteSet(Old(a))
  <2>0. IsFiniteSet(1 .. size)
    BY FS_Interval
  <2>1. IsFiniteSet(P)
    BY <2>0, FS_Subset
  <2> HIDE DEF Old
  <2> QED
    BY <1>2, <2>1, FS_Subset
<1>4. CASE z \notin P
  <2>1. next = map
    BY <1>4 DEF PassStep
  <2>2. \A a : New(a) = Old(a)
    BY <1>1, <1>4 DEF RowsUpto
  <2> QED
    BY <2>1, <2>2 DEF Tells
<1>5. CASE z \in P
  <2> DEFINE asset == rows[z].asset
  <2>1. rows[z] \in Row /\ asset \in Assets
    BY <1>5 DEF Row
  <2>2. next = CountRow(map, rows[z])
    BY <1>5 DEF PassStep
  <2>3. /\ DOMAIN next = DOMAIN map \cup {asset}
        /\ next[asset] = IF asset \in DOMAIN map THEN NextSeen(map[asset], rows[z])
                         ELSE FirstSeen(rows[z])
        /\ \A a \in DOMAIN map : a # asset => next[a] = map[a]
    <3> DEFINE row == rows[z]
    <3>1. next = CountRow(map, row) /\ asset = row.asset /\ row \in Row
      BY <2>1, <2>2
    <3> HIDE DEF next, row, asset
    <3>2. /\ DOMAIN next = DOMAIN map \cup {row.asset}
          /\ next[row.asset] = IF row.asset \in DOMAIN map THEN NextSeen(map[row.asset], row)
                               ELSE FirstSeen(row)
          /\ \A a \in DOMAIN map : a # row.asset => next[a] = map[a]
      BY <3>1, CountRowIs
    <3> QED
      BY <3>1, <3>2 DEF row
  <2>4. \A a : New(a) = IF a = asset THEN Old(a) \cup {z} ELSE Old(a)
    BY <1>1, <1>5 DEF RowsUpto
  <2>5. P \in SUBSET Nat
    OBVIOUS
  <2>6. /\ Old(asset) = {} => TellsOf(FirstSeen(rows[z]), rows, Old(asset) \cup {z})
        /\ \A seen : TellsOf(seen, rows, Old(asset)) =>
                         TellsOf(NextSeen(seen, rows[z]), rows, Old(asset) \cup {z})
    <3> HIDE DEF Old, z
    <3> QED
      BY <1>2, <1>3, <1>5, <2>5, EntryStep
  <2> HIDE DEF next, asset, Old, New, z
  <2>7. \A a \in Assets : /\ a \in DOMAIN map <=> Old(a) # {}
                          /\ a \in DOMAIN map => TellsOf(map[a], rows, Old(a))
    BY DEF Tells, Old
  <2>8. TellsOf(next[asset], rows, New(asset)) /\ New(asset) # {} /\ asset \in DOMAIN next
    BY <2>1, <2>3, <2>4, <2>6, <2>7
  <2>9. \A a \in Assets : /\ a \in DOMAIN next <=> New(a) # {}
                          /\ a \in DOMAIN next => TellsOf(next[a], rows, New(a))
    BY <2>3, <2>4, <2>7, <2>8
  <2> QED
    BY <2>9 DEF Tells, New, next, z
<1> QED
  BY <1>4, <1>5

\* What stats shows of decisions and fills: every row once, and the latest.
LEMMA Summarised ==
  ASSUME NEW size \in Nat, NEW P \in SUBSET (1 .. size), NEW rows \in [P -> Row]
  PROVE  LET made == Summary(rows, size)
             Of(a) == {i \in P : rows[i].asset = a}
         IN /\ DOMAIN made = {rows[i].asset : i \in P}
            /\ \A a \in DOMAIN made : TellsOf(made[a], rows, Of(a))
<1>1. PICK map \in [0 .. size -> Summaries] :
          /\ map[0] = <<>>
          /\ \A n \in 1 .. size : map[n] = PassStep(rows, map[n - 1], n)
          /\ Summary(rows, size) = map[size]
  BY SummaryFolding
<1> DEFINE S == {n \in Nat : n <= size => Tells(map[n], rows, n)}
<1>0. DOMAIN rows = P /\ \A i \in P : i \in Nat /\ ~ (i <= 0) /\ i <= size
  OBVIOUS
<1>2. 0 \in S
  <2>1. \A a : RowsUpto(rows, 0, a) = {}
    BY <1>0 DEF RowsUpto
  <2>2. DOMAIN map[0] = {}
    BY <1>1
  <2> QED
    BY <2>1, <2>2 DEF Tells
<1>3. ASSUME NEW n \in Nat, n \in S PROVE n + 1 \in S
  <2> SUFFICES ASSUME n + 1 <= size PROVE Tells(map[n + 1], rows, n + 1)
    OBVIOUS
  <2>1. n \in 0 .. size /\ n + 1 \in 1 .. size /\ (n + 1) - 1 = n
    OBVIOUS
  <2>2. map[n + 1] = PassStep(rows, map[n], n + 1)
    BY <1>1, <2>1
  <2>3. Tells(map[n], rows, n) /\ map[n] \in Summaries
    BY <1>1, <1>3, <2>1
  <2> QED
    BY <2>2, <2>3, TellsStep
<1>4. Tells(Summary(rows, size), rows, size)
  <2> HIDE DEF S
  <2>1. size \in S
    BY <1>2, <1>3, Induct
  <2> QED
    BY <1>1, <2>1 DEF S
<1> DEFINE made == Summary(rows, size)
           Of(a) == {i \in P : rows[i].asset = a}
<1>5. \A a : RowsUpto(rows, size, a) = Of(a)
  BY <1>0 DEF RowsUpto
<1>6. \A i \in P : rows[i].asset \in Assets
  BY DEF Row
<1>7. DOMAIN made \in SUBSET Assets
  <2>1. made \in Summaries
    BY <1>1
  <2> QED
    BY <2>1 DEF Summaries, MapsOf
<1> HIDE DEF made
<1>8. \A a \in Assets : /\ a \in DOMAIN made <=> Of(a) # {}
                        /\ a \in DOMAIN made => TellsOf(made[a], rows, Of(a))
  BY <1>4, <1>5 DEF Tells, made
<1> QED
  BY <1>6, <1>7, <1>8 DEF made

\* What print_fills sums up are the fills on disk.
LEMMA FillsSummarised ==
  ASSUME NEW lines \in Seq(Line)
  PROVE  LET made == FillSummary(lines)
         IN /\ DOMAIN made = {lines[i].asset : i \in Whole(lines)}
            /\ \A a \in DOMAIN made :
                   \E i \in Whole(lines) :
                       /\ lines[i].asset = a /\ made[a].last_kind = lines[i].intent
                       /\ \A j \in Whole(lines) \ {i} :
                              lines[j].asset = a => Before(lines, j, i)
<1> DEFINE P == Whole(lines)
           rows == [i \in P |-> [asset |-> lines[i].asset, kind |-> lines[i].intent,
                                 at |-> lines[i].filled_at]]
           size == Len(lines)
           made == FillSummary(lines)
           Of(a) == {i \in P : rows[i].asset = a}
<1>1. made = Summary(rows, size)
  BY DEF FillSummary
<1>2. \A i \in P : lines[i] \in Fill
  BY KeptFill
<1>3. rows \in [P -> Row]
  BY <1>2 DEF Row, Fill, Intents, Kinds
<1>4. size \in Nat /\ P \in SUBSET (1 .. size)
  BY DEF Whole
<1>5. \A i \in P : /\ rows[i].asset = lines[i].asset /\ rows[i].kind = lines[i].intent
                   /\ rows[i].at = lines[i].filled_at
  OBVIOUS
<1> HIDE DEF P, rows, size, made
<1>6. /\ DOMAIN made = {rows[i].asset : i \in P}
      /\ \A a \in DOMAIN made : TellsOf(made[a], rows, Of(a))
  BY <1>1, <1>3, <1>4, Summarised
<1>7. {rows[i].asset : i \in P} = {lines[i].asset : i \in P}
  BY <1>5
<1>8. ASSUME NEW a \in DOMAIN made
      PROVE  \E i \in P : /\ lines[i].asset = a /\ made[a].last_kind = lines[i].intent
                          /\ \A j \in P \ {i} : lines[j].asset = a => Before(lines, j, i)
  <2>1. PICK i \in Of(a) : made[a].last_kind = rows[i].kind /\ LatestRow(rows, Of(a), i)
    BY <1>6 DEF TellsOf
  <2>2. \A j \in P \ {i} : lines[j].asset = a => Before(lines, j, i)
    BY <1>5, <2>1 DEF LatestRow, Before
  <2> QED
    BY <1>5, <2>1, <2>2
<1> QED
  BY <1>6, <1>7, <1>8 DEF P, made

\* stats and a respawn agree on what is held in an asset of one spelling.
THEOREM StatsAgreeWithRestore == ReadersSpec => []StatsMatchRestore
<1>1. ReadersType => StatsMatchRestore
  <2> DEFINE summary == FillSummary(log)
  <2> SUFFICES ASSUME ReadersType, NEW asset \in DOMAIN summary,
                      \A other \in DOMAIN summary \ {asset} : ~ SameAsset(asset, other)
               PROVE  summary[asset].last_kind = "open"
                          <=> \E p \in Restore(log) : p.asset = asset
    BY DEF StatsMatchRestore
  <2>1. log \in Seq(Line)
    BY DEF ReadersType
  <2>2. /\ DOMAIN summary = {log[i].asset : i \in Whole(log)}
        /\ \A a \in DOMAIN summary :
               \E i \in Whole(log) :
                   /\ log[i].asset = a /\ summary[a].last_kind = log[i].intent
                   /\ \A j \in Whole(log) \ {i} : log[j].asset = a => Before(log, j, i)
    BY <2>1, FillsSummarised
  <2> HIDE DEF summary
  <2>3. PICK i \in Whole(log) :
            /\ log[i].asset = asset /\ summary[asset].last_kind = log[i].intent
            /\ \A j \in Whole(log) \ {i} : log[j].asset = asset => Before(log, j, i)
    BY <2>2
  <2>4. \A j \in Whole(log) : SameAsset(log[j].asset, asset) => log[j].asset = asset
    BY <2>2 DEF SameAsset
  <2>5. LatestOfAsset(log, i)
    BY <2>3, <2>4 DEF LatestOfAsset
  <2>6. ASSUME log[i].intent = "open"
        PROVE  \E p \in Restore(log) : p.asset = asset
    <3>1. PositionOf(log[i]) \in Restore(log)
      BY <2>5, <2>6 DEF Restore
    <3>2. PositionOf(log[i]).asset = asset
      BY <2>3 DEF PositionOf
    <3> QED
      BY <3>1, <3>2
  <2>7. ASSUME NEW p \in Restore(log), p.asset = asset
        PROVE  log[i].intent = "open"
    <3>1. PICK j \in Whole(log) : /\ log[j].intent = "open" /\ LatestOfAsset(log, j)
                                  /\ p = PositionOf(log[j])
      BY DEF Restore
    <3>2. log[j].asset = asset
      BY <2>7, <3>1 DEF PositionOf
    <3>3. ASSUME i # j PROVE FALSE
      <4>1. Before(log, j, i) /\ Before(log, i, j)
        BY <2>3, <3>1, <3>2, <3>3 DEF LatestOfAsset, SameAsset
      <4>2. /\ log[i].filled_at \in Int /\ log[j].filled_at \in Int
            /\ i \in 1 .. Len(log) /\ j \in 1 .. Len(log)
        BY <2>1, KeptFill
      <4> QED
        BY <4>1, <4>2 DEF Before
    <3> QED
      BY <3>1, <3>3
  <2> QED
    BY <2>3, <2>6, <2>7
<1> QED
  BY <1>1, LogTypes, PTL

\* What print_funding shows of an asset.
Shown == [count : Nat, min_apy : Int, max_apy : Int, last : Observation]

Showings == MapsOf(Assets, Shown)

FirstShown(fr) ==
    [count |-> 1, min_apy |-> Annualized(fr.rate, 1), max_apy |-> Annualized(fr.rate, 1),
     last |-> fr]

NextShown(s, fr) ==
    LET apy == Annualized(fr.rate, 1)
    IN [count |-> s.count + 1,
        min_apy |-> IF apy < s.min_apy THEN apy ELSE s.min_apy,
        max_apy |-> IF apy > s.max_apy THEN apy ELSE s.max_apy,
        last |-> fr]

\* The annualised rate is a number.
LEMMA ApyType ==
  ASSUME NEW rate \in Int
  PROVE  Annualized(rate, 1) \in Int
  BY DEF Annualized

\* An entry of the funding summary stays an entry.
LEMMA ShownType ==
  ASSUME NEW fr \in Observation
  PROVE  /\ FirstShown(fr) \in Shown
         /\ \A s \in Shown : NextShown(s, fr) \in Shown
<1>1. Annualized(fr.rate, 1) \in Int
  BY ApyType DEF Observation
<1> QED
  BY <1>1 DEF FirstShown, NextShown, Shown

\* What one row does to the funding summary: it touches its own asset only.
LEMMA ObserveRowIs ==
  ASSUME NEW map \in Showings, NEW fr \in Observation
  PROVE  LET next == ObserveRow(map, fr)
         IN /\ next \in Showings
            /\ DOMAIN next = DOMAIN map \cup {fr.asset}
            /\ next[fr.asset] = IF fr.asset \in DOMAIN map
                                THEN NextShown(map[fr.asset], fr) ELSE FirstShown(fr)
            /\ \A a \in DOMAIN map : a # fr.asset => next[a] = map[a]
<1> DEFINE value == IF fr.asset \in DOMAIN map THEN NextShown(map[fr.asset], fr)
                    ELSE FirstShown(fr)
           key == fr.asset
           next == ObserveRow(map, fr)
<1>1. next = Put(map, key, value)
  BY DEF ObserveRow, NextShown, FirstShown
<1>2. key \in Assets
  BY DEF Observation
<1>3. value \in Shown
  <2>1. key \in DOMAIN map => map[key] \in Shown
    BY DEF Showings, MapsOf
  <2> QED
    BY <2>1, ShownType
<1>4. map \in MapsOf(Assets, Shown)
  BY DEF Showings
<1>5. \A v : v = value => v \in Shown
  BY <1>3
<1> HIDE DEF value, key, next
<1>6. ASSUME NEW k \in Assets, NEW v \in Shown
      PROVE  /\ Put(map, k, v) \in MapsOf(Assets, Shown)
             /\ DOMAIN Put(map, k, v) = DOMAIN map \cup {k}
             /\ Put(map, k, v)[k] = v
             /\ \A a \in DOMAIN map : a # k => Put(map, k, v)[a] = map[a]
  BY <1>4, PutIn
<1>7. /\ next \in MapsOf(Assets, Shown)
      /\ DOMAIN next = DOMAIN map \cup {key}
      /\ next[key] = value
      /\ \A a \in DOMAIN map : a # key => next[a] = map[a]
  BY <1>1, <1>2, <1>3, <1>6
<1> QED
  BY <1>7 DEF Showings, value, key, next

\* One line of the pass over funding.jsonl.
ShowStep(lines, map, n) ==
    IF n \in Whole(lines) THEN ObserveRow(map, lines[n]) ELSE map

\* The recursion of print_funding, step by step.
LEMMA ShowFolding ==
  ASSUME NEW lines \in Seq(Observation \cup {Torn})
  PROVE  \E map \in [0 .. Len(lines) -> Showings] :
             /\ map[0] = <<>>
             /\ \A n \in 1 .. Len(lines) : map[n] = ShowStep(lines, map[n - 1], n)
             /\ FundingSummary(lines) = map[Len(lines)]
<1> DEFINE N == Len(lines)
           step == [p \in Showings \X (1 .. N) |-> ShowStep(lines, p[1], p[2])]
           Is(f) == f = [n \in 0 .. N |->
                            IF n = 0 THEN <<>>
                            ELSE IF n \in Whole(lines) THEN ObserveRow(f[n - 1], lines[n])
                            ELSE f[n - 1]]
           map == CHOOSE f : Is(f)
<1>1. FundingSummary(lines) = map[N]
  BY DEF FundingSummary
<1>2. <<>> \in Showings
  <2>1. <<>> \in [{} -> Shown] /\ {} \in SUBSET Assets
    OBVIOUS
  <2> QED
    BY <2>1 DEF Showings, MapsOf
<1>3. N \in Nat /\ \A n \in 1 .. N : n - 1 \in 0 .. N
  OBVIOUS
<1>4. ASSUME NEW v \in Showings, NEW n \in 1 .. N PROVE ShowStep(lines, v, n) \in Showings
  <2>1. CASE n \in Whole(lines)
    <3>1. lines[n] \in Observation
      BY <2>1 DEF Whole
    <3>2. ObserveRow(v, lines[n]) \in Showings
      BY <3>1, ObserveRowIs
    <3> QED
      BY <2>1, <3>2 DEF ShowStep
  <2>2. CASE n \notin Whole(lines)
    BY <2>2 DEF ShowStep
  <2> QED
    BY <2>1, <2>2
<1>5. step \in [Showings \X (1 .. N) -> Showings]
  BY <1>4
<1>6. \A n \in 1 .. N, v \in Showings : step[<<v, n>>] = ShowStep(lines, v, n)
  OBVIOUS
<1> HIDE DEF step, N
<1>7. PICK g \in [0 .. N -> Showings] : Iterates(g, <<>>, step, N)
  BY <1>2, <1>3, <1>5, Recursion
<1>8. Is(g)
  <2>1. \A n \in 1 .. N : g[n] = ShowStep(lines, g[n - 1], n)
    BY <1>3, <1>6, <1>7 DEF Iterates
  <2>2. \A n \in 0 .. N : g[n] = IF n = 0 THEN <<>>
                                 ELSE IF n \in Whole(lines) THEN ObserveRow(g[n - 1], lines[n])
                                 ELSE g[n - 1]
    BY <1>3, <1>7, <2>1 DEF Iterates, ShowStep
  <2> QED
    BY <1>7, <2>2
<1>9. Is(map)
  BY <1>8
<1> HIDE DEF map
<1>10. map = [n \in 0 .. N |-> map[n]]
  BY <1>9
<1>11. map[0] = <<>> /\ \A n \in 1 .. N : map[n] = ShowStep(lines, map[n - 1], n)
  <2>1. \A n \in 0 .. N : map[n] = IF n = 0 THEN <<>>
                                   ELSE IF n \in Whole(lines)
                                   THEN ObserveRow(map[n - 1], lines[n]) ELSE map[n - 1]
    BY <1>9, Zenon
  <2>2. 0 \in 0 .. N /\ \A n \in 1 .. N : n \in 0 .. N /\ n # 0
    BY <1>3
  <2> QED
    BY <2>1, <2>2 DEF ShowStep
<1>12. Recurs(map, Showings, <<>>, step, N)
  BY <1>6, <1>10, <1>11 DEF Recurs
<1>13. map \in [0 .. N -> Showings]
  BY <1>2, <1>3, <1>5, <1>12, Unfolded
<1> QED
  BY <1>1, <1>11, <1>13 DEF N

\* The entry of an asset after its rows S: all are counted, the last one in
\* the file is kept, and its rate lies in the range.
ShowsOf(s, lines, S) ==
    /\ s.count = Cardinality(S)
    /\ Annualized(s.last.rate, 1) \in s.min_apy .. s.max_apy
    /\ \E i \in S : s.last = lines[i] /\ \A j \in S : j <= i

LinesUpto(lines, n, a) == {i \in Whole(lines) : i <= n /\ lines[i].asset = a}

Shows(map, lines, n) ==
    \A a \in Assets :
        /\ a \in DOMAIN map <=> LinesUpto(lines, n, a) # {}
        /\ a \in DOMAIN map => ShowsOf(map[a], lines, LinesUpto(lines, n, a))

\* An entry that shows the rows of S shows one further row once it is counted.
LEMMA ShownStep ==
  ASSUME NEW lines, NEW S \in SUBSET Nat, IsFiniteSet(S), NEW z \in Nat, z \notin S,
         \A j \in S : j <= z, lines[z] \in Observation
  PROVE  /\ S = {} => ShowsOf(FirstShown(lines[z]), lines, S \cup {z})
         /\ \A s \in Shown : ShowsOf(s, lines, S) =>
                                 ShowsOf(NextShown(s, lines[z]), lines, S \cup {z})
<1> DEFINE W == S \cup {z}
           apy == Annualized(lines[z].rate, 1)
<1>1. Cardinality(W) = Cardinality(S) + 1
  BY FS_AddElement
<1>2. apy \in Int
  BY ApyType DEF Observation
<1>3. z \in W /\ \A j \in W : j <= z
  OBVIOUS
<1> HIDE DEF W
<1>4. ASSUME S = {} PROVE ShowsOf(FirstShown(lines[z]), lines, W)
  <2>1. Cardinality(W) = 1
    BY <1>1, <1>4, FS_EmptySet
  <2> HIDE DEF apy
  <2>2. /\ FirstShown(lines[z]).count = 1 /\ FirstShown(lines[z]).last = lines[z]
        /\ FirstShown(lines[z]).min_apy = apy /\ FirstShown(lines[z]).max_apy = apy
    BY DEF FirstShown, apy
  <2>3. apy \in apy .. apy
    BY <1>2
  <2> QED
    BY <1>3, <2>1, <2>2, <2>3 DEF ShowsOf, apy
<1>5. ASSUME NEW s \in Shown, ShowsOf(s, lines, S)
      PROVE  ShowsOf(NextShown(s, lines[z]), lines, W)
  <2> DEFINE next == NextShown(s, lines[z])
  <2> HIDE DEF apy
  <2>1. /\ next.count = s.count + 1 /\ next.last = lines[z]
        /\ next.min_apy = IF apy < s.min_apy THEN apy ELSE s.min_apy
        /\ next.max_apy = IF apy > s.max_apy THEN apy ELSE s.max_apy
    BY DEF NextShown, apy
  <2>2. s.min_apy \in Int /\ s.max_apy \in Int
    BY DEF Shown
  <2>3. next.count = Cardinality(W)
    BY <1>1, <1>5, <2>1 DEF ShowsOf
  <2>4. apy \in next.min_apy .. next.max_apy
    BY <1>2, <2>1, <2>2
  <2> HIDE DEF next
  <2>5. Annualized(next.last.rate, 1) = apy
    BY <2>1 DEF apy
  <2> QED
    BY <1>3, <2>1, <2>3, <2>4, <2>5 DEF ShowsOf, next
<1> QED
  BY <1>4, <1>5 DEF W

\* One more line, and the funding summary shows that one too.
LEMMA ShowsStep ==
  ASSUME NEW lines \in Seq(Observation \cup {Torn}), NEW n \in Nat, n + 1 <= Len(lines),
         NEW map \in Showings, Shows(map, lines, n)
  PROVE  Shows(ShowStep(lines, map, n + 1), lines, n + 1)
<1> DEFINE z == n + 1
           next == ShowStep(lines, map, z)
           Old(a) == LinesUpto(lines, n, a)
           New(a) == LinesUpto(lines, z, a)
<1>1. \A i \in Whole(lines) : /\ i \in 1 .. Len(lines) /\ lines[i] \in Observation
                              /\ i \in Nat /\ (i <= z <=> i <= n \/ i = z)
  BY DEF Whole
<1>2. \A a : Old(a) \in SUBSET Nat /\ z \notin Old(a) /\ \A j \in Old(a) : j <= z
  BY <1>1 DEF LinesUpto
<1>3. \A a : IsFiniteSet(Old(a))
  <2>1. IsFiniteSet(Whole(lines))
    BY ReadingFunding
  <2>2. \A a : Old(a) \in SUBSET Whole(lines)
    BY DEF LinesUpto
  <2> HIDE DEF Old
  <2> QED
    BY <2>1, <2>2, FS_Subset
<1>4. CASE z \notin Whole(lines)
  <2>1. next = map
    BY <1>4 DEF ShowStep
  <2>2. \A a : New(a) = Old(a)
    BY <1>1, <1>4 DEF LinesUpto
  <2> QED
    BY <2>1, <2>2 DEF Shows
<1>5. CASE z \in Whole(lines)
  <2> DEFINE fr == lines[z]
             asset == fr.asset
  <2>1. fr \in Observation /\ asset \in Assets /\ z \in Nat
    BY <1>1, <1>5 DEF Observation
  <2>2. next = ObserveRow(map, fr)
    BY <1>5 DEF ShowStep
  <2>4. \A a : New(a) = IF a = asset THEN Old(a) \cup {z} ELSE Old(a)
    BY <1>1, <1>5 DEF LinesUpto
  <2> HIDE DEF Old, New, z, next
  <2>6. /\ Old(asset) = {} => ShowsOf(FirstShown(fr), lines, Old(asset) \cup {z})
        /\ \A s \in Shown : ShowsOf(s, lines, Old(asset)) =>
               ShowsOf(NextShown(s, fr), lines, Old(asset) \cup {z})
    BY <1>2, <1>3, <2>1, ShownStep
  <2> HIDE DEF fr
  <2>3. /\ DOMAIN next = DOMAIN map \cup {asset}
        /\ next[asset] = IF asset \in DOMAIN map THEN NextShown(map[asset], fr)
                         ELSE FirstShown(fr)
        /\ \A a \in DOMAIN map : a # asset => next[a] = map[a]
    BY <2>1, <2>2, ObserveRowIs
  <2> HIDE DEF asset
  <2>7. \A a \in Assets : /\ a \in DOMAIN map <=> Old(a) # {}
                          /\ a \in DOMAIN map => ShowsOf(map[a], lines, Old(a))
    BY DEF Shows, Old
  <2>8. ShowsOf(next[asset], lines, New(asset)) /\ New(asset) # {} /\ asset \in DOMAIN next
    <3>1. asset \in DOMAIN map => map[asset] \in Shown
      BY DEF Showings, MapsOf
    <3> QED
      BY <2>1, <2>3, <2>4, <2>6, <2>7, <3>1
  <2>9. \A a \in Assets : /\ a \in DOMAIN next <=> New(a) # {}
                          /\ a \in DOMAIN next => ShowsOf(next[a], lines, New(a))
    BY <2>3, <2>4, <2>7, <2>8
  <2> QED
    BY <2>9 DEF Shows, New, next, z
<1> QED
  BY <1>4, <1>5

\* What stats shows of the observations.
LEMMA FundingShown ==
  ASSUME NEW lines \in Seq(Observation \cup {Torn})
  PROVE  LET seen == FundingSummary(lines)
         IN /\ DOMAIN seen = {lines[i].asset : i \in Whole(lines)}
            /\ \A a \in DOMAIN seen :
                   ShowsOf(seen[a], lines, {i \in Whole(lines) : lines[i].asset = a})
<1> DEFINE N == Len(lines)
<1>1. PICK map \in [0 .. N -> Showings] :
          /\ map[0] = <<>>
          /\ \A n \in 1 .. N : map[n] = ShowStep(lines, map[n - 1], n)
          /\ FundingSummary(lines) = map[N]
  BY ShowFolding
<1> DEFINE S == {n \in Nat : n <= N => Shows(map[n], lines, n)}
<1>2. N \in Nat /\ \A i \in Whole(lines) : i \in Nat /\ ~ (i <= 0) /\ i <= N
  BY DEF Whole
<1>3. 0 \in S
  <2>1. \A a : LinesUpto(lines, 0, a) = {}
    BY <1>2 DEF LinesUpto
  <2>2. DOMAIN map[0] = {}
    BY <1>1
  <2> QED
    BY <2>1, <2>2 DEF Shows
<1>4. ASSUME NEW n \in Nat, n \in S PROVE n + 1 \in S
  <2> SUFFICES ASSUME n + 1 <= N PROVE Shows(map[n + 1], lines, n + 1)
    OBVIOUS
  <2>1. n \in 0 .. N /\ n + 1 \in 1 .. N /\ (n + 1) - 1 = n
    BY <1>2
  <2>2. map[n + 1] = ShowStep(lines, map[n], n + 1)
    BY <1>1, <2>1
  <2>3. Shows(map[n], lines, n) /\ map[n] \in Showings
    BY <1>1, <1>4, <2>1
  <2> QED
    BY <2>2, <2>3, ShowsStep
<1>5. Shows(FundingSummary(lines), lines, N)
  <2> HIDE DEF S, N
  <2>1. N \in S
    BY <1>2, <1>3, <1>4, Induct
  <2> QED
    BY <1>1, <1>2, <2>1 DEF S
<1>6. \A a : LinesUpto(lines, N, a) = {i \in Whole(lines) : lines[i].asset = a}
  BY <1>2 DEF LinesUpto
<1>7. DOMAIN FundingSummary(lines) \in SUBSET Assets
  <2>1. FundingSummary(lines) \in Showings
    BY <1>1, <1>2
  <2> QED
    BY <2>1 DEF Showings, MapsOf
<1>8. \A i \in Whole(lines) : lines[i].asset \in Assets
  BY DEF Whole, Observation
<1> DEFINE seen == FundingSummary(lines)
<1> HIDE DEF seen
<1>9. \A a \in Assets : a \in DOMAIN seen <=> \E i \in Whole(lines) : lines[i].asset = a
  BY <1>5, <1>6 DEF Shows, seen
<1>10. DOMAIN seen = {lines[i].asset : i \in Whole(lines)}
  BY <1>7, <1>8, <1>9 DEF seen
<1>11. \A a \in DOMAIN seen :
           ShowsOf(seen[a], lines, {i \in Whole(lines) : lines[i].asset = a})
  BY <1>5, <1>6, <1>7 DEF Shows, seen
<1> QED
  BY <1>10, <1>11 DEF seen

\* stats counts every decision and every observation that parses once, and
\* shows the latest of them, as far as the file's order is that of time.
THEOREM StatsShowsTheLatest == ReadersSpec => []StatsShowLatest
<1>1. ReadersType => StatsShowLatest
  <2> SUFFICES ASSUME ReadersType PROVE StatsShowLatest
    OBVIOUS
  <2> DEFINE Rows(lines, a) == {i \in Whole(lines) : lines[i].asset = a}
             made == DecisionSummary(decisions)
             seen == FundingSummary(observations)
             P == Whole(decisions)
             rows == [i \in P |-> [asset |-> decisions[i].asset, kind |-> decisions[i].kind,
                                   at |-> decisions[i].decided_at]]
             size == Len(decisions)
             Of(a) == {i \in P : rows[i].asset = a}
  <2>1. made = Summary(rows, size)
    BY DEF DecisionSummary
  <2>2. \A i \in P : decisions[i] \in Decision
    BY DEF ReadersType, Whole
  <2>3. rows \in [P -> Row]
    BY <2>2 DEF Row, Decision, Kinds
  <2>4. size \in Nat /\ P \in SUBSET (1 .. size)
    BY DEF ReadersType, Whole
  <2>5. \A i \in P : /\ rows[i].asset = decisions[i].asset
                     /\ rows[i].kind = decisions[i].kind
                     /\ rows[i].at = decisions[i].decided_at
    OBVIOUS
  <2>6. \A a : Rows(decisions, a) = Of(a)
    BY <2>5
  <2> HIDE DEF P, rows, size, made, seen
  <2>7. /\ DOMAIN made = {rows[i].asset : i \in P}
        /\ \A a \in DOMAIN made : TellsOf(made[a], rows, Of(a))
    BY <2>1, <2>3, <2>4, Summarised
  <2>8. DOMAIN made = {decisions[i].asset : i \in Whole(decisions)}
    BY <2>5, <2>7 DEF P
  <2>9. ASSUME NEW a \in DOMAIN made
        PROVE  LET S == Rows(decisions, a) IN
               /\ made[a].counts =
                      [kind \in {decisions[i].kind : i \in S} |->
                          Cardinality({i \in S : decisions[i].kind = kind})]
               /\ \E i \in S :
                   /\ made[a].last_kind = decisions[i].kind
                   /\ \A j \in S \ {i} :
                          \/ decisions[j].decided_at < decisions[i].decided_at
                          \/ decisions[j].decided_at = decisions[i].decided_at /\ j < i
    <3> DEFINE S == Rows(decisions, a)
    <3>1. S = Of(a) /\ \A i \in S : i \in P
      BY <2>6
    <3>2. TellsOf(made[a], rows, S)
      BY <2>7, <3>1
    <3> HIDE DEF S
    <3>3. {rows[i].kind : i \in S} = {decisions[i].kind : i \in S}
      BY <2>5, <3>1
    <3>4. \A kind : {i \in S : rows[i].kind = kind} = {i \in S : decisions[i].kind = kind}
      BY <2>5, <3>1
    <3>5. made[a].counts = [kind \in {decisions[i].kind : i \in S} |->
                               Cardinality({i \in S : decisions[i].kind = kind})]
      BY <3>2, <3>3, <3>4 DEF TellsOf, CountsOf
    <3>6. PICK i \in S : made[a].last_kind = rows[i].kind /\ LatestRow(rows, S, i)
      BY <3>2 DEF TellsOf
    <3>7. \A j \in S \ {i} :
              \/ decisions[j].decided_at < decisions[i].decided_at
              \/ decisions[j].decided_at = decisions[i].decided_at /\ j < i
      BY <2>5, <3>1, <3>6 DEF LatestRow
    <3>8. made[a].last_kind = decisions[i].kind
      BY <2>5, <3>1, <3>6
    <3> QED
      BY <3>5, <3>6, <3>7, <3>8 DEF S
  <2>10. ASSUME NEW a \in DOMAIN seen
         PROVE  LET S == Rows(observations, a) IN
                /\ seen[a].count = Cardinality(S)
                /\ Annualized(seen[a].last.rate, 1) \in seen[a].min_apy .. seen[a].max_apy
                /\ (\A i, j \in S : i < j => observations[i].observed_at
                                                 <= observations[j].observed_at)
                       => seen[a].last = observations[Max(LatestOf(observations, S))]
    <3> DEFINE S == Rows(observations, a)
    <3>1. ShowsOf(seen[a], observations, S)
      BY FundingShown DEF ReadersType, seen
    <3>2. \A i \in S : i \in Nat /\ observations[i].observed_at \in Int
      BY DEF ReadersType, Whole, Observation
    <3> HIDE DEF S
    <3>3. ASSUME \A i, j \in S : i < j => observations[i].observed_at
                                              <= observations[j].observed_at
          PROVE  seen[a].last = observations[Max(LatestOf(observations, S))]
      <4>1. PICK i \in S : seen[a].last = observations[i] /\ \A j \in S : j <= i
        BY <3>1 DEF ShowsOf
      <4>2. \A j \in S : observations[j].observed_at <= observations[i].observed_at
        <5> SUFFICES ASSUME NEW j \in S
                     PROVE  observations[j].observed_at <= observations[i].observed_at
          OBVIOUS
        <5>1. j < i \/ j = i
          BY <3>2, <4>1
        <5> QED
          BY <3>2, <3>3, <5>1
      <4>3. i \in LatestOf(observations, S) /\ \A j \in LatestOf(observations, S) : j \in S /\ i >= j
        BY <3>2, <4>1, <4>2 DEF LatestOf
      <4>4. \A k \in LatestOf(observations, S) : k >= i => k = i
        BY <3>2, <4>1, <4>3
      <4>5. Max(LatestOf(observations, S)) = i
        BY <4>3, <4>4 DEF Max
      <4> QED
        BY <4>1, <4>5
    <3> QED
      BY <3>1, <3>3 DEF ShowsOf, S
  <2>11. DOMAIN seen = {observations[i].asset : i \in Whole(observations)}
    BY FundingShown DEF ReadersType, seen
  <2> QED
    BY <2>8, <2>9, <2>10, <2>11 DEF StatsShowLatest, made, seen
<1> QED
  BY <1>1, LogTypes, PTL

-----------------------------------------------------------------------------
(* Filtering what was sorted *)

\* e lists the N elements of T, each once, in their order.
Enumerates(e, N, T, prec) ==
    /\ N \in Nat /\ e \in [1 .. N -> T]
    /\ \A x \in T : \E n \in 1 .. N : e[n] = x
    /\ \A m, n \in 1 .. N : m < n => <<e[m], e[n]>> \in prec

\* There is one way to do so.
LEMMA Enumerated ==
  ASSUME NEW T, IsFiniteSet(T), NEW prec, OrderOn(T, prec), NEW N, NEW e,
         Enumerates(e, N, T, prec)
  PROVE  N = Cardinality(T) /\ e = InOrder(T, prec)
<1> USE DEF Enumerates
<1>1. ASSUME NEW m \in 1 .. N, NEW n \in 1 .. N, e[m] = e[n] PROVE m = n
  <2>1. <<e[m], e[m]>> \notin prec
    BY DEF OrderOn
  <2>2. ~ (m < n) /\ ~ (n < m)
    BY <1>1, <2>1
  <2> QED
    BY <2>2
<1>2. ASSUME NEW n \in 0 .. N
      PROVE  Cardinality({e[m] : m \in 1 .. n}) = n
  <2> DEFINE f == [m \in 1 .. n |-> e[m]]
             R == {e[m] : m \in 1 .. n}
  <2>1. \A m \in 1 .. n : m \in 1 .. N
    OBVIOUS
  <2>2. f \in Bijection(1 .. n, R)
    BY <1>1, <2>1 DEF Bijection, Injection, Surjection, IsInjective
  <2>3. IsFiniteSet(1 .. n) /\ Cardinality(1 .. n) = n
    BY FS_Interval
  <2> HIDE DEF f, R
  <2>4. Cardinality(R) = Cardinality(1 .. n)
    BY <2>2, <2>3, FS_Bijection DEF ExistsBijection
  <2> QED
    BY <2>3, <2>4 DEF R
<1>3. N = Cardinality(T)
  <2>1. T = {e[m] : m \in 1 .. N}
    OBVIOUS
  <2>2. N \in 0 .. N
    OBVIOUS
  <2> QED
    BY <1>2, <2>1, <2>2
<1>4. ASSUME NEW n \in 1 .. N PROVE Place(T, prec, e[n]) = n
  <2>1. ASSUME NEW m \in 1 .. N PROVE <<e[m], e[n]>> \in prec <=> m < n
    <3>1. n < m => <<e[n], e[m]>> \in prec
      OBVIOUS
    <3>2. <<e[m], e[n]>> \in prec => ~ (<<e[n], e[m]>> \in prec) /\ e[m] # e[n]
      BY DEF OrderOn
    <3> QED
      BY <3>1, <3>2
  <2>2. {y \in T : <<y, e[n]>> \in prec} = {e[m] : m \in 1 .. n - 1}
    <3>1. \A m : m \in 1 .. n - 1 <=> m \in 1 .. N /\ m < n
      OBVIOUS
    <3> QED
      BY <2>1, <3>1
  <2>3. n - 1 \in 0 .. N
    OBVIOUS
  <2>4. Cardinality({e[m] : m \in 1 .. n - 1}) = n - 1
    BY <1>2, <2>3
  <2>5. Place(T, prec, e[n]) = Cardinality({y \in T : <<y, e[n]>> \in prec}) + 1
    BY DEF Place
  <2>6. Place(T, prec, e[n]) = (n - 1) + 1
    BY <2>2, <2>4, <2>5
  <2> QED
    BY <2>6
<1> DEFINE s == InOrder(T, prec)
<1>5. s \in [1 .. Cardinality(T) -> T] /\ \A x \in T : s[Place(T, prec, x)] = x
  BY InOrderSorts
<1> HIDE DEF s
<1>6. \A n \in 1 .. N : s[n] = e[n]
  BY <1>4, <1>5
<1>7. s = e
  BY <1>3, <1>5, <1>6
<1> QED
  BY <1>3, <1>7 DEF s

\* Numbers are ordered by size.
LEMMA UpwardOrders ==
  ASSUME NEW S \in SUBSET Int
  PROVE  OrderOn(S, Upward(S))
  BY DEF OrderOn, Upward

\* What Filter keeps, position by position.
Keeps(filtered, D, seq, S, N, at) ==
    /\ IsFiniteSet(S) /\ N \in Nat
    /\ at \in [1 .. N -> S]
    /\ \A i \in S : \E n \in 1 .. N : at[n] = i
    /\ \A m, n \in 1 .. N : m < n <=> at[m] < at[n]
    /\ filtered \in Seq(D) /\ Len(filtered) = N
    /\ filtered = [n \in 1 .. N |-> seq[at[n]]]

\* Filter keeps the rows at the positions of S, in their order.
LEMMA Filtering ==
  ASSUME NEW D, NEW seq \in Seq(D), NEW S \in SUBSET (1 .. Len(seq))
  PROVE  Keeps(Filter(seq, S), D, seq, S, Cardinality(S), InOrder(S, Upward(S)))
<1> USE DEF Keeps
<1> DEFINE N == Cardinality(S)
           at == InOrder(S, Upward(S))
<1>1. IsFiniteSet(S)
  <2>1. IsFiniteSet(1 .. Len(seq))
    BY FS_Interval
  <2> QED
    BY <2>1, FS_Subset
<1>2. \A i \in S : i \in Int /\ seq[i] \in D
  OBVIOUS
<1>3. OrderOn(S, Upward(S))
  BY <1>2, UpwardOrders
<1>4. /\ N \in Nat /\ at \in [1 .. N -> S]
      /\ \A x \in S : Place(S, Upward(S), x) \in 1 .. N /\ at[Place(S, Upward(S), x)] = x
      /\ \A m, n \in 1 .. N : m < n <=> <<at[m], at[n]>> \in Upward(S)
  BY <1>1, <1>3, InOrderSorts
<1>5. Filter(seq, S) = [n \in 1 .. N |-> seq[at[n]]]
  BY DEF Filter
<1> HIDE DEF N, at
<1>6. \A m, n \in 1 .. N : m < n <=> at[m] < at[n]
  BY <1>4 DEF Upward
<1>7. Filter(seq, S) \in Seq(D) /\ Len(Filter(seq, S)) = N
  <2> DEFINE f == Filter(seq, S)
  <2>1. \A n \in 1 .. N : seq[at[n]] \in D
    BY <1>2, <1>4
  <2>2. f = [n \in 1 .. N |-> seq[at[n]]]
    BY <1>5
  <2> HIDE DEF f
  <2>3. f \in Seq(D) /\ Len(f) = N
    BY <1>4, <2>1, <2>2
  <2> QED
    BY <2>3 DEF f
<1>8. \A i \in S : \E n \in 1 .. N : at[n] = i
  BY <1>4
<1> QED
  BY <1>1, <1>4, <1>5, <1>6, <1>7, <1>8 DEF N, at

\* The lines that are in Q, oldest first.
Kept(lines, Q) ==
    LET T == {i \in Whole(lines) : lines[i] \in Q}
        order == InOrder(T, EarlierOrder(lines))
    IN [n \in 1 .. Cardinality(T) |-> lines[order[n]]]

\* To filter what read_funding returns is to sort what passes the filter.
LEMMA FilterRead ==
  ASSUME NEW lines \in Seq(Observation \cup {Torn}), NEW Q
  PROVE  LET obs == ReadFunding(lines)
         IN Filter(obs, {n \in 1 .. Len(obs) : obs[n] \in Q}) = Kept(lines, Q)
<1> DEFINE obs == ReadFunding(lines)
           S == Whole(lines)
           prec == EarlierOrder(lines)
           N == Cardinality(S)
           order == InOrder(S, prec)
           P == {n \in 1 .. Len(obs) : obs[n] \in Q}
           M == Cardinality(P)
           at == InOrder(P, Upward(P))
           T == {i \in S : lines[i] \in Q}
           e == [k \in 1 .. M |-> order[at[k]]]
<1>1. /\ IsFiniteSet(S) /\ OrderOn(S, prec)
      /\ obs \in Seq(Observation) /\ Len(obs) = N
      /\ obs = [n \in 1 .. N |-> lines[order[n]]]
  BY ReadingFunding
<1>2. /\ N \in Nat /\ order \in [1 .. N -> S]
      /\ \A x \in S : Place(S, prec, x) \in 1 .. N /\ order[Place(S, prec, x)] = x
      /\ \A m, n \in 1 .. N : m < n <=> <<order[m], order[n]>> \in prec
  BY <1>1, InOrderSorts
<1>3. /\ M \in Nat /\ at \in [1 .. M -> P]
      /\ \A i \in P : \E n \in 1 .. M : at[n] = i
      /\ \A m, n \in 1 .. M : m < n <=> at[m] < at[n]
      /\ Filter(obs, P) = [n \in 1 .. M |-> obs[at[n]]]
  <2>1. P \in SUBSET (1 .. Len(obs)) /\ obs \in Seq(Observation)
    BY <1>1
  <2> HIDE DEF P, obs
  <2>2. Keeps(Filter(obs, P), Observation, obs, P, M, at)
    BY <2>1, Filtering
  <2> QED
    BY <2>2 DEF Keeps
<1> HIDE DEF obs, S, N, order, M, at, prec
<1>4. \A n \in P : n \in 1 .. N /\ obs[n] = lines[order[n]] /\ obs[n] \in Q
  BY <1>1, <1>2
<1>5. \A n \in 1 .. N : lines[order[n]] \in Q => n \in P
  BY <1>1
<1> HIDE DEF P
<1>6. e \in [1 .. M -> T]
  <2>1. \A k \in 1 .. M : at[k] \in 1 .. N /\ lines[order[at[k]]] \in Q
    BY <1>3, <1>4
  <2>2. \A k \in 1 .. M : order[at[k]] \in T
    BY <1>2, <2>1
  <2> QED
    BY <2>2
<1>7. \A x \in T : \E k \in 1 .. M : e[k] = x
  <2> SUFFICES ASSUME NEW x \in S, lines[x] \in Q PROVE \E k \in 1 .. M : e[k] = x
    OBVIOUS
  <2>1. PICK n \in 1 .. N : order[n] = x
    BY <1>2
  <2>2. PICK k \in 1 .. M : at[k] = n
    BY <1>3, <1>5, <2>1
  <2> QED
    BY <2>1, <2>2
<1>8. ASSUME NEW m \in 1 .. M, NEW n \in 1 .. M, m < n
      PROVE  <<e[m], e[n]>> \in prec
  <2>1. at[m] < at[n]
    BY <1>3, <1>8
  <2>2. at[m] \in 1 .. N /\ at[n] \in 1 .. N
    BY <1>3, <1>4
  <2>3. <<order[at[m]], order[at[n]]>> \in prec
    BY <1>2, <2>1, <2>2
  <2> QED
    BY <2>3
<1>9. IsFiniteSet(T) /\ OrderOn(T, prec)
  <2>1. T \in SUBSET S
    OBVIOUS
  <2> HIDE DEF T
  <2>2. IsFiniteSet(T)
    BY <1>1, <2>1, FS_Subset
  <2>3. \A x \in T : x \in S
    BY <2>1
  <2> QED
    BY <1>1, <2>2, <2>3 DEF OrderOn
<1>10. \A k \in 1 .. M : obs[at[k]] = lines[e[k]]
  BY <1>3, <1>4
<1> HIDE DEF e, T
<1>11. M = Cardinality(T) /\ e = InOrder(T, prec)
  <2>1. Enumerates(e, M, T, prec)
    BY <1>3, <1>6, <1>7, <1>8 DEF Enumerates
  <2> QED
    BY <1>9, <2>1, Enumerated
<1>12. Kept(lines, Q) = [n \in 1 .. Cardinality(T) |-> lines[InOrder(T, prec)[n]]]
  BY DEF Kept, T, S, prec
<1>13. Filter(obs, P) = Kept(lines, Q)
  BY <1>3, <1>10, <1>11, <1>12
<1> QED
  BY <1>13 DEF obs, P

\* The order of a set is what its elements say of each other.
LEMMA SameOrder ==
  ASSUME NEW S, NEW prec, NEW other,
         \A x, y \in S : <<x, y>> \in prec <=> <<x, y>> \in other
  PROVE  InOrder(S, prec) = InOrder(S, other)
<1>1. \A x \in S : Place(S, prec, x) = Place(S, other, x)
  <2> SUFFICES ASSUME NEW x \in S PROVE Place(S, prec, x) = Place(S, other, x)
    OBVIOUS
  <2>1. {y \in S : <<y, x>> \in prec} = {y \in S : <<y, x>> \in other}
    OBVIOUS
  <2> QED
    BY <2>1 DEF Place
<1>2. [x \in S |-> Place(S, prec, x)] = [x \in S |-> Place(S, other, x)]
  BY <1>1
<1> QED
  BY <1>2 DEF InOrder

\* A line more that is not in Q changes nothing.
LEMMA KeptAppended ==
  ASSUME NEW lines \in Seq(Observation \cup {Torn}), NEW o \in Observation \cup {Torn},
         NEW Q, o \notin Q
  PROVE  Kept(Append(lines, o), Q) = Kept(lines, Q)
<1> DEFINE new == Append(lines, o)
           z == Len(lines) + 1
           T == {i \in Whole(lines) : lines[i] \in Q}
           U == {i \in Whole(new) : new[i] \in Q}
<1>1. /\ DOMAIN new = DOMAIN lines \cup {z} /\ new[z] = o
      /\ \A i \in DOMAIN lines : new[i] = lines[i]
  OBVIOUS
<1>2. U = T /\ \A i \in T : new[i] = lines[i] /\ i \in Whole(lines) /\ i \in Whole(new)
  BY <1>1 DEF Whole
<1>3. \A x, y \in T : <<x, y>> \in EarlierOrder(new) <=> <<x, y>> \in EarlierOrder(lines)
  BY <1>2 DEF EarlierOrder, Earlier
<1> HIDE DEF new, T, U
<1>4. InOrder(T, EarlierOrder(new)) = InOrder(T, EarlierOrder(lines))
  BY <1>3, SameOrder
<1>5. IsFiniteSet(T) /\ OrderOn(T, EarlierOrder(lines))
  <2>1. T \in SUBSET Whole(lines)
    BY <1>2
  <2>2. IsFiniteSet(Whole(lines)) /\ OrderOn(Whole(lines), EarlierOrder(lines))
    BY ReadingFunding
  <2>3. IsFiniteSet(T)
    BY <2>1, <2>2, FS_Subset
  <2>4. \A x \in T : x \in Whole(lines)
    BY <2>1
  <2> QED
    BY <2>2, <2>3, <2>4 DEF OrderOn
<1>6. InOrder(T, EarlierOrder(lines)) \in [1 .. Cardinality(T) -> T]
  BY <1>5, InOrderSorts
<1>7. /\ Kept(lines, Q) = [n \in 1 .. Cardinality(T) |-> lines[InOrder(T, EarlierOrder(lines))[n]]]
      /\ Kept(new, Q) = [n \in 1 .. Cardinality(T) |-> new[InOrder(T, EarlierOrder(new))[n]]]
  BY <1>2 DEF Kept, T, U
<1>8. Kept(new, Q) = Kept(lines, Q)
  BY <1>2, <1>4, <1>6, <1>7
<1> QED
  BY <1>8 DEF new

-----------------------------------------------------------------------------
(* What is accrued is final *)

\* The observations an accrual looks at.
Inside(asset, from, to) ==
    {o \in Observation : SameAsset(o.asset, asset) /\ o.observed_at \in from .. to}

PriorOf(asset, from) ==
    {o \in Observation : SameAsset(o.asset, asset) /\ o.observed_at < from}

\* What accrued_funding looks at, as selections from the file.
LEMMA Looked ==
  ASSUME NEW lines \in Seq(Observation \cup {Torn}), NEW asset, NEW from, NEW to
  PROVE  /\ Relevant(ReadFunding(lines), asset, from, to) = Kept(lines, Inside(asset, from, to))
         /\ PriorTo(ReadFunding(lines), asset, from) = Kept(lines, PriorOf(asset, from))
<1> DEFINE obs == ReadFunding(lines)
<1>1. obs \in Seq(Observation)
  BY ReadingFunding
<1> HIDE DEF obs
<1>2. {i \in RowsOf(obs, asset) : obs[i].observed_at \in from .. to}
          = {n \in 1 .. Len(obs) : obs[n] \in Inside(asset, from, to)}
  BY <1>1 DEF RowsOf, Inside
<1>3. {i \in RowsOf(obs, asset) : obs[i].observed_at < from}
          = {n \in 1 .. Len(obs) : obs[n] \in PriorOf(asset, from)}
  BY <1>1 DEF RowsOf, PriorOf
<1>4. \A Q : Filter(obs, {n \in 1 .. Len(obs) : obs[n] \in Q}) = Kept(lines, Q)
  BY FilterRead DEF obs
<1> QED
  BY <1>2, <1>3, <1>4 DEF Relevant, PriorTo, obs

\* A row stamped after the end of a period changes nothing in it.
LEMMA LateRow ==
  ASSUME NEW lines \in Seq(Observation \cup {Torn}), NEW o \in Observation,
         NEW asset, NEW side, NEW notional, NEW from \in Int, NEW to \in Int,
         to < o.observed_at
  PROVE  AccruedFunding(asset, side, notional, from, to, ReadFunding(Append(lines, o)))
             = AccruedFunding(asset, side, notional, from, to, ReadFunding(lines))
<1>1. CASE to <= from
  BY <1>1 DEF AccruedFunding
<1>2. CASE ~ (to <= from)
  <2>1. o \notin Inside(asset, from, to) /\ o \notin PriorOf(asset, from)
    BY <1>2 DEF Inside, PriorOf, Observation
  <2> DEFINE new == Append(lines, o)
  <2>2. new \in Seq(Observation \cup {Torn})
    OBVIOUS
  <2>3. \A Q : o \notin Q => Kept(new, Q) = Kept(lines, Q)
    BY KeptAppended
  <2> HIDE DEF new
  <2>4. /\ Relevant(ReadFunding(new), asset, from, to) = Relevant(ReadFunding(lines), asset, from, to)
        /\ PriorTo(ReadFunding(new), asset, from) = PriorTo(ReadFunding(lines), asset, from)
    BY <2>1, <2>2, <2>3, Looked
  <2>5. AccruedFunding(asset, side, notional, from, to, ReadFunding(new))
            = AccruedFunding(asset, side, notional, from, to, ReadFunding(lines))
    BY <2>4 DEF AccruedFunding
  <2> QED
    BY <2>5 DEF new
<1> QED
  BY <1>1, <1>2

\* The closed trades are pairs of fills.
LEMMA TradesTyped ==
  ASSUME NEW lines \in Seq(Line), NEW trade \in Range(ClosedTrades(ReadFills(lines)))
  PROVE  trade.open \in Fill /\ trade.close \in Fill
<1> DEFINE fills == ReadFills(lines)
<1>1. fills \in Seq(Fill)
  BY Reading
<1> HIDE DEF fills
<1>2. ClosedTrades(fills) \in Seq(Trades)
  <2>1. PairFills(fills) \in Pairing
    <3>1. Len(fills) \in 0 .. Len(fills)
      BY <1>1
    <3> QED
      BY <1>1, <3>1, Folding
  <2> QED
    BY <2>1 DEF ClosedTrades, Pairing
<1>3. trade \in Trades
  BY <1>2 DEF Range, fills
<1> QED
  BY <1>3 DEF Trades

\* No row stamped after its close changes the funding of a closed trade.
THEOREM SettledForGood == ReadersSpec => FundingSettles
<1> DEFINE Paid(trade, lines) ==
               Funding(trade.open, trade.close.filled_at, ReadFunding(lines))
           Final ==
               \A i \in DOMAIN observations' \ DOMAIN observations :
                   observations'[i] # Torn =>
                       \A trade \in Range(ClosedTrades(ReadFills(log))) :
                           trade.close.filled_at < observations'[i].observed_at
                               => Paid(trade, observations') = Paid(trade, observations)
<1>1. ReadersType /\ ReadersType' /\ [ReadersNext]_readerVars => Final
  <2> SUFFICES ASSUME ReadersType, ReadersType', [ReadersNext]_readerVars,
                      NEW i \in DOMAIN observations' \ DOMAIN observations,
                      observations'[i] # Torn,
                      NEW trade \in Range(ClosedTrades(ReadFills(log))),
                      trade.close.filled_at < observations'[i].observed_at
               PROVE  Paid(trade, observations') = Paid(trade, observations)
    OBVIOUS
  <2>1. \E o : observations' = Append(observations, o)
    BY DEF ReadersNext, WriteFill, WriteObservation, WriteDecision, WriteTorn, readerVars
  <2>2. PICK o : observations' = Append(observations, o)
    BY <2>1
  <2>3. observations \in Seq(Observation \cup {Torn}) /\ observations' \in Seq(Observation \cup {Torn})
    BY DEF ReadersType
  <2>4. i = Len(observations) + 1 /\ observations'[i] = o
    BY <2>2, <2>3
  <2>5. o \in Observation
    BY <2>3, <2>4
  <2> DEFINE open == trade.open
             to == trade.close.filled_at
  <2>6. open \in Fill /\ to \in Int /\ open.filled_at \in Int
    BY TradesTyped DEF ReadersType, Fill
  <2>7. to < o.observed_at
    BY <2>4
  <2> HIDE DEF open, to
  <2>8. AccruedFunding(open.asset, open.side, NotionalUsd(open), open.filled_at, to,
                       ReadFunding(Append(observations, o)))
            = AccruedFunding(open.asset, open.side, NotionalUsd(open), open.filled_at, to,
                             ReadFunding(observations))
    BY <2>3, <2>5, <2>6, <2>7, LateRow
  <2>9. Funding(open, to, ReadFunding(observations')) = Funding(open, to, ReadFunding(observations))
    BY <2>2, <2>8 DEF Funding
  <2> QED
    BY <2>9 DEF open, to
<1> QED
  BY <1>1, LogTypes, PTL DEF ReadersSpec, FundingSettles

-----------------------------------------------------------------------------
(* Funding is the integral of a step function *)

\* The sum over a run of equal values.
LEMMA RunSum ==
  ASSUME NEW N \in Nat, NEW values \in [1 .. N -> Int], NEW sum \in [0 .. N -> Int],
         \A n \in 1 .. N : sum[n] = sum[n - 1] + values[n],
         NEW a \in 0 .. N, NEW b \in 0 .. N, a <= b, NEW c \in Int,
         \A n \in a + 1 .. b : values[n] = c
  PROVE  sum[b] = sum[a] + c * (b - a)
<1> DEFINE S == {k \in Nat : a + k <= b => sum[a + k] = sum[a] + c * k}
<1>1. 0 \in S
  <2>1. a + 0 = a /\ c * 0 = 0 /\ sum[a] \in Int
    OBVIOUS
  <2> QED
    BY <2>1
<1>2. ASSUME NEW k \in Nat, k \in S PROVE k + 1 \in S
  <2> SUFFICES ASSUME a + (k + 1) <= b PROVE sum[a + (k + 1)] = sum[a] + c * (k + 1)
    OBVIOUS
  <2> DEFINE n == a + (k + 1)
  <2>1. n \in 1 .. N /\ n \in a + 1 .. b /\ n - 1 = a + k
    OBVIOUS
  <2>2. sum[a + k] = sum[a] + c * k
    BY <1>2, <2>1
  <2>3. sum[n] = sum[n - 1] + values[n] /\ values[n] = c
    BY <2>1
  <2>4. \A u \in Int : c * (u + 1) = c * u + c
    OBVIOUS
  <2>5. c * k \in Int /\ c * (k + 1) = c * k + c /\ sum[a] \in Int
    BY <2>4
  <2> HIDE DEF n
  <2>6. sum[n] = (sum[a] + c * k) + c
    BY <2>1, <2>2, <2>3
  <2>7. sum[n] = sum[a] + c * (k + 1)
    BY <2>5, <2>6
  <2> QED
    BY <2>7 DEF n
<1>3. b - a \in S
  <2> HIDE DEF S
  <2>1. b - a \in Nat
    OBVIOUS
  <2> QED
    BY <1>1, <1>2, <2>1, Induct
<1> QED
  BY <1>3

\* The sum of the negated values.
LEMMA SumNegated ==
  ASSUME NEW values \in Seq(Int)
  PROVE  SumOf([n \in 1 .. Len(values) |-> - values[n]]) = - SumOf(values)
<1> DEFINE N == Len(values)
           less == [n \in 1 .. N |-> - values[n]]
<1>1. /\ N \in Nat /\ less \in Seq(Int) /\ Len(less) = N
      /\ \A n \in 1 .. N : values[n] \in Int /\ less[n] = - values[n]
  OBVIOUS
<1>2. PICK f \in [0 .. N -> Int] :
          /\ f[0] = 0 /\ \A n \in 1 .. N : f[n] = f[n - 1] + values[n]
          /\ SumOf(values) = f[N]
  BY Summing
<1> HIDE DEF less, N
<1>3. PICK g \in [0 .. N -> Int] :
          /\ g[0] = 0 /\ \A n \in 1 .. N : g[n] = g[n - 1] + less[n]
          /\ SumOf(less) = g[N]
  BY <1>1, Summing
<1> DEFINE S == {n \in Nat : n <= N => g[n] = - f[n]}
<1>4. 0 \in S
  BY <1>2, <1>3
<1>5. ASSUME NEW n \in Nat, n \in S PROVE n + 1 \in S
  <2> SUFFICES ASSUME n + 1 <= N PROVE g[n + 1] = - f[n + 1]
    OBVIOUS
  <2>1. n + 1 \in 1 .. N /\ (n + 1) - 1 = n /\ g[n] = - f[n] /\ n \in 0 .. N /\ n + 1 \in 0 .. N
    BY <1>1, <1>5
  <2>2. g[n + 1] = g[n] + less[n + 1] /\ f[n + 1] = f[n] + values[n + 1]
    BY <1>2, <1>3, <2>1
  <2>3. f[n] \in Int /\ values[n + 1] \in Int /\ less[n + 1] = - values[n + 1]
    BY <1>1, <1>2, <2>1
  <2> QED
    BY <2>1, <2>2, <2>3
<1>6. g[N] = - f[N]
  <2> HIDE DEF S
  <2>1. N \in S
    BY <1>1, <1>4, <1>5, Induct
  <2> QED
    BY <1>1, <2>1 DEF S
<1> QED
  BY <1>2, <1>3, <1>6 DEF less, N

\* The sum of equal values.
LEMMA ConstantSum ==
  ASSUME NEW N \in Nat, NEW values \in [1 .. N -> Int], NEW c \in Int,
         \A n \in 1 .. N : values[n] = c
  PROVE  SumOf(values) = c * N
<1>1. values \in Seq(Int) /\ Len(values) = N
  OBVIOUS
<1>2. PICK sum \in [0 .. N -> Int] :
          /\ sum[0] = 0 /\ \A n \in 1 .. N : sum[n] = sum[n - 1] + values[n]
          /\ SumOf(values) = sum[N]
  BY <1>1, Summing
<1>3. ASSUME NEW x \in 0 .. N, NEW y \in 0 .. N, x <= y,
             \A n \in x + 1 .. y : values[n] = c
      PROVE  sum[y] = sum[x] + c * (y - x)
  BY <1>2, <1>3, RunSum
<1>4. sum[N] = sum[0] + c * (N - 0)
  <2>1. 0 \in 0 .. N /\ N \in 0 .. N /\ 0 <= N /\ \A n \in 0 + 1 .. N : values[n] = c
    OBVIOUS
  <2> QED
    BY <1>3, <2>1
<1>5. N - 0 = N /\ c * N \in Int
  <2>1. \A u, w \in Int : u * w \in Int
    OBVIOUS
  <2> QED
    BY <2>1
<1> QED
  BY <1>2, <1>4, <1>5

\* The values follow the rates: rate 1 up to a[1], and rate j from a[j] on.
Follows(values, H, r, a, rate) ==
    \A n \in 1 .. H :
        /\ n <= a[1] => values[n] = rate[1]
        /\ \A j \in 1 .. r - 1 : a[j] < n /\ n <= a[j + 1] => values[n] = rate[j]
        /\ a[r] < n => values[n] = rate[r]

\* Their sum, segment by segment.
LEMMA SegmentSum ==
  ASSUME NEW H \in Nat, NEW values \in [1 .. H -> Int], NEW r \in Nat, r > 0,
         NEW a \in [1 .. r -> 0 .. H], NEW rate \in [1 .. r -> Int],
         \A j \in 1 .. r - 1 : a[j] <= a[j + 1],
         Follows(values, H, r, a, rate)
  PROVE  SumOf(values) =
             rate[1] * a[1]
             + SumOf([j \in 1 .. r - 1 |-> rate[j] * (a[j + 1] - a[j])])
             + rate[r] * (H - a[r])
<1> DEFINE parts == [j \in 1 .. r - 1 |-> rate[j] * (a[j + 1] - a[j])]
<1>1. /\ 1 \in 1 .. r /\ r \in 1 .. r
      /\ \A j \in 1 .. r : a[j] \in 0 .. H /\ a[j] \in Int /\ rate[j] \in Int
      /\ \A j \in 1 .. r - 1 : j \in 1 .. r /\ j + 1 \in 1 .. r
  OBVIOUS
<1>2. \A u, w \in Int : u * w \in Int
  OBVIOUS
<1>3. \A j \in 1 .. r - 1 : rate[j] * (a[j + 1] - a[j]) \in Int
  BY <1>1, <1>2
<1>4. parts \in Seq(Int) /\ Len(parts) = r - 1
  BY <1>3
<1>5. values \in Seq(Int) /\ Len(values) = H
  OBVIOUS
<1>6. PICK sum \in [0 .. H -> Int] :
          /\ sum[0] = 0 /\ \A n \in 1 .. H : sum[n] = sum[n - 1] + values[n]
          /\ SumOf(values) = sum[H]
  BY <1>5, Summing
<1>7. \A j \in 1 .. r - 1 : parts[j] = rate[j] * (a[j + 1] - a[j])
  OBVIOUS
<1> HIDE DEF parts
<1>8. PICK part \in [0 .. r - 1 -> Int] :
          /\ part[0] = 0 /\ \A n \in 1 .. r - 1 : part[n] = part[n - 1] + parts[n]
          /\ SumOf(parts) = part[r - 1]
  BY <1>4, Summing
<1>9. ASSUME NEW x \in 0 .. H, NEW y \in 0 .. H, x <= y, NEW c \in Int,
             \A n \in x + 1 .. y : values[n] = c
      PROVE  sum[y] = sum[x] + c * (y - x)
  BY <1>6, <1>9, RunSum
<1>10. sum[a[1]] = rate[1] * a[1]
  <2>1. \A n \in 0 + 1 .. a[1] : values[n] = rate[1]
    BY <1>1 DEF Follows
  <2>2. 0 \in 0 .. H /\ 0 <= a[1]
    BY <1>1
  <2>3. sum[a[1]] = sum[0] + rate[1] * (a[1] - 0)
    BY <1>1, <1>9, <2>1, <2>2
  <2>4. a[1] - 0 = a[1] /\ rate[1] * a[1] \in Int
    BY <1>1, <1>2
  <2> QED
    BY <1>6, <2>3, <2>4
<1> DEFINE S == {k \in Nat : k <= r - 1 => sum[a[k + 1]] = rate[1] * a[1] + part[k]}
<1>11. 0 \in S
  <2>1. rate[1] * a[1] \in Int
    BY <1>1, <1>2
  <2> QED
    BY <1>8, <1>10, <2>1
<1>12. ASSUME NEW k \in Nat, k \in S PROVE k + 1 \in S
  <2> SUFFICES ASSUME k + 1 <= r - 1
               PROVE  sum[a[(k + 1) + 1]] = rate[1] * a[1] + part[k + 1]
    OBVIOUS
  <2> DEFINE j == k + 1
  <2>1. j \in 1 .. r - 1 /\ j - 1 = k /\ k \in 0 .. r - 1 /\ j \in 0 .. r - 1
    OBVIOUS
  <2>2. sum[a[j]] = rate[1] * a[1] + part[k]
    BY <1>12, <2>1
  <2> HIDE DEF j
  <2>3. a[j] \in 0 .. H /\ a[j + 1] \in 0 .. H /\ a[j] <= a[j + 1] /\ rate[j] \in Int
    BY <1>1, <2>1
  <2>4. \A n \in a[j] + 1 .. a[j + 1] : values[n] = rate[j]
    <3> SUFFICES ASSUME NEW n \in a[j] + 1 .. a[j + 1] PROVE values[n] = rate[j]
      OBVIOUS
    <3>1. a[j] \in Int /\ a[j + 1] \in Int /\ 0 <= a[j] /\ a[j + 1] <= H
      BY <1>1, <2>3
    <3>3. \A x, y \in Int : \A m \in x + 1 .. y :
              0 <= x /\ y <= H => m \in 1 .. H /\ x < m /\ m <= y
      OBVIOUS
    <3>2. n \in 1 .. H /\ a[j] < n /\ n <= a[j + 1]
      BY <3>1, <3>3
    <3> QED
      BY <1>1, <2>1, <3>2 DEF Follows
  <2>5. sum[a[j + 1]] = sum[a[j]] + rate[j] * (a[j + 1] - a[j])
    BY <1>9, <2>3, <2>4
  <2>6. part[j] = part[k] + parts[j] /\ parts[j] = rate[j] * (a[j + 1] - a[j])
    BY <1>7, <1>8, <2>1
  <2>7. rate[1] * a[1] \in Int /\ parts[j] \in Int /\ part[k] \in Int
    BY <1>1, <1>2, <1>3, <1>7, <1>8, <2>1
  <2>8. sum[a[j + 1]] = rate[1] * a[1] + part[j]
    BY <2>2, <2>5, <2>6, <2>7
  <2> QED
    BY <2>8 DEF j
<1>13. sum[a[r]] = rate[1] * a[1] + part[r - 1]
  <2> HIDE DEF S
  <2>1. r - 1 \in Nat
    OBVIOUS
  <2>2. r - 1 \in S
    BY <1>11, <1>12, <2>1, Induct
  <2>3. (r - 1) + 1 = r
    OBVIOUS
  <2> QED
    BY <2>1, <2>2, <2>3 DEF S
<1>14. sum[H] = sum[a[r]] + rate[r] * (H - a[r])
  <2>1. \A n \in a[r] + 1 .. H : values[n] = rate[r]
    BY <1>1 DEF Follows
  <2>2. H \in 0 .. H /\ a[r] <= H
    BY <1>1
  <2> QED
    BY <1>1, <1>9, <2>1, <2>2
<1> QED
  BY <1>6, <1>8, <1>13, <1>14 DEF parts

\* Observations in the order of their stamps.
Rising(obs) ==
    /\ obs \in Seq(Observation)
    /\ \A m, n \in 1 .. Len(obs) : m < n => obs[m].observed_at <= obs[n].observed_at

\* The fields of a row of a sorted log.
LEMMA RowTyped ==
  ASSUME NEW obs, Rising(obs), NEW i \in 1 .. Len(obs)
  PROVE  i \in Int /\ obs[i] \in Observation /\ obs[i].observed_at \in Int /\ obs[i].rate \in Int
<1>1. obs[i] \in Observation
  BY DEF Rising
<1> QED
  BY <1>1 DEF Observation

\* The last of some rows is the latest of them.
LEMMA LastRowIsMax ==
  ASSUME NEW obs, Rising(obs), NEW S \in SUBSET (1 .. Len(obs)),
         NEW m \in S, \A j \in S : j <= m
  PROVE  Max(LatestOf(obs, S)) = m
<1>1. \A j \in S : j \in Int /\ obs[j].observed_at \in Int
  BY RowTyped
<1>2. \A j \in S : obs[j].observed_at <= obs[m].observed_at
  <2> SUFFICES ASSUME NEW j \in S PROVE obs[j].observed_at <= obs[m].observed_at
    OBVIOUS
  <2>1. j < m \/ j = m
    BY <1>1
  <2> QED
    BY <1>1, <2>1 DEF Rising
<1>3. m \in LatestOf(obs, S) /\ \A j \in LatestOf(obs, S) : j \in S /\ m >= j
  BY <1>1, <1>2 DEF LatestOf
<1>4. ASSUME NEW k \in LatestOf(obs, S), k >= m PROVE k = m
  <2>1. m \in Int /\ k \in Int
    BY <1>1, <1>3
  <2>2. m >= k
    BY <1>3
  <2> QED
    BY <1>4, <2>1, <2>2
<1> QED
  BY <1>3, <1>4 DEF Max

\* What is kept of them is in that order too.
LEMMA StillRising ==
  ASSUME NEW obs, Rising(obs), NEW S, NEW r, NEW at, NEW rel,
         S \in SUBSET (1 .. Len(obs)), Keeps(rel, Observation, obs, S, r, at)
  PROVE  Rising(rel) /\ Len(rel) = r
<1>1. /\ rel \in Seq(Observation) /\ Len(rel) = r /\ r \in Nat
      /\ \A m \in 1 .. r : rel[m] = obs[at[m]] /\ at[m] \in 1 .. Len(obs)
      /\ \A m, n \in 1 .. r : m < n => at[m] < at[n]
  BY DEF Keeps
<1> QED
  BY <1>1 DEF Rising

\* The rows of the asset in the period and before it.
Within(obs, asset, from, to) ==
    {i \in RowsOf(obs, asset) : obs[i].observed_at \in from .. to}

Prior(obs, asset, from) ==
    {i \in RowsOf(obs, asset) : obs[i].observed_at < from}

\* The rate of an hour of a period that has observations.
LEMMA StepInside ==
  ASSUME NEW obs, Rising(obs), NEW asset, NEW from \in Int, NEW to \in Int, NEW t \in Int,
         NEW r \in Nat, r > 0, NEW at, NEW rel,
         Keeps(rel, Observation, obs, Within(obs, asset, from, to), r, at)
  PROVE  /\ t < rel[1].observed_at => StepRate(obs, asset, from, to, t) = rel[1].rate
         /\ \A j \in 1 .. r :
                rel[j].observed_at <= t /\ (j < r => t < rel[j + 1].observed_at)
                    => StepRate(obs, asset, from, to, t) = rel[j].rate
<1> DEFINE S == Within(obs, asset, from, to)
           sofar == {i \in S : obs[i].observed_at <= t}
<1>1. S \in SUBSET (1 .. Len(obs))
  BY DEF Within, RowsOf, Rising
<1>2. {i \in {j \in DOMAIN obs : obs[j].observed_at \in from .. to} : SameAsset(obs[i].asset, asset)} = S
  BY DEF Within, RowsOf
<1>3. S # {} => StepRate(obs, asset, from, to, t) =
                    obs[IF sofar # {} THEN Max(LatestOf(obs, sofar)) ELSE Min(S)].rate
  BY <1>2 DEF StepRate
<1>4. /\ \A n \in 1 .. r : at[n] \in S /\ rel[n] = obs[at[n]]
      /\ \A i \in S : \E n \in 1 .. r : at[n] = i
      /\ \A m, n \in 1 .. r : m < n <=> at[m] < at[n]
  BY DEF Keeps
<1>5. Rising(rel) /\ Len(rel) = r
  BY <1>1, StillRising
<1>6. \A n \in 1 .. r : rel[n].observed_at \in Int
  BY <1>5, RowTyped
<1>7. \A i \in S : i \in Int
  BY <1>1
<1> HIDE DEF S
<1>8. 1 \in 1 .. r /\ S # {}
  BY <1>4
<1>9. ASSUME t < rel[1].observed_at
      PROVE  StepRate(obs, asset, from, to, t) = rel[1].rate
  <2>1. ASSUME NEW i \in S PROVE at[1] <= i /\ ~ (obs[i].observed_at <= t)
    <3>1. PICK n \in 1 .. r : at[n] = i
      BY <1>4
    <3>2. n = 1 \/ 1 < n
      OBVIOUS
    <3>3. rel[1].observed_at <= rel[n].observed_at
      BY <1>5, <1>6, <1>8, <3>2 DEF Rising
    <3>4. at[1] <= at[n]
      BY <1>4, <1>7, <1>8, <3>2
    <3> QED
      BY <1>4, <1>6, <1>8, <1>9, <3>1, <3>3, <3>4
  <2>2. sofar = {}
    BY <2>1
  <2>3. at[1] \in S /\ \A i \in S : i <= at[1] => i = at[1]
    BY <1>4, <1>7, <1>8, <2>1
  <2>4. Min(S) = at[1]
    BY <1>7, <2>1, <2>3 DEF Min
  <2> QED
    BY <1>3, <1>4, <1>8, <2>2, <2>4
<1>10. ASSUME NEW j \in 1 .. r, rel[j].observed_at <= t,
              j < r => t < rel[j + 1].observed_at
       PROVE  StepRate(obs, asset, from, to, t) = rel[j].rate
  <2>1. at[j] \in sofar
    BY <1>4, <1>10
  <2>2. ASSUME NEW i \in sofar PROVE i <= at[j]
    <3>1. i \in S /\ obs[i].observed_at <= t
      OBVIOUS
    <3>2. PICK n \in 1 .. r : at[n] = i
      BY <1>4, <3>1
    <3>3. CASE n <= j
      <4>1. n = j \/ n < j
        BY <3>3
      <4> QED
        BY <1>4, <1>7, <3>1, <3>2, <4>1
    <3>4. CASE j < n
      <4>1. j < r /\ j + 1 \in 1 .. r /\ (j + 1 = n \/ j + 1 < n)
        BY <3>4
      <4>2. rel[j + 1].observed_at <= rel[n].observed_at
        BY <1>5, <1>6, <4>1 DEF Rising
      <4>3. rel[n].observed_at <= t
        BY <1>4, <3>1, <3>2
      <4> QED
        BY <1>6, <1>10, <4>1, <4>2, <4>3
    <3> QED
      BY <3>3, <3>4
  <2>3. sofar \in SUBSET (1 .. Len(obs))
    BY <1>1 DEF S
  <2> HIDE DEF sofar
  <2>4. Max(LatestOf(obs, sofar)) = at[j]
    BY <2>1, <2>2, <2>3, LastRowIsMax
  <2> QED
    BY <1>3, <1>4, <1>8, <2>1, <2>4
<1> QED
  BY <1>9, <1>10

\* Row j is the latest one at t.
Holds(rel, r, t, j) ==
    rel[j].observed_at <= t /\ (j < r => t < rel[j + 1].observed_at)

\* Every time is before the first row or some row holds.
LEMMA SomeHolds ==
  ASSUME NEW rel, Rising(rel), NEW r, r = Len(rel), r > 0, NEW t \in Int
  PROVE  t < rel[1].observed_at \/ \E j \in 1 .. r : Holds(rel, r, t, j)
<1> SUFFICES ASSUME ~ (t < rel[1].observed_at), \A j \in 1 .. r : ~ Holds(rel, r, t, j)
             PROVE  FALSE
  OBVIOUS
<1>1. r \in Nat /\ \A j \in 1 .. r : rel[j].observed_at \in Int
  <2>1. r \in Nat
    BY DEF Rising
  <2> QED
    BY <2>1, RowTyped
<1> DEFINE S == {k \in Nat : k < r => rel[k + 1].observed_at <= t}
<1>2. 0 \in S
  <2>1. 1 \in 1 .. r /\ 0 + 1 = 1
    BY <1>1
  <2> QED
    BY <1>1, <2>1
<1>3. ASSUME NEW k \in Nat, k \in S PROVE k + 1 \in S
  <2> SUFFICES ASSUME k + 1 < r PROVE rel[(k + 1) + 1].observed_at <= t
    OBVIOUS
  <2>1. k + 1 \in 1 .. r /\ (k + 1) + 1 \in 1 .. r /\ k < r
    BY <1>1
  <2>2. rel[k + 1].observed_at <= t
    BY <1>3, <2>1
  <2>3. ~ (t < rel[(k + 1) + 1].observed_at)
    BY <2>1, <2>2 DEF Holds
  <2> QED
    BY <1>1, <2>1, <2>3
<1>4. r - 1 \in S
  <2> HIDE DEF S
  <2>1. r - 1 \in Nat
    BY <1>1
  <2> QED
    BY <1>2, <1>3, <2>1, Induct
<1>5. r \in 1 .. r /\ (r - 1) + 1 = r /\ r - 1 < r
  BY <1>1
<1>6. Holds(rel, r, t, r)
  BY <1>4, <1>5 DEF Holds
<1> QED
  BY <1>5, <1>6

\* The rate of an hour of a period that has none.
LEMMA StepOutside ==
  ASSUME NEW obs, Rising(obs), NEW asset, NEW from \in Int, NEW to \in Int, NEW t,
         NEW p, NEW at, NEW prior, Within(obs, asset, from, to) = {},
         Keeps(prior, Observation, obs, Prior(obs, asset, from), p, at)
  PROVE  StepRate(obs, asset, from, to, t) = IF p = 0 THEN 0 ELSE prior[p].rate
<1> DEFINE S == Prior(obs, asset, from)
<1>1. S \in SUBSET (1 .. Len(obs))
  BY DEF Prior, RowsOf, Rising
<1>2. {i \in {j \in DOMAIN obs : obs[j].observed_at \in from .. to} : SameAsset(obs[i].asset, asset)} = {}
  BY DEF Within, RowsOf
<1>3. {i \in {j \in DOMAIN obs : obs[j].observed_at < from} : SameAsset(obs[i].asset, asset)} = S
  BY DEF Prior, RowsOf
<1>4. StepRate(obs, asset, from, to, t) = IF S = {} THEN 0 ELSE obs[Max(LatestOf(obs, S))].rate
  BY <1>2, <1>3 DEF StepRate
<1>5. /\ p \in Nat /\ \A n \in 1 .. p : at[n] \in S /\ prior[n] = obs[at[n]]
      /\ \A i \in S : \E n \in 1 .. p : at[n] = i
      /\ \A m, n \in 1 .. p : m < n <=> at[m] < at[n]
  BY DEF Keeps
<1>6. \A i \in S : i \in Int
  BY <1>1
<1> HIDE DEF S
<1>7. CASE p = 0
  <2>1. S = {}
    BY <1>5, <1>7
  <2> QED
    BY <1>4, <1>7, <2>1
<1>8. CASE p # 0
  <2>1. p \in 1 .. p
    BY <1>5, <1>8
  <2>2. ASSUME NEW i \in S PROVE i <= at[p]
    <3>1. PICK n \in 1 .. p : at[n] = i
      BY <1>5
    <3>2. n = p \/ n < p
      BY <1>5
    <3> QED
      BY <1>5, <1>6, <2>1, <3>1, <3>2
  <2>3. at[p] \in S
    BY <1>5, <2>1
  <2>4. Max(LatestOf(obs, S)) = at[p]
    BY <1>1, <2>2, <2>3, LastRowIsMax
  <2> QED
    BY <1>4, <1>5, <1>8, <2>1, <2>3, <2>4
<1> QED
  BY <1>7, <1>8

\* What a segment costs either side.
Cost(rate, start, end) == rate * (end - start)

\* apply_rate charges the two sides the same cost with opposite signs.
LEMMA Charged ==
  ASSUME NEW rate \in Int, NEW start \in Int, NEW end \in Int, start <= end
  PROVE  /\ ApplyRate("short", 1, rate, start, end) = Cost(rate, start, end)
         /\ ApplyRate("long", 1, rate, start, end) = - Cost(rate, start, end)
<1> USE DEF Cost
<1>1. rate * 1 = rate
  OBVIOUS
<1>2. rate * 1 * (end - start) = rate * (end - start)
  BY <1>1
<1>3. CASE end <= start
  <2>1. end - start = 0
    BY <1>3
  <2>2. rate * 0 = 0
    OBVIOUS
  <2> QED
    BY <1>3, <2>1, <2>2 DEF ApplyRate
<1>4. CASE ~ (end <= start)
  BY <1>2, <1>4 DEF ApplyRate
<1> QED
  BY <1>3, <1>4

\* The rate of every hour of a period.
HourlyRates(obs, asset, from, to) ==
    [n \in 1 .. to - from |-> StepRate(obs, asset, from, to, from + n - 1)]

\* accrued_funding in a period that has observations.
LEMMA AccruedInside ==
  ASSUME NEW obs, Rising(obs), NEW asset, NEW from \in Int, NEW to \in Int, from < to,
         NEW r \in Nat, r > 0, NEW at, NEW rel,
         rel = Relevant(obs, asset, from, to),
         Keeps(rel, Observation, obs, Within(obs, asset, from, to), r, at)
  PROVE  LET owed == SumOf(HourlyRates(obs, asset, from, to))
         IN /\ AccruedFunding(asset, "short", 1, from, to, obs) = owed
            /\ AccruedFunding(asset, "long", 1, from, to, obs) = - owed
<1> DEFINE values == HourlyRates(obs, asset, from, to)
           H == to - from
           a == [j \in 1 .. r |-> rel[j].observed_at - from]
           rate == [j \in 1 .. r |-> rel[j].rate]
           parts == [j \in 1 .. r - 1 |-> rate[j] * (a[j + 1] - a[j])]
           less == [j \in 1 .. r - 1 |-> - parts[j]]
           Charge(side, o, start, end) == ApplyRate(side, 1, o.rate, start, end)
           Charges(side) == [j \in 1 .. r - 1 |->
               Charge(side, rel[j], rel[j].observed_at, rel[j + 1].observed_at)]
<1>1. Within(obs, asset, from, to) \in SUBSET (1 .. Len(obs))
  BY DEF Within, RowsOf, Rising
<1>2. Rising(rel) /\ Len(rel) = r
  BY <1>1, StillRising
<1>3. /\ 1 \in 1 .. r /\ r \in 1 .. r
      /\ \A j \in 1 .. r - 1 : j \in 1 .. r /\ j + 1 \in 1 .. r /\ j < j + 1
  OBVIOUS
<1>4. \A j \in 1 .. r : /\ rel[j].observed_at \in Int /\ rel[j].rate \in Int
                        /\ from <= rel[j].observed_at /\ rel[j].observed_at <= to
  <2> SUFFICES ASSUME NEW j \in 1 .. r
               PROVE  /\ rel[j].observed_at \in Int /\ rel[j].rate \in Int
                      /\ from <= rel[j].observed_at /\ rel[j].observed_at <= to
    OBVIOUS
  <2>1. rel[j].observed_at \in Int /\ rel[j].rate \in Int
    BY <1>2, RowTyped
  <2>2. rel[j] = obs[at[j]] /\ at[j] \in Within(obs, asset, from, to)
    BY DEF Keeps
  <2>3. rel[j].observed_at \in from .. to
    BY <2>2 DEF Within
  <2> QED
    BY <2>1, <2>3
<1>5. \A j \in 1 .. r - 1 : rel[j].observed_at <= rel[j + 1].observed_at
  BY <1>2, <1>3 DEF Rising
<1>6. H \in Nat /\ a \in [1 .. r -> 0 .. H] /\ rate \in [1 .. r -> Int]
  BY <1>4
<1>7. \A j \in 1 .. r : a[j] = rel[j].observed_at - from /\ rate[j] = rel[j].rate
  OBVIOUS
<1>8. \A n \in 1 .. H :
          /\ n <= a[1] => values[n] = rate[1]
          /\ \A j \in 1 .. r : a[j] < n /\ (j < r => n <= a[j + 1]) => values[n] = rate[j]
  <2> SUFFICES ASSUME NEW n \in 1 .. H
               PROVE  /\ n <= a[1] => values[n] = rate[1]
                      /\ \A j \in 1 .. r :
                             a[j] < n /\ (j < r => n <= a[j + 1]) => values[n] = rate[j]
    OBVIOUS
  <2> DEFINE t == from + n - 1
  <2>1. t \in Int /\ values[n] = StepRate(obs, asset, from, to, t)
    BY DEF HourlyRates
  <2>2. \A x \in Int : (n <= x - from <=> t < x) /\ (x - from < n <=> x <= t)
    OBVIOUS
  <2> HIDE DEF t, values
  <2>3. t < rel[1].observed_at => values[n] = rel[1].rate
    BY <2>1, StepInside
  <2>4. \A j \in 1 .. r :
            rel[j].observed_at <= t /\ (j < r => t < rel[j + 1].observed_at)
                => values[n] = rel[j].rate
    BY <2>1, StepInside
  <2>5. n <= a[1] => values[n] = rate[1]
    BY <1>3, <1>4, <1>7, <2>2, <2>3
  <2>6. ASSUME NEW j \in 1 .. r, a[j] < n, j < r => n <= a[j + 1]
        PROVE  values[n] = rate[j]
    <3>1. rel[j].observed_at <= t
      BY <1>4, <1>7, <2>2, <2>6
    <3>2. j < r => t < rel[j + 1].observed_at
      <4> SUFFICES ASSUME j < r PROVE t < rel[j + 1].observed_at
        OBVIOUS
      <4>1. j + 1 \in 1 .. r /\ n <= a[j + 1]
        BY <2>6
      <4> QED
        BY <1>4, <1>7, <2>2, <4>1
    <3> QED
      BY <1>7, <2>4, <3>1, <3>2
  <2> QED
    BY <2>5, <2>6
<1>9. values \in [1 .. H -> Int]
  <2>1. ASSUME NEW n \in 1 .. H PROVE values[n] \in Int
    <3> DEFINE t == from + n - 1
    <3>1. t \in Int /\ values[n] = StepRate(obs, asset, from, to, t)
      BY DEF HourlyRates
    <3> HIDE DEF t, values
    <3>2. CASE t < rel[1].observed_at
      BY <1>3, <1>4, <3>1, <3>2, StepInside
    <3>3. CASE \E j \in 1 .. r : Holds(rel, r, t, j)
      <4>1. PICK j \in 1 .. r : Holds(rel, r, t, j)
        BY <3>3
      <4>2. values[n] = rel[j].rate
        BY <3>1, <4>1, StepInside DEF Holds
      <4> QED
        BY <1>4, <4>2
    <3> QED
      BY <1>2, <3>1, <3>2, <3>3, SomeHolds
  <2>2. values = [n \in 1 .. H |-> values[n]]
    BY DEF HourlyRates
  <2> HIDE DEF values
  <2> QED
    BY <2>1, <2>2
<1>10. Follows(values, H, r, a, rate)
  <2> HIDE DEF values, H, a, rate
  <2>1. \A j \in 1 .. r - 1 : j \in 1 .. r
    BY <1>3
  <2>2. ~ (r < r)
    OBVIOUS
  <2> QED
    BY <1>3, <1>8, <2>1, <2>2 DEF Follows
<1>11. \A j \in 1 .. r - 1 : a[j] <= a[j + 1]
  BY <1>3, <1>4, <1>5, <1>7
<1>12. SumOf(values) = rate[1] * a[1] + SumOf(parts) + rate[r] * (H - a[r])
  <2> HIDE DEF values, H, a, rate
  <2> QED
    BY <1>6, <1>9, <1>10, <1>11, SegmentSum
<1>13. /\ rate[1] * a[1] \in Int /\ rate[r] * (H - a[r]) \in Int
       /\ \A j \in 1 .. r - 1 : rate[j] * (a[j + 1] - a[j]) \in Int
  <2> HIDE DEF H, a, rate
  <2>1. \A u, w \in Int : u * w \in Int
    OBVIOUS
  <2>2. /\ \A j \in 1 .. r : a[j] \in Int /\ rate[j] \in Int
        /\ H \in Int
    BY <1>6
  <2> QED
    BY <1>3, <2>1, <2>2
<1>14. parts \in Seq(Int) /\ Len(parts) = r - 1 /\ SumOf(parts) \in Int
  <2> HIDE DEF H, a, rate
  <2>1. parts \in Seq(Int) /\ Len(parts) = r - 1
    BY <1>13
  <2> HIDE DEF parts
  <2> QED
    BY <2>1, SumType
<1>15. SumOf(less) = - SumOf(parts)
  <2> HIDE DEF parts
  <2> QED
    BY <1>14, SumNegated
<1>16. \A j \in 1 .. r - 1 :
           /\ Charge("short", rel[j], rel[j].observed_at, rel[j + 1].observed_at) = parts[j]
           /\ Charge("long", rel[j], rel[j].observed_at, rel[j + 1].observed_at) = - parts[j]
  <2> SUFFICES ASSUME NEW j \in 1 .. r - 1
               PROVE  /\ Charge("short", rel[j], rel[j].observed_at, rel[j + 1].observed_at) = parts[j]
                      /\ Charge("long", rel[j], rel[j].observed_at, rel[j + 1].observed_at) = - parts[j]
    OBVIOUS
  <2> DEFINE q == rel[j].rate
             x == rel[j].observed_at
             y == rel[j + 1].observed_at
  <2>1. q \in Int /\ x \in Int /\ y \in Int /\ x <= y
    BY <1>3, <1>4, <1>5
  <2>2. parts[j] = Cost(q, x, y)
    <3>1. a[j + 1] - a[j] = y - x
      BY <1>3, <1>7, <2>1
    <3> QED
      BY <1>3, <1>7, <3>1 DEF Cost
  <2> HIDE DEF q, x, y, parts
  <2>3. /\ ApplyRate("short", 1, q, x, y) = Cost(q, x, y)
        /\ ApplyRate("long", 1, q, x, y) = - Cost(q, x, y)
    BY <2>1, Charged
  <2> QED
    BY <2>2, <2>3 DEF q, x, y
<1>17. Charges("short") = parts /\ Charges("long") = less
  <2>1. parts = [j \in 1 .. r - 1 |-> parts[j]]
    OBVIOUS
  <2> HIDE DEF parts, Charge
  <2> QED
    BY <1>16, <2>1
<1>18. /\ Charge("short", rel[1], from, rel[1].observed_at) = rate[1] * a[1]
       /\ Charge("long", rel[1], from, rel[1].observed_at) = - (rate[1] * a[1])
  <2> DEFINE q == rel[1].rate
             y == rel[1].observed_at
  <2>1. q \in Int /\ y \in Int /\ from <= y
    BY <1>3, <1>4
  <2>2. rate[1] * a[1] = Cost(q, from, y)
    BY <1>3, <1>7 DEF Cost
  <2> HIDE DEF q, y, a, rate
  <2>3. /\ ApplyRate("short", 1, q, from, y) = Cost(q, from, y)
        /\ ApplyRate("long", 1, q, from, y) = - Cost(q, from, y)
    BY <2>1, Charged
  <2> QED
    BY <2>2, <2>3 DEF q, y
<1>19. /\ Charge("short", rel[r], rel[r].observed_at, to) = rate[r] * (H - a[r])
       /\ Charge("long", rel[r], rel[r].observed_at, to) = - (rate[r] * (H - a[r]))
  <2> DEFINE q == rel[r].rate
             x == rel[r].observed_at
  <2>1. q \in Int /\ x \in Int /\ x <= to
    BY <1>3, <1>4
  <2>2. rate[r] * (H - a[r]) = Cost(q, x, to)
    <3>1. H - a[r] = to - x
      BY <1>3, <1>7, <2>1
    <3> QED
      BY <1>3, <1>7, <3>1 DEF Cost
  <2> HIDE DEF q, x, a, rate, H
  <2>3. /\ ApplyRate("short", 1, q, x, to) = Cost(q, x, to)
        /\ ApplyRate("long", 1, q, x, to) = - Cost(q, x, to)
    BY <2>1, Charged
  <2> QED
    BY <2>2, <2>3 DEF q, x
<1>20. \A side : AccruedFunding(asset, side, 1, from, to, obs) =
           Charge(side, rel[1], from, rel[1].observed_at) + SumOf(Charges(side))
               + Charge(side, rel[r], rel[r].observed_at, to)
  <2>1. rel # <<>> /\ Head(rel) = rel[1] /\ Last(rel) = rel[r] /\ ~ (to <= from)
    BY <1>2 DEF Last, Rising
  <2> QED
    BY <1>2, <2>1 DEF AccruedFunding
<1> HIDE DEF values, H, a, rate, parts, less, Charge, Charges
<1>21. AccruedFunding(asset, "short", 1, from, to, obs) = SumOf(values)
  BY <1>12, <1>17, <1>18, <1>19, <1>20
<1>22. AccruedFunding(asset, "long", 1, from, to, obs) = - SumOf(values)
  BY <1>12, <1>13, <1>14, <1>15, <1>17, <1>18, <1>19, <1>20
<1> QED
  BY <1>21, <1>22 DEF values

\* accrued_funding in a period that has none.
LEMMA AccruedOutside ==
  ASSUME NEW obs, Rising(obs), NEW asset, NEW from \in Int, NEW to \in Int, from < to,
         NEW p, NEW at, NEW prior,
         Within(obs, asset, from, to) = {}, Relevant(obs, asset, from, to) = <<>>,
         prior = PriorTo(obs, asset, from),
         Keeps(prior, Observation, obs, Prior(obs, asset, from), p, at)
  PROVE  LET owed == SumOf(HourlyRates(obs, asset, from, to))
         IN /\ AccruedFunding(asset, "short", 1, from, to, obs) = owed
            /\ AccruedFunding(asset, "long", 1, from, to, obs) = - owed
<1> DEFINE values == HourlyRates(obs, asset, from, to)
           H == to - from
           c == IF p = 0 THEN 0 ELSE prior[p].rate
<1>1. Prior(obs, asset, from) \in SUBSET (1 .. Len(obs))
  BY DEF Prior, RowsOf, Rising
<1>2. Rising(prior) /\ Len(prior) = p /\ p \in Nat
  <2>1. p \in Nat
    BY DEF Keeps
  <2> QED
    BY <1>1, <2>1, StillRising
<1>3. c \in Int
  <2>1. CASE p = 0
    BY <2>1
  <2>2. CASE p # 0
    <3>1. p \in 1 .. Len(prior)
      BY <1>2, <2>2
    <3>2. prior[p].rate \in Int
      BY <1>2, <3>1, RowTyped
    <3> QED
      BY <2>2, <3>2
  <2> QED
    BY <2>1, <2>2
<1>4. H \in Nat /\ H = to - from
  OBVIOUS
<1> HIDE DEF H
<1>5. values = [n \in 1 .. H |-> c]
  <2>1. \A t : StepRate(obs, asset, from, to, t) = c
    BY StepOutside
  <2> HIDE DEF c
  <2> QED
    BY <1>4, <2>1 DEF HourlyRates
<1> HIDE DEF values
<1>6. SumOf(values) = c * H
  <2>1. values \in [1 .. H -> Int] /\ \A n \in 1 .. H : values[n] = c
    BY <1>3, <1>5
  <2>2. H \in Nat
    BY <1>4
  <2> HIDE DEF c
  <2> QED
    BY <1>3, <2>1, <2>2, ConstantSum
<1>7. CASE p = 0
  <2>1. prior = <<>>
    BY <1>2, <1>7 DEF Rising
  <2>2. \A side : AccruedFunding(asset, side, 1, from, to, obs) = 0
    BY <2>1 DEF AccruedFunding
  <2>3. SumOf(values) = 0
    <3>1. c = 0 /\ 0 * H = 0
      BY <1>4, <1>7
    <3> QED
      BY <1>6, <3>1
  <2>4. \A u \in Int : - u = 0 - u
    OBVIOUS
  <2>7. SumOf(values) \in Int
    BY <2>3
  <2>5. - SumOf(values) = 0 - SumOf(values)
    BY <2>4, <2>7, Zenon
  <2>6. 0 - SumOf(values) = 0
    BY <2>3
  <2> QED
    BY <2>2, <2>3, <2>5, <2>6 DEF values
<1>8. CASE p # 0
  <2>1. prior # <<>> /\ Last(prior) = prior[p] /\ ~ (to <= from)
    BY <1>2, <1>8 DEF Last, Rising
  <2>2. \A side : AccruedFunding(asset, side, 1, from, to, obs)
                      = ApplyRate(side, 1, c, from, to)
    BY <1>8, <2>1 DEF AccruedFunding
  <2>3. SumOf(values) = Cost(c, from, to)
    BY <1>4, <1>6 DEF Cost
  <2> HIDE DEF c
  <2>4. /\ ApplyRate("short", 1, c, from, to) = Cost(c, from, to)
        /\ ApplyRate("long", 1, c, from, to) = - Cost(c, from, to)
    BY <1>3, Charged
  <2> QED
    BY <2>2, <2>3, <2>4 DEF values
<1> QED
  BY <1>7, <1>8

\* The funding of any holding period is the integral of the rate in force.
THEOREM FundingIsIntegral == ReadersSpec => []AccrualIsStep
<1>1. ReadersType => AccrualIsStep
  <2> SUFFICES ASSUME ReadersType PROVE AccrualIsStep
    OBVIOUS
  <2> DEFINE obs == ReadFunding(observations)
  <2>1. Rising(obs)
    BY ReadingFunding DEF ReadersType, Rising
  <2> HIDE DEF obs
  <2>2. ASSUME obs # <<>>, NEW w \in Windows, NEW key \in Keys
        PROVE  LET owed == SumOf([n \in 1 .. w[2] - w[1] |->
                                     StepRate(obs, key, w[1], w[2], w[1] + n - 1)])
               IN /\ AccruedFunding(key, "short", 1, w[1], w[2], obs) = owed
                  /\ AccruedFunding(key, "long", 1, w[1], w[2], obs) = - owed
    <3> DEFINE from == w[1]
               to == w[2]
    <3>1. from \in Int /\ to \in Int /\ from < to
      BY <2>2, StampAssumption DEF Windows
    <3> HIDE DEF from, to
    <3> DEFINE S == Within(obs, key, from, to)
               P == Prior(obs, key, from)
    <3>2. S \in SUBSET (1 .. Len(obs)) /\ P \in SUBSET (1 .. Len(obs)) /\ obs \in Seq(Observation)
      BY <2>1 DEF Within, Prior, RowsOf, Rising
    <3>3. Relevant(obs, key, from, to) = Filter(obs, S) /\ PriorTo(obs, key, from) = Filter(obs, P)
      BY DEF Relevant, PriorTo, Within, Prior
    <3> HIDE DEF S, P
    <3>4. /\ Keeps(Filter(obs, S), Observation, obs, S, Cardinality(S), InOrder(S, Upward(S)))
          /\ Keeps(Filter(obs, P), Observation, obs, P, Cardinality(P), InOrder(P, Upward(P)))
      BY <3>2, Filtering
    <3>5. CASE Cardinality(S) > 0
      <4>1. Cardinality(S) \in Nat
        BY <3>4 DEF Keeps
      <4>2. LET owed == SumOf(HourlyRates(obs, key, from, to))
            IN /\ AccruedFunding(key, "short", 1, from, to, obs) = owed
               /\ AccruedFunding(key, "long", 1, from, to, obs) = - owed
        BY <2>1, <3>1, <3>3, <3>4, <3>5, <4>1, AccruedInside DEF S
      <4> QED
        BY <4>2 DEF HourlyRates, from, to
    <3>6. CASE ~ (Cardinality(S) > 0)
      <4>1. Cardinality(S) = 0 /\ S = {} /\ Filter(obs, S) = <<>>
        BY <3>4, <3>6 DEF Keeps
      <4>2. LET owed == SumOf(HourlyRates(obs, key, from, to))
            IN /\ AccruedFunding(key, "short", 1, from, to, obs) = owed
               /\ AccruedFunding(key, "long", 1, from, to, obs) = - owed
        BY <2>1, <3>1, <3>3, <3>4, <4>1, AccruedOutside DEF S, P
      <4> QED
        BY <4>2 DEF HourlyRates, from, to
    <3> QED
      BY <3>5, <3>6
  <2> QED
    BY <2>2 DEF AccrualIsStep, obs
<1> QED
  BY <1>1, LogTypes, PTL

-----------------------------------------------------------------------------
(* Spelling *)

\* Respelling a fill changes its name, and not its asset.
LEMMA RespellFill ==
  ASSUME NEW f \in Fill
  PROVE  /\ Respell(f) \in Fill /\ Respell(f).asset = Upper[f.asset]
         /\ Upper[Respell(f).asset] = Upper[f.asset]
         /\ Respell(f).side = f.side /\ Respell(f).size = f.size
         /\ Respell(f).price = f.price /\ Respell(f).intent = f.intent
         /\ Respell(f).filled_at = f.filled_at
<1>1. f.asset \in Assets
  BY DEF Fill
<1>2. Upper[f.asset] \in Assets /\ Upper[Upper[f.asset]] = Upper[f.asset]
  BY <1>1, SpellingAssumption
<1> QED
  BY <1>2 DEF Fill, Respell

\* Nor that of an observation.
LEMMA RespellObservation ==
  ASSUME NEW o \in Observation
  PROVE  /\ Respell(o) \in Observation /\ Respell(o).asset = Upper[o.asset]
         /\ Upper[Respell(o).asset] = Upper[o.asset]
         /\ Respell(o).rate = o.rate /\ Respell(o).observed_at = o.observed_at
         /\ Respell(o).mid = o.mid
<1>1. o.asset \in Assets
  BY DEF Observation
<1>2. Upper[o.asset] \in Assets /\ Upper[Upper[o.asset]] = Upper[o.asset]
  BY <1>1, SpellingAssumption
<1> QED
  BY <1>2 DEF Observation, Respell

\* The rows of one sequence are those of the other, respelled.
Respells(new, rows, D) ==
    /\ rows \in Seq(D) /\ new \in Seq(D) /\ Len(new) = Len(rows)
    /\ \A n \in 1 .. Len(rows) : new[n] = Respell(rows[n])

\* The lines of a log respelled: the same ones parse.
LEMMA RespelledLines ==
  ASSUME NEW D, Torn \notin D, \A r \in D : Respell(r) \in D,
         NEW lines \in Seq(D \cup {Torn})
  PROVE  /\ Respelled(lines) \in Seq(D \cup {Torn})
         /\ Whole(Respelled(lines)) = Whole(lines)
         /\ \A i \in Whole(lines) : lines[i] \in D /\ Respelled(lines)[i] = Respell(lines[i])
<1> DEFINE new == Respelled(lines)
<1>1. new = [i \in 1 .. Len(lines) |-> IF lines[i] = Torn THEN Torn ELSE Respell(lines[i])]
  BY DEF Respelled, Respell
<1> HIDE DEF new
<1>2. \A i \in 1 .. Len(lines) : /\ lines[i] = Torn => new[i] = Torn
                                 /\ lines[i] # Torn => lines[i] \in D /\ new[i] = Respell(lines[i])
  BY <1>1
<1>3. new \in Seq(D \cup {Torn}) /\ Len(new) = Len(lines)
  <2>1. \A i \in 1 .. Len(lines) : new[i] \in D \cup {Torn}
    BY <1>2
  <2>2. DOMAIN new = 1 .. Len(lines) /\ new = [i \in 1 .. Len(lines) |-> new[i]]
    BY <1>1
  <2> QED
    BY <2>1, <2>2
<1>4. Whole(new) = Whole(lines)
  <2>1. DOMAIN new = 1 .. Len(lines) /\ DOMAIN lines = 1 .. Len(lines)
    BY <1>3
  <2>2. \A i \in 1 .. Len(lines) : new[i] = Torn <=> lines[i] = Torn
    BY <1>2
  <2> QED
    BY <2>1, <2>2 DEF Whole
<1>5. \A i \in Whole(lines) : lines[i] \in D /\ new[i] = Respell(lines[i])
  BY <1>2 DEF Whole
<1> QED
  BY <1>3, <1>4, <1>5 DEF new

\* They are read in the same order.
LEMMA RespelledFills ==
  ASSUME NEW lines \in Seq(Line)
  PROVE  Respells(ReadFills(Respelled(lines)), ReadFills(lines), Fill)
<1> DEFINE new == Respelled(lines)
           S == Whole(lines)
           N == Cardinality(S)
           order == InOrder(S, KeptOrder(lines))
<1>1. /\ new \in Seq(Line) /\ Whole(new) = S
      /\ \A i \in S : lines[i] \in Fill /\ new[i] = Respell(lines[i])
  <2>1. \A f \in Fill : Respell(f) \in Fill
    BY RespellFill
  <2> QED
    BY <2>1, TornAssumption, RespelledLines DEF Line
<1>2. \A i \in S : new[i].filled_at = lines[i].filled_at
  BY <1>1, RespellFill
<1> HIDE DEF new
<1>3. \A x, y \in S : <<x, y>> \in KeptOrder(new) <=> <<x, y>> \in KeptOrder(lines)
  BY <1>1, <1>2 DEF KeptOrder, Before
<1> HIDE DEF S
<1>4. InOrder(S, KeptOrder(new)) = InOrder(S, KeptOrder(lines))
  BY <1>3, SameOrder
<1> HIDE DEF order
<1>5. /\ N \in Nat /\ order \in [1 .. N -> S]
      /\ ReadFills(lines) = [n \in 1 .. N |-> lines[order[n]]]
      /\ ReadFills(lines) \in Seq(Fill) /\ Len(ReadFills(lines)) = N
  BY Reading DEF S, order
<1>6. /\ ReadFills(new) = [n \in 1 .. N |-> new[order[n]]]
      /\ ReadFills(new) \in Seq(Fill) /\ Len(ReadFills(new)) = N
  BY <1>1, <1>4, Reading DEF order
<1>7. \A n \in 1 .. N : ReadFills(new)[n] = Respell(ReadFills(lines)[n])
  BY <1>1, <1>5, <1>6
<1> QED
  BY <1>5, <1>6, <1>7 DEF Respells, new

\* The same of read_funding.
LEMMA RespelledFunding ==
  ASSUME NEW lines \in Seq(Observation \cup {Torn})
  PROVE  Respells(ReadFunding(Respelled(lines)), ReadFunding(lines), Observation)
<1> DEFINE new == Respelled(lines)
           S == Whole(lines)
           N == Cardinality(S)
           order == InOrder(S, EarlierOrder(lines))
<1>1. /\ new \in Seq(Observation \cup {Torn}) /\ Whole(new) = S
      /\ \A i \in S : lines[i] \in Observation /\ new[i] = Respell(lines[i])
  <2>1. \A o \in Observation : Respell(o) \in Observation
    BY RespellObservation
  <2> QED
    BY <2>1, ObservationAssumption, RespelledLines
<1>2. \A i \in S : new[i].observed_at = lines[i].observed_at
  BY <1>1, RespellObservation
<1> HIDE DEF new
<1>3. \A x, y \in S : <<x, y>> \in EarlierOrder(new) <=> <<x, y>> \in EarlierOrder(lines)
  BY <1>1, <1>2 DEF EarlierOrder, Earlier
<1> HIDE DEF S
<1>4. InOrder(S, EarlierOrder(new)) = InOrder(S, EarlierOrder(lines))
  BY <1>3, SameOrder
<1> HIDE DEF order
<1>5. /\ IsFiniteSet(S) /\ OrderOn(S, EarlierOrder(lines))
      /\ ReadFunding(lines) = [n \in 1 .. N |-> lines[order[n]]]
      /\ ReadFunding(lines) \in Seq(Observation) /\ Len(ReadFunding(lines)) = N
  BY ReadingFunding DEF S, order
<1>6. N \in Nat /\ order \in [1 .. N -> S]
  BY <1>5, InOrderSorts DEF order
<1>7. /\ ReadFunding(new) = [n \in 1 .. N |-> new[order[n]]]
      /\ ReadFunding(new) \in Seq(Observation) /\ Len(ReadFunding(new)) = N
  BY <1>1, <1>4, ReadingFunding DEF order
<1>8. \A n \in 1 .. N : ReadFunding(new)[n] = Respell(ReadFunding(lines)[n])
  BY <1>1, <1>5, <1>6, <1>7
<1> QED
  BY <1>5, <1>7, <1>8 DEF Respells, new

\* A row of a respelled log beside the row it comes from.
LEMMA RespelledRow ==
  ASSUME NEW new, NEW fills, Respells(new, fills, Fill), NEW n \in 1 .. Len(fills)
  PROVE  /\ fills[n] \in Fill /\ new[n] = Respell(fills[n])
         /\ Upper[new[n].asset] = Upper[fills[n].asset] /\ new[n].intent = fills[n].intent
<1>1. fills[n] \in Fill /\ new[n] = Respell(fills[n])
  BY DEF Respells
<1> QED
  BY <1>1, RespellFill

\* What is paired is paired whatever the spelling.
LEMMA RespelledPairs ==
  ASSUME NEW new, NEW fills, Respells(new, fills, Fill)
  PROVE  LET closed == ClosedTrades(fills)
             trades == ClosedTrades(new)
         IN /\ OpenTrades(new) = {Respell(f) : f \in OpenTrades(fills)}
            /\ closed \in Seq(Trades) /\ trades \in Seq(Trades) /\ Len(trades) = Len(closed)
            /\ \A n \in 1 .. Len(closed) :
                   trades[n] = [open |-> Respell(closed[n].open),
                                close |-> Respell(closed[n].close)]
<1> DEFINE N == Len(fills)
           C == Closings(fills, N)
           order == InOrder(C, Upward(C))
           current == PairFills(fills).current_open
           other == PairFills(new).current_open
           Opened(k) == CHOOSE i \in Opener(fills, order[k]) : TRUE
<1>1. N \in Nat /\ Len(new) = N /\ fills \in Seq(Fill) /\ new \in Seq(Fill)
  BY DEF Respells
<1>2. /\ PairFills(fills) \in Pairing /\ PairFills(new) \in Pairing
      /\ Opens(fills, N, current) /\ Opens(new, N, other)
      /\ ClosedTrades(fills) = Neighbours(fills, N) /\ ClosedTrades(new) = Neighbours(new, N)
  BY <1>1, Pairs DEF ClosedTrades
<1> HIDE DEF N
<1>3. \A n \in 1 .. N : /\ new[n] = Respell(fills[n])
                        /\ Upper[new[n].asset] = Upper[fills[n].asset]
                        /\ new[n].intent = fills[n].intent
  BY RespelledRow DEF N
<1>4. ASSUME NEW n \in 0 .. N, NEW key
      PROVE  OpenUpto(new, n, key) = OpenUpto(fills, n, key)
  <2>1. \A i \in 1 .. n : i \in 1 .. N
    BY <1>1
  <2>2. LastUpto(new, n, key) = LastUpto(fills, n, key)
    BY <1>3, <2>1 DEF LastUpto
  <2>3. \A i \in LastUpto(fills, n, key) : i \in 1 .. N
    BY <2>1 DEF LastUpto
  <2> QED
    BY <1>3, <2>2, <2>3 DEF OpenUpto
<1>5. \A key \in Keys : key \in DOMAIN other <=> key \in DOMAIN current
  <2>1. N \in 0 .. N
    BY <1>1
  <2> QED
    BY <1>2, <1>4, <2>1 DEF Opens
<1>6. /\ DOMAIN other \subseteq Keys /\ DOMAIN current \subseteq Keys
  BY <1>2 DEF Pairing, Current
<1>7. ASSUME NEW key \in DOMAIN current PROVE other[key] = Respell(current[key])
  <2>1. N \in 0 .. N /\ key \in Keys
    BY <1>1, <1>6
  <2>2. PICK i : i \in OpenUpto(fills, N, key)
    BY <1>2, <2>1 DEF Opens
  <2>3. i \in 1 .. N /\ i \in OpenUpto(new, N, key)
    BY <1>4, <2>1, <2>2 DEF OpenUpto, LastUpto
  <2>4. current[key] = fills[i] /\ other[key] = new[i]
    BY <1>2, <2>1, <2>2, <2>3 DEF Opens
  <2> QED
    BY <1>3, <2>3, <2>4
<1>8. OpenTrades(new) = {Respell(f) : f \in OpenTrades(fills)}
  <2>1. OpenTrades(new) = {other[key] : key \in DOMAIN other}
    BY DEF OpenTrades, Range
  <2>2. OpenTrades(fills) = {current[key] : key \in DOMAIN current}
    BY DEF OpenTrades, Range
  <2>3. DOMAIN other = DOMAIN current
    BY <1>5, <1>6
  <2> HIDE DEF other, current
  <2> QED
    BY <1>7, <2>1, <2>2, <2>3
<1>9. \A j \in 1 .. N : Opener(new, j) = Opener(fills, j) /\ \A i \in Opener(fills, j) : i \in 1 .. N
  <2> SUFFICES ASSUME NEW j \in 1 .. N
               PROVE  Opener(new, j) = Opener(fills, j) /\ \A i \in Opener(fills, j) : i \in 1 .. N
    OBVIOUS
  <2>1. j - 1 \in 0 .. N
    BY <1>1
  <2>2. Opener(new, j) = Opener(fills, j)
    BY <1>3, <1>4, <2>1 DEF Opener
  <2>3. \A i \in Opener(fills, j) : i \in 1 .. j - 1
    BY DEF Opener, OpenUpto, LastUpto
  <2>4. \A i \in 1 .. j - 1 : i \in 1 .. N
    BY <1>1
  <2> QED
    BY <2>2, <2>3, <2>4
<1>10. Closings(new, N) = C
  BY <1>3, <1>9 DEF Closings
<1>11. /\ Cardinality(C) \in Nat /\ order \in [1 .. Cardinality(C) -> C]
  BY <1>1, ClosingsOrdered, InOrderSorts
<1>12. \A j \in C : j \in 1 .. N /\ Opener(fills, j) # {}
  BY DEF Closings
<1> DEFINE M == Cardinality(C)
<1>13. /\ ClosedTrades(fills) = [k \in 1 .. M |-> [open |-> fills[Opened(k)],
                                                  close |-> fills[order[k]]]]
  BY <1>2 DEF Neighbours
<1> HIDE DEF C
<1>14. /\ ClosedTrades(new) =
             [k \in 1 .. M |-> [open |-> new[CHOOSE i \in Opener(new, order[k]) : TRUE],
                                close |-> new[order[k]]]]
  BY <1>2, <1>10 DEF Neighbours
<1> HIDE DEF M, order
<1>15. ASSUME NEW k \in 1 .. M
       PROVE  /\ Opened(k) \in 1 .. N /\ order[k] \in 1 .. N
              /\ (CHOOSE i \in Opener(new, order[k]) : TRUE) = Opened(k)
  <2>1. order[k] \in 1 .. N /\ Opener(fills, order[k]) # {}
    BY <1>11, <1>12 DEF M
  <2>2. Opened(k) \in Opener(fills, order[k])
    BY <2>1
  <2>3. Opener(new, order[k]) = Opener(fills, order[k])
    BY <1>9, <2>1
  <2> QED
    BY <1>9, <2>1, <2>2, <2>3
<1> HIDE DEF Opened
<1>16. ClosedTrades(new) = [k \in 1 .. M |-> [open |-> new[Opened(k)], close |-> new[order[k]]]]
  BY <1>14, <1>15
<1>17. /\ ClosedTrades(fills) \in Seq(Trades) /\ ClosedTrades(new) \in Seq(Trades)
  BY <1>2 DEF Pairing, ClosedTrades
<1>18. M \in Nat
  BY <1>11 DEF M
<1>19. Len(ClosedTrades(fills)) = M /\ Len(ClosedTrades(new)) = M
  BY <1>13, <1>16, <1>18
<1>20. ASSUME NEW n \in 1 .. M
       PROVE  ClosedTrades(new)[n] = [open |-> Respell(ClosedTrades(fills)[n].open),
                                      close |-> Respell(ClosedTrades(fills)[n].close)]
  <2>1. ClosedTrades(fills)[n] = [open |-> fills[Opened(n)], close |-> fills[order[n]]]
    BY <1>13
  <2>2. ClosedTrades(new)[n] = [open |-> new[Opened(n)], close |-> new[order[n]]]
    BY <1>16
  <2>3. new[Opened(n)] = Respell(fills[Opened(n)]) /\ new[order[n]] = Respell(fills[order[n]])
    BY <1>3, <1>15
  <2> QED
    BY <2>1, <2>2, <2>3
<1> QED
  BY <1>8, <1>17, <1>19, <1>20

\* The latest mids are kept under the upper-case names anyway.
LEMMA RespelledMids ==
  ASSUME NEW new, NEW obs, Respells(new, obs, Observation)
  PROVE  LatestMids(new) = LatestMids(obs)
<1> DEFINE N == Len(obs)
           Step(f, n) == IF n = 0 THEN <<>> ELSE MidStep(f[n - 1], obs[n])
           NewStep(f, n) == IF n = 0 THEN <<>> ELSE MidStep(f[n - 1], new[n])
           Is(f) == f = [n \in 0 .. N |-> Step(f, n)]
           NewIs(f) == f = [n \in 0 .. N |-> NewStep(f, n)]
<1>1. N \in Nat /\ Len(new) = N
  BY DEF Respells
<1>2. ASSUME NEW map, NEW n \in 1 .. N PROVE MidStep(map, new[n]) = MidStep(map, obs[n])
  <2>1. obs[n] \in Observation /\ new[n] = Respell(obs[n])
    BY DEF Respells
  <2>2. /\ Upper[new[n].asset] = Upper[obs[n].asset]
        /\ new[n].observed_at = obs[n].observed_at /\ new[n].mid = obs[n].mid
    BY <2>1, RespellObservation
  <2> QED
    BY <2>2 DEF MidStep, MidKey
<1>3. \A f : \A n \in 0 .. N : NewStep(f, n) = Step(f, n)
  BY <1>1, <1>2
<1> HIDE DEF Step, NewStep
<1>4. \A f : [n \in 0 .. N |-> NewStep(f, n)] = [n \in 0 .. N |-> Step(f, n)]
  BY <1>3
<1>5. \A f : NewIs(f) <=> Is(f)
  BY <1>4
<1> HIDE DEF Is, NewIs
<1>6. (CHOOSE f : NewIs(f)) = (CHOOSE f : Is(f))
  BY <1>5
<1>7. /\ LatestMids(obs) = LET last == (CHOOSE f : Is(f))[N]
                           IN [key \in DOMAIN last |-> last[key].mid]
      /\ LatestMids(new) = LET last == (CHOOSE f : NewIs(f))[N]
                           IN [key \in DOMAIN last |-> last[key].mid]
  BY <1>1 DEF LatestMids, Is, NewIs, Step, NewStep
<1> QED
  BY <1>6, <1>7

\* Funding goes by the asset and not by the name.
LEMMA RespelledAccrual ==
  ASSUME NEW new, NEW obs, Respells(new, obs, Observation),
         NEW name, NEW asset, Upper[name] = Upper[asset],
         NEW side, NEW notional, NEW from, NEW to
  PROVE  AccruedFunding(name, side, notional, from, to, new)
             = AccruedFunding(asset, side, notional, from, to, obs)
<1> DEFINE N == Len(obs)
           Same(r, q) == /\ Len(q) = Len(r) /\ q \in Seq(Observation) /\ r \in Seq(Observation)
                         /\ \A n \in 1 .. Len(r) : /\ q[n].rate = r[n].rate
                                                   /\ q[n].observed_at = r[n].observed_at
           rel == Relevant(obs, asset, from, to)
           other == Relevant(new, name, from, to)
           prior == PriorTo(obs, asset, from)
           early == PriorTo(new, name, from)
<1>1. N \in Nat /\ Len(new) = N /\ obs \in Seq(Observation) /\ new \in Seq(Observation)
  BY DEF Respells
<1>2. \A n \in 1 .. N : /\ Upper[new[n].asset] = Upper[obs[n].asset]
                        /\ new[n].rate = obs[n].rate
                        /\ new[n].observed_at = obs[n].observed_at
  BY <1>1, RespellObservation DEF Respells
<1>3. ASSUME NEW S \in SUBSET (1 .. N)
      PROVE  Same(Filter(obs, S), Filter(new, S))
  <2> DEFINE M == Cardinality(S)
             at == InOrder(S, Upward(S))
  <2>1. /\ Keeps(Filter(obs, S), Observation, obs, S, M, at)
        /\ Keeps(Filter(new, S), Observation, new, S, M, at)
    BY <1>1, Filtering
  <2> HIDE DEF M, at
  <2>2. /\ Filter(obs, S) \in Seq(Observation) /\ Filter(new, S) \in Seq(Observation)
        /\ Len(Filter(obs, S)) = M /\ Len(Filter(new, S)) = M
        /\ \A n \in 1 .. M : /\ at[n] \in 1 .. N
                             /\ Filter(obs, S)[n] = obs[at[n]]
                             /\ Filter(new, S)[n] = new[at[n]]
    BY <2>1 DEF Keeps
  <2> QED
    BY <1>2, <2>2
<1>4. RowsOf(new, name) = RowsOf(obs, asset) /\ \A i \in RowsOf(obs, asset) : i \in 1 .. N
  BY <1>1, <1>2 DEF RowsOf, SameAsset
<1>5. {i \in RowsOf(new, name) : new[i].observed_at \in from .. to}
          = {i \in RowsOf(obs, asset) : obs[i].observed_at \in from .. to}
  BY <1>2, <1>4
<1>6. {i \in RowsOf(new, name) : new[i].observed_at < from}
          = {i \in RowsOf(obs, asset) : obs[i].observed_at < from}
  BY <1>2, <1>4
<1>7. Same(rel, other)
  <2> DEFINE S == {i \in RowsOf(obs, asset) : obs[i].observed_at \in from .. to}
  <2>1. rel = Filter(obs, S) /\ other = Filter(new, S)
    BY <1>5 DEF Relevant
  <2>2. S \in SUBSET (1 .. N)
    BY <1>4
  <2> HIDE DEF S, rel, other
  <2> QED
    BY <1>3, <2>1, <2>2
<1>8. Same(prior, early)
  <2> DEFINE S == {i \in RowsOf(obs, asset) : obs[i].observed_at < from}
  <2>1. prior = Filter(obs, S) /\ early = Filter(new, S)
    BY <1>6 DEF PriorTo
  <2>2. S \in SUBSET (1 .. N)
    BY <1>4
  <2> HIDE DEF S, prior, early
  <2> QED
    BY <1>3, <2>1, <2>2
<1> DEFINE Charge(o, start, end) == ApplyRate(side, notional, o.rate, start, end)
           Owed(p, r) == IF to <= from THEN 0
               ELSE IF r = <<>>
               THEN IF p = <<>> THEN 0 ELSE Charge(Last(p), from, to)
               ELSE Charge(Head(r), from, Head(r).observed_at)
                    + SumOf([i \in 1 .. Len(r) - 1 |->
                          Charge(r[i], r[i].observed_at, r[i + 1].observed_at)])
                    + Charge(Last(r), Last(r).observed_at, to)
<1>9. /\ AccruedFunding(name, side, notional, from, to, new) = Owed(early, other)
      /\ AccruedFunding(asset, side, notional, from, to, obs) = Owed(prior, rel)
  BY DEF AccruedFunding
<1> HIDE DEF rel, other, prior, early
<1>10. /\ early = <<>> <=> prior = <<>>
       /\ other = <<>> <=> rel = <<>>
  BY <1>7, <1>8
<1>11. prior # <<>> => Last(early).rate = Last(prior).rate
  BY <1>8 DEF Last
<1>12. ASSUME rel # <<>>
       PROVE  /\ Head(other).rate = Head(rel).rate
              /\ Head(other).observed_at = Head(rel).observed_at
              /\ Last(other).rate = Last(rel).rate
              /\ Last(other).observed_at = Last(rel).observed_at
              /\ [i \in 1 .. Len(other) - 1 |->
                     Charge(other[i], other[i].observed_at, other[i + 1].observed_at)]
                 = [i \in 1 .. Len(rel) - 1 |->
                       Charge(rel[i], rel[i].observed_at, rel[i + 1].observed_at)]
  <2>1. Len(rel) \in Nat /\ Len(rel) # 0 /\ Len(other) = Len(rel)
    BY <1>7, <1>12
  <2>2. 1 \in 1 .. Len(rel) /\ Len(rel) \in 1 .. Len(rel)
    BY <2>1
  <2>3. /\ Head(other) = other[1] /\ Head(rel) = rel[1]
        /\ Last(other) = other[Len(rel)] /\ Last(rel) = rel[Len(rel)]
    BY <1>7, <1>10, <1>12, <2>1 DEF Last
  <2>4. \A i \in 1 .. Len(rel) - 1 : i \in 1 .. Len(rel) /\ i + 1 \in 1 .. Len(rel)
    BY <2>1
  <2> QED
    BY <1>7, <2>1, <2>2, <2>3, <2>4
<1>13. Owed(early, other) = Owed(prior, rel)
  <2>1. CASE rel = <<>>
    BY <1>10, <1>11, <2>1
  <2>2. CASE rel # <<>>
    BY <1>10, <1>12, <2>2
  <2> QED
    BY <2>1, <2>2
<1> QED
  BY <1>9, <1>13

\* SetToSeq of at most one element.
LEMMA ListsOne ==
  ASSUME NEW x
  PROVE  SetToSeq({}) = <<>> /\ SetToSeq({x}) = <<x>>
<1>1. IsFiniteSet({}) /\ IsFiniteSet({x})
  BY FS_EmptySet, FS_Singleton
<1>2. SetToSeq({}) = <<>>
  <2> DEFINE s == SetToSeq({})
  <2>1. s \in Seq({})
    BY <1>1, Listing
  <2> HIDE DEF s
  <2>2. s = <<>>
    BY <2>1
  <2> QED
    BY <2>2 DEF s
<1>3. SetToSeq({x}) = <<x>>
  <2> DEFINE s == SetToSeq({x})
  <2>1. /\ s \in Seq({x})
        /\ \A i, j \in 1 .. Len(s) : s[i] = s[j] => i = j
        /\ \E i \in 1 .. Len(s) : s[i] = x
    BY <1>1, Listing
  <2> HIDE DEF s
  <2>2. \A i \in 1 .. Len(s) : s[i] = x
    BY <2>1
  <2>3. \A i, j \in 1 .. Len(s) : i = j
    BY <2>1, <2>2
  <2>4. Len(s) = 1
    <3>1. Len(s) \in Nat /\ Len(s) >= 1
      BY <2>1
    <3>2. 1 \in 1 .. Len(s) /\ Len(s) \in 1 .. Len(s)
      BY <3>1
    <3> QED
      BY <2>3, <3>2
  <2>5. s[1] = x
    BY <2>2, <2>4
  <2>6. s = <<x>>
    BY <2>1, <2>4, <2>5
  <2> QED
    BY <2>6 DEF s
<1> QED
  BY <1>2, <1>3

\* What the digest reads of a trade does not depend on the spelling.
LEMMA RespelledFigures ==
  ASSUME NEW new, NEW obs, Respells(new, obs, Observation), NEW f \in Fill,
         NEW to, NEW now, NEW mids, NEW key
  PROVE  /\ RowOf(Respell(f), key) <=> RowOf(f, key)
         /\ Funding(Respell(f), to, new) = Funding(f, to, obs)
         /\ LastObserved(new, now) = LastObserved(obs, now)
         /\ MarkOf(Respell(f), mids) = MarkOf(f, mids)
<1> DEFINE g == Respell(f)
<1>1. /\ Upper[g.asset] = Upper[f.asset] /\ g.side = f.side /\ g.size = f.size
      /\ g.price = f.price /\ g.filled_at = f.filled_at
  BY RespellFill
<1> HIDE DEF g
<1>2. RowOf(g, key) <=> RowOf(f, key)
  BY <1>1 DEF RowOf
<1>3. Funding(g, to, new) = Funding(f, to, obs)
  <2>1. NotionalUsd(g) = NotionalUsd(f)
    BY <1>1 DEF NotionalUsd
  <2>2. AccruedFunding(g.asset, g.side, NotionalUsd(g), g.filled_at, to, new)
            = AccruedFunding(f.asset, g.side, NotionalUsd(g), g.filled_at, to, obs)
    BY <1>1, RespelledAccrual
  <2> QED
    BY <1>1, <2>1, <2>2 DEF Funding
<1>4. LastObserved(new, now) = LastObserved(obs, now)
  <2>1. /\ new = <<>> <=> obs = <<>>
        /\ Len(new) = Len(obs) /\ Len(obs) \in Nat
    BY DEF Respells
  <2>2. CASE obs = <<>>
    BY <2>1, <2>2 DEF LastObserved
  <2>3. CASE obs # <<>>
    <3>1. Len(obs) \in 1 .. Len(obs) /\ obs[Len(obs)] \in Observation
      BY <2>3 DEF Respells
    <3>2. new[Len(obs)].observed_at = obs[Len(obs)].observed_at
      BY <3>1, RespellObservation DEF Respells
    <3> QED
      BY <2>1, <2>3, <3>2 DEF LastObserved, Last
  <2> QED
    BY <2>2, <2>3
<1>5. MarkOf(g, mids) = MarkOf(f, mids)
  BY <1>1 DEF MarkOf
<1> QED
  BY <1>2, <1>3, <1>4, <1>5 DEF g

\* A row of the digest.
LEMMA RespelledPnl ==
  ASSUME NEW new, NEW obs, Respells(new, obs, Observation),
         NEW closed \in Seq(Trades), NEW trades \in Seq(Trades), Len(trades) = Len(closed),
         \A n \in 1 .. Len(closed) :
             trades[n] = [open |-> Respell(closed[n].open), close |-> Respell(closed[n].close)],
         NEW open \in SUBSET Fill, \A f, g \in open : Upper[f.asset] = Upper[g.asset] => f = g,
         NEW others, others = {Respell(f) : f \in open},
         NEW key, NEW mids, NEW now
  PROVE  AssetPnl(key, trades, others, mids, new, now)
             = AssetPnl(key, closed, open, mids, obs, now)
<1> DEFINE N == Len(closed)
           S == {i \in 1 .. N : RowOf(closed[i].open, key)}
           M == Cardinality(S)
           at == InOrder(S, Upward(S))
           done == Filter(closed, S)
           ended == Filter(trades, S)
           held == SetToSeq({o \in open : RowOf(o, key)})
           kept == SetToSeq({o \in others : RowOf(o, key)})
           to == LastObserved(obs, now)
           PnlRow(d, h, rates, end) ==
               [closed_count |-> Len(d),
                open_count |-> Len(h),
                realized |-> SumOf([i \in DOMAIN d |-> RealizedPnl(d[i])]),
                unrealized |-> SumOf([i \in DOMAIN h |->
                                   UnrealizedPnl(h[i], MarkOf(h[i], mids))]),
                funding |-> SumOf([i \in DOMAIN d |->
                                Funding(d[i].open, d[i].close.filled_at, rates)])
                            + SumOf([i \in DOMAIN h |-> Funding(h[i], end, rates)])]
<1>1. \A n \in 1 .. N : /\ closed[n].open \in Fill /\ closed[n].close \in Fill
                        /\ trades[n].open = Respell(closed[n].open)
                        /\ trades[n].close = Respell(closed[n].close)
  <2>1. \A n \in 1 .. N : closed[n] \in Trades
    OBVIOUS
  <2>2. \A n \in 1 .. N : closed[n].open \in Fill /\ closed[n].close \in Fill
    BY <2>1 DEF Trades
  <2>3. ASSUME NEW n \in 1 .. N
        PROVE  trades[n].open = Respell(closed[n].open) /\ trades[n].close = Respell(closed[n].close)
    <3>1. trades[n] = [open |-> Respell(closed[n].open), close |-> Respell(closed[n].close)]
      OBVIOUS
    <3> QED
      BY <3>1
  <2> QED
    BY <2>2, <2>3
<1>2. \A f \in Fill : RowOf(Respell(f), key) <=> RowOf(f, key)
  BY RespelledFigures
<1>3. \A f \in Fill : \A end : Funding(Respell(f), end, new) = Funding(f, end, obs)
  BY RespelledFigures
<1>4. \A f \in Fill : MarkOf(Respell(f), mids) = MarkOf(f, mids)
  BY RespelledFigures
<1>5. LastObserved(new, now) = to
  <2>1. CASE obs = <<>>
    BY <2>1 DEF Respells, LastObserved
  <2>2. CASE obs # <<>>
    <3>1. Len(obs) \in 1 .. Len(obs) /\ obs[Len(obs)] \in Observation /\ new # <<>>
      BY <2>2 DEF Respells
    <3>2. new[Len(obs)].observed_at = obs[Len(obs)].observed_at /\ Len(new) = Len(obs)
      BY <3>1, RespellObservation DEF Respells
    <3> QED
      BY <2>2, <3>1, <3>2 DEF LastObserved, Last
  <2> QED
    BY <2>1, <2>2
<1>6. {i \in DOMAIN trades : RowOf(trades[i].open, key)} = S
  <2>1. DOMAIN trades = 1 .. N
    OBVIOUS
  <2>2. \A i \in 1 .. N : RowOf(trades[i].open, key) <=> RowOf(closed[i].open, key)
    BY <1>1, <1>2
  <2> QED
    BY <2>1, <2>2
<1>7. {i \in DOMAIN closed : RowOf(closed[i].open, key)} = S
  OBVIOUS
<1>8. /\ AssetPnl(key, closed, open, mids, obs, now) = PnlRow(done, held, obs, to)
      /\ AssetPnl(key, trades, others, mids, new, now) = PnlRow(ended, kept, new, to)
  BY <1>5, <1>6, <1>7 DEF AssetPnl
<1>9. /\ done \in Seq(Trades) /\ Len(done) = M /\ M \in Nat
      /\ ended \in Seq(Trades) /\ Len(ended) = M
      /\ \A n \in 1 .. M : /\ at[n] \in 1 .. N
                           /\ done[n] = closed[at[n]] /\ ended[n] = trades[at[n]]
  <2>1. S \in SUBSET (1 .. Len(closed)) /\ S \in SUBSET (1 .. Len(trades))
    OBVIOUS
  <2> HIDE DEF S
  <2>2. Keeps(done, Trades, closed, S, M, at) /\ Keeps(ended, Trades, trades, S, M, at)
    BY <2>1, Filtering
  <2> HIDE DEF done, ended, M, at
  <2>3. \A n \in 1 .. M : at[n] \in 1 .. N
    BY <2>1, <2>2 DEF Keeps
  <2> QED
    BY <2>2, <2>3 DEF Keeps
<1> HIDE DEF done, ended, M, at, S
<1>10. \A n \in 1 .. M : /\ done[n].open \in Fill /\ done[n].close \in Fill
                         /\ ended[n].open = Respell(done[n].open)
                         /\ ended[n].close = Respell(done[n].close)
  BY <1>1, <1>9
<1>11. /\ [i \in DOMAIN ended |-> RealizedPnl(ended[i])]
              = [i \in DOMAIN done |-> RealizedPnl(done[i])]
       /\ [i \in DOMAIN ended |-> Funding(ended[i].open, ended[i].close.filled_at, new)]
              = [i \in DOMAIN done |-> Funding(done[i].open, done[i].close.filled_at, obs)]
  <2>1. DOMAIN ended = 1 .. M /\ DOMAIN done = 1 .. M
    BY <1>9
  <2>2. \A n \in 1 .. M : RealizedPnl(ended[n]) = RealizedPnl(done[n])
    BY <1>10, RespellFill DEF RealizedPnl
  <2>3. \A n \in 1 .. M : Funding(ended[n].open, ended[n].close.filled_at, new)
                              = Funding(done[n].open, done[n].close.filled_at, obs)
    BY <1>3, <1>10, RespellFill
  <2> QED
    BY <2>1, <2>2, <2>3
<1>12. /\ Len(kept) = Len(held)
       /\ [i \in DOMAIN kept |-> UnrealizedPnl(kept[i], MarkOf(kept[i], mids))]
              = [i \in DOMAIN held |-> UnrealizedPnl(held[i], MarkOf(held[i], mids))]
       /\ [i \in DOMAIN kept |-> Funding(kept[i], to, new)]
              = [i \in DOMAIN held |-> Funding(held[i], to, obs)]
  <2> DEFINE H == {o \in open : RowOf(o, key)}
  <2>1. {o \in others : RowOf(o, key)} = {Respell(o) : o \in H}
    BY <1>2
  <2>2. CASE H = {}
    <3>1. {Respell(o) : o \in H} = {}
      BY <2>2
    <3> HIDE DEF H
    <3>2. {o \in others : RowOf(o, key)} = {}
      BY <2>1, <3>1
    <3>3. kept = <<>>
      BY <3>2, ListsOne
    <3>4. held = <<>>
      BY <2>2, ListsOne DEF H
    <3> HIDE DEF held, kept, to
    <3>5. DOMAIN held = {} /\ DOMAIN kept = {} /\ Len(kept) = Len(held)
      BY <3>3, <3>4
    <3> QED
      BY <3>5
  <2>3. CASE H # {}
    <3>1. PICK o \in H : TRUE
      BY <2>3
    <3>2. o \in Fill /\ H = {o}
      BY <3>1 DEF RowOf
    <3>7. {Respell(p) : p \in H} = {Respell(o)}
      BY <3>2
    <3>8. {p \in others : RowOf(p, key)} = {Respell(o)} /\ {p \in open : RowOf(p, key)} = {o}
      BY <2>1, <3>2, <3>7
    <3>9. held = <<o>>
      BY <3>8, ListsOne
    <3>10. kept = <<Respell(o)>>
      BY <3>8, ListsOne
    <3>3. held = <<o>> /\ kept = <<Respell(o)>>
      BY <3>9, <3>10
    <3>4. UnrealizedPnl(Respell(o), MarkOf(Respell(o), mids)) = UnrealizedPnl(o, MarkOf(o, mids))
      BY <1>4, <3>2, RespellFill DEF UnrealizedPnl
    <3>5. Funding(Respell(o), to, new) = Funding(o, to, obs)
      BY <1>3, <3>2
    <3> HIDE DEF held, kept, to
    <3>6. DOMAIN held = {1} /\ DOMAIN kept = {1} /\ held[1] = o /\ kept[1] = Respell(o)
      BY <3>3
    <3> QED
      BY <3>3, <3>4, <3>5, <3>6
  <2> QED
    BY <2>2, <2>3
<1>13. Len(ended) = Len(done)
  BY <1>9
<1> HIDE DEF held, kept, to
<1>14. PnlRow(ended, kept, new, to) = PnlRow(done, held, obs, to)
  BY <1>11, <1>12, <1>13
<1> QED
  BY <1>8, <1>14

\* A line of the open-positions table.
LEMMA RespelledOpenRow ==
  ASSUME NEW new, NEW obs, Respells(new, obs, Observation), NEW f \in Fill, NEW mids
  PROVE  Respell(OpenRow(Respell(f), mids)) = Respell(OpenRow(f, mids))
<1> DEFINE g == Respell(f)
           RowShown(o, mark) ==
               [asset |-> o.asset, side |-> o.side, size |-> o.size,
                entry |-> o.price, mark |-> mark,
                liq |-> LiquidationPrice(o.side, o.price, 1),
                buffer |-> LiquidationBuffer(o.side, o.price, 1, mark)]
<1>1. /\ Upper[g.asset] = Upper[f.asset] /\ g.side = f.side /\ g.size = f.size
      /\ g.price = f.price
  BY RespellFill
<1>2. MarkOf(g, mids) = MarkOf(f, mids)
  BY RespelledFigures
<1> HIDE DEF g
<1>3. /\ OpenRow(g, mids) = RowShown(g, MarkOf(g, mids))
      /\ OpenRow(f, mids) = RowShown(f, MarkOf(f, mids))
  BY DEF OpenRow
<1>4. \A o, mark : Respell(RowShown(o, mark)) =
               [asset |-> Upper[o.asset], side |-> o.side, size |-> o.size,
                entry |-> o.price, mark |-> mark,
                liq |-> LiquidationPrice(o.side, o.price, 1),
                buffer |-> LiquidationBuffer(o.side, o.price, 1, mark)]
  BY DEF Respell
<1> HIDE DEF RowShown
<1>5. Respell(RowShown(g, MarkOf(g, mids))) = Respell(RowShown(f, MarkOf(f, mids)))
  BY <1>1, <1>2, <1>4
<1> QED
  BY <1>3, <1>5 DEF g

\* No figure of the digest depends on how the assets are spelled.
THEOREM DigestIsCaseBlind == ReadersSpec => []DigestFoldsCase
<1>1. ReadersType => DigestFoldsCase
  <2> SUFFICES ASSUME ReadersType PROVE DigestFoldsCase
    OBVIOUS
  <2> DEFINE fills == ReadFills(log)
             other == ReadFills(Respelled(log))
             obs == ReadFunding(observations)
             new == ReadFunding(Respelled(observations))
             closed == ClosedTrades(fills)
             trades == ClosedTrades(other)
             open == OpenTrades(fills)
             others == OpenTrades(other)
             mids == LatestMids(obs)
             KeysShown(fs, cl, op) ==
                 {k \in {Upper[fs[i].asset] : i \in DOMAIN fs} :
                     \/ \E i \in DOMAIN cl : RowOf(cl[i].open, k)
                     \/ \E o \in op : RowOf(o, k)}
             Rows(ks, cl, op, m, os) == [key \in ks |-> AssetPnl(key, cl, op, m, os, 0)]
             Figures(fs, os) ==
                 LET d == DigestOf(fs, os, 0)
                 IN IF fs = <<>> THEN <<>>
                    ELSE <<d.rows, d.net, {Respell(row) : row \in d.positions}>>
             Table(op, m) == {OpenRow(o, m) : o \in op}
  <2>1. Respells(other, fills, Fill) /\ Respells(new, obs, Observation)
    BY RespelledFills, RespelledFunding DEF ReadersType
  <2>2. /\ open \in SUBSET Fill
        /\ \A f, g \in open : Upper[f.asset] = Upper[g.asset] => f = g
    BY OpenIsRestored DEF ReadersType
  <2> HIDE DEF fills, other, obs, new
  <2>3. /\ others = {Respell(f) : f \in open}
        /\ closed \in Seq(Trades) /\ trades \in Seq(Trades) /\ Len(trades) = Len(closed)
        /\ \A n \in 1 .. Len(closed) :
               trades[n] = [open |-> Respell(closed[n].open), close |-> Respell(closed[n].close)]
    BY <2>1, RespelledPairs
  <2>4. LatestMids(new) = mids
    BY <2>1, RespelledMids
  <2> HIDE DEF closed, trades, open, others, mids
  <2>5. \A key : AssetPnl(key, trades, others, mids, new, 0)
                     = AssetPnl(key, closed, open, mids, obs, 0)
    BY <2>1, <2>2, <2>3, RespelledPnl
  <2>6. KeysShown(other, trades, others) = KeysShown(fills, closed, open)
    <3>1. {Upper[other[i].asset] : i \in DOMAIN other} = {Upper[fills[i].asset] : i \in DOMAIN fills}
      <4>1. DOMAIN other = 1 .. Len(fills) /\ DOMAIN fills = 1 .. Len(fills)
        BY <2>1 DEF Respells
      <4>2. \A i \in 1 .. Len(fills) : Upper[other[i].asset] = Upper[fills[i].asset]
        BY <2>1, RespelledRow
      <4> QED
        BY <4>1, <4>2
    <3>2. \A f \in Fill : \A k : RowOf(Respell(f), k) <=> RowOf(f, k)
      BY <2>1, RespelledFigures
    <3>3. ASSUME NEW k
          PROVE  /\ (\E i \in DOMAIN trades : RowOf(trades[i].open, k))
                         <=> \E i \in DOMAIN closed : RowOf(closed[i].open, k)
                 /\ (\E o \in others : RowOf(o, k)) <=> \E o \in open : RowOf(o, k)
      <4>1. DOMAIN trades = 1 .. Len(closed) /\ DOMAIN closed = 1 .. Len(closed)
        BY <2>3
      <4>2. \A i \in 1 .. Len(closed) : RowOf(trades[i].open, k) <=> RowOf(closed[i].open, k)
        <5>1. \A i \in 1 .. Len(closed) : closed[i] \in Trades
          BY <2>3
        <5>2. \A i \in 1 .. Len(closed) : closed[i].open \in Fill
          BY <5>1 DEF Trades
        <5>3. ASSUME NEW i \in 1 .. Len(closed) PROVE trades[i].open = Respell(closed[i].open)
          <6>1. trades[i] = [open |-> Respell(closed[i].open), close |-> Respell(closed[i].close)]
            BY <2>3
          <6> QED
            BY <6>1
        <5> QED
          BY <3>2, <5>2, <5>3
      <4>3. \A o \in open : RowOf(Respell(o), k) <=> RowOf(o, k)
        BY <2>2, <3>2
      <4> QED
        BY <2>3, <4>1, <4>2, <4>3
    <3> QED
      BY <3>1, <3>3
  <2>7. other = <<>> <=> fills = <<>>
    BY <2>1 DEF Respells
  <2>8. ASSUME NEW fs, fs # <<>>, NEW os
        PROVE  LET rows == Rows(KeysShown(fs, ClosedTrades(fs), OpenTrades(fs)),
                                ClosedTrades(fs), OpenTrades(fs), LatestMids(os), os)
               IN /\ DigestOf(fs, os, 0).rows = rows /\ DigestOf(fs, os, 0).net = NetOf(rows)
                  /\ DigestOf(fs, os, 0).positions = Table(OpenTrades(fs), LatestMids(os))
    BY <2>8 DEF DigestOf
  <2>10. {Respell(row) : row \in Table(others, mids)} = {Respell(row) : row \in Table(open, mids)}
    <3>1. \A f \in open : Respell(OpenRow(Respell(f), mids)) = Respell(OpenRow(f, mids))
      BY <2>1, <2>2, RespelledOpenRow
    <3>2. {Respell(row) : row \in Table(open, mids)} = {Respell(OpenRow(f, mids)) : f \in open}
      OBVIOUS
    <3>3. {Respell(row) : row \in Table(others, mids)}
              = {Respell(OpenRow(Respell(f), mids)) : f \in open}
      BY <2>3
    <3> QED
      BY <3>1, <3>2, <3>3
  <2>9. Figures(fills, obs) = Figures(other, new)
    <3>1. CASE fills = <<>>
      BY <2>7, <3>1
    <3>2. CASE fills # <<>>
      <4> DEFINE rows == Rows(KeysShown(fills, closed, open), closed, open, mids, obs)
                 same == Rows(KeysShown(other, trades, others), trades, others, mids, new)
      <4>1. rows = same
        <5> HIDE DEF KeysShown
        <5> QED
          BY <2>5, <2>6
      <4> HIDE DEF Rows, KeysShown, Table
      <4>2. /\ DigestOf(fills, obs, 0).rows = rows
            /\ DigestOf(fills, obs, 0).net = NetOf(rows)
            /\ DigestOf(fills, obs, 0).positions = Table(open, mids)
        BY <2>8, <3>2 DEF closed, open, mids
      <4>3. /\ DigestOf(other, new, 0).rows = same
            /\ DigestOf(other, new, 0).net = NetOf(same)
            /\ DigestOf(other, new, 0).positions = Table(others, mids)
        BY <2>4, <2>7, <2>8, <3>2 DEF trades, others
      <4> QED
        BY <2>7, <2>10, <3>2, <4>1, <4>2, <4>3
    <3> QED
      BY <3>1, <3>2
  <2> QED
    BY <2>9 DEF DigestFoldsCase, fills, other, obs, new
<1> QED
  BY <1>1, LogTypes, PTL

=============================================================================
