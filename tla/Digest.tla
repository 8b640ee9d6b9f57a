------------------------------- MODULE Digest -------------------------------
(***************************************************************************)
(* `perps-bot digest` (crates/perps-bot/src/digest.rs): the PnL of every   *)
(* asset, the totals, the period and the table of open positions.          *)
(* Formatting is left out.  `now` is what Utc::now() returns meanwhile.    *)
(***************************************************************************)
EXTENDS FillPairing, FundingAccrual, Risk

\* Fill::notional_usd, which simulate_fill sets to size * price.
NotionalUsd(f) == f.size * f.price

\* Variant with a bug: funding accrues until the digest is run.
AccruesUntilNow(obs, now) == now

\* Where the accrual of a position still open ends: at the most recent
\* observation of any asset, or now if there is none.
LastObserved(obs, now) == IF obs = <<>> THEN now ELSE Last(obs).observed_at

Funding(open, to, obs) ==
    AccruedFunding(open.asset, open.side, NotionalUsd(open), open.filled_at, to, obs)

\* The latest mid of the asset, or the price the position was opened at.
MarkOf(open, mids) ==
    IF Upper[open.asset] \in DOMAIN mids THEN mids[Upper[open.asset]] ELSE open.price

\* Variant with a bug: one row per spelling.
RowOfSpelling(fill, key) == fill.asset = key

\* Whether the trade opened by this fill belongs to the row of the key.
RowOf(fill, key) == Upper[fill.asset] = key

\* One row of the table: AssetPnl.  `open` is the set of the open trades.
AssetPnl(key, closed, open, mids, obs, now) ==
    LET done == Filter(closed, {i \in DOMAIN closed : RowOf(closed[i].open, key)})
        held == SetToSeq({o \in open : RowOf(o, key)})
    IN [closed_count |-> Len(done),
        open_count |-> Len(held),
        realized |-> SumOf([i \in DOMAIN done |-> RealizedPnl(done[i])]),
        unrealized |-> SumOf([i \in DOMAIN held |->
                           UnrealizedPnl(held[i], MarkOf(held[i], mids))]),
        funding |-> SumOf([i \in DOMAIN done |->
                        Funding(done[i].open, done[i].close.filled_at, obs)])
                    + SumOf([i \in DOMAIN held |->
                        Funding(held[i], LastObserved(obs, now), obs)])]

\* The total over the rows.
NetOf(rows) ==
    FoldFunction(LAMBDA row, sum : sum + row.realized + row.unrealized + row.funding,
                 0, rows)

\* A line of the open-positions table: mark, liquidation price, scaled as in
\* Risk, and the buffer as the fraction it is (leverage is 1).
OpenRow(open, mids) ==
    LET mark == MarkOf(open, mids)
    IN [asset |-> open.asset, side |-> open.side, size |-> open.size,
        entry |-> open.price, mark |-> mark,
        liq |-> LiquidationPrice(open.side, open.price, 1),
        buffer |-> LiquidationBuffer(open.side, open.price, 1, mark)]

\* The whole report; a log without fills is reported as such.
DigestOf(fills, obs, now) ==
    LET closed == ClosedTrades(fills)
        open == OpenTrades(fills)
        mids == LatestMids(obs)
        keys == {Upper[fills[i].asset] : i \in DOMAIN fills}
        shown == {k \in keys : \/ \E i \in DOMAIN closed : RowOf(closed[i].open, k)
                               \/ \E o \in open : RowOf(o, k)}
        rows == [key \in shown |-> AssetPnl(key, closed, open, mids, obs, now)]
        stamps == {fills[i].filled_at : i \in DOMAIN fills}
                  \cup {obs[i].observed_at : i \in DOMAIN obs}
    IN IF fills = <<>> THEN [rows |-> <<>>]
       ELSE [rows |-> rows, net |-> NetOf(rows),
             earliest |-> Min(stamps), latest |-> Max(stamps),
             positions |-> {OpenRow(o, mids) : o \in open}]

=============================================================================
