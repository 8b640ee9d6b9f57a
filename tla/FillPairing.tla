---------------------------- MODULE FillPairing ----------------------------
(***************************************************************************)
(* crates/perps-bot/src/pnl.rs as it is written: read_fills filters and    *)
(* sorts the log, pair_fills folds it with one map of current opens, and   *)
(* restore_portfolio opens what is left.  FillsLog states the same result  *)
(* without the fold; LogReaders compares the two.                         *)
(***************************************************************************)
EXTENDS FillsLog, Strategy, Collections, SequencesExt

\* read_fills: drop what does not parse, then a stable sort by filled_at.
ReadFills(lines) ==
    LET kept == Whole(lines)
        order == InOrder(kept, {p \in kept \X kept : Before(lines, p[1], p[2])})
    IN [n \in 1 .. Cardinality(kept) |-> lines[order[n]]]

\* Variant with a bug: entry().or_insert, so the oldest Open wins.
InsertIfAbsent(current, key, fill) ==
    IF key \in DOMAIN current THEN current ELSE Put(current, key, fill)

\* current_open.insert: the latest Open of a key replaces an older one.
InsertOpen(current, key, fill) == Put(current, key, fill)

\* Variant with a bug: get instead of remove, so an Open closes twice.
RemoveNothing(current, key) == current

\* HashMap::remove
RemoveOpen(current, key) == Restrict(current, DOMAIN current \ {key})

\* One iteration of pair_fills.  A Close of a key that is not open is dropped.
PairStep(acc, fill) ==
    LET key == Upper[fill.asset]
        current == acc.current_open
    IN IF fill.intent = "open"
       THEN [acc EXCEPT !.current_open = InsertOpen(current, key, fill)]
       ELSE IF key \in DOMAIN current
       THEN [current_open |-> RemoveOpen(current, key),
             closed |-> Append(acc.closed,
                               [open |-> current[key], close |-> fill])]
       ELSE acc

PairFills(fills) ==
    LET paired[n \in 0 .. Len(fills)] ==
            IF n = 0 THEN [current_open |-> <<>>, closed |-> <<>>]
            ELSE PairStep(paired[n - 1], fills[n])
    IN paired[Len(fills)]

\* The two halves of pair_fills' result; HashMap order leaves a set.
ClosedTrades(fills) == PairFills(fills).closed

OpenTrades(fills) == Range(PairFills(fills).current_open)

\* restore_portfolio opens them one by one, in some order.
RestorePortfolio(lines) ==
    LET trades == SetToSeq(OpenTrades(ReadFills(lines)))
        portfolio[n \in 0 .. Len(trades)] ==
            IF n = 0 THEN {}
            ELSE OpenPosition(portfolio[n - 1], PositionOf(trades[n]))
    IN portfolio[Len(trades)]

\* Variant with a bug: a short gains like a long.
GainOfLong(side, entry, exit, size) == (exit - entry) * size

\* ClosedTrade::realized_pnl and OpenTrade::unrealized_pnl
Gain(side, entry, exit, size) ==
    IF side = "long" THEN (exit - entry) * size ELSE (entry - exit) * size

RealizedPnl(trade) ==
    Gain(trade.open.side, trade.open.price, trade.close.price, trade.open.size)

UnrealizedPnl(open, mid) == Gain(open.side, open.price, mid, open.size)

=============================================================================
