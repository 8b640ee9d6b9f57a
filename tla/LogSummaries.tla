---------------------------- MODULE LogSummaries ----------------------------
(***************************************************************************)
(* `perps-bot stats` (crates/perps-bot/src/stats.rs): one pass over each   *)
(* of the three logs, in file order, counting per asset as it is spelled.  *)
(***************************************************************************)
EXTENDS FillsLog, Collections

\* Variant with a bug: a row with an equal stamp does not replace the last.
SupersedesStrictly(row, seen) == row.at > seen.at

\* A row as late as the one shown, and further down in the file, replaces it.
Supersedes(row, seen) == row.at >= seen.at

\* The entry().and_modify().or_insert_with() of print_decisions and print_fills
\* for a row of the form [asset, kind, at].
CountRow(by_asset, row) ==
    LET seen == by_asset[row.asset]
        count == IF row.kind \in DOMAIN seen.counts THEN seen.counts[row.kind] ELSE 0
    IN Put(by_asset, row.asset,
           IF row.asset \notin DOMAIN by_asset
           THEN [counts |-> Put(<<>>, row.kind, 1),
                 last_kind |-> row.kind, at |-> row.at]
           ELSE [counts |-> Put(seen.counts, row.kind, count + 1),
                 last_kind |-> IF Supersedes(row, seen) THEN row.kind
                               ELSE seen.last_kind,
                 at |-> IF Supersedes(row, seen) THEN row.at ELSE seen.at])

\* One pass over the lines of a file; `rows` has those that parse.
Summary(rows, size) ==
    LET by_asset[n \in 0 .. size] ==
            IF n = 0 THEN <<>>
            ELSE IF n \in DOMAIN rows THEN CountRow(by_asset[n - 1], rows[n])
            ELSE by_asset[n - 1]
    IN by_asset[size]

\* print_fills
FillSummary(lines) ==
    Summary([i \in Whole(lines) |->
                [asset |-> lines[i].asset, kind |-> lines[i].intent,
                 at |-> lines[i].filled_at]], Len(lines))

\* print_decisions
DecisionSummary(lines) ==
    Summary([i \in Whole(lines) |->
                [asset |-> lines[i].asset, kind |-> lines[i].kind,
                 at |-> lines[i].decided_at]], Len(lines))

\* print_funding: count, range of the annualised rate, last row of the file.
ObserveRow(by_asset, fr) ==
    LET apy == Annualized(fr.rate, 1)
        s == by_asset[fr.asset]
    IN Put(by_asset, fr.asset,
           IF fr.asset \notin DOMAIN by_asset
           THEN [count |-> 1, min_apy |-> apy, max_apy |-> apy, last |-> fr]
           ELSE [count |-> s.count + 1,
                 min_apy |-> IF apy < s.min_apy THEN apy ELSE s.min_apy,
                 max_apy |-> IF apy > s.max_apy THEN apy ELSE s.max_apy,
                 last |-> fr])

FundingSummary(lines) ==
    LET by_asset[n \in 0 .. Len(lines)] ==
            IF n = 0 THEN <<>>
            ELSE IF n \in Whole(lines) THEN ObserveRow(by_asset[n - 1], lines[n])
            ELSE by_asset[n - 1]
    IN by_asset[Len(lines)]

=============================================================================
