----------------------------- MODULE LogReaders -----------------------------
(***************************************************************************)
(* The three logs as anything may have written them, and what the readers  *)
(* of pnl.rs, digest.rs and stats.rs make of them: rows of any asset and   *)
(* spelling, stamped in any order, and lines that do not parse.  The       *)
(* readers tolerate all of it; their comments say how.                     *)
(***************************************************************************)
EXTENDS Digest, LogSummaries

CONSTANTS
    MaxWeight,    \* bound on the logs, in the weights below
    FillStamps,   \* the filled_at and decided_at values a line may carry
    ObsStamps,    \* the observed_at values an observation may carry
    FillTerms,    \* side, size and price of the first, second, ... fill
    ObsTerms,     \* rate and mid of the first, second, ... observation
    MaxHour       \* bound on the times the properties look at

ASSUME StampAssumption ==
    MaxHour \in Nat /\ FillStamps \cup ObsStamps \subseteq 0 .. MaxHour

\* (Sizes and prices are not even required to be positive.)
ASSUME TermsAssumption ==
    /\ FillTerms \in Seq([side : Side, size : Int, price : Int])
    /\ ObsTerms \in Seq([rate : Int, mid : Int])

\* to_ascii_uppercase of a name that is in upper case is that name.
ASSUME SpellingAssumption ==
    \A a \in Assets : Upper[a] \in Assets /\ Upper[Upper[a]] = Upper[a]

VARIABLES
    log,            \* fills.jsonl
    observations,   \* funding.jsonl
    decisions       \* decisions.jsonl

readerVars == <<log, observations, decisions>>

\* Bound: a fill and an observation weigh four, a decision five, so that a log
\* alone gets long and all mixtures occur.
Fits(weight) ==
    4 * (Len(log) + Len(observations)) + 5 * Len(decisions) + weight <= MaxWeight

ReadersInit == log = <<>> /\ observations = <<>> /\ decisions = <<>>

\* A fill is appended, on the terms of its line number.
WriteFill ==
    /\ Fits(4) /\ Len(log) < Len(FillTerms)
    /\ \E asset \in Assets, intent \in Intents, stamp \in FillStamps :
           LET terms == FillTerms[Len(log) + 1] IN
           log' = Append(log, [asset |-> asset, side |-> terms.side,
                               size |-> terms.size, price |-> terms.price,
                               intent |-> intent, filled_at |-> stamp])
    /\ UNCHANGED <<observations, decisions>>

\* An observation; one written before the field existed has no mid.
WriteObservation ==
    /\ Fits(4) /\ Len(observations) < Len(ObsTerms)
    /\ \E asset \in Assets, stamp \in ObsStamps, has_mid \in BOOLEAN :
           LET terms == ObsTerms[Len(observations) + 1] IN
           observations' = Append(observations,
               [asset |-> asset, rate |-> terms.rate, observed_at |-> stamp,
                mid |-> IF has_mid THEN terms.mid ELSE NoMid])
    /\ UNCHANGED <<log, decisions>>

WriteDecision ==
    /\ Fits(5)
    /\ \E asset \in Assets, kind \in {"open", "close", "hold"}, stamp \in FillStamps :
           decisions' = Append(decisions,
               [asset |-> asset, kind |-> kind, decided_at |-> stamp])
    /\ UNCHANGED <<log, observations>>

\* An append stops half-way, or something else writes to the file.
WriteTorn ==
    \/ /\ Fits(4) /\ log' = Append(log, Torn)
       /\ UNCHANGED <<observations, decisions>>
    \/ /\ Fits(4) /\ observations' = Append(observations, Torn)
       /\ UNCHANGED <<log, decisions>>
    \/ /\ Fits(5) /\ decisions' = Append(decisions, Torn)
       /\ UNCHANGED <<log, observations>>

ReadersNext == WriteFill \/ WriteObservation \/ WriteDecision \/ WriteTorn

ReadersSpec == ReadersInit /\ [][ReadersNext]_readerVars

-----------------------------------------------------------------------------
(* Properties of the replay *)

\* What restore_portfolio computes with its sort and its fold is what
\* FillsLog says of the log: the position of each asset's last fill, if that
\* fill is an Open.
RestoreMatchesFold == RestorePortfolio(log) = Restore(log)

\* The last fill of the same asset before fill j, if there is one.
Preceding(fills, j) ==
    LET earlier == {i \in 1 .. j - 1 : SameAsset(fills[i].asset, fills[j].asset)}
    IN {i \in earlier : \A m \in earlier : m <= i}

\* "Each Open is closed by the next Close on the same asset", "only the latest
\* Open is paired", "a Close with no preceding Open is dropped": the closed
\* trades are exactly the neighbouring Open-Close pairs, in closing order.
PairsAreNeighbours ==
    LET fills == ReadFills(log)
        Opener(j) == {i \in Preceding(fills, j) : fills[i].intent = "open"}
        closings == {j \in DOMAIN fills : fills[j].intent = "close" /\ Opener(j) # {}}
        order == InOrder(closings, Upward(closings))
    IN ClosedTrades(fills) =
           [n \in 1 .. Cardinality(closings) |->
               [open |-> fills[CHOOSE i \in Opener(order[n]) : TRUE],
                close |-> fills[order[n]]]]

-----------------------------------------------------------------------------
(* Properties of the funding accrual *)

\* Every holding period that starts and ends on the hour.
Windows == {w \in (0 .. MaxHour + 1) \X (0 .. MaxHour + 1) : w[1] < w[2]}

\* The rows of a set that no other row of it comes after.
LatestOf(obs, S) == {i \in S : \A j \in S : obs[j].observed_at <= obs[i].observed_at}

\* "Funding is integrated as a step function", hour by hour: the rate of the
\* latest observation of the period so far; before the first of them, its
\* rate; if the period has none, the rate of the last one before it.
StepRate(obs, asset, from, to, t) ==
    LET Of(S) == {i \in S : SameAsset(obs[i].asset, asset)}
        inside == Of({i \in DOMAIN obs : obs[i].observed_at \in from .. to})
        before == Of({i \in DOMAIN obs : obs[i].observed_at < from})
        sofar == {i \in inside : obs[i].observed_at <= t}
    IN IF inside = {} /\ before = {} THEN 0
       ELSE obs[IF sofar # {} THEN Max(LatestOf(obs, sofar))
                ELSE IF inside # {} THEN Min(inside)
                ELSE Max(LatestOf(obs, before))].rate

\* accrued_funding over any holding period is the integral of that step
\* function, whatever the spelling, order and parsability of the rows, with
\* the sign of the side.  (A log with no row at all owes nothing.)
AccrualIsStep ==
    LET obs == ReadFunding(observations)
    IN obs # <<>> => \A w \in Windows, key \in Keys :
           LET owed == SumOf([n \in 1 .. w[2] - w[1] |->
                           StepRate(obs, key, w[1], w[2], w[1] + n - 1)])
           IN /\ AccruedFunding(key, "short", 1, w[1], w[2], obs) = owed
              /\ AccruedFunding(key, "long", 1, w[1], w[2], obs) = -owed

\* "Older log entries from before mid_price was added will fail to parse here"
\* (pnl.rs:31): an observation without a mid is no different from a torn line,
\* and the funding of a closed trade is what the others make of it.
OldRowsUnread ==
    LET unpriced == {i \in Whole(observations) : observations[i].mid = NoMid}
        Parsed == [i \in DOMAIN observations |->
                       IF i \in unpriced THEN Torn ELSE observations[i]]
        Paid(trade, rows) == Funding(trade.open, trade.close.filled_at, ReadFunding(rows))
    IN \A trade \in Range(ClosedTrades(ReadFills(log))) :
           Paid(trade, observations) = Paid(trade, Parsed)

\* The funding of a closed trade is final: no row stamped after its close, of
\* any asset, changes what the next digest attributes to it.
FundingSettles ==
    [][\A i \in DOMAIN observations' \ DOMAIN observations :
           observations'[i] # Torn =>
               \A trade \in Range(ClosedTrades(ReadFills(log))) :
                   LET Paid(lines) == Funding(trade.open, trade.close.filled_at,
                                              ReadFunding(lines))
                   IN trade.close.filled_at < observations'[i].observed_at
                          => Paid(observations') = Paid(observations)]_readerVars

-----------------------------------------------------------------------------
(* Properties of the reports *)

\* "Unrealized PnL uses the latest mid price observed for that asset": no row
\* with a mid is later than the one shown, under any spelling.
MarkIsLatest ==
    LET obs == ReadFunding(observations)
        priced == {i \in DOMAIN obs : obs[i].mid # NoMid}
        mids == LatestMids(obs)
    IN \A key \in Keys :
           LET of == {i \in priced : Upper[obs[i].asset] = key}
           IN IF of = {} THEN key \notin DOMAIN mids
              ELSE /\ key \in DOMAIN mids
                   /\ \E i \in LatestOf(obs, of) : mids[key] = obs[i].mid

\* "funding accrual ends at the most recent observation rather than `now`":
\* the digest of given logs is the same whenever it is run.
DigestIgnoresNow ==
    LET Report(now) == DigestOf(ReadFills(log), ReadFunding(observations), now)
    IN Report(MaxHour + 9) = Report(0)

\* A row with its asset spelled in upper case, and a log of such rows.
Respell(row) == [row EXCEPT !.asset = Upper[@]]

Respelled(lines) ==
    [i \in DOMAIN lines |-> IF lines[i] = Torn THEN Torn ELSE Respell(lines[i])]

\* No figure of the digest depends on how the assets are spelled: neither the
\* table and its total, nor the marks and buffers of the open positions, which
\* are shown under the name the position was opened by.
DigestFoldsCase ==
    LET Figures(fills, obs) ==
            LET read == ReadFills(fills)
                d == DigestOf(read, ReadFunding(obs), 0)
            IN IF read = <<>> THEN <<>>
               ELSE <<d.rows, d.net, {Respell(row) : row \in d.positions}>>
    IN Figures(log, observations) = Figures(Respelled(log), Respelled(observations))

\* stats and a respawn agree on what is held, though one goes by the file
\* order and the other sorts: an asset logged under one spelling only is shown
\* with last_intent "open" exactly if restore_portfolio opens it.
StatsMatchRestore ==
    LET summary == FillSummary(log)
    IN \A asset \in DOMAIN summary :
           (\A other \in DOMAIN summary \ {asset} : ~ SameAsset(asset, other)) =>
               (summary[asset].last_kind = "open"
                    <=> \E p \in Restore(log) : p.asset = asset)

\* Every line of decisions.jsonl that parses is counted once, under its asset
\* and kind, and the decision shown last is that of the latest row, the file's
\* order deciding between equal stamps.  So is every observation; but there the
\* file's order decides alone: the rate shown last is the latest one if the rows
\* of the asset were written in time order, and lies in the range shown anyway.
StatsShowLatest ==
    LET Rows(lines, a) == {i \in Whole(lines) : lines[i].asset = a}
        made == DecisionSummary(decisions)
        seen == FundingSummary(observations)
    IN /\ DOMAIN made = {decisions[i].asset : i \in Whole(decisions)}
       /\ \A a \in DOMAIN made :
              LET S == Rows(decisions, a) IN
              /\ made[a].counts =
                     [kind \in {decisions[i].kind : i \in S} |->
                         Cardinality({i \in S : decisions[i].kind = kind})]
              /\ \E i \in S :
                  /\ made[a].last_kind = decisions[i].kind
                  /\ \A j \in S \ {i} :
                         \/ decisions[j].decided_at < decisions[i].decided_at
                         \/ decisions[j].decided_at = decisions[i].decided_at /\ j < i
       /\ DOMAIN seen = {observations[i].asset : i \in Whole(observations)}
       /\ \A a \in DOMAIN seen :
              LET S == Rows(observations, a) IN
              /\ seen[a].count = Cardinality(S)
              /\ Annualized(seen[a].last.rate, 1) \in seen[a].min_apy .. seen[a].max_apy
              /\ (\A i, j \in S : i < j => observations[i].observed_at
                                               <= observations[j].observed_at)
                     => seen[a].last = observations[Max(LatestOf(observations, S))]

=============================================================================
