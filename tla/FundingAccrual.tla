--------------------------- MODULE FundingAccrual ---------------------------
(***************************************************************************)
(* The funding side of crates/perps-bot/src/pnl.rs: reading funding.jsonl, *)
(* integrating the rates over a holding period, and the latest mids.       *)
(*                                                                         *)
(* Times are whole hours and every rate is per hour: market_snapshot, the  *)
(* only writer, stores interval_hours = 1.                                 *)
(***************************************************************************)
EXTENDS FillsLog, Collections, SequencesExt

CONSTANT NoMid      \* mid_price of a row written before the field existed

Observation == [asset : Assets, rate : Int, observed_at : Int, mid : Int \cup {NoMid}]

ASSUME ObservationAssumption == Torn \notin Observation

\* The order after sort_by_key(observed_at), which is stable.
Earlier(lines, i, j) ==
    \/ lines[i].observed_at < lines[j].observed_at
    \/ lines[i].observed_at = lines[j].observed_at /\ i < j

\* read_funding: drop what does not parse, then a stable sort by observed_at.
ReadFunding(lines) ==
    LET kept == Whole(lines)
        order == InOrder(kept, {p \in kept \X kept : Earlier(lines, p[1], p[2])})
    IN [n \in 1 .. Cardinality(kept) |-> lines[order[n]]]

\* Positive funding is paid by longs to shorts.
ApplyRate(side, notional, rate, start, end) ==
    LET magnitude == rate * notional * (end - start)
    IN IF end <= start THEN 0
       ELSE IF side = "short" THEN magnitude ELSE -magnitude

\* The observations of the asset.
RowsOf(obs, asset) == {i \in DOMAIN obs : SameAsset(obs[i].asset, asset)}

\* Variant with a bug: observations after the position was closed count too.
RelevantFrom(obs, asset, from, to) ==
    Filter(obs, {i \in RowsOf(obs, asset) : obs[i].observed_at >= from})

\* The observations of the asset inside the holding period, oldest first.
Relevant(obs, asset, from, to) ==
    Filter(obs, {i \in RowsOf(obs, asset) : obs[i].observed_at \in from .. to})

\* Those before it.  Of several latest ones max_by_key takes the last.
PriorTo(obs, asset, from) ==
    Filter(obs, {i \in RowsOf(obs, asset) : obs[i].observed_at < from})

\* Variant with a bug: every segment is charged at the rate observed at its end.
AccruedAtNextRate(asset, side, notional, from, to, obs) ==
    LET relevant == Relevant(obs, asset, from, to)
        Charge(o, start, end) == ApplyRate(side, notional, o.rate, start, end)
    IN IF relevant = <<>> \/ to <= from THEN 0
       ELSE Charge(Head(relevant), from, Head(relevant).observed_at)
            + SumOf([i \in 1 .. Len(relevant) - 1 |->
                  Charge(relevant[i + 1], relevant[i].observed_at,
                         relevant[i + 1].observed_at)])
            + Charge(Last(relevant), Last(relevant).observed_at, to)

\* accrued_funding of an `obs` that read_funding returned.
AccruedFunding(asset, side, notional, from, to, obs) ==
    LET relevant == Relevant(obs, asset, from, to)
        prior == PriorTo(obs, asset, from)
        Charge(o, start, end) == ApplyRate(side, notional, o.rate, start, end)
    IN IF to <= from THEN 0
       ELSE IF relevant = <<>>
       THEN IF prior = <<>> THEN 0 ELSE Charge(Last(prior), from, to)
       ELSE Charge(Head(relevant), from, Head(relevant).observed_at)
            + SumOf([i \in 1 .. Len(relevant) - 1 |->
                  Charge(relevant[i], relevant[i].observed_at,
                         relevant[i + 1].observed_at)])
            + Charge(Last(relevant), Last(relevant).observed_at, to)

\* Variant with a bug: the map is keyed by the name as it is spelled.
MidKeySpelled(o) == o.asset

MidKey(o) == Upper[o.asset]

\* One iteration of latest_mids: a later stamp replaces, an equal one does not.
MidStep(latest, o) ==
    IF o.mid = NoMid \/ (/\ MidKey(o) \in DOMAIN latest
                         /\ o.observed_at <= latest[MidKey(o)].at)
    THEN latest
    ELSE Put(latest, MidKey(o), [at |-> o.observed_at, mid |-> o.mid])

LatestMids(obs) ==
    LET latest[n \in 0 .. Len(obs)] ==
            IF n = 0 THEN <<>> ELSE MidStep(latest[n - 1], obs[n])
        last == latest[Len(obs)]
    IN [key \in DOMAIN last |-> last[key].mid]

=============================================================================
