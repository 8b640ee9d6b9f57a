---------------------------- MODULE TradingDaemon ----------------------------
(***************************************************************************)
(* `perps-bot run` (crates/perps-bot/src/main.rs) with the poll of         *)
(* perps-funding around it: on each tick, for each configured asset, fetch *)
(* a snapshot, persist the observation, decide, persist the fill, update   *)
(* the portfolio in memory and persist the decision.                       *)
(*                                                                         *)
(* The callback runs serially on one task, so its steps never interleave   *)
(* with another poll.  They are separate actions because the process can   *)
(* die between any two of them: launchd then respawns it (KeepAlive) and   *)
(* the only state it gets back is what fills.jsonl restores.               *)
(*                                                                         *)
(* While the process is down, `portfolio` holds what it last believed, so  *)
(* that a restart can be compared with it.  `suspect` is a history         *)
(* variable: no action's guard reads it.                                   *)
(***************************************************************************)
EXTENDS FillsLog, Strategy, Risk

CONSTANTS
    AssetList,       \* settings.strategy.assets, in polling order
    Rates,           \* hourly funding rates the venue may quote (millionths)
    Mids,            \* mid prices it may quote; zero is possible
    MaxPositionUsd,  \* settings.risk.max_position_usd
    Buffers,         \* values of settings.risk.liq_buffer_pct (thousandths)
    Faults,          \* which of AllFaults may happen
    MaxFills,        \* bound: no tick starts that could outgrow this log
    MaxClock,        \* bound: the clock stops here (equal stamps remain)
    None

\* refused: a write returns Err having written nothing.
\* torn:    a fill append, or the process inside it, stops half-way.
\* clock:   the wall clock behind Utc::now() may step back.
AllFaults == {"refused", "torn", "clock"}

ASSUME DaemonAssumption ==
    /\ AssetList \in Seq(Assets)
    /\ Rates \subseteq Int /\ Mids \subseteq Int
    /\ MaxPositionUsd \in Int
    /\ Buffers \subseteq Int /\ Buffers # {}
    /\ Faults \subseteq AllFaults
    /\ MaxClock \in Nat

VARIABLES
    lines, sealed,   \* fills.jsonl
    portfolio,       \* Arc<Mutex<PortfolioState>>: the positions
    pc,              \* where the process is
    queue,           \* assets this poll has still to visit, current one first
    snapshot,        \* the MarketSnapshot handed to on_snapshot
    decision,        \* what decide returned for it
    fill,            \* the simulated fill on its way to disk and memory
    trail,           \* which rows about this snapshot were written
    clock,           \* the last time stamp taken from Utc::now()
    min_liq_buffer,  \* settings.risk.liq_buffer_pct of this process
    suspect          \* history: assets whose log and memory may differ

vars == <<lines, sealed, portfolio, pc, queue, snapshot, decision, fill,
          trail, clock, min_liq_buffer, suspect>>

disk == <<lines, sealed>>

Locations == {"down", "wait", "fetch", "observe", "decide", "append",
              "commit", "record", "next"}

Snapshot == [asset : Assets, rate : Int, mid : Int]

Trail == [observation : BOOLEAN, fill : BOOLEAN, decision : BOOLEAN]

NoRows == [observation |-> FALSE, fill |-> FALSE, decision |-> FALSE]

-----------------------------------------------------------------------------
(* Helpers *)

\* The values Utc::now() may return next.
Stamps ==
    IF "clock" \in Faults THEN 0 .. MaxClock
    ELSE {t \in {clock, clock + 1} : t <= MaxClock}

\* Whether a write to any of the three logs returned Ok.
WriteResults == IF "refused" \in Faults THEN BOOLEAN ELSE {TRUE}

\* What an append to fills.jsonl may do to the file.
AppendOutcomes ==
    {"ok"} \cup (IF "refused" \in Faults THEN {"refused"} ELSE {})
           \cup (IF "torn" \in Faults THEN {"short", "noeol"} ELSE {})

\* simulate_fill of an order with no limit price.
SimulateFill(asset, side, size, mid_price, intent, now) ==
    [asset |-> asset, side |-> side, size |-> size, price |-> mid_price,
     intent |-> intent, filled_at |-> now]

\* decide on this snapshot; the venue's funding interval is one hour.
Verdict == Decide(portfolio, snapshot.asset, Annualized(snapshot.rate, 1))

\* notional_usd / snapshot.mid_price, for a positive mid
OrderSize == MaxPositionUsd \div snapshot.mid

\* The risk gate on the prospective position, entered and marked at the mid.
GateRefuses(side) ==
    BufferBelow(side, snapshot.mid, 1, snapshot.mid, min_liq_buffer)

\* The asset whose fill is between decide and the portfolio update.
InFlight ==
    IF pc \in {"append", "commit"} THEN {Upper[snapshot.asset]} ELSE {}

\* The asset of a fill that would be lost with the next append.
TailKeys(log, ended) ==
    IF ended \/ log = <<>> \/ log[Len(log)] = Torn THEN {}
    ELSE {Upper[log[Len(log)].asset]}

\* An append is only vouched for when it returned Ok on a sealed file.
SuspectAfter(outcome) ==
    IF sealed /\ outcome = "ok"
    THEN suspect \ {Upper[fill.asset]}
    ELSE suspect \cup {Upper[fill.asset]}

-----------------------------------------------------------------------------
(* The process *)

Init ==
    /\ lines = <<>> /\ sealed = TRUE
    /\ portfolio = {}
    /\ pc = "down"
    /\ queue = <<>>
    /\ snapshot = None /\ decision = None /\ fill = None
    /\ trail = NoRows
    /\ clock = 0
    /\ min_liq_buffer \in Buffers
    /\ suspect = {}

\* Variant with a bug: the portfolio is not restored.
StartEmpty ==
    /\ pc = "down"
    /\ pc' = "wait"
    /\ min_liq_buffer' \in Buffers
    /\ portfolio' = {}
    /\ suspect' = TailKeys(lines, sealed)
    /\ UNCHANGED <<disk, queue, snapshot, decision, fill, trail, clock>>

\* Variant with a bug: a buffer missing from the settings counts as zero.
StartUnbuffered ==
    /\ pc = "down"
    /\ pc' = "wait"
    /\ min_liq_buffer' \in Buffers \cup {0}
    /\ portfolio' = Restore(lines)
    /\ suspect' = TailKeys(lines, sealed)
    /\ UNCHANGED <<disk, queue, snapshot, decision, fill, trail, clock>>

\* launchd starts the process: load the settings (they may have been edited
\* since the last run), then restore the portfolio from fills.jsonl.
Start ==
    /\ pc = "down"
    /\ pc' = "wait"
    /\ min_liq_buffer' \in Buffers
    /\ portfolio' = Restore(lines)
    /\ suspect' = TailKeys(lines, sealed)
    /\ UNCHANGED <<disk, queue, snapshot, decision, fill, trail, clock>>

\* ticker.tick() fires and poll_once begins.
Tick ==
    /\ pc = "wait"
    /\ Len(lines) + Len(AssetList) <= MaxFills
    /\ pc' = "fetch"
    /\ queue' = AssetList
    /\ UNCHANGED <<disk, portfolio, snapshot, decision, fill, trail, clock,
                   min_liq_buffer, suspect>>

\* market_snapshot answers for the asset, spelled as it was asked for.
FetchOk ==
    /\ pc = "fetch" /\ queue # <<>>
    /\ pc' = "observe"
    /\ \E rate \in Rates, mid \in Mids :
           snapshot' = [asset |-> Head(queue), rate |-> rate, mid |-> mid]
    /\ UNCHANGED <<disk, portfolio, queue, decision, fill, trail, clock,
                   min_liq_buffer, suspect>>

\* Variant with a bug: the first failed fetch ends the poll.
FetchErrEndsPoll ==
    /\ pc = "fetch" /\ queue # <<>>
    /\ queue' = <<>>
    /\ UNCHANGED <<disk, portfolio, pc, snapshot, decision, fill, trail, clock,
                   min_liq_buffer, suspect>>

\* The fetch fails (network, timeout, unknown asset, no mid): log and skip.
FetchErr ==
    /\ pc = "fetch" /\ queue # <<>>
    /\ queue' = Tail(queue)
    /\ UNCHANGED <<disk, portfolio, pc, snapshot, decision, fill, trail, clock,
                   min_liq_buffer, suspect>>

\* Every asset has been visited: back to select!.
PollDone ==
    /\ pc = "fetch" /\ queue = <<>>
    /\ pc' = "wait"
    /\ UNCHANGED <<disk, portfolio, queue, snapshot, decision, fill, trail,
                   clock, min_liq_buffer, suspect>>

\* append_jsonl to funding.jsonl; an error is logged and the callback is
\* called all the same.
Observe ==
    /\ pc = "observe"
    /\ pc' = "decide"
    /\ \E ok \in WriteResults : trail' = [trail EXCEPT !.observation = ok]
    /\ UNCHANGED <<disk, portfolio, queue, snapshot, decision, fill, clock,
                   min_liq_buffer, suspect>>

-----------------------------------------------------------------------------
(* on_snapshot: decide and act on the decision *)

DecideHold ==
    /\ pc = "decide" /\ Verdict.kind = "hold"
    /\ pc' = "record"
    /\ decision' = Verdict
    /\ UNCHANGED <<disk, portfolio, queue, snapshot, fill, trail, clock,
                   min_liq_buffer, suspect>>

\* The decision stands but nothing is filled: there is no positive mid, or
\* the liquidation buffer is below the threshold.
OpenVetoed ==
    /\ pc = "decide" /\ Verdict.kind = "open"
    /\ snapshot.mid <= 0 \/ GateRefuses(Verdict.side)
    /\ pc' = "record"
    /\ decision' = Verdict
    /\ UNCHANGED <<disk, portfolio, queue, snapshot, fill, trail, clock,
                   min_liq_buffer, suspect>>

OpenFilled ==
    /\ pc = "decide" /\ Verdict.kind = "open"
    /\ snapshot.mid > 0 /\ ~ GateRefuses(Verdict.side)
    /\ pc' = "append"
    /\ decision' = Verdict
    /\ \E now \in Stamps :
           /\ fill' = SimulateFill(snapshot.asset, Verdict.side, OrderSize,
                                   snapshot.mid, "open", now)
           /\ clock' = now
    /\ UNCHANGED <<disk, portfolio, queue, snapshot, trail, min_liq_buffer,
                   suspect>>

\* The position leaves the portfolio before its close fill is written.  No
\* other task writes the portfolio, so the held asset decide saw is there.
CloseFilled ==
    /\ pc = "decide" /\ Verdict.kind = "close"
    /\ pc' = "append"
    /\ decision' = Verdict
    /\ portfolio' = ClosePosition(portfolio, snapshot.asset)
    /\ \E now \in Stamps :
           LET pos == PositionFor(portfolio, snapshot.asset) IN
           /\ fill' = SimulateFill(pos.asset, Flip(pos.side), pos.size,
                                   snapshot.mid, "close", now)
           /\ clock' = now
    /\ UNCHANGED <<disk, queue, snapshot, trail, min_liq_buffer, suspect>>

\* perps_executor::append: its error is logged and otherwise ignored.
AppendFill ==
    /\ pc = "append"
    /\ pc' = IF fill.intent = "open" THEN "commit" ELSE "record"
    /\ \E outcome \in AppendOutcomes :
           /\ lines' = LinesAfter(lines, sealed, fill, outcome)
           /\ sealed' = SealedAfter(sealed, outcome)
           /\ suspect' = SuspectAfter(outcome)
           /\ trail' = [trail EXCEPT !.fill = (outcome = "ok")]
    /\ UNCHANGED <<portfolio, queue, snapshot, decision, fill, clock,
                   min_liq_buffer>>

\* Variant with a bug: a fill that was not persisted is not booked.
CommitOpenIfWritten ==
    /\ pc = "commit"
    /\ pc' = "record"
    /\ portfolio' = IF trail.fill THEN OpenPosition(portfolio, PositionOf(fill))
                    ELSE portfolio
    /\ UNCHANGED <<disk, queue, snapshot, decision, fill, trail, clock,
                   min_liq_buffer, suspect>>

\* portfolio.open, after the fill was written (or was not).
CommitOpen ==
    /\ pc = "commit"
    /\ pc' = "record"
    /\ portfolio' = OpenPosition(portfolio, PositionOf(fill))
    /\ UNCHANGED <<disk, queue, snapshot, decision, fill, trail, clock,
                   min_liq_buffer, suspect>>

\* Variant with a bug: a vetoed entry leaves no decision behind.
RecordUnlessVetoed ==
    /\ pc = "record"
    /\ pc' = "next"
    /\ \E ok \in WriteResults :
           trail' = [trail EXCEPT !.decision =
                        ok /\ (decision.kind = "open" => trail.fill)]
    /\ UNCHANGED <<disk, portfolio, queue, snapshot, decision, fill, clock,
                   min_liq_buffer, suspect>>

\* decisions::append, the last step of the callback.
RecordDecision ==
    /\ pc = "record"
    /\ pc' = "next"
    /\ \E ok \in WriteResults : trail' = [trail EXCEPT !.decision = ok]
    /\ UNCHANGED <<disk, portfolio, queue, snapshot, decision, fill, clock,
                   min_liq_buffer, suspect>>

\* The callback returns; poll_once moves to the next asset.
NextAsset ==
    /\ pc = "next"
    /\ pc' = "fetch"
    /\ queue' = Tail(queue)
    /\ snapshot' = None /\ decision' = None /\ fill' = None
    /\ trail' = NoRows
    /\ UNCHANGED <<disk, portfolio, clock, min_liq_buffer, suspect>>

-----------------------------------------------------------------------------
(* Death of the process, between two steps or inside the fill append.  A   *)
(* ctrl-c taken while waiting for the next tick ends it the same way.      *)

Die ==
    /\ pc' = "down"
    /\ queue' = <<>>
    /\ snapshot' = None /\ decision' = None /\ fill' = None
    /\ trail' = NoRows
    /\ UNCHANGED <<portfolio, clock, min_liq_buffer>>

Crash ==
    /\ pc # "down"
    /\ Die
    /\ suspect' = suspect \cup InFlight
    /\ UNCHANGED disk

CrashInAppend ==
    /\ pc = "append" /\ "torn" \in Faults
    /\ Die
    /\ \E outcome \in {"short", "noeol"} :
           /\ lines' = LinesAfter(lines, sealed, fill, outcome)
           /\ sealed' = SealedAfter(sealed, outcome)
           /\ suspect' = SuspectAfter(outcome)

-----------------------------------------------------------------------------
Next ==
    \/ Start \/ Tick \/ FetchOk \/ FetchErr \/ PollDone \/ Observe
    \/ DecideHold \/ OpenVetoed \/ OpenFilled \/ CloseFilled
    \/ AppendFill \/ CommitOpen \/ RecordDecision \/ NextAsset
    \/ Crash \/ CrashInAppend

Spec == Init /\ [][Next]_vars

-----------------------------------------------------------------------------
(* Properties *)

\* Every variable has its type.
TypeOK ==
    /\ lines \in Seq(Line) /\ sealed \in BOOLEAN
    /\ portfolio \in SUBSET Position
    /\ pc \in Locations
    /\ queue \in Seq(Assets)
    /\ snapshot \in Snapshot \cup {None}
    /\ decision \in Decisions \cup {None}
    /\ fill \in Fill \cup {None}
    /\ trail \in Trail
    /\ clock \in Nat
    /\ min_liq_buffer \in Buffers
    /\ suspect \in SUBSET Keys

\* What a set of positions holds in one asset.
At(positions, key) == {p \in positions : Upper[p.asset] = key}

\* "At most one position per asset" (perps-strategy, PortfolioState::open),
\* however the asset is spelled in the configuration or in the log, across
\* restores, failed appends and closes.
OnePerAsset ==
    \A p, q \in portfolio : Upper[p.asset] = Upper[q.asset] => p = q

\* A failed, torn or glued append damages only its own asset and the asset
\* of the line it was glued to: for every other asset the log still restores
\* exactly what the process holds (restore_portfolio against the callback).
DamageContained ==
    \A key \in Keys \ (suspect \cup InFlight) :
        At(portfolio, key) = At(Restore(lines), key)

\* A respawn resumes: starting the process changes no holding of an asset
\* whose last append was vouched for (main.rs: replay of fills.jsonl).
RestartPreserves ==
    [][Start => \A key \in Keys \ suspect :
                    At(portfolio', key) = At(portfolio, key)]_vars

\* "A launchd respawn picks up where the previous run left off": between
\* polls, a process started now would restore what this one holds.
RespawnResumes == pc = "wait" => portfolio = Restore(lines)

\* The latest fill of line j's asset before line j, if there is one.
Previous(j) ==
    LET earlier == {i \in Whole(lines) : SameAsset(lines[i].asset, lines[j].asset)
                                            /\ Before(lines, i, j)}
    IN {i \in earlier : \A m \in earlier \ {i} : Before(lines, m, i)}

\* The fills of an asset alternate between Open and Close, as pair_fills
\* expects of them ("shouldn't happen given the portfolio tracker").
LogAlternates ==
    \A j \in Whole(lines) :
        lines[j].intent = "open" <=>
            \A i \in Previous(j) : lines[i].intent = "close"

\* Each Close undoes the Open before it: same spelling, whole size, opposite
\* side, even when a respawn lies between the two.
ClosesUndoOpens ==
    \A j \in Whole(lines) :
        lines[j].intent = "close" =>
            \E i \in Previous(j) :
                /\ lines[i].intent = "open"
                /\ lines[j].asset = lines[i].asset
                /\ lines[j].size = lines[i].size
                /\ lines[j].side # lines[i].side

\* No churn: deciding again on the snapshot that was just acted upon asks for
\* nothing, whatever became of the writes, unless the entry was vetoed.
Settled ==
    pc = "next" =>
        \/ Verdict.kind = "hold"
        \/ /\ Verdict = decision /\ decision.kind = "open"
           /\ snapshot.mid <= 0 \/ GateRefuses(decision.side)

\* A decision is on disk only after its observation (devlog: "so we never
\* have a decision without its corresponding observation on disk").
DecisionHasObservation == trail.decision => trail.observation

\* The audit trail of one finished snapshot: observation and decision are
\* recorded, and the decision has its fill unless the entry was vetoed
\* (main.rs: "the absence of a matching fill in fills.jsonl is the audit trail").
AuditTrail ==
    pc = "next" =>
        /\ trail.observation /\ trail.decision
        /\ decision.kind = "hold" => ~ trail.fill
        /\ decision.kind = "close" => trail.fill
        /\ decision.kind = "open" =>
               (trail.fill <=> snapshot.mid > 0 /\ ~ GateRefuses(decision.side))

\* The positions on disk behave like the abstract book.
Book == INSTANCE PositionBook WITH book <- Restore(lines)
ImplementsBook == Book!BookSpec

\* "Per-asset errors are logged and skipped; the loop only exits on signal":
\* whatever the fetches and the writes do, each poll visits every asset once.
Rounds == INSTANCE PollRounds WITH alive <- pc # "down", pending <- queue
ImplementsRounds == Rounds!RoundsSpec

-----------------------------------------------------------------------------
(* The inductive invariant behind the safety theorems *)

\* Only the fill of a suspect asset can be lost to the next append.
TailSuspect ==
    /\ ~ sealed => lines # <<>>
    /\ TailKeys(lines, sealed) \subseteq suspect

\* While a fill is under way its asset is flat in memory; once an Open is
\* safely on disk the log holds exactly that position.
FillUnderWay ==
    /\ pc \in {"observe", "decide", "append", "commit", "record", "next"} =>
           snapshot \in Snapshot /\ queue # <<>>
    /\ pc \in {"append", "commit"} =>
           /\ fill \in Fill
           /\ SameAsset(fill.asset, snapshot.asset)
           /\ fill.filled_at = clock
           /\ HeldIn(portfolio, snapshot.asset) = {}
    /\ pc = "commit" =>
           /\ fill.intent = "open"
           /\ "clock" \notin Faults /\ Upper[fill.asset] \notin suspect =>
                  At(Restore(lines), Upper[fill.asset]) = {PositionOf(fill)}

\* Without clock steps, no fill on disk is stamped later than the clock.
StampsBehind ==
    "clock" \notin Faults =>
        \A i \in Whole(lines) : lines[i].filled_at <= clock

\* Without clock steps, the damage done to the log is contained.
Contained == "clock" \notin Faults => DamageContained

IInv ==
    /\ TypeOK /\ OnePerAsset /\ TailSuspect
    /\ FillUnderWay /\ StampsBehind /\ Contained

\* When the only fault is the death of the process, a living process has no
\* suspect asset, and a fill under way is an Open of an asset the log is flat
\* in or a Close of one it holds.
CrashOnly ==
    Faults = {} =>
        /\ sealed
        /\ pc # "down" => suspect = {}
        /\ pc = "append" =>
               (fill.intent = "open" <=> At(Restore(lines), Upper[fill.asset]) = {})

CrashInv == IInv /\ CrashOnly

=============================================================================
