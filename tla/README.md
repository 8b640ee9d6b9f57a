# A TLA+ model of perps-trade

perps-trade is a paper-trading bot: it polls funding rates of perpetual
futures, decides by a threshold rule to open, close or hold one position per
asset, simulates the fills and journals everything in JSONL files. One of them,
`state/fills.jsonl`, is also the only thing a respawned process gets back. The
hard part of the program is therefore not the strategy but the agreement of two
records of the same positions, the `PortfolioState` in memory and the fills on
disk, across process deaths, failed and half-finished writes, asset names
spelled in several ways, and a wall clock that orders the replay.

Around that core lie a poll loop that must neither burst, nor stall, nor ignore
ctrl-c, and three readers (digest, stats, kill switch) that rebuild the bot's
history from the logs, each in its own way.

The modules here model these parts, TLC checks them on small instances, and TLAPS
proves the main results for every value of the constants. Source paths below
are relative to the repository root.

Contents: [inventory](#1-inventory) · [modules](#2-modules) ·
[runs](#3-runs) · [bounds](#4-bounds-and-abstractions) ·
[fairness](#5-fairness) · [proofs](#6-proofs) · [findings](#7-findings) ·
[plan](#8-plan) · [running](#9-running-it)

## 1. Inventory

| component | state | operations | talks to | modelled in |
|---|---|---|---|---|
| perps-types | none | `annualized`, `Side::flip`, the records | everything | `PerpsTypes` |
| perps-strategy | `PortfolioState.positions` | `position_for`, `open`, `close`, `decide` | called by the daemon and by `restore_portfolio` | `Strategy` |
| perps-risk | none | `liquidation_price`, `liquidation_buffer_pct`, portfolio sums | the daemon's entry gate, the digest | `Risk` (not the sums) |
| perps-executor | `fills.jsonl` | `simulate_fill`, `append` | written by daemon and kill switch | `FillsLog`, `TradingDaemon` |
| perps-funding | `funding.jsonl`, the ticker | `poll_loop`, `poll_once`, `append_jsonl` | venue; calls the daemon's `on_snapshot` | `PollLoop`, `PollRounds`, `TradingDaemon` |
| perps-bot `run` | `Arc<Mutex<PortfolioState>>`, settings of this process | dry-run/live gate, start and restore, `on_snapshot` | all of the above, `decisions.jsonl` | `Launch`, `TradingDaemon`, `PositionBook` |
| perps-bot `pnl.rs` | none (reads the logs) | `read_fills`, `read_funding`, `pair_fills`, `restore_portfolio`, PnL, `accrued_funding`, `latest_mids` | `restore_portfolio` feeds the daemon; the rest feeds digest and flatten | `FillsLog`, `FillPairing`, `FundingAccrual`, `LogReaders`, `DaemonReports` |
| perps-bot `flatten` | `fills.jsonl` | close every open position | venue, fills log; may race the daemon | `KillSwitch` |
| perps-bot `digest` | none | PnL per asset, totals, period, open positions | fills and funding logs | `Digest`, `LogReaders` |
| perps-bot `stats`, `decisions` | none | three summaries; append a decision row | the logs | `LogSummaries`, `LogReaders`; `TradingDaemon` for the append |
| perps-venues | HTTP client | `market_snapshot` (orders have no caller) | Hyperliquid | `VenueReply`, `PollLoop` |
| perps-config | none | layered settings, no validation | read at start | `Launch` (layering, the keys of the gate); the rest are constants |
| launchd (plist) | | `KeepAlive`: respawn after every death | the daemon | `Crash`, then `Start` |
| perps-backtest | | empty crate | | not modelled |

How they interact. One tokio task runs `poll_loop`. On a tick it visits the
configured assets in order; for each it awaits a snapshot, appends the
observation to `funding.jsonl`, and calls `on_snapshot` synchronously. The
callback locks the portfolio, decides, unlocks, appends a fill, changes the
portfolio and appends a decision row. Callbacks never overlap, but the process
may die between any two of these steps, and each write may fail while the
callback carries on. launchd starts the process again; `restore_portfolio`
reads, sorts and pairs the fills, and that is its new portfolio.

The behaviours that are hard, and what makes the components correct:

* **Death between two steps.** An Open is persisted *before* it enters memory, a
  Close *after* it left memory. A respawn must neither forget nor repeat either.
* **A failed write is only logged.** Memory and log then disagree about that
  asset until the next restart. The damage must stay confined to it.
* **`writeln!` on a `File` is two write calls**, one for the line and one for the newline.
  A failure in between leaves an unfinished line; the next append, of any asset,
  is glued to it, and the result parses as neither fill.
* **Replay order is wall-clock order.** `sort_by_key(filled_at)` is stable, so
  equal stamps are safe, and a clock step is not.
* **Case folding** is done separately in `decide`, `open`, `close` and
  `pair_fills`; all must agree that `BTC` and `btc` are one asset.
* **Thresholds and the entry gate**: a held asset must not be closed and
  re-entered on an unchanged signal, and a vetoed entry must leave its trace.
* **The kill switch** is a second process on the same log. It acts on what it read
  once, awaits the venue between its writes, may fail for some positions and not for
  others, may be killed and run again, and its user may have forgotten to
  unload the daemon.
* **Accounting** must add up to the cash the fills moved, and never revise the past.
* **Funding is a step function** integrated over a holding period whose ends are
  inclusive, from rows in any order; an open position accrues until the last
  observation, not until now.
* **Ctrl-c has a listener only while `select!` waits.** Its first poll replaces the
  default of SIGINT for good, so a signal during a poll finds neither.
* **A slow venue** makes requests time out one after another, rounds outlast the period
  and ticks go missing.
* **The venue's reply is two parallel arrays**, matched by index.
* **The live gate** combines a flag with a setting that three sources may give.

`PROJECT.json` lists the hazards one by one, at their lines, with the properties
that cover each or the reason none does yet.

## 2. Modules

| module | stands for |
|---|---|
| `PerpsTypes` | the domain records, `SameAsset` (case folding), `Flip`, `Annualized` |
| `Strategy` | `PortfolioState` and `decide` |
| `Risk` | liquidation price and buffer, cross-multiplied so that every comparison is exact |
| `FillsLog` | what one append can leave in `fills.jsonl`, and, without a fold, which positions a reader finds in it (`Restore`) |
| `Collections` | what the readers do with collections, defined so that it can be reasoned about for any length: sorting by counting, filter, sum, insertion into a map |
| `FillPairing` | `pnl.rs` as written: filter, stable sort, fold with a map; PnL |
| `FundingAccrual` | `read_funding`, `accrued_funding`, `latest_mids` |
| `Digest`, `LogSummaries` | the figures of `digest` and of the three parts of `stats` |
| `LogReaders` | logs anything may have written, on which all readers are compared with their definitions and with one another |
| `TradingDaemon` | `perps-bot run` with `poll_once` around it: the state machine |
| `PositionBook` | the abstract specification the positions on disk implement |
| `DaemonReports` | the reports of `pnl.rs` read while daemon and kill switch write |
| `KillSwitch` | `perps-bot flatten` as a second process beside the daemon |
| `VenueReply` | the search for one asset in the venue's answer |
| `Launch` | layered settings and the choice of the client |
| `PollLoop` | `poll_loop` in time: ticker, requests and their timeout, ctrl-c |
| `PollRounds` | the abstract loop: every asset once per round, in order, for ever. Both `PollLoop` and `TradingDaemon` implement it |
| `TradingDaemonProofs`, `RoundProofs`, `JournalProofs`, `KillSwitchProofs`, `PollLoopProofs`, `ReplayProofs`, `ReaderProofs`, `ReportProofs` | the theorems |
| `MC...` | the small instances |

`TradingDaemon` extends `FillsLog`, `Strategy` and `Risk`; `KillSwitch` composes
it with the flatten process on the same log and clock; `DaemonReports` adds the reports of
`FillPairing`, read from the log both write; `PositionBook` is instantiated in `TradingDaemon` with
`book <- Restore(lines)`. `Digest` extends `FillPairing`, `FundingAccrual` and `Risk`, and
`LogReaders` adds `LogSummaries`. `PollLoop` extends `VenueReply` and `Launch`.

The process is modelled twice, at two grains, joined by `PollRounds`. `TradingDaemon` has
the writes and no clock but the fills' stamps; a callback there is many steps.
`PollLoop` has the clock, the network and signals; a callback there is one step, between
`Answer` and `Return`. The code justifies the cut: the callback is synchronous and touches
neither ticker nor signal, and nothing in the loop depends on what it did.

### The daemon's state

| variable | in the code |
|---|---|
| `lines`, `sealed` | `fills.jsonl`: its lines, and whether the last one ends in a newline |
| `portfolio` | `Arc<Mutex<PortfolioState>>`. While the process is down it keeps what the dead process believed, to compare a restart with |
| `pc` | where the one task is |
| `queue` | the assets this poll has still to visit |
| `snapshot`, `decision`, `fill` | locals of the callback |
| `trail` | which of the rows about this snapshot were written |
| `clock` | the last value of `Utc::now()` put in a fill |
| `min_liq_buffer` | `settings.risk.liq_buffer_pct`, read again at each start |
| `suspect` | history: the assets whose log and memory may differ. No guard reads it |

### The daemon's actions

| action | code |
|---|---|
| `Start` | `run`: settings and `restore_portfolio` |
| `Tick`, `PollDone` | `ticker.tick()` to the end of `poll_once` |
| `FetchOk`, `FetchErr` | the two arms on `market_snapshot` |
| `Observe` | `append_jsonl`; its error is only logged |
| `DecideHold` | `Decision::Hold` |
| `OpenVetoed` | `Decision::Open`, no positive mid or the buffer below the threshold |
| `OpenFilled` | `Decision::Open`, up to and including `simulate_fill` |
| `CloseFilled` | `Decision::Close`: `portfolio.close`, then `simulate_fill` |
| `AppendFill` | `perps_executor::append`, with each outcome a write can have |
| `CommitOpen` | `portfolio.open` |
| `RecordDecision` | `decisions::append` |
| `NextAsset` | the callback returns |
| `Crash`, `CrashInAppend` | the process dies, between steps or inside the fill append |

What may go wrong is a constant, `Faults`: `"refused"` (a write returns an error,
nothing written), `"torn"` (a fill append stops half-way, with an error or with the
process), `"clock"` (the clock steps back). Death between steps is always possible.
Each theorem and run names the faults it holds under.

`decide` to `simulate_fill` is one step: nothing in it is visible outside the task
and the mutex has no other user. `CloseFilled` alone changes memory in that
step, and its crash window is between it and `AppendFill`.

Some definitions are preceded by a *variant with a bug*, an operator with the same
parameters that no specification uses. Each is a mistake one could plausibly make at
that line (an unstable sort, `or_insert` for `insert`, a missing case fold, booking
an Open only if its write succeeded); put in place of the definition
it precedes, it makes a property of some run fail. They record what each
property is sensitive to.

### The flatten process

| variable | in `flatten.rs` |
|---|---|
| `stage` | where the process is; `idle` when none runs |
| `open_trades`, `todo` | what it read, and what the loop has not finished with |
| `closing` | the current trade and its simulated Close, while the append is ahead |
| `closed_ok`, `errored` | the locals it reports |

`Flatten` reads and pairs the log; `MidErr` and `MidOk` are the two arms on the
awaited snapshot, the second up to and including `simulate_fill`; `AppendClose` is the append
with its count; `Report` ends the loop; `Leave` is the return, or death between two
steps, and `KilledInAppend` death inside the append. The loop visits the trades
in any order, because their order is a `HashMap`'s. `Daemon` is any step of
`TradingDaemon`. With `DaemonStopped` the user has unloaded it, as the documentation asks:
flatten starts only while the daemon is down, and it does not come back before
flatten has left. Without, the two interleave freely. An append of flatten makes its asset
`suspect`, since the memory of a daemon that did not see it is out of date.

### The poll loop

| variable | in the code |
|---|---|
| `pc` | `down`, in `select!` (first pass / waiting), fetching, in the callback |
| `layers`, `allow_live` | what `perps_config::load` was given, and `args.allow_live` (`main.rs:54`) |
| `client` | the client `main.rs` built |
| `queue` | the assets this poll has still to visit, current one first |
| `snapshot` | the argument of `on_snapshot` |
| `due` | time to the ticker's deadline; negative once it is missed |
| `hang` | how long the request has been out |
| `listener`, `handler` | the `ctrl_c()` future of this iteration; whether SIGINT is handled at all |
| `since`, `asked` | history: time since the last tick; whether a SIGINT was sent. No guard reads them |

| action | code |
|---|---|
| `Start` | `load`, the gate, the constructor of the client |
| `Await` | `select!` polls both futures and both are pending |
| `Tick` | the ticker's branch: `MissedTickBehavior::Delay`, the other future dropped |
| `Heed` | the ctrl-c branch, which ends the process |
| `Answer` | `market_snapshot` returns: a quote, or an error that is only logged |
| `FetchTimesOut` | the HTTP client's timeout |
| `Return`, `RoundDone` | `on_snapshot` returns; `poll_once` returns |
| `Pass` | a unit of time, only while nothing in the process is ready |
| `SigInt`, `Kill` | a SIGINT that is handled; one that is not, or any other death |

Of tokio it is assumed that `select!` creates its futures anew in each iteration and polls
them in random order, that the first poll of a `ctrl_c()` installs the handler
for the life of the process and subscribes that future only, and that a dropped future
loses what it has received. The two arrays of a reply hold each listed asset at most once.

### The readers

`LogReaders` has no process: its three variables are the logs, its actions append a fill, an
observation, a decision or an unparsable line of any asset, spelling and stamp. Every
property compares what a reader makes of the logs with a definition that neither
sorts nor folds, or with what another reader makes of them. What a row says besides is given by
its place: the constants `FillTerms` and `ObsTerms` list side, size and price of the n-th line of
`fills.jsonl` and rate and mid of the n-th of `funding.jsonl`. They may be any sequences, so
the theorems hold for logs of any content. An observation may also lack its mid. In the runs no two
fills share a price and the rates are powers of ten of either sign, so that no two sums of
charges agree by accident.

## 3. Runs

| run | shows | properties |
|---|---|---|
| `Journal` | daemon and unloaded-daemon flatten runs in any alternation, death between any two steps, no other fault. The log is a faithful journal | `RespawnResumes`: between polls, a process started now would restore exactly what this one holds. `LogAlternates`, `ClosesUndoOpens`: each asset's fills alternate, and each Close is the whole, opposite, equally spelled Open before it, whichever process wrote them. `AuditTrail`: what the three logs say of one snapshot agrees. `Settled`: deciding again on the same snapshot asks for nothing. `CrashInv`: the daemon's inductive invariant. `ImplementsBook`: the positions on disk behave like `PositionBook`, to which restarts and the identity of the closing process are invisible. `BooksBalance`: in each asset, realized plus unrealized PnL is the cash of its fills plus the marked inventory, at any mark. `TradesNeverRevised`: a realized trade never changes or disappears |
| `DaemonFaults` | refused, torn and glued appends; one asset configured under two spellings | `OnePerAsset`; `DamageContained`: for every asset whose last append was vouched for, memory and log agree; `RestartPreserves`: a restart changes no such holding; `Settled` holds even so; `ImplementsRounds`: whatever fails, every poll visits each asset once, in order; `TypeOK`, `IInv` |
| `LogReaders` | every set of logs within the bound. `RestoreMatchesFold`: the sort and fold of `pnl.rs` restore what `Restore` says. `PairsAreNeighbours`: the closed trades are exactly the neighbouring Open-Close pairs, as the comment on `pair_fills` has it. `AccrualIsStep`: `accrued_funding` over any holding period is the hour-by-hour sum of the step function its comment describes, with the sign of the side. `FundingSettles`: no row stamped after its close changes what a closed trade earned. `MarkIsLatest`: the mark of an asset is the mid of its latest row that has one. `DigestIgnoresNow`: a digest does not depend on when it is run. `DigestFoldsCase`: nor do its rows, its total, and the marks and buffers of the open positions on how assets are spelled. `StatsMatchRestore`: `stats`, which goes by file order, shows an asset as opened exactly when a respawn, which sorts, would hold it. `StatsShowLatest`: every decision row is counted once, under its kind, and the last one shown is the latest, the file's order breaking ties; every observation is counted once, and the rate shown last lies in the range shown and is the latest if the rows were written in time order |
| `PollLoop` | every settings source, replies of every shape, hanging requests, signals and deaths at any time. `NoBurst`: two ticks are a period apart. `RoundBounded`: an asset is reached at most one timeout late per asset before it. `QuoteIsOfAsset`: the callback gets the market's own rate and mid of the asset asked for. `SigningIsExplicit`: a signing loop was started with `--allow-live`, and had `dry_run` turned off by a source that no later one overrode. `HeededWhenWaiting`: a ctrl-c that finds the loop waiting, the tick not due, ends it. `ImplementsRounds`: the loop keeps visiting every asset, in order, as long as it lives. `LoopTypeOK` |
| `FlattenFaults` | daemon unloaded; mids missing; appends of either process refused, torn or glued; flatten killed and run again | `Accounted`: while no line was left unfinished, what is still open on disk is exactly what flatten has yet to visit or lists as an error, and its count is the rest. `DamageContained` and `RestartPreserves`: flatten does the daemon's other holdings no harm. `SwitchInv`, the inductive invariant; `SwitchTypeOK` |
| `FlattenRace` | the daemon keeps running, on two assets, one of them configured under two spellings; clock steps and refused writes | `OnlyCloses`: an append of flatten opens nothing and touches its own asset only, whatever happened since the log was read. `OnePerAsset` |

Six more runs check one claim each of a doc or comment, and find it violated; see
[findings](#7-findings).

`Journal` runs without write faults because `RespawnResumes`, `LogAlternates`
and the refinement are false with them (the first is a finding; a refused Close also
leads to two Opens in a row, which the comment at `pnl.rs:159` says should not happen). What remains true with
them is the subject of `DaemonFaults` and `FlattenFaults`. `TradesNeverRevised` would be
false with a glued line for the same reason.

In the race, memory and log part ways and the log stops alternating (a position is
closed twice, or a Close stamped before the daemon's append revises a realized
trade). That is what the documentation of `flatten` warns of, so it is no finding,
and `FlattenRace` checks what holds nevertheless.

## 4. Bounds and abstractions

* `MaxFills` (guard of `Tick`): no poll starts that could write more lines than
  this. With 4 and two assets (`Journal`), an asset can be opened, closed and re-opened with
  deaths in between, and the second asset has fills among those: the shortest violations of the
  properties under the buggy variants need two to four fills. The respelled
  configuration of `DaemonFaults` has three visits per poll, so with 5 its logs are one
  full poll long plus the asymmetry of a death and a second poll.
* The same bound is in the guard of `Flatten`, for one Close per open position. The
  runs with flatten use 4 lines: two positions to flatten, of which one can
  fail and be retried, or one and a re-entry after it. In the race the second position may also be
  opened, closed or re-entered by the daemon between the reading and the Close of the first.
* `MaxClock`: the clock stops there, so that equal stamps, the hard case of the
  stable sort, are the common case. One advance distinguishes ordered from equal.
* `Rates` hit both thresholds exactly: `10` annualises to the entry threshold, `2`
  to the exit threshold, `-1` lies in the exit band, `-10` enters the other side.
* `Mids` contain 0 (no fill on entry, a fill at 0 on exit) and values that divide
  `MaxPositionUsd`, so that order sizes are exact as they nearly are with 28 digits.
* `Buffers` are 0.300 (the default) and 0.999: at entry at leverage 1 the buffer of
  either side is 0.995, so the gate passes with one and refuses with the other.
* `LogReaders`: `MaxWeight` bounds the logs together, a fill and an observation weighing 4, a
  decision 5. With 16 a log alone has up to four fills, four observations or three
  decisions, and the mixtures of fills and observations occur that a closed trade with funding
  needs (two fills and two observations). `FillStamps` and
  `ObsStamps` interleave, and no stamp is beyond `MaxHour`; holding periods of every
  integer length, starting at, before and after the stamps, are compared in each state. The
  theorems of `ReaderProofs` have no such bound. The mids of `ObsTerms` go up and down and one is
  zero, so the latest is neither the greatest nor the last to be positive.
* `PollLoop`: `Period` 3 and `Timeout` 2 with two assets: one hanging request fits in a
  period, two do not, so ticks are met, missed, and missed while a signal is pending. The
  venue lists a third asset that nobody asks for, and may name the listed ones in any order.
  `due` and `since` need no bound: a round of timeouts bounds them (`RoundBounded`).
* Assets: two, and a second spelling of one. No symmetry is declared: the polling
  order tells assets apart.

Data that is abstracted: a `Decimal` is an integer in a fixed unit; the venue is
always Hyperliquid and leverage always 1, so both fields are left out, and
with them `margin_used` and `notional_usd`, which follow from size and price; a line that does not
parse is one value, `Torn`; `order_id` and `fees_usd` are left out. `funding.jsonl`
and `decisions.jsonl` are only written by the daemon, so for it they are the two
Booleans of `trail`. `PortfolioState.positions` is a set: none of its operations
depends on the order of the `Vec`, and that it has one position per asset is
checked and proved.

Assumed of the environment: `write` in append mode puts all of its bytes at the end
or a prefix of them; nothing but the daemon and `flatten` writes the file, both
in one state directory and on one clock; a read of the log at start succeeds, and
a start that fails is a process that stays down.

A configuration whose exit threshold exceeds the entry threshold is excluded by
`ThresholdAssumption`; the loader does not reject it (listed as a hazard).

**Not modelled.** `place_order`, `cancel_order` and `positions` of the venue client and the sums
of `perps-risk` (`portfolio_notional`, `portfolio_margin`) have no caller outside tests:
a live client is built, and its fills are still simulated (`devlog.md` says so). Deserialisation, the
formatting of reports, tracing, and `perps-backtest`, which is empty, are left out. That
`flatten --state-dir` may name another directory than the daemon's is a matter of
invocation and is not modelled either.

## 5. Fairness

`FairLoopSpec` assumes weak fairness of `Runtime`: what the process does by itself, together with
the passing of time. The tokio scheduler runs a task that is ready, the clock goes on, and
the HTTP client's timer fires; `reqwest` is built with a timeout (`hyperliquid.rs:29`), and the
run would fail without it. No fairness is assumed of the venue's answers, of
signals, of deaths, or of a start (launchd restarts the process, but the properties do not
depend on it).

Under it TLC checks `HeededWhenWaiting` and the fairness conditions of `PollRounds`, which say
that a loop that lives begins round after round and visits every asset in each. What does
not hold is that any ctrl-c ends the process: see `CtrlCLost`.

Every other specification has no fairness. Its properties are safety properties and hold of a daemon
that stops anywhere.

## 6. Proofs

The theorems about the daemon hold for every set of assets and spellings, asset list,
rates, mids, thresholds with exit at most entry, buffer settings, length of log
and the sets of faults named.

| module | theorem | says | under |
|---|---|---|---|
| `TradingDaemonProofs` | `TypeCorrect`, `Invariance` | `Spec => []TypeOK`, `Spec => []IInv` | every fault |
| | `AtMostOnePosition` | `Spec => []OnePerAsset` | every fault |
| | `DamageIsContained` | `Spec => []DamageContained` | no clock steps |
| | `RespawnKeepsHoldings` | `Spec => RestartPreserves` | no clock steps |
| | `RespawnIsExact`, `CrashInvariance` | `Spec => []RespawnResumes`, `Spec => []CrashInv` | death only |
| | `DaemonImplementsBook` | `Spec => ImplementsBook` | death only |
| `RoundProofs` | `DaemonImplementsRounds` | `Spec => ImplementsRounds` | every fault |
| | `NoChurn` | `Spec => []Settled` | every fault |
| | `GateWeighsSettingAlone` | at entry the gate compares its setting with 99.5 %, whatever the price and side | |
| `JournalProofs` | `FillsAlternate` | `Spec => []LogAlternates` | death only |
| | `ClosesMatchOpens` | `Spec => []ClosesUndoOpens` | death only |
| | `RecordIsComplete` | `Spec => []AuditTrail` | death only |
| `KillSwitchProofs` | `SwitchTypeCorrect`, `SwitchInvariance` | `SwitchSpec => []SwitchTypeOK`, `[]SwitchInv` | daemon unloaded, every fault |
| | `FlattenContainsDamage` | `SwitchSpec => []DamageContained` | daemon unloaded, no clock steps |
| | `FlattenKeepsHoldings` | `SwitchSpec => RestartPreserves` | daemon unloaded, no clock steps |
| | `FlattenAccounts` | `SwitchSpec => []Accounted` | daemon unloaded, no clock steps |
| | `OnePositionBesideFlatten` | `SwitchSpec => []OnePerAsset` | daemon running, every fault |
| | `FlattenOnlyCloses` | `SwitchSpec => OnlyCloses` | daemon running, no append stops half-way |
| `PollLoopProofs` | `LoopTypeCorrect` | `LoopSpec => []LoopTypeOK` | any market, list, period and timeout |
| | `RoundsAreBounded` | `LoopSpec => []RoundBounded` | the same |
| | `QuotesAreOfAsset` | `LoopSpec => []QuoteIsOfAsset` | the same |
| | `SigningNeedsSettings` | `LoopSpec => []SigningIsExplicit` | the same |
| | `TicksNeverBurst` | `LoopSpec => NoBurst` | the same |
| | `LoopImplementsRounds` | `LoopSpec => Rounds!RoundsSpec`, the safety part of `ImplementsRounds` | the same |
| `ReaderProofs` | `FoldRestores`, `FoldPairsNeighbours` | `ReadersSpec => []RestoreMatchesFold`, `[]PairsAreNeighbours` | any logs |
| | `FundingIsIntegral`, `SettledForGood` | `ReadersSpec => []AccrualIsStep`, `ReadersSpec => FundingSettles` | any logs, any rates |
| | `MarksAreLatest` | `ReadersSpec => []MarkIsLatest` | any logs |
| | `DigestStandsStill`, `DigestIsCaseBlind` | `ReadersSpec => []DigestIgnoresNow`, `[]DigestFoldsCase` | any logs |
| | `StatsAgreeWithRestore`, `StatsShowsTheLatest` | `ReadersSpec => []StatsMatchRestore`, `[]StatsShowLatest` | any logs |
| `ReportProofs` | `JournalInvariance`, `JournalKeepsCrashInv` | `SwitchSpec => []JournalInv`, `[]CrashInv` | daemon and unloaded-daemon flatten, death only |
| | `JournalResumes` | `SwitchSpec => []RespawnResumes` | the same |
| | `JournalAlternates`, `JournalClosesUndo` | `SwitchSpec => []LogAlternates`, `[]ClosesUndoOpens` | the same |
| | `JournalRecords` | `SwitchSpec => [](AuditTrail /\ Settled)` | the same |
| | `JournalImplementsBook` | `SwitchSpec => ImplementsBook` | the same |
| | `TradesStand`, `BooksAlwaysBalance` | `SwitchSpec => TradesNeverRevised`, `[]BooksBalance` | the same |

The assumptions are the named ones of the modules: `UpperAssumption`,
`TornAssumption`, `ThresholdAssumption`, `DaemonAssumption`, `SwitchAssumption`, for the loop
`MarketAssumption`, `UnsetAssumption` and `LoopAssumption`, and for the readers
`ObservationAssumption` (an unparsable line is no observation), `TermsAssumption` and
`StampAssumption` (sizes, prices, rates, mids and stamps are integers, of any sign but for the
stamps, which go up to `MaxHour`) and `SpellingAssumption`
(`to_ascii_uppercase` of an upper-case name is that name). TLC evaluates
them in every run of a module that has them.

The argument. None of the properties is inductive on its own. What the log restores
in an asset depends on that asset's lines alone (`RestoreLocal`), so an append
touches one asset, unless the last line was unfinished, and then also the asset of that
line (`GlueTail`, `AppendElsewhere`). Whether a new fill ends up *last* of its asset, and so
decides what is restored, depends on the stamps (`AppendOwn`). The inductive
invariant `IInv` therefore adds to the properties

* `TailSuspect`: the fill of an unfinished last line belongs to a suspect asset, so
  what gluing destroys was already given up;
* `FillUnderWay`: between `simulate_fill` and the update of memory the asset is
  flat in memory, the fill carries the current stamp, and an Open that is safely on
  disk restores as exactly the position about to be booked. Without it `CommitOpen`
  could not be shown to bring memory back in line with the log;
* `StampsBehind`: without clock steps no fill on disk is stamped in the future.

For `RespawnIsExact` and `DaemonImplementsBook`, `CrashOnly` is added: if the process only dies, a living
process has no suspect asset, and a fill under way is an Open exactly when the
log is flat in its asset. From it follow the exact agreement and, because
`AppendFill` is the only step that changes what is restored, that each step of the
daemon is a step of `PositionBook` or a stutter (`BookStep`).

For the kill switch the daemon's invariant is reused whole: a daemon step keeps it by
the lemma already proved, and a flatten step happens only while the daemon is down,
so it is enough that an append of any Close keeps the log's part (`WriteCloseStep`).
`CloseUnderWay` adds that the Close waiting to be appended belongs to a trade still
to do and carries the current stamp, which only an unloaded daemon guarantees;
then an Ok append removes exactly that position (`CloseRemoves`), and the
count follows by counting finite sets. `Accounted` speaks of an *intact* log, one without an
unparsable or unfinished line; a log that is intact after an append was so before it, and the
append was Ok or refused as a whole (`IntactBefore`), so the account needs no memory of
earlier damage.

`RoundProofs` needs two facts more: outside a poll the queue is empty (`Idle`), and once a
decision was acted upon the portfolio already is what the decision wanted (`Acted`), where the
order of the thresholds comes in.

`JournalProofs` adds to `CrashInv` that a Close under way undoes a position the log restores,
with its spelling and size (`CloseUndoes`). Since nothing but death happens, an appended fill
is last of its asset in the replay's order, so what it follows there is the fill that decides
what the log restores (`PreviousOfAppended`), and it changes no earlier pair
(`EarlierLines`). `Recorded` ties `trail`, and the reason an entry was or was not filled, to
the step of the callback.

The race part of `KillSwitchProofs` cannot use `IInv`, which is false beside a running daemon: the
clock and the log move while flatten awaits a mid. `RaceInv` keeps what survives: types, one position per
asset, and that what flatten is about to append is a Close of the trade's own asset. One appended Close, whatever its
stamp, can only take the position of its own asset away (`CloseAppended`).

`PollLoopProofs` rests on `due = Period - since`: the deadline is set once per tick, however late. Hence
a tick, which needs `due <= 0`, is a period after the last; and each visited asset has
added at most one timeout to `since`. `QuoteIsOfAsset` follows from the reply's construction by
the uniqueness of the matched index.

`ReplayProofs` has what the two modules about the logs need, and how an argument over logs of any
length is made here. The provers cannot instantiate an induction theorem whose hypothesis
is a predicate, so induction is stated for a *set*: a set of numbers that contains 0 and the successor of each
member contains every number (`Induct`). From it follow that the recursive functions of
the model (the fold of `pair_fills`, of `latest_mids`, of `stats`, and `SumOf`) exist and obey their
equation (`Recursion`, `Unfolded`), and each claim about a fold is the claim that the set
of prefixes it holds for is closed in that way.

Sorting and filtering are by counting: the place of a row is the number of rows before it.
A finite set has one enumeration that lists each row once and in order, and counting gives it
(`Enumerated`); most comparisons of two readers end by citing that uniqueness. On it rest

* `FoldRestores` and `FoldPairsNeighbours`: after n fills the map of `pair_fills` holds an asset's
  last fill if it is an Open, and the list has one trade per closing so far;
* `FundingIsIntegral`: a sum over the hours of a segment on which the rate is constant is one charge
  and the segments of a holding period are joined by induction over its rows (`SegmentSum`); the
  step function is such a constant between two neighbouring rows and before the first of them
  (`StepInside`), and all along if the period has none (`StepOutside`);
* `SettledForGood`: the new row, being later than the close, is neither inside nor before the holding
  period, and leaves the enumeration of those that are as it was;
* `DigestIsCaseBlind`: respelling changes neither which lines parse nor their order, so each reader in
  turn, sort, fold, accrual, marks and sums, returns the same figures, with the names respelled;
* `StatsAgreeWithRestore`: `stats` keeps the row that no other follows in (stamp, position), and that
  is the last one of a stable sort.

`ReportProofs` treats the two processes together. Every step either leaves the log alone or appends
one fill that is *in its turn*: stamped no earlier than any other, an Open of an asset that is
flat on disk or a Close undoing the position there (`OneAppend`, from the daemon's own lemma and
`CloseInTurn`). The theorems of `JournalProofs` are about such appends, and so carry over with
`JournalInv`, which joins the invariants of the three modules. `TradesStand` adds that
an append in turn is the last in the order of the replay, so the fold over the longer log is one
step of the fold over the old one; `BooksAlwaysBalance` that such a step changes both sides of
the account by the same amount (`BalanceStep`).

Only model-checked: liveness, that is `HeededWhenWaiting` and the fairness part of
`ImplementsRounds`, which is out of the prover's reach, as is `ENABLED`. Every other
property that a passing run checks is stated by a theorem above, for the specification that
run checks it of. No module uses a RECURSIVE operator.

## 7. Findings

| run | claim | what the code does |
|---|---|---|
| `RespawnRefused` | a respawn "picks up where the previous run left off" (`main.rs:173`) | after one refused append the process holds a position the log does not have (or the reverse for a Close), and a respawn changes the holdings |
| `RespawnClock` | "each subsequent Close on the same asset removes it" (`pnl.rs:87`) | after a backward clock step the Close sorts before its Open and a closed position comes back |
| `FlattenGlued` | flatten appends Closes "to bring the bot's portfolio to flat" (`flatten.rs:3`) | a Close glued to an unfinished line is counted as closed, and the position is restored at the next start |
| `ObservationRefused` | "we never have a decision without its corresponding observation on disk" (`devlog.md:212`) | the failed observation is logged, and the decision taken and recorded |
| `CtrlCLost` | "Run the poll loop until ctrl-c" (`perps-funding/src/lib.rs:30`), "Ctrl-C to exit" (`README.md:52`) | a ctrl-c sent while `poll_once` fetches is swallowed and the loop goes on; when rounds outlast the period none is ever listened to |
| `OldRows` | "Older log entries from before mid_price was added will fail to parse here" (`pnl.rs:31`), they "won't deserialize through `LoggedFunding`" (`devlog.md:121`) | the field is `#[serde(default)]` (`pnl.rs:40`): such a row is read, without a mid, and its rate is charged like any other. Only the marks pass it over |

The race of flatten with a running daemon is documented and is no finding. Neither are these,
which the documents admit: the liquidation buffer is compared at entry only, and watching
open positions is work to do (`README.md:13`); the exit threshold bounds a magnitude, so a position that
pays strongly is held, and "threshold below which we exit" (`config/default.toml`)
can be read either way. "Either alone refuses to proceed" (`main.rs:120`) is imprecise: the
flag alone starts a dry run, which is the safe side, and what the gate is for, both together or no
signer, is `SigningIsExplicit`. That the time from an open to the first observation of its holding period is
charged at that observation's rate, although an earlier one exists, is what `pnl.rs:237` and
`devlog.md:123` say, and `AccrualIsStep` takes it for the definition.

## 8. Plan

Done, in this order: the daemon, its logs, the abstract book; the kill switch, unloaded and racing;
the readers; the loop in time with venue and launch; the theorems above, last those about the two
processes together and about the readers.

Left, should the code grow or a question come up:

1. *A journal* as an abstract specification (one append-only record per asset in which Open and
   Close alternate), refined by `lines` under death only. `JournalAlternates` and
   `JournalClosesUndo` are its invariants already.
2. *Flatten atomic per position*, implemented by `KillSwitch` with the daemon unloaded.
3. Live orders, as soon as `place_order` has a caller: a lost or repeated order and
   the agreement of three records instead of two.

## 9. Running it

    tlc -workers 2 -config Journal.cfg MCDaemonReports
    tlc -workers 2 -config DaemonFaults.cfg MCTradingDaemon
    tlc -workers 2 -config LogReaders.cfg MCLogReaders
    tlc -workers 2 -config PollLoop.cfg MCPollLoop
    tlc -workers 2 -config FlattenFaults.cfg MCKillSwitch
    tlc -workers 2 -config FlattenRace.cfg MCKillSwitch
    tlapm TradingDaemonProofs.tla       (and the other seven)

Each run takes between ten seconds and two minutes. `CHECK_DEADLOCK FALSE` is set in
`LogReaders.cfg` and `OldRows.cfg` alone, where the logs simply fill up; the daemon and the
loop can always die and start again. The findings' configurations are run with
`MCTradingDaemon` in the same way (`FlattenGlued` with `MCKillSwitch`, `CtrlCLost` with `MCPollLoop`,
`OldRows` with `MCLogReaders`).
