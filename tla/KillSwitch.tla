----------------------------- MODULE KillSwitch -----------------------------
(***************************************************************************)
(* `perps-bot flatten` (crates/perps-bot/src/flatten.rs) beside the daemon *)
(* it is meant to stop: a second process that reads fills.jsonl once, and  *)
(* for each open position it found awaits a mid and appends a Close.       *)
(*                                                                         *)
(* Its documentation asks the user to unload the daemon first.  With       *)
(* DaemonStopped the user does; without, launchd keeps the daemon running  *)
(* or respawning, and the two processes interleave on one log.             *)
(***************************************************************************)
EXTENDS TradingDaemon, FiniteSets

CONSTANT DaemonStopped   \* the daemon is unloaded while flatten runs

ASSUME SwitchAssumption == DaemonStopped \in BOOLEAN

VARIABLES
    stage,         \* where the flatten process is
    open_trades,   \* the open positions it read
    todo,          \* those the loop has not finished with, current one first
    closing,       \* the current one and its simulated Close, once there is a mid
    closed_ok,     \* how many it counts as closed
    errored        \* those it could not fetch a mid for or persist a Close of

switchVars == <<stage, open_trades, todo, closing, closed_ok, errored>>

allVars == <<vars, switchVars>>

Stages == {"idle", "fetch", "write", "done"}

SwitchInit ==
    /\ Init
    /\ stage = "idle"
    /\ open_trades = {} /\ todo = {} /\ errored = {}
    /\ closing = None
    /\ closed_ok = 0

\* Nothing of the daemon but the log and the clock is shared.
DaemonUntouched ==
    UNCHANGED <<portfolio, pc, queue, snapshot, decision, fill, trail,
                min_liq_buffer>>

-----------------------------------------------------------------------------
(* The flatten process *)

\* Variant with a bug: every Open of the log is taken for an open position.
FlattenEveryOpen ==
    /\ stage = "idle"
    /\ DaemonStopped => pc = "down"
    /\ Len(lines) + Cardinality(Restore(lines)) <= MaxFills
    /\ open_trades' = Restore(lines)
    /\ todo' = {PositionOf(lines[i]) :
                   i \in {j \in Whole(lines) : lines[j].intent = "open"}}
    /\ stage' = "fetch"
    /\ UNCHANGED <<vars, closing, closed_ok, errored>>

\* read_fills and pair_fills.  The order of the loop is a HashMap's.
Flatten ==
    /\ stage = "idle"
    /\ DaemonStopped => pc = "down"
    /\ Len(lines) + Cardinality(Restore(lines)) <= MaxFills
    /\ open_trades' = Restore(lines)
    /\ todo' = open_trades'
    /\ stage' = "fetch"
    /\ UNCHANGED <<vars, closing, closed_ok, errored>>

\* market_snapshot fails: note the error, go on with the next position.
MidErr ==
    /\ stage = "fetch"
    /\ \E trade \in todo :
           /\ todo' = todo \ {trade}
           /\ errored' = errored \cup {trade}
    /\ UNCHANGED <<vars, stage, open_trades, closing, closed_ok>>

\* Variant with a bug: the Close trades in the direction of the position.
SameSideFill(trade, mid, now) ==
    SimulateFill(trade.asset, trade.side, trade.size, mid, "close", now)

\* Variant with a bug: the intent of the simulated fill is wrong.
ReopeningFill(trade, mid, now) ==
    SimulateFill(trade.asset, Flip(trade.side), trade.size, mid, "open", now)

\* The reduce-only order for one position, filled at the mid.
ClosingFill(trade, mid, now) ==
    SimulateFill(trade.asset, Flip(trade.side), trade.size, mid, "close", now)

\* There is a mid, of any value: simulate the Close.
MidOk ==
    /\ stage = "fetch"
    /\ stage' = "write"
    /\ \E trade \in todo, mid \in Mids, now \in Stamps :
           /\ closing' = [trade |-> trade, fill |-> ClosingFill(trade, mid, now)]
           /\ clock' = now
    /\ DaemonUntouched
    /\ UNCHANGED <<disk, suspect, open_trades, todo, closed_ok, errored>>

\* What an append does to the log, and to what the daemon's memory is worth.
WriteClose(outcome) ==
    /\ lines' = LinesAfter(lines, sealed, closing.fill, outcome)
    /\ sealed' = SealedAfter(sealed, outcome)
    /\ suspect' = suspect \cup {Upper[closing.trade.asset]}
    /\ DaemonUntouched
    /\ UNCHANGED clock

\* Variant with a bug: the result of the append is not looked at.
AppendCloseUnchecked ==
    /\ stage = "write"
    /\ stage' = "fetch"
    /\ todo' = todo \ {closing.trade}
    /\ closing' = None
    /\ \E outcome \in AppendOutcomes : WriteClose(outcome)
    /\ closed_ok' = closed_ok + 1
    /\ UNCHANGED <<open_trades, errored>>

\* append; only an Ok counts as closed.
AppendClose ==
    /\ stage = "write"
    /\ stage' = "fetch"
    /\ todo' = todo \ {closing.trade}
    /\ closing' = None
    /\ \E outcome \in AppendOutcomes :
           /\ WriteClose(outcome)
           /\ IF outcome = "ok"
              THEN closed_ok' = closed_ok + 1 /\ UNCHANGED errored
              ELSE errored' = errored \cup {closing.trade} /\ UNCHANGED closed_ok
    /\ UNCHANGED open_trades

\* The loop ends; the report is printed.
Report ==
    /\ stage = "fetch" /\ todo = {}
    /\ stage' = "done"
    /\ UNCHANGED <<vars, open_trades, todo, closing, closed_ok, errored>>

\* The process is gone.  The user may run it again.
Gone ==
    /\ stage' = "idle"
    /\ open_trades' = {} /\ todo' = {} /\ errored' = {}
    /\ closing' = None
    /\ closed_ok' = 0

\* The process returns, or is killed between two steps.
Leave ==
    /\ stage # "idle"
    /\ Gone
    /\ UNCHANGED vars

\* The process is killed inside an append.
KilledInAppend ==
    /\ stage = "write" /\ "torn" \in Faults
    /\ \E outcome \in {"short", "noeol"} : WriteClose(outcome)
    /\ Gone

-----------------------------------------------------------------------------
\* A step of the daemon, or a respawn, where launchd may make one.
Daemon ==
    /\ DaemonStopped => stage = "idle"
    /\ Next
    /\ UNCHANGED switchVars

SwitchNext ==
    \/ Daemon
    \/ Flatten \/ MidErr \/ MidOk \/ AppendClose \/ Report
    \/ Leave \/ KilledInAppend

SwitchSpec == SwitchInit /\ [][SwitchNext]_allVars

-----------------------------------------------------------------------------
(* Properties *)

\* Every variable of the flatten process has its type.
SwitchTypeOK ==
    /\ stage \in Stages
    /\ open_trades \subseteq Position /\ todo \subseteq open_trades
    /\ errored \subseteq open_trades
    /\ closing \in [trade : todo, fill : Fill] \cup {None}
    /\ closed_ok \in Nat

\* No append ever stopped half-way: every line is a fill and has its newline.
Intact == sealed /\ Whole(lines) = DOMAIN lines

\* Partial failure is reported as it is: while flatten runs on an intact log,
\* the positions still open on disk are exactly those to come and those it has
\* noted as errors, however many runs came before and were cut short
\* (flatten.rs: "closed {} of {} position(s)").
Accounted ==
    stage # "idle" /\ Intact =>
        /\ Restore(lines) = todo \cup errored
        /\ todo \cap errored = {}
        /\ closed_ok + Cardinality(Restore(lines)) = Cardinality(open_trades)

\* The kill switch only ever closes: whatever the daemon did since the log was
\* read, an appended Close opens no position and touches no other asset.
OnlyCloses ==
    [][AppendClose =>
           \A key \in Keys :
               LET before == At(Restore(lines), key)
                   after == At(Restore(lines'), key)
               IN \/ after = before
                  \/ key = Upper[closing.trade.asset] /\ after = {}]_allVars

\* "Appends a Close fill to bring the bot's portfolio to flat" (flatten.rs): a
\* run without an error leaves nothing for the next start to restore.
ReportsFlat == stage = "done" /\ errored = {} => Restore(lines) = {}

-----------------------------------------------------------------------------
(* The inductive invariant of the two processes *)

\* Between reading the log and appending to it, flatten holds a Close of the
\* current position, and the unloaded daemon leaves log and clock alone.
CloseUnderWay ==
    /\ stage = "idle" => errored = {} /\ closed_ok = 0
    /\ stage # "write" => closing = None
    /\ stage = "write" =>
           /\ closing \in [trade : todo, fill : Fill]
           /\ closing.fill.intent = "close"
           /\ closing.fill.asset = closing.trade.asset
    /\ DaemonStopped =>
           /\ stage # "idle" => pc = "down"
           /\ stage = "write" => closing.fill.filled_at = clock

\* Without clock steps, flatten's account of an intact log is exact.
Exact == "clock" \notin Faults => Accounted

SwitchInv == IInv /\ SwitchTypeOK /\ CloseUnderWay /\ Exact

=============================================================================
