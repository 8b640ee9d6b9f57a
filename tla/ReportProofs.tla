---------------------------- MODULE ReportProofs ----------------------------
(***************************************************************************)
(* Proofs about DaemonReports: what the journal says when daemon and kill  *)
(* switch take turns on it, and what the reports make of it.               *)
(*                                                                         *)
(* Whichever of the two processes writes, the log changes by one fill that *)
(* is in its turn (OneAppend).  All the rest is about appending such a     *)
(* fill: to the log, to the positions it restores and to the trades that   *)
(* the fold pairs.                                                         *)
(***************************************************************************)
EXTENDS DaemonReports, KillSwitchProofs, JournalProofs, RoundProofs, ReplayProofs

-----------------------------------------------------------------------------
(* The invariant of the two processes, when the only fault is death *)

\* Flatten closes the whole of what it read.
WholeClose ==
    stage = "write" =>
        /\ closing.fill.size = closing.trade.size
        /\ closing.fill.side # closing.trade.side

JournalInv ==
    /\ SwitchInv /\ CrashOnly /\ FillsInv /\ RecordInv /\ Acted
    /\ Intact /\ WholeClose

\* The log gains one fill, in its turn.
AppendsInTurn == \E f : InTurn(lines, f) /\ lines' = Append(lines, f)

\* A step of flatten concerns only a daemon that is down.
LEMMA FlattenSteps ==
  ASSUME DaemonStopped, SwitchInv,
         Flatten \/ MidErr \/ MidOk \/ AppendClose \/ Report \/ Leave
  PROVE  pc = "down" /\ UNCHANGED <<pc, trail>>
  BY DEF SwitchInv, CloseUnderWay, Flatten, MidErr, MidOk, AppendClose, Report, Leave,
         Gone, DaemonUntouched, WriteClose, vars

\* A Close of flatten is in its turn: what it read is still on disk.
LEMMA CloseInTurn ==
  ASSUME DaemonStopped, Faults = {}, JournalInv, AppendClose
  PROVE  /\ InTurn(lines, closing.fill) /\ lines' = Append(lines, closing.fill)
         /\ sealed'
<1> DEFINE trade == closing.trade
           f == closing.fill
<1>1. /\ stage = "write" /\ trade \in todo /\ f \in Fill /\ f.intent = "close"
      /\ f.asset = trade.asset /\ f.size = trade.size /\ f.side # trade.side
      /\ f.filled_at = clock /\ sealed
  BY DEF AppendClose, JournalInv, SwitchInv, CloseUnderWay, WholeClose, Intact
<1>2. trade \in Restore(lines)
  BY <1>1 DEF JournalInv, SwitchInv, Exact, Accounted
<1>3. \A i \in Whole(lines) : lines[i].filled_at <= f.filled_at
  BY <1>1 DEF JournalInv, SwitchInv, IInv, StampsBehind
<1>4. lines' = Append(lines, f) /\ sealed'
  BY <1>1 DEF AppendClose, AppendOutcomes, WriteClose, LinesAfter, AddText, SealedAfter
<1> HIDE DEF f, trade
<1>5. trade \in At(Restore(lines), Upper[f.asset])
  BY <1>1, <1>2 DEF At
<1>6. InTurn(lines, f)
  BY <1>1, <1>2, <1>3, <1>5 DEF InTurn
<1> QED
  BY <1>4, <1>6 DEF f

\* Whichever process takes a step, the log stays or gains one fill in its turn.
LEMMA OneAppend ==
  ASSUME DaemonStopped, Faults = {}, JournalInv, [SwitchNext]_allVars
  PROVE  UNCHANGED lines \/ AppendsInTurn
<1>1. CASE AppendClose
  BY <1>1, CloseInTurn DEF AppendsInTurn
<1>2. CASE AppendFill
  BY <1>2, AppendInTurn DEF AppendsInTurn, JournalInv, SwitchInv, CrashInv
<1>3. CASE ~ AppendClose /\ ~ AppendFill
  BY <1>3 DEF SwitchNext, Daemon, Next, allVars, vars, disk, Start, Tick, FetchOk, FetchErr,
              PollDone, Observe, DecideHold, OpenVetoed, OpenFilled, CloseFilled, CommitOpen,
              RecordDecision, NextAsset, Crash, CrashInAppend, Flatten, MidErr, MidOk,
              Report, Leave, KilledInAppend
<1> QED
  BY <1>1, <1>2, <1>3

\* The invariant holds before either process has run.
LEMMA JournalInit == SwitchInit => JournalInv
<1> SUFFICES ASSUME SwitchInit PROVE JournalInv
  OBVIOUS
<1>1. SwitchInv
  BY SwitchInitInvariant
<1>2. CrashOnly /\ FillsInv /\ RecordInv /\ Acted
  BY DEF SwitchInit, Init, CrashOnly, FillsInv, CloseUndoes, LogAlternates, ClosesUndoOpens,
         Whole, RecordInv, Recorded, NoRows, Acted
<1>3. Intact /\ WholeClose
  BY DEF SwitchInit, Init, Intact, Whole, WholeClose
<1> QED
  BY <1>1, <1>2, <1>3 DEF JournalInv

\* What flatten simulates closes the whole position.
LEMMA WholeCloseStep ==
  ASSUME DaemonStopped, Faults = {}, JournalInv, [SwitchNext]_allVars
  PROVE  WholeClose'
<1>1. CASE MidOk
  <2>1. PICK trade \in todo, mid \in Mids, now \in Stamps :
            closing' = [trade |-> trade, fill |-> ClosingFill(trade, mid, now)]
    BY <1>1 DEF MidOk
  <2>2. trade \in Position
    BY DEF JournalInv, SwitchInv, SwitchTypeOK
  <2> QED
    BY <2>1, <2>2 DEF WholeClose, ClosingFill, SimulateFill, Flip, Position, Side
<1>2. CASE ~ MidOk
  <2>1. stage' # "write" \/ UNCHANGED <<stage, closing>>
    BY <1>2 DEF SwitchNext, Daemon, Flatten, MidErr, AppendClose, Report, Leave, Gone,
                KilledInAppend, allVars, switchVars
  <2> QED
    BY <2>1 DEF JournalInv, WholeClose
<1> QED
  BY <1>1, <1>2

\* Every step of either process keeps it.
LEMMA JournalNext ==
  ASSUME DaemonStopped, Faults = {}, JournalInv, [SwitchNext]_allVars
  PROVE  JournalInv'
<1>a. /\ SwitchInv /\ IInv /\ CrashInv /\ CrashOnly /\ FillsInv /\ RecordInv /\ Acted
      /\ Intact /\ lines \in Seq(Line)
  BY DEF JournalInv, SwitchInv, CrashInv, IInv, TypeOK
<1>1. SwitchInv'
  BY <1>a, SwitchNextInvariant
<1>2. WholeClose'
  BY WholeCloseStep
<1>3. LogAlternates' /\ ClosesUndoOpens' /\ Whole(lines') = DOMAIN lines'
  <2>1. LogAlternates /\ ClosesUndoOpens /\ Whole(lines) = DOMAIN lines
    BY <1>a DEF FillsInv, Intact
  <2>2. CASE UNCHANGED lines
    BY <2>1, <2>2 DEF LogAlternates, ClosesUndoOpens, Previous
  <2>3. CASE AppendsInTurn
    <3>1. PICK f : InTurn(lines, f) /\ lines' = Append(lines, f)
      BY <2>3 DEF AppendsInTurn
    <3>2. f \in Fill /\ \A i \in Whole(lines) : lines[i].filled_at <= f.filled_at
      BY <3>1 DEF InTurn
    <3>3. Whole(lines') = Whole(lines) \cup {Len(lines) + 1}
      BY <1>a, <3>1, <3>2, PreviousOfAppended
    <3>4. Whole(lines') = DOMAIN lines'
      BY <1>a, <2>1, <3>1, <3>3
    <3> QED
      BY <1>a, <2>1, <3>1, <3>4, InTurnKeeps
  <2> QED
    BY <2>2, <2>3, OneAppend
<1>4. CASE [Next]_vars
  <2>1. CrashOnly' /\ FillsInv' /\ RecordInv' /\ Acted'
    BY <1>a, <1>4, NextCrashOnly, FillsInvariant, RecordInvariant, ActedInvariant
  <2>2. sealed'
    BY <2>1 DEF CrashOnly
  <2> QED
    BY <1>1, <1>2, <1>3, <2>1, <2>2 DEF JournalInv, Intact
<1>5. CASE ~ [Next]_vars
  <2>1. Flatten \/ MidErr \/ MidOk \/ AppendClose \/ Report \/ Leave
    BY <1>5 DEF SwitchNext, Daemon, allVars, vars, KilledInAppend
  <2>2. pc = "down" /\ UNCHANGED <<pc, trail>>
    BY <1>a, <2>1, FlattenSteps
  <2>3. sealed'
    <3>1. CASE AppendClose
      BY <3>1, CloseInTurn
    <3>2. CASE ~ AppendClose
      BY <1>a, <2>1, <3>2 DEF Flatten, MidErr, MidOk, Report, Leave, vars, disk, Intact
    <3> QED
      BY <3>1, <3>2
  <2>4. CrashOnly' /\ FillsInv' /\ RecordInv' /\ Acted'
    BY <1>a, <1>3, <2>2, <2>3
       DEF CrashOnly, FillsInv, CloseUndoes, RecordInv, Recorded, NoRows, Acted
  <2> QED
    BY <1>1, <1>2, <1>3, <2>3, <2>4 DEF JournalInv, Intact
<1> QED
  BY <1>4, <1>5

\* It holds throughout.
THEOREM JournalInvariance ==
  ASSUME DaemonStopped, Faults = {}
  PROVE  SwitchSpec => []JournalInv
<1>1. SwitchInit => JournalInv
  BY JournalInit
<1>2. JournalInv /\ [SwitchNext]_allVars => JournalInv'
  BY JournalNext
<1> QED
  BY <1>1, <1>2, PTL DEF SwitchSpec

-----------------------------------------------------------------------------
(* The journal *)

\* However many flatten runs lie between, complete or cut short, a process
\* resumes where its last run, and flatten after it, left off.
THEOREM JournalResumes ==
  ASSUME DaemonStopped, Faults = {}
  PROVE  SwitchSpec => []RespawnResumes
<1>1. JournalInv => RespawnResumes
  BY Resumes DEF JournalInv, SwitchInv, CrashInv
<1> QED
  BY <1>1, JournalInvariance, PTL

\* The daemon's invariant for a process that only dies survives flatten.
THEOREM JournalKeepsCrashInv ==
  ASSUME DaemonStopped, Faults = {}
  PROVE  SwitchSpec => []CrashInv
<1>1. JournalInv => CrashInv
  BY DEF JournalInv, SwitchInv, CrashInv
<1> QED
  BY <1>1, JournalInvariance, PTL

\* The fills of an asset alternate, whichever process writes them.
THEOREM JournalAlternates ==
  ASSUME DaemonStopped, Faults = {}
  PROVE  SwitchSpec => []LogAlternates
<1>1. JournalInv => LogAlternates
  BY DEF JournalInv, FillsInv
<1> QED
  BY <1>1, JournalInvariance, PTL

\* A Close undoes the Open before it, whichever process writes it.
THEOREM JournalClosesUndo ==
  ASSUME DaemonStopped, Faults = {}
  PROVE  SwitchSpec => []ClosesUndoOpens
<1>1. JournalInv => ClosesUndoOpens
  BY DEF JournalInv, FillsInv
<1> QED
  BY <1>1, JournalInvariance, PTL

\* The record of each finished callback is complete, and what flatten closed
\* in between does not make the daemon churn.
THEOREM JournalRecords ==
  ASSUME DaemonStopped, Faults = {}
  PROVE  SwitchSpec => [](AuditTrail /\ Settled)
<1>1. JournalInv => AuditTrail /\ Settled
  BY DEF JournalInv, RecordInv, Recorded, AuditTrail, Entered, Acted, Quiet, Settled
<1> QED
  BY <1>1, JournalInvariance, PTL

\* The two processes together implement the abstract book of positions: each
\* entry and each exit, the daemon's or flatten's, is one step of it.
THEOREM JournalImplementsBook ==
  ASSUME DaemonStopped, Faults = {}
  PROVE  SwitchSpec => ImplementsBook
<1>1. SwitchInit => Book!BookInit
  BY DEF SwitchInit, Init, Book!BookInit, Restore, Whole
<1>2. JournalInv /\ [SwitchNext]_allVars => [Book!BookNext]_(Restore(lines))
  <2> SUFFICES ASSUME JournalInv, [SwitchNext]_allVars
               PROVE  [Book!BookNext]_(Restore(lines))
    OBVIOUS
  <2>1. CASE UNCHANGED lines
    BY <2>1
  <2>2. CASE AppendsInTurn
    <3>1. PICK f : InTurn(lines, f) /\ lines' = Append(lines, f)
      BY <2>2 DEF AppendsInTurn
    <3>2. lines \in Seq(Line)
      BY DEF JournalInv, SwitchInv, IInv, TypeOK
    <3>3. Book!BookNext
      BY <3>1, <3>2, BookAppend DEF InTurn
    <3> QED
      BY <3>3
  <2> QED
    BY <2>1, <2>2, OneAppend
<1> QED
  BY <1>1, <1>2, JournalInvariance, PTL
     DEF SwitchSpec, ImplementsBook, Book!BookSpec

-----------------------------------------------------------------------------
(* The trades *)

\* The fold of one fill more is the fold and one step.
LEMMA PairsAppended ==
  ASSUME NEW fills \in Seq(Fill), NEW f \in Fill
  PROVE  PairFills(Append(fills, f)) = PairStep(PairFills(fills), f)
<1> DEFINE N == Len(fills)
           more == Append(fills, f)
<1>1. /\ N \in Nat /\ more \in Seq(Fill) /\ Len(more) = N + 1 /\ more[N + 1] = f
      /\ \A n \in 1 .. N : more[n] = fills[n]
  OBVIOUS
<1>2. PICK p \in [0 .. N -> Pairing] :
          /\ p[0] = NothingPaired
          /\ \A n \in 1 .. N : p[n] = PairStep(p[n - 1], fills[n])
          /\ PairFills(fills) = p[N]
  BY Folding
<1> HIDE DEF more
<1>3. PICK q \in [0 .. N + 1 -> Pairing] :
          /\ q[0] = NothingPaired
          /\ \A n \in 1 .. N + 1 : q[n] = PairStep(q[n - 1], more[n])
          /\ PairFills(more) = q[N + 1]
  BY <1>1, Folding
<1> DEFINE S == {n \in Nat : n <= N => q[n] = p[n]}
<1>4. 0 \in S
  BY <1>2, <1>3
<1>5. ASSUME NEW n \in Nat, n \in S PROVE n + 1 \in S
  <2> SUFFICES ASSUME n + 1 <= N PROVE q[n + 1] = p[n + 1]
    OBVIOUS
  <2>1. n + 1 \in 1 .. N /\ n + 1 \in 1 .. N + 1 /\ (n + 1) - 1 = n /\ q[n] = p[n]
    BY <1>1, <1>5
  <2>2. /\ q[n + 1] = PairStep(q[n], more[n + 1])
        /\ p[n + 1] = PairStep(p[n], fills[n + 1])
    BY <1>2, <1>3, <2>1
  <2> QED
    BY <1>1, <2>1, <2>2
<1>6. q[N] = p[N]
  <2> HIDE DEF S, N
  <2>1. N \in S
    BY <1>1, <1>4, <1>5, Induct
  <2> QED
    BY <1>1, <2>1 DEF S
<1>7. q[N + 1] = PairStep(q[N], more[N + 1])
  <2>1. N + 1 \in 1 .. N + 1 /\ (N + 1) - 1 = N
    BY <1>1
  <2> QED
    BY <1>3, <2>1
<1> QED
  BY <1>1, <1>2, <1>3, <1>6, <1>7 DEF more

\* One fill more leaves the closed trades or adds one at their end.
LEMMA ClosedGrow ==
  ASSUME NEW fills \in Seq(Fill), NEW f \in Fill
  PROVE  IsPrefix(ClosedTrades(fills), ClosedTrades(Append(fills, f)))
<1> DEFINE acc == PairFills(fills)
           next == PairStep(acc, f)
<1>1. ClosedTrades(fills) = acc.closed /\ ClosedTrades(Append(fills, f)) = next.closed
  BY PairsAppended DEF ClosedTrades
<1>2. acc \in Pairing
  BY Pairs
<1> HIDE DEF acc
<1>3. acc.closed \in Seq(Trades)
  BY <1>2 DEF Pairing
<1>4. next.closed = acc.closed \/ \E t \in Trades : next.closed = Append(acc.closed, t)
  <2>1. next.closed \in Seq(Trades) /\ f.intent \in {"open", "close"}
    BY <1>2, PairStepIs DEF Pairing, Fill, Intents
  <2>2. CASE f.intent = "close" /\ Upper[f.asset] \in DOMAIN acc.current_open
    <3> DEFINE t == [open |-> acc.current_open[Upper[f.asset]], close |-> f]
    <3>1. next.closed = Append(acc.closed, t)
      BY <1>2, <2>2, PairStepIs
    <3>2. t \in Trades
      BY <1>2, <2>2 DEF Pairing, Current, Trades
    <3> QED
      BY <3>1, <3>2
  <2>3. CASE ~ (f.intent = "close" /\ Upper[f.asset] \in DOMAIN acc.current_open)
    BY <1>2, <2>1, <2>3, PairStepIs
  <2> QED
    BY <2>2, <2>3
<1>5. CASE next.closed = acc.closed
  BY <1>1, <1>3, <1>5 DEF IsPrefix
<1>6. ASSUME NEW t \in Trades, next.closed = Append(acc.closed, t)
      PROVE  IsPrefix(acc.closed, next.closed)
  <2>1. /\ Len(acc.closed) \in Nat /\ Len(next.closed) = Len(acc.closed) + 1
        /\ \A i \in 1 .. Len(acc.closed) : next.closed[i] = acc.closed[i]
    BY <1>3, <1>6
  <2>2. SubSeq(acc.closed, 1, Len(acc.closed)) = SubSeq(next.closed, 1, Len(acc.closed))
    BY <1>3, <1>6, <2>1
  <2> QED
    BY <2>1, <2>2 DEF IsPrefix
<1> QED
  BY <1>1, <1>4, <1>5, <1>6

\* A realized trade is never revised: what either process appends leaves every
\* closed trade where it was.
THEOREM TradesStand ==
  ASSUME DaemonStopped, Faults = {}
  PROVE  SwitchSpec => TradesNeverRevised
<1>1. JournalInv /\ [SwitchNext]_allVars =>
          [lines' # lines => IsPrefix(ClosedTrades(ReadFills(lines)),
                                      ClosedTrades(ReadFills(lines')))]_vars
  <2> SUFFICES ASSUME JournalInv, [SwitchNext]_allVars, lines' # lines
               PROVE  IsPrefix(ClosedTrades(ReadFills(lines)),
                               ClosedTrades(ReadFills(lines')))
    OBVIOUS
  <2>1. PICK f : InTurn(lines, f) /\ lines' = Append(lines, f)
    BY OneAppend DEF AppendsInTurn
  <2>2. lines \in Seq(Line) /\ f \in Fill
    BY <2>1 DEF InTurn, JournalInv, SwitchInv, IInv, TypeOK
  <2>3. ReadFills(lines') = Append(ReadFills(lines), f)
    BY <2>1, <2>2, ReadingAppended DEF InTurn
  <2>4. ReadFills(lines) \in Seq(Fill)
    BY <2>2, Reading
  <2> QED
    BY <2>2, <2>3, <2>4, ClosedGrow
<1> QED
  BY <1>1, JournalInvariance, PTL DEF SwitchSpec, TradesNeverRevised

-----------------------------------------------------------------------------
(* The books *)

\* A figure of each element.
Each(g, s) == [i \in DOMAIN s |-> g[s[i]]]

\* A sum of figures over one element more.
LEMMA SumOneMore ==
  ASSUME NEW S, NEW g \in [S -> Int], NEW s \in Seq(S), NEW x \in S
  PROVE  /\ SumOf(Each(g, s)) \in Int
         /\ SumOf(Each(g, Append(s, x))) = SumOf(Each(g, s)) + g[x]
<1>1. Each(g, s) \in Seq(Int) /\ g[x] \in Int
  BY DEF Each
<1>2. Each(g, Append(s, x)) = Append(Each(g, s), g[x])
  BY DEF Each
<1> QED
  BY <1>1, <1>2, SumType, SumAppended

\* Figures of integers are integers.
LEMMA FigureTypes ==
  /\ \A f \in Fill : Cash(f) \in Int /\ Units(f) \in Int
  /\ \A t \in Trades : RealizedPnl(t) \in Int
  /\ \A f \in Fill, mark \in Int : UnrealizedPnl(f, mark) \in Int
<1>1. \A side, p, q, s : p \in Int /\ q \in Int /\ s \in Int => Gain(side, p, q, s) \in Int
  BY DEF Gain
<1>2. \A f \in Fill : f.price \in Int /\ f.size \in Int
  BY DEF Fill
<1>3. \A t \in Trades : t.open \in Fill /\ t.close \in Fill
  BY DEF Trades
<1> QED
  BY <1>1, <1>2, <1>3 DEF Cash, Units, RealizedPnl, UnrealizedPnl

\* What one fill more adds to the cash and the units of an asset.
LEMMA CashAppended ==
  ASSUME NEW fills \in Seq(Fill), NEW f \in Fill, NEW key
  PROVE  LET more == Append(fills, f)
             own == Upper[f.asset] = key
         IN /\ CashOf(fills, key) \in Int /\ UnitsOf(fills, key) \in Int
            /\ CashOf(more, key) = CashOf(fills, key) + IF own THEN Cash(f) ELSE 0
            /\ UnitsOf(more, key) = UnitsOf(fills, key) + IF own THEN Units(f) ELSE 0
<1> DEFINE cash == [h \in Fill |-> IF Upper[h.asset] = key THEN Cash(h) ELSE 0]
           units == [h \in Fill |-> IF Upper[h.asset] = key THEN Units(h) ELSE 0]
           more == Append(fills, f)
<1>1. cash \in [Fill -> Int] /\ units \in [Fill -> Int]
  BY FigureTypes
<1>2. ASSUME NEW s \in Seq(Fill)
      PROVE  /\ CashOf(s, key) = SumOf(Each(cash, s))
             /\ UnitsOf(s, key) = SumOf(Each(units, s))
  <2>1. \A i \in DOMAIN s : s[i] \in Fill
    OBVIOUS
  <2>2. /\ [i \in DOMAIN s |-> IF Upper[s[i].asset] = key THEN Cash(s[i]) ELSE 0]
               = Each(cash, s)
        /\ [i \in DOMAIN s |-> IF Upper[s[i].asset] = key THEN Units(s[i]) ELSE 0]
               = Each(units, s)
    BY <2>1 DEF Each
  <2> QED
    BY <2>2 DEF CashOf, UnitsOf
<1>3. /\ cash[f] = IF Upper[f.asset] = key THEN Cash(f) ELSE 0
      /\ units[f] = IF Upper[f.asset] = key THEN Units(f) ELSE 0
  OBVIOUS
<1>4. more \in Seq(Fill)
  OBVIOUS
<1> HIDE DEF cash, units
<1>5. /\ CashOf(fills, key) \in Int /\ CashOf(more, key) = CashOf(fills, key) + cash[f]
  <2>1. /\ SumOf(Each(cash, fills)) \in Int
        /\ SumOf(Each(cash, more)) = SumOf(Each(cash, fills)) + cash[f]
    BY <1>1, SumOneMore
  <2> QED
    BY <1>2, <1>4, <2>1
<1>6. /\ UnitsOf(fills, key) \in Int /\ UnitsOf(more, key) = UnitsOf(fills, key) + units[f]
  <2>1. /\ SumOf(Each(units, fills)) \in Int
        /\ SumOf(Each(units, more)) = SumOf(Each(units, fills)) + units[f]
    BY <1>1, SumOneMore
  <2> QED
    BY <1>2, <1>4, <2>1
<1> QED
  BY <1>3, <1>5, <1>6

\* What one closed trade more adds to the realized PnL of an asset.
LEMMA RealizedAppended ==
  ASSUME NEW closed \in Seq(Trades), NEW t \in Trades, NEW key
  PROVE  /\ RealizedOf(closed, key) \in Int
         /\ RealizedOf(Append(closed, t), key)
                = RealizedOf(closed, key)
                      + IF Upper[t.open.asset] = key THEN RealizedPnl(t) ELSE 0
<1> DEFINE pnl == [u \in Trades |-> IF Upper[u.open.asset] = key THEN RealizedPnl(u) ELSE 0]
           more == Append(closed, t)
<1>1. pnl \in [Trades -> Int]
  BY FigureTypes
<1>2. ASSUME NEW s \in Seq(Trades)
      PROVE  RealizedOf(s, key) = SumOf(Each(pnl, s))
  <2>1. \A i \in DOMAIN s : s[i] \in Trades
    OBVIOUS
  <2>2. [i \in DOMAIN s |-> IF Upper[s[i].open.asset] = key THEN RealizedPnl(s[i]) ELSE 0]
            = Each(pnl, s)
    BY <2>1 DEF Each
  <2> QED
    BY <2>2 DEF RealizedOf
<1>3. pnl[t] = IF Upper[t.open.asset] = key THEN RealizedPnl(t) ELSE 0
  OBVIOUS
<1>4. more \in Seq(Trades)
  OBVIOUS
<1> HIDE DEF pnl
<1>5. RealizedOf(closed, key) \in Int /\ RealizedOf(more, key) = RealizedOf(closed, key) + pnl[t]
  <2>1. /\ SumOf(Each(pnl, closed)) \in Int
        /\ SumOf(Each(pnl, more)) = SumOf(Each(pnl, closed)) + pnl[t]
    BY <1>1, SumOneMore
  <2> QED
    BY <1>2, <1>4, <2>1
<1> QED
  BY <1>3, <1>5

\* The map of current opens files each under its own asset.
Filed(open) == \A key \in DOMAIN open : Upper[open[key].asset] = key

\* pair_fills keeps its map so.
LEMMA OpensFiled ==
  ASSUME NEW fills \in Seq(Fill)
  PROVE  Filed(PairFills(fills).current_open)
<1> DEFINE open == PairFills(fills).current_open
           N == Len(fills)
<1>1. Opens(fills, N, open) /\ open \in Current
  BY Pairs DEF Pairing
<1> HIDE DEF open
<1>2. ASSUME NEW key \in DOMAIN open PROVE Upper[open[key].asset] = key
  <2>1. key \in Keys
    BY <1>1 DEF Current
  <2>2. PICK i : i \in OpenUpto(fills, N, key)
    BY <1>1, <2>1 DEF Opens
  <2> QED
    BY <1>1, <2>1, <2>2 DEF Opens, OpenUpto, LastUpto
<1> QED
  BY <1>2 DEF Filed, open

\* The unrealized PnL of an asset, by the map.
UnrealizedIn(open, key, mark) ==
    IF key \in DOMAIN open THEN UnrealizedPnl(open[key], mark) ELSE 0

\* The unrealized gain of an asset is that of the one open trade filed under it.
LEMMA UnrealizedIs ==
  ASSUME NEW open, Filed(open), NEW key, NEW mark
  PROVE  UnrealizedOf(Range(open), key, mark) = UnrealizedIn(open, key, mark)
<1> DEFINE held == {o \in Range(open) : Upper[o.asset] = key}
<1>1. held = IF key \in DOMAIN open THEN {open[key]} ELSE {}
  BY DEF Filed, Range
<1>2. CASE key \in DOMAIN open
  <2>1. held = {open[key]}
    BY <1>1, <1>2
  <2>2. (CHOOSE o \in held : TRUE) = open[key] /\ held # {}
    BY <2>1
  <2> QED
    BY <1>2, <2>2 DEF UnrealizedOf, UnrealizedIn
<1>3. CASE key \notin DOMAIN open
  BY <1>1, <1>3 DEF UnrealizedOf, UnrealizedIn
<1> QED
  BY <1>2, <1>3

\* A fill in its turn opens an asset the map does not have, or closes the whole
\* of what it has.
LEMMA InTurnPairs ==
  ASSUME NEW log \in Seq(Line), NEW f, InTurn(log, f)
  PROVE  LET open == PairFills(ReadFills(log)).current_open
             key == Upper[f.asset]
         IN /\ f.intent = "open" => key \notin DOMAIN open
            /\ f.intent = "close" =>
                   /\ key \in DOMAIN open /\ open[key] \in Fill
                   /\ open[key].size = f.size /\ open[key].side # f.side
<1> DEFINE fills == ReadFills(log)
           open == PairFills(fills).current_open
           key == Upper[f.asset]
<1>1. /\ OpenTrades(fills) \subseteq Fill
      /\ {PositionOf(o) : o \in OpenTrades(fills)} = Restore(log)
  BY OpenIsRestored
<1>2. OpenTrades(fills) = {open[k] : k \in DOMAIN open}
  BY DEF OpenTrades, Range
<1>3. Filed(open)
  BY Reading, OpensFiled
<1> HIDE DEF fills, open, key
<1>4. ASSUME f.intent = "open", key \in DOMAIN open PROVE FALSE
  <2>1. PositionOf(open[key]) \in At(Restore(log), key)
    BY <1>1, <1>2, <1>3, <1>4 DEF At, PositionOf, Filed
  <2> QED
    BY <1>4, <2>1 DEF InTurn, key
<1>5. ASSUME f.intent = "close"
      PROVE  /\ key \in DOMAIN open /\ open[key] \in Fill
             /\ open[key].size = f.size /\ open[key].side # f.side
  <2>1. PICK p \in Restore(log) : p.asset = f.asset /\ p.size = f.size /\ p.side # f.side
    BY <1>5 DEF InTurn
  <2>2. PICK k \in DOMAIN open : p = PositionOf(open[k])
    BY <1>1, <1>2, <2>1
  <2>3. k = key
    BY <1>3, <2>1, <2>2 DEF Filed, PositionOf, key
  <2> QED
    BY <1>1, <1>2, <2>1, <2>2, <2>3 DEF PositionOf
<1> QED
  BY <1>4, <1>5 DEF open, fills, key

\* At an Open the cash paid and the value of the units cancel out; at a Close
\* the gain since the Open is realized, whatever the mark.
LEMMA GainAtOpen ==
  ASSUME NEW f \in Fill, NEW mark \in Int
  PROVE  UnrealizedPnl(f, mark) = Cash(f) + Units(f) * mark
<1>1. f.price \in Int /\ f.size \in Int /\ f.side \in {"long", "short"}
  BY DEF Fill, Side
<1>2. \A p, s \in Int : /\ (p - mark) * s = s * p + (-s) * mark
                        /\ (mark - p) * s = -(s * p) + s * mark
  OBVIOUS
<1> QED
  BY <1>1, <1>2 DEF UnrealizedPnl, Gain, Cash, Units

\* A Close turns the unrealized gain at any mark into cash and units.
LEMMA GainAtClose ==
  ASSUME NEW o \in Fill, NEW f \in Fill, o.size = f.size, o.side # f.side, NEW mark \in Int
  PROVE  RealizedPnl([open |-> o, close |-> f])
             = UnrealizedPnl(o, mark) + Cash(f) + Units(f) * mark
<1>1. /\ o.price \in Int /\ f.price \in Int /\ o.size \in Int
      /\ o.side \in {"long", "short"} /\ f.side \in {"long", "short"}
  BY DEF Fill, Side
<1>2. \A p, q, s \in Int :
          /\ (p - q) * s = (p - mark) * s + (-(s * q)) + s * mark
          /\ (q - p) * s = (mark - p) * s + s * q + (-s) * mark
  OBVIOUS
<1> QED
  BY <1>1, <1>2 DEF RealizedPnl, UnrealizedPnl, Gain, Cash, Units

\* The books of one asset, at one mark.
Balanced(log, key, mark) ==
    LET fills == ReadFills(log)
        paired == PairFills(fills)
    IN RealizedOf(paired.closed, key) + UnrealizedOf(Range(paired.current_open), key, mark)
           = CashOf(fills, key) + UnitsOf(fills, key) * mark

\* A fill in its turn keeps them balanced.
LEMMA BalanceStep ==
  ASSUME NEW log \in Seq(Line), NEW f, InTurn(log, f), NEW key, NEW mark \in Int,
         Balanced(log, key, mark)
  PROVE  Balanced(Append(log, f), key, mark)
<1> DEFINE fills == ReadFills(log)
           more == Append(fills, f)
           acc == PairFills(fills)
           next == PairStep(acc, f)
           open == acc.current_open
           own == Upper[f.asset]
           held == UnrealizedIn(open, key, mark)
           heldNow == UnrealizedIn(next.current_open, key, mark)
           gain == RealizedOf(acc.closed, key)
           gainNow == RealizedOf(next.closed, key)
           cash == CashOf(fills, key)
           units == UnitsOf(fills, key)
           mine == own = key
<1>1. f \in Fill /\ f.intent \in {"open", "close"} /\ fills \in Seq(Fill)
  BY Reading DEF InTurn, Fill, Intents
<1>2. ReadFills(Append(log, f)) = more /\ PairFills(more) = next /\ more \in Seq(Fill)
  BY <1>1, ReadingAppended, PairsAppended DEF InTurn
<1>3. acc \in Pairing /\ acc.closed \in Seq(Trades) /\ open \in Current
  BY <1>1, Pairs DEF Pairing
<1>4. Filed(open) /\ Filed(next.current_open)
  BY <1>1, <1>2, OpensFiled
<1>5. gain + held = cash + units * mark
  BY <1>4, UnrealizedIs DEF Balanced
<1>6. /\ cash \in Int /\ units \in Int
      /\ CashOf(more, key) = cash + IF mine THEN Cash(f) ELSE 0
      /\ UnitsOf(more, key) = units + IF mine THEN Units(f) ELSE 0
  BY <1>1, CashAppended
<1>7. SUFFICES gainNow + heldNow = CashOf(more, key) + UnitsOf(more, key) * mark
  BY <1>2, <1>4, UnrealizedIs DEF Balanced
<1>8. \A u, v \in Int : (u + v) * mark = u * mark + v * mark /\ u * mark \in Int
  OBVIOUS
<1>9. /\ Cash(f) \in Int /\ Units(f) \in Int
      /\ Units(f) * mark \in Int /\ units * mark \in Int
      /\ (units + Units(f)) * mark = units * mark + Units(f) * mark
  <2>1. Cash(f) \in Int /\ Units(f) \in Int
    BY <1>1, FigureTypes
  <2> QED
    BY <1>6, <1>8, <2>1
<1>10. gain \in Int /\ held \in Int
  <2>1. gain \in Int
    <3>1. [open |-> f, close |-> f] \in Trades
      BY <1>1 DEF Trades
    <3> QED
      BY <1>3, <3>1, RealizedAppended
  <2>2. held \in Int
    <3>1. \A k \in DOMAIN open : open[k] \in Fill
      BY <1>3 DEF Current
    <3> QED
      BY <3>1, FigureTypes DEF UnrealizedIn
  <2> QED
    BY <2>1, <2>2
<1>11. gainNow + heldNow
          = gain + held + IF mine THEN Cash(f) + Units(f) * mark ELSE 0
  <2>1. CASE f.intent = "open"
    <3>1. own \notin DOMAIN open
      BY <2>1, InTurnPairs
    <3>2. /\ DOMAIN next.current_open = DOMAIN open \cup {own}
          /\ next.current_open[own] = f
          /\ \A k \in DOMAIN open : k # own => next.current_open[k] = open[k]
          /\ next.closed = acc.closed
      BY <1>1, <1>3, <2>1, PairStepIs
    <3>3. UnrealizedPnl(f, mark) = Cash(f) + Units(f) * mark
      BY <1>1, GainAtOpen
    <3> HIDE DEF open, own, next, acc
    <3>4. CASE mine
      <4>1. held = 0 /\ heldNow = UnrealizedPnl(f, mark)
        BY <3>1, <3>2, <3>4 DEF UnrealizedIn
      <4> QED
        BY <1>9, <1>10, <3>2, <3>3, <3>4, <4>1
    <3>5. CASE ~ mine
      <4>1. heldNow = held
        BY <3>2, <3>5 DEF UnrealizedIn
      <4> QED
        BY <1>10, <3>2, <3>5, <4>1
    <3> QED
      BY <3>4, <3>5
  <2>2. CASE f.intent = "close"
    <3> DEFINE o == open[own]
               t == [open |-> o, close |-> f]
    <3>1. own \in DOMAIN open /\ o \in Fill /\ o.size = f.size /\ o.side # f.side
      BY <2>2, InTurnPairs
    <3>2. /\ DOMAIN next.current_open = DOMAIN open \ {own}
          /\ \A k \in DOMAIN open : k # own => next.current_open[k] = open[k]
          /\ next.closed = Append(acc.closed, t)
      BY <1>1, <1>3, <2>2, <3>1, PairStepIs
    <3>3. RealizedPnl(t) = UnrealizedPnl(o, mark) + Cash(f) + Units(f) * mark
      BY <1>1, <3>1, GainAtClose
    <3>4. t \in Trades /\ Upper[t.open.asset] = own
      BY <1>1, <1>4, <3>1 DEF Trades, Filed
    <3>5. UnrealizedPnl(o, mark) \in Int
      BY <3>1, FigureTypes
    <3> HIDE DEF o
    <3>6. gainNow = gain + IF mine THEN RealizedPnl(t) ELSE 0
      BY <1>3, <3>2, <3>4, RealizedAppended
    <3>7. CASE mine
      <4>1. held = UnrealizedPnl(o, mark) /\ heldNow = 0
        BY <3>1, <3>2, <3>7 DEF UnrealizedIn, o
      <4> HIDE DEF held, heldNow, gain, gainNow
      <4> QED
        BY <1>9, <1>10, <3>3, <3>5, <3>6, <3>7, <4>1
    <3>8. CASE ~ mine
      <4>1. heldNow = held
        BY <3>2, <3>8 DEF UnrealizedIn
      <4> HIDE DEF held, heldNow, gain, gainNow
      <4> QED
        BY <1>10, <3>6, <3>8, <4>1
    <3> QED
      BY <3>7, <3>8
  <2> QED
    BY <1>1, <2>1, <2>2
<1> HIDE DEF held, heldNow, gain, gainNow, cash, units, more
<1>12. CASE mine
  <2>1. UnitsOf(more, key) * mark = units * mark + Units(f) * mark
    BY <1>6, <1>9, <1>12
  <2> QED
    BY <1>5, <1>6, <1>9, <1>10, <1>11, <1>12, <2>1
<1>13. CASE ~ mine
  <2>1. UnitsOf(more, key) = units /\ CashOf(more, key) = cash
    BY <1>6, <1>13
  <2> QED
    BY <1>5, <1>9, <1>10, <1>11, <1>13, <2>1
<1> QED
  BY <1>12, <1>13

\* The books balance of any log the two processes leave behind.
LEMMA BooksByLog ==
  BooksBalance <=> \A key \in Keys, mark \in Mids : Balanced(lines, key, mark)
  BY DEF BooksBalance, Balanced

\* An empty log balances.
LEMMA EmptyBalances ==
  ASSUME lines = <<>>
  PROVE  BooksBalance
<1>1. lines \in Seq(Line) /\ Whole(lines) = {}
  BY DEF Whole
<1>2. ReadFills(lines) = <<>>
  <2>1. Cardinality(Whole(lines)) = 0
    BY <1>1, FS_EmptySet
  <2>2. ReadFills(lines) \in Seq(Fill) /\ Len(ReadFills(lines)) = 0
    BY <1>1, <2>1, Reading
  <2> QED
    BY <2>2
<1>3. PairFills(<<>>) = NothingPaired
  <2>1. <<>> \in Seq(Fill) /\ Len(<<>>) = 0
    OBVIOUS
  <2> QED
    BY <2>1, Folding
<1>4. ASSUME NEW key, NEW mark \in Mids PROVE Balanced(lines, key, mark)
  <2>1. CashOf(<<>>, key) = 0 /\ UnitsOf(<<>>, key) = 0 /\ RealizedOf(<<>>, key) = 0
    BY SumEmpty DEF CashOf, UnitsOf, RealizedOf
  <2>2. UnrealizedOf(Range(<<>>), key, mark) = 0
    BY DEF UnrealizedOf, Range
  <2>3. mark \in Int
    BY DaemonAssumption
  <2> QED
    BY <1>2, <1>3, <2>1, <2>2, <2>3 DEF Balanced, NothingPaired
<1> QED
  BY <1>4, BooksByLog

\* In every asset and at any mark, realized plus unrealized PnL is the cash of
\* the fills on disk plus the marked value of what they add up to.
THEOREM BooksAlwaysBalance ==
  ASSUME DaemonStopped, Faults = {}
  PROVE  SwitchSpec => []BooksBalance
<1>1. SwitchInit => BooksBalance
  BY EmptyBalances DEF SwitchInit, Init
<1>2. JournalInv /\ BooksBalance /\ [SwitchNext]_allVars => BooksBalance'
  <2> SUFFICES ASSUME JournalInv, BooksBalance, [SwitchNext]_allVars
               PROVE  BooksBalance'
    OBVIOUS
  <2>1. CASE UNCHANGED lines
    BY <2>1 DEF BooksBalance
  <2>2. CASE AppendsInTurn
    <3>1. PICK f : InTurn(lines, f) /\ lines' = Append(lines, f)
      BY <2>2 DEF AppendsInTurn
    <3>2. lines \in Seq(Line) /\ Mids \subseteq Int
      BY DaemonAssumption DEF JournalInv, SwitchInv, IInv, TypeOK
    <3>3. \A key \in Keys, mark \in Mids : Balanced(lines', key, mark)
      BY <3>1, <3>2, BooksByLog, BalanceStep
    <3> QED
      BY <3>3 DEF BooksBalance, Balanced
  <2> QED
    BY <2>1, <2>2, OneAppend
<1> QED
  BY <1>1, <1>2, JournalInvariance, PTL DEF SwitchSpec

=============================================================================
