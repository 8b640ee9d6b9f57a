---------------------------- MODULE JournalProofs ----------------------------
(***************************************************************************)
(* What a process that only dies leaves in its logs: fills that alternate, *)
(* closes that undo their opens across respawns, and a complete record of  *)
(* every callback that returned.                                           *)
(***************************************************************************)
EXTENDS TradingDaemonProofs

-----------------------------------------------------------------------------
(* The fill before a fill *)

\* Previous, of any log.
PreviousIn(log, j) ==
    LET earlier == {i \in Whole(log) : SameAsset(log[i].asset, log[j].asset)
                                          /\ Before(log, i, j)}
    IN {i \in earlier : \A m \in earlier \ {i} : Before(log, m, i)}

\* A fill stamped no earlier than the log changes nobody's predecessor, and
\* its own is the last line of its asset.
LEMMA PreviousOfAppended ==
  ASSUME NEW log \in Seq(Line), NEW f \in Fill,
         \A i \in Whole(log) : log[i].filled_at <= f.filled_at
  PROVE  LET new == Append(log, f)
             n == Len(log) + 1
         IN /\ Whole(new) = Whole(log) \cup {n} /\ new[n] = f
            /\ \A j \in Whole(log) :
                   new[j] = log[j] /\ PreviousIn(new, j) = PreviousIn(log, j)
            /\ PreviousIn(new, n) = Latest(log, Upper[f.asset])
            /\ \A i \in Latest(log, Upper[f.asset]) : new[i] = log[i]
<1> DEFINE new == Append(log, f)
           n == Len(log) + 1
<1>1. n \in Int /\ new[n] = f /\ \A i \in 1 .. Len(log) : new[i] = log[i]
  OBVIOUS
<1>2. Whole(new) = Whole(log) \cup {n}
  BY TornAssumption DEF Whole
<1>3. ASSUME NEW i \in Whole(log)
      PROVE  i \in Int /\ i < n /\ new[i] = log[i] /\ log[i].filled_at \in Int
  BY <1>1, WholeLine DEF Fill
<1>4. f.filled_at \in Int
  BY DEF Fill
<1> HIDE DEF new, n
<1>5. \A i \in Whole(log) : Before(new, i, n) /\ ~ Before(new, n, i)
  BY <1>1, <1>3, <1>4 DEF Before
<1>6. \A i, j \in Whole(log) : Before(new, i, j) <=> Before(log, i, j)
  BY <1>3 DEF Before
<1>7. ASSUME NEW j \in Whole(log)
      PROVE  PreviousIn(new, j) = PreviousIn(log, j)
  <2> DEFINE earlier == {i \in Whole(log) : SameAsset(log[i].asset, log[j].asset)
                                               /\ Before(log, i, j)}
  <2>1. {i \in Whole(new) : SameAsset(new[i].asset, new[j].asset) /\ Before(new, i, j)}
            = earlier
    BY <1>2, <1>3, <1>5, <1>6
  <2>2. \A i, m \in earlier : Before(new, m, i) <=> Before(log, m, i)
    BY <1>6
  <2> QED
    BY <2>1, <2>2 DEF PreviousIn
<1>8. PreviousIn(new, n) = Latest(log, Upper[f.asset])
  <2> DEFINE key == Upper[f.asset]
  <2>1. ~ Before(new, n, n)
    BY <1>1, <1>4 DEF Before
  <2>2. {i \in Whole(new) : SameAsset(new[i].asset, new[n].asset) /\ Before(new, i, n)}
            = LinesOf(log, key)
    BY <1>1, <1>2, <1>3, <1>5, <2>1 DEF LinesOf, SameAsset
  <2>3. \A i, m \in LinesOf(log, key) : Before(new, m, i) <=> Before(log, m, i)
    BY <1>6 DEF LinesOf
  <2>4. \A i \in LinesOf(log, key) :
            LatestOfAsset(log, i) <=>
                \A m \in LinesOf(log, key) \ {i} : Before(log, m, i)
    BY DEF LinesOf, LatestOfAsset, SameAsset
  <2> QED
    BY <2>2, <2>3, <2>4 DEF PreviousIn, Latest
<1>9. \A i \in Latest(log, Upper[f.asset]) : new[i] = log[i]
  BY <1>3 DEF Latest, LinesOf
<1> QED
  BY <1>1, <1>2, <1>3, <1>7, <1>8, <1>9 DEF new, n

-----------------------------------------------------------------------------
(* The fills *)

\* A Close under way undoes what the log restores.
CloseUndoes ==
    pc = "append" /\ fill.intent = "close" =>
        \E p \in Restore(lines) :
            p.asset = fill.asset /\ p.size = fill.size /\ p.side # fill.side

FillsInv == Faults = {} => CloseUndoes /\ LogAlternates /\ ClosesUndoOpens

\* The two properties of the log, line by line.
AlternatesAt(log, j) ==
    log[j].intent = "open" <=> \A i \in PreviousIn(log, j) : log[i].intent = "close"

UndoesAt(log, j) ==
    log[j].intent = "close" =>
        \E i \in PreviousIn(log, j) :
            /\ log[i].intent = "open" /\ log[j].asset = log[i].asset
            /\ log[j].size = log[i].size /\ log[j].side # log[i].side

\* Both properties are about one line at a time.
LEMMA LineByLine ==
  /\ LogAlternates <=> \A j \in Whole(lines) : AlternatesAt(lines, j)
  /\ ClosesUndoOpens <=> \A j \in Whole(lines) : UndoesAt(lines, j)
  BY DEF LogAlternates, ClosesUndoOpens, AlternatesAt, UndoesAt, Previous, PreviousIn

\* An earlier line has its predecessors and itself unchanged.
LEMMA EarlierLines ==
  ASSUME NEW log \in Seq(Line), NEW f \in Fill, NEW j \in Whole(log),
         \A i \in Whole(log) : log[i].filled_at <= f.filled_at
  PROVE  /\ AlternatesAt(Append(log, f), j) <=> AlternatesAt(log, j)
         /\ UndoesAt(Append(log, f), j) <=> UndoesAt(log, j)
<1> DEFINE new == Append(log, f)
<1>1. /\ \A i \in Whole(log) : new[i] = log[i]
      /\ PreviousIn(new, j) = PreviousIn(log, j)
  BY PreviousOfAppended
<1>2. PreviousIn(log, j) \subseteq Whole(log)
  BY DEF PreviousIn
<1> HIDE DEF new
<1>3. /\ AlternatesAt(new, j) <=> AlternatesAt(log, j)
      /\ UndoesAt(new, j) <=> UndoesAt(log, j)
  BY <1>1, <1>2 DEF AlternatesAt, UndoesAt
<1> QED
  BY <1>3 DEF new

\* A fill in its turn: stamped no earlier than the log, an Open of an asset the
\* log is flat in or a Close that undoes what it restores.
InTurn(log, f) ==
    /\ f \in Fill
    /\ \A i \in Whole(log) : log[i].filled_at <= f.filled_at
    /\ f.intent = "open" <=> At(Restore(log), Upper[f.asset]) = {}
    /\ f.intent = "close" =>
           \E p \in Restore(log) :
               p.asset = f.asset /\ p.size = f.size /\ p.side # f.side

\* Appended, it alternates with the fill before it, and undoes it.
LEMMA AppendKeepsOrder ==
  ASSUME NEW log \in Seq(Line), NEW f, InTurn(log, f),
         \A j \in Whole(log) : AlternatesAt(log, j) /\ UndoesAt(log, j)
  PROVE  LET new == Append(log, f)
         IN \A j \in Whole(new) : AlternatesAt(new, j) /\ UndoesAt(new, j)
<1> DEFINE new == Append(log, f)
           n == Len(log) + 1
           key == Upper[f.asset]
<1>1. /\ f \in Fill
      /\ \A i \in Whole(log) : log[i].filled_at <= f.filled_at
      /\ f.intent = "open" <=> At(Restore(log), key) = {}
  BY DEF InTurn
<1>2. /\ Whole(new) = Whole(log) \cup {n} /\ new[n] = f
      /\ PreviousIn(new, n) = Latest(log, key)
      /\ \A i \in Latest(log, key) : new[i] = log[i]
  BY <1>1, PreviousOfAppended
<1>3. At(Restore(log), key) =
          {PositionOf(log[i]) : i \in {j \in Latest(log, key) : log[j].intent = "open"}}
  BY AtLatest
<1>4. \A i \in Latest(log, key) : log[i].intent \in {"open", "close"}
  BY WholeLine DEF Latest, LinesOf, Fill, Intents
<1>5. \A j \in Whole(log) : AlternatesAt(new, j) /\ UndoesAt(new, j)
  BY <1>1, EarlierLines
<1> HIDE DEF new, n
<1>6. AlternatesAt(new, n)
  <2>1. At(Restore(log), key) = {} <=> \A i \in Latest(log, key) : log[i].intent = "close"
    BY <1>3, <1>4
  <2> QED
    BY <1>1, <1>2, <2>1 DEF AlternatesAt
<1>7. UndoesAt(new, n)
  <2> SUFFICES ASSUME f.intent = "close"
               PROVE  \E i \in Latest(log, key) :
                          /\ log[i].intent = "open" /\ f.asset = log[i].asset
                          /\ f.size = log[i].size /\ f.side # log[i].side
    BY <1>2 DEF UndoesAt
  <2>1. PICK p \in Restore(log) : p.asset = f.asset /\ p.size = f.size /\ p.side # f.side
    BY DEF InTurn
  <2>2. p \in At(Restore(log), key)
    BY <2>1 DEF At
  <2>3. PICK i \in Latest(log, key) : log[i].intent = "open" /\ p = PositionOf(log[i])
    BY <1>3, <2>2
  <2> QED
    BY <2>1, <2>3 DEF PositionOf
<1> QED
  BY <1>2, <1>5, <1>6, <1>7 DEF new

\* The daemon appends a fill in its turn.
LEMMA AppendInTurn ==
  ASSUME CrashInv, FillsInv, Faults = {}, AppendFill
  PROVE  lines' = Append(lines, fill) /\ InTurn(lines, fill)
<1>1. /\ lines \in Seq(Line) /\ sealed /\ fill \in Fill /\ pc = "append"
      /\ \A i \in Whole(lines) : lines[i].filled_at <= fill.filled_at
      /\ fill.intent = "open" <=> At(Restore(lines), Upper[fill.asset]) = {}
  BY DEF AppendFill, CrashInv, CrashOnly, IInv, TypeOK, FillUnderWay, StampsBehind
<1>2. lines' = Append(lines, fill)
  BY <1>1, CleanAppend
<1>3. CloseUndoes
  BY DEF FillsInv
<1> QED
  BY <1>1, <1>2, <1>3 DEF InTurn, CloseUndoes

\* Either process keeps the two properties by appending in turn.
LEMMA InTurnKeeps ==
  ASSUME lines \in Seq(Line), LogAlternates, ClosesUndoOpens,
         NEW f, InTurn(lines, f), lines' = Append(lines, f)
  PROVE  LogAlternates' /\ ClosesUndoOpens'
<1>1. \A j \in Whole(lines) : AlternatesAt(lines, j) /\ UndoesAt(lines, j)
  BY LineByLine
<1>2. \A j \in Whole(lines') : AlternatesAt(lines', j) /\ UndoesAt(lines', j)
  BY <1>1, AppendKeepsOrder
<1>3. /\ LogAlternates' <=> \A j \in Whole(lines') : AlternatesAt(lines', j)
      /\ ClosesUndoOpens' <=> \A j \in Whole(lines') : UndoesAt(lines', j)
  BY DEF LogAlternates, ClosesUndoOpens, AlternatesAt, UndoesAt, Previous, PreviousIn
<1> QED
  BY <1>2, <1>3

\* The Close that is about to be written.
LEMMA CloseWillUndo ==
  ASSUME CrashInv, Faults = {}, CloseFilled
  PROVE  CloseUndoes'
<1> DEFINE pos == PositionFor(portfolio, snapshot.asset)
<1>1. /\ pc = "decide" /\ Verdict.kind = "close" /\ UNCHANGED lines
      /\ fill'.asset = pos.asset /\ fill'.side = Flip(pos.side) /\ fill'.size = pos.size
  BY DEF CloseFilled, disk, SimulateFill
<1>2. pos \in portfolio /\ pos \in Position
  BY <1>1, CloseIsHeld DEF CrashInv, IInv, TypeOK
<1> HIDE DEF pos
<1>3. Upper[pos.asset] \in Keys /\ pos \in At(portfolio, Upper[pos.asset])
  BY <1>2, KeyOfAsset DEF At, Position
<1>4. \A key \in Keys : At(portfolio, key) = At(Restore(lines), key)
  BY <1>1, CleanAgreement DEF CrashInv
<1>5. pos \in Restore(lines)
  BY <1>3, <1>4 DEF At
<1>6. pos.side # Flip(pos.side)
  BY <1>2 DEF Position, Side, Flip
<1> QED
  BY <1>1, <1>5, <1>6 DEF CloseUndoes

\* Every step of the daemon keeps the account of the fills.
LEMMA FillsInvariant == CrashInv /\ FillsInv /\ [Next]_vars => FillsInv'
<1> SUFFICES ASSUME CrashInv, FillsInv, [Next]_vars, Faults = {} PROVE FillsInv'
  BY DEF FillsInv
<1>a. CloseUndoes /\ LogAlternates /\ ClosesUndoOpens
  BY DEF FillsInv
<1>b. ASSUME UNCHANGED lines PROVE LogAlternates' /\ ClosesUndoOpens'
  BY <1>a, <1>b DEF LogAlternates, ClosesUndoOpens, Previous
<1>1. CASE AppendFill
  <2>1. LogAlternates' /\ ClosesUndoOpens'
    BY <1>1, <1>a, AppendInTurn, InTurnKeeps DEF CrashInv, IInv, TypeOK
  <2>2. pc' # "append"
    BY <1>1 DEF AppendFill
  <2> QED
    BY <2>1, <2>2 DEF FillsInv, CloseUndoes
<1>2. CASE CloseFilled
  BY <1>2, <1>b, CloseWillUndo DEF CloseFilled, disk, FillsInv
<1>3. CASE OpenFilled
  <2>1. UNCHANGED lines /\ fill'.intent = "open"
    BY <1>3 DEF OpenFilled, disk, SimulateFill
  <2> QED
    BY <1>b, <2>1 DEF FillsInv, CloseUndoes
<1>4. CASE UNCHANGED vars
  BY <1>4, <1>a, <1>b DEF vars, FillsInv, CloseUndoes
<1>5. CASE \/ Start \/ Tick \/ FetchOk \/ FetchErr \/ PollDone \/ Observe \/ DecideHold
           \/ OpenVetoed \/ CommitOpen \/ RecordDecision \/ NextAsset \/ Crash
  <2>1. UNCHANGED lines /\ pc' # "append"
    BY <1>5 DEF Start, Tick, FetchOk, FetchErr, PollDone, Observe, DecideHold, OpenVetoed,
                CommitOpen, RecordDecision, NextAsset, Crash, Die, disk
  <2> QED
    BY <1>b, <2>1 DEF FillsInv, CloseUndoes
<1>6. CASE CrashInAppend
  BY <1>6 DEF CrashInAppend
<1> QED
  BY <1>1, <1>2, <1>3, <1>4, <1>5, <1>6 DEF Next

\* It holds throughout.
LEMMA FillsInvariance == Spec => []FillsInv
<1>1. Init => FillsInv
  BY DEF Init, FillsInv, CloseUndoes, LogAlternates, ClosesUndoOpens, Whole
<1>2. CrashInv /\ FillsInv /\ [Next]_vars => FillsInv'
  BY FillsInvariant
<1> QED
  BY <1>1, <1>2, CrashInvariance, PTL DEF Spec

\* In the fills of a process that only dies, an asset's Opens and Closes
\* alternate, however many respawns lie between them.
THEOREM FillsAlternate ==
  ASSUME Faults = {}
  PROVE  Spec => []LogAlternates
<1>1. FillsInv => LogAlternates
  BY DEF FillsInv
<1> QED
  BY <1>1, FillsInvariance, PTL

\* And each Close undoes the Open before it: spelling, size and side.
THEOREM ClosesMatchOpens ==
  ASSUME Faults = {}
  PROVE  Spec => []ClosesUndoOpens
<1>1. FillsInv => ClosesUndoOpens
  BY DEF FillsInv
<1> QED
  BY <1>1, FillsInvariance, PTL

-----------------------------------------------------------------------------
(* The record of a callback *)

\* Why an entry was filled, or was not.
Entered == snapshot.mid > 0 /\ ~ GateRefuses(decision.side)

\* Which rows are on disk at each point of the callback.
Recorded ==
    /\ pc \in {"decide", "append", "commit", "record", "next"} => trail.observation
    /\ pc \in {"wait", "fetch", "observe", "decide", "append"} => ~ trail.fill
    /\ pc \in {"append", "commit"} =>
           decision.kind = fill.intent /\ (decision.kind = "open" => Entered)
    /\ pc = "commit" => trail.fill
    /\ pc \in {"record", "next"} =>
           /\ decision.kind = "hold" => ~ trail.fill
           /\ decision.kind = "close" => trail.fill
           /\ decision.kind = "open" => (trail.fill <=> Entered)
    /\ pc = "next" => trail.decision

RecordInv == Faults = {} => Recorded /\ (pc = "down" => trail = NoRows)

\* Every step of the daemon keeps the account of the rows.
LEMMA RecordInvariant == IInv /\ RecordInv /\ [Next]_vars => RecordInv'
<1> SUFFICES ASSUME IInv, RecordInv, [Next]_vars, Faults = {} PROVE RecordInv'
  BY DEF RecordInv
<1>a. /\ Recorded /\ (pc = "down" => trail = NoRows) /\ trail \in Trail
      /\ pc = "commit" => fill.intent = "open"
      /\ pc = "append" => fill.intent \in {"open", "close"}
  BY DEF RecordInv, IInv, TypeOK, FillUnderWay, Fill, Intents
<1>b. \A ok \in WriteResults : ok = TRUE
  BY DEF WriteResults
<1>1. CASE \/ Start \/ Tick \/ FetchOk \/ FetchErr \/ PollDone
  <2>1. /\ pc' \in {"wait", "fetch", "observe"} /\ trail' = trail
        /\ pc \in {"down", "wait", "fetch"}
    BY <1>1, <1>a DEF Start, Tick, FetchOk, FetchErr, PollDone
  <2>2. ~ trail.fill
    BY <1>a, <2>1 DEF Recorded, NoRows
  <2> QED
    BY <2>1, <2>2 DEF RecordInv, Recorded
<1>2. CASE Observe
  <2>1. /\ pc = "observe" /\ pc' = "decide"
        /\ trail' = [trail EXCEPT !.observation = TRUE]
    BY <1>2, <1>b DEF Observe
  <2>2. trail'.observation /\ ~ trail'.fill
    BY <1>a, <2>1 DEF Recorded, Trail
  <2> QED
    BY <2>1, <2>2 DEF RecordInv, Recorded
<1>3. CASE DecideHold \/ OpenVetoed
  <2>1. /\ pc = "decide" /\ pc' = "record" /\ trail' = trail
        /\ UNCHANGED <<snapshot, min_liq_buffer>>
        /\ \/ decision'.kind = "hold"
           \/ /\ decision'.kind = "open"
              /\ snapshot.mid <= 0 \/ GateRefuses(decision'.side)
    BY <1>3 DEF DecideHold, OpenVetoed
  <2>2. trail.observation /\ ~ trail.fill
    BY <1>a, <2>1 DEF Recorded
  <2>3. decision'.kind = "open" => ~ Entered'
    <3> SUFFICES ASSUME decision'.kind = "open" PROVE ~ Entered'
      OBVIOUS
    <3>1. snapshot \in Snapshot
      BY <2>1 DEF IInv, FillUnderWay
    <3>2. snapshot.mid \in Int
      BY <3>1 DEF Snapshot
    <3> QED
      BY <2>1, <3>2 DEF Entered, GateRefuses
  <2> QED
    BY <2>1, <2>2, <2>3 DEF RecordInv, Recorded
<1>4. CASE OpenFilled \/ CloseFilled
  <2>1. /\ pc = "decide" /\ pc' = "append" /\ trail' = trail
        /\ UNCHANGED <<snapshot, min_liq_buffer>> /\ decision' = Verdict
        /\ \/ /\ decision'.kind = "open" /\ fill'.intent = "open"
              /\ snapshot.mid > 0 /\ ~ GateRefuses(decision'.side)
           \/ decision'.kind = "close" /\ fill'.intent = "close"
    BY <1>4 DEF OpenFilled, CloseFilled, SimulateFill
  <2>2. trail.observation /\ ~ trail.fill
    BY <1>a, <2>1 DEF Recorded
  <2>3. decision'.kind = "open" => Entered'
    BY <2>1 DEF Entered, GateRefuses
  <2> QED
    BY <2>1, <2>2, <2>3 DEF RecordInv, Recorded
<1>5. CASE AppendFill
  <2>1. /\ pc = "append" /\ trail' = [trail EXCEPT !.fill = TRUE]
        /\ pc' = IF fill.intent = "open" THEN "commit" ELSE "record"
        /\ UNCHANGED <<snapshot, decision, fill, min_liq_buffer>>
    BY <1>5 DEF AppendFill, AppendOutcomes
  <2>2. trail'.fill /\ trail'.observation
    BY <1>a, <2>1 DEF Recorded, Trail
  <2>3. decision.kind = fill.intent /\ (decision.kind = "open" => Entered)
    BY <1>a, <2>1 DEF Recorded
  <2>4. Entered' <=> Entered
    BY <2>1 DEF Entered, GateRefuses
  <2> QED
    BY <1>a, <2>1, <2>2, <2>3, <2>4 DEF RecordInv, Recorded
<1>6. CASE CommitOpen
  <2>1. /\ pc = "commit" /\ pc' = "record"
        /\ UNCHANGED <<snapshot, decision, fill, trail, min_liq_buffer>>
    BY <1>6 DEF CommitOpen
  <2>2. Entered' <=> Entered
    BY <2>1 DEF Entered, GateRefuses
  <2> QED
    BY <1>a, <2>1, <2>2 DEF RecordInv, Recorded
<1>7. CASE RecordDecision
  <2>1. /\ pc = "record" /\ pc' = "next" /\ trail' = [trail EXCEPT !.decision = TRUE]
        /\ UNCHANGED <<snapshot, decision, min_liq_buffer>>
    BY <1>7, <1>b DEF RecordDecision
  <2>2. /\ trail'.decision /\ trail'.observation = trail.observation
        /\ trail'.fill = trail.fill
    BY <1>a, <2>1 DEF Trail
  <2>3. Entered' <=> Entered
    BY <2>1 DEF Entered, GateRefuses
  <2> QED
    BY <1>a, <2>1, <2>2, <2>3 DEF RecordInv, Recorded
<1>8. CASE NextAsset \/ Crash \/ CrashInAppend
  <2>1. pc' \in {"fetch", "down"} /\ trail' = NoRows
    BY <1>8 DEF NextAsset, Crash, CrashInAppend, Die
  <2> QED
    BY <2>1 DEF RecordInv, Recorded, NoRows
<1>9. CASE UNCHANGED vars
  <2>1. Entered' <=> Entered
    BY <1>9 DEF vars, Entered, GateRefuses
  <2> QED
    BY <1>9, <1>a, <2>1 DEF vars, RecordInv, Recorded
<1> QED
  BY <1>1, <1>2, <1>3, <1>4, <1>5, <1>6, <1>7, <1>8, <1>9 DEF Next

\* Every callback that returned has its observation and its decision on disk,
\* and a fill exactly when it traded.
THEOREM RecordIsComplete ==
  ASSUME Faults = {}
  PROVE  Spec => []AuditTrail
<1>1. Init => RecordInv
  BY DEF Init, RecordInv, Recorded, NoRows
<1>2. IInv /\ RecordInv /\ [Next]_vars => RecordInv'
  BY RecordInvariant
<1>3. RecordInv => AuditTrail
  BY DEF RecordInv, Recorded, AuditTrail, Entered
<1> QED
  BY <1>1, <1>2, <1>3, Invariance, PTL DEF Spec

=============================================================================
