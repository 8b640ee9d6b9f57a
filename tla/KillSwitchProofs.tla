-------------------------- MODULE KillSwitchProofs --------------------------
(***************************************************************************)
(* Proofs about KillSwitch.  First for a user who unloads the daemon: its  *)
(* invariant survives any number of flatten runs, complete or cut short,   *)
(* and what flatten reports of them is what is on disk.  Then beside a     *)
(* running daemon, where what flatten read may be stale when it writes.    *)
(*                                                                         *)
(* A daemon step keeps its invariant by NextInvariant and leaves the       *)
(* flatten process alone; a flatten step happens only while the daemon is  *)
(* down, so it has to be shown harmless to the log and the history alone.  *)
(***************************************************************************)
EXTENDS KillSwitch, TradingDaemonProofs, FiniteSetTheorems

-----------------------------------------------------------------------------
(* Operators *)

\* The Close of a position is a fill.
LEMMA ClosingFillType ==
  ASSUME NEW trade \in Position, NEW mid \in Mids, NEW now \in Nat
  PROVE  /\ ClosingFill(trade, mid, now) \in Fill
         /\ ClosingFill(trade, mid, now).asset = trade.asset
         /\ ClosingFill(trade, mid, now).intent = "close"
         /\ ClosingFill(trade, mid, now).filled_at = now
  BY DaemonAssumption DEF ClosingFill, SimulateFill, Fill, Position, Flip, Side, Intents

\* A log restores finitely many positions.
LEMMA RestoreFinite ==
  ASSUME NEW log \in Seq(Line)
  PROVE  IsFiniteSet(Restore(log))
<1> DEFINE Last == {j \in Whole(log) : log[j].intent = "open" /\ LatestOfAsset(log, j)}
<1>1. Last \subseteq 1 .. Len(log)
  BY DEF Whole
<1>2. IsFiniteSet(1 .. Len(log))
  BY FS_Interval
<1>3. IsFiniteSet(Last)
  BY <1>1, <1>2, FS_Subset
<1> DEFINE T == {PositionOf(log[i]) : i \in Last}
           f == [i \in Last |-> PositionOf(log[i])]
<1>4. f \in Surjection(Last, T)
  <2> HIDE DEF Last
  <2> QED
    BY DEF Surjection
<1>5. IsFiniteSet(T)
  <2> HIDE DEF Last, T, f
  <2> QED
    BY <1>3, <1>4, FS_Surjection
<1> QED
  BY <1>5 DEF Restore

\* Every outcome of an append is one that FillsLog knows.
LEMMA OutcomeType == AppendOutcomes \subseteq Outcomes
  BY DEF AppendOutcomes, Outcomes

-----------------------------------------------------------------------------
(* The daemon's invariant *)

\* Appending a Close while the daemon is down keeps the daemon's invariant.
LEMMA WriteCloseStep ==
  ASSUME IInv, pc = "down", NEW outcome \in Outcomes, WriteClose(outcome),
         closing.fill \in Fill, closing.fill.filled_at = clock,
         closing.fill.asset = closing.trade.asset
  PROVE  IInv'
<1> DEFINE key0 == Upper[closing.fill.asset]
<1>1. /\ lines' = LinesAfter(lines, sealed, closing.fill, outcome)
      /\ sealed' = SealedAfter(sealed, outcome)
      /\ suspect' = suspect \cup {key0}
      /\ UNCHANGED <<portfolio, pc, queue, snapshot, decision, fill, trail,
                     min_liq_buffer, clock>>
  BY DEF WriteClose, DaemonUntouched
<1>2. /\ lines \in Seq(Line) /\ sealed \in BOOLEAN /\ suspect \in SUBSET Keys
      /\ clock \in Nat
      /\ ~ sealed => lines # <<>>
      /\ TailKeys(lines, sealed) \subseteq suspect
  BY DEF IInv, TypeOK, TailSuspect
<1>3. key0 \in Keys
  BY KeyOfAsset DEF Fill
<1>4. /\ lines' \in Seq(Line) /\ sealed' \in BOOLEAN
      /\ ~ sealed' => lines' # <<>>
  BY <1>1, <1>2, LinesAfterType
<1>5. TypeOK' /\ OnePerAsset' /\ FillUnderWay'
  <2>1. TypeOK'
    BY <1>1, <1>2, <1>3, <1>4 DEF IInv, TypeOK
  <2>2. OnePerAsset'
    BY <1>1 DEF IInv, OnePerAsset
  <2>3. FillUnderWay'
    BY <1>1 DEF FillUnderWay
  <2> QED
    BY <2>1, <2>2, <2>3
<1>6. TailSuspect'
  <2>1. TailKeys(lines', sealed') \subseteq TailKeys(lines, sealed) \cup {key0}
    BY <1>1, <1>2, AppendTail
  <2> QED
    BY <1>1, <1>2, <1>4, <2>1 DEF TailSuspect
<1>7. StampsBehind'
  <2> SUFFICES ASSUME "clock" \notin Faults
               PROVE  \A i \in Whole(lines') : lines'[i].filled_at <= clock
    BY <1>1 DEF StampsBehind
  <2>1. \A i \in Whole(lines) : lines[i].filled_at <= clock
    BY DEF IInv, StampsBehind
  <2>2. closing.fill.filled_at <= clock
    BY <1>2
  <2> QED
    BY <1>1, <1>2, <2>1, <2>2, AppendStamps
<1>8. Contained'
  <2> SUFFICES ASSUME "clock" \notin Faults, NEW key \in Keys \ suspect'
               PROVE  At(portfolio', key) = At(Restore(lines'), key)
    BY DEF Contained, DamageContained
  <2>1. key # key0 /\ key \notin suspect /\ key \notin InFlight
    BY <1>1 DEF InFlight
  <2>2. key \notin TailKeys(lines, sealed)
    BY <1>2, <2>1
  <2>3. At(Restore(lines'), key) = At(Restore(lines), key)
    BY <1>1, <1>2, <2>1, <2>2, AppendElsewhere
  <2>4. At(portfolio, key) = At(Restore(lines), key)
    BY <2>1 DEF IInv, Contained, DamageContained
  <2> QED
    BY <1>1, <2>3, <2>4
<1> QED
  BY <1>5, <1>6, <1>7, <1>8 DEF IInv

\* Only the clock moves when a Close is simulated.
LEMMA ClockStep ==
  ASSUME IInv, pc = "down", NEW now \in Stamps, clock' = now,
         UNCHANGED <<lines, sealed, suspect>>, DaemonUntouched
  PROVE  IInv'
<1>1. UNCHANGED <<lines, sealed, suspect, portfolio, pc, queue, snapshot, decision,
                  fill, trail, min_liq_buffer>>
  BY DEF DaemonUntouched
<1>2. clock' \in Nat /\ ("clock" \notin Faults => clock <= clock')
  BY StampsType DEF IInv, TypeOK
<1>3. TypeOK' /\ OnePerAsset' /\ TailSuspect' /\ FillUnderWay'
  BY <1>1, <1>2 DEF IInv, TypeOK, OnePerAsset, TailSuspect, FillUnderWay
<1>4. StampsBehind'
  <2> SUFFICES ASSUME "clock" \notin Faults, NEW i \in Whole(lines)
               PROVE  lines[i].filled_at <= clock'
    BY <1>1 DEF StampsBehind
  <2>1. lines[i].filled_at <= clock /\ lines[i].filled_at \in Int
    BY WholeLine DEF IInv, TypeOK, StampsBehind, Fill
  <2> QED
    BY <1>2, <2>1 DEF IInv, TypeOK
<1>5. Contained'
  BY <1>1 DEF IInv, Contained, DamageContained, InFlight
<1> QED
  BY <1>3, <1>4, <1>5 DEF IInv

-----------------------------------------------------------------------------
(* Flatten's account of the log *)

\* An append leaves an intact log only if it was Ok or refused, on an intact log.
LEMMA IntactBefore ==
  ASSUME lines \in Seq(Line), sealed \in BOOLEAN, ~ sealed => lines # <<>>,
         NEW f \in Fill, NEW outcome \in Outcomes,
         lines' = LinesAfter(lines, sealed, f, outcome),
         sealed' = SealedAfter(sealed, outcome),
         Intact'
  PROVE  Intact /\ outcome \in {"ok", "refused"}
<1>1. outcome \in {"ok", "refused"}
  BY DEF Intact, SealedAfter, Outcomes
<1>2. CASE outcome = "refused"
  BY <1>2 DEF Intact, SealedAfter, LinesAfter
<1>3. CASE outcome = "ok" /\ sealed
  <2>1. lines' = Append(lines, f)
    BY <1>3 DEF LinesAfter, AddText
  <2>2. \A i \in 1 .. Len(lines) : i \in DOMAIN lines' /\ lines'[i] = lines[i]
    BY <2>1
  <2>3. \A i \in DOMAIN lines : lines[i] # Torn
    BY <2>2 DEF Intact, Whole
  <2> QED
    BY <1>3, <2>3 DEF Intact, Whole
<1>4. CASE outcome = "ok" /\ ~ sealed
  <2>1. lines' = [lines EXCEPT ![Len(lines)] = Torn]
    BY <1>4 DEF LinesAfter, AddText
  <2>2. Len(lines) \in 1 .. Len(lines) /\ Torn \in Line
    BY <1>4, EmptySeq DEF Line
  <2>3. Len(lines) \in DOMAIN lines' /\ lines'[Len(lines)] = Torn
    BY <2>1, <2>2, ExceptSeq
  <2> QED
    BY <2>3 DEF Intact, Whole
<1> QED
  BY <1>1, <1>2, <1>3, <1>4

\* An Ok append of a Close removes exactly the position it closes.
LEMMA CloseRemoves ==
  ASSUME NEW log \in Seq(Line), NEW trade \in Restore(log), NEW f \in Fill,
         f.asset = trade.asset, f.intent = "close",
         \A i \in Whole(log) : log[i].filled_at <= f.filled_at
  PROVE  Restore(Append(log, f)) = Restore(log) \ {trade}
<1>1. At(Restore(Append(log, f)), Upper[f.asset]) = {}
  BY AppendOwn
<1>2. \A key : key # Upper[f.asset] =>
          At(Restore(Append(log, f)), key) = At(Restore(log), key)
  BY AppendOther
<1>3. \A p \in Restore(log) : Upper[p.asset] = Upper[f.asset] => p = trade
  BY RestoreUnique
<1>4. ASSUME NEW p
      PROVE  p \in Restore(Append(log, f)) <=> p \in Restore(log) /\ p # trade
  <2>1. CASE Upper[p.asset] = Upper[f.asset]
    BY <1>1, <1>3, <2>1 DEF At
  <2>2. CASE Upper[p.asset] # Upper[f.asset]
    BY <1>2, <2>2 DEF At
  <2> QED
    BY <2>1, <2>2
<1> QED
  BY <1>4

-----------------------------------------------------------------------------
(* The invariant is inductive when the daemon is unloaded *)

\* It holds before either process has run.
LEMMA SwitchInitInvariant == SwitchInit => SwitchInv
<1> SUFFICES ASSUME SwitchInit PROVE SwitchInv
  OBVIOUS
<1>1. IInv
  BY InitInvariant DEF SwitchInit
<1>2. SwitchTypeOK /\ CloseUnderWay
  BY DEF SwitchInit, SwitchTypeOK, Stages, CloseUnderWay
<1>3. Exact
  BY DEF SwitchInit, Exact, Accounted
<1> QED
  BY <1>1, <1>2, <1>3 DEF SwitchInv

\* The unloaded daemon takes a step only when no flatten runs.
LEMMA DaemonStep ==
  ASSUME DaemonStopped, SwitchInv, Daemon
  PROVE  SwitchInv'
<1>1. stage = "idle" /\ Next /\ UNCHANGED switchVars
  BY DEF Daemon
<1>2. IInv'
  BY <1>1, NextInvariant DEF SwitchInv
<1>3. SwitchTypeOK' /\ CloseUnderWay'
  BY <1>1 DEF SwitchInv, SwitchTypeOK, CloseUnderWay, switchVars
<1>4. Exact'
  BY <1>1 DEF Exact, Accounted, switchVars
<1> QED
  BY <1>2, <1>3, <1>4 DEF SwitchInv

\* Reading the log starts an exact account of it.
LEMMA FlattenStep ==
  ASSUME DaemonStopped, SwitchInv, Flatten
  PROVE  SwitchInv'
<1>1. /\ stage = "idle" /\ stage' = "fetch" /\ pc = "down"
      /\ open_trades' = Restore(lines) /\ todo' = Restore(lines)
      /\ UNCHANGED <<vars, closing, closed_ok, errored>>
  BY DEF Flatten
<1>2. errored = {} /\ closed_ok = 0 /\ closing = None
  BY <1>1 DEF SwitchInv, CloseUnderWay
<1>3. IInv'
  BY <1>1, NextInvariant DEF SwitchInv
<1>4. SwitchTypeOK' /\ CloseUnderWay'
  <2>1. Restore(lines) \subseteq Position
    BY RestoreType DEF SwitchInv, IInv, TypeOK
  <2> QED
    BY <1>1, <1>2, <2>1 DEF SwitchTypeOK, Stages, CloseUnderWay, vars
<1>5. Exact'
  <2>1. lines' = lines /\ sealed' = sealed
    BY <1>1 DEF vars
  <2>2. Cardinality(Restore(lines)) \in Nat
    BY RestoreFinite, FS_CardinalityType DEF SwitchInv, IInv, TypeOK
  <2> QED
    BY <1>1, <1>2, <2>1, <2>2 DEF SwitchInv, Exact, Accounted
<1> QED
  BY <1>3, <1>4, <1>5 DEF SwitchInv

\* A position without a mid moves from those to come to those in error.
LEMMA MidErrStep ==
  ASSUME DaemonStopped, SwitchInv, MidErr
  PROVE  SwitchInv'
<1>1. PICK trade \in todo : todo' = todo \ {trade} /\ errored' = errored \cup {trade}
  BY DEF MidErr
<1>2. stage = "fetch" /\ UNCHANGED <<vars, stage, open_trades, closing, closed_ok>>
  BY DEF MidErr
<1>3. IInv'
  BY <1>2, NextInvariant DEF SwitchInv
<1>4. SwitchTypeOK' /\ CloseUnderWay'
  BY <1>1, <1>2 DEF SwitchInv, SwitchTypeOK, CloseUnderWay, vars
<1>5. Exact'
  BY <1>1, <1>2 DEF SwitchInv, Exact, Accounted, Intact, vars
<1> QED
  BY <1>3, <1>4, <1>5 DEF SwitchInv

\* Simulating a Close moves the clock and nothing of the account.
LEMMA MidOkStep ==
  ASSUME DaemonStopped, SwitchInv, MidOk
  PROVE  SwitchInv'
<1>1. PICK trade \in todo, mid \in Mids, now \in Stamps :
          /\ closing' = [trade |-> trade, fill |-> ClosingFill(trade, mid, now)]
          /\ clock' = now
  BY DEF MidOk
<1>2. /\ stage = "fetch" /\ stage' = "write" /\ DaemonUntouched /\ pc = "down"
      /\ UNCHANGED <<lines, sealed, suspect, open_trades, todo, closed_ok, errored>>
  BY DEF SwitchInv, CloseUnderWay, MidOk, disk
<1>3. trade \in Position /\ now \in Nat
  BY <1>1, StampsType DEF SwitchInv, SwitchTypeOK, IInv, TypeOK
<1>4. IInv'
  BY <1>1, <1>2, ClockStep DEF SwitchInv
<1>5. SwitchTypeOK' /\ CloseUnderWay'
  BY <1>1, <1>2, <1>3, ClosingFillType
     DEF SwitchInv, SwitchTypeOK, Stages, CloseUnderWay, DaemonUntouched
<1>6. Exact'
  BY <1>2 DEF SwitchInv, Exact, Accounted, Intact
<1> QED
  BY <1>4, <1>5, <1>6 DEF SwitchInv

\* Whatever becomes of the append, the account of it is right.
LEMMA AppendCloseStep ==
  ASSUME DaemonStopped, SwitchInv, AppendClose
  PROVE  SwitchInv'
<1> DEFINE trade == closing.trade
<1>1. /\ stage = "write" /\ stage' = "fetch" /\ pc = "down" /\ pc' = "down"
      /\ todo' = todo \ {trade} /\ closing' = None
      /\ UNCHANGED <<clock, open_trades>>
  BY DEF SwitchInv, CloseUnderWay, AppendClose, WriteClose, DaemonUntouched
<1>2. PICK outcome \in AppendOutcomes :
          /\ WriteClose(outcome)
          /\ IF outcome = "ok"
             THEN closed_ok' = closed_ok + 1 /\ UNCHANGED errored
             ELSE errored' = errored \cup {trade} /\ UNCHANGED closed_ok
  BY DEF AppendClose
<1>3. /\ trade \in todo /\ closing.fill \in Fill /\ closing.fill.filled_at = clock
      /\ closing.fill.asset = trade.asset /\ closing.fill.intent = "close"
  BY <1>1 DEF SwitchInv, CloseUnderWay
<1>4. IInv'
  BY <1>1, <1>2, <1>3, OutcomeType, WriteCloseStep DEF SwitchInv
<1>5. SwitchTypeOK' /\ CloseUnderWay'
  BY <1>1, <1>2, <1>3 DEF SwitchInv, SwitchTypeOK, Stages, CloseUnderWay
<1>6. ASSUME "clock" \notin Faults, Intact'
      PROVE  Accounted'
  <2>1. /\ lines \in Seq(Line) /\ sealed \in BOOLEAN /\ closed_ok \in Nat
        /\ ~ sealed => lines # <<>>
    BY DEF SwitchInv, SwitchTypeOK, IInv, TypeOK, TailSuspect
  <2>2. Intact /\ outcome \in {"ok", "refused"}
    BY <1>2, <1>3, <1>6, <2>1, OutcomeType, IntactBefore DEF WriteClose
  <2>3. /\ sealed /\ Restore(lines) = todo \cup errored /\ todo \cap errored = {}
        /\ closed_ok + Cardinality(Restore(lines)) = Cardinality(open_trades)
    BY <1>1, <1>6, <2>2 DEF SwitchInv, Exact, Accounted, Intact
  <2>4. CASE outcome = "ok"
    <3>1. lines' = Append(lines, closing.fill)
      BY <1>2, <2>3, <2>4 DEF WriteClose, LinesAfter, AddText
    <3>2. \A i \in Whole(lines) : lines[i].filled_at <= closing.fill.filled_at
      BY <1>3, <1>6 DEF SwitchInv, IInv, StampsBehind
    <3>3. trade \in Restore(lines)
      BY <1>3, <2>3
    <3>4. Restore(lines') = Restore(lines) \ {trade}
      BY <1>3, <2>1, <3>1, <3>2, <3>3, CloseRemoves
    <3>5. IsFiniteSet(Restore(lines)) /\ Cardinality(Restore(lines)) \in Nat
      BY <2>1, RestoreFinite, FS_CardinalityType
    <3>6. Cardinality(Restore(lines')) = Cardinality(Restore(lines)) - 1
      BY <3>3, <3>4, <3>5, FS_RemoveElement
    <3>7. closed_ok' + Cardinality(Restore(lines')) = Cardinality(open_trades')
      BY <1>1, <1>2, <2>1, <2>3, <2>4, <3>5, <3>6
    <3> QED
      BY <1>1, <1>2, <1>3, <2>3, <2>4, <3>4, <3>7 DEF Accounted
  <2>5. CASE outcome = "refused"
    <3>1. lines' = lines
      BY <1>2, <2>5 DEF WriteClose, LinesAfter
    <3>2. errored' = errored \cup {trade} /\ closed_ok' = closed_ok
      BY <1>2, <2>5
    <3> QED
      BY <1>1, <1>3, <2>3, <3>1, <3>2 DEF Accounted
  <2> QED
    BY <2>2, <2>4, <2>5
<1> QED
  BY <1>4, <1>5, <1>6 DEF SwitchInv, Exact, Accounted

\* A flatten that leaves forgets its account.
LEMMA GoneStep ==
  ASSUME Gone, IInv'
  PROVE  SwitchInv'
<1>1. SwitchTypeOK' /\ CloseUnderWay'
  BY DEF Gone, SwitchTypeOK, Stages, CloseUnderWay
<1>2. Exact'
  BY DEF Gone, Exact, Accounted
<1> QED
  BY <1>1, <1>2 DEF SwitchInv

\* Every step of either process keeps the invariant.
LEMMA SwitchNextInvariant ==
  ASSUME DaemonStopped, SwitchInv, [SwitchNext]_allVars
  PROVE  SwitchInv'
<1>1. CASE Daemon
  BY <1>1, DaemonStep
<1>2. CASE Flatten
  BY <1>2, FlattenStep
<1>3. CASE MidErr
  BY <1>3, MidErrStep
<1>4. CASE MidOk
  BY <1>4, MidOkStep
<1>5. CASE AppendClose
  BY <1>5, AppendCloseStep
<1>6. CASE Report
  <2>1. /\ stage = "fetch" /\ stage' = "done"
        /\ UNCHANGED <<vars, open_trades, todo, closing, closed_ok, errored>>
    BY <1>6 DEF Report
  <2>2. IInv'
    BY <2>1, NextInvariant DEF SwitchInv
  <2>3. SwitchTypeOK' /\ CloseUnderWay'
    BY <2>1 DEF SwitchInv, SwitchTypeOK, Stages, CloseUnderWay, vars
  <2>4. Exact'
    BY <2>1 DEF SwitchInv, Exact, Accounted, Intact, vars
  <2> QED
    BY <2>2, <2>3, <2>4 DEF SwitchInv
<1>7. CASE Leave
  <2>1. Gone /\ UNCHANGED vars
    BY <1>7 DEF Leave
  <2>2. IInv'
    BY <2>1, NextInvariant DEF SwitchInv
  <2> QED
    BY <2>1, <2>2, GoneStep
<1>8. CASE KilledInAppend
  <2>1. PICK outcome \in {"short", "noeol"} : WriteClose(outcome)
    BY <1>8 DEF KilledInAppend
  <2>2. outcome \in Outcomes /\ stage = "write" /\ Gone
    BY <1>8 DEF KilledInAppend, Outcomes
  <2>3. /\ pc = "down" /\ closing.fill \in Fill /\ closing.fill.filled_at = clock
        /\ closing.fill.asset = closing.trade.asset
    BY <2>2 DEF SwitchInv, CloseUnderWay
  <2>4. IInv'
    BY <2>1, <2>2, <2>3, WriteCloseStep DEF SwitchInv
  <2> QED
    BY <2>2, <2>4, GoneStep
<1>9. CASE UNCHANGED allVars
  <2>1. UNCHANGED vars /\ UNCHANGED switchVars
    BY <1>9 DEF allVars
  <2>2. IInv'
    BY <2>1, NextInvariant DEF SwitchInv
  <2>3. SwitchTypeOK' /\ CloseUnderWay'
    BY <2>1 DEF SwitchInv, SwitchTypeOK, CloseUnderWay, switchVars, vars
  <2>4. Exact'
    BY <2>1 DEF SwitchInv, Exact, Accounted, Intact, switchVars, vars
  <2> QED
    BY <2>2, <2>3, <2>4 DEF SwitchInv
<1> QED
  BY <1>1, <1>2, <1>3, <1>4, <1>5, <1>6, <1>7, <1>8, <1>9 DEF SwitchNext

\* The invariant of the two processes holds throughout.
THEOREM SwitchInvariance ==
  ASSUME DaemonStopped
  PROVE  SwitchSpec => []SwitchInv
<1>1. SwitchInit => SwitchInv
  BY SwitchInitInvariant
<1>2. SwitchInv /\ [SwitchNext]_allVars => SwitchInv'
  BY SwitchNextInvariant
<1> QED
  BY <1>1, <1>2, PTL DEF SwitchSpec

-----------------------------------------------------------------------------
(* Theorems for an unloaded daemon *)

\* Flatten's own variables have their types, for every fault.
THEOREM SwitchTypeCorrect ==
  ASSUME DaemonStopped
  PROVE  SwitchSpec => []SwitchTypeOK
<1>1. SwitchInv => SwitchTypeOK
  BY DEF SwitchInv
<1> QED
  BY <1>1, SwitchInvariance, PTL

\* Flatten's report is the truth about an intact log, whatever writes were
\* refused: what it counts as closed is closed, what it lists as errors is left.
THEOREM FlattenAccounts ==
  ASSUME DaemonStopped, "clock" \notin Faults
  PROVE  SwitchSpec => []Accounted
<1>1. SwitchInv => Accounted
  BY DEF SwitchInv, Exact
<1> QED
  BY <1>1, SwitchInvariance, PTL

\* Flatten runs, complete or cut short, do the daemon's books no harm: unless
\* the clock steps back, memory and log still agree on every other asset.
THEOREM FlattenContainsDamage ==
  ASSUME DaemonStopped, "clock" \notin Faults
  PROVE  SwitchSpec => []DamageContained
<1>1. SwitchInv => DamageContained
  BY DEF SwitchInv, IInv, Contained
<1> QED
  BY <1>1, SwitchInvariance, PTL

\* Nor does a respawn after them change a holding whose last append succeeded.
THEOREM FlattenKeepsHoldings ==
  ASSUME DaemonStopped, "clock" \notin Faults
  PROVE  SwitchSpec => RestartPreserves
<1>1. SwitchInv => (Start => \A key \in Keys \ suspect :
                                 At(portfolio', key) = At(portfolio, key))
  BY DEF SwitchInv, IInv, Contained, DamageContained, Start, InFlight
<1> QED
  BY <1>1, SwitchInvariance, PTL DEF RestartPreserves

-----------------------------------------------------------------------------
(* Beside a running daemon: a Close on a line of its own *)

\* It hides its asset's position or, stamped before it, changes nothing.
LEMMA CloseAppended ==
  ASSUME NEW log \in Seq(Line), NEW f \in Fill, f.intent = "close", NEW key
  PROVE  LET before == At(Restore(log), key)
             after == At(Restore(Append(log, f)), key)
         IN \/ after = before
            \/ key = Upper[f.asset] /\ after = {}
<1> DEFINE new == Append(log, f)
           n == Len(log) + 1
<1>1. new \in Seq(Line) /\ n \in Int /\ new[n] = f
  BY DEF Line
<1>2. Whole(new) = Whole(log) \cup {n}
  BY TornAssumption DEF Whole
<1>3. ASSUME NEW i \in Whole(log)
      PROVE  i \in Int /\ i < n /\ new[i] = log[i] /\ log[i].filled_at \in Int
  <2>1. i \in 1 .. Len(log) /\ log[i] \in Fill
    BY WholeLine
  <2> QED
    BY <2>1 DEF Fill
<1>4. f.filled_at \in Int
  BY DEF Fill
<1>5. CASE key # Upper[f.asset]
  BY <1>5, AppendOther
<1>6. CASE key = Upper[f.asset]
  <2> HIDE DEF new, n
  <2>1. \A i, j \in Whole(log) : Before(new, i, j) <=> Before(log, i, j)
    BY <1>3 DEF Before
  <2>2. \A i, j \in Whole(new) : ~ (Before(new, i, j) /\ Before(new, j, i))
    BY <1>1, <1>2, <1>3, <1>4 DEF Before
  <2>3. LinesOf(new, key) = LinesOf(log, key) \cup {n}
    BY <1>1, <1>2, <1>3, <1>6 DEF LinesOf
  <2>4. \A i \in LinesOf(new, key) :
            LatestOfAsset(new, i) <=>
                \A j \in LinesOf(new, key) \ {i} : Before(new, j, i)
    BY DEF LinesOf, LatestOfAsset, SameAsset
  <2>5. \A i \in LinesOf(log, key) :
            LatestOfAsset(log, i) <=>
                \A j \in LinesOf(log, key) \ {i} : Before(log, j, i)
    BY DEF LinesOf, LatestOfAsset, SameAsset
  <2>6. LinesOf(log, key) \subseteq Whole(log) /\ n \notin Whole(log)
    BY <1>1, <1>3 DEF LinesOf
  <2>7. \A i \in LinesOf(log, key) : LatestOfAsset(new, i) =>
            i \in Latest(log, key) /\ Before(new, n, i)
    BY <2>1, <2>3, <2>4, <2>5, <2>6 DEF Latest
  <2>8. At(Restore(new), key) =
            {PositionOf(new[i]) : i \in {j \in Latest(new, key) : new[j].intent = "open"}}
    BY <1>1, AtLatest
  <2>9. At(Restore(log), key) =
            {PositionOf(log[i]) : i \in {j \in Latest(log, key) : log[j].intent = "open"}}
    BY AtLatest
  <2>10. CASE \A i \in Latest(log, key) : ~ Before(new, n, i)
    <3>1. Latest(new, key) \subseteq {n}
      BY <2>3, <2>7, <2>10 DEF Latest
    <3>2. {j \in Latest(new, key) : new[j].intent = "open"} = {}
      BY <1>1, <3>1
    <3>3. At(Restore(new), key) = {}
      BY <2>8, <3>2
    <3> QED
      BY <1>6, <3>3 DEF new
  <2>11. ASSUME NEW i \in Latest(log, key), Before(new, n, i)
         PROVE  At(Restore(new), key) = At(Restore(log), key)
    <3>1. i \in LinesOf(log, key) /\ LatestOfAsset(log, i)
      BY DEF Latest
    <3>2. LatestOfAsset(new, i)
      BY <2>1, <2>3, <2>4, <2>5, <2>6, <2>11, <3>1
    <3>3. \A k \in LinesOf(new, key) : LatestOfAsset(new, k) => k = i
      <4> SUFFICES ASSUME NEW k \in LinesOf(new, key), LatestOfAsset(new, k), k # i
                   PROVE  FALSE
        OBVIOUS
      <4>1. i \in LinesOf(new, key) /\ i \in Whole(new) /\ k \in Whole(new)
        BY <2>3, <3>1 DEF LinesOf
      <4>2. Before(new, i, k) /\ Before(new, k, i)
        BY <2>4, <3>2, <4>1
      <4> QED
        BY <2>2, <4>1, <4>2
    <3>4. \A k \in LinesOf(log, key) : LatestOfAsset(log, k) => k = i
      <4> SUFFICES ASSUME NEW k \in LinesOf(log, key), LatestOfAsset(log, k), k # i
                   PROVE  FALSE
        OBVIOUS
      <4>1. i \in Whole(log) /\ k \in Whole(log) /\ i \in Whole(new) /\ k \in Whole(new)
        BY <1>2, <2>6, <3>1
      <4>2. Before(log, i, k) /\ Before(log, k, i)
        BY <2>5, <3>1
      <4> QED
        BY <2>1, <2>2, <4>1, <4>2
    <3>5. Latest(new, key) = {i} /\ Latest(log, key) = {i}
      BY <2>3, <3>1, <3>2, <3>3, <3>4 DEF Latest
    <3>6. new[i] = log[i]
      BY <1>3, <2>6, <3>1
    <3> QED
      BY <2>8, <2>9, <3>5, <3>6
  <2> QED
    BY <2>10, <2>11 DEF new
<1> QED
  BY <1>5, <1>6

-----------------------------------------------------------------------------
(* What holds of both processes however they interleave *)

\* The daemon's work in hand has its types.
InHand ==
    /\ pc \in {"observe", "decide", "append", "commit", "record", "next"} =>
           snapshot \in Snapshot /\ queue # <<>>
    /\ pc \in {"append", "commit"} => fill \in Fill

\* An unfinished line is a line; where no append stops half-way there is none.
Ended ==
    /\ ~ sealed => lines # <<>>
    /\ "torn" \notin Faults => sealed

\* So does flatten's; what it is about to write is a Close.
CloseInHand ==
    /\ open_trades \subseteq Position /\ todo \subseteq open_trades
    /\ stage = "write" =>
           /\ closing \in [trade : todo, fill : Fill]
           /\ closing.fill.intent = "close"
           /\ closing.fill.asset = closing.trade.asset

DaemonInv == TypeOK /\ OnePerAsset /\ InHand /\ Ended

RaceInv == DaemonInv /\ CloseInHand

\* An append by the daemon, completed or cut short.
LEMMA DaemonAppend ==
  ASSUME DaemonInv, pc = "append", NEW outcome \in AppendOutcomes \cup {"short", "noeol"},
         "torn" \in Faults \/ outcome \in AppendOutcomes,
         lines' = LinesAfter(lines, sealed, fill, outcome),
         sealed' = SealedAfter(sealed, outcome),
         suspect' = SuspectAfter(outcome)
  PROVE  /\ lines' \in Seq(Line) /\ sealed' \in BOOLEAN /\ suspect' \in SUBSET Keys
         /\ Ended'
<1>1. outcome \in Outcomes
  BY OutcomeType DEF Outcomes
<1>2. /\ lines \in Seq(Line) /\ sealed \in BOOLEAN /\ suspect \in SUBSET Keys
      /\ fill \in Fill /\ (~ sealed => lines # <<>>)
  BY DEF DaemonInv, TypeOK, InHand, Ended
<1>3. /\ lines' \in Seq(Line) /\ sealed' \in BOOLEAN /\ (~ sealed' => lines' # <<>>)
  BY <1>1, <1>2, LinesAfterType
<1>4. Upper[fill.asset] \in Keys
  BY <1>2, KeyOfAsset DEF Fill
<1>5. suspect' \in SUBSET Keys
  BY <1>2, <1>4 DEF SuspectAfter
<1>6. "torn" \notin Faults => sealed'
  BY DEF DaemonInv, Ended, AppendOutcomes, SealedAfter
<1> QED
  BY <1>3, <1>5, <1>6 DEF Ended

\* Every step of a daemon that races flatten keeps its part of the invariant.
LEMMA DaemonInvariant == DaemonInv /\ [Next]_vars => DaemonInv'
<1> SUFFICES ASSUME DaemonInv, [Next]_vars PROVE DaemonInv'
  OBVIOUS
<1> USE DaemonAssumption
<1>a. TypeOK /\ OnePerAsset /\ InHand /\ Ended
  BY DEF DaemonInv
<1>b. ASSUME UNCHANGED <<lines, sealed, portfolio>> PROVE OnePerAsset' /\ Ended'
  BY <1>a, <1>b DEF OnePerAsset, Ended
<1>1. CASE Start
  <2>1. Restore(lines) \in SUBSET Position
    BY <1>a, RestoreType DEF TypeOK
  <2>2. TailKeys(lines, sealed) \in SUBSET Keys
    <3>1. ASSUME ~ sealed, lines[Len(lines)] # Torn
          PROVE  Upper[lines[Len(lines)].asset] \in Keys
      <4>1. lines \in Seq(Line) /\ lines # <<>>
        BY <1>a, <3>1 DEF TypeOK, Ended
      <4>2. lines[Len(lines)] \in Fill
        BY <3>1, <4>1 DEF Line
      <4> QED
        BY <4>2, KeyOfAsset DEF Fill
    <3> QED
      BY <3>1 DEF TailKeys
  <2>3. TypeOK'
    BY <1>1, <1>a, <2>1, <2>2 DEF Start, disk, TypeOK, Locations
  <2>4. OnePerAsset'
    BY <1>1, <1>a, RestoreUnique DEF Start, OnePerAsset, TypeOK
  <2>5. InHand' /\ Ended'
    BY <1>1, <1>a DEF Start, disk, InHand, Ended
  <2> QED
    BY <2>3, <2>4, <2>5 DEF DaemonInv
<1>2. CASE FetchOk
  <2>1. Head(queue) \in Assets
    BY <1>2, <1>a DEF FetchOk, TypeOK
  <2>2. TypeOK' /\ InHand'
    BY <1>2, <1>a, <2>1 DEF FetchOk, disk, TypeOK, Locations, InHand, Snapshot
  <2> QED
    BY <1>2, <1>b, <2>2 DEF FetchOk, disk, DaemonInv
<1>3. CASE Tick \/ FetchErr \/ PollDone
  <2>1. TypeOK'
    <3>1. CASE Tick
      BY <1>a, <3>1 DEF Tick, disk, TypeOK, Locations
    <3>2. CASE FetchErr
      BY <1>a, <3>2 DEF FetchErr, disk, TypeOK, Locations
    <3>3. CASE PollDone
      BY <1>a, <3>3 DEF PollDone, disk, TypeOK, Locations
    <3> QED
      BY <1>3, <3>1, <3>2, <3>3
  <2>2. InHand'
    BY <1>3, <1>a DEF Tick, FetchErr, PollDone, InHand
  <2> QED
    BY <1>3, <1>b, <2>1, <2>2 DEF Tick, FetchErr, PollDone, disk, DaemonInv
<1>4. CASE Observe \/ RecordDecision
  <2>1. TypeOK' /\ InHand'
    BY <1>4, <1>a DEF Observe, RecordDecision, WriteResults, disk, TypeOK, Locations,
                      Trail, InHand
  <2> QED
    BY <1>4, <1>b, <2>1 DEF Observe, RecordDecision, disk, DaemonInv
<1>5. CASE DecideHold \/ OpenVetoed
  <2>1. pc = "decide" /\ pc' = "record" /\ decision' = Verdict
        /\ UNCHANGED <<lines, sealed, portfolio, queue, snapshot, fill, trail,
                       clock, min_liq_buffer, suspect>>
    BY <1>5 DEF DecideHold, OpenVetoed, disk
  <2>2. TypeOK' /\ InHand'
    BY <1>a, <2>1, VerdictType DEF TypeOK, Locations, InHand
  <2> QED
    BY <1>b, <2>1, <2>2 DEF DaemonInv
<1>6. CASE OpenFilled
  <2>1. PICK now \in Stamps :
            /\ fill' = SimulateFill(snapshot.asset, Verdict.side, OrderSize,
                                    snapshot.mid, "open", now)
            /\ clock' = now
    BY <1>6 DEF OpenFilled
  <2>2. /\ pc = "decide" /\ pc' = "append" /\ decision' = Verdict
        /\ snapshot.mid > 0 /\ Verdict.kind = "open"
        /\ UNCHANGED <<lines, sealed, portfolio, queue, snapshot, trail,
                       min_liq_buffer, suspect>>
    BY <1>6 DEF OpenFilled, disk
  <2>3. snapshot \in Snapshot /\ queue # <<>>
    BY <1>a, <2>2 DEF InHand
  <2>4. now \in Nat
    BY <1>a, StampsType DEF TypeOK
  <2>5. fill' \in Fill
    BY <2>1, <2>2, <2>3, <2>4, OpenFillType
  <2>6. TypeOK' /\ InHand'
    BY <1>a, <2>1, <2>2, <2>3, <2>4, <2>5, VerdictType DEF TypeOK, Locations, InHand
  <2> QED
    BY <1>b, <2>2, <2>6 DEF DaemonInv
<1>7. CASE CloseFilled
  <2> DEFINE pos == PositionFor(portfolio, snapshot.asset)
  <2>1. PICK now \in Stamps :
            /\ fill' = SimulateFill(pos.asset, Flip(pos.side), pos.size,
                                    snapshot.mid, "close", now)
            /\ clock' = now
    BY <1>7 DEF CloseFilled
  <2>2. /\ pc = "decide" /\ pc' = "append" /\ decision' = Verdict
        /\ Verdict.kind = "close"
        /\ portfolio' = ClosePosition(portfolio, snapshot.asset)
        /\ UNCHANGED <<lines, sealed, queue, snapshot, trail, min_liq_buffer, suspect>>
    BY <1>7 DEF CloseFilled, disk
  <2>3. snapshot \in Snapshot /\ queue # <<>>
    BY <1>a, <2>2 DEF InHand
  <2>4. now \in Nat
    BY <1>a, StampsType DEF TypeOK
  <2>5. pos \in portfolio
    BY <1>a, <2>2, CloseIsHeld
  <2> HIDE DEF pos
  <2>6. fill' \in Fill
    BY <1>a, <2>1, <2>3, <2>4, <2>5, CloseFillType
  <2>7. portfolio' \subseteq portfolio
    BY <2>2 DEF ClosePosition
  <2>8. TypeOK' /\ InHand'
    BY <1>a, <2>1, <2>2, <2>3, <2>4, <2>6, <2>7, VerdictType DEF TypeOK, Locations, InHand
  <2> QED
    BY <1>a, <2>2, <2>7, <2>8 DEF DaemonInv, OnePerAsset, Ended
<1>8. CASE AppendFill
  <2>1. PICK outcome \in AppendOutcomes :
            /\ lines' = LinesAfter(lines, sealed, fill, outcome)
            /\ sealed' = SealedAfter(sealed, outcome)
            /\ suspect' = SuspectAfter(outcome)
            /\ trail' = [trail EXCEPT !.fill = (outcome = "ok")]
    BY <1>8 DEF AppendFill
  <2>2. /\ pc = "append" /\ pc' = IF fill.intent = "open" THEN "commit" ELSE "record"
        /\ UNCHANGED <<portfolio, queue, snapshot, decision, fill, clock, min_liq_buffer>>
    BY <1>8 DEF AppendFill
  <2>3. /\ lines' \in Seq(Line) /\ sealed' \in BOOLEAN /\ suspect' \in SUBSET Keys
        /\ Ended'
    BY <2>1, <2>2, DaemonAppend
  <2>4. TypeOK' /\ InHand'
    BY <1>a, <2>1, <2>2, <2>3 DEF TypeOK, Locations, Trail, InHand
  <2> QED
    BY <1>a, <2>2, <2>3, <2>4 DEF DaemonInv, OnePerAsset
<1>9. CASE CommitOpen
  <2>1. /\ pc = "commit" /\ pc' = "record"
        /\ portfolio' = OpenPosition(portfolio, PositionOf(fill))
        /\ UNCHANGED <<lines, sealed, queue, snapshot, decision, fill, trail, clock,
                       min_liq_buffer, suspect>>
    BY <1>9 DEF CommitOpen, disk
  <2>2. PositionOf(fill) \in Position
    BY <1>a, <2>1, PositionOfType DEF InHand
  <2>3. TypeOK' /\ InHand'
    BY <1>a, <2>1, <2>2 DEF TypeOK, Locations, OpenPosition, InHand
  <2>4. OnePerAsset'
    BY <1>a, <2>1 DEF OnePerAsset, OpenPosition, SameAsset
  <2> QED
    BY <1>a, <2>1, <2>3, <2>4 DEF DaemonInv, Ended
<1>10. CASE NextAsset
  <2>1. queue # <<>>
    BY <1>10, <1>a DEF NextAsset, InHand
  <2>2. TypeOK' /\ InHand'
    BY <1>10, <1>a, <2>1 DEF NextAsset, disk, TypeOK, Locations, Trail, NoRows, InHand
  <2> QED
    BY <1>10, <1>b, <2>2 DEF NextAsset, disk, DaemonInv
<1>11. CASE Crash
  <2>1. InFlight \subseteq Keys
    BY <1>a, KeyOfAsset DEF InFlight, InHand, Snapshot
  <2>2. TypeOK' /\ InHand'
    BY <1>11, <1>a, <2>1 DEF Crash, Die, disk, TypeOK, Locations, Trail, NoRows, InHand
  <2> QED
    BY <1>11, <1>b, <2>2 DEF Crash, Die, disk, DaemonInv
<1>12. CASE CrashInAppend
  <2>1. PICK outcome \in {"short", "noeol"} :
            /\ lines' = LinesAfter(lines, sealed, fill, outcome)
            /\ sealed' = SealedAfter(sealed, outcome)
            /\ suspect' = SuspectAfter(outcome)
    BY <1>12 DEF CrashInAppend
  <2>2. /\ pc = "append" /\ pc' = "down" /\ "torn" \in Faults
        /\ queue' = <<>> /\ snapshot' = None /\ decision' = None /\ fill' = None
        /\ trail' = NoRows
        /\ UNCHANGED <<portfolio, clock, min_liq_buffer>>
    BY <1>12 DEF CrashInAppend, Die
  <2>3. /\ lines' \in Seq(Line) /\ sealed' \in BOOLEAN /\ suspect' \in SUBSET Keys
        /\ Ended'
    BY <2>1, <2>2, DaemonAppend
  <2>4. TypeOK' /\ InHand'
    BY <1>a, <2>2, <2>3 DEF TypeOK, Locations, Trail, NoRows, InHand
  <2> QED
    BY <1>a, <2>2, <2>3, <2>4 DEF DaemonInv, OnePerAsset
<1>13. CASE UNCHANGED vars
  <2>1. TypeOK' /\ InHand'
    BY <1>13, <1>a DEF vars, TypeOK, InHand
  <2> QED
    BY <1>13, <1>b, <2>1 DEF vars, DaemonInv
<1> QED
  BY <1>1, <1>2, <1>3, <1>4, <1>5, <1>6, <1>7, <1>8, <1>9, <1>10, <1>11, <1>12, <1>13
     DEF Next

\* A Close by flatten, completed or cut short.
LEMMA FlattenAppend ==
  ASSUME RaceInv, stage = "write",
         NEW outcome \in AppendOutcomes \cup {"short", "noeol"},
         "torn" \in Faults \/ outcome \in AppendOutcomes, WriteClose(outcome)
  PROVE  DaemonInv'
<1>1. /\ lines' = LinesAfter(lines, sealed, closing.fill, outcome)
      /\ sealed' = SealedAfter(sealed, outcome)
      /\ suspect' = suspect \cup {Upper[closing.trade.asset]}
      /\ UNCHANGED <<portfolio, pc, queue, snapshot, decision, fill, trail,
                     min_liq_buffer, clock>>
  BY DEF WriteClose, DaemonUntouched
<1>2. outcome \in Outcomes
  BY OutcomeType DEF Outcomes
<1>3. closing.fill \in Fill /\ closing.trade.asset = closing.fill.asset
  BY DEF RaceInv, CloseInHand
<1>4. Upper[closing.trade.asset] \in Keys
  BY <1>3, KeyOfAsset DEF Fill
<1>5. TypeOK /\ OnePerAsset /\ InHand /\ Ended
  BY DEF RaceInv, DaemonInv
<1>6. /\ lines' \in Seq(Line) /\ sealed' \in BOOLEAN /\ (~ sealed' => lines' # <<>>)
  BY <1>1, <1>2, <1>3, <1>5, LinesAfterType DEF TypeOK, Ended
<1>7. "torn" \notin Faults => sealed'
  BY <1>1, <1>5 DEF Ended, AppendOutcomes, SealedAfter
<1>8. TypeOK' /\ OnePerAsset' /\ InHand'
  BY <1>1, <1>4, <1>5, <1>6 DEF TypeOK, OnePerAsset, InHand
<1> QED
  BY <1>6, <1>7, <1>8 DEF DaemonInv, Ended

\* Every step of either process keeps the invariant of the race.
LEMMA RaceNextInvariant == RaceInv /\ [SwitchNext]_allVars => RaceInv'
<1> SUFFICES ASSUME RaceInv, [SwitchNext]_allVars PROVE RaceInv'
  OBVIOUS
<1>a. DaemonInv /\ CloseInHand
  BY DEF RaceInv
<1>b. ASSUME UNCHANGED vars PROVE DaemonInv'
  BY <1>a, <1>b, DaemonInvariant
<1>1. CASE Daemon \/ UNCHANGED allVars
  <2>1. [Next]_vars /\ UNCHANGED switchVars
    BY <1>1 DEF Daemon, allVars
  <2>2. DaemonInv'
    BY <1>a, <2>1, DaemonInvariant
  <2> QED
    BY <1>a, <2>1, <2>2 DEF RaceInv, CloseInHand, switchVars
<1>2. CASE Flatten
  <2>1. Restore(lines) \subseteq Position
    BY <1>a, RestoreType DEF DaemonInv, TypeOK
  <2> QED
    BY <1>2, <1>b, <2>1 DEF Flatten, RaceInv, CloseInHand
<1>3. CASE MidErr \/ Report
  BY <1>3, <1>a, <1>b DEF MidErr, Report, RaceInv, CloseInHand
<1>4. CASE MidOk
  <2>1. PICK trade \in todo, mid \in Mids, now \in Stamps :
            /\ closing' = [trade |-> trade, fill |-> ClosingFill(trade, mid, now)]
            /\ clock' = now
    BY <1>4 DEF MidOk
  <2>2. now \in Nat
    BY <1>a, <2>1, StampsType DEF DaemonInv, TypeOK
  <2>3. ClosingFill(trade, mid, now) \in Fill
    BY <1>a, <2>2, ClosingFillType DEF CloseInHand
  <2>4. /\ ClosingFill(trade, mid, now).intent = "close"
        /\ ClosingFill(trade, mid, now).asset = trade.asset
    BY DEF ClosingFill, SimulateFill
  <2>5. /\ UNCHANGED <<lines, sealed, suspect, portfolio, pc, queue, snapshot, decision,
                       fill, trail, min_liq_buffer, open_trades, todo>>
        /\ stage' = "write"
    BY <1>4 DEF MidOk, DaemonUntouched, disk
  <2>6. DaemonInv'
    BY <1>a, <2>1, <2>2, <2>5 DEF DaemonInv, TypeOK, OnePerAsset, InHand, Ended
  <2>7. CloseInHand'
    BY <1>a, <2>1, <2>3, <2>4, <2>5 DEF CloseInHand
  <2> QED
    BY <2>6, <2>7 DEF RaceInv
<1>5. CASE AppendClose
  <2>1. PICK outcome \in AppendOutcomes : WriteClose(outcome)
    BY <1>5 DEF AppendClose
  <2>2. DaemonInv'
    BY <1>5, <2>1, FlattenAppend DEF AppendClose
  <2>3. CloseInHand'
    BY <1>5, <1>a DEF AppendClose, CloseInHand
  <2> QED
    BY <2>2, <2>3 DEF RaceInv
<1>6. CASE Leave
  BY <1>6, <1>b DEF Leave, Gone, RaceInv, CloseInHand
<1>7. CASE KilledInAppend
  <2>1. PICK outcome \in {"short", "noeol"} : WriteClose(outcome)
    BY <1>7 DEF KilledInAppend
  <2>2. DaemonInv'
    BY <1>7, <2>1, FlattenAppend DEF KilledInAppend
  <2> QED
    BY <1>7, <2>2 DEF KilledInAppend, Gone, RaceInv, CloseInHand
<1> QED
  BY <1>1, <1>2, <1>3, <1>4, <1>5, <1>6, <1>7 DEF SwitchNext

\* It holds throughout.
LEMMA RaceInvariance == SwitchSpec => []RaceInv
<1>1. SwitchInit => RaceInv
  <2> SUFFICES ASSUME SwitchInit PROVE RaceInv
    OBVIOUS
  <2>1. IInv
    BY InitInvariant DEF SwitchInit
  <2>2. pc = "down" /\ sealed
    BY DEF SwitchInit, Init
  <2>3. DaemonInv
    BY <2>1, <2>2 DEF DaemonInv, IInv, InHand, Ended
  <2> QED
    BY <2>3 DEF RaceInv, CloseInHand, SwitchInit
<1>2. RaceInv /\ [SwitchNext]_allVars => RaceInv'
  BY RaceNextInvariant
<1> QED
  BY <1>1, <1>2, PTL DEF SwitchSpec

-----------------------------------------------------------------------------
(* Theorems for two processes that run at once *)

\* The daemon never holds two positions of one asset, though another process
\* writes to the log it restores, under every fault.
THEOREM OnePositionBesideFlatten == SwitchSpec => []OnePerAsset
<1>1. RaceInv => OnePerAsset
  BY DEF RaceInv, DaemonInv
<1> QED
  BY <1>1, RaceInvariance, PTL

\* Where no append stops half-way, flatten opens nothing and touches no asset
\* but the one it closes, however stale what it read, whatever the clock does.
THEOREM FlattenOnlyCloses ==
  ASSUME "torn" \notin Faults
  PROVE  SwitchSpec => OnlyCloses
<1> DEFINE Narrow ==
        \A key \in Keys :
            LET before == At(Restore(lines), key)
                after == At(Restore(lines'), key)
            IN \/ after = before
               \/ key = Upper[closing.trade.asset] /\ after = {}
<1>1. RaceInv /\ [SwitchNext]_allVars => [AppendClose => Narrow]_allVars
  <2> SUFFICES ASSUME RaceInv, AppendClose PROVE Narrow
    OBVIOUS
  <2>1. PICK outcome \in AppendOutcomes : WriteClose(outcome)
    BY DEF AppendClose
  <2>2. lines' = LinesAfter(lines, sealed, closing.fill, outcome)
    BY <2>1 DEF WriteClose
  <2>3. /\ lines \in Seq(Line) /\ sealed /\ closing.fill \in Fill
        /\ closing.fill.intent = "close" /\ closing.fill.asset = closing.trade.asset
    BY DEF AppendClose, RaceInv, DaemonInv, TypeOK, Ended, CloseInHand
  <2>4. lines' = lines \/ lines' = Append(lines, closing.fill)
    BY <2>2, <2>3 DEF LinesAfter, AddText, AppendOutcomes
  <2>5. CASE lines' = lines
    BY <2>5
  <2>6. CASE lines' = Append(lines, closing.fill)
    BY <2>3, <2>6, CloseAppended
  <2> QED
    BY <2>4, <2>5, <2>6
<1>2. SwitchSpec => [][AppendClose => Narrow]_allVars
  BY <1>1, RaceInvariance, PTL DEF SwitchSpec
<1> QED
  BY <1>2 DEF OnlyCloses

=============================================================================
