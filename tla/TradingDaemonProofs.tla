------------------------- MODULE TradingDaemonProofs -------------------------
(***************************************************************************)
(* Proofs about TradingDaemon, for every list of assets, every set of      *)
(* rates, prices and buffers, and logs of any length.                      *)
(*                                                                         *)
(* The argument: the log and the memory agree on every asset whose last    *)
(* append was vouched for, because (1) a fill appended to a sealed log is  *)
(* the last of its asset and leaves every other asset alone, (2) a torn    *)
(* line restores nothing, and (3) text glued to an unfinished line can     *)
(* only lose that line, whose asset is already suspect.                    *)
(***************************************************************************)
EXTENDS TradingDaemon, SequenceTheorems, TLAPS

-----------------------------------------------------------------------------
(* Typing of the operators the actions are built from *)

\* Every asset has its key.
LEMMA KeyOfAsset == ASSUME NEW a \in Assets PROVE Upper[a] \in Keys
  BY DEF Keys

\* The position of a fill is a position.
LEMMA PositionOfType == ASSUME NEW f \in Fill PROVE PositionOf(f) \in Position
  BY DEF PositionOf, Fill, Position

\* A log restores positions.
LEMMA RestoreType ==
  ASSUME NEW log \in Seq(Line)
  PROVE  Restore(log) \subseteq Position
  BY PositionOfType DEF Restore, Whole, Line

\* Whatever an append does, the file stays a sequence of lines.
LEMMA LinesAfterType ==
  ASSUME NEW log \in Seq(Line), NEW ended \in BOOLEAN, NEW f \in Fill,
         NEW outcome \in Outcomes, ~ ended => log # <<>>
  PROVE  /\ LinesAfter(log, ended, f, outcome) \in Seq(Line)
         /\ SealedAfter(ended, outcome) \in BOOLEAN
         /\ ~ SealedAfter(ended, outcome) => LinesAfter(log, ended, f, outcome) # <<>>
<1> DEFINE text == IF outcome = "short" THEN Torn ELSE f
<1>1. text \in Line
  BY DEF Line
<1>2. Append(log, text) \in Seq(Line) /\ Append(log, text) # <<>>
  BY <1>1
<1>3. ASSUME ~ ended
      PROVE  /\ [log EXCEPT ![Len(log)] = Torn] \in Seq(Line)
             /\ [log EXCEPT ![Len(log)] = Torn] # <<>>
  BY <1>3, ExceptSeq DEF Line
<1> QED
  BY <1>2, <1>3 DEF LinesAfter, AddText, SealedAfter, Outcomes

\* decide returns a decision.
LEMMA VerdictType == Verdict \in Decisions
  BY DEF Verdict, Decide, DecideHeld, DecideFlat, Decisions, Side, Hold, Close, Open

-----------------------------------------------------------------------------
(* What a log restores, one asset at a time *)

\* The lines that hold a fill of one asset.
LinesOf(log, key) == {i \in Whole(log) : Upper[log[i].asset] = key}

\* A whole line is a fill.
LEMMA WholeLine ==
  ASSUME NEW log \in Seq(Line), NEW i \in Whole(log)
  PROVE  i \in 1 .. Len(log) /\ log[i] \in Fill
  BY DEF Whole, Line

\* The log holds at most one position per asset.
LEMMA RestoreUnique ==
  ASSUME NEW log \in Seq(Line), NEW p \in Restore(log), NEW q \in Restore(log),
         Upper[p.asset] = Upper[q.asset]
  PROVE  p = q
<1>1. PICK i \in Whole(log) : LatestOfAsset(log, i) /\ p = PositionOf(log[i])
  BY DEF Restore
<1>2. PICK j \in Whole(log) : LatestOfAsset(log, j) /\ q = PositionOf(log[j])
  BY DEF Restore
<1>3. SameAsset(log[i].asset, log[j].asset) /\ SameAsset(log[j].asset, log[i].asset)
  BY <1>1, <1>2 DEF PositionOf, SameAsset
<1>4. CASE i # j
  <2>1. Before(log, j, i) /\ Before(log, i, j)
    BY <1>1, <1>2, <1>3, <1>4 DEF LatestOfAsset
  <2>2. log[i].filled_at \in Int /\ log[j].filled_at \in Int /\ i \in Int /\ j \in Int
    BY WholeLine DEF Fill
  <2> QED
    BY <2>1, <2>2 DEF Before
<1> QED
  BY <1>1, <1>2, <1>4

\* The last line of an asset, as a set: none or one.
Latest(log, key) == {i \in LinesOf(log, key) : LatestOfAsset(log, i)}

\* What is restored in an asset is its last line, if that is an Open.
LEMMA AtLatest ==
  ASSUME NEW log \in Seq(Line), NEW key
  PROVE  At(Restore(log), key) =
             {PositionOf(log[i]) : i \in {j \in Latest(log, key) : log[j].intent = "open"}}
  BY DEF At, Restore, LinesOf, PositionOf, Latest

\* What the log restores in an asset depends on that asset's lines alone.
LEMMA RestoreLocal ==
  ASSUME NEW log1 \in Seq(Line), NEW log2 \in Seq(Line), NEW key,
         LinesOf(log1, key) = LinesOf(log2, key),
         \A i \in LinesOf(log1, key) : log1[i] = log2[i]
  PROVE  At(Restore(log1), key) = At(Restore(log2), key)
<1>1. ASSUME NEW i \in LinesOf(log1, key)
      PROVE  LatestOfAsset(log1, i) <=> LatestOfAsset(log2, i)
  BY <1>1 DEF LinesOf, LatestOfAsset, SameAsset, Before
<1>2. At(Restore(log1), key) =
        {PositionOf(log1[i]) : i \in {j \in LinesOf(log1, key) :
              log1[j].intent = "open" /\ LatestOfAsset(log1, j)}}
  BY DEF At, Restore, LinesOf, PositionOf
<1>3. At(Restore(log2), key) =
        {PositionOf(log2[i]) : i \in {j \in LinesOf(log2, key) :
              log2[j].intent = "open" /\ LatestOfAsset(log2, j)}}
  BY DEF At, Restore, LinesOf, PositionOf
<1> QED
  BY <1>1, <1>2, <1>3

\* A torn line of its own restores nothing and hides nothing.
LEMMA AppendTorn ==
  ASSUME NEW log \in Seq(Line), NEW key
  PROVE  At(Restore(Append(log, Torn)), key) = At(Restore(log), key)
<1>1. Append(log, Torn) \in Seq(Line)
  BY DEF Line
<1>2. LinesOf(Append(log, Torn), key) = LinesOf(log, key)
  BY DEF LinesOf, Whole
<1>3. \A i \in LinesOf(log, key) : Append(log, Torn)[i] = log[i]
  BY DEF LinesOf, Whole
<1> QED
  BY <1>1, <1>2, <1>3, RestoreLocal

\* Text glued to an unfinished line can only lose that line.
LEMMA GlueTail ==
  ASSUME NEW log \in Seq(Line), log # <<>>, NEW key, key \notin TailKeys(log, FALSE)
  PROVE  At(Restore([log EXCEPT ![Len(log)] = Torn]), key) = At(Restore(log), key)
<1> DEFINE glued == [log EXCEPT ![Len(log)] = Torn]
<1>1. Len(log) \in 1 .. Len(log) /\ Torn \in Line
  BY EmptySeq DEF Line
<1>2. /\ glued \in Seq(Line) /\ Len(glued) = Len(log)
      /\ \A j \in 1 .. Len(log) : glued[j] = IF j = Len(log) THEN Torn ELSE log[j]
  BY <1>1, ExceptSeq
<1>3. Len(log) \notin LinesOf(log, key)
  BY DEF TailKeys, LinesOf, Whole
<1> HIDE DEF glued
<1>4. LinesOf(glued, key) = LinesOf(log, key)
  BY <1>2, <1>3 DEF LinesOf, Whole
<1>5. \A i \in LinesOf(log, key) : glued[i] = log[i]
  BY <1>2, <1>3 DEF LinesOf, Whole
<1>6. At(Restore(glued), key) = At(Restore(log), key)
  BY <1>2, <1>4, <1>5, RestoreLocal
<1> QED
  BY <1>6 DEF glued

\* A fill on a line of its own leaves every other asset alone.
LEMMA AppendOther ==
  ASSUME NEW log \in Seq(Line), NEW f \in Fill, NEW key, key # Upper[f.asset]
  PROVE  At(Restore(Append(log, f)), key) = At(Restore(log), key)
<1>1. Append(log, f) \in Seq(Line)
  BY DEF Line
<1>2. LinesOf(Append(log, f), key) = LinesOf(log, key)
  BY DEF LinesOf, Whole
<1>3. \A i \in LinesOf(log, key) : Append(log, f)[i] = log[i]
  BY DEF LinesOf, Whole
<1> QED
  BY <1>1, <1>2, <1>3, RestoreLocal

\* If no fill on disk is stamped later, a new fill is the last of its asset:
\* an Open restores as its position, a Close restores as nothing.
LEMMA AppendOwn ==
  ASSUME NEW log \in Seq(Line), NEW f \in Fill,
         \A i \in Whole(log) : log[i].filled_at <= f.filled_at
  PROVE  At(Restore(Append(log, f)), Upper[f.asset]) =
           IF f.intent = "open" THEN {PositionOf(f)} ELSE {}
<1> DEFINE new == Append(log, f)
           n == Len(log) + 1
<1>1. new \in Seq(Line) /\ n \in Int
  BY DEF Line
<1>2. new[n] = f /\ \A i \in 1 .. Len(log) : new[i] = log[i]
  OBVIOUS
<1>3. Whole(new) = Whole(log) \cup {n}
  BY TornAssumption DEF Whole
<1>4. ASSUME NEW i \in Whole(log)
      PROVE  i \in Int /\ i < n /\ new[i] = log[i] /\ log[i].filled_at \in Int
  BY <1>2, WholeLine DEF Fill
<1>5. f.filled_at \in Int
  BY DEF Fill
<1> HIDE DEF new, n
<1>6. \A i \in Whole(log) : Before(new, i, n) /\ ~ Before(new, n, i)
  BY <1>1, <1>2, <1>4, <1>5 DEF Before
<1>7. LatestOfAsset(new, n)
  BY <1>3, <1>6 DEF LatestOfAsset
<1>8. \A i \in Whole(log) :
          Upper[log[i].asset] = Upper[f.asset] => ~ LatestOfAsset(new, i)
  BY <1>1, <1>2, <1>3, <1>4, <1>6 DEF LatestOfAsset, SameAsset
<1>9. At(Restore(new), Upper[f.asset]) =
        {PositionOf(new[i]) : i \in {j \in LinesOf(new, Upper[f.asset]) :
              new[j].intent = "open" /\ LatestOfAsset(new, j)}}
  BY DEF At, Restore, LinesOf, PositionOf
<1>10. {j \in LinesOf(new, Upper[f.asset]) :
              new[j].intent = "open" /\ LatestOfAsset(new, j)} =
         IF f.intent = "open" THEN {n} ELSE {}
  BY <1>2, <1>3, <1>4, <1>7, <1>8 DEF LinesOf
<1>11. At(Restore(new), Upper[f.asset]) =
           IF f.intent = "open" THEN {PositionOf(f)} ELSE {}
  BY <1>2, <1>9, <1>10
<1> QED
  BY <1>11 DEF new

-----------------------------------------------------------------------------
(* What one append does, whatever its outcome *)

\* It changes what is restored only in the asset of the fill and in that of
\* an unfinished last line.
LEMMA AppendElsewhere ==
  ASSUME NEW log \in Seq(Line), NEW ended \in BOOLEAN, NEW f \in Fill,
         NEW outcome \in Outcomes, ~ ended => log # <<>>,
         NEW key, key # Upper[f.asset], key \notin TailKeys(log, ended)
  PROVE  At(Restore(LinesAfter(log, ended, f, outcome)), key) = At(Restore(log), key)
<1>1. CASE outcome = "refused"
  BY <1>1 DEF LinesAfter
<1>2. CASE outcome # "refused" /\ ended
  BY <1>2, AppendTorn, AppendOther DEF LinesAfter, AddText
<1>3. CASE outcome # "refused" /\ ~ ended
  <2>1. key \notin TailKeys(log, FALSE)
    BY <1>3 DEF TailKeys
  <2> QED
    BY <1>3, <2>1, GlueTail DEF LinesAfter, AddText
<1> QED
  BY <1>1, <1>2, <1>3

\* Afterwards the unfinished last line, if there is one, is the fill or the
\* line that was unfinished before.
LEMMA AppendTail ==
  ASSUME NEW log \in Seq(Line), NEW ended \in BOOLEAN, NEW f \in Fill,
         NEW outcome \in Outcomes, ~ ended => log # <<>>
  PROVE  TailKeys(LinesAfter(log, ended, f, outcome), SealedAfter(ended, outcome))
           \subseteq (IF outcome = "ok" THEN {} ELSE TailKeys(log, ended) \cup {Upper[f.asset]})
<1>1. CASE outcome = "ok"
  BY <1>1 DEF SealedAfter, TailKeys
<1>2. CASE outcome = "refused"
  BY <1>2 DEF SealedAfter, LinesAfter, TailKeys
<1>3. CASE outcome \in {"short", "noeol"}
  <2> DEFINE text == IF outcome = "short" THEN Torn ELSE f
             after == LinesAfter(log, ended, f, outcome)
  <2>1. CASE ended
    <3>1. after = Append(log, text)
      BY <1>3, <2>1 DEF LinesAfter, AddText
    <3>2. after[Len(after)] = text
      BY <3>1
    <3> QED
      BY <1>3, <3>2 DEF TailKeys
  <2>2. CASE ~ ended
    <3>1. after = [log EXCEPT ![Len(log)] = Torn]
      BY <1>3, <2>2 DEF LinesAfter, AddText
    <3>2. Len(log) \in 1 .. Len(log) /\ Torn \in Line
      BY <2>2, EmptySeq DEF Line
    <3>3. after[Len(after)] = Torn
      BY <3>1, <3>2, ExceptSeq
    <3> QED
      BY <3>3 DEF TailKeys
  <2> QED
    BY <2>1, <2>2
<1> QED
  BY <1>1, <1>2, <1>3 DEF Outcomes

\* It adds no stamp but the fill's own.
LEMMA AppendStamps ==
  ASSUME NEW log \in Seq(Line), NEW ended \in BOOLEAN, NEW f \in Fill,
         NEW outcome \in Outcomes, ~ ended => log # <<>>,
         NEW t, f.filled_at <= t, \A i \in Whole(log) : log[i].filled_at <= t
  PROVE  LET after == LinesAfter(log, ended, f, outcome)
         IN \A i \in Whole(after) : after[i].filled_at <= t
<1> DEFINE text == IF outcome = "short" THEN Torn ELSE f
<1>1. CASE outcome = "refused"
  BY <1>1 DEF LinesAfter
<1>2. CASE outcome # "refused" /\ ended
  <2>1. LinesAfter(log, ended, f, outcome) = Append(log, text)
    BY <1>2 DEF LinesAfter, AddText
  <2>2. \A i \in Whole(Append(log, text)) :
            \/ i \in Whole(log) /\ Append(log, text)[i] = log[i]
            \/ Append(log, text)[i] = f
    BY DEF Whole
  <2> QED
    BY <2>1, <2>2
<1>3. CASE outcome # "refused" /\ ~ ended
  <2> DEFINE glued == [log EXCEPT ![Len(log)] = Torn]
  <2>1. LinesAfter(log, ended, f, outcome) = glued
    BY <1>3 DEF LinesAfter, AddText
  <2>2. Len(log) \in 1 .. Len(log) /\ Torn \in Line
    BY <1>3, EmptySeq DEF Line
  <2>3. /\ glued \in Seq(Line) /\ Len(glued) = Len(log)
        /\ \A j \in 1 .. Len(log) : glued[j] = IF j = Len(log) THEN Torn ELSE log[j]
    BY <2>2, ExceptSeq
  <2>4. \A i \in Whole(glued) : i \in Whole(log) /\ glued[i] = log[i]
    BY <2>3 DEF Whole
  <2> QED
    BY <2>1, <2>4
<1> QED
  BY <1>1, <1>2, <1>3

-----------------------------------------------------------------------------
(* The invariant is inductive *)

\* The invariant holds of an empty log and a process not yet started.
LEMMA InitInvariant == Init => IInv
<1> SUFFICES ASSUME Init PROVE IInv
  OBVIOUS
<1> USE DaemonAssumption
<1>1. TypeOK
  BY DEF Init, TypeOK, Locations, Trail, NoRows
<1>2. OnePerAsset
  BY DEF Init, OnePerAsset
<1>3. TailSuspect
  BY DEF Init, TailSuspect, TailKeys
<1>4. FillUnderWay
  BY DEF Init, FillUnderWay
<1>5. StampsBehind
  BY DEF Init, StampsBehind, Whole
<1>6. Contained
  BY DEF Init, Contained, DamageContained, At, Restore, Whole
<1> QED
  BY <1>1, <1>2, <1>3, <1>4, <1>5, <1>6 DEF IInv

\* Every value Utc::now() may return is a time stamp, and without clock steps
\* none lies before the last one.
LEMMA StampsType ==
  ASSUME clock \in Nat, NEW now \in Stamps
  PROVE  now \in Nat /\ ("clock" \notin Faults => clock <= now)
  BY DaemonAssumption DEF Stamps

\* The fill of an entry that passed the gate has integer fields.
LEMMA OpenFillType ==
  ASSUME snapshot \in Snapshot, snapshot.mid > 0, Verdict.kind = "open", NEW now \in Nat
  PROVE  SimulateFill(snapshot.asset, Verdict.side, OrderSize, snapshot.mid, "open", now)
           \in Fill
<1>1. OrderSize \in Int
  BY DaemonAssumption DEF OrderSize, Snapshot
<1>2. Verdict.side \in Side
  BY VerdictType DEF Decisions, Open, Close, Hold
<1> QED
  BY <1>1, <1>2 DEF SimulateFill, Fill, Snapshot, Intents

\* A position that decide closes is held, and is the asset's only one.
LEMMA CloseIsHeld ==
  ASSUME TypeOK, OnePerAsset, Verdict.kind = "close"
  PROVE  /\ PositionFor(portfolio, snapshot.asset) \in portfolio
         /\ SameAsset(PositionFor(portfolio, snapshot.asset).asset, snapshot.asset)
         /\ HeldIn(ClosePosition(portfolio, snapshot.asset), snapshot.asset) = {}
         /\ \A key : key # Upper[snapshot.asset] =>
                At(ClosePosition(portfolio, snapshot.asset), key) = At(portfolio, key)
<1>1. HeldIn(portfolio, snapshot.asset) # {}
  BY DEF Verdict, Decide, DecideFlat, Hold, Open
<1>2. PositionFor(portfolio, snapshot.asset) \in HeldIn(portfolio, snapshot.asset)
  BY <1>1 DEF PositionFor
<1>3. \A p \in HeldIn(portfolio, snapshot.asset) :
          p = PositionFor(portfolio, snapshot.asset)
  BY <1>2 DEF OnePerAsset, HeldIn, SameAsset
<1> QED
  BY <1>2, <1>3 DEF HeldIn, ClosePosition, At, SameAsset

\* The fill of a close has integer fields too.
LEMMA CloseFillType ==
  ASSUME TypeOK, snapshot \in Snapshot, NEW pos \in portfolio, NEW now \in Nat
  PROVE  SimulateFill(pos.asset, Flip(pos.side), pos.size, snapshot.mid, "close", now)
           \in Fill
  BY DEF TypeOK, SimulateFill, Fill, Snapshot, Intents, Position, Flip, Side

\* A step that leaves log, portfolio and history alone keeps what relates them.
LEMMA QuietStep ==
  ASSUME IInv, UNCHANGED <<lines, sealed, portfolio, clock, suspect>>,
         InFlight \subseteq InFlight'
  PROVE  OnePerAsset' /\ TailSuspect' /\ StampsBehind' /\ Contained'
<1>1. OnePerAsset' /\ TailSuspect' /\ StampsBehind'
  BY DEF IInv, OnePerAsset, TailSuspect, StampsBehind
<1>2. Contained'
  BY DEF IInv, Contained, DamageContained
<1> QED
  BY <1>1, <1>2

\* What an append, completed or cut short, keeps of the invariant.
LEMMA AppendStep ==
  ASSUME IInv, pc = "append", NEW outcome \in Outcomes,
         lines' = LinesAfter(lines, sealed, fill, outcome),
         sealed' = SealedAfter(sealed, outcome),
         suspect' = SuspectAfter(outcome),
         clock' = clock
  PROVE  /\ lines' \in Seq(Line) /\ sealed' \in BOOLEAN /\ suspect' \in SUBSET Keys
         /\ TailSuspect' /\ StampsBehind'
         /\ \A key \in Keys \ (suspect' \cup {Upper[fill.asset]}) :
                key \notin suspect /\ At(Restore(lines'), key) = At(Restore(lines), key)
         /\ "clock" \notin Faults /\ Upper[fill.asset] \notin suspect' =>
                At(Restore(lines'), Upper[fill.asset]) =
                    IF fill.intent = "open" THEN {PositionOf(fill)} ELSE {}
<1>1. /\ lines \in Seq(Line) /\ sealed \in BOOLEAN /\ suspect \in SUBSET Keys
      /\ clock \in Nat /\ fill \in Fill /\ fill.filled_at = clock
      /\ ~ sealed => lines # <<>>
      /\ TailKeys(lines, sealed) \subseteq suspect
  BY DEF IInv, TypeOK, FillUnderWay, TailSuspect
<1>2. Upper[fill.asset] \in Keys
  BY <1>1, KeyOfAsset DEF Fill
<1>3. /\ lines' \in Seq(Line) /\ sealed' \in BOOLEAN
      /\ ~ sealed' => lines' # <<>>
  BY <1>1, LinesAfterType
<1>4. suspect' \in SUBSET Keys
  BY <1>1, <1>2 DEF SuspectAfter
<1>5. TailKeys(lines', sealed') \subseteq suspect'
  <2>1. CASE outcome = "ok"
    <3>1. TailKeys(lines', sealed') = {}
      BY <1>1, <2>1, AppendTail
    <3> QED
      BY <3>1
  <2>2. CASE outcome # "ok"
    <3>1. TailKeys(lines', sealed')
            \subseteq TailKeys(lines, sealed) \cup {Upper[fill.asset]}
      BY <1>1, <2>2, AppendTail
    <3>2. suspect' = suspect \cup {Upper[fill.asset]}
      BY <2>2 DEF SuspectAfter
    <3> QED
      BY <1>1, <3>1, <3>2
  <2> QED
    BY <2>1, <2>2
<1>6. StampsBehind'
  <2> SUFFICES ASSUME "clock" \notin Faults
               PROVE  \A i \in Whole(lines') : lines'[i].filled_at <= clock
    BY DEF StampsBehind
  <2>1. \A i \in Whole(lines) : lines[i].filled_at <= clock
    BY DEF IInv, StampsBehind
  <2>2. fill.filled_at <= clock
    BY <1>1
  <2> QED
    BY <1>1, <2>1, <2>2, AppendStamps
<1>7. ASSUME NEW key \in Keys \ (suspect' \cup {Upper[fill.asset]})
      PROVE  key \notin suspect /\ At(Restore(lines'), key) = At(Restore(lines), key)
  <2>1. key \notin suspect
    BY <1>7 DEF SuspectAfter
  <2>2. key \notin TailKeys(lines, sealed)
    BY <1>1, <2>1
  <2> QED
    BY <1>1, <1>7, <2>1, <2>2, AppendElsewhere
<1>8. ASSUME "clock" \notin Faults, Upper[fill.asset] \notin suspect'
      PROVE  At(Restore(lines'), Upper[fill.asset]) =
                 IF fill.intent = "open" THEN {PositionOf(fill)} ELSE {}
  <2>1. sealed /\ outcome = "ok"
    BY <1>8 DEF SuspectAfter
  <2>2. lines' = Append(lines, fill)
    BY <2>1 DEF LinesAfter, AddText
  <2>3. \A i \in Whole(lines) : lines[i].filled_at <= fill.filled_at
    BY <1>1, <1>8 DEF IInv, StampsBehind
  <2> QED
    BY <1>1, <2>2, <2>3, AppendOwn
<1> QED
  BY <1>3, <1>4, <1>5, <1>6, <1>7, <1>8 DEF TailSuspect

\* Every step of the daemon, and of its death, keeps the invariant.
LEMMA NextInvariant == IInv /\ [Next]_vars => IInv'
<1> SUFFICES ASSUME IInv, [Next]_vars PROVE IInv'
  OBVIOUS
<1> USE DaemonAssumption
<1>a. TypeOK /\ OnePerAsset /\ TailSuspect /\ FillUnderWay /\ StampsBehind /\ Contained
  BY DEF IInv
<1>1. CASE Start
  <2>1. Restore(lines) \in SUBSET Position
    BY <1>a, RestoreType DEF TypeOK
  <2>2. TailKeys(lines, sealed) \subseteq suspect /\ suspect \in SUBSET Keys
    BY <1>a DEF TailSuspect, TypeOK
  <2>3. TypeOK'
    BY <1>1, <1>a, <2>1, <2>2 DEF Start, disk, TypeOK, Locations
  <2>4. OnePerAsset'
    BY <1>1, <1>a, RestoreUnique DEF Start, OnePerAsset, TypeOK
  <2>5. TailSuspect' /\ StampsBehind' /\ FillUnderWay'
    BY <1>1, <1>a DEF Start, disk, TailSuspect, StampsBehind, FillUnderWay
  <2>6. Contained'
    BY <1>1 DEF Start, disk, Contained, DamageContained
  <2> QED
    BY <2>3, <2>4, <2>5, <2>6 DEF IInv
<1>2. CASE Tick
  <2>1. TypeOK' /\ FillUnderWay'
    BY <1>2, <1>a DEF Tick, disk, TypeOK, Locations, FillUnderWay
  <2>2. OnePerAsset' /\ TailSuspect' /\ StampsBehind' /\ Contained'
    BY <1>2, QuietStep DEF Tick, disk, InFlight
  <2> QED
    BY <2>1, <2>2 DEF IInv
<1>3. CASE FetchOk
  <2>1. Head(queue) \in Assets
    BY <1>3, <1>a DEF FetchOk, TypeOK
  <2>2. TypeOK' /\ FillUnderWay'
    BY <1>3, <1>a, <2>1 DEF FetchOk, disk, TypeOK, Locations, FillUnderWay, Snapshot
  <2>3. OnePerAsset' /\ TailSuspect' /\ StampsBehind' /\ Contained'
    BY <1>3, QuietStep DEF FetchOk, disk, InFlight
  <2> QED
    BY <2>2, <2>3 DEF IInv
<1>4. CASE FetchErr
  <2>1. TypeOK' /\ FillUnderWay'
    BY <1>4, <1>a DEF FetchErr, disk, TypeOK, Locations, FillUnderWay
  <2>2. OnePerAsset' /\ TailSuspect' /\ StampsBehind' /\ Contained'
    BY <1>4, QuietStep DEF FetchErr, disk, InFlight
  <2> QED
    BY <2>1, <2>2 DEF IInv
<1>5. CASE PollDone
  <2>1. TypeOK' /\ FillUnderWay'
    BY <1>5, <1>a DEF PollDone, disk, TypeOK, Locations, FillUnderWay
  <2>2. OnePerAsset' /\ TailSuspect' /\ StampsBehind' /\ Contained'
    BY <1>5, QuietStep DEF PollDone, disk, InFlight
  <2> QED
    BY <2>1, <2>2 DEF IInv
<1>6. CASE Observe
  <2>1. TypeOK' /\ FillUnderWay'
    BY <1>6, <1>a DEF Observe, WriteResults, disk, TypeOK, Locations, Trail, FillUnderWay
  <2>2. OnePerAsset' /\ TailSuspect' /\ StampsBehind' /\ Contained'
    BY <1>6, QuietStep DEF Observe, disk, InFlight
  <2> QED
    BY <2>1, <2>2 DEF IInv
<1>7. CASE DecideHold \/ OpenVetoed
  <2>1. pc = "decide" /\ pc' = "record" /\ decision' = Verdict
        /\ UNCHANGED <<lines, sealed, portfolio, queue, snapshot, fill, trail,
                       clock, min_liq_buffer, suspect>>
    BY <1>7 DEF DecideHold, OpenVetoed, disk
  <2>2. TypeOK' /\ FillUnderWay'
    BY <1>a, <2>1, VerdictType DEF TypeOK, Locations, FillUnderWay
  <2>3. OnePerAsset' /\ TailSuspect' /\ StampsBehind' /\ Contained'
    BY <2>1, QuietStep DEF InFlight
  <2> QED
    BY <2>2, <2>3 DEF IInv
<1>8. CASE OpenFilled
  <2>1. PICK now \in Stamps :
            /\ fill' = SimulateFill(snapshot.asset, Verdict.side, OrderSize,
                                    snapshot.mid, "open", now)
            /\ clock' = now
    BY <1>8 DEF OpenFilled
  <2>2. /\ pc = "decide" /\ pc' = "append" /\ decision' = Verdict
        /\ snapshot.mid > 0 /\ Verdict.kind = "open"
        /\ UNCHANGED <<lines, sealed, portfolio, queue, snapshot, trail,
                       min_liq_buffer, suspect>>
    BY <1>8 DEF OpenFilled, disk
  <2>3. snapshot \in Snapshot /\ queue # <<>>
    BY <1>a, <2>2 DEF FillUnderWay
  <2>4. now \in Nat /\ ("clock" \notin Faults => clock <= now)
    BY <1>a, StampsType DEF TypeOK
  <2>5. fill' \in Fill
    BY <2>1, <2>2, <2>3, <2>4, OpenFillType
  <2>6. TypeOK'
    BY <1>a, <2>1, <2>2, <2>4, <2>5, VerdictType DEF TypeOK, Locations
  <2>7. HeldIn(portfolio, snapshot.asset) = {}
    BY <2>2 DEF Verdict, Decide, DecideHeld, Close, Hold
  <2>8. FillUnderWay'
    BY <2>1, <2>2, <2>3, <2>5, <2>7 DEF FillUnderWay, SimulateFill, SameAsset
  <2>9. OnePerAsset' /\ TailSuspect'
    BY <1>a, <2>2 DEF OnePerAsset, TailSuspect
  <2>10. StampsBehind'
    <3> SUFFICES ASSUME "clock" \notin Faults, NEW i \in Whole(lines)
                 PROVE  lines[i].filled_at <= now
      BY <2>1, <2>2 DEF StampsBehind
    <3>1. lines[i].filled_at <= clock
      BY <1>a DEF StampsBehind
    <3>2. lines[i].filled_at \in Int /\ clock \in Int /\ now \in Int
      BY <1>a, <2>4, WholeLine DEF TypeOK, Fill
    <3> QED
      BY <2>4, <3>1, <3>2
  <2>11. Contained'
    BY <1>a, <2>2 DEF Contained, DamageContained, InFlight
  <2> QED
    BY <2>6, <2>8, <2>9, <2>10, <2>11 DEF IInv
<1>9. CASE CloseFilled
  <2> DEFINE pos == PositionFor(portfolio, snapshot.asset)
  <2>1. PICK now \in Stamps :
            /\ fill' = SimulateFill(pos.asset, Flip(pos.side), pos.size,
                                    snapshot.mid, "close", now)
            /\ clock' = now
    BY <1>9 DEF CloseFilled
  <2>2. /\ pc = "decide" /\ pc' = "append" /\ decision' = Verdict
        /\ Verdict.kind = "close"
        /\ portfolio' = ClosePosition(portfolio, snapshot.asset)
        /\ UNCHANGED <<lines, sealed, queue, snapshot, trail, min_liq_buffer, suspect>>
    BY <1>9 DEF CloseFilled, disk
  <2>3. snapshot \in Snapshot /\ queue # <<>>
    BY <1>a, <2>2 DEF FillUnderWay
  <2>4. now \in Nat /\ ("clock" \notin Faults => clock <= now)
    BY <1>a, StampsType DEF TypeOK
  <2>5. /\ pos \in portfolio /\ SameAsset(pos.asset, snapshot.asset)
        /\ HeldIn(portfolio', snapshot.asset) = {}
        /\ \A key : key # Upper[snapshot.asset] =>
               At(portfolio', key) = At(portfolio, key)
    BY <1>a, <2>2, CloseIsHeld
  <2> HIDE DEF pos
  <2>6. fill' \in Fill
    BY <1>a, <2>1, <2>3, <2>4, <2>5, CloseFillType
  <2>7. portfolio' \subseteq portfolio
    BY <2>2 DEF ClosePosition
  <2>8. TypeOK'
    BY <1>a, <2>1, <2>2, <2>4, <2>6, <2>7, VerdictType DEF TypeOK, Locations
  <2>9. FillUnderWay'
    BY <2>1, <2>2, <2>3, <2>5, <2>6 DEF FillUnderWay, SimulateFill, SameAsset
  <2>10. OnePerAsset' /\ TailSuspect'
    BY <1>a, <2>2, <2>7 DEF OnePerAsset, TailSuspect
  <2>11. StampsBehind'
    <3> SUFFICES ASSUME "clock" \notin Faults, NEW i \in Whole(lines)
                 PROVE  lines[i].filled_at <= now
      BY <2>1, <2>2 DEF StampsBehind
    <3>1. lines[i].filled_at <= clock
      BY <1>a DEF StampsBehind
    <3>2. lines[i].filled_at \in Int /\ clock \in Int /\ now \in Int
      BY <1>a, <2>4, WholeLine DEF TypeOK, Fill
    <3> QED
      BY <2>4, <3>1, <3>2
  <2>12. Contained'
    BY <1>a, <2>2, <2>5 DEF Contained, DamageContained, InFlight
  <2> QED
    BY <2>8, <2>9, <2>10, <2>11, <2>12 DEF IInv
<1>10. CASE AppendFill
  <2>1. PICK outcome \in AppendOutcomes :
            /\ lines' = LinesAfter(lines, sealed, fill, outcome)
            /\ sealed' = SealedAfter(sealed, outcome)
            /\ suspect' = SuspectAfter(outcome)
            /\ trail' = [trail EXCEPT !.fill = (outcome = "ok")]
    BY <1>10 DEF AppendFill
  <2>2. /\ pc = "append" /\ pc' = IF fill.intent = "open" THEN "commit" ELSE "record"
        /\ UNCHANGED <<portfolio, queue, snapshot, decision, fill, clock, min_liq_buffer>>
    BY <1>10 DEF AppendFill
  <2>3. outcome \in Outcomes
    BY DEF AppendOutcomes, Outcomes
  <2>4. /\ snapshot \in Snapshot /\ queue # <<>> /\ fill \in Fill
        /\ Upper[fill.asset] = Upper[snapshot.asset] /\ fill.filled_at = clock
        /\ HeldIn(portfolio, snapshot.asset) = {}
    BY <1>a, <2>2 DEF FillUnderWay, SameAsset
  <2>5. /\ lines' \in Seq(Line) /\ sealed' \in BOOLEAN /\ suspect' \in SUBSET Keys
        /\ TailSuspect' /\ StampsBehind'
    BY <2>1, <2>2, <2>3, AppendStep
  <2>6. \A key \in Keys \ (suspect' \cup {Upper[fill.asset]}) :
            key \notin suspect /\ At(Restore(lines'), key) = At(Restore(lines), key)
    BY <2>1, <2>2, <2>3, AppendStep
  <2>7. "clock" \notin Faults /\ Upper[fill.asset] \notin suspect' =>
            At(Restore(lines'), Upper[fill.asset]) =
                IF fill.intent = "open" THEN {PositionOf(fill)} ELSE {}
    BY <2>1, <2>2, <2>3, AppendStep
  <2>8. TypeOK'
    BY <1>a, <2>1, <2>2, <2>5 DEF TypeOK, Locations, Trail
  <2>9. OnePerAsset'
    BY <1>a, <2>2 DEF OnePerAsset
  <2>10. FillUnderWay'
    BY <2>2, <2>4, <2>7 DEF FillUnderWay, SameAsset
  <2>11. Contained'
    <3> SUFFICES ASSUME "clock" \notin Faults,
                        NEW key \in Keys \ (suspect' \cup InFlight')
                 PROVE  At(portfolio', key) = At(Restore(lines'), key)
      BY DEF Contained, DamageContained
    <3>1. CASE key # Upper[fill.asset]
      <4>1. key \notin suspect /\ At(Restore(lines'), key) = At(Restore(lines), key)
        BY <2>6, <3>1
      <4>2. key \notin InFlight
        BY <2>4, <3>1 DEF InFlight
      <4> QED
        BY <1>a, <2>2, <4>1, <4>2 DEF Contained, DamageContained
    <3>2. CASE key = Upper[fill.asset]
      <4>1. fill.intent # "open"
        BY <2>2, <2>4, <3>2 DEF InFlight
      <4>2. At(Restore(lines'), key) = {}
        BY <2>7, <3>2, <4>1
      <4>3. At(portfolio', key) = {}
        BY <2>2, <2>4, <3>2 DEF At, HeldIn, SameAsset
      <4> QED
        BY <4>2, <4>3
    <3> QED
      BY <3>1, <3>2
  <2> QED
    BY <2>5, <2>8, <2>9, <2>10, <2>11 DEF IInv
<1>11. CASE CommitOpen
  <2>1. /\ pc = "commit" /\ pc' = "record"
        /\ portfolio' = OpenPosition(portfolio, PositionOf(fill))
        /\ UNCHANGED <<lines, sealed, queue, snapshot, decision, fill, trail, clock,
                       min_liq_buffer, suspect>>
    BY <1>11 DEF CommitOpen, disk
  <2>2. /\ snapshot \in Snapshot /\ queue # <<>> /\ fill \in Fill
        /\ Upper[fill.asset] = Upper[snapshot.asset]
        /\ PositionOf(fill).asset = fill.asset
    BY <1>a, <2>1 DEF FillUnderWay, SameAsset, PositionOf
  <2>3. PositionOf(fill) \in Position
    BY <2>2, PositionOfType
  <2>4. TypeOK'
    BY <1>a, <2>1, <2>3 DEF TypeOK, Locations, OpenPosition
  <2>5. OnePerAsset'
    BY <1>a, <2>1 DEF OnePerAsset, OpenPosition, SameAsset
  <2>6. TailSuspect' /\ StampsBehind' /\ FillUnderWay'
    BY <1>a, <2>1, <2>2 DEF TailSuspect, StampsBehind, FillUnderWay
  <2>7. Contained'
    <3> SUFFICES ASSUME "clock" \notin Faults,
                        NEW key \in Keys \ (suspect' \cup InFlight')
                 PROVE  At(portfolio', key) = At(Restore(lines'), key)
      BY DEF Contained, DamageContained
    <3>1. CASE key # Upper[fill.asset]
      <4>1. key \notin InFlight /\ key \notin suspect
        BY <2>1, <2>2, <3>1 DEF InFlight
      <4>2. At(portfolio', key) = At(portfolio, key)
        BY <2>1, <2>2, <3>1 DEF At, OpenPosition, SameAsset
      <4> QED
        BY <1>a, <2>1, <4>1, <4>2 DEF Contained, DamageContained
    <3>2. CASE key = Upper[fill.asset]
      <4>1. At(Restore(lines'), key) = {PositionOf(fill)}
        BY <1>a, <2>1, <3>2 DEF FillUnderWay
      <4>2. At(portfolio', key) = {PositionOf(fill)}
        BY <2>1, <2>2, <3>2 DEF At, OpenPosition, SameAsset
      <4> QED
        BY <4>1, <4>2
    <3> QED
      BY <3>1, <3>2
  <2> QED
    BY <2>4, <2>5, <2>6, <2>7 DEF IInv
<1>12. CASE RecordDecision
  <2>1. TypeOK' /\ FillUnderWay'
    BY <1>12, <1>a DEF RecordDecision, WriteResults, disk, TypeOK, Locations, Trail,
                       FillUnderWay
  <2>2. OnePerAsset' /\ TailSuspect' /\ StampsBehind' /\ Contained'
    BY <1>12, QuietStep DEF RecordDecision, disk, InFlight
  <2> QED
    BY <2>1, <2>2 DEF IInv
<1>13. CASE NextAsset
  <2>1. queue # <<>>
    BY <1>13, <1>a DEF NextAsset, FillUnderWay
  <2>2. TypeOK' /\ FillUnderWay'
    BY <1>13, <1>a, <2>1 DEF NextAsset, disk, TypeOK, Locations, Trail, NoRows, FillUnderWay
  <2>3. OnePerAsset' /\ TailSuspect' /\ StampsBehind' /\ Contained'
    BY <1>13, QuietStep DEF NextAsset, disk, InFlight
  <2> QED
    BY <2>2, <2>3 DEF IInv
<1>14. CASE Crash
  <2>1. InFlight \subseteq Keys
    BY <1>a, KeyOfAsset DEF InFlight, FillUnderWay, Snapshot
  <2>2. TypeOK' /\ FillUnderWay'
    BY <1>14, <1>a, <2>1 DEF Crash, Die, disk, TypeOK, Locations, Trail, NoRows, FillUnderWay
  <2>3. OnePerAsset' /\ TailSuspect' /\ StampsBehind'
    BY <1>14, <1>a DEF Crash, Die, disk, OnePerAsset, TailSuspect, StampsBehind
  <2>4. Contained'
    BY <1>14, <1>a DEF Crash, Die, disk, Contained, DamageContained
  <2> QED
    BY <2>2, <2>3, <2>4 DEF IInv
<1>15. CASE CrashInAppend
  <2>1. PICK outcome \in {"short", "noeol"} :
            /\ lines' = LinesAfter(lines, sealed, fill, outcome)
            /\ sealed' = SealedAfter(sealed, outcome)
            /\ suspect' = SuspectAfter(outcome)
    BY <1>15 DEF CrashInAppend
  <2>2. /\ pc = "append" /\ pc' = "down" /\ outcome \in Outcomes
        /\ queue' = <<>> /\ snapshot' = None /\ decision' = None /\ fill' = None
        /\ trail' = NoRows
        /\ UNCHANGED <<portfolio, clock, min_liq_buffer>>
    BY <1>15 DEF CrashInAppend, Die, Outcomes
  <2>3. /\ lines' \in Seq(Line) /\ sealed' \in BOOLEAN /\ suspect' \in SUBSET Keys
        /\ TailSuspect' /\ StampsBehind'
    BY <2>1, <2>2, AppendStep
  <2>4. \A key \in Keys \ (suspect' \cup {Upper[fill.asset]}) :
            key \notin suspect /\ At(Restore(lines'), key) = At(Restore(lines), key)
    BY <2>1, <2>2, AppendStep
  <2>5. TypeOK' /\ FillUnderWay'
    BY <1>a, <2>2, <2>3 DEF TypeOK, Locations, Trail, NoRows, FillUnderWay
  <2>6. OnePerAsset'
    BY <1>a, <2>2 DEF OnePerAsset
  <2>7. Contained'
    <3> SUFFICES ASSUME "clock" \notin Faults, NEW key \in Keys \ suspect'
                 PROVE  At(portfolio', key) = At(Restore(lines'), key)
      BY DEF Contained, DamageContained
    <3>1. key # Upper[fill.asset]
      BY <2>1 DEF SuspectAfter
    <3>2. key \notin InFlight
      BY <1>a, <2>2, <3>1 DEF InFlight, FillUnderWay, SameAsset
    <3> QED
      BY <1>a, <2>2, <2>4, <3>1, <3>2 DEF Contained, DamageContained
  <2> QED
    BY <2>3, <2>5, <2>6, <2>7 DEF IInv
<1>16. CASE UNCHANGED vars
  <2>1. TypeOK' /\ FillUnderWay'
    BY <1>16, <1>a DEF vars, TypeOK, FillUnderWay
  <2>2. OnePerAsset' /\ TailSuspect' /\ StampsBehind' /\ Contained'
    BY <1>16, QuietStep DEF vars, InFlight
  <2> QED
    BY <2>1, <2>2 DEF IInv
<1> QED
  BY <1>1, <1>2, <1>3, <1>4, <1>5, <1>6, <1>7, <1>8, <1>9, <1>10, <1>11, <1>12,
     <1>13, <1>14, <1>15, <1>16 DEF Next

\* The inductive invariant of the daemon holds throughout, for every fault.
THEOREM Invariance == Spec => []IInv
<1>1. Init => IInv
  BY InitInvariant
<1>2. IInv /\ [Next]_vars => IInv'
  BY NextInvariant
<1> QED
  BY <1>1, <1>2, PTL DEF Spec

-----------------------------------------------------------------------------
(* Theorems under every fault *)

\* Type correctness, for every fault.
THEOREM TypeCorrect == Spec => []TypeOK
<1>1. IInv => TypeOK
  BY DEF IInv
<1> QED
  BY <1>1, Invariance, PTL

\* The bot never holds two positions of one asset, however assets are spelled
\* and whatever is lost, torn or stamped backwards in the log it restores.
THEOREM AtMostOnePosition == Spec => []OnePerAsset
<1>1. IInv => OnePerAsset
  BY DEF IInv
<1> QED
  BY <1>1, Invariance, PTL

\* Unless the clock steps back, memory and log agree on every asset whose last
\* append succeeded: failed, torn and glued appends damage no other asset.
THEOREM DamageIsContained ==
  ASSUME "clock" \notin Faults
  PROVE  Spec => []DamageContained
<1>1. IInv => DamageContained
  BY DEF IInv, Contained
<1> QED
  BY <1>1, Invariance, PTL

\* A respawn changes no holding whose last append succeeded.
THEOREM RespawnKeepsHoldings ==
  ASSUME "clock" \notin Faults
  PROVE  Spec => RestartPreserves
<1>1. IInv => (Start => \A key \in Keys \ suspect :
                            At(portfolio', key) = At(portfolio, key))
  BY DEF IInv, Contained, DamageContained, Start, InFlight
<1> QED
  BY <1>1, Invariance, PTL DEF RestartPreserves

-----------------------------------------------------------------------------
(* Theorems for a process that only dies: no write fails, no clock steps *)

\* Without write faults an append is complete.
LEMMA CleanAppend ==
  ASSUME Faults = {}, sealed, AppendFill
  PROVE  /\ lines' = Append(lines, fill) /\ sealed'
         /\ suspect' = suspect \ {Upper[fill.asset]}
  BY DEF AppendFill, AppendOutcomes, LinesAfter, AddText, SealedAfter, SuspectAfter

\* An asset that is neither suspect nor in flight is on disk as in memory.
LEMMA CleanAgreement ==
  ASSUME IInv, CrashOnly, Faults = {}, pc # "down", pc \notin {"append", "commit"}
  PROVE  \A key \in Keys : At(portfolio, key) = At(Restore(lines), key)
  BY DEF IInv, CrashOnly, Contained, DamageContained, InFlight

\* Without write faults every step keeps the crash-only strengthening too.
LEMMA NextCrashOnly == IInv /\ CrashOnly /\ [Next]_vars => CrashOnly'
<1> SUFFICES ASSUME IInv, CrashOnly, [Next]_vars, Faults = {}
             PROVE  CrashOnly'
  BY DEF CrashOnly
<1>a. /\ sealed /\ (pc # "down" => suspect = {})
      /\ pc = "append" =>
             (fill.intent = "open" <=> At(Restore(lines), Upper[fill.asset]) = {})
  BY DEF CrashOnly
<1>1. CASE Start
  BY <1>1, <1>a DEF Start, disk, TailKeys, CrashOnly
<1>2. CASE \/ Tick \/ FetchOk \/ FetchErr \/ PollDone \/ Observe \/ DecideHold
           \/ OpenVetoed \/ CommitOpen \/ RecordDecision \/ NextAsset
  <2>1. pc # "down" /\ pc' \notin {"append", "down"} /\ UNCHANGED <<sealed, suspect>>
    BY <1>2 DEF Tick, FetchOk, FetchErr, PollDone, Observe, DecideHold, OpenVetoed,
                CommitOpen, RecordDecision, NextAsset, disk
  <2> QED
    BY <1>a, <2>1 DEF CrashOnly
<1>3. CASE OpenFilled
  <2>1. /\ pc = "decide" /\ pc' = "append" /\ UNCHANGED <<lines, sealed, suspect>>
        /\ fill'.intent = "open" /\ fill'.asset = snapshot.asset
        /\ Verdict.kind = "open"
    BY <1>3 DEF OpenFilled, disk, SimulateFill
  <2>2. snapshot.asset \in Assets
    BY <2>1 DEF IInv, FillUnderWay, Snapshot
  <2>3. HeldIn(portfolio, snapshot.asset) = {}
    BY <2>1 DEF Verdict, Decide, DecideHeld, Close, Hold
  <2>4. At(Restore(lines), Upper[snapshot.asset]) = {}
    BY <2>1, <2>2, <2>3, CleanAgreement, KeyOfAsset DEF At, HeldIn, SameAsset
  <2> QED
    BY <1>a, <2>1, <2>4 DEF CrashOnly
<1>4. CASE CloseFilled
  <2> DEFINE pos == PositionFor(portfolio, snapshot.asset)
  <2>1. /\ pc = "decide" /\ pc' = "append" /\ UNCHANGED <<lines, sealed, suspect>>
        /\ fill'.intent = "close" /\ fill'.asset = pos.asset
        /\ Verdict.kind = "close"
    BY <1>4 DEF CloseFilled, disk, SimulateFill
  <2>2. pos \in portfolio /\ SameAsset(pos.asset, snapshot.asset)
    BY <2>1, CloseIsHeld DEF IInv
  <2> HIDE DEF pos
  <2>3. pos.asset \in Assets
    BY <2>2 DEF IInv, TypeOK, Position
  <2>4. pos \in At(portfolio, Upper[pos.asset])
    BY <2>2 DEF At
  <2>5. At(Restore(lines), Upper[pos.asset]) # {}
    BY <2>1, <2>3, <2>4, CleanAgreement, KeyOfAsset
  <2> QED
    BY <1>a, <2>1, <2>5 DEF CrashOnly
<1>5. CASE AppendFill
  <2>1. pc = "append" /\ pc' \in {"commit", "record"}
    BY <1>5 DEF AppendFill
  <2>2. sealed' /\ suspect' = suspect \ {Upper[fill.asset]}
    BY <1>5, <1>a, CleanAppend
  <2> QED
    BY <1>a, <2>1, <2>2 DEF CrashOnly
<1>6. CASE Crash
  BY <1>6, <1>a DEF Crash, Die, disk, CrashOnly
<1>7. CASE CrashInAppend
  BY <1>7 DEF CrashInAppend
<1>8. CASE UNCHANGED vars
  BY <1>8, <1>a DEF vars, CrashOnly
<1> QED
  BY <1>1, <1>2, <1>3, <1>4, <1>5, <1>6, <1>7, <1>8 DEF Next

\* With no fault but death its strengthening holds too: a living daemon has no
\* suspect asset, and writes a fill only where it changes what is restored.
THEOREM CrashInvariance == Spec => []CrashInv
<1>1. Init => CrashOnly
  BY DEF Init, CrashOnly
<1>2. IInv /\ CrashOnly /\ [Next]_vars => CrashOnly'
  BY NextCrashOnly
<1> QED
  BY <1>1, <1>2, Invariance, PTL DEF Spec, CrashInv

\* What the strengthening says of a process between two polls.
LEMMA Resumes == ASSUME Faults = {}, CrashInv PROVE RespawnResumes
<1> SUFFICES ASSUME pc = "wait" PROVE portfolio = Restore(lines)
  BY DEF RespawnResumes
<1>1. \A key \in Keys : At(portfolio, key) = At(Restore(lines), key)
  BY CleanAgreement DEF CrashInv
<1>2. portfolio \subseteq Position /\ Restore(lines) \subseteq Position
  BY RestoreType DEF CrashInv, IInv, TypeOK
<1>3. ASSUME NEW p \in Position
      PROVE  p \in portfolio <=> p \in Restore(lines)
  <2>1. Upper[p.asset] \in Keys
    BY KeyOfAsset DEF Position
  <2> QED
    BY <1>1, <2>1 DEF At
<1> QED
  BY <1>2, <1>3

\* A process that only dies resumes where it left off: between polls, memory
\* is exactly what fills.jsonl restores.
THEOREM RespawnIsExact ==
  ASSUME Faults = {}
  PROVE  Spec => []RespawnResumes
<1>1. CrashInv => RespawnResumes
  BY Resumes
<1> QED
  BY <1>1, CrashInvariance, PTL

\* A fill stamped no earlier than the log enters an asset the book is flat in,
\* or closes a whole position.
LEMMA BookAppend ==
  ASSUME lines \in Seq(Line), NEW f \in Fill, lines' = Append(lines, f),
         \A i \in Whole(lines) : lines[i].filled_at <= f.filled_at,
         f.intent = "open" <=> At(Restore(lines), Upper[f.asset]) = {}
  PROVE  Book!BookNext
<1>1. At(Restore(lines'), Upper[f.asset]) = IF f.intent = "open" THEN {PositionOf(f)} ELSE {}
  BY AppendOwn
<1>2. \A key : key # Upper[f.asset] => At(Restore(lines'), key) = At(Restore(lines), key)
  BY AppendOther
<1>3. \A p : Upper[p.asset] # Upper[f.asset] =>
          (p \in Restore(lines') <=> p \in Restore(lines))
  BY <1>2 DEF At
<1>4. CASE f.intent = "open"
  <2> DEFINE p == PositionOf(f)
  <2>1. p.asset = f.asset
    BY DEF PositionOf
  <2>2. \A q \in Restore(lines) : ~ SameAsset(q.asset, p.asset)
    BY <1>4, <2>1 DEF At, SameAsset
  <2>3. Restore(lines') = Restore(lines) \cup {p}
    BY <1>1, <1>3, <1>4, <2>1 DEF At
  <2>4. p \in Restore(lines') \ Restore(lines)
    BY <2>2, <2>3 DEF SameAsset
  <2> QED
    BY <2>2, <2>3, <2>4 DEF Book!BookNext, Book!EnterPosition, Book!Flat,
                            Book!SameAsset, SameAsset
<1>5. CASE f.intent # "open"
  <2>1. PICK p \in Restore(lines) : Upper[p.asset] = Upper[f.asset]
    BY <1>5 DEF At
  <2>2. \A q \in Restore(lines) : Upper[q.asset] = Upper[f.asset] => q = p
    BY <2>1, RestoreUnique
  <2>3. Restore(lines') = Restore(lines) \ {p}
    BY <1>1, <1>3, <1>5, <2>1, <2>2 DEF At
  <2> QED
    BY <2>1, <2>3 DEF Book!BookNext, Book!ExitPosition
<1> QED
  BY <1>4, <1>5

\* What fills.jsonl restores is changed by one step only, the append of a fill.
LEMMA BookStep ==
  ASSUME Faults = {}, CrashInv, [Next]_vars
  PROVE  [Book!BookNext]_(Restore(lines))
<1>1. CASE AppendFill
  <2>1. /\ lines \in Seq(Line) /\ sealed /\ fill \in Fill /\ pc = "append"
        /\ \A i \in Whole(lines) : lines[i].filled_at <= fill.filled_at
        /\ fill.intent = "open" <=> At(Restore(lines), Upper[fill.asset]) = {}
    BY <1>1 DEF AppendFill, CrashInv, CrashOnly, IInv, TypeOK, FillUnderWay, StampsBehind
  <2>2. lines' = Append(lines, fill)
    BY <1>1, <2>1, CleanAppend
  <2> QED
    BY <2>1, <2>2, BookAppend
<1>2. CASE CrashInAppend
  BY <1>2 DEF CrashInAppend
<1>3. CASE ~ AppendFill /\ ~ CrashInAppend
  <2>1. lines' = lines
    BY <1>3 DEF Next, vars, Start, Tick, FetchOk, FetchErr, PollDone, Observe, DecideHold,
                OpenVetoed, OpenFilled, CloseFilled, CommitOpen, RecordDecision,
                NextAsset, Crash, disk
  <2> QED
    BY <2>1
<1> QED
  BY <1>1, <1>2, <1>3

\* A process that only dies implements the abstract book: to a reader of
\* fills.jsonl, deaths and respawns are invisible.
THEOREM DaemonImplementsBook ==
  ASSUME Faults = {}
  PROVE  Spec => ImplementsBook
<1>1. Init => Book!BookInit
  BY DEF Init, Book!BookInit, Restore, Whole
<1>2. CrashInv /\ [Next]_vars => [Book!BookNext]_(Restore(lines))
  BY BookStep
<1> QED
  BY <1>1, <1>2, CrashInvariance, PTL DEF Spec, ImplementsBook, Book!BookSpec

=============================================================================
