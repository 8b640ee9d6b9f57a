----------------------------- MODULE RoundProofs -----------------------------
(***************************************************************************)
(* More proofs about TradingDaemon, on top of its inductive invariant: the *)
(* rounds of the poll loop and the absence of churn, for every fault; what *)
(* a process that only dies leaves in its three logs.                      *)
(***************************************************************************)
EXTENDS TradingDaemonProofs

-----------------------------------------------------------------------------
(* The rounds *)

\* Between polls no asset is waiting.
Idle == pc \in {"down", "wait"} => queue = <<>>

\* It holds throughout.
LEMMA IdleInvariant == Spec => []Idle
<1>1. Init => Idle
  BY DEF Init, Idle
<1>2. Idle /\ [Next]_vars => Idle'
  <2> SUFFICES ASSUME Idle, [Next]_vars PROVE Idle'
    OBVIOUS
  <2>1. CASE Start \/ PollDone
    BY <2>1 DEF Start, PollDone, Idle
  <2>2. CASE Crash \/ CrashInAppend
    BY <2>2 DEF Crash, CrashInAppend, Die, Idle
  <2>3. CASE \/ Tick \/ FetchOk \/ Observe \/ DecideHold \/ OpenVetoed \/ OpenFilled
             \/ CloseFilled \/ AppendFill \/ CommitOpen \/ RecordDecision \/ NextAsset
    <3>1. pc' \notin {"down", "wait"}
      BY <2>3 DEF Tick, FetchOk, Observe, DecideHold, OpenVetoed, OpenFilled, CloseFilled,
                  AppendFill, CommitOpen, RecordDecision, NextAsset
    <3> QED
      BY <3>1 DEF Idle
  <2>4. CASE FetchErr \/ UNCHANGED vars
    BY <2>4 DEF FetchErr, vars, Idle
  <2> QED
    BY <2>1, <2>2, <2>3, <2>4 DEF Next
<1> QED
  BY <1>1, <1>2, PTL DEF Spec

\* Whatever the fetches and the writes do, the daemon goes through its assets
\* in order: none is skipped, repeated or lost to a fault short of death.
THEOREM DaemonImplementsRounds == Spec => ImplementsRounds
<1>1. Init => Rounds!RoundsInit
  BY DEF Init, Rounds!RoundsInit
<1>2. IInv /\ Idle /\ [Next]_vars => [Rounds!RoundsNext]_Rounds!roundVars
  <2> SUFFICES ASSUME IInv, Idle, [Next]_vars
               PROVE  [Rounds!RoundsNext]_Rounds!roundVars
    OBVIOUS
  <2> USE DEF Rounds!RoundsNext, Rounds!roundVars
  <2>1. CASE Start
    BY <2>1 DEF Start, Rounds!Appear, Idle
  <2>2. CASE Tick
    BY <2>2 DEF Tick, Rounds!BeginRound, Idle
  <2>3. CASE FetchErr
    BY <2>3 DEF FetchErr, Rounds!Visit
  <2>4. CASE NextAsset
    BY <2>4 DEF NextAsset, Rounds!Visit, IInv, FillUnderWay
  <2>5. CASE Crash \/ CrashInAppend
    BY <2>5 DEF Crash, CrashInAppend, Die, Rounds!Disappear
  <2>6. CASE \/ FetchOk \/ PollDone \/ Observe \/ DecideHold \/ OpenVetoed \/ OpenFilled
             \/ CloseFilled \/ AppendFill \/ CommitOpen \/ RecordDecision
             \/ UNCHANGED vars
    <3>1. (pc' # "down") = (pc # "down") /\ queue' = queue
      BY <2>6 DEF FetchOk, PollDone, Observe, DecideHold, OpenVetoed, OpenFilled,
                  CloseFilled, AppendFill, CommitOpen, RecordDecision, vars
    <3> QED
      BY <3>1
  <2> QED
    BY <2>1, <2>2, <2>3, <2>4, <2>5, <2>6 DEF Next
<1> QED
  BY <1>1, <1>2, Invariance, IdleInvariant, PTL
     DEF Spec, ImplementsRounds, Rounds!RoundsSpec

-----------------------------------------------------------------------------
(* No churn *)

Apy == Annualized(snapshot.rate, 1)

\* What Settled says of the end of a callback.
Quiet ==
    \/ Verdict.kind = "hold"
    \/ /\ Verdict = decision /\ decision.kind = "open"
       /\ snapshot.mid <= 0 \/ GateRefuses(decision.side)

\* A signal that opened a position does not close one, and the other way round.
Acted ==
    /\ pc = "append" =>
           /\ fill.intent = "open" => DecideHeld(Apy) = Hold
           /\ fill.intent # "open" => DecideFlat(Apy) = Hold
    /\ pc = "commit" => DecideHeld(Apy) = Hold
    /\ pc \in {"record", "next"} => Quiet

\* The dead zone between the thresholds.
LEMMA DeadZone ==
  ASSUME NEW apy \in Int
  PROVE  /\ DecideFlat(apy).kind = "open" => DecideHeld(apy) = Hold
         /\ DecideHeld(apy).kind = "close" => DecideFlat(apy) = Hold
  BY ThresholdAssumption DEF DecideFlat, DecideHeld, Magnitude, Hold, Open, Close

\* Yearly rates are numbers.
LEMMA ApyType == ASSUME snapshot \in Snapshot PROVE Apy \in Int
<1>1. snapshot.rate \in Int
  BY DEF Snapshot
<1> QED
  BY <1>1 DEF Apy, Annualized

\* Nothing that Quiet speaks of changes.
LEMMA QuietStays ==
  ASSUME UNCHANGED <<portfolio, snapshot, min_liq_buffer>>
  PROVE  /\ Verdict' = Verdict /\ Apy' = Apy
         /\ \A side : GateRefuses(side)' = GateRefuses(side)
  BY DEF Verdict, Apy, GateRefuses

\* Every step of the daemon keeps a decision acted upon.
LEMMA ActedInvariant == IInv /\ Acted /\ [Next]_vars => Acted'
<1> SUFFICES ASSUME IInv, Acted, [Next]_vars PROVE Acted'
  OBVIOUS
<1>a. FillUnderWay /\ TypeOK
  BY DEF IInv
<1>1. CASE \/ Start \/ Tick \/ FetchOk \/ FetchErr \/ PollDone \/ Observe \/ NextAsset
           \/ Crash \/ CrashInAppend
  <2>1. pc' \notin {"append", "commit", "record", "next"}
    BY <1>1 DEF Start, Tick, FetchOk, FetchErr, PollDone, Observe, NextAsset, Crash,
                CrashInAppend, Die
  <2> QED
    BY <2>1 DEF Acted
<1>2. CASE DecideHold
  <2>1. Verdict' = Verdict /\ pc' = "record" /\ Verdict.kind = "hold"
    BY <1>2, QuietStays DEF DecideHold
  <2> QED
    BY <2>1 DEF Acted, Quiet
<1>3. CASE OpenVetoed
  <2>1. /\ pc' = "record" /\ decision' = Verdict /\ Verdict.kind = "open"
        /\ snapshot.mid <= 0 \/ GateRefuses(Verdict.side)
        /\ UNCHANGED <<portfolio, snapshot, min_liq_buffer>>
    BY <1>3 DEF OpenVetoed
  <2>2. Verdict' = Verdict /\ \A side : GateRefuses(side)' = GateRefuses(side)
    BY <2>1, QuietStays
  <2>3. Quiet'
    BY <2>1, <2>2 DEF Quiet, GateRefuses
  <2> QED
    BY <2>1, <2>3 DEF Acted
<1>4. CASE OpenFilled
  <2>1. /\ pc = "decide" /\ pc' = "append" /\ fill'.intent = "open"
        /\ Verdict.kind = "open" /\ UNCHANGED snapshot
    BY <1>4 DEF OpenFilled, SimulateFill
  <2>2. Apy \in Int
    BY <1>a, <2>1, ApyType DEF FillUnderWay
  <2>3. DecideFlat(Apy).kind = "open"
    BY <2>1 DEF Verdict, Decide, DecideHeld, Hold, Close, Apy
  <2>4. DecideHeld(Apy) = Hold
    BY <2>2, <2>3, DeadZone
  <2> QED
    BY <2>1, <2>4 DEF Acted, Apy
<1>5. CASE CloseFilled
  <2>1. /\ pc = "decide" /\ pc' = "append" /\ fill'.intent = "close"
        /\ Verdict.kind = "close" /\ UNCHANGED snapshot
    BY <1>5 DEF CloseFilled, SimulateFill
  <2>2. Apy \in Int
    BY <1>a, <2>1, ApyType DEF FillUnderWay
  <2>3. DecideHeld(Apy).kind = "close"
    BY <2>1 DEF Verdict, Decide, DecideFlat, Hold, Open, Apy
  <2>4. DecideFlat(Apy) = Hold
    BY <2>2, <2>3, DeadZone
  <2> QED
    BY <2>1, <2>4 DEF Acted, Apy
<1>6. CASE AppendFill
  <2>1. /\ pc = "append" /\ pc' = IF fill.intent = "open" THEN "commit" ELSE "record"
        /\ UNCHANGED <<portfolio, snapshot, decision, fill, min_liq_buffer>>
    BY <1>6 DEF AppendFill
  <2>2. HeldIn(portfolio, snapshot.asset) = {}
    BY <1>a, <2>1 DEF FillUnderWay
  <2>3. CASE fill.intent = "open"
    BY <2>1, <2>3 DEF Acted, Apy
  <2>4. CASE fill.intent # "open"
    <3>1. Verdict = DecideFlat(Apy) /\ Verdict' = Verdict
      BY <2>1, <2>2, QuietStays DEF Verdict, Decide, Apy
    <3>2. Verdict'.kind = "hold"
      BY <2>1, <2>4, <3>1 DEF Acted, Hold
    <3> QED
      BY <2>1, <2>4, <3>2 DEF Acted, Quiet
  <2> QED
    BY <2>3, <2>4
<1>7. CASE CommitOpen
  <2>1. /\ pc = "commit" /\ pc' = "record" /\ UNCHANGED snapshot
        /\ portfolio' = OpenPosition(portfolio, PositionOf(fill))
    BY <1>7 DEF CommitOpen
  <2>2. SameAsset(PositionOf(fill).asset, snapshot.asset)
    BY <1>a, <2>1 DEF FillUnderWay, PositionOf
  <2>3. PositionOf(fill) \in HeldIn(portfolio', snapshot'.asset)
    BY <2>1, <2>2 DEF HeldIn, OpenPosition
  <2>4. Verdict' = DecideHeld(Apy)
    BY <2>1, <2>3 DEF Verdict, Decide, Apy
  <2> QED
    BY <2>1, <2>4 DEF Acted, Quiet, Hold
<1>8. CASE RecordDecision \/ UNCHANGED vars
  <2>1. /\ pc' = pc \/ (pc = "record" /\ pc' = "next")
        /\ UNCHANGED <<portfolio, snapshot, decision, fill, min_liq_buffer>>
    BY <1>8 DEF RecordDecision, vars
  <2>2. /\ Verdict' = Verdict /\ Apy' = Apy
        /\ \A side : GateRefuses(side)' = GateRefuses(side)
    BY <2>1, QuietStays
  <2>3. Quiet' <=> Quiet
    BY <2>1, <2>2 DEF Quiet, GateRefuses
  <2> QED
    BY <2>1, <2>2, <2>3 DEF Acted
<1> QED
  BY <1>1, <1>2, <1>3, <1>4, <1>5, <1>6, <1>7, <1>8 DEF Next

\* A snapshot once acted upon asks for nothing more, for every fault and for
\* every pair of thresholds with the exit at or below the entry.
THEOREM NoChurn == Spec => []Settled
<1>1. Init => Acted
  BY DEF Init, Acted
<1>2. IInv /\ Acted /\ [Next]_vars => Acted'
  BY ActedInvariant
<1>3. Acted => Settled
  BY DEF Acted, Quiet, Settled
<1> QED
  BY <1>1, <1>2, <1>3, Invariance, PTL DEF Spec

-----------------------------------------------------------------------------
(* The risk gate at entry *)

\* A product with a positive factor has the order of the other factors.
LEMMA PositiveFactor ==
  ASSUME NEW m \in Int, m > 0, NEW a \in Int, NEW b \in Int
  PROVE  a * m < b * m <=> a < b
  OBVIOUS

\* Entered and marked at one positive mid without leverage, either side is
\* 99.5 % away from liquidation: the gate weighs its setting alone, so one
\* above that vetoes every entry and one at or below it none.
THEOREM GateWeighsSettingAlone ==
  ASSUME NEW side \in Side, NEW mid \in Int, mid > 0, NEW threshold \in Int
  PROVE  BufferBelow(side, mid, 1, mid, threshold) <=>
             1000 - MaintenanceMarginRatio < threshold
<1>1. LiqUnit(1) = 1000
  BY DEF LiqUnit, Effective
<1>2. LiquidationDistance(side, mid, 1, mid) = 995 * mid
  BY <1>1 DEF LiquidationDistance, LiquidationPrice, MaintenanceMarginRatio, Side
<1>3. BufferBelow(side, mid, 1, mid, threshold) <=>
          (995 * mid) * 1000 < threshold * (mid * 1000)
  BY <1>1, <1>2 DEF BufferBelow, LiquidationBuffer
<1>4. threshold * mid \in Int /\ 995 * mid \in Int
  OBVIOUS
<1>5. (995 * mid) * 1000 < threshold * (mid * 1000) <=> 995 * mid < threshold * mid
  BY <1>4
<1>6. 995 * mid < threshold * mid <=> 995 < threshold
  BY PositiveFactor
<1> QED
  BY <1>3, <1>5, <1>6 DEF MaintenanceMarginRatio

=============================================================================
