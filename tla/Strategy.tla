------------------------------ MODULE Strategy ------------------------------
(***************************************************************************)
(* crates/perps-strategy: the portfolio the strategy looks at, and the     *)
(* threshold rule that turns one funding signal into a decision.           *)
(*                                                                         *)
(* PortfolioState.positions is a Vec in the code; no operation depends on  *)
(* its order, so it is a set here.  That it holds at most one position per *)
(* asset is a property to check, not a consequence of the representation.  *)
(***************************************************************************)
EXTENDS PerpsTypes

CONSTANTS
    MinApyToEnter,   \* |apy| at or above this opens
    MaxApyToExit     \* |apy| strictly below this closes

\* The loader accepts any two numbers (hazard: see README); the strategy's
\* documentation describes a dead zone from the exit to the entry threshold.
ASSUME ThresholdAssumption ==
    /\ MinApyToEnter \in Int /\ MaxApyToExit \in Int
    /\ 0 < MinApyToEnter /\ MaxApyToExit <= MinApyToEnter

-----------------------------------------------------------------------------
(* PortfolioState *)

\* The positions of the asset that `asset` spells.
HeldIn(positions, asset) == {p \in positions : SameAsset(p.asset, asset)}

\* position_for on a held asset: the iterator's first match.
PositionFor(positions, asset) == CHOOSE p \in HeldIn(positions, asset) : TRUE

\* open: retain the other assets, then push.
OpenPosition(positions, p) ==
    {q \in positions : ~ SameAsset(q.asset, p.asset)} \cup {p}

\* close on a held asset: remove the first match.
ClosePosition(positions, asset) ==
    positions \ {PositionFor(positions, asset)}

-----------------------------------------------------------------------------
(* decide *)

Hold == [kind |-> "hold", side |-> "none"]
Close == [kind |-> "close", side |-> "none"]
Open(side) == [kind |-> "open", side |-> side]

Decisions == {Hold, Close} \cup {Open(side) : side \in Side}

Magnitude(apy) == IF apy < 0 THEN -apy ELSE apy

\* Variant with a bug: positions exit at the entry threshold.
DecideHeldAtEntry(apy) == IF Magnitude(apy) <= MinApyToEnter THEN Close ELSE Hold

DecideHeld(apy) == IF Magnitude(apy) < MaxApyToExit THEN Close ELSE Hold

DecideFlat(apy) ==
    IF apy >= MinApyToEnter THEN Open("short")
    ELSE IF apy <= -MinApyToEnter THEN Open("long")
    ELSE Hold

\* Variant with a bug: the portfolio is not looked at.
DecideBlindly(positions, asset, apy) == DecideFlat(apy)

Decide(positions, asset, apy) ==
    IF HeldIn(positions, asset) # {} THEN DecideHeld(apy) ELSE DecideFlat(apy)

=============================================================================
