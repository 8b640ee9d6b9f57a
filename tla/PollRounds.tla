----------------------------- MODULE PollRounds -----------------------------
(***************************************************************************)
(* What the poll loop promises, with no clock, network or signals: while   *)
(* it lives it goes through the configured assets again and again, in      *)
(* order, each of them once per round, and no asset keeps the others from  *)
(* their turn.                                                             *)
(***************************************************************************)
EXTENDS PerpsTypes, Sequences

CONSTANT AssetList      \* settings.strategy.assets, in polling order

VARIABLES
    alive,      \* the process runs
    pending     \* the assets of this round still to be visited

roundVars == <<alive, pending>>

RoundsInit == alive = FALSE /\ pending = <<>>

Appear == ~ alive /\ alive' = TRUE /\ pending' = <<>>

BeginRound == alive /\ pending = <<>> /\ pending' = AssetList /\ UNCHANGED alive

Visit == alive /\ pending # <<>> /\ pending' = Tail(pending) /\ UNCHANGED alive

Disappear == alive /\ alive' = FALSE /\ pending' = <<>>

RoundsNext == Appear \/ BeginRound \/ Visit \/ Disappear

RoundsSpec == RoundsInit /\ [][RoundsNext]_roundVars

\* Nothing but its death stops the loop.
FairRoundsSpec == RoundsSpec /\ WF_roundVars(BeginRound) /\ WF_roundVars(Visit)

=============================================================================
