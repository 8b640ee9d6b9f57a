---------------------------- MODULE PositionBook ----------------------------
(***************************************************************************)
(* What the trading bot promises about its positions, with no log, no      *)
(* memory and no process: a book of positions in which a flat asset may be *)
(* opened and a held position closed, one at a time, and nothing else ever *)
(* happens to it.  In particular a restart of the bot is not visible.      *)
(***************************************************************************)
EXTENDS PerpsTypes

VARIABLE book

Flat(asset) == \A p \in book : ~ SameAsset(p.asset, asset)

BookInit == book = {}

\* Open a position in an asset the book is flat in.
EnterPosition ==
    \E p \in book' \ book :
        /\ Flat(p.asset)
        /\ book' = book \cup {p}

\* Close one held position, whole.
ExitPosition == \E p \in book : book' = book \ {p}

BookNext == EnterPosition \/ ExitPosition

BookSpec == BookInit /\ [][BookNext]_book

=============================================================================
