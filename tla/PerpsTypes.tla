----------------------------- MODULE PerpsTypes -----------------------------
(***************************************************************************)
(* The domain types shared by every component (crates/perps-types and the  *)
(* Fill of crates/perps-executor).                                         *)
(*                                                                         *)
(* A Decimal is an integer in a fixed unit: prices in whole dollars, sizes *)
(* in whole base units, annualised rates in millionths.  The venue is      *)
(* always Hyperliquid and every position is opened at leverage 1, so both  *)
(* fields are left out of the records.                                     *)
(***************************************************************************)
EXTENDS Integers

CONSTANTS
    Assets,     \* the spellings an asset may be written in, e.g. BTC and btc
    Upper       \* Upper[a] is the upper-case spelling of a

ASSUME UpperAssumption == DOMAIN Upper = Assets

\* The assets themselves: one key per group of spellings.
Keys == {Upper[a] : a \in Assets}

\* Variant with a bug: names compared as they are spelled.
SameSpelling(a, b) == a = b

\* String::eq_ignore_ascii_case on two asset names.
SameAsset(a, b) == Upper[a] = Upper[b]

Side == {"long", "short"}

Flip(side) == IF side = "long" THEN "short" ELSE "long"

\* FundingRate::annualized: a per-interval rate times the periods in a year.
Annualized(rate, interval_hours) == (rate * 24 * 365) \div interval_hours

Position == [asset : Assets, side : Side, size : Int, entry_price : Int]

Intents == {"open", "close"}

Fill == [asset : Assets, side : Side, size : Int, price : Int,
         intent : Intents, filled_at : Int]

=============================================================================
