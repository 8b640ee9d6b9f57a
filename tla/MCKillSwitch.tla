---------------------------- MODULE MCKillSwitch ----------------------------
(* Small instances of KillSwitch: two assets, one of them in two spellings. *)
EXTENDS KillSwitch

MCAssets == {"BTC", "btc", "ETH"}

MCUpper == [a \in MCAssets |-> IF a = "btc" THEN "BTC" ELSE a]

TwoAssets == <<"BTC", "ETH">>

\* One of the two assets under both of its spellings.
RespeltAssets == <<"BTC", "btc", "ETH">>

\* Entries on both sides and a rate inside the exit band.
MCRates == {-10, -1, 10}

\* One side only: enough where the sides play no part.
ShortRates == {-1, 10}

=============================================================================
