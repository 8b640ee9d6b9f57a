--------------------------- MODULE MCTradingDaemon ---------------------------
(***************************************************************************)
(* Small instances of TradingDaemon.  Hourly rates are in millionths, so   *)
(* 10 and 2 annualise to exactly the entry and the exit threshold, -1 lies *)
(* inside the exit band and -10 enters the other side.                     *)
(***************************************************************************)
EXTENDS TradingDaemon

\* Three spellings of two assets.
MCAssets == {"BTC", "btc", "ETH"}

MCUpper == [a \in MCAssets |-> IF a = "btc" THEN "BTC" ELSE a]

OneAsset == <<"BTC">>

\* A configuration that names one asset twice.
RespeltAssets == <<"BTC", "btc", "ETH">>

MCRates == {-10, -1, 2, 10}

\* A rate on the short entry threshold and one inside the exit band.
EntryAndExit == {10, -1}

=============================================================================
