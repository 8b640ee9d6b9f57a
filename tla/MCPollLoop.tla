----------------------------- MODULE MCPollLoop -----------------------------
(***************************************************************************)
(* A small instance of PollLoop.  Two assets, one of them asked for in     *)
(* lower case, and a third that the venue lists and nobody asks for.  Two  *)
(* hanging requests outlast a period, so ticks are missed.                 *)
(***************************************************************************)
EXTENDS PollLoop

MCAssets == {"BTC", "btc", "ETH", "SOL"}

MCUpper == [a \in MCAssets |-> IF a = "btc" THEN "BTC" ELSE a]

MCAssetList == <<"btc", "ETH">>

MCMarket == ("BTC" :> [rate |-> 1, mid |-> 4]) @@ ("ETH" :> [rate |-> 2, mid |-> 5])
                @@ ("SOL" :> [rate |-> 3, mid |-> 6])

=============================================================================
