---------------------------- MODULE MCLogReaders ----------------------------
(***************************************************************************)
(* A small instance of LogReaders: two assets in three spellings.  Fills   *)
(* differ in every term, rates are told apart in any sum, and mids neither *)
(* rise with the rates nor are all positive.                               *)
(***************************************************************************)
EXTENDS LogReaders

MCAssets == {"BTC", "btc", "ETH"}

MCUpper == [a \in MCAssets |-> IF a = "btc" THEN "BTC" ELSE a]

MCFills == << [side |-> "short", size |-> 2, price |-> 5],
              [side |-> "long",  size |-> 3, price |-> 4],
              [side |-> "long",  size |-> 1, price |-> 7],
              [side |-> "short", size |-> 4, price |-> 6] >>

MCObservations == << [rate |-> 10, mid |-> 8], [rate |-> -100, mid |-> 0],
                     [rate |-> 1000, mid |-> 9], [rate |-> 10000, mid |-> 3] >>

=============================================================================
