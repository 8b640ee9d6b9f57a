--------------------------- MODULE MCDaemonReports ---------------------------
(***************************************************************************)
(* A small instance of daemon, kill switch and reports.  Hourly rates are  *)
(* in millionths: 10 and 2 annualise to exactly the entry and the exit     *)
(* threshold, -1 lies inside the exit band and -10 enters the other side.  *)
(***************************************************************************)
EXTENDS DaemonReports

MCAssets == {"BTC", "ETH"}

MCUpper == [a \in MCAssets |-> a]

TwoAssets == <<"BTC", "ETH">>

MCRates == {-10, -1, 2, 10}

=============================================================================
