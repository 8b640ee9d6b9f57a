---------------------------- MODULE DaemonReports ----------------------------
(***************************************************************************)
(* The accounting of pnl.rs (as digest and flatten use it) read while the  *)
(* daemon and the kill switch write: what it shows of any log they can     *)
(* leave behind.                                                           *)
(***************************************************************************)
EXTENDS KillSwitch, FillPairing

\* What a fill pays into the account: a short order sells, a long one buys.
Cash(f) == IF f.side = "short" THEN f.size * f.price ELSE -(f.size * f.price)

\* What a fill leaves to be bought or sold back, in base units.
Units(f) == IF f.side = "long" THEN f.size ELSE -f.size

\* What the fills of one asset have paid in, and left to be bought or sold back.
CashOf(fills, key) ==
    SumOf([i \in DOMAIN fills |->
              IF Upper[fills[i].asset] = key THEN Cash(fills[i]) ELSE 0])

UnitsOf(fills, key) ==
    SumOf([i \in DOMAIN fills |->
              IF Upper[fills[i].asset] = key THEN Units(fills[i]) ELSE 0])

\* The realized PnL of one asset, and the unrealized PnL of its open trade.
RealizedOf(closed, key) ==
    SumOf([i \in DOMAIN closed |->
              IF Upper[closed[i].open.asset] = key THEN RealizedPnl(closed[i]) ELSE 0])

UnrealizedOf(open, key, mark) ==
    LET held == {o \in open : Upper[o.asset] = key}
    IN IF held = {} THEN 0 ELSE UnrealizedPnl(CHOOSE o \in held : TRUE, mark)

\* The books balance: in every asset and at any mark, realized plus unrealized
\* PnL is the cash of its fills on disk plus the marked value of what they add
\* up to, so no fill is left out of the attribution or counted twice.
BooksBalance ==
    LET fills == ReadFills(lines)
        paired == PairFills(fills)
    IN \A key \in Keys :
           LET realized == RealizedOf(paired.closed, key)
               cash == CashOf(fills, key)
               units == UnitsOf(fills, key)
           IN \A mark \in Mids :
                  realized + UnrealizedOf(Range(paired.current_open), key, mark)
                      = cash + units * mark

\* A realized trade is never revised: the closed trades of the log only ever
\* gain a new last one, whatever the daemon does and whenever it is respawned.
TradesNeverRevised ==
    [][lines' # lines =>
           IsPrefix(ClosedTrades(ReadFills(lines)), ClosedTrades(ReadFills(lines')))]_vars

=============================================================================
