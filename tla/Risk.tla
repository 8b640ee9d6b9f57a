-------------------------------- MODULE Risk --------------------------------
(***************************************************************************)
(* crates/perps-risk: liquidation price and liquidation buffer.            *)
(*                                                                         *)
(* Ratios are in thousandths.  Instead of dividing, the liquidation price  *)
(* is kept multiplied by LiqUnit(leverage), and "buffer below threshold"   *)
(* is cross-multiplied, so every comparison is exact (as it is in the      *)
(* code at entry, where the 28-digit quotient 0.995 is exact too).         *)
(***************************************************************************)
EXTENDS PerpsTypes

\* DEFAULT_MAINTENANCE_MARGIN_RATIO = 0.005
MaintenanceMarginRatio == 5

\* Leverage below 1 is clamped to 1.
Effective(leverage) == IF leverage < 1 THEN 1 ELSE leverage

LiqUnit(leverage) == 1000 * Effective(leverage)

\* liquidation_price * LiqUnit(leverage)
LiquidationPrice(side, entry, leverage) ==
    IF side = "long"
    THEN entry * (LiqUnit(leverage) - (1000 - MaintenanceMarginRatio))
    ELSE entry * (LiqUnit(leverage) + (1000 - MaintenanceMarginRatio))

\* (distance from the mark to liquidation) * LiqUnit(leverage)
LiquidationDistance(side, entry, leverage, mark) ==
    IF side = "long"
    THEN mark * LiqUnit(leverage) - LiquidationPrice(side, entry, leverage)
    ELSE LiquidationPrice(side, entry, leverage) - mark * LiqUnit(leverage)

\* liquidation_buffer_pct, as a fraction: the distance in parts of the mark.  A
\* non-positive mark has buffer 0.
LiquidationBuffer(side, entry, leverage, mark) ==
    IF mark <= 0 THEN [num |-> 0, den |-> 1]
    ELSE [num |-> LiquidationDistance(side, entry, leverage, mark),
          den |-> mark * LiqUnit(leverage)]

\* liquidation_buffer_pct(..) < threshold, in thousandths.
BufferBelow(side, entry, leverage, mark, threshold) ==
    LET buffer == LiquidationBuffer(side, entry, leverage, mark)
    IN buffer.num * 1000 < threshold * buffer.den

=============================================================================
