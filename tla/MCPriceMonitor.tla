--------------------------- MODULE MCPriceMonitor ---------------------------
(* Instances of PriceMonitor for TLC.  Prices have two decimals. *)
EXTENDS PriceMonitor

MCPresets == [p \in 0 .. 1 |-> [tranches |-> 2, interval_ms |-> 1]]

Strike(price, direction) == [strike_price |-> price, hedge_direction |-> direction]

\* One price on each side of the strike.
BothSides == {[price |-> 9, expo |-> -1], [price |-> 1199, expo |-> -3]}

OneFloor == {Strike(100, HEDGE_FLOOR)}

\* Zero, negative, at, below and above the strike, with fewer and more decimals
\* than the target, exact and not.
PythRange ==
    {[price |-> p, expo |-> e] :
       p \in {-1001, -1, 0, 1, 9, 10, 11, 99, 100, 101, 999, 1001, 1009},
       e \in {-4, -3, -2, -1, 0}}

EveryStrike ==
    {Strike(price, direction) : price \in {0, 1, 9, 100},
       direction \in {HEDGE_FLOOR, HEDGE_CEILING, HEDGE_NONE}}

=============================================================================
