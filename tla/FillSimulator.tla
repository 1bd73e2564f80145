--------------------------- MODULE FillSimulator ----------------------------
(***************************************************************************)
(* The fill simulator of paper trading and of backtests                    *)
(* (services/execution/execution_svc/fill_simulator.py): at what price an  *)
(* order fills and what it pays, by the volume traded so far.  No caller   *)
(* turns on the Brownian bridge, which is left out.                        *)
(***************************************************************************)
EXTENDS Integers, SequencesExt

CONSTANTS
    Tiers,     \* fee schedule: volume each tier ends at, maker and taker rate
    RateUnit,  \* rates are in 1/RateUnit
    FixedRate  \* rate of a simulator with fixed fees, or Tiered

Tiered == -1

ASSUME FillSimulatorAssumption ==
    /\ Tiers \in Seq([below : Nat, maker : Nat, taker : Nat]) /\ Tiers # <<>>
    /\ \A i, j \in DOMAIN Tiers :
          i < j => Tiers[j].maker <= Tiers[i].maker /\ Tiers[j].taker <= Tiers[i].taker
    /\ RateUnit \in Nat \ {0}
    /\ FixedRate \in Nat \cup {Tiered}

VARIABLE volume \* _rolling_volume_30d, of which nothing ever expires

SimulatorInit == volume = 0

TierOf(v) ==
    IF \E i \in DOMAIN Tiers : v < Tiers[i].below
    THEN Tiers[Min({i \in DOMAIN Tiers : v < Tiers[i].below})]
    ELSE Last(Tiers)

IsMaker(order) == order.type = "LIMIT"

FeeRate(order) ==
    IF FixedRate # Tiered THEN FixedRate
    ELSE IF IsMaker(order) THEN TierOf(volume).maker ELSE TierOf(volume).taker

TakeLevel(walk, level) ==
    LET taken == Min({walk.remaining, level.size})
    IN  [remaining |-> walk.remaining - taken,
         cost      |-> walk.cost + taken * level.price]

\* Mutant of WalkTheBook: all of an order fills at the best price.
WalkTheBookOneLevel(quantity, depth) ==
    IF depth = <<>> THEN 0 ELSE Head(depth).price

\* The average price of the levels that an order takes.
WalkTheBook(quantity, depth) ==
    LET walk == FoldLeft(TakeLevel, [remaining |-> quantity, cost |-> 0], depth)
        filled == quantity - walk.remaining
    IN  IF depth = <<>> THEN 0
        ELSE IF filled <= 0 THEN Head(depth).price
        ELSE walk.cost \div filled

SimplePrice(order) ==
    IF order.side = "BUY" THEN order.mid + order.spread \div 2
                          ELSE order.mid - order.spread \div 2

NoLimit == -1

FillPrice(order) ==
    IF IsMaker(order) /\ order.limit # NoLimit THEN order.limit
    ELSE IF order.depth # <<>> THEN WalkTheBook(order.quantity, order.depth)
    ELSE SimplePrice(order)

Apart(a, b) == IF a < b THEN b - a ELSE a - b

Notional(order) == order.quantity * FillPrice(order)

Fee(order, rate) == (Notional(order) * rate) \div RateUnit

\* The consume loop of post-trade gets no decision price with a fill.
SimulatedFill(order) ==
    [symbol |-> order.symbol, side |-> order.side, quantity |-> order.quantity,
     price |-> FillPrice(order), decision |-> 0,
     fee  |-> Fee(order, FeeRate(order)),
     slip |-> (Notional(order) * Apart(FillPrice(order), order.mid)) \div order.mid]

CountVolume(order) == volume' = volume + Notional(order)

-----------------------------------------------------------------------------
(***************************************************************************)
(* The C++ engine meant to replace it (cpp/src/matching_engine.cpp), which *)
(* knows sides, but neither limit orders nor tiers.                        *)
(***************************************************************************)
EnginePrice(order) ==
    IF order.depth # <<>> THEN WalkTheBook(order.quantity, order.depth)
    ELSE SimplePrice(order)

EngineFee(order) ==
    (order.quantity * EnginePrice(order) * FixedRate) \div RateUnit

EngineImpact(order) ==
    IF order.depth = <<>> THEN 0
    ELSE Apart(EnginePrice(order), Head(order.depth).price)

=============================================================================
