----------------------------- MODULE Analytics ------------------------------
(***************************************************************************)
(* Paper trading from the simulated fill to the dashboard: the simulator   *)
(* fills orders, the ledger takes the fills in, and the analysis of a      *)
(* backtest is given the same fills, signals and trades.  The topic        *)
(* between simulator and ledger is left out: neither reads the other.      *)
(***************************************************************************)
EXTENDS Ledger, FillSimulator, BacktestAnalysis

CONSTANT Orders \* orders that the gateway may approve, with their market

Rates ==
    IF FixedRate # Tiered THEN {FixedRate}
    ELSE UNION {{Tiers[i].maker, Tiers[i].taker} : i \in DOMAIN Tiers}

ASSUME AnalyticsAssumption ==
    /\ IsFiniteSet(Symbols)
    /\ \A order \in Orders :
          /\ order.symbol \in Symbols /\ order.side \in {"BUY", "SELL"}
          /\ order.quantity \in Quantities /\ order.mid \in Nat \ {0}
          /\ FillPrice(order) \in Prices
          /\ order.depth \in Seq([price : Nat, size : Nat])
          /\ \A rate \in Rates : /\ Fee(order, rate) \in Fees
                                /\ Fee(order, rate) * RateUnit = Notional(order) * rate

VARIABLE orders \* those filled (history)

tradingVars == <<ledgerVars, volume, orders>>

TradingInit == LedgerInit /\ SimulatorInit /\ orders = <<>>

Execute(order) ==
    /\ ProcessFill(SimulatedFill(order))
    /\ CountVolume(order)
    /\ orders' = Append(orders, order)

TradingNext ==
    \/ \E order \in Orders : Execute(order)
    \/ (HandlePrices \/ Read) /\ UNCHANGED <<volume, orders>>

TradingSpec == TradingInit /\ [][TradingNext]_tradingVars

\* What the first i levels of a book offer.
Offered(depth, i) == SumFunctionOnSet([j \in DOMAIN depth |-> depth[j].size], 1..i)

\* The price of the n-th unit of a book, counted from the best.
UnitPrice(depth, n) ==
    LET level == CHOOSE i \in DOMAIN depth :
                     Offered(depth, i - 1) < n /\ n <= Offered(depth, i)
    IN  depth[level].price

\* An order with a limit pays it.  Any other pays for the best units of the
\* book, one by one and as many as there are, and without one half the spread;
\* the engine that is to replace the simulator agrees on that.
FillsFollowTheBook ==
    \A i \in DOMAIN orders :
        LET order == orders[i]
            units == Min({order.quantity, Offered(order.depth, Len(order.depth))})
            paid  == SumFunction([n \in 1..units |-> UnitPrice(order.depth, n)])
            limited == IsMaker(order) /\ order.limit # NoLimit
        IN  /\ limited => fills[i].price = order.limit
            /\ ~limited /\ units > 0 => fills[i].price = paid \div units
            /\ ~limited => EnginePrice(order) = fills[i].price

\* The more is traded the lower the rate: of two orders that make, or two that
\* take, the later does not pay a higher rate.
RatesNeverRise ==
    \A i, j \in DOMAIN orders :
        i < j /\ IsMaker(orders[i]) = IsMaker(orders[j])
            => (fills[j].fee * RateUnit) \div Notional(orders[j])
                 <= (fills[i].fee * RateUnit) \div Notional(orders[i])

\* What an order pays, by the book that it meets and the fee schedule.
OrdersPayTheirPrice == FillsFollowTheBook /\ RatesNeverRise

Timed(seen) ==
    FoldLeft(LAMBDA kept, t : IF t.at > 0 THEN Append(kept, t) ELSE kept, <<>>, seen)

\* The trades of a symbol came in the order of their timestamps, no two alike.
CameInOrder(s) ==
    LET own == {i \in DOMAIN trades : trades[i].symbol = s /\ trades[i].at > 0}
    IN  \A i, j \in own : i < j => trades[i].at < trades[j].at

\* No trade at or after the horizon came before the signal did.
CameInTime(signal, h) ==
    \A i \in 1..signal.since :
        trades[i].symbol = signal.symbol /\ trades[i].at > 0
            => trades[i].at < signal.at + h

\* What the tracker takes for the return at a horizon, trade by trade, is what
\* the analysis finds afterwards by binary search, as long as trades come in
\* order and the signal before the trades it is measured by; horizons fill
\* from the nearest to the farthest, and none from a trade without the field.
HorizonsMatch ==
    \A i \in DOMAIN tracked, h \in Horizons :
        /\ TradesAreStamped /\ CameInOrder(tracked[i].symbol) /\ CameInTime(tracked[i], h)
              => tracked[i].returns[h] = ReturnAfterwards(tracked[i], h, Timed(trades))
        /\ \A nearer \in Horizons :
              nearer < h /\ tracked[i].returns[nearer] = Pending
                  => tracked[i].returns[h] = Pending
        /\ ~TradesAreStamped => tracked[i].returns[h] = Pending

Slippage(filled) == FoldLeft(LAMBDA sum, f : sum + f.slip, 0, filled)

\* The analysis of a symbol realizes what the ledger does, less its fees, while
\* no fill takes the position to the other side; the evaluator the same less the
\* slippage, which the fill's price contains already, and as long as all fills
\* are of one symbol.  Those that the analysis chooses the best symbol from
\* contain the ledger's best, and none that gained less by more than the
\* rounding of the returns accounts for.
AnalysisMatchesLedger ==
    LET net(s) == holdings[s].realized - holdings[s].fees
        fillsOf == [s \in ActiveSymbols |-> OfSymbol(fills, s)]
        steady == {s \in ActiveSymbols : ~Flips(fillsOf[s])}
    IN  /\ \A s \in steady :
              /\ SymbolMetrics(fillsOf[s]).realized = net(s)
              /\ SymbolMetrics(fillsOf[s]).wins <= score.winners
              /\ ActiveSymbols = {s} => MetricsFromFills(fills).realized
                                          = net(s) - Slippage(fillsOf[s])
        /\ steady = ActiveSymbols =>
              /\ {s \in steady : \A t \in steady : net(t) <= net(s)}
                    \subseteq BestSymbols(fillsOf)
              /\ \A s \in BestSymbols(fillsOf), t \in steady :
                    net(t) - net(s) <= ReturnStep

\* What the code does not keep.  evaluator.py:242 "Guarantees backtest and live
\* can never diverge": after a flip the two realize different gains.
BacktestIsLive ==
    \A s \in ActiveSymbols :
        SymbolMetrics(OfSymbol(fills, s)).realized
            = holdings[s].realized - holdings[s].fees

=============================================================================
