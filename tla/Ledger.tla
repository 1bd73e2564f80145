------------------------------- MODULE Ledger -------------------------------
(***************************************************************************)
(* The post-trade service's state store                                    *)
(* (services/post-trade/post_trade_svc/state.py): what fills, signals and  *)
(* trades make of it, and the tabs the dashboard reads from it.  A method  *)
(* holds the lock from its first statement to its last, so that it is one  *)
(* step; the export calls six of them, one after the other.                *)
(***************************************************************************)
EXTENDS PnL, AlphaDecay

CONSTANTS
    Symbols, Quantities, Prices, Fees,
    Trades,         \* trades that may be seen, at 0 without a timestamp
    Signals,        \* signals that may be sent, mid 0 for an empty book
    InitialEquity,
    TradesAreStamped, \* a trade has the field that the consume loop reads
    Window,         \* points of the curve that a chart shows (500)
    MaxEvents       \* bound on fills, trades and signals together

ASSUME LedgerAssumption ==
    /\ Quantities \subseteq Nat \ {0} /\ Prices \subseteq Nat \ {0}
    /\ Trades \subseteq [symbol : Symbols, price : Prices, at : Nat]
    /\ Signals \subseteq [symbol : Symbols, mid : {0} \cup Prices,
                           at : Nat \ {0}]
    /\ Fees \cup {InitialEquity, MaxEvents} \subseteq Nat
    /\ Window \in Nat \ {0} /\ TradesAreStamped \in BOOLEAN

VARIABLES
    holdings,  \* positions by symbol
    prices,    \* latest price by symbol, NoPrice before the first
    fills,     \* the fills, in order
    costs,     \* their cost analysis
    curve,     \* equity after each of them
    peak,      \* highest of these
    score,     \* counters: fills, winners, gross profit and loss
    trades,    \* trades that came (history)
    recorded,  \* signals that came (history)
    export     \* tabs that the export under way has read

bookVars == <<holdings, fills, costs, curve, peak, score>>
ledgerVars == <<bookVars, prices, tracked, trades, recorded, export>>

NoPrice == 0

LedgerInit ==
    /\ AlphaDecayInit
    /\ holdings = [s \in Symbols |-> NoPosition]
    /\ prices = [s \in Symbols |-> NoPrice]
    /\ fills = <<>> /\ costs = <<>> /\ curve = <<>>
    /\ peak = InitialEquity
    /\ score = [fills |-> 0, winners |-> 0, profit |-> 0, loss |-> 0]
    /\ trades = <<>> /\ recorded = 0 /\ export = <<>>

Feeding == Len(fills) + Len(trades) + recorded < MaxEvents

Priced == {s \in Symbols : prices[s] # NoPrice}

Equity(positions) ==
    InitialEquity + TotalRealized(positions)
        + TotalUnrealized(positions, prices, Priced) - TotalFees(positions)

ActiveSymbols == {fills[i].symbol : i \in DOMAIN fills}

Counted(realized) ==
    [fills   |-> score.fills + 1,
     winners |-> score.winners + (IF realized > 0 THEN 1 ELSE 0),
     profit  |-> score.profit + Max({realized, 0}),
     loss    |-> score.loss + Max({-realized, 0})]

\* The transaction cost analysis of a fill (tca.py), in amounts;
\* without a price the order is taken to have arrived at the fill's.
Adverse(side, from, to) == IF side = "BUY" THEN to - from ELSE from - to

CostOf(fill) ==
    LET arrival == IF prices[fill.symbol] = NoPrice
                   THEN fill.price ELSE prices[fill.symbol]
        decision == IF fill.decision = NoPrice THEN arrival ELSE fill.decision
    IN  [symbol   |-> fill.symbol,
         impact   |-> fill.quantity * Adverse(fill.side, decision, arrival),
         slippage |-> fill.quantity * Adverse(fill.side, arrival, fill.price),
         spread   |-> fill.quantity * Size(fill.price - arrival),
         fee      |-> fill.fee]

TotalCost(cost) == Size(cost.impact) + Size(cost.slippage) + cost.fee

ProcessFill(fill) ==
    /\ Feeding
    /\ LET after == [holdings EXCEPT ![fill.symbol] = Applied(@, fill)]
       IN  /\ holdings' = after
           /\ score' = Counted(RealizedBy(holdings[fill.symbol], fill))
           /\ costs' = Append(costs, CostOf(fill))
           /\ fills' = Append(fills, fill)
           /\ curve' = Append(curve, Equity(after))
           /\ peak' = Max({peak, Equity(after)})
    /\ UNCHANGED <<prices, tracked, trades, recorded, export>>

UpdatePrice(trade) ==
    /\ prices' = [prices EXCEPT ![trade.symbol] = trade.price]
    /\ IF trade.at > 0 THEN OnTrade(trade.symbol, trade.at, trade.price)
                       ELSE UNCHANGED tracked

\* The consume loop (main.py) hands the trade on with its field `timestamp`.
\* Trade has none: the exception is dropped, and the trade with it.
HandleTrade(trade) ==
    /\ Feeding
    /\ IF TradesAreStamped THEN UpdatePrice(trade)
                           ELSE UNCHANGED <<prices, tracked>>
    /\ trades' = Append(trades, trade)
    /\ UNCHANGED <<bookVars, recorded, export>>

HandleSignal(signal) ==
    /\ Feeding
    /\ RecordSignal(signal.symbol, signal.at, signal.mid, Len(trades))
    /\ recorded' = recorded + 1
    /\ UNCHANGED <<bookVars, prices, trades, export>>

-----------------------------------------------------------------------------
(***************************************************************************)
(* The tabs.  A tab shows the symbols asked for, or all of them.           *)
(***************************************************************************)
Of(records, asked) == SelectSeq(records, LAMBDA r : r.symbol \in asked)

Count(records, asked) ==
    Cardinality({i \in DOMAIN records : records[i].symbol \in asked})

PnlTab(asked) ==
    [fills     |-> score.fills,
     equity    |-> Equity(holdings),
     positions |-> [s \in ActiveSymbols \cap asked |-> holdings[s]]]

TcaTab(asked) ==
    [fills |-> Count(costs, asked),
     total |-> FoldLeft(LAMBDA sum, c : sum + TotalCost(c), 0, Of(costs, asked))]

AlphaTab(asked) ==
    [signals |-> Count(tracked, asked),
     filled  |-> [h \in Horizons |-> FilledCount(Of(tracked, asked), h)]]

\* A drawdown is a fraction, kept as its numerator and denominator.
Deeper(a, b) == a[1] * b[2] > b[1] * a[2]

\* How far each value lies below the highest before it.
Drawdowns(start, values) ==
    [i \in DOMAIN values |->
        LET top == Max({start} \cup {values[j] : j \in 1..i})
        IN  <<top - values[i], top>>]

Deepest(drawdowns) ==
    IF drawdowns = <<>> THEN <<0, 1>>
    ELSE CHOOSE d \in ToSet(drawdowns) :
            \A other \in ToSet(drawdowns) : ~Deeper(other, d)

\* Mutant of MaxDrawdown: the peak is not raised.
MaxDrawdownFromFirst(values) ==
    IF values = <<>> THEN <<0, 1>>
    ELSE Deepest([i \in DOMAIN values |->
                     <<Max({values[1] - values[i], 0}), values[1]>>])

MaxDrawdown(values) ==
    IF values = <<>> THEN <<0, 1>> ELSE Deepest(Drawdowns(Head(values), values))

RiskTab ==
    [fills       |-> score.fills,
     winners     |-> score.winners,
     equity      |-> Equity(holdings),
     peak        |-> peak,
     maxDrawdown |-> MaxDrawdown(curve)]

DrawdownTab ==
    [equities  |-> Suffix(curve, Window),
     drawdowns |-> Drawdowns(InitialEquity, Suffix(curve, Window)),
     current   |-> <<peak - Equity(holdings), peak>>,
     peak      |-> peak]

\* The fees are those of all symbols, whatever is asked for.
FillsTab(asked) ==
    [fills |-> Count(fills, asked),
     buys  |-> Cardinality({i \in DOMAIN fills : fills[i].symbol \in asked
                                                 /\ fills[i].side = "BUY"}),
     fees  |-> TotalFees(holdings)]

\* What of a tab tells how far the fills had come when it was read.
TabsOfExport ==
    <<PnlTab(Symbols).fills, TcaTab(Symbols).fills, AlphaTab(Symbols).signals,
      RiskTab.fills, Len(DrawdownTab.equities), FillsTab(Symbols).fills>>

\* Mutant of ReadTab: the fills, which are last, come from the first reading.
ReadTabCached ==
    /\ Len(export) < Len(TabsOfExport)
    /\ export' = Append(export, IF Len(export) = 5 THEN export[1]
                                ELSE TabsOfExport[Len(export) + 1])
    /\ UNCHANGED <<bookVars, prices, tracked, trades, recorded>>

ReadTab ==
    /\ Len(export) < Len(TabsOfExport)
    /\ export' = Append(export, TabsOfExport[Len(export) + 1])
    /\ UNCHANGED <<bookVars, prices, tracked, trades, recorded>>

SendWorkbook ==
    /\ Len(export) = Len(TabsOfExport)
    /\ export' = <<>>
    /\ UNCHANGED <<bookVars, prices, tracked, trades, recorded>>

HandlePrices ==
    \/ \E trade \in Trades : HandleTrade(trade)
    \/ \E signal \in Signals : HandleSignal(signal)

Read == ReadTab \/ SendWorkbook

-----------------------------------------------------------------------------
(***************************************************************************)
(* What it promises.                                                       *)
(***************************************************************************)

Paid(fill) == Change(fill) * fill.price + fill.fee

CashOf(s) == -SumFunctionOnSet([i \in DOMAIN fills |-> Paid(fills[i])],
                               {i \in DOMAIN fills : fills[i].symbol = s})

\* The equity that realized and unrealized gains and fees are added up to is
\* what the fills left in cash plus the inventory at its price, whatever sides
\* the positions changed to; the counters split the same gains.
BooksBalance ==
    /\ Equity(holdings) = InitialEquity + SumFunction([s \in Symbols |->
           CashOf(s) + holdings[s].quantity *
               (IF s \in Priced THEN prices[s] ELSE holdings[s].avg)])
    /\ score.profit - score.loss = TotalRealized(holdings)

\* The ledger implements the account: its average costs, realized gains and
\* fees say at every moment how much cash the fills left.
A == INSTANCE Account WITH
    cash      <- [s \in Symbols |-> holdings[s].realized - holdings[s].fees
                                      - holdings[s].quantity * holdings[s].avg],
    inventory <- [s \in Symbols |-> holdings[s].quantity]

ImplementsAccount == A!Spec

\* The drawdown chart restarts from the initial equity at the left edge of its
\* window, the risk tab starts from the first point, and the state keeps its
\* own peak.  As long as the window holds the curve they agree, except that
\* the risk tab does not see a loss from the initial equity.
DrawdownsAgree ==
    LET chart == Deepest(DrawdownTab.drawdowns)
    IN  /\ \A i \in DOMAIN DrawdownTab.drawdowns :
              DrawdownTab.drawdowns[i][2] <= peak
        /\ Len(curve) <= Window /\ curve # <<>> =>
              /\ Last(DrawdownTab.drawdowns)[2] = peak
              /\ ~Deeper(RiskTab.maxDrawdown, chart)
              /\ Head(curve) >= InitialEquity =>
                    ~Deeper(chart, RiskTab.maxDrawdown)

\* The tabs of a workbook are of successive moments, none ahead of the state:
\* when the first and the last show the same fills, so do those in between.
\* (The third tab counts signals, and the fifth has a chart of the last fills.)
Shown(tab, n) == IF tab = 5 THEN Min({n, Window}) ELSE n

ExportIsInOrder ==
    LET of == {i \in DOMAIN export : i # 3}
    IN  /\ \A i, j \in of : i < j => Shown(j, export[i]) <= Shown(i, export[j])
        /\ \A i \in of : export[i] <= Shown(i, Len(fills))

\* What the code does not keep.  dashboard.py:6 "all endpoints accept an
\* optional ?symbol= query parameter to filter data to a single symbol".
FeesAreOfTheSymbol ==
    \A s \in ActiveSymbols : FillsTab({s}).fees = holdings[s].fees

\* What the code does not keep.  state.py:73 "Latest prices per symbol (for
\* unrealized PnL)": they never change in the service, where TradesAreStamped
\* is FALSE, and no position has an unrealized gain.
PricesAreLatest ==
    trades # <<>> => prices[Last(trades).symbol] = Last(trades).price

\* What the code does not keep.  metrics.py:66 "Max drawdown": the loss of the
\* first fill is not in it, though the current drawdown shows it.
MaxDrawdownIsDeepest ==
    curve # <<>> => ~Deeper(<<peak - Last(curve), peak>>, RiskTab.maxDrawdown)

=============================================================================
