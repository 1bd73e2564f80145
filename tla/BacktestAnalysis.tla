-------------------------- MODULE BacktestAnalysis --------------------------
(***************************************************************************)
(* How a backtest keeps its position: the metrics of the evaluator         *)
(* (services/backtest/backtest_svc/evaluator.py), over all fills of a run, *)
(* and those of a symbol (backtest_analysis.py).  The two walk the fills   *)
(* alike, unlike pnl.py when a fill takes the position to the other side,  *)
(* and the evaluator charges the slippage once more (`slip` of a fill).    *)
(***************************************************************************)
EXTENDS PnL, SequencesExt

CONSTANT ReturnStep \* gain that is the last digit of a symbol's return

ASSUME BacktestAnalysisAssumption == ReturnStep \in Nat \ {0}

Untouched == [position |-> 0, entry |-> 0, realized |-> 0, wins |-> 0]

\* Mutant of Gain: measured against the position after the fill.
GainAfter(run, fill) ==
    LET closed == Min({fill.quantity, Size(run.position)})
        sign == IF run.position + Change(fill) > 0 THEN 1 ELSE -1
    IN  IF run.position * Change(fill) >= 0 THEN 0
        ELSE closed * (fill.price - run.entry) * sign

Gain(run, fill) ==
    LET closed == Min({fill.quantity, Size(run.position)})
        sign == IF run.position > 0 THEN 1 ELSE -1
    IN  IF run.position * Change(fill) >= 0 THEN 0
        ELSE closed * (fill.price - run.entry) * sign

Entry(run, fill) ==
    LET held == run.position + Change(fill)
    IN  IF Size(held) > Size(run.position)
        THEN IF run.position = 0 THEN fill.price
             ELSE Average(run.position, run.entry, Change(fill), fill.price)
        ELSE IF held = 0 THEN 0 ELSE run.entry

Walked(run, fill, cost) ==
    [position |-> run.position + Change(fill),
     entry    |-> Entry(run, fill),
     realized |-> run.realized + Gain(run, fill) - cost,
     wins     |-> run.wins + (IF Gain(run, fill) > fill.fee THEN 1 ELSE 0)]

\* _compute_symbol_metrics
SymbolMetrics(fills) ==
    FoldLeft(LAMBDA run, f : Walked(run, f, f.fee), Untouched, fills)

\* The return of a symbol that gained n, rounded to its last digit: to the even
\* one of two that are as near.
Rounded(n) ==
    LET near == (2 * n + ReturnStep) \div (2 * ReturnStep)
    IN  IF 2 * n + ReturnStep = near * (2 * ReturnStep) /\ near % 2 = 1
        THEN near - 1 ELSE near

\* compute_per_symbol_analysis groups the fills by their symbol, and names the
\* first in the alphabet of the symbols with the best return.
OfSymbol(fills, s) ==
    FoldLeft(LAMBDA own, f : IF f.symbol = s THEN Append(own, f) ELSE own, <<>>, fills)

BestSymbols(fillsOf) ==
    {s \in DOMAIN fillsOf : \A t \in DOMAIN fillsOf :
        Rounded(SymbolMetrics(fillsOf[t]).realized)
            <= Rounded(SymbolMetrics(fillsOf[s]).realized)}

\* _compute_metrics_from_fills, whatever the symbols of the fills.
MetricsFromFills(fills) ==
    FoldLeft(LAMBDA run, f : Walked(run, f, f.fee + f.slip), Untouched, fills)

\* A fill of the sequence took the position from one side to the other.
Flips(fills) ==
    \E n \in DOMAIN fills :
        LET held == SymbolMetrics(SubSeq(fills, 1, n - 1)).position
        IN  held * (held + Change(fills[n])) < 0

=============================================================================
