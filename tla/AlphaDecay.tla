----------------------------- MODULE AlphaDecay -----------------------------
(***************************************************************************)
(* Alpha decay: how well a signal predicts the price some time later.      *)
(* The tracker of the post-trade service                                   *)
(* (services/post-trade/post_trade_svc/alpha_decay.py) watches trades as   *)
(* they arrive; the analysis of a backtest                                 *)
(* (services/backtest/backtest_svc/backtest_analysis.py) looks the price   *)
(* up in all of them afterwards.  A return is kept as the price it comes   *)
(* from; the correlation over the returns is left out.                     *)
(***************************************************************************)
EXTENDS Integers, SequencesExt

CONSTANTS
    Horizons,    \* times after a signal at which its return is taken
    MaxSignals   \* signals the tracker keeps

ASSUME AlphaDecayAssumption ==
    Horizons \subseteq Nat \ {0} /\ MaxSignals \in Nat \ {0}

VARIABLE tracked \* the tracker's deque, oldest first

Pending == -1

AlphaDecayInit == tracked = <<>>

Suffix(s, n) == SubSeq(s, Len(s) - Min({n, Len(s)}) + 1, Len(s))

RecordSignal(symbol, at, mid, since) ==
    tracked' = Suffix(Append(tracked,
                   [symbol |-> symbol, at |-> at, mid |-> mid, since |-> since,
                    returns |-> [h \in Horizons |-> Pending]]), MaxSignals)

\* Mutant of Evaluated: a filled horizon is filled again by a later trade.
EvaluatedAgain(signal, symbol, at, price) ==
    IF signal.symbol # symbol \/ signal.mid = 0 THEN signal
    ELSE [signal EXCEPT !.returns =
             [h \in Horizons |-> IF at >= signal.at + h THEN price ELSE @[h]]]

Evaluated(signal, symbol, at, price) ==
    IF signal.symbol # symbol \/ signal.mid = 0 THEN signal
    ELSE [signal EXCEPT !.returns =
             [h \in Horizons |->
                 IF @[h] = Pending /\ at >= signal.at + h THEN price ELSE @[h]]]

OnTrade(symbol, at, price) ==
    tracked' = [i \in DOMAIN tracked |->
                   Evaluated(tracked[i], symbol, at, price)]

FilledCount(signals, h) ==
    Len(SelectSeq(signals, LAMBDA signal : signal.returns[h] # Pending))

-----------------------------------------------------------------------------
\* The same, afterwards.

Earlier(a, b) == a.at < b.at \/ (a.at = b.at /\ a.price < b.price)

\* A trade takes its place before the first that it is earlier than.
Placed(line, t) ==
    InsertAt(line, Cardinality({i \in DOMAIN line : ~Earlier(t, line[i])}) + 1, t)

Timeline(trades, symbol) ==
    FoldLeft(LAMBDA line, t : IF t.symbol = symbol THEN Placed(line, t) ELSE line,
             <<>>, trades)

\* Binary search for the first price at or after the target.
FindPriceAt(timeline, target) ==
    LET search[window \in (DOMAIN timeline) \X (DOMAIN timeline)] ==
            LET lo  == window[1]
                hi  == window[2]
                mid == (lo + hi) \div 2
            IN  IF lo >= hi THEN timeline[lo].price
                ELSE IF timeline[mid].at < target THEN search[<<mid + 1, hi>>]
                ELSE search[<<lo, mid>>]
    IN  IF timeline = <<>> \/ target > Last(timeline).at THEN Pending
        ELSE search[<<1, Len(timeline)>>]

ReturnAfterwards(signal, h, trades) ==
    IF signal.mid > 0
    THEN FindPriceAt(Timeline(trades, signal.symbol), signal.at + h)
    ELSE Pending

=============================================================================
