---------------------------- MODULE WalkForward -----------------------------
(***************************************************************************)
(* Walk-forward optimization                                               *)
(* (services/backtest/backtest_svc/walk_forward.py): the trades are cut    *)
(* into windows, the best parameters of a training window are tested on    *)
(* the trades that follow it.  A trade is its index; windows exclude their *)
(* ends.  What an evaluation answers is left open.                         *)
(***************************************************************************)
EXTENDS Integers, Sequences

CONSTANTS
    TrainShare,  \* percent of a rolling window that trains
    MinTrain,    \* trades a training window should have
    MinTest,     \* trades a test window should have
    Params,      \* number of parameter combinations of the grid
    Sharpes,     \* Sharpe ratios an evaluation may answer
    Setups       \* jobs: trades, splits, kind of window, ...

ASSUME WalkForwardAssumption ==
    /\ TrainShare \in 1..99
    /\ MinTrain \in Nat \ {0} /\ MinTest \in Nat \ {0} /\ Params \in Nat \ {0}
    /\ Sharpes \subseteq Int
    /\ \A setup \in Setups :
          setup.trades \in Nat /\ setup.splits \in Nat \ {0}
              /\ setup.window \in {"rolling", "expanding"}

VARIABLES
    setup,    \* the job
    trial,    \* the fold's search: combinations tried, the best of them
    results   \* folds that are done

walkVars == <<setup, trial, results>>

Larger(a, b) == IF a > b THEN a ELSE b

Smaller(a, b) == IF a < b THEN a ELSE b

TrainSize(n, s) == (n * TrainShare) \div (100 * s)

TestSize(n, s) == (n * (100 - TrainShare)) \div (100 * s)

\* Windows that are too small are made fewer, and not measured again.
Splits(n, s) ==
    IF TrainSize(n, s) < MinTrain \/ TestSize(n, s) < MinTest
    THEN Larger(1, n \div (MinTrain + MinTest))
    ELSE s

\* Mutant of Start: the last window, too, is followed by a step.
StartShort(n, s, i) ==
    ((i - 1) * (n - TrainSize(n, s) - TestSize(n, s))) \div s

Start(n, s, i) ==
    ((i - 1) * (n - TrainSize(n, s) - TestSize(n, s))) \div Larger(s - 1, 1)

Rolling(n, s, i) ==
    LET cut == Start(n, s, i) + TrainSize(n, s)
    IN  [trainStart |-> Start(n, s, i), trainEnd |-> cut, testStart |-> cut,
         testEnd |-> Smaller(cut + TestSize(n, s), n)]

\* Mutant of Expanding: the training window has grown before the test.
ExpandingEarly(n, s, i) ==
    LET test == Larger(MinTest, n \div (s + 1))
        cut == Larger(MinTrain, n - s * test) + (i - 1) * test
    IN  [trainStart |-> 0, trainEnd |-> cut + test, testStart |-> cut,
         testEnd |-> Smaller(cut + test, n)]

Expanding(n, s, i) ==
    LET test == Larger(MinTest, n \div (s + 1))
        cut == Larger(MinTrain, n - s * test) + (i - 1) * test
    IN  [trainStart |-> 0, trainEnd |-> cut, testStart |-> cut,
         testEnd |-> Smaller(cut + test, n)]

Window(i) ==
    IF setup.window = "rolling"
    THEN Rolling(setup.trades, Splits(setup.trades, setup.splits), i)
    ELSE Expanding(setup.trades, setup.splits, i)

Windows ==
    IF setup.window = "rolling" THEN Splits(setup.trades, setup.splits)
                                ELSE setup.splits

\* The first window without a test ends the list.
HasFold(i) ==
    i <= Windows /\ \A j \in 1..i : Window(j).testEnd > Window(j).testStart

NoTrial == [tried |-> 0, params |-> 0, sharpe |-> 0]

WalkInit == setup \in Setups /\ trial = NoTrial /\ results = <<>>

FoldUnderWay == HasFold(Len(results) + 1)

\* Among equals the first is kept.
Train ==
    /\ FoldUnderWay
    /\ trial.tried < Params
    /\ \E sharpe \in Sharpes :
          trial' = IF trial.tried = 0 \/ sharpe > trial.sharpe
                   THEN [tried |-> trial.tried + 1,
                         params |-> trial.tried + 1, sharpe |-> sharpe]
                   ELSE [trial EXCEPT !.tried = @ + 1]
    /\ UNCHANGED <<setup, results>>

Test ==
    /\ FoldUnderWay
    /\ trial.tried = Params
    /\ \E sharpe \in Sharpes :
          results' = Append(results,
              [window |-> Window(Len(results) + 1), params |-> trial.params,
               train |-> trial.sharpe, test |-> sharpe])
    /\ trial' = NoTrial
    /\ UNCHANGED setup

-----------------------------------------------------------------------------
InRange(w) ==
    /\ 0 <= w.trainStart /\ w.trainStart <= w.trainEnd
    /\ w.trainEnd <= w.testStart /\ w.testStart < w.testEnd
    /\ w.testEnd <= setup.trades

\* No look-ahead: parameters are tested on trades that come after all that any
\* training so far has seen, and that exist, whatever the sizes rounded to.
TestIsUnseen ==
    \A k \in DOMAIN results :
        /\ InRange(results[k].window)
        /\ \A j \in 1..k :
              results[j].window.trainEnd <= results[k].window.testStart

\* No trade is tested twice, and rolling windows share no trade at all, in
\* spite of the start of each being rounded on its own.
FoldsDoNotOverlap ==
    \A j, k \in DOMAIN results : j < k =>
        results[j].window.testEnd <=
            IF setup.window = "rolling" THEN results[k].window.trainStart
                                        ELSE results[k].window.testStart

\* What the code does not keep.  walk_forward.py:37 "minimum trades in training
\* set": with fewer windows the sizes are not compared again.
MinimumsAreKept ==
    \A k \in DOMAIN results : LET w == results[k].window IN
        w.trainEnd - w.trainStart >= MinTrain /\ w.testEnd - w.testStart >= MinTest

=============================================================================
