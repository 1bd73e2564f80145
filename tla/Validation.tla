----------------------------- MODULE Validation -----------------------------
(***************************************************************************)
(* From the figures of an analysis to its grade: the distribution of       *)
(* monte_carlo.py, the breakeven of sensitivity_sweep.py, the flags and    *)
(* the grade of validation.py (services/backtest/backtest_svc).  Sharpe    *)
(* ratios are integers, Unit of which are 1.0; means over folds are kept   *)
(* as sums, and a quotient is compared by multiplying.                     *)
(***************************************************************************)
EXTENDS Integers, SequencesExt

CONSTANTS
    Unit,      \* a Sharpe ratio of 1.0
    Fees,      \* fee rates of the sweep, in 1/1000
    Slippages  \* slippages of the sweep, in basis points

ASSUME ValidationAssumption ==
    Unit \in Nat \ {0} /\ Fees \subseteq Nat /\ Slippages \subseteq Nat

TrainSum(folds) == SumFunction([k \in DOMAIN folds |-> folds[k].train])

TestSum(folds) == SumFunction([k \in DOMAIN folds |-> folds[k].test])

Magnitude(x) == IF x < 0 THEN -x ELSE x

\* Mutant of Exceeds: the ratio is that of test to train.
ExceedsInverse(train, test, num, den) ==
    \/ train > 0 /\ test * den > num * train
    \/ train < 0 /\ test * den < num * train

\* The overfitting ratio, 0 when there is nothing to divide by, is above
\* num/den.
Exceeds(train, test, num, den) ==
    \/ test > 0 /\ train * den > num * test
    \/ test < 0 /\ train * den < num * test

\* degradation_pct is above `percent`.
Degrades(train, test, percent) ==
    train # 0 /\ 100 * (train - test) > percent * Magnitude(train)

\* The variance of the test Sharpe ratios is above 1.0.
Inconsistent(folds) ==
    LET n == Len(folds)
        squares == SumFunction([k \in DOMAIN folds |->
                                   folds[k].test * folds[k].test])
    IN  n > 1 /\ n * squares - TestSum(folds) * TestSum(folds) > n * n * Unit * Unit

\* The severity of a flag; an info counts for nothing.
Severity(critical, warning) ==
    IF critical THEN "critical" ELSE IF warning THEN "warning" ELSE "info"

WalkForwardFlags(folds) ==
    LET train == TrainSum(folds)
        test  == TestSum(folds)
    IN  IF folds = <<>> THEN <<"warning">>
        ELSE <<Severity(Exceeds(train, test, 3, 1), Exceeds(train, test, 3, 2)),
               Severity(Degrades(train, test, 50), Degrades(train, test, 25)),
               Severity(FALSE, Inconsistent(folds)),
               Severity(test < 0, 2 * test < Len(folds) * Unit)>>

\* The i-th value in order: fewer than i are below it, at least i up to it.
Sorted(values) ==
    [i \in DOMAIN values |->
        CHOOSE v \in Range(values) :
            /\ Quantify(DOMAIN values, LAMBDA j : values[j] < v) < i
            /\ Quantify(DOMAIN values, LAMBDA j : values[j] <= v) >= i]

\* Mutant of AtLevel: indices counted from one.
AtLevelShifted(sorted, level) ==
    LET n == Len(sorted)
    IN  sorted[Max({1, Min({(level * n) \div 100, n})})]

\* The value of a sorted sample below which `level` percent of it lie.
AtLevel(sorted, level) ==
    LET n == Len(sorted)
    IN  sorted[1 + Max({0, Min({(level * n) \div 100, n - 1})})]

Median(sorted) == sorted[1 + Len(sorted) \div 2]

Positives(sims) == Quantify(DOMAIN sims, LAMBDA i : sims[i] > 0)

MonteCarloFlags(sims) ==
    LET n == Len(sims)
    IN  IF sims = <<>> THEN <<"warning">>
        ELSE <<Severity(2 * Positives(sims) < n, 4 * Positives(sims) < 3 * n),
               Severity(FALSE, AtLevel(sims, 95) - AtLevel(sims, 5) > 3 * Unit)>>

Scenarios == Fees \X Slippages

\* The highest rate that still profits, at some slippage; 0 when none does.
MaxFee(profitable) == Max({0} \cup {p[1] : p \in profitable})

MaxSlippage(profitable) == Max({0} \cup {p[2] : p \in profitable})

Under(value, limit) == value > 0 /\ value < limit

CostFlags(profitable) ==
    <<Severity(Under(MaxFee(profitable), 3), Under(MaxFee(profitable), 6)),
      Severity(FALSE, Under(MaxSlippage(profitable), 5))>>

Grade(flags) ==
    LET criticals == Quantify(DOMAIN flags, LAMBDA i : flags[i] = "critical")
        warnings  == Quantify(DOMAIN flags, LAMBDA i : flags[i] = "warning")
    IN  IF criticals >= 2 THEN "FAIL"
        ELSE IF criticals = 1 \/ warnings >= 3 THEN "WEAK"
        ELSE IF warnings >= 1 THEN "MODERATE"
        ELSE "STRONG"

ReportGrade(folds, sims, profitable) ==
    Grade(WalkForwardFlags(folds) \o MonteCarloFlags(sims)
              \o CostFlags(profitable))

=============================================================================
