------------------------------ MODULE Backtest ------------------------------
(***************************************************************************)
(* The analysis of a strategy over past trades, as a job of the dashboard  *)
(* (analysis_jobs.py, _run_validate and the runs of its parts) or a        *)
(* command (cli_analysis.py): walk-forward, Monte Carlo and the cost sweep *)
(* one after the other, and the grade of the three.                        *)
(***************************************************************************)
EXTENDS WalkForward, Validation

CONSTANT Samples \* Sharpe ratios that the simulations may come to

ASSUME BacktestAssumption == Samples \subseteq Seq(Int)

VARIABLES
    todo,        \* parts that are still to run
    sims,        \* the simulated Sharpe ratios, sorted
    profitable   \* scenarios of the sweep with a positive return

backtestVars == <<walkVars, todo, sims, profitable>>

Parts(analysis) ==
    IF analysis = "validate" THEN <<"walk_forward", "monte_carlo", "cost_sweep">>
                             ELSE <<analysis>>

BacktestInit ==
    /\ WalkInit
    /\ todo = Parts(setup.analysis)
    /\ sims = <<>> /\ profitable = {}

Doing(part) == todo # <<>> /\ Head(todo) = part

WalkForwardStep ==
    /\ Doing("walk_forward")
    /\ \/ (Train \/ Test) /\ UNCHANGED todo
       \/ ~FoldUnderWay /\ todo' = Tail(todo) /\ UNCHANGED walkVars
    /\ UNCHANGED <<sims, profitable>>

OneSign(values) ==
    \/ \A i \in DOMAIN values : values[i] >= 0
    \/ \A i \in DOMAIN values : values[i] <= 0

\* A run with fills in fewer than two time buckets has no returns to resample.
\* The command resamples a straight line from the first equity to the last,
\* whose returns have one sign; those of a resample may all be the same.
RunMonteCarlo ==
    /\ Doing("monte_carlo")
    /\ \E sample \in Samples \cup {<<>>} :
          /\ setup.straight => sample # <<>> /\ OneSign(sample)
          /\ sims' = Sorted(sample)
    /\ todo' = Tail(todo)
    /\ UNCHANGED <<walkVars, profitable>>

RunCostSweep ==
    /\ Doing("cost_sweep")
    /\ profitable' \in SUBSET Scenarios
    /\ todo' = Tail(todo)
    /\ UNCHANGED <<walkVars, sims>>

BacktestNext == WalkForwardStep \/ RunMonteCarlo \/ RunCostSweep

BacktestSpec == BacktestInit /\ [][BacktestNext]_backtestVars

-----------------------------------------------------------------------------
Done == todo = <<>>

Graded == Done /\ setup.analysis = "validate"

TheGrade == ReportGrade(results, sims, profitable)

\* A strategy that does on average less than half as well on unseen trades as
\* in training is WEAK at best, and FAILs when it does less than a third as
\* well or loses, unless the tests come to exactly nothing; STRONG takes every
\* part to have had data, through the signs and zeros that the ratios divide by.
GradeIsEarned ==
    Graded =>
        LET train == TrainSum(results)
            test  == TestSum(results)
        IN  /\ train > 0 /\ train > 2 * test => TheGrade \in {"WEAK", "FAIL"}
            /\ train > 0 /\ train > 3 * test /\ test # 0 => TheGrade = "FAIL"
            /\ TheGrade = "STRONG" =>
                  results # <<>> /\ sims # <<>> /\ train < 2 * test

\* The intervals of a distribution rise with their levels around its median,
\* and with the probability of a positive Sharpe they tell the same story.
IntervalsAgree ==
    sims # <<>> =>
        /\ AtLevel(sims, 50) = Median(sims)
        /\ \A a, b \in {5, 25, 50, 75, 95} :
              a <= b => AtLevel(sims, a) <= AtLevel(sims, b)
        /\ 2 * Positives(sims) < Len(sims) => Median(sims) <= 0
        /\ 100 * Positives(sims) > 95 * Len(sims) => AtLevel(sims, 5) > 0

\* What the code does not keep.  validation.py:33 "some concerns but
\* tradeable": without a scenario that profits the breakevens are 0, which no
\* flag looks at, and a strategy that never trades is MODERATE.
TradeableProfits ==
    Graded /\ TheGrade \in {"STRONG", "MODERATE"} => profitable # {}

=============================================================================
