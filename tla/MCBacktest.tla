----------------------------- MODULE MCBacktest -----------------------------
EXTENDS Backtest

Setup(analysis, straight, trades, splits, window) ==
    [analysis |-> analysis, straight |-> straight, trades |-> trades,
     splits |-> splits, window |-> window]

\* Windows that divide the trades evenly, unevenly, that are too small for the
\* minimums, that are none; and each kind of job.
SomeSetups ==
    {Setup("validate", FALSE, 21, 2, "rolling"),
     Setup("validate", TRUE, 7, 5, "rolling"),
     Setup("walk_forward", FALSE, 30, 3, "rolling"),
     Setup("walk_forward", FALSE, 4, 2, "rolling"),
     Setup("walk_forward", FALSE, 17, 3, "expanding"),
     Setup("walk_forward", FALSE, 0, 5, "expanding"),
     Setup("monte_carlo", FALSE, 9, 1, "rolling"),
     Setup("cost_sweep", FALSE, 9, 1, "rolling")}

SomeSharpes == {-2, 0, 1, 4}

\* Twenty simulations, neither all alike nor in order.
SomeSamples ==
    {[i \in 1..20 |-> IF i <= a THEN 4 ELSE IF i <= a + b THEN -2 ELSE 1] :
        a \in {0, 1, 10, 19, 20}, b \in {0, 1, 6, 11}}
        \cup {[i \in 1..20 |-> IF i <= n THEN 0 ELSE -2] : n \in {5, 20}}

=============================================================================
