---------------------------- MODULE AnalysisJobs ----------------------------
(***************************************************************************)
(* The job store of the dashboard (services/post-trade/post_trade_svc/     *)
(* analysis_jobs.py): jobs run on a pool of threads and set the fields of  *)
(* their entry one after the other under a lock, while the endpoints of    *)
(* dashboard.py read the fields of the same entry without it.              *)
(***************************************************************************)
EXTENDS Integers, Sequences, FiniteSets

CONSTANTS
    Jobs,        \* jobs explored
    Types,       \* analysis types explored
    Workers,     \* max_workers
    MaxRestarts  \* bound on the restarts of the service explored

AllTypes == {"sensitivity", "walk_forward", "monte_carlo", "cost_sweep",
             "validate", "run_all"}

ASSUME AnalysisJobsAssumption ==
    /\ "none" \notin Jobs
    /\ Types \subseteq AllTypes
    /\ Workers \in Nat \ {0} /\ MaxRestarts \in Nat

VARIABLES
    type,      \* analysis_type of each job, "none" before it is submitted
    status, progress, result,  \* the fields of each job's entry
    executor,  \* jobs the pool has not begun
    running,   \* jobs its threads run
    step,      \* calls of _update that each job has made
    failing,   \* the jobs whose analysis has raised
    writes,    \* fields still to be set by the call of _update under way
    lock,      \* the job that holds JobStore._lock, "none" if free
    restarts   \* restarts so far (history)

entries == <<type, status, progress, result>>
work == <<executor, running, step, failing, writes, lock>>
serverVars == <<entries, work, restarts>>

Statuses == {"none", "pending", "running", "completed", "failed"}

AtFirst(value) == [j \in Jobs |-> value]

ServerInit ==
    /\ type = AtFirst("none") /\ status = AtFirst("none")
    /\ progress = AtFirst(0) /\ result = AtFirst(FALSE)
    /\ executor = <<>> /\ running = {} /\ step = AtFirst(0) /\ failing = {}
    /\ writes = <<>> /\ lock = "none"
    /\ restarts = 0

-----------------------------------------------------------------------------
(* The calls of _update that a job makes, as sequences of fields.          *)

Sensitivity == <<30, 90>>
WalkForward == <<20, 40, 90>>
MonteCarlo == <<20, 40, 90>>
CostSweep == <<20, 90>>
Validate == <<10, 35, 65, 85>>

RunAll ==
    <<5>> \o Sensitivity \o <<20>> \o WalkForward \o <<40>> \o MonteCarlo
    \o <<60>> \o CostSweep \o <<80>> \o Validate \o <<95>>

\* The values of progress that _execute_analysis sets.
ProgressOf(analysisType) ==
    CASE analysisType = "sensitivity" -> Sensitivity
      [] analysisType = "walk_forward" -> WalkForward
      [] analysisType = "monte_carlo" -> MonteCarlo
      [] analysisType = "cost_sweep" -> CostSweep
      [] analysisType = "validate" -> Validate
      [] analysisType = "run_all" -> RunAll

Field(name, value) == [field |-> name, value |-> value]

\* Mutant of Completion: the result is forgotten.
CompletionUnset == <<Field("status", "completed"), Field("progress", 100)>>

Completion ==
    <<Field("status", "completed"), Field("result", TRUE), Field("progress", 100)>>

Failure == <<Field("status", "failed")>>

LastStep(j) == Len(ProgressOf(type[j])) + 1

\* The fields that the next call of _update of a job sets.
Update(j) ==
    IF step[j] = 0 THEN <<Field("status", "running"), Field("progress", 10)>>
    ELSE IF j \in failing THEN Failure
    ELSE IF step[j] = LastStep(j) THEN Completion
    ELSE <<Field("progress", ProgressOf(type[j])[step[j]])>>

-----------------------------------------------------------------------------
(* JobStore. *)

\* submit: the entry is made under the lock, then the pool gets the job.
SubmitTo(j, analysisType) ==
    /\ lock = "none" /\ type[j] = "none"
    /\ type' = [type EXCEPT ![j] = analysisType]
    /\ status' = [status EXCEPT ![j] = "pending"]
    /\ executor' = Append(executor, j)
    /\ UNCHANGED <<progress, result, running, step, failing, writes, lock, restarts>>

\* Mutant of Take: one thread too few.
TakeFew ==
    /\ executor # <<>> /\ Cardinality(running) < Workers - 1
    /\ running' = running \cup {Head(executor)} /\ executor' = Tail(executor)
    /\ UNCHANGED <<entries, step, failing, writes, lock, restarts>>

\* A thread of the pool takes the next job.
Take ==
    /\ executor # <<>> /\ Cardinality(running) < Workers
    /\ running' = running \cup {Head(executor)} /\ executor' = Tail(executor)
    /\ UNCHANGED <<entries, step, failing, writes, lock, restarts>>

BeginUpdate(j) ==
    /\ j \in running /\ lock = "none"
    /\ lock' = j /\ writes' = Update(j)
    /\ UNCHANGED <<entries, executor, running, step, failing, restarts>>

Ended(j) == step[j] > 0 /\ (j \in failing \/ step[j] = LastStep(j))

\* One setattr; the last one frees the lock, and the last call the thread.
SetField(j) ==
    /\ lock = j
    /\ LET w == Head(writes)
           over == Tail(writes) = <<>> IN
       /\ status' = IF w.field = "status" THEN [status EXCEPT ![j] = w.value] ELSE status
       /\ result' = IF w.field = "result" THEN [result EXCEPT ![j] = w.value] ELSE result
       /\ progress' = IF w.field = "progress" THEN [progress EXCEPT ![j] = w.value]
                      ELSE progress
       /\ writes' = Tail(writes)
       /\ lock' = IF over THEN "none" ELSE j
       /\ step' = IF over THEN [step EXCEPT ![j] = @ + 1] ELSE step
       /\ running' = IF over /\ Ended(j) THEN running \ {j} ELSE running
    /\ UNCHANGED <<type, executor, failing, restarts>>

\* The analysis raises: no data, an unknown type, a failure of the database.
Raise(j) ==
    /\ j \in running \ failing /\ lock # j /\ step[j] > 0
    /\ failing' = failing \cup {j}
    /\ UNCHANGED <<entries, executor, running, step, writes, lock, restarts>>

\* The store is in memory only.
RestartServer ==
    /\ restarts < MaxRestarts /\ restarts' = restarts + 1
    /\ status' = AtFirst("none") /\ progress' = AtFirst(0) /\ result' = AtFirst(FALSE)
    /\ executor' = <<>> /\ running' = {} /\ step' = AtFirst(0) /\ failing' = {}
    /\ writes' = <<>> /\ lock' = "none"
    /\ UNCHANGED type

Pool == Take \/ \E j \in Jobs : BeginUpdate(j) \/ SetField(j) \/ Raise(j)

=============================================================================
