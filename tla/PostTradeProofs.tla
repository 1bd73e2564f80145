-------------------------- MODULE PostTradeProofs ----------------------------
(***************************************************************************)
(* The post-trade service.  For any jobs, threads of the pool, requests    *)
(* under way and restarts: the entry of an analysis job is whole whenever  *)
(* the lock is free, and whoever has seen a job completed is given its     *)
(* result.  For any orders, trades and signals: the ledger keeps accounts, *)
(* its books balance, its drawdowns agree, a workbook is in order, orders  *)
(* pay their price, and a backtest's analysis finds the same gains, and    *)
(* the same returns for the signals of a strategy.                         *)
(***************************************************************************)
EXTENDS AnalysisTab, Analytics, DataTheorems, TLAPS

Progress == 0..95

-----------------------------------------------------------------------------
(* The progress that analyses report. *)

LEMMA PartsAreProgress ==
    /\ Sensitivity \in Seq(Progress) /\ WalkForward \in Seq(Progress)
    /\ MonteCarlo \in Seq(Progress) /\ CostSweep \in Seq(Progress)
    /\ Validate \in Seq(Progress)
BY DEF Sensitivity, WalkForward, MonteCarlo, CostSweep, Validate, Progress

\* So does the run of all of them.
LEMMA RunAllIsProgress == RunAll \in Seq(Progress)
<1>1. ASSUME NEW a \in Seq(Progress), NEW b \in Seq(Progress)
      PROVE  a \o b \in Seq(Progress)
  BY <1>1
<1>2. /\ <<5>> \in Seq(Progress) /\ <<20>> \in Seq(Progress)
      /\ <<40>> \in Seq(Progress) /\ <<60>> \in Seq(Progress)
      /\ <<80>> \in Seq(Progress) /\ <<95>> \in Seq(Progress)
  BY DEF Progress
<1> HIDE DEF Progress
<1> DEFINE U == <<5>> \o Sensitivity \o <<20>>
           B == U \o WalkForward \o <<40>>
           C == B \o MonteCarlo \o <<60>>
           D == C \o CostSweep \o <<80>>
<1>3. U \in Seq(Progress)
  BY <1>1, <1>2, PartsAreProgress
<1> HIDE DEF U
<1>4. B \in Seq(Progress)
  BY <1>1, <1>2, <1>3, PartsAreProgress
<1> HIDE DEF B
<1>5. C \in Seq(Progress)
  BY <1>1, <1>2, <1>4, PartsAreProgress
<1> HIDE DEF C
<1>6. D \in Seq(Progress)
  BY <1>1, <1>2, <1>5, PartsAreProgress
<1> HIDE DEF D
<1>7. D \o Validate \o <<95>> \in Seq(Progress)
  BY <1>1, <1>2, <1>6, PartsAreProgress
<1> QED
  BY <1>7 DEF U, B, C, D, RunAll

\* Whatever the type, the progress reported is in this range.
LEMMA ProgressIsTyped ==
    ASSUME NEW t \in Types PROVE ProgressOf(t) \in Seq(Progress)
<1>1. t \in AllTypes
  BY AnalysisJobsAssumption DEF AnalysisJobsAssumption
<1> QED
  BY <1>1, PartsAreProgress, RunAllIsProgress DEF AllTypes, ProgressOf

-----------------------------------------------------------------------------
(* The invariant.  A job passes through four stages: it waits in the queue *)
(* of the pool, runs, is being written by the holder of the lock, or is    *)
(* over; what its entry holds depends on the stage.                        *)

Typed ==
    /\ type \in [Jobs -> Types \cup {"none"}] /\ status \in [Jobs -> Statuses]
    /\ progress \in [Jobs -> 0..100] /\ result \in [Jobs -> BOOLEAN]
    /\ step \in [Jobs -> Nat] /\ running \subseteq Jobs /\ failing \subseteq Jobs
    /\ executor \in Seq(Jobs) /\ lock \in Jobs \cup {"none"} /\ restarts \in Nat

\* The entry of a job that nobody has written a result to.
Empty(j) == ~result[j] /\ progress[j] # 100

\* A queued job has not run, and is queued once.
Queued ==
    /\ \A i \in DOMAIN executor :
          LET j == executor[i] IN
          /\ j \notin running /\ status[j] = "pending" /\ step[j] = 0
          /\ type[j] \in Types /\ Empty(j)
    /\ \A i, k \in DOMAIN executor : executor[i] = executor[k] => i = k

\* A job before its call number step of _update.
Before(j) ==
    /\ type[j] \in Types /\ Empty(j) /\ step[j] <= LastStep(j)
    /\ status[j] = IF step[j] = 0 THEN "pending" ELSE "running"

Runs == \A j \in running : j # lock => Before(j)

\* The job that holds the lock, with what it still has to set.
Writing(j) ==
    /\ j \in running /\ type[j] \in Types /\ step[j] <= LastStep(j)
    /\ \/ Before(j) /\ writes = Update(j)
       \/ /\ step[j] = 0 /\ status[j] = "running" /\ Empty(j)
          /\ writes = <<Field("progress", 10)>>
       \/ /\ step[j] > 0 /\ step[j] = LastStep(j) /\ j \notin failing
          /\ status[j] = "completed" /\ progress[j] # 100
          /\ \/ ~result[j] /\ writes = <<Field("result", TRUE), Field("progress", 100)>>
             \/ result[j] /\ writes = <<Field("progress", 100)>>

Locked == IF lock = "none" THEN writes = <<>> ELSE Writing(lock)

\* The jobs that nobody writes.
AtRest ==
    \A j \in Jobs \ running :
        /\ status[j] # "running"
        /\ (status[j] = "completed") <=> result[j]
        /\ result[j] <=> (progress[j] = 100)
        /\ type[j] = "none" => status[j] = "none" /\ step[j] = 0

Server == Typed /\ Queued /\ Runs /\ Locked /\ AtRest

\* A job that was submitted, and lost in a restart.
Lost(j) == Forgotten(j) /\ type[j] # "none"

\* A job that is completed, or was when a restart lost it.
Done(j) == j \in Jobs /\ (status[j] = "completed" \/ Lost(j))

\* What a request has seen is true, and stays true unless a restart loses it.
Seen(r) ==
    /\ r.at = "status" /\ r.saw = "completed" => Done(r.job)
    /\ r.at = "status" /\ r.saw = "failed" =>
           r.job \in Jobs /\ (status[r.job] = "failed" \/ Lost(r.job))
    /\ r.at \in {"get result", "get view"} => Done(r.job)
    /\ r.at \in {"read result", "read view"} =>
           r.job \in Jobs /\ (result[r.job] \/ Lost(r.job))
    /\ r.at \in {"result", "view"} =>
           r.saw = "result" \/ (r.saw = "not found" /\ r.job \in Jobs /\ Lost(r.job))
    /\ r.at \in {"get status", "read status"} => r.job \in Jobs

Requests == DOMAIN requests = Slots /\ \A s \in Slots : Seen(requests[s])

Listed == \A j \in listed : Done(j)

Followed == activeJob \in Jobs \cup {"none"} /\ submitted \in Jobs \cup {"none"}

IInv == Server /\ Requests /\ Listed /\ Followed

-----------------------------------------------------------------------------
(* The steps of the server. *)

LEMMA ServerStarts == ServerInit => Server
BY AnalysisJobsAssumption
   DEF ServerInit, Server, Typed, Queued, Runs, Locked, AtRest, AtFirst, Statuses, Empty

\* A call of _update before the last reports progress of the analysis.
LEMMA StepsAreCounted ==
    ASSUME NEW j \in Jobs, type[j] \in Types
    PROVE  /\ LastStep(j) \in Nat \ {0}
           /\ \A k \in Nat \ {0} : k < LastStep(j) => ProgressOf(type[j])[k] \in Progress
<1>1. ProgressOf(type[j]) \in Seq(Progress)
  BY ProgressIsTyped
<1> QED
  BY <1>1 DEF LastStep

\* What an endpoint has seen of a job that is over stays so.
Stable ==
    \A j \in Jobs : /\ status[j] = "completed" => status'[j] = "completed"
                    /\ status[j] = "failed" => status'[j] = "failed"
                    /\ result[j] => result'[j]
                    /\ Lost(j) => Lost(j)'

\* A new job waits in the queue, with an empty entry.
LEMMA SubmitKeepsServer ==
    ASSUME Server, NEW j \in Jobs, NEW t \in Types, SubmitTo(j, t)
    PROVE  Server' /\ Stable
<1> USE DEF SubmitTo, Server
<1>1. type[j] \notin Types /\ lock = "none"
  BY AnalysisJobsAssumption DEF AnalysisJobsAssumption, AllTypes
<1>2. j \notin running
  BY <1>1, AnalysisJobsAssumption DEF AnalysisJobsAssumption, Runs, Before
<1>3. status[j] = "none" /\ step[j] = 0 /\ Empty(j)
  BY <1>2 DEF AtRest, Empty
<1>4. \A i \in DOMAIN executor : executor[i] # j
  BY <1>1 DEF Queued
<1>5. Typed'
  BY DEF Typed, Statuses
<1>6. Queued'
  BY <1>2, <1>3, <1>4 DEF Queued, Typed, Empty
<1>7. Runs' /\ Locked' /\ AtRest'
  BY <1>1, <1>2, <1>3 DEF Runs, Before, Locked, AtRest, Typed, Empty, LastStep
<1>8. Stable
  BY <1>3, AnalysisJobsAssumption
     DEF Stable, Typed, Lost, Forgotten, AnalysisJobsAssumption, AllTypes
<1> QED
  BY <1>5, <1>6, <1>7, <1>8

\* A thread takes a job that nobody has begun.
LEMMA TakeKeepsServer == ASSUME Server, Take PROVE Server' /\ Stable
<1> USE DEF Take, Server, entries
<1> DEFINE j == Head(executor)
<1>1. /\ j \in Jobs /\ executor[1] = j /\ 1 \in DOMAIN executor
      /\ Len(executor) \in Nat \ {0} /\ DOMAIN executor = 1..Len(executor)
      /\ executor' \in Seq(Jobs) /\ Len(executor') = Len(executor) - 1
      /\ \A i \in DOMAIN executor' : executor'[i] = executor[i + 1]
  BY DEF Typed
<1>2. \A i \in DOMAIN executor' : i + 1 \in DOMAIN executor /\ i + 1 # 1
  BY <1>1
<1> HIDE DEF j
<1>3. Typed'
  BY <1>1 DEF Typed, j
<1>4. Queued'
  BY <1>1, <1>2 DEF Queued, Empty, j
<1>5. /\ j \notin running /\ status[j] = "pending" /\ step[j] = 0
      /\ type[j] \in Types /\ Empty(j)
  BY <1>1 DEF Queued
<1>6. Before(j)
  BY <1>5, StepsAreCounted, <1>1 DEF Before
<1>7. Runs'
  BY <1>6 DEF Runs, Before, Empty, LastStep, j
<1>8. Locked'
  BY DEF Locked, Writing, Before, Update, Empty, LastStep
<1>9. AtRest'
  BY DEF AtRest
<1> QED
  BY <1>3, <1>4, <1>7, <1>8, <1>9 DEF Stable, Lost, Forgotten

\* Who takes the lock has the fields of its next call to set.
LEMMA BeginUpdateKeepsServer ==
    ASSUME Server, NEW j \in Jobs, BeginUpdate(j)
    PROVE  Server' /\ Stable
<1> USE DEF BeginUpdate, Server, entries
<1>1. j # "none"
  BY AnalysisJobsAssumption DEF AnalysisJobsAssumption
<1>2. Before(j)
  BY <1>1 DEF Runs
<1>3. Typed' /\ Queued'
  BY DEF Typed, Queued, Empty
<1>4. Runs' /\ AtRest'
  <2>1. \A k \in running : k # lock
    BY AnalysisJobsAssumption DEF AnalysisJobsAssumption, Typed
  <2> QED
    BY <2>1 DEF Runs, AtRest, Before, Empty, LastStep
<1>5. Locked'
  BY <1>1, <1>2 DEF Locked, Writing, Before, Empty, LastStep, Update
<1> QED
  BY <1>3, <1>4, <1>5 DEF Stable, Lost, Forgotten

\* An analysis that raises is not in a call of _update.
LEMMA RaiseKeepsServer ==
    ASSUME Server, NEW j \in Jobs, Raise(j)
    PROVE  Server' /\ Stable
<1> USE DEF Raise, Server, entries
<1>1. Typed' /\ Queued' /\ Runs' /\ AtRest'
  BY DEF Typed, Queued, Runs, AtRest, Before, Empty, LastStep
<1>2. Locked'
  BY DEF Locked, Writing, Before, Empty, LastStep, Update
<1> QED
  BY <1>1, <1>2 DEF Stable, Lost, Forgotten

\* The holder j of the lock sets its own entry to status s, progress p and
\* result r, and its step to n.
Sets(j, s, p, r, n) ==
    /\ lock = j /\ s \in Statuses /\ p \in 0..100 /\ r \in BOOLEAN /\ n \in Nat
    /\ status' = [status EXCEPT ![j] = s] /\ progress' = [progress EXCEPT ![j] = p]
    /\ result' = [result EXCEPT ![j] = r] /\ step' = [step EXCEPT ![j] = n]
    /\ running' \in {running, running \ {j}} /\ lock' \in {j, "none"}
    /\ UNCHANGED <<type, executor, failing, restarts>> /\ s # "none"
    /\ status[j] = "completed" => s = "completed"
    /\ result[j] => r
    /\ Locked'
    /\ j \in running' /\ lock' # j => Before(j)'
    /\ j \notin running' => /\ s # "running" /\ ((s = "completed") <=> r)
                            /\ (r <=> (p = 100))

\* Such a step keeps the invariant.
LEMMA SettingKeepsServer ==
    ASSUME Server, NEW j \in Jobs, NEW s, NEW p, NEW r, NEW n, Sets(j, s, p, r, n)
    PROVE  Server' /\ Stable
<1> USE DEF Sets
<1>1. j # "none" /\ Writing(j)
  BY AnalysisJobsAssumption DEF AnalysisJobsAssumption, Server, Locked
<1>2. j \in running /\ type[j] # "none"
  BY <1>1, AnalysisJobsAssumption DEF Writing, AnalysisJobsAssumption, AllTypes
<1>3. \A k \in Jobs \ {j} : /\ status'[k] = status[k] /\ progress'[k] = progress[k]
                            /\ result'[k] = result[k] /\ step'[k] = step[k]
  BY DEF Server, Typed
<1>4. /\ status'[j] = s /\ progress'[j] = p /\ result'[j] = r
  BY DEF Server, Typed
<1>5. Typed'
  BY DEF Server, Typed
<1>6. \A i \in DOMAIN executor : executor[i] \in Jobs \ {j}
  BY <1>2 DEF Server, Typed, Queued
<1>7. Queued'
  BY <1>3, <1>6 DEF Server, Queued, Empty
<1>8. \A k \in running \ {j} : Before(k)'
  <2>1. ASSUME NEW k \in running \ {j} PROVE Before(k)'
    <3>1. Before(k) /\ k \in Jobs \ {j}
      BY <2>1 DEF Server, Typed, Runs
    <3> QED
      BY <1>3, <3>1 DEF Before, Empty, LastStep
  <2> QED
    BY <2>1
<1>9. Runs'
  BY <1>8 DEF Runs
<1>10. AtRest'
  BY <1>2, <1>3, <1>4 DEF Server, AtRest
<1>11. Stable
  <2>1. status[j] # "failed" /\ status[j] # "none"
    BY <1>1 DEF Writing, Before
  <2>2. ASSUME NEW k \in Jobs, Lost(k) PROVE Lost(k)'
    BY <1>3, <2>1, <2>2 DEF Lost, Forgotten
  <2> QED
    BY <1>3, <1>4, <2>1, <2>2 DEF Stable
<1> QED
  BY <1>5, <1>7, <1>9, <1>10, <1>11 DEF Server

\* The last field of a call of _update frees the lock, and perhaps the thread.
LEMMA LastField ==
    ASSUME NEW j, SetField(j), NEW f, NEW v, writes = <<Field(f, v)>>
    PROVE  /\ status' = IF f = "status" THEN [status EXCEPT ![j] = v] ELSE status
           /\ result' = IF f = "result" THEN [result EXCEPT ![j] = v] ELSE result
           /\ progress' = IF f = "progress" THEN [progress EXCEPT ![j] = v] ELSE progress
           /\ writes' = <<>> /\ lock' = "none"
           /\ step' = [step EXCEPT ![j] = step[j] + 1]
           /\ running' = IF Ended(j) THEN running \ {j} ELSE running
<1>1. Head(writes) = Field(f, v) /\ Tail(writes) = <<>>
  OBVIOUS
<1>2. Head(writes).field = f /\ Head(writes).value = v
  BY <1>1 DEF Field
<1> QED
  BY <1>1, <1>2 DEF SetField

\* The fields of a completion, in the order of the code.
LEMMA CompletionFields ==
    /\ Head(Completion) = Field("status", "completed")
    /\ Tail(Completion) = <<Field("result", TRUE), Field("progress", 100)>>
    /\ Tail(Completion) # <<>>
<1> DEFINE a == Field("status", "completed")
           b == Field("result", TRUE)
           c == Field("progress", 100)
<1>1. Completion = <<a, b, c>>
  BY DEF Completion
<1> HIDE DEF a, b, c
<1>2. Head(<<a, b, c>>) = a /\ Tail(<<a, b, c>>) = <<b, c>> /\ <<b, c>> # <<>>
  OBVIOUS
<1>3. Head(Completion) = a /\ Tail(Completion) = <<b, c>> /\ Tail(Completion) # <<>>
  BY <1>1, <1>2
<1> QED
  BY <1>3 DEF a, b, c

\* A field before the last leaves the lock to the call of _update.
LEMMA FieldBefore ==
    ASSUME NEW j, SetField(j), NEW f, NEW v,
           Head(writes) = Field(f, v), Tail(writes) # <<>>
    PROVE  /\ status' = IF f = "status" THEN [status EXCEPT ![j] = v] ELSE status
           /\ result' = IF f = "result" THEN [result EXCEPT ![j] = v] ELSE result
           /\ progress' = IF f = "progress" THEN [progress EXCEPT ![j] = v] ELSE progress
           /\ writes' = Tail(writes) /\ lock' = j /\ step' = step /\ running' = running
<1>1. Head(writes).field = f /\ Head(writes).value = v
  BY DEF Field
<1> QED
  BY <1>1 DEF SetField

\* One setattr of the call of _update under way.
LEMMA SetFieldKeepsServer ==
    ASSUME Server, NEW j \in Jobs, SetField(j)
    PROVE  Server' /\ Stable
<1>1. lock = j /\ j # "none" /\ Writing(j)
  BY AnalysisJobsAssumption DEF AnalysisJobsAssumption, Server, Locked, SetField
<1>2. LastStep(j) \in Nat \ {0} /\ step[j] \in Nat
  BY <1>1, StepsAreCounted DEF Writing, Server, Typed
<1>3. /\ status = [status EXCEPT ![j] = status[j]]
      /\ result = [result EXCEPT ![j] = result[j]]
      /\ progress = [progress EXCEPT ![j] = progress[j]]
      /\ step = [step EXCEPT ![j] = step[j]]
      /\ status[j] \in Statuses /\ result[j] \in BOOLEAN /\ progress[j] \in 0..100
  BY DEF Server, Typed
<1>4. UNCHANGED <<type, executor, failing, restarts>> /\ LastStep(j)' = LastStep(j)
  BY DEF SetField, LastStep
<1>5. CASE Before(j) /\ step[j] = 0 /\ writes = Update(j)
  <2>1. writes = <<Field("status", "running"), Field("progress", 10)>>
    BY <1>5 DEF Update
  <2>2. /\ Head(writes) = Field("status", "running")
        /\ Tail(writes) = <<Field("progress", 10)>> /\ Tail(writes) # <<>>
    BY <2>1
  <2>3. /\ status' = [status EXCEPT ![j] = "running"] /\ UNCHANGED <<progress, result>>
        /\ writes' = <<Field("progress", 10)>> /\ lock' = j
        /\ UNCHANGED <<step, running>>
    BY <2>2, FieldBefore
  <2>4. status'[j] = "running"
    BY <2>3 DEF Server, Typed
  <2>5. Locked'
    BY <1>1, <1>4, <1>5, <2>3, <2>4 DEF Locked, Writing, Before, Empty
  <2> QED
    <3>1. Sets(j, "running", progress[j], result[j], step[j])
      BY <1>1, <1>2, <1>3, <1>4, <1>5, <2>3, <2>5 DEF Sets, Writing, Before, Statuses
    <3> QED
      BY ONLY <3>1, Server, SettingKeepsServer
<1>6. CASE Before(j) /\ step[j] > 0 /\ j \in failing /\ writes = Update(j)
  <2>1. writes = <<Field("status", "failed")>>
    BY <1>2, <1>6 DEF Update, Failure
  <2>2. /\ status' = [status EXCEPT ![j] = "failed"] /\ UNCHANGED <<progress, result>>
        /\ writes' = <<>> /\ lock' = "none"
        /\ step' = [step EXCEPT ![j] = step[j] + 1] /\ running' = running \ {j}
    BY <1>6, <2>1, LastField DEF Ended
  <2>3. Locked'
    BY <2>2 DEF Locked
  <2>4. /\ ~result[j] /\ progress[j] # 100 /\ status[j] # "completed"
        /\ step[j] + 1 \in Nat /\ "failed" \in Statuses
    BY <1>2, <1>6 DEF Before, Empty, Statuses
  <2> QED
    <3>1. Sets(j, "failed", progress[j], result[j], step[j] + 1)
      BY <1>1, <1>3, <1>4, <2>2, <2>3, <2>4 DEF Sets
    <3> QED
      BY ONLY <3>1, Server, SettingKeepsServer
<1>7. CASE /\ Before(j) /\ step[j] = LastStep(j) /\ j \notin failing
           /\ writes = Update(j)
  <2>1. writes = <<Field("status", "completed"), Field("result", TRUE),
                   Field("progress", 100)>>
    BY <1>2, <1>7 DEF Update, Completion
  <2>2. /\ Head(writes) = Field("status", "completed")
        /\ Tail(writes) = <<Field("result", TRUE), Field("progress", 100)>>
        /\ Tail(writes) # <<>>
    BY <2>1, CompletionFields DEF Completion
  <2>3. /\ status' = [status EXCEPT ![j] = "completed"] /\ UNCHANGED <<progress, result>>
        /\ writes' = <<Field("result", TRUE), Field("progress", 100)>> /\ lock' = j
        /\ UNCHANGED <<step, running>>
    BY <2>2, FieldBefore
  <2>4. status'[j] = "completed"
    BY <2>3 DEF Server, Typed
  <2>5. Locked'
    <3>1. /\ type'[j] = type[j] /\ result'[j] = result[j] /\ progress'[j] = progress[j]
          /\ step'[j] = step[j] /\ j \in running' /\ j \notin failing'
      BY <1>1, <1>4, <1>7, <2>3 DEF Writing
    <3>2. Writing(j)'
      <4>1. /\ type'[j] \in Types /\ ~result'[j] /\ progress'[j] # 100
            /\ step'[j] = LastStep(j)' /\ step'[j] > 0 /\ step'[j] <= LastStep(j)'
        BY <1>2, <1>4, <1>7, <3>1 DEF Before, Empty
      <4> QED
        BY <2>3, <2>4, <3>1, <4>1 DEF Writing
    <3> QED
      BY <1>1, <2>3, <3>2 DEF Locked
  <2> QED
    <3>1. Sets(j, "completed", progress[j], result[j], step[j])
      BY <1>1, <1>2, <1>3, <1>4, <1>7, <2>3, <2>5 DEF Sets, Writing, Before, Statuses
    <3> QED
      BY ONLY <3>1, Server, SettingKeepsServer
<1>8. CASE /\ Before(j) /\ step[j] > 0 /\ step[j] < LastStep(j) /\ j \notin failing
           /\ writes = Update(j)
  <2> DEFINE v == ProgressOf(type[j])[step[j]]
  <2>1. v \in Progress
    BY <1>2, <1>8, StepsAreCounted DEF Before
  <2>2. writes = <<Field("progress", v)>>
    BY <1>2, <1>8 DEF Update
  <2> HIDE DEF v
  <2>3. /\ progress' = [progress EXCEPT ![j] = v] /\ UNCHANGED <<status, result>>
        /\ writes' = <<>> /\ lock' = "none"
        /\ step' = [step EXCEPT ![j] = step[j] + 1] /\ UNCHANGED running
    BY <1>2, <1>8, <2>2, LastField DEF Ended
  <2>4. Locked'
    BY <2>3 DEF Locked
  <2>5. progress'[j] = v /\ step'[j] = step[j] + 1
    BY <2>3 DEF Server, Typed
  <2>6. Before(j)'
    <3>1. type'[j] = type[j] /\ status'[j] = status[j] /\ result'[j] = result[j]
      BY <1>4, <2>3
    <3> QED
      BY <1>2, <1>4, <1>8, <2>1, <2>5, <3>1 DEF Before, Empty, Progress
  <2>7. j \in running /\ v \in 0..100 /\ step[j] + 1 \in Nat
    BY <1>1, <1>2, <2>1 DEF Writing, Progress
  <2> QED
    <3>1. Sets(j, status[j], v, result[j], step[j] + 1)
      BY <1>1, <1>3, <1>4, <1>8, <2>3, <2>4, <2>6, <2>7 DEF Sets, Before
    <3> QED
      BY ONLY <3>1, Server, SettingKeepsServer
<1>9. CASE /\ step[j] = 0 /\ status[j] = "running" /\ Empty(j)
           /\ writes = <<Field("progress", 10)>>
  <2>1. /\ progress' = [progress EXCEPT ![j] = 10] /\ UNCHANGED <<status, result>>
        /\ writes' = <<>> /\ lock' = "none"
        /\ step' = [step EXCEPT ![j] = 1] /\ UNCHANGED running
    BY <1>9, LastField DEF Ended
  <2>2. Locked'
    BY <2>1 DEF Locked
  <2>3. progress'[j] = 10 /\ step'[j] = 1
    BY <2>1 DEF Server, Typed
  <2>4. Before(j)'
    BY <1>1, <1>2, <1>4, <1>9, <2>1, <2>3 DEF Before, Empty, Writing
  <2>5. j \in running /\ 1 \in Nat /\ 10 \in 0..100
    BY <1>1 DEF Writing
  <2> QED
    <3>1. Sets(j, status[j], 10, result[j], 1)
      BY <1>1, <1>3, <1>4, <1>9, <2>1, <2>2, <2>4, <2>5 DEF Sets
    <3> QED
      BY ONLY <3>1, Server, SettingKeepsServer
<1>10. CASE /\ step[j] > 0 /\ step[j] = LastStep(j) /\ j \notin failing
            /\ status[j] = "completed" /\ progress[j] # 100
            /\ ~result[j] /\ writes = <<Field("result", TRUE), Field("progress", 100)>>
  <2>1. /\ Head(writes) = Field("result", TRUE)
        /\ Tail(writes) = <<Field("progress", 100)>> /\ Tail(writes) # <<>>
    BY <1>10
  <2>2. /\ result' = [result EXCEPT ![j] = TRUE] /\ UNCHANGED <<status, progress>>
        /\ writes' = <<Field("progress", 100)>> /\ lock' = j
        /\ UNCHANGED <<step, running>>
    <3>1. /\ SetField(j) /\ Tail(writes) # <<>>
          /\ Head(writes).field = "result" /\ Head(writes).value = TRUE
      BY <2>1 DEF Field
    <3>2. /\ status' = status /\ result' = [result EXCEPT ![j] = TRUE]
          /\ progress' = progress /\ writes' = Tail(writes) /\ lock' = j
          /\ step' = step /\ running' = running
      BY ONLY <3>1 DEF SetField
    <3> QED
      BY <2>1, <3>2
  <2>3. result'[j]
    BY <2>2 DEF Server, Typed
  <2>4. Locked'
    BY <1>1, <1>4, <1>10, <2>2, <2>3 DEF Locked, Writing
  <2>5. j \in running
    BY <1>1 DEF Writing
  <2> QED
    <3>1. Sets(j, status[j], progress[j], TRUE, step[j])
      BY <1>1, <1>2, <1>3, <1>4, <1>10, <2>2, <2>4, <2>5 DEF Sets
    <3> QED
      BY ONLY <3>1, Server, SettingKeepsServer
<1>11. CASE /\ step[j] > 0 /\ step[j] = LastStep(j) /\ j \notin failing
            /\ status[j] = "completed" /\ progress[j] # 100
            /\ result[j] /\ writes = <<Field("progress", 100)>>
  <2>1. /\ progress' = [progress EXCEPT ![j] = 100] /\ UNCHANGED <<status, result>>
        /\ writes' = <<>> /\ lock' = "none"
        /\ step' = [step EXCEPT ![j] = step[j] + 1] /\ running' = running \ {j}
    BY <1>11, LastField DEF Ended
  <2>2. Locked'
    BY <2>1 DEF Locked
  <2>3. step[j] + 1 \in Nat /\ 100 \in 0..100
    BY <1>2
  <2> QED
    <3>1. Sets(j, status[j], 100, result[j], step[j] + 1)
      BY <1>1, <1>3, <1>4, <1>11, <2>1, <2>2, <2>3 DEF Sets
    <3> QED
      BY ONLY <3>1, Server, SettingKeepsServer
<1>12. Before(j) => step[j] = 0 \/ (step[j] > 0 /\ step[j] < LastStep(j))
                    \/ (step[j] > 0 /\ step[j] = LastStep(j))
  BY <1>2 DEF Before
<1> QED
  BY <1>1, <1>5, <1>6, <1>7, <1>8, <1>9, <1>10, <1>11, <1>12 DEF Writing

\* A restart empties the store.
LEMMA RestartKeepsServer == ASSUME Server, RestartServer PROVE Server'
<1> USE DEF RestartServer, Server, AtFirst
<1>1. Typed' /\ Queued' /\ Runs' /\ AtRest' /\ Locked'
  BY DEF Typed, Queued, Runs, AtRest, Locked, Statuses
<1> QED
  BY <1>1

\* What was over is lost, then.
LEMMA RestartLoses ==
    ASSUME Server, RestartServer
    PROVE  \A j \in Jobs : status[j] # "none" \/ Lost(j) => Lost(j)'
<1> USE DEF RestartServer, Server, AtFirst
<1>1. restarts' > 0
  BY DEF Typed
<1>2. ASSUME NEW j \in Jobs, status[j] # "none" \/ Lost(j) PROVE Lost(j)'
  <2>1. type[j] # "none"
    <3>1. CASE j \in running
      <4>1. type[j] \in Types
        <5>1. CASE j = lock
          BY <3>1, <5>1, AnalysisJobsAssumption
             DEF Locked, Writing, AnalysisJobsAssumption
        <5>2. CASE j # lock
          BY <3>1, <5>2 DEF Runs, Before
        <5> QED
          BY <5>1, <5>2
      <4> QED
        BY <4>1, AnalysisJobsAssumption DEF AnalysisJobsAssumption, AllTypes
    <3>2. CASE j \notin running
      BY <1>2, <3>2 DEF AtRest, Lost
    <3> QED
      BY <3>1, <3>2
  <2>2. status'[j] = "none" /\ type'[j] = type[j]
    OBVIOUS
  <2> QED
    BY <1>1, <2>1, <2>2 DEF Lost, Forgotten
<1> QED
  BY <1>2

-----------------------------------------------------------------------------
(* The steps of the tab. *)

LEMMA ServerKeepsRequests ==
    ASSUME Requests, Stable, UNCHANGED requests PROVE Requests'
<1>1. ASSUME NEW s \in Slots PROVE Seen(requests[s])'
  BY DEF Requests, Seen, Done, Stable
<1> QED
  BY <1>1 DEF Requests

\* A request that sees what is true keeps the invariant.
LEMMA NewRequestIsSeen ==
    ASSUME Requests, UNCHANGED <<entries, restarts>>, NEW s \in Slots, NEW r, Seen(r),
           requests' = [requests EXCEPT ![s] = r]
    PROVE  Requests'
<1>1. \A k \in Slots : requests'[k] = IF k = s THEN r ELSE requests[k]
  BY DEF Requests
<1>2. DOMAIN requests' = Slots
  BY DEF Requests
<1>3. ASSUME NEW k \in Slots PROVE Seen(requests[k])'
  <2>1. Seen(requests'[k])
    BY <1>1 DEF Requests
  <2> QED
    BY <2>1 DEF Seen, Done, Lost, Forgotten, entries
<1> QED
  BY <1>2, <1>3 DEF Requests

\* An idle slot has seen nothing.
LEMMA NoRequestIsSeen == Seen(NoRequest)
BY DEF Seen, NoRequest

\* A job that is completed has its result whenever the lock is free.
LEMMA CompletedHasResult ==
    ASSUME Server, lock = "none", NEW j \in Jobs, status[j] = "completed"
    PROVE  result[j]
<1>1. CASE j \in running
  BY <1>1, AnalysisJobsAssumption
     DEF Server, Runs, Before, AnalysisJobsAssumption
<1>2. CASE j \notin running
  BY <1>2 DEF Server, AtRest
<1> QED
  BY <1>1, <1>2

\* get waits for the lock, so a completed job that it returns has its result.
LEMMA GetKeepsRequests ==
    ASSUME Server, Requests, NEW s \in Slots, Get(s) PROVE Requests'
<1> USE DEF Get, Request, serverVars
<1> DEFINE r == requests[s]
<1>1. Seen(r) /\ UNCHANGED <<entries, restarts>> /\ lock = "none"
  BY DEF Requests
<1>2. CASE r.at = "get status"
  <2>1. requests' = [requests EXCEPT ![s] =
                        [at |-> "read status", job |-> r.job, saw |-> "none"]]
    BY <1>2
  <2>2. Seen([at |-> "read status", job |-> r.job, saw |-> "none"])
    BY <1>1, <1>2 DEF Seen
  <2> QED
    BY <1>1, <2>1, <2>2, NewRequestIsSeen
<1>3. CASE r.at = "get result"
  <2>1. requests' = [requests EXCEPT ![s] =
                        [at |-> "read result", job |-> r.job, saw |-> "none"]]
    BY <1>3
  <2>2. Seen([at |-> "read result", job |-> r.job, saw |-> "none"])
    BY <1>1, <1>3, CompletedHasResult DEF Seen, Done
  <2> QED
    BY <1>1, <2>1, <2>2, NewRequestIsSeen
<1>4. CASE r.at = "get view"
  <2>1. requests' = [requests EXCEPT ![s] =
                        [at |-> "read view", job |-> r.job, saw |-> "none"]]
    BY <1>4
  <2>2. Seen([at |-> "read view", job |-> r.job, saw |-> "none"])
    BY <1>1, <1>4, CompletedHasResult DEF Seen, Done
  <2> QED
    BY <1>1, <2>1, <2>2, NewRequestIsSeen
<1> QED
  BY <1>2, <1>3, <1>4

\* The fields are read later; a result that was there is still there.
LEMMA ReadKeepsRequests ==
    ASSUME Server, Requests, NEW s \in Slots, ReadStatus(s) \/ ReadResult(s)
    PROVE  Requests'
<1> USE DEF ReadStatus, ReadResult, Request, serverVars
<1> DEFINE r == requests[s]
<1>1. Seen(r) /\ UNCHANGED <<entries, restarts>>
  BY DEF Requests
<1>2. CASE ReadStatus(s)
  <2>1. requests' = [requests EXCEPT ![s] =
                        [at |-> "status", job |-> r.job, saw |-> status[r.job]]]
    BY <1>2
  <2>2. Seen([at |-> "status", job |-> r.job, saw |-> status[r.job]])
    BY <1>1, <1>2 DEF Seen, Done
  <2> QED
    BY <1>1, <2>1, <2>2, NewRequestIsSeen
<1>3. CASE ReadResult(s)
  <2> DEFINE at == IF r.at = "read result" THEN "result" ELSE "view"
             n(saw) == [at |-> at, job |-> r.job, saw |-> saw]
  <2>1. r.job \in Jobs /\ (result[r.job] \/ Lost(r.job)) /\ r.at \in {"read result", "read view"}
    BY <1>1, <1>3 DEF Seen
  <2>2. CASE result[r.job]
    <3>1. status[r.job] = "completed"
      <4> DEFINE j == r.job
      <4>1. CASE j \notin running
        BY <2>1, <2>2, <4>1 DEF Server, AtRest
      <4>2. CASE j \in running /\ j # lock
        BY <2>1, <2>2, <4>2 DEF Server, Runs, Before, Empty
      <4>3. CASE j \in running /\ j = lock
        <5>1. Writing(j)
          BY <2>1, <4>3, AnalysisJobsAssumption DEF Server, Locked, AnalysisJobsAssumption
        <5> QED
          BY <2>1, <2>2, <5>1 DEF Writing, Before, Empty
      <4> QED
        BY <4>1, <4>2, <4>3
    <3>2. requests' = [requests EXCEPT ![s] = n("result")]
      BY <1>3, <2>1, <2>2, <3>1
    <3>3. Seen(n("result"))
      BY <2>1 DEF Seen
    <3> QED
      BY <1>1, <3>2, <3>3, NewRequestIsSeen
  <2>3. CASE Lost(r.job)
    <3>1. requests' = [requests EXCEPT ![s] = n("not found")]
      BY <1>3, <2>1, <2>3 DEF Lost, Forgotten
    <3>2. Seen(n("not found"))
      BY <2>1, <2>3 DEF Seen
    <3> QED
      BY <1>1, <3>1, <3>2, NewRequestIsSeen
  <2> QED
    BY <2>1, <2>2, <2>3
<1> QED
  BY <1>2, <1>3

\* An answer is acted upon as it was given.
LEMMA AnswerKeepsRequests ==
    ASSUME Requests, NEW s \in Slots,
           StatusAnswered(s) \/ ResultAnswered(s) \/ ViewAnswered(s)
    PROVE  Requests'
<1> USE DEF StatusAnswered, ResultAnswered, ViewAnswered, Request, serverVars
<1> DEFINE r == requests[s]
           n == [at |-> "get result", job |-> r.job, saw |-> "none"]
<1>1. Seen(r) /\ UNCHANGED <<entries, restarts>>
  BY DEF Requests
<1>2. CASE StatusAnswered(s) /\ r.saw = "completed"
  <2>1. requests' = [requests EXCEPT ![s] = n]
    BY <1>2
  <2>2. Seen(n)
    BY <1>1, <1>2 DEF Seen
  <2> QED
    BY <1>1, <2>1, <2>2, NewRequestIsSeen
<1>3. CASE ~(StatusAnswered(s) /\ r.saw = "completed")
  <2>1. requests' = [requests EXCEPT ![s] = NoRequest]
    BY <1>3
  <2> QED
    BY <1>1, <2>1, NoRequestIsSeen, NewRequestIsSeen
<1> QED
  BY <1>2, <1>3

\* The tab asks for jobs that it knows.
LEMMA AskKeepsRequests ==
    ASSUME Requests, Listed, Followed, NEW s \in Slots,
           Poll(s) \/ \E j \in Jobs : View(s, j)
    PROVE  Requests'
<1> USE DEF Poll, View, Request, serverVars
<1>1. CASE Poll(s)
  <2> DEFINE n == [at |-> "get status", job |-> activeJob, saw |-> "none"]
  <2>1. requests' = [requests EXCEPT ![s] = n] /\ UNCHANGED <<entries, restarts>>
    BY <1>1
  <2>2. Seen(n)
    BY <1>1 DEF Seen, Followed
  <2> QED
    BY <2>1, <2>2, NewRequestIsSeen
<1>2. ASSUME NEW j \in Jobs, View(s, j) PROVE Requests'
  <2> DEFINE n == [at |-> "get view", job |-> j, saw |-> "none"]
  <2>1. requests' = [requests EXCEPT ![s] = n] /\ UNCHANGED <<entries, restarts>>
    BY <1>2
  <2>2. Seen(n)
    BY <1>2 DEF Seen, Listed
  <2> QED
    BY <2>1, <2>2, NewRequestIsSeen
<1> QED
  BY <1>1, <1>2

\* The list shows what was completed, and what is completed now.
LEMMA ListKeepsDone ==
    ASSUME Listed, Stable, listed' = listed PROVE Listed'
BY DEF Listed, Done, Stable

LEMMA ListsAreDone ==
    ASSUME Listed, NEW j \in Jobs, NEW seen, seen = "completed" => Done(j),
           ListAs(j, seen), UNCHANGED serverVars
    PROVE  Listed'
<1>1. \A k \in listed' : Done(k)
  BY DEF Listed, ListAs
<1> QED
  BY <1>1 DEF Listed, Done, Lost, Forgotten, serverVars, entries

\* What the server keeps as it is stays so.
LEMMA SameIsStable == ASSUME UNCHANGED serverVars PROVE Stable
BY DEF serverVars, entries, Stable, Lost, Forgotten

\* Steps of the tab leave the server as it is.
LEMMA UnchangedServer == ASSUME Server, UNCHANGED serverVars PROVE Server'
<1> USE DEF Server, serverVars, entries, work
<1>1. Typed' /\ Queued' /\ AtRest'
  BY DEF Typed, Queued, Empty, AtRest
<1>2. Runs'
  BY DEF Runs, Before, Empty, LastStep
<1>3. Locked'
  <2>1. ASSUME NEW j PROVE Before(j)' = Before(j) /\ Update(j)' = Update(j)
    BY DEF Before, Empty, LastStep, Update
  <2> QED
    BY <2>1 DEF Locked, Writing, Empty, LastStep
<1> QED
  BY <1>1, <1>2, <1>3

-----------------------------------------------------------------------------

(* Initially the store is empty and no request is under way.               *)
THEOREM InitIInv == Init => IInv
BY ServerStarts, NoRequestIsSeen DEF Init, IInv, Requests, Listed, Followed

(* Every step of the server, the tab and other clients keeps the invariant.*)
THEOREM NextIInv == IInv /\ [Next]_vars => IInv'
<1> SUFFICES ASSUME IInv, [Next]_vars PROVE IInv'
  OBVIOUS
<1> USE DEF IInv
<1>0. ASSUME UNCHANGED serverVars PROVE Server' /\ Stable
  BY <1>0, UnchangedServer, SameIsStable
<1>1. ASSUME NEW j \in Jobs, Submit(j) PROVE IInv'
  <2>1. Server' /\ Stable
    BY <1>1, SubmitKeepsServer DEF Submit
  <2> QED
    BY <1>1, <2>1, ServerKeepsRequests, ListKeepsDone DEF Submit, Followed
<1>2. ASSUME NEW j \in Jobs, SubmitElsewhere(j) PROVE IInv'
  <2>1. Server' /\ Stable
    BY <1>2, SubmitKeepsServer DEF SubmitElsewhere
  <2> QED
    BY <1>2, <2>1, ServerKeepsRequests, ListKeepsDone
       DEF SubmitElsewhere, tabVars, Followed
<1>3. CASE SubmitAnswered
  <2>1. Server' /\ Stable
    BY <1>0, <1>3 DEF SubmitAnswered
  <2> QED
    BY <1>3, <2>1, ServerKeepsRequests, ListKeepsDone DEF SubmitAnswered, Followed
<1>4. CASE Pool /\ UNCHANGED tabVars
  <2>1. Server' /\ Stable
    BY <1>4, TakeKeepsServer, BeginUpdateKeepsServer, SetFieldKeepsServer,
       RaiseKeepsServer DEF Pool
  <2> QED
    BY <1>4, <2>1, ServerKeepsRequests, ListKeepsDone DEF tabVars, Followed
<1>5. ASSUME NEW s \in Slots, Poll(s) \/ \E j \in Jobs : View(s, j) PROVE IInv'
  <2>1. Requests'
    BY <1>5, AskKeepsRequests
  <2>2. Server' /\ Stable /\ listed' = listed
    BY <1>0, <1>5 DEF Poll, View
  <2> QED
    BY <1>5, <2>1, <2>2, ListKeepsDone DEF Poll, View, Followed
<1>6. ASSUME NEW s \in Slots, Get(s) PROVE IInv'
  <2>1. Requests'
    BY <1>6, GetKeepsRequests
  <2>2. Server' /\ Stable /\ listed' = listed
    BY <1>0, <1>6 DEF Get
  <2> QED
    BY <1>6, <2>1, <2>2, ListKeepsDone DEF Get, Followed
<1>7. ASSUME NEW s \in Slots, ReadStatus(s) \/ ReadResult(s) PROVE IInv'
  <2>1. Requests'
    BY <1>7, ReadKeepsRequests
  <2>2. Server' /\ Stable /\ listed' = listed
    BY <1>0, <1>7 DEF ReadStatus, ReadResult
  <2> QED
    BY <1>7, <2>1, <2>2, ListKeepsDone DEF ReadStatus, ReadResult, Followed
<1>8. ASSUME NEW s \in Slots, StatusAnswered(s) \/ ResultAnswered(s) \/ ViewAnswered(s)
      PROVE  IInv'
  <2>1. Requests'
    BY <1>8, AnswerKeepsRequests
  <2>2. Server' /\ Stable /\ UNCHANGED serverVars
    BY <1>0, <1>8 DEF StatusAnswered, ResultAnswered, ViewAnswered
  <2>3. Listed'
    <3>1. CASE StatusAnswered(s)
      <4> DEFINE r == requests[s]
      <4>1. ListAs(r.job, r.saw) /\ Seen(r) /\ r.at = "status"
        BY <3>1 DEF StatusAnswered, Requests
      <4>2. CASE r.saw = "completed"
        <5>1. Done(r.job) /\ r.job \in Jobs
          BY <4>1, <4>2 DEF Seen, Done
        <5> QED
          BY <2>2, <4>1, <5>1, ListsAreDone
      <4>3. CASE r.saw # "completed"
        BY <2>2, <4>1, <4>3, ListKeepsDone DEF ListAs
      <4> QED
        BY <4>2, <4>3
    <3>2. CASE ResultAnswered(s) \/ ViewAnswered(s)
      BY <2>2, <3>2, ListKeepsDone DEF ResultAnswered, ViewAnswered
    <3> QED
      BY <1>8, <3>1, <3>2
  <2> QED
    BY <1>8, <2>1, <2>2, <2>3
       DEF StatusAnswered, ResultAnswered, ViewAnswered, Followed
<1>9. CASE Restart
  <2>1. Server' /\ \A j \in Jobs : status[j] # "none" \/ Lost(j) => Lost(j)'
    BY <1>9, RestartKeepsServer, RestartLoses DEF Restart
  <2>2. ASSUME NEW s \in Slots PROVE Seen(requests[s])'
    <3>1. requests'[s] = NoRequest \/ (requests'[s] = requests[s] /\ requests[s].at \in Answered)
      BY <1>9 DEF Restart
    <3>2. Seen(requests[s])
      BY DEF Requests
    <3>3. CASE requests'[s] = NoRequest
      BY <3>3 DEF Seen, NoRequest
    <3>4. CASE requests'[s] = requests[s] /\ requests[s].at \in Answered
      BY <2>1, <3>2, <3>4 DEF Seen, Done, Answered
    <3> QED
      BY <3>1, <3>3, <3>4
  <2>3. Requests'
    BY <1>9, <2>2 DEF Restart, Requests
  <2>4. Listed'
    BY <1>9, <2>1 DEF Restart, Listed, Done
  <2> QED
    BY <1>9, <2>1, <2>3, <2>4 DEF Restart, Followed
<1>10. ASSUME NEW j \in Jobs, RefreshJobs(j) PROVE IInv'
  <2>1. Server' /\ Stable /\ UNCHANGED serverVars
    BY <1>0, <1>10 DEF RefreshJobs
  <2>2. Listed'
    BY <1>10, <2>1, ListsAreDone DEF RefreshJobs, Done
  <2> QED
    BY <1>10, <2>1, <2>2, ServerKeepsRequests DEF RefreshJobs, Followed
<1>11. CASE UNCHANGED vars
  <2>1. UNCHANGED <<serverVars, requests, listed, activeJob, submitted>>
    BY <1>11 DEF vars, tabVars
  <2> QED
    BY <1>0, <2>1, ServerKeepsRequests, ListKeepsDone DEF Followed
<1> QED
  BY <1>1, <1>2, <1>3, <1>4, <1>5, <1>6, <1>7, <1>8, <1>9, <1>10, <1>11
     DEF Next, Tab, Answer

(* The invariant holds in every state of every behaviour.                  *)
THEOREM InvariantHolds == Spec => []IInv
<1>1. Init => IInv
  BY InitIInv
<1>2. IInv /\ [Next]_vars => IInv'
  BY NextIInv
<1> QED
  BY <1>1, <1>2, PTL DEF Spec

-----------------------------------------------------------------------------
(* Whenever no call of _update is under way, the entry of every job is     *)
(* whole (analysis_jobs.py: _update sets status, result and progress one   *)
(* after the other, and _run_job calls it).                                *)
THEOREM EntriesWhole == Spec => []EntriesAreWhole
<1>1. IInv => EntriesAreWhole
  <2> SUFFICES ASSUME IInv, lock = "none", NEW j \in Jobs
               PROVE  /\ (status[j] = "completed") <=> result[j]
                      /\ result[j] <=> (progress[j] = 100)
                      /\ Over(j) => j \notin running
    BY DEF EntriesAreWhole
  <2> USE DEF IInv, Server
  <2>1. CASE j \in running
    <3>1. j # lock
      BY AnalysisJobsAssumption DEF AnalysisJobsAssumption
    <3>2. Before(j)
      BY <2>1, <3>1 DEF Runs
    <3> QED
      BY <3>2 DEF Before, Empty, Over
  <2>2. CASE j \notin running
    BY <2>2 DEF AtRest
  <2> QED
    BY <2>1, <2>2
<1> QED
  BY <1>1, InvariantHolds, PTL

(* Whoever asks for the result of a job that it has seen, or that its list *)
(* shows, as completed is given the result, though status and result are   *)
(* set one after the other and read without the lock, unless a restart has *)
(* lost the job since (dashboard.py: the endpoints of a job and of its     *)
(* result; AnalysisTab.tsx: the rows of the list).                         *)
THEOREM CompletedIsAnswered == Spec => []ResultFollowsStatus
<1>1. IInv => ResultFollowsStatus
  BY DEF IInv, Requests, Seen, Lost, ResultFollowsStatus
<1> QED
  BY <1>1, InvariantHolds, PTL

-----------------------------------------------------------------------------
(* What the tab asks about the job that it follows. *)

Following ==
    {"get status", "read status", "status", "get result", "read result", "result"}

\* No other job is active while a submission is under way, and the requests of
\* the tab are about the active job unless older ones were under way when it
\* became active.
Own ==
    /\ submitted # "none" => activeJob = "none"
    /\ ~superseded /\ activeJob # "none" =>
           \A s \in Slots : requests[s].at \in Following => requests[s].job = activeJob

\* A request of the tab that moves on stays about its job.
Moves(s, r) ==
    /\ requests' = [requests EXCEPT ![s] = r]
    /\ r.at \in Following => requests[s].at \in Following /\ r.job = requests[s].job
    /\ activeJob' \in {activeJob, "none"} /\ UNCHANGED <<submitted, superseded>>

LEMMA MovingKeepsOwn ==
    ASSUME Own, Requests, NEW s \in Slots, NEW r, Moves(s, r) PROVE Own'
<1>1. requests' = [requests EXCEPT ![s] = r] /\ DOMAIN requests = Slots
  BY DEF Requests, Moves
<1>2. \A k \in Slots : requests'[k] = IF k = s THEN r ELSE requests[k]
  BY <1>1
<1>3. \A k \in Slots : requests'[k].at \in Following =>
          requests[k].at \in Following /\ requests'[k].job = requests[k].job
  BY <1>2 DEF Moves
<1>4. /\ submitted' = submitted /\ superseded' = superseded
      /\ activeJob' = activeJob \/ activeJob' = "none"
  BY DEF Moves
<1> QED
  BY <1>3, <1>4 DEF Own

\* Every step keeps this.
LEMMA NextOwn == ASSUME IInv, Own, [Next]_vars PROVE Own'
<1> USE DEF IInv
<1>1. ASSUME UNCHANGED <<activeJob, submitted, requests, superseded>> PROVE Own'
  BY <1>1 DEF Own
<1>2. ASSUME NEW j \in Jobs, Submit(j) PROVE Own'
  BY <1>2 DEF Submit, Own
<1>3. CASE SubmitAnswered
  <2>1. ~superseded' => \A s \in Slots : requests[s].at = "idle"
    BY <1>3 DEF SubmitAnswered
  <2>2. submitted' = "none" /\ requests' = requests
    BY <1>3 DEF SubmitAnswered
  <2> QED
    BY <2>1, <2>2 DEF Own, Following
<1>4. ASSUME NEW s \in Slots, Poll(s) PROVE Own'
  <2> DEFINE n == [at |-> "get status", job |-> activeJob, saw |-> "none"]
  <2>1. /\ requests' = [requests EXCEPT ![s] = n] /\ DOMAIN requests = Slots
        /\ UNCHANGED <<activeJob, submitted, superseded>>
    BY <1>4 DEF Poll, Request, Requests
  <2>2. n.job = activeJob
    OBVIOUS
  <2> HIDE DEF n
  <2>3. \A k \in Slots : requests'[k] = IF k = s THEN n ELSE requests[k]
    BY <2>1
  <2> QED
    BY <2>1, <2>2, <2>3 DEF Own
<1>5. ASSUME NEW s \in Slots, NEW j \in Jobs, View(s, j) PROVE Own'
  <2> DEFINE n == [at |-> "get view", job |-> j, saw |-> "none"]
  <2>1. Moves(s, n)
    BY <1>5 DEF View, Request, Moves, Following
  <2> QED
    BY <2>1, MovingKeepsOwn
<1>6. ASSUME NEW s \in Slots, Get(s) PROVE Own'
  <2>1. PICK at \in {"read status", "read result", "read view"} :
            /\ requests' = [requests EXCEPT ![s] =
                               [at |-> at, job |-> requests[s].job, saw |-> "none"]]
            /\ at \in Following => requests[s].at \in Following
            /\ UNCHANGED <<activeJob, submitted, superseded>>
    <3> USE <1>6 DEF Get, Request, Following
    <3>1. CASE requests[s].at = "get status"
      BY <3>1
    <3>2. CASE requests[s].at = "get result"
      BY <3>2
    <3>3. CASE requests[s].at = "get view"
      BY <3>3
    <3> QED
      BY <3>1, <3>2, <3>3
  <2> DEFINE n == [at |-> at, job |-> requests[s].job, saw |-> "none"]
  <2>2. Moves(s, n)
    BY <2>1 DEF Moves
  <2> QED
    BY <2>2, MovingKeepsOwn
<1>7. ASSUME NEW s \in Slots, Answer(s) PROVE Own'
  <2> DEFINE j == requests[s].job
             read == [at |-> "status", job |-> j, saw |-> status[j]]
             get == [at |-> "get result", job |-> j, saw |-> "none"]
  <2>1. CASE ReadStatus(s)
    <3>1. Moves(s, read)
      BY <2>1 DEF ReadStatus, Request, Following, Moves
    <3> QED
      BY <3>1, MovingKeepsOwn
  <2>2. CASE ReadResult(s)
    <3> DEFINE at == IF requests[s].at = "read result" THEN "result" ELSE "view"
               saw == IF status[j] = "none" THEN "not found"
                      ELSE IF result[j] THEN "result" ELSE "not yet"
    <3>1. /\ requests' = [requests EXCEPT ![s] = [at |-> at, job |-> j, saw |-> saw]]
          /\ at \in Following => requests[s].at \in Following
          /\ UNCHANGED <<activeJob, submitted, superseded>>
      BY <2>2 DEF ReadResult, Request, Following
    <3>2. Moves(s, [at |-> at, job |-> j, saw |-> saw])
      BY <3>1 DEF Moves
    <3> QED
      BY <3>2, MovingKeepsOwn
  <2>3. CASE StatusAnswered(s) /\ requests[s].saw = "completed"
    <3>1. Moves(s, get)
      BY <2>3 DEF StatusAnswered, Request, Following, Moves
    <3> QED
      BY <3>1, MovingKeepsOwn
  <2>4. CASE \/ StatusAnswered(s) /\ requests[s].saw # "completed"
             \/ ResultAnswered(s) \/ ViewAnswered(s)
    <3>1. Moves(s, NoRequest)
      BY <2>4 DEF StatusAnswered, ResultAnswered, ViewAnswered, Moves, Following, NoRequest
    <3> QED
      BY <3>1, MovingKeepsOwn
  <2> QED
    BY <1>7, <2>1, <2>2, <2>3, <2>4 DEF Answer
<1>8. CASE Restart
  <2>1. \A s \in Slots : requests'[s] = NoRequest \/ requests'[s] = requests[s]
    BY <1>8 DEF Restart
  <2>2. submitted' \in {submitted, "none"} /\ UNCHANGED <<activeJob, superseded>>
    BY <1>8 DEF Restart
  <2>3. \A s \in Slots : requests'[s].at \in Following => requests'[s] = requests[s]
    <3>1. NoRequest.at \notin Following
      BY DEF NoRequest, Following
    <3> QED
      BY <2>1, <3>1
  <2>4. submitted' # "none" => activeJob' = "none"
    BY <2>2 DEF Own
  <2>5. ~superseded' /\ activeJob' # "none" =>
            \A s \in Slots : requests'[s].at \in Following => requests'[s].job = activeJob'
    BY <2>2, <2>3 DEF Own
  <2> QED
    BY <2>4, <2>5 DEF Own
<1> QED
  BY <1>1, <1>2, <1>3, <1>4, <1>5, <1>6, <1>7, <1>8
     DEF Next, Tab, SubmitElsewhere, RefreshJobs, tabVars, vars

(* The tab leaves the job that it submitted only when that job failed, its *)
(* result is shown or a restart has lost it, unless a request for an older *)
(* job was under way when it became active (AnalysisTab.tsx: the polling effect does not     *)
(* cancel the requests that are under way).                                *)
THEOREM ActiveJobFollowed == Spec => ActiveJobIsFollowed
<1>1. Init => Own
  BY AnalysisJobsAssumption DEF Init, Own, NoRequest, Following
<1>2. IInv /\ Own /\ [Next]_vars => Own'
  BY NextOwn
<1>3. ASSUME IInv, Own, [Next]_vars, NEW j \in Jobs,
             activeJob = j, activeJob' # j, ~superseded
      PROVE  status[j] = "failed" \/ Forgotten(j) \/ viewing' = j
  <2>1. j # "none" /\ submitted = "none"
    BY <1>3, AnalysisJobsAssumption DEF AnalysisJobsAssumption, Own
  <2>2. PICK s \in Slots : \/ StatusAnswered(s) /\ requests[s].saw = "failed"
                           \/ ResultAnswered(s)
    BY <1>3, <2>1
       DEF Next, Tab, Answer, Submit, SubmitElsewhere, SubmitAnswered, tabVars, vars,
           Poll, View, Get, ReadStatus, ReadResult, StatusAnswered, ViewAnswered,
           RefreshJobs, Restart
  <2>3. requests[s].job = j
    BY <1>3, <2>1, <2>2 DEF Own, StatusAnswered, ResultAnswered, Following
  <2> QED
    BY <1>3, <2>2, <2>3 DEF IInv, Requests, Seen, Lost, StatusAnswered, ResultAnswered
<1>4. IInv /\ Own /\ [Next]_vars =>
        [\A j \in Jobs :
            activeJob = j /\ activeJob' # j /\ ~superseded =>
                status[j] = "failed" \/ Forgotten(j) \/ viewing' = j]_vars
  BY <1>3
<1> QED
  BY <1>1, <1>2, <1>4, InvariantHolds, PTL DEF Spec, ActiveJobIsFollowed

-----------------------------------------------------------------------------
(* A fill and what it makes of a position. *)

Sides == {"BUY", "SELL"}
Positions == [quantity : Int, avg : Int, realized : Int, fees : Int]
Fills == [symbol : Symbols, side : Sides, quantity : Quantities, price : Prices,
          decision : {0}, fee : Fees, slip : Int]

LEMMA LedgerBounds ==
    /\ \A q \in Quantities : q \in Int /\ q > 0
    /\ \A p \in Prices : p \in Int /\ p > 0
    /\ \A fee \in Fees : fee \in Int /\ fee >= 0
    /\ InitialEquity \in Nat /\ MaxEvents \in Nat /\ Window \in Nat /\ Window > 0
    /\ IsFiniteSet(Symbols)
<1>1. /\ Quantities \subseteq Nat \ {0} /\ Prices \subseteq Nat \ {0} /\ Fees \subseteq Nat
      /\ InitialEquity \in Nat /\ MaxEvents \in Nat /\ Window \in Nat \ {0}
      /\ IsFiniteSet(Symbols)
  BY LedgerAssumption, AnalyticsAssumption DEF LedgerAssumption, AnalyticsAssumption
<1>2. \A q \in Nat \ {0} : q \in Int /\ q > 0
  OBVIOUS
<1>3. (\A q \in Quantities : q \in Int /\ q > 0) /\ (\A p \in Prices : p \in Int /\ p > 0)
  BY ONLY <1>1, <1>2
<1>4. \A fee \in Fees : fee \in Int /\ fee >= 0
  BY ONLY <1>1
<1> QED
  BY <1>1, <1>3, <1>4

LEMMA TierIsATier == ASSUME NEW v PROVE \E i \in DOMAIN Tiers : TierOf(v) = Tiers[i]
<1>1. Tiers \in Seq([below : Nat, maker : Nat, taker : Nat]) /\ Tiers # <<>>
  BY FillSimulatorAssumption DEF FillSimulatorAssumption
<1>2. Len(Tiers) \in Nat \ {0} /\ DOMAIN Tiers = 1..Len(Tiers)
  BY <1>1
<1>3. CASE \E i \in DOMAIN Tiers : v < Tiers[i].below
  <2> DEFINE T == {i \in DOMAIN Tiers : v < Tiers[i].below}
  <2>1. T \in SUBSET Nat /\ T # {} /\ T \subseteq DOMAIN Tiers
    BY <1>2, <1>3
  <2> HIDE DEF T
  <2>2. \E x \in T : \A y \in T : x <= y
    BY ONLY <2>1, Least
  <2>3. Min(T) \in T
    BY <2>2 DEF Min
  <2>4. TierOf(v) = Tiers[Min(T)]
    BY <1>3 DEF TierOf, T
  <2> QED
    BY <2>1, <2>3, <2>4
<1>4. CASE ~ \E i \in DOMAIN Tiers : v < Tiers[i].below
  <2>1. TierOf(v) = Tiers[Len(Tiers)]
    BY <1>4 DEF TierOf, Last
  <2> QED
    BY <1>2, <2>1
<1> QED
  BY <1>3, <1>4

LEMMA RateIsOfTheSchedule == ASSUME NEW order PROVE FeeRate(order) \in Rates
<1>1. PICK i \in DOMAIN Tiers : TierOf(volume) = Tiers[i]
  BY TierIsATier
<1> QED
  BY <1>1 DEF FeeRate, Rates

LEMMA SimulatedIsAFill ==
    ASSUME NEW order \in Orders PROVE SimulatedFill(order) \in Fills
<1>1. /\ order.symbol \in Symbols /\ order.side \in Sides /\ order.quantity \in Quantities
      /\ order.mid \in Nat \ {0} /\ FillPrice(order) \in Prices
      /\ \A rate \in Rates : Fee(order, rate) \in Fees
  BY AnalyticsAssumption DEF AnalyticsAssumption, Sides
<1>2. Fee(order, FeeRate(order)) \in Fees
  BY <1>1, RateIsOfTheSchedule
<1>3. FillPrice(order) \in Int /\ order.quantity \in Int
  BY <1>1, LedgerBounds
<1>4. Notional(order) \in Int /\ Apart(FillPrice(order), order.mid) \in Int
  BY <1>1, <1>3 DEF Notional, Apart
<1>5. (Notional(order) * Apart(FillPrice(order), order.mid)) \div order.mid \in Int
  <2> DEFINE n == Notional(order) * Apart(FillPrice(order), order.mid)
  <2>1. n \in Int
    BY <1>4
  <2> HIDE DEF n
  <2>2. n \div order.mid \in Int
    BY <1>1, <2>1
  <2> QED
    BY <2>2 DEF n
<1> QED
  BY <1>1, <1>2, <1>5 DEF SimulatedFill, Fills

LEMMA ChangeIs ==
    ASSUME NEW f \in Fills
    PROVE  /\ Change(f) \in Int /\ Change(f) # 0 /\ f.price \in Int /\ f.fee \in Int
           /\ Size(Change(f)) \in Int /\ Size(Change(f)) > 0 /\ f.symbol \in Symbols
           /\ Paid(f) \in Int
<1>1. f.quantity \in Nat \ {0} /\ f.price \in Nat /\ f.fee \in Nat /\ f.symbol \in Symbols
  BY LedgerBounds DEF Fills
<1>2. Change(f) \in Int /\ Change(f) # 0
  BY <1>1 DEF Change
<1>3. Size(Change(f)) \in Int /\ Size(Change(f)) > 0
  BY <1>2 DEF Size
<1>4. Paid(f) \in Int
  BY <1>1, <1>2 DEF Paid
<1> QED
  BY <1>1, <1>2, <1>3, <1>4

LEMMA SizeIs == ASSUME NEW n \in Int PROVE Size(n) \in Nat
BY DEF Size

LEMMA YieldIs ==
    ASSUME NEW p \in Positions, NEW f \in Fills
    PROVE  /\ RealizedBy(p, f) \in Int
           /\ ~ Increases(p.quantity, Change(f)) =>
                RealizedBy(p, f) =
                  LET c == Change(f)
                      closed == IF Size(c) <= Size(p.quantity) THEN Size(c) ELSE Size(p.quantity)
                  IN  IF p.quantity > 0 THEN closed * (f.price - p.avg)
                      ELSE closed * (p.avg - f.price)
<1>1. p.quantity \in Int /\ p.avg \in Int
  BY DEF Positions
<1>2. Change(f) \in Int /\ f.price \in Int
  BY ChangeIs
<1>3. Size(Change(f)) \in Nat /\ Size(p.quantity) \in Nat
  BY <1>1, <1>2, SizeIs
<1> DEFINE m == IF Size(Change(f)) <= Size(p.quantity) THEN Size(Change(f))
                ELSE Size(p.quantity)
<1>4. Min({Size(Change(f)), Size(p.quantity)}) = m
  BY <1>3, SmallestOfTwo
<1>5. m \in Int
  BY <1>3
<1> HIDE DEF m
<1>6. Yield(p, Change(f), f.price) = IF p.quantity > 0 THEN m * (f.price - p.avg)
                                     ELSE m * (p.avg - f.price)
  BY <1>4 DEF Yield
<1>7. Yield(p, Change(f), f.price) \in Int
  BY <1>1, <1>2, <1>5, <1>6
<1> QED
  BY <1>6, <1>7 DEF RealizedBy, m

LEMMA EntryPriceIs ==
    ASSUME NEW p \in Positions, NEW f \in Fills
    PROVE  EntryPrice(p, f) \in Int
<1>1. p.quantity \in Int /\ p.avg \in Int
  BY DEF Positions
<1>2. Change(f) \in Int /\ f.price \in Int /\ Size(Change(f)) \in Int /\ Size(Change(f)) > 0
  BY ChangeIs
<1>3. Size(p.quantity) \in Nat
  BY <1>1, SizeIs
<1> DEFINE n == p.avg * Size(p.quantity) + f.price * Size(Change(f))
           d == Size(p.quantity) + Size(Change(f))
<1>4. n \in Int /\ d \in Int /\ d > 0
  BY <1>1, <1>2, <1>3
<1>5. Average(p.quantity, p.avg, Change(f), f.price) = n \div d
  BY DEF Average
<1> HIDE DEF n, d
<1>6. n \div d \in Int
  BY <1>4
<1> QED
  BY <1>1, <1>2, <1>5, <1>6 DEF EntryPrice

LEMMA AppliedIsAPosition ==
    ASSUME NEW p \in Positions, NEW f \in Fills
    PROVE  Applied(p, f) \in Positions
<1>1. p.quantity \in Int /\ p.realized \in Int /\ p.fees \in Int
  BY DEF Positions
<1>2. Change(f) \in Int /\ f.fee \in Int
  BY ChangeIs
<1>3. RealizedBy(p, f) \in Int /\ EntryPrice(p, f) \in Int
  BY YieldIs, EntryPriceIs
<1> QED
  BY <1>1, <1>2, <1>3 DEF Applied, Positions

\* The average of a position is exact: its price times the quantity is what
\* the fills that made it cost.
AverageIsExact(p, f) ==
    Increases(p.quantity, Change(f)) =>
        EntryPrice(p, f) * (Size(p.quantity) + Size(Change(f)))
            = p.avg * Size(p.quantity) + f.price * Size(Change(f))

LEMMA Grown ==
    ASSUME NEW q \in Int, NEW c \in Int, NEW a \in Int, NEW x \in Int, NEW b \in Int,
           c # 0, q = 0 \/ (q > 0 <=> c > 0),
           b * (Size(q) + Size(c)) = a * Size(q) + x * Size(c)
    PROVE  (q + c) * b = q * a + c * x
<1>1. CASE c > 0
  <2>1. Size(q) = q /\ Size(c) = c
    BY <1>1 DEF Size
  <2> QED
    BY <2>1
<1>2. CASE ~ (c > 0)
  <2>1. Size(q) = -q /\ Size(c) = -c
    BY <1>2 DEF Size
  <2>2. b * (-q + -c) = -((q + c) * b) /\ a * (-q) = -(q * a) /\ x * (-c) = -(c * x)
    OBVIOUS
  <2> QED
    BY <2>1, <2>2
<1> QED
  BY <1>1, <1>2

\* The cash that a position accounts for.
Worth(p) == p.realized - p.fees - p.quantity * p.avg

LEMMA CashMoves ==
    ASSUME NEW p \in Positions, NEW f \in Fills, AverageIsExact(p, f)
    PROVE  Worth(Applied(p, f)) = Worth(p) - Paid(f)
<1> DEFINE q == p.quantity
           c == Change(f)
           a == p.avg
           x == f.price
           b == EntryPrice(p, f)
           r == RealizedBy(p, f)
<1>1. q \in Int /\ a \in Int /\ p.realized \in Int /\ p.fees \in Int
  BY DEF Positions
<1>2. c \in Int /\ c # 0 /\ x \in Int /\ f.fee \in Int
  BY ChangeIs
<1>3. b \in Int /\ r \in Int
  BY EntryPriceIs, YieldIs
<1>4. Worth(Applied(p, f)) = (p.realized + r) - (p.fees + f.fee) - (q + c) * b
  BY DEF Worth, Applied
<1>5. Worth(p) = p.realized - p.fees - q * a /\ Paid(f) = c * x + f.fee
  BY DEF Worth, Paid
<1>6. r - (q + c) * b = -(q * a) - c * x
  <2>1. CASE Increases(q, c)
    <3>1. r = 0
      BY <2>1 DEF RealizedBy
    <3>2. q = 0 \/ (q > 0 <=> c > 0)
      BY <2>1 DEF Increases
    <3>3. b * (Size(q) + Size(c)) = a * Size(q) + x * Size(c)
      BY <2>1 DEF AverageIsExact
    <3> HIDE DEF q, c, a, x, b, r
    <3>4. (q + c) * b = q * a + c * x
      BY ONLY <1>1, <1>2, <1>3, <3>2, <3>3, Grown
    <3>5. q * a \in Int /\ c * x \in Int
      BY <1>1, <1>2
    <3> QED
      BY ONLY <3>1, <3>4, <3>5
  <2>2. CASE ~ Increases(q, c)
    <3>1. q # 0 /\ ~ (q > 0 <=> c > 0)
      BY <2>2 DEF Increases
    <3>2. b = IF q + c # 0 /\ (q + c > 0 <=> c > 0) THEN x ELSE a
      BY <2>2 DEF EntryPrice
    <3>3. r = LET closed == IF Size(c) <= Size(q) THEN Size(c) ELSE Size(q)
              IN  IF q > 0 THEN closed * (x - a) ELSE closed * (a - x)
      BY <2>2, YieldIs
    <3> HIDE DEF q, c, a, x, b, r
    <3>4. CASE q > 0
      <4>1. Size(q) = q /\ Size(c) = -c
        BY <1>1, <1>2, <3>1, <3>4 DEF Size
      <4>2. CASE -c <= q
        <5>1. b = a /\ r = (-c) * (x - a)
          BY ONLY <1>1, <1>2, <3>1, <3>2, <3>3, <3>4, <4>1, <4>2
        <5> QED
          BY ONLY <1>1, <1>2, <5>1
      <4>3. CASE ~ (-c <= q)
        <5>1. b = x /\ r = q * (x - a)
          BY ONLY <1>1, <1>2, <3>1, <3>2, <3>3, <3>4, <4>1, <4>3
        <5> QED
          BY ONLY <1>1, <1>2, <5>1
      <4> QED
        BY <4>2, <4>3
    <3>5. CASE ~ (q > 0)
      <4>1. Size(q) = -q /\ Size(c) = c
        BY <1>1, <1>2, <3>1, <3>5 DEF Size
      <4>2. CASE c <= -q
        <5>1. b = a /\ r = c * (a - x)
          BY ONLY <1>1, <1>2, <3>1, <3>2, <3>3, <3>5, <4>1, <4>2
        <5> QED
          BY ONLY <1>1, <1>2, <5>1
      <4>3. CASE ~ (c <= -q)
        <5>1. b = x /\ r = (-q) * (a - x)
          BY ONLY <1>1, <1>2, <3>1, <3>2, <3>3, <3>5, <4>1, <4>3
        <5> QED
          BY ONLY <1>1, <1>2, <5>1
      <4> QED
        BY <4>2, <4>3
    <3> QED
      BY <3>4, <3>5
  <2> QED
    BY <2>1, <2>2
<1>7. q * a \in Int /\ c * x \in Int /\ (q + c) * b \in Int
  BY <1>1, <1>2, <1>3
<1> HIDE DEF q, c, a, x, b, r
<1> QED
  BY ONLY <1>1, <1>2, <1>3, <1>4, <1>5, <1>6, <1>7

-----------------------------------------------------------------------------
(* What the variables of the ledger hold. *)

Costs == [symbol : Symbols, impact : Int, slippage : Int, spread : Int, fee : Int]
Tracked == [symbol : Symbols, at : Int, mid : Int, since : Int, returns : [Horizons -> Int]]

LedgerTypes ==
    /\ holdings \in [Symbols -> Positions] /\ prices \in [Symbols -> Int]
    /\ fills \in Seq(Fills) /\ costs \in Seq(Costs) /\ curve \in Seq(Int)
    /\ peak \in Int
    /\ score \in [fills : Int, winners : Int, profit : Int, loss : Int]
    /\ tracked \in Seq(Tracked) /\ trades \in Seq(Trades) /\ recorded \in Int
    /\ export \in Seq(Int)

LEMMA EquityIs ==
    ASSUME NEW P \in [Symbols -> Positions], prices \in [Symbols -> Int]
    PROVE  /\ TotalRealized(P) \in Int /\ TotalFees(P) \in Int
           /\ TotalUnrealized(P, prices, Priced) \in Int
           /\ Equity(P) \in Int
<1>0. IsFiniteSet(Symbols) /\ IsFiniteSet(Priced) /\ Priced \in SUBSET Symbols
  BY LedgerBounds, FS_Subset DEF Priced
<1>1. TotalRealized(P) \in Int
  <2> DEFINE f == [s \in Symbols |-> P[s].realized]
  <2>1. TotalRealized(P) = SumFunctionOnSet(f, Symbols)
    BY DEF TotalRealized, SumFunction
  <2>2. \A s \in Symbols : f[s] \in Int
    BY DEF Positions
  <2> HIDE DEF f
  <2> QED
    BY <1>0, <2>1, <2>2, SumIsAnInteger
<1>2. TotalFees(P) \in Int
  <2> DEFINE f == [s \in Symbols |-> P[s].fees]
  <2>1. TotalFees(P) = SumFunctionOnSet(f, Symbols)
    BY DEF TotalFees, SumFunction
  <2>2. \A s \in Symbols : f[s] \in Int
    BY DEF Positions
  <2> HIDE DEF f
  <2> QED
    BY <1>0, <2>1, <2>2, SumIsAnInteger
<1>3. TotalUnrealized(P, prices, Priced) \in Int
  <2> DEFINE f == [s \in Priced |-> Unrealized(P[s], prices[s])]
  <2>1. TotalUnrealized(P, prices, Priced) = SumFunctionOnSet(f, Priced)
    BY DEF TotalUnrealized, SumFunction
  <2>2. \A s \in Priced : f[s] \in Int
    <3> SUFFICES ASSUME NEW s \in Priced PROVE Unrealized(P[s], prices[s]) \in Int
      OBVIOUS
    <3>1. P[s].quantity \in Int /\ P[s].avg \in Int /\ prices[s] \in Int
      BY <1>0 DEF Positions
    <3> QED
      BY <3>1 DEF Unrealized
  <2> HIDE DEF f
  <2> QED
    BY <1>0, <2>1, <2>2, SumIsAnInteger
<1>4. InitialEquity \in Int
  BY LedgerBounds
<1> QED
  BY <1>1, <1>2, <1>3, <1>4 DEF Equity

LEMMA CostIs ==
    ASSUME NEW f \in Fills, prices \in [Symbols -> Int] PROVE CostOf(f) \in Costs
<1>1. /\ f.symbol \in Symbols /\ f.quantity \in Int /\ f.price \in Int /\ f.fee \in Int
      /\ f.decision \in Int
  BY LedgerBounds DEF Fills
<1> DEFINE arrival == IF prices[f.symbol] = NoPrice THEN f.price ELSE prices[f.symbol]
           decision == IF f.decision = NoPrice THEN arrival ELSE f.decision
<1>2. arrival \in Int
  BY <1>1
<1>3. decision \in Int
  BY <1>1, <1>2
<1> HIDE DEF arrival, decision
<1>4. /\ Adverse(f.side, decision, arrival) \in Int /\ Adverse(f.side, arrival, f.price) \in Int
      /\ Size(f.price - arrival) \in Int
  BY <1>1, <1>2, <1>3 DEF Adverse, Size
<1>5. /\ f.quantity * Adverse(f.side, decision, arrival) \in Int
      /\ f.quantity * Adverse(f.side, arrival, f.price) \in Int
      /\ f.quantity * Size(f.price - arrival) \in Int
  BY <1>1, <1>4
<1> QED
  BY <1>1, <1>5 DEF CostOf, Costs, arrival, decision

LEMMA ScoreIs ==
    ASSUME NEW r \in Int, score \in [fills : Int, winners : Int, profit : Int, loss : Int]
    PROVE  /\ Counted(r) \in [fills : Int, winners : Int, profit : Int, loss : Int]
           /\ Counted(r).profit - Counted(r).loss = score.profit - score.loss + r
           /\ Counted(r).fills = score.fills + 1
<1>1. -r \in Int /\ 0 \in Int
  OBVIOUS
<1>2. /\ Max({r, 0}) = IF r >= 0 THEN r ELSE 0
      /\ Max({-r, 0}) = IF -r >= 0 THEN -r ELSE 0
  BY ONLY <1>1, r \in Int, LargestOfTwo
<1> QED
  BY <1>2 DEF Counted

LEMMA SignalIsTracked ==
    ASSUME NEW s \in Seq(Tracked), NEW x \in Tracked, NEW n \in Nat
    PROVE  Suffix(Append(s, x), n) \in Seq(Tracked)
<1> DEFINE a == Append(s, x)
           m == Min({n, Len(a)})
<1>1. a \in Seq(Tracked) /\ Len(a) \in Nat
  OBVIOUS
<1> HIDE DEF a
<1>2. m \in Nat /\ m <= Len(a)
  BY <1>1, SmallestOfTwo
<1> HIDE DEF m
<1>3. \A i \in Len(a) - m + 1 .. Len(a) : i \in 1..Len(a)
  BY <1>1, <1>2
<1>4. SubSeq(a, Len(a) - m + 1, Len(a)) \in Seq(Tracked)
  BY <1>1, <1>2, <1>3
<1> QED
  BY <1>4 DEF Suffix, a, m

LEMMA EvaluatedIsTracked ==
    ASSUME NEW x \in Tracked, NEW symbol, NEW at \in Int, NEW price \in Int
    PROVE  Evaluated(x, symbol, at, price) \in Tracked
BY DEF Evaluated, Tracked

LEMMA TradeIs ==
    ASSUME NEW t \in Trades PROVE t.symbol \in Symbols /\ t.price \in Int /\ t.at \in Int
<1>1. t \in [symbol : Symbols, price : Prices, at : Nat]
  BY LedgerAssumption, Zenon DEF LedgerAssumption
<1>2. t.symbol \in Symbols /\ t.price \in Prices /\ t.at \in Nat
  BY ONLY <1>1
<1> QED
  BY <1>2, LedgerBounds

LEMMA SignalIs ==
    ASSUME NEW t \in Signals PROVE t.symbol \in Symbols /\ t.mid \in Int /\ t.at \in Int
<1>1. t \in [symbol : Symbols, mid : {0} \cup Prices, at : Nat \ {0}]
  BY LedgerAssumption, Zenon DEF LedgerAssumption
<1>2. t.symbol \in Symbols /\ t.mid \in {0} \cup Prices /\ t.at \in Nat
  BY ONLY <1>1
<1> QED
  BY <1>2, LedgerBounds

\* The number of records of symbols asked for, when all are asked for.
LEMMA CountOfAll ==
    ASSUME NEW S, NEW records \in Seq(S), \A i \in 1..Len(records) : records[i].symbol \in Symbols
    PROVE  Count(records, Symbols) = Len(records)
<1>1. Len(records) \in Nat /\ DOMAIN records = 1..Len(records)
  OBVIOUS
<1>2. {i \in DOMAIN records : records[i].symbol \in Symbols} = 1..Len(records)
  BY <1>1
<1>3. Cardinality(1..Len(records)) = Len(records)
  BY <1>1, FS_Interval
<1> QED
  BY <1>2, <1>3 DEF Count

LEMMA TabsAre ==
    ASSUME LedgerTypes, Len(costs) = Len(fills), Len(curve) = Len(fills),
           score.fills = Len(fills)
    PROVE  /\ Len(TabsOfExport) = 6
           /\ \A k \in 1..6 : TabsOfExport[k] \in Int
           /\ \A k \in 1..6 : k # 3 => TabsOfExport[k] = Shown(k, Len(fills))
<1>1. Count(costs, Symbols) = Len(costs)
  <2>1. costs \in Seq(Costs) /\ \A i \in 1..Len(costs) : costs[i] \in Costs
    BY DEF LedgerTypes
  <2>2. \A i \in 1..Len(costs) : costs[i].symbol \in Symbols
    BY <2>1 DEF Costs
  <2> QED
    BY ONLY <2>1, <2>2, CountOfAll
<1>2. Count(fills, Symbols) = Len(fills)
  <2>1. fills \in Seq(Fills) /\ \A i \in 1..Len(fills) : fills[i] \in Fills
    BY DEF LedgerTypes
  <2>2. \A i \in 1..Len(fills) : fills[i].symbol \in Symbols
    BY <2>1 DEF Fills
  <2> QED
    BY ONLY <2>1, <2>2, CountOfAll
<1>3. Count(tracked, Symbols) = Len(tracked)
  <2>1. tracked \in Seq(Tracked) /\ \A i \in 1..Len(tracked) : tracked[i] \in Tracked
    BY DEF LedgerTypes
  <2>2. \A i \in 1..Len(tracked) : tracked[i].symbol \in Symbols
    BY <2>1 DEF Tracked
  <2> QED
    BY ONLY <2>1, <2>2, CountOfAll
<1>4. Len(fills) \in Int /\ Len(tracked) \in Int
  BY DEF LedgerTypes
<1> DEFINE w == Min({Len(fills), Window})
           charted == Len(DrawdownTab.equities)
<1>5. w \in Int /\ charted = w
  <2>1. curve \in Seq(Int) /\ Len(curve) \in Nat /\ Window \in Nat
    BY LedgerBounds DEF LedgerTypes
  <2>2. {Window, Len(curve)} = {Len(curve), Window}
    OBVIOUS
  <2>3. w = IF Len(curve) <= Window THEN Len(curve) ELSE Window
    BY <2>1, SmallestOfTwo
  <2>4. charted = Len(SubSeq(curve, Len(curve) - w + 1, Len(curve)))
    BY <2>2 DEF DrawdownTab, Suffix
  <2> HIDE DEF w, charted
  <2> QED
    BY <2>1, <2>3, <2>4
<1> HIDE DEF charted
<1>6. TabsOfExport = <<Len(fills), Len(fills), Len(tracked), Len(fills), charted, Len(fills)>>
  BY <1>1, <1>2, <1>3 DEF TabsOfExport, PnlTab, TcaTab, AlphaTab, RiskTab, FillsTab, charted
<1>7. \A k \in 1..6 : Shown(k, Len(fills)) = IF k = 5 THEN w ELSE Len(fills)
  BY DEF Shown
<1> HIDE DEF w
<1> QED
  BY ONLY <1>4, <1>5, <1>6, <1>7

\* The chart of a later state shows no fewer fills.
LEMMA ShownIs ==
    ASSUME NEW k \in Int, NEW n \in Int
    PROVE  Shown(k, n) = IF k = 5 /\ n > Window THEN Window ELSE n
<1>1. Window \in Int
  BY LedgerBounds
<1> QED
  BY <1>1, SmallestOfTwo DEF Shown

LEMMA TradingStartsTyped == TradingInit => LedgerTypes
BY LedgerBounds DEF TradingInit, LedgerInit, AlphaDecayInit, LedgerTypes, NoPosition, NoPrice, Positions

LEMMA ExecuteTyped ==
    ASSUME LedgerTypes, NEW order \in Orders, Execute(order)
    PROVE  LedgerTypes'
<1> DEFINE f == SimulatedFill(order)
           after == [holdings EXCEPT ![f.symbol] = Applied(@, f)]
<1>1. f \in Fills /\ f.symbol \in Symbols
  BY SimulatedIsAFill, ChangeIs
<1>2. ProcessFill(f)
  BY DEF Execute
<1> HIDE DEF f
<1>3. holdings \in [Symbols -> Positions] /\ prices \in [Symbols -> Int]
  BY DEF LedgerTypes
<1>4. Applied(holdings[f.symbol], f) \in Positions
  BY <1>1, <1>3, AppliedIsAPosition
<1>5. after \in [Symbols -> Positions]
  BY <1>1, <1>3, <1>4
<1>6. Equity(after) \in Int
  <2> HIDE DEF after
  <2> QED
    BY <1>3, <1>5, EquityIs
<1>7. RealizedBy(holdings[f.symbol], f) \in Int
  BY <1>1, <1>3, YieldIs
<1>8. CostOf(f) \in Costs
  BY <1>1, <1>3, CostIs
<1>9. /\ holdings' = after /\ score' = Counted(RealizedBy(holdings[f.symbol], f))
      /\ costs' = Append(costs, CostOf(f)) /\ fills' = Append(fills, f)
      /\ curve' = Append(curve, Equity(after)) /\ peak' = Max({peak, Equity(after)})
      /\ UNCHANGED <<prices, tracked, trades, recorded, export>>
  BY <1>2 DEF ProcessFill
<1> HIDE DEF after
<1>10. score' \in [fills : Int, winners : Int, profit : Int, loss : Int]
  BY <1>7, <1>9, ScoreIs DEF LedgerTypes
<1>11. peak' \in Int
  <2>1. peak \in Int
    BY DEF LedgerTypes
  <2> QED
    BY <1>6, <1>9, <2>1, LargestOfTwo
<1>12. fills' \in Seq(Fills) /\ costs' \in Seq(Costs) /\ curve' \in Seq(Int)
  BY <1>1, <1>6, <1>8, <1>9 DEF LedgerTypes
<1> QED
  BY <1>5, <1>9, <1>10, <1>11, <1>12 DEF LedgerTypes

LEMMA TradeTyped ==
    ASSUME LedgerTypes, NEW trade \in Trades, HandleTrade(trade)
    PROVE  LedgerTypes'
<1>1. trade.symbol \in Symbols /\ trade.price \in Int /\ trade.at \in Int
  BY TradeIs
<1>2. UNCHANGED <<bookVars, recorded, export>> /\ trades' = Append(trades, trade)
  BY DEF HandleTrade
<1>3. prices' \in [Symbols -> Int] /\ tracked' \in Seq(Tracked)
  <2>1. CASE ~ TradesAreStamped
    BY <2>1 DEF HandleTrade, LedgerTypes
  <2>2. CASE TradesAreStamped
    <3>1. UpdatePrice(trade)
      BY <2>2 DEF HandleTrade
    <3>2. prices' \in [Symbols -> Int]
      BY <1>1, <3>1 DEF UpdatePrice, LedgerTypes
    <3>3. CASE ~ (trade.at > 0)
      BY <3>1, <3>2, <3>3 DEF UpdatePrice, LedgerTypes
    <3>4. CASE trade.at > 0
      <4>1. tracked' = [i \in DOMAIN tracked |->
                           Evaluated(tracked[i], trade.symbol, trade.at, trade.price)]
        BY <3>1, <3>4 DEF UpdatePrice, OnTrade
      <4>2. Len(tracked) \in Nat /\ DOMAIN tracked = 1..Len(tracked)
            /\ \A i \in 1..Len(tracked) : tracked[i] \in Tracked
        BY DEF LedgerTypes
      <4>3. \A i \in 1..Len(tracked) :
               Evaluated(tracked[i], trade.symbol, trade.at, trade.price) \in Tracked
        BY <1>1, <4>2, EvaluatedIsTracked
      <4>4. tracked' \in Seq(Tracked)
        BY ONLY <4>1, <4>2, <4>3
      <4> QED
        BY <3>2, <4>4
    <3> QED
      BY <3>3, <3>4
  <2> QED
    BY <2>1, <2>2
<1>4. trades' \in Seq(Trades)
  BY <1>2 DEF LedgerTypes
<1> QED
  BY <1>2, <1>3, <1>4 DEF LedgerTypes, bookVars

LEMMA SignalTyped ==
    ASSUME LedgerTypes, NEW signal \in Signals, HandleSignal(signal)
    PROVE  LedgerTypes'
<1> DEFINE x == [symbol |-> signal.symbol, at |-> signal.at, mid |-> signal.mid,
                 since |-> Len(trades), returns |-> [h \in Horizons |-> Pending]]
<1>1. signal.symbol \in Symbols /\ signal.mid \in Int /\ signal.at \in Int
  BY SignalIs
<1>2. UNCHANGED <<bookVars, prices, trades, export>> /\ recorded' = recorded + 1
      /\ tracked' = Suffix(Append(tracked, x), MaxSignals)
  BY DEF HandleSignal, RecordSignal
<1>3. x \in Tracked
  <2>1. Len(trades) \in Int /\ Pending \in Int
    BY DEF LedgerTypes, Pending
  <2> QED
    BY <1>1, <2>1 DEF Tracked
<1> HIDE DEF x
<1>4. MaxSignals \in Nat
  BY AlphaDecayAssumption DEF AlphaDecayAssumption
<1>5. tracked' \in Seq(Tracked)
  BY <1>2, <1>3, <1>4, SignalIsTracked DEF LedgerTypes
<1> QED
  BY <1>2, <1>5 DEF LedgerTypes, bookVars

\* A fill is entered everywhere at once.
InStep ==
    /\ Len(costs) = Len(fills) /\ Len(curve) = Len(fills) /\ score.fills = Len(fills)

Ledgers == LedgerTypes /\ InStep

LEMMA TabTyped ==
    ASSUME Ledgers, ReadTab
    PROVE  /\ Len(export) < 6 /\ Len(export) \in Nat
           /\ export' = Append(export, TabsOfExport[Len(export) + 1])
           /\ LedgerTypes'
<1>1. /\ Len(TabsOfExport) = 6
      /\ \A k \in 1..6 : TabsOfExport[k] \in Int
  BY TabsAre DEF Ledgers, InStep
<1>2. /\ Len(export) < 6 /\ export' = Append(export, TabsOfExport[Len(export) + 1])
      /\ UNCHANGED <<bookVars, prices, tracked, trades, recorded>>
  BY <1>1 DEF ReadTab
<1>3. Len(export) \in Nat /\ export \in Seq(Int)
  BY DEF Ledgers, LedgerTypes
<1>4. Len(export) + 1 \in 1..6
  BY ONLY <1>2, <1>3
<1>5. export' \in Seq(Int)
  BY ONLY <1>1, <1>2, <1>3, <1>4
<1> QED
  BY <1>2, <1>3, <1>5 DEF Ledgers, LedgerTypes, bookVars

LEMMA LedgersGoOn ==
    ASSUME Ledgers, [TradingNext]_tradingVars PROVE Ledgers'
<1>1. ASSUME NEW order \in Orders, Execute(order) PROVE Ledgers'
  <2>1. LedgerTypes'
    BY <1>1, ExecuteTyped DEF Ledgers
  <2>2. /\ \E c : costs' = Append(costs, c)
        /\ \E f : fills' = Append(fills, f)
        /\ \E e : curve' = Append(curve, e)
        /\ \E r : score' = Counted(r)
    BY <1>1 DEF Execute, ProcessFill
  <2>3. Len(costs') = Len(costs) + 1 /\ Len(fills') = Len(fills) + 1
        /\ Len(curve') = Len(curve) + 1 /\ score'.fills = score.fills + 1
    BY <2>2 DEF Ledgers, LedgerTypes, Counted
  <2> QED
    BY <2>1, <2>3 DEF Ledgers, InStep
<1>2. ASSUME NEW trade \in Trades, HandleTrade(trade) PROVE Ledgers'
  BY <1>2, TradeTyped DEF Ledgers, InStep, HandleTrade, bookVars
<1>3. ASSUME NEW signal \in Signals, HandleSignal(signal) PROVE Ledgers'
  BY <1>3, SignalTyped DEF Ledgers, InStep, HandleSignal, bookVars
<1>4. CASE ReadTab
  <2>1. LedgerTypes'
    BY <1>4, TabTyped
  <2>2. InStep'
    BY <1>4 DEF Ledgers, InStep, ReadTab, bookVars
  <2> QED
    BY <2>1, <2>2 DEF Ledgers
<1>5. CASE SendWorkbook
  BY <1>5 DEF Ledgers, LedgerTypes, InStep, SendWorkbook, bookVars
<1>6. CASE UNCHANGED tradingVars
  BY <1>6 DEF Ledgers, LedgerTypes, InStep, tradingVars, ledgerVars, bookVars
<1> QED
  BY <1>1, <1>2, <1>3, <1>4, <1>5, <1>6 DEF TradingNext, HandlePrices, Read

LEMMA LedgersHold == TradingSpec => []Ledgers
<1>1. TradingInit => Ledgers
  <2>1. TradingInit => InStep
    BY DEF TradingInit, LedgerInit, InStep
  <2> QED
    BY <2>1, TradingStartsTyped DEF Ledgers
<1> QED
  BY <1>1, LedgersGoOn, PTL DEF TradingSpec

(* ExportIsInOrder: although each tab of a workbook is read at its own     *)
(* moment, between fills, none is older than a tab before it or newer than *)
(* the state, for any orders, trades and signals.                          *)
THEOREM TabsAreInOrder == TradingSpec => []ExportIsInOrder
<1> DEFINE Inv == Len(export) <= 6 /\ ExportIsInOrder
<1>1. TradingInit => Inv
  BY DEF TradingInit, LedgerInit, ExportIsInOrder
<1>2. Ledgers /\ Inv /\ [TradingNext]_tradingVars => Inv'
  <2> SUFFICES ASSUME Ledgers, Inv, [TradingNext]_tradingVars PROVE Inv'
    OBVIOUS
  <2>1. /\ export \in Seq(Int) /\ Len(export) \in Nat /\ DOMAIN export = 1..Len(export)
        /\ Len(fills) \in Nat
        /\ \A i \in 1..Len(export) : export[i] \in Int
        /\ Window \in Int
    BY LedgerBounds DEF Ledgers, LedgerTypes
  <2>2. /\ \A i, j \in {i \in 1..Len(export) : i # 3} :
              i < j => Shown(j, export[i]) <= Shown(i, export[j])
        /\ \A i \in {i \in 1..Len(export) : i # 3} : export[i] <= Shown(i, Len(fills))
    BY <2>1 DEF ExportIsInOrder
  <2>3. CASE export' = export /\ (Len(fills') = Len(fills) \/ Len(fills') = Len(fills) + 1)
    <3>1. \A i \in 1..Len(export) : Shown(i, Len(fills)) <= Shown(i, Len(fills'))
      <4> SUFFICES ASSUME NEW i \in 1..Len(export), NEW n \in Int, n = Len(fills),
                          NEW m \in Int, m = Len(fills'), m = n \/ m = n + 1
                   PROVE  Shown(i, n) <= Shown(i, m)
        BY <2>1, <2>3
      <4> QED
        BY <2>1, ShownIs
    <3>2. \A i \in 1..Len(export) : Shown(i, Len(fills)) \in Int /\ Shown(i, Len(fills')) \in Int
      BY <2>1, <2>3, ShownIs
    <3>3. \A i \in {i \in 1..Len(export) : i # 3} : export[i] <= Shown(i, Len(fills'))
      BY ONLY <2>1, <2>2, <3>1, <3>2
    <3>4. DOMAIN export' = 1..Len(export)
      BY <2>1, <2>3
    <3>5. \A i, j \in {i \in 1..Len(export) : i # 3} :
              i < j => Shown(j, export'[i]) <= Shown(i, export'[j])
      BY <2>2, <2>3
    <3> QED
      BY <2>3, <3>3, <3>4, <3>5 DEF ExportIsInOrder
  <2>4. ASSUME NEW order \in Orders, Execute(order) PROVE Inv'
    <3>1. export' = export /\ fills' = Append(fills, SimulatedFill(order))
      BY <2>4 DEF Execute, ProcessFill
    <3>2. Len(fills') = Len(fills) + 1
      BY <3>1 DEF Ledgers, LedgerTypes
    <3> QED
      BY <2>3, <3>1, <3>2
  <2>5. CASE ReadTab
    <3> DEFINE t == TabsOfExport[Len(export) + 1]
               n == Len(export)
    <3>1. n < 6 /\ n \in Nat /\ export' = Append(export, t) /\ fills' = fills
      BY <2>5, TabTyped DEF ReadTab, bookVars
    <3>2. n + 1 \in 1..6
      BY ONLY <3>1
    <3>3. t \in Int /\ (n + 1 # 3 => t = Shown(n + 1, Len(fills)))
      BY <3>2, TabsAre DEF Ledgers, InStep
    <3> HIDE DEF t
    <3>4. /\ Len(export') = n + 1 /\ DOMAIN export' = 1..n + 1
          /\ \A i \in 1..n + 1 : export'[i] = IF i <= n THEN export[i] ELSE t
      BY ONLY <2>1, <3>1, <3>3
    <3>5. \A i \in {i \in 1..n + 1 : i # 3} : export'[i] <= Shown(i, Len(fills))
      <4> SUFFICES ASSUME NEW i \in 1..n + 1, i # 3
                   PROVE  export'[i] <= Shown(i, Len(fills))
        OBVIOUS
      <4>1. CASE i <= n
        <5>1. i \in 1..n /\ export'[i] = export[i]
          BY ONLY <3>1, <3>4, <4>1, i \in 1..n + 1
        <5> QED
          BY <2>2, <5>1
      <4>2. CASE ~ (i <= n)
        <5>1. i = n + 1 /\ export'[i] = t
          BY ONLY <3>1, <3>4, <4>2, i \in 1..n + 1
        <5>2. Shown(i, Len(fills)) \in Int
          BY <2>1, ShownIs
        <5> QED
          BY <3>3, <5>1, <5>2
      <4> QED
        BY <4>1, <4>2
    <3>6. \A i, j \in {i \in 1..n + 1 : i # 3} :
              i < j => Shown(j, export'[i]) <= Shown(i, export'[j])
      <4> SUFFICES ASSUME NEW i \in 1..n + 1, NEW j \in 1..n + 1, i # 3, j # 3, i < j
                   PROVE  Shown(j, export'[i]) <= Shown(i, export'[j])
        OBVIOUS
      <4>1. CASE j <= n
        <5>1. i \in 1..n /\ j \in 1..n /\ export'[i] = export[i] /\ export'[j] = export[j]
          BY ONLY <3>1, <3>4, <4>1, i \in 1..n + 1, j \in 1..n + 1, i < j
        <5> QED
          BY <2>2, <5>1
      <4>2. CASE ~ (j <= n)
        <5>1. i \in 1..n /\ j = n + 1 /\ export'[i] = export[i] /\ export'[j] = t
          BY ONLY <3>1, <3>4, <4>2, i \in 1..n + 1, j \in 1..n + 1, i < j
        <5>2. /\ export[i] \in Int /\ export[i] <= Shown(i, Len(fills))
              /\ t = Shown(j, Len(fills)) /\ t \in Int
          BY <2>1, <2>2, <3>3, <5>1
        <5>3. PICK m \in Int : m = Len(fills)
          BY <2>1
        <5>4. i \in Int /\ j \in Int /\ i < j /\ j <= 6
          BY <3>1
        <5>5. /\ Shown(j, export[i]) = IF j = 5 /\ export[i] > Window THEN Window ELSE export[i]
              /\ Shown(i, m) = IF i = 5 /\ m > Window THEN Window ELSE m
              /\ Shown(j, m) = IF j = 5 /\ m > Window THEN Window ELSE m
              /\ Shown(i, t) = IF i = 5 /\ t > Window THEN Window ELSE t
          BY <5>2, <5>4, ShownIs
        <5>6. Shown(j, export[i]) <= Shown(i, t)
          BY ONLY <2>1, <5>2, <5>3, <5>4, <5>5
        <5> QED
          BY <5>1, <5>6
      <4> QED
        BY <4>1, <4>2
    <3>7. Len(export') <= 6
      BY ONLY <3>1, <3>4
    <3> QED
      BY <3>1, <3>4, <3>5, <3>6, <3>7 DEF ExportIsInOrder
  <2>6. CASE SendWorkbook
    BY <2>6 DEF SendWorkbook, ExportIsInOrder
  <2>7. CASE HandlePrices \/ UNCHANGED tradingVars
    <3>1. export' = export /\ fills' = fills
      BY <2>7 DEF HandlePrices, HandleTrade, HandleSignal, bookVars, tradingVars, ledgerVars
    <3> QED
      BY <2>3, <3>1
  <2> QED
    BY <2>4, <2>5, <2>6, <2>7 DEF TradingNext, Read
<1> QED
  BY <1>1, <1>2, LedgersHold, PTL DEF TradingSpec

-----------------------------------------------------------------------------
(* The cash.  CashIn is what CashOf says of any sequence of fills.         *)

CashIn(fs, s) ==
    -SumFunctionOnSet([i \in DOMAIN fs |-> Paid(fs[i])],
                      {i \in DOMAIN fs : fs[i].symbol = s})

LEMMA CashAppends ==
    ASSUME NEW fs \in Seq(Fills), NEW f \in Fills, NEW s
    PROVE  /\ CashIn(fs, s) \in Int
           /\ CashIn(Append(fs, f), s)
                = CashIn(fs, s) - (IF f.symbol = s THEN Paid(f) ELSE 0)
<1> DEFINE n == Len(fs)
           gs == Append(fs, f)
           S == {i \in DOMAIN fs : fs[i].symbol = s}
           R == {i \in DOMAIN gs : gs[i].symbol = s}
           a == [i \in DOMAIN fs |-> Paid(fs[i])]
           b == [i \in DOMAIN gs |-> Paid(gs[i])]
<1>1. /\ n \in Nat /\ DOMAIN fs = 1..n /\ DOMAIN gs = 1..n + 1
      /\ \A i \in 1..n : fs[i] \in Fills /\ gs[i] = fs[i]
      /\ gs[n + 1] = f
  OBVIOUS
<1>2. CashIn(fs, s) = -SumFunctionOnSet(a, S) /\ CashIn(gs, s) = -SumFunctionOnSet(b, R)
  BY DEF CashIn
<1> HIDE DEF gs, n
<1>3. /\ \A i \in S : a[i] \in Int /\ b[i] = a[i]
      /\ b[n + 1] = Paid(f) /\ Paid(f) \in Int
  BY <1>1, ChangeIs
<1>4. R = IF f.symbol = s THEN S \cup {n + 1} ELSE S
  <2>1. \A i : i \in 1..n + 1 <=> i \in 1..n \/ i = n + 1
    BY <1>1
  <2> QED
    BY <1>1, <2>1
<1>5. IsFiniteSet(S) /\ n + 1 \notin S
  <2>1. IsFiniteSet(1..n) /\ n + 1 \notin 1..n
    BY <1>1, FS_Interval
  <2>2. S \subseteq 1..n
    BY <1>1
  <2> QED
    BY <2>1, <2>2, FS_Subset
<1> HIDE DEF S, R, a, b
<1>6. SumFunctionOnSet(b, S) = SumFunctionOnSet(a, S) /\ SumFunctionOnSet(a, S) \in Int
  BY <1>3, <1>5, SumsAgree, SumIsAnInteger
<1>7. CASE f.symbol = s
  <2>1. R = S \cup {n + 1} /\ R \ {n + 1} = S
    BY <1>4, <1>5, <1>7
  <2>2. IsFiniteSet(R)
    BY <1>5, <2>1, FS_AddElement
  <2>3. \A i \in R : b[i] \in Int
    BY <1>3, <2>1
  <2>4. n + 1 \in R
    BY <2>1
  <2>5. SumFunctionOnSet(b, R) = b[n + 1] + SumFunctionOnSet(b, R \ {n + 1})
    BY ONLY <2>2, <2>3, <2>4, SumWithout
  <2>6. SumFunctionOnSet(b, R) = Paid(f) + SumFunctionOnSet(a, S)
    BY <1>3, <1>6, <2>1, <2>5
  <2> QED
    BY ONLY <1>2, <1>3, <1>6, <1>7, <2>6 DEF gs
<1>8. CASE f.symbol # s
  BY <1>2, <1>3, <1>4, <1>6, <1>8 DEF gs
<1> QED
  BY <1>7, <1>8

LEMMA CashOfIs == ASSUME NEW s PROVE CashOf(s) = CashIn(fills, s)
BY DEF CashOf, CashIn

\* What each symbol left in cash is what its position accounts for, and the
\* counters split the gains that the positions realized.
Balanced ==
    /\ \A s \in Symbols : CashIn(fills, s) = Worth(holdings[s])
    /\ score.profit - score.loss = TotalRealized(holdings)

\* Averages are kept in whole units.  No order meets a position whose new
\* average would not be one.
AveragesAreExact ==
    Feeding => \A order \in Orders :
                   AverageIsExact(holdings[order.symbol], SimulatedFill(order))

LEMMA BalancedAtFirst == TradingInit => Balanced
<1> SUFFICES ASSUME TradingInit PROVE Balanced
  OBVIOUS
<1>1. holdings = [s \in Symbols |-> NoPosition] /\ fills = <<>>
      /\ score.profit = 0 /\ score.loss = 0
  BY DEF TradingInit, LedgerInit
<1>2. ASSUME NEW s \in Symbols PROVE CashIn(fills, s) = Worth(holdings[s])
  <2>1. {i \in DOMAIN fills : fills[i].symbol = s} = {}
    BY <1>1
  <2>2. CashIn(fills, s) = 0
    BY <2>1, SumOfNone DEF CashIn
  <2>3. Worth(holdings[s]) = 0
    BY <1>1 DEF Worth, NoPosition
  <2> QED
    BY <2>2, <2>3
<1>3. TotalRealized(holdings) = 0
  <2> DEFINE f == [s \in Symbols |-> holdings[s].realized]
  <2>1. TotalRealized(holdings) = SumFunctionOnSet(f, Symbols)
    BY <1>1 DEF TotalRealized, SumFunction
  <2>2. \A s \in Symbols : f[s] = 0
    BY <1>1 DEF NoPosition
  <2> HIDE DEF f
  <2>3. \A s \in Symbols : f[s] \in Int /\ f[s] = f[s] + f[s]
    BY <2>2
  <2>4. /\ SumFunctionOnSet(f, Symbols) = SumFunctionOnSet(f, Symbols) + SumFunctionOnSet(f, Symbols)
        /\ SumFunctionOnSet(f, Symbols) \in Int
    <3>1. IsFiniteSet(Symbols)
      BY LedgerBounds
    <3>2. SumFunctionOnSet(f, Symbols)
            = SumFunctionOnSet(f, Symbols) + SumFunctionOnSet(f, Symbols)
      BY ONLY <2>3, <3>1, SumOfSums
    <3>3. SumFunctionOnSet(f, Symbols) \in Int
      BY ONLY <2>3, <3>1, SumIsAnInteger
    <3> QED
      BY ONLY <3>2, <3>3
  <2>5. \A x \in Int : x = x + x => x = 0
    OBVIOUS
  <2>6. SumFunctionOnSet(f, Symbols) = 0
    BY ONLY <2>4, <2>5
  <2> QED
    BY ONLY <2>1, <2>6
<1> QED
  BY <1>1, <1>2, <1>3 DEF Balanced

LEMMA ExecuteBalances ==
    ASSUME LedgerTypes, Balanced, AveragesAreExact, NEW order \in Orders, Execute(order)
    PROVE  Balanced'
<1> DEFINE f == SimulatedFill(order)
           p == holdings[f.symbol]
<1>1. f \in Fills /\ f.symbol \in Symbols /\ f.symbol = order.symbol
  BY SimulatedIsAFill, ChangeIs DEF SimulatedFill
<1>2. ProcessFill(f) /\ AverageIsExact(p, f)
  <2>1. ProcessFill(f)
    BY DEF Execute
  <2>2. Feeding
    BY <2>1 DEF ProcessFill
  <2> QED
    BY <1>1, <2>1, <2>2 DEF AveragesAreExact
<1> HIDE DEF f
<1>3. /\ holdings \in [Symbols -> Positions] /\ p \in Positions
      /\ prices \in [Symbols -> Int] /\ fills \in Seq(Fills)
      /\ score \in [fills : Int, winners : Int, profit : Int, loss : Int]
  BY <1>1 DEF LedgerTypes
<1>4. /\ holdings' = [holdings EXCEPT ![f.symbol] = Applied(p, f)]
      /\ score' = Counted(RealizedBy(p, f)) /\ fills' = Append(fills, f)
  BY <1>2 DEF ProcessFill
<1>5. Applied(p, f) \in Positions /\ RealizedBy(p, f) \in Int
  BY <1>1, <1>3, AppliedIsAPosition, YieldIs
<1>6. ASSUME NEW s \in Symbols PROVE CashIn(fills, s)' = Worth(holdings[s])'
  <2>1. CashIn(fills, s)' = CashIn(Append(fills, f), s)
    BY <1>4 DEF CashIn, Paid, Change
  <2>2. CashIn(fills, s)' = CashIn(fills, s) - (IF f.symbol = s THEN Paid(f) ELSE 0)
    BY <1>1, <1>3, <2>1, CashAppends
  <2>3. CashIn(fills, s) = Worth(holdings[s]) /\ CashIn(fills, s) \in Int
    BY <1>1, <1>3, CashAppends DEF Balanced
  <2>4. Worth(holdings[s])' = Worth(holdings'[s])
    BY DEF Worth
  <2>5. holdings'[s] = IF f.symbol = s THEN Applied(p, f) ELSE holdings[s]
    BY <1>1, <1>3, <1>4
  <2>6. Worth(Applied(p, f)) = Worth(p) - Paid(f)
    BY <1>1, <1>2, <1>3, CashMoves
  <2>7. CASE f.symbol = s
    BY <2>2, <2>3, <2>4, <2>5, <2>6, <2>7
  <2>8. CASE f.symbol # s
    BY <2>2, <2>3, <2>4, <2>5, <2>8
  <2> QED
    BY <2>7, <2>8
<1>7. (score.profit - score.loss = TotalRealized(holdings))'
  <2> DEFINE a == [s \in Symbols |-> holdings[s].realized]
             b == [s \in Symbols |-> holdings'[s].realized]
  <2>1. TotalRealized(holdings) = SumFunctionOnSet(a, Symbols)
    BY <1>3 DEF TotalRealized, SumFunction
  <2>2. TotalRealized(holdings)' = SumFunctionOnSet(b, Symbols)
    <3>1. DOMAIN holdings' = Symbols
      BY <1>3, <1>4
    <3> QED
      BY <3>1 DEF TotalRealized, SumFunction
  <2>3. \A s \in Symbols : a[s] \in Int /\ b[s] \in Int
    BY <1>1, <1>3, <1>4, <1>5 DEF Positions
  <2>4. \A s \in Symbols \ {f.symbol} : a[s] = b[s]
    BY <1>1, <1>3, <1>4
  <2>5. b[f.symbol] = a[f.symbol] + RealizedBy(p, f)
    BY <1>1, <1>3, <1>4 DEF Applied
  <2> HIDE DEF a, b
  <2>6. SumFunctionOnSet(b, Symbols)
          = SumFunctionOnSet(a, Symbols) + (b[f.symbol] - a[f.symbol])
    <3>1. IsFiniteSet(Symbols)
      BY LedgerBounds
    <3> QED
      BY ONLY <1>1, <2>3, <2>4, <3>1, SumChanged
  <2>7. /\ score'.profit - score'.loss = score.profit - score.loss + RealizedBy(p, f)
    BY <1>3, <1>4, <1>5, ScoreIs
  <2>8. score.profit - score.loss = TotalRealized(holdings)
    BY DEF Balanced
  <2>9. a[f.symbol] \in Int /\ SumFunctionOnSet(a, Symbols) \in Int
    BY <1>1, <2>3, LedgerBounds, SumIsAnInteger
  <2> QED
    BY <1>5, <2>1, <2>2, <2>5, <2>6, <2>7, <2>8, <2>9
<1> QED
  BY <1>6, <1>7 DEF Balanced

LEMMA BooksFollow ==
    ASSUME LedgerTypes, Balanced PROVE BooksBalance
<1> DEFINE w(s) == IF s \in Priced THEN prices[s] ELSE holdings[s].avg
           r == [s \in Symbols |-> holdings[s].realized]
           e == [s \in Symbols |-> holdings[s].fees]
           u == [s \in Priced |-> Unrealized(holdings[s], prices[s])]
           v == [s \in Symbols |-> IF s \in Priced THEN Unrealized(holdings[s], prices[s]) ELSE 0]
           d == [s \in Symbols |-> holdings[s].realized - holdings[s].fees]
           t == [s \in Symbols |-> CashOf(s) + holdings[s].quantity * w(s)]
<1>1. holdings \in [Symbols -> Positions] /\ prices \in [Symbols -> Int] /\ InitialEquity \in Int
  BY LedgerBounds DEF LedgerTypes
<1>2. Priced \in SUBSET Symbols /\ IsFiniteSet(Symbols)
  BY LedgerBounds DEF Priced
<1>3. Equity(holdings) = InitialEquity + SumFunctionOnSet(r, Symbols)
                           + SumFunctionOnSet(u, Priced) - SumFunctionOnSet(e, Symbols)
  BY <1>1 DEF Equity, TotalRealized, TotalUnrealized, TotalFees, SumFunction
<1>4. ASSUME NEW s \in Symbols
      PROVE  /\ r[s] \in Int /\ e[s] \in Int /\ v[s] \in Int /\ d[s] \in Int
             /\ r[s] = d[s] + e[s] /\ t[s] = d[s] + v[s]
             /\ s \in Priced => u[s] \in Int /\ v[s] = u[s]
             /\ s \notin Priced => v[s] = 0
  <2> DEFINE q == holdings[s].quantity
             a == holdings[s].avg
  <2>1. q \in Int /\ a \in Int /\ holdings[s].realized \in Int /\ holdings[s].fees \in Int
        /\ prices[s] \in Int
    BY <1>1 DEF Positions
  <2>2. CashOf(s) = holdings[s].realized - holdings[s].fees - q * a
    BY CashOfIs DEF Balanced, Worth
  <2>3. Unrealized(holdings[s], prices[s]) = q * (prices[s] - a)
    BY DEF Unrealized
  <2>4. t[s] = CashOf(s) + q * w(s)
    OBVIOUS
  <2>5. r[s] = holdings[s].realized /\ e[s] = holdings[s].fees
        /\ d[s] = holdings[s].realized - holdings[s].fees
        /\ v[s] = (IF s \in Priced THEN Unrealized(holdings[s], prices[s]) ELSE 0)
        /\ (s \in Priced => u[s] = Unrealized(holdings[s], prices[s]))
    OBVIOUS
  <2>6. w(s) = IF s \in Priced THEN prices[s] ELSE a
    OBVIOUS
  <2> HIDE DEF q, a, w, r, e, u, v, d, t
  <2>7. q * (prices[s] - a) \in Int /\ q * a \in Int /\ q * prices[s] \in Int
        /\ q * (prices[s] - a) = q * prices[s] - q * a
    BY ONLY <2>1
  <2> QED
    BY ONLY <2>1, <2>2, <2>3, <2>4, <2>5, <2>6, <2>7
<1>5. SumFunction([s \in Symbols |-> CashOf(s) + holdings[s].quantity *
               (IF s \in Priced THEN prices[s] ELSE holdings[s].avg)])
        = SumFunctionOnSet(t, Symbols)
  BY DEF SumFunction
<1> HIDE DEF w, r, e, u, v, d, t
<1>6. SumFunctionOnSet(u, Priced) = SumFunctionOnSet(v, Symbols)
  BY ONLY <1>2, <1>4, SumOfSome
<1>7. SumFunctionOnSet(r, Symbols) = SumFunctionOnSet(d, Symbols) + SumFunctionOnSet(e, Symbols)
  BY ONLY <1>2, <1>4, SumOfSums
<1>8. SumFunctionOnSet(t, Symbols) = SumFunctionOnSet(d, Symbols) + SumFunctionOnSet(v, Symbols)
  BY ONLY <1>2, <1>4, SumOfSums
<1>9. /\ SumFunctionOnSet(d, Symbols) \in Int /\ SumFunctionOnSet(e, Symbols) \in Int
      /\ SumFunctionOnSet(v, Symbols) \in Int
  BY ONLY <1>2, <1>4, SumIsAnInteger
<1>10. Equity(holdings) = InitialEquity + SumFunctionOnSet(t, Symbols)
  BY ONLY <1>1, <1>3, <1>6, <1>7, <1>8, <1>9
<1> QED
  BY <1>5, <1>10 DEF BooksBalance, Balanced

LEMMA BalancedGoesOn ==
    ASSUME Ledgers, Balanced, AveragesAreExact, [TradingNext]_tradingVars
    PROVE  Balanced'
<1>1. ASSUME NEW order \in Orders, Execute(order) PROVE Balanced'
  BY <1>1, ExecuteBalances DEF Ledgers
<1>2. CASE HandlePrices \/ Read \/ UNCHANGED tradingVars
  <2>1. UNCHANGED <<holdings, fills, score>>
    BY <1>2 DEF HandlePrices, HandleTrade, HandleSignal, Read, ReadTab, SendWorkbook,
                bookVars, tradingVars, ledgerVars
  <2> QED
    BY <2>1 DEF Balanced, CashIn, Paid, Change, Worth, TotalRealized
<1> QED
  BY <1>1, <1>2 DEF TradingNext

(* BooksBalance: as long as averages come out in whole units, the equity   *)
(* that the gains are added up to is the cash that the fills left plus the *)
(* inventory at its price, for any orders and trades and however positions *)
(* grow, shrink and change sides between them.                             *)
THEOREM BooksAlwaysBalance == TradingSpec /\ []AveragesAreExact => []BooksBalance
<1>1. Ledgers /\ Balanced => BooksBalance
  BY BooksFollow DEF Ledgers
<1> QED
  BY <1>1, BalancedAtFirst, BalancedGoesOn, LedgersHold, PTL DEF TradingSpec

(* ImplementsAccount: every step of the service is, for the cash that the  *)
(* positions account for, a purchase or a sale at the price and the fee of *)
(* one fill, or nothing at all.                                            *)
THEOREM LedgerIsAnAccount == TradingSpec /\ []AveragesAreExact => ImplementsAccount
<1> DEFINE cash == [s \in Symbols |-> holdings[s].realized - holdings[s].fees
                                       - holdings[s].quantity * holdings[s].avg]
           inventory == [s \in Symbols |-> holdings[s].quantity]
<1>1. TradingInit => A!Init
  BY DEF TradingInit, LedgerInit, A!Init, NoPosition
<1>2. Ledgers /\ AveragesAreExact /\ [TradingNext]_tradingVars
        => [A!Next]_<<cash, inventory>>
  <2> SUFFICES ASSUME Ledgers, AveragesAreExact, [TradingNext]_tradingVars
               PROVE  [A!Next]_<<cash, inventory>>
    OBVIOUS
  <2>1. ASSUME NEW order \in Orders, Execute(order) PROVE A!Next
    <3>0. PICK f \in Fills : f = SimulatedFill(order)
      BY SimulatedIsAFill
    <3> DEFINE s == f.symbol
               p == holdings[s]
               after == Applied(p, f)
    <3>1. f \in Fills /\ s \in Symbols /\ s = order.symbol
      BY <3>0, ChangeIs DEF SimulatedFill
    <3>2. ProcessFill(f) /\ AverageIsExact(p, f)
      <4>1. ProcessFill(f)
        BY <2>1, <3>0 DEF Execute
      <4>2. Feeding
        BY <4>1 DEF ProcessFill
      <4> QED
        BY <3>0, <3>1, <4>1, <4>2 DEF AveragesAreExact
    <3>3. holdings \in [Symbols -> Positions] /\ p \in Positions
      BY <3>1 DEF Ledgers, LedgerTypes
    <3>4. holdings' = [holdings EXCEPT ![s] = after]
      BY <3>2 DEF ProcessFill
    <3>5. Worth(after) = Worth(p) - Paid(f)
      BY <3>1, <3>2, <3>3, CashMoves
    <3>6. after.quantity = p.quantity + Change(f)
      BY DEF Applied
    <3>7. f.quantity \in Quantities /\ f.price \in Prices /\ f.fee \in Fees /\ f.side \in Sides
      BY <3>1 DEF Fills
    <3>8. f.quantity \in Int /\ f.price \in Int /\ f.fee \in Int /\ p.quantity \in Int
          /\ Worth(p) \in Int
      BY <3>3, <3>7, LedgerBounds DEF Worth, Positions
    <3>9. DOMAIN holdings' = Symbols /\ \A x \in Symbols :
            holdings'[x] = IF x = s THEN after ELSE holdings[x]
      BY <3>1, <3>3, <3>4
    <3>10. /\ cash' = [x \in Symbols |-> Worth(holdings'[x])]
           /\ cash = [x \in Symbols |-> Worth(holdings[x])]
      BY DEF Worth
    <3>11. /\ cash' = [cash EXCEPT ![s] = Worth(after)]
           /\ inventory' = [inventory EXCEPT ![s] = after.quantity]
      <4> HIDE DEF s, after
      <4>1. cash' = [x \in Symbols |-> IF x = s THEN Worth(after) ELSE Worth(holdings[x])]
        BY <3>9, <3>10
      <4>2. inventory' = [x \in Symbols |-> IF x = s THEN after.quantity ELSE holdings[x].quantity]
        BY <3>9
      <4>3. inventory = [x \in Symbols |-> holdings[x].quantity]
        OBVIOUS
      <4> HIDE DEF cash, inventory
      <4>4. cash' = [cash EXCEPT ![s] = Worth(after)]
        BY <3>10, <4>1
      <4>5. inventory' = [inventory EXCEPT ![s] = after.quantity]
        BY <4>2, <4>3
      <4> QED
        BY <4>4, <4>5
    <3>12. cash[s] = Worth(p) /\ inventory[s] = p.quantity
      BY <3>1, <3>10
    <3> HIDE DEF s, p, after, cash, inventory
    <3>13. CASE f.side = "BUY"
      <4>1. Paid(f) = f.quantity * f.price + f.fee /\ Change(f) = f.quantity
        BY <3>13 DEF Paid, Change
      <4>2. /\ cash' = [cash EXCEPT ![s] = cash[s] - f.quantity * f.price - f.fee]
            /\ inventory' = [inventory EXCEPT ![s] = inventory[s] + f.quantity]
        <5>1. Worth(after) = cash[s] - f.quantity * f.price - f.fee
          <6>1. f.quantity * f.price \in Int
            BY <3>8
          <6> QED
            BY <3>5, <3>8, <3>12, <4>1, <6>1
        <5> QED
          BY <3>6, <3>11, <3>12, <4>1, <5>1
      <4>3. A!Buy(s, f.quantity)
        BY <3>7, <4>2 DEF A!Buy, cash, inventory
      <4>4. s \in Symbols /\ f.quantity \in Quantities
        BY <3>1, <3>7
      <4> QED
        BY <4>3, <4>4 DEF A!Next
    <3>14. CASE f.side # "BUY"
      <4>1. Paid(f) = (-f.quantity) * f.price + f.fee /\ Change(f) = -f.quantity
        BY <3>14 DEF Paid, Change
      <4>2. /\ cash' = [cash EXCEPT ![s] = cash[s] + f.quantity * f.price - f.fee]
            /\ inventory' = [inventory EXCEPT ![s] = inventory[s] - f.quantity]
        <5>1. Worth(after) = cash[s] + f.quantity * f.price - f.fee
          <6>1. f.quantity * f.price \in Int /\ (-f.quantity) * f.price = -(f.quantity * f.price)
            BY <3>8
          <6> QED
            BY <3>5, <3>8, <3>12, <4>1, <6>1
        <5>2. after.quantity = inventory[s] - f.quantity
          BY <3>6, <3>8, <3>12, <4>1
        <5> QED
          BY <3>11, <5>1, <5>2
      <4>3. A!Sell(s, f.quantity)
        BY <3>7, <4>2 DEF A!Sell, cash, inventory
      <4>4. s \in Symbols /\ f.quantity \in Quantities
        BY <3>1, <3>7
      <4> QED
        BY <4>3, <4>4 DEF A!Next
    <3> QED
      BY <3>13, <3>14
  <2>2. CASE HandlePrices \/ Read \/ UNCHANGED tradingVars
    <3>1. UNCHANGED holdings
      BY <2>2 DEF HandlePrices, HandleTrade, HandleSignal, Read, ReadTab, SendWorkbook,
                  bookVars, tradingVars, ledgerVars
    <3> QED
      BY <3>1
  <2> QED
    BY <2>1, <2>2 DEF TradingNext
<1> QED
  BY <1>1, <1>2, LedgersHold, PTL DEF TradingSpec, ImplementsAccount, A!Spec

-----------------------------------------------------------------------------
(* The drawdowns.                                                          *)

Top(start, values, i) == Max({start} \cup {values[j] : j \in 1..i})

LEMMA TopIs ==
    ASSUME NEW start \in Int, NEW values \in Seq(Int), NEW i \in 1..Len(values)
    PROVE  /\ Top(start, values, i) \in Int /\ Top(start, values, i) >= start
           /\ \A j \in 1..i : Top(start, values, i) >= values[j]
           /\ Top(start, values, i) = start \/ \E j \in 1..i : Top(start, values, i) = values[j]
<1> DEFINE V == {values[j] : j \in 1..i}
           S == {start} \cup V
<1>1. Len(values) \in Nat /\ i \in Nat /\ \A j \in 1..i : values[j] \in Int
  OBVIOUS
<1>2. IsFiniteSet(S)
  <2>1. IsFiniteSet(1..i)
    BY <1>1, FS_Interval
  <2>2. IsFiniteSet(V)
    BY ONLY <2>1, ImageIsFinite
  <2> HIDE DEF V
  <2> QED
    BY ONLY <2>2, FS_Union, FS_Singleton
<1>3. S # {} /\ \A x \in S : x \in Int
  BY <1>1
<1>4. Top(start, values, i) = Max(S)
  BY DEF Top
<1>5. (\A j \in 1..i : values[j] \in S) /\ start \in S
      /\ \A x \in S : x = start \/ \E j \in 1..i : x = values[j]
  OBVIOUS
<1> HIDE DEF S
<1>6. Max(S) \in S /\ \A y \in S : Max(S) >= y
  BY ONLY <1>2, <1>3, LargestOfSome
<1> QED
  BY ONLY <1>3, <1>4, <1>5, <1>6

\* The order of fractions, multiplied out.
LEMMA Multiplied ==
    ASSUME NEW x \in Int, NEW y \in Int, NEW k \in Int, k > 0
    PROVE  x <= y <=> x * k <= y * k
<1>1. y * k - x * k = (y - x) * k
  OBVIOUS
<1>2. CASE x <= y
  <2>1. (y - x) * k >= 0
    BY <1>2
  <2> QED
    BY <1>1, <1>2, <2>1
<1>3. CASE ~ (x <= y)
  <2>1. (x - y) * k > 0
    BY <1>3
  <2>2. (y - x) * k = -((x - y) * k)
    OBVIOUS
  <2> QED
    BY <1>1, <1>3, <2>1, <2>2
<1> QED
  BY <1>2, <1>3

Fraction(d) == d[1] \in Int /\ d[2] \in Int /\ d[2] > 0

LEMMA DeeperIsAnOrder ==
    ASSUME NEW a, NEW b, NEW c, Fraction(a), Fraction(b), Fraction(c)
    PROVE  /\ ~ Deeper(a, a)
           /\ ~ Deeper(a, b) /\ ~ Deeper(b, c) => ~ Deeper(a, c)
           /\ Deeper(a, b) => ~ Deeper(b, a)
<1>1. PICK a1 \in Int, a2 \in Int, b1 \in Int, b2 \in Int, c1 \in Int, c2 \in Int :
        /\ a1 = a[1] /\ a2 = a[2] /\ b1 = b[1] /\ b2 = b[2] /\ c1 = c[1] /\ c2 = c[2]
        /\ a2 > 0 /\ b2 > 0 /\ c2 > 0
  BY DEF Fraction
<1>2. /\ a1 * a2 \in Int /\ a1 * b2 \in Int /\ a2 * b1 \in Int /\ b1 * c2 \in Int
      /\ c1 * b2 \in Int /\ a1 * c2 \in Int /\ c1 * a2 \in Int /\ b1 * a2 \in Int
  BY ONLY <1>1
<1>3. ~ Deeper(a, a) /\ (Deeper(a, b) => ~ Deeper(b, a))
  BY <1>1, <1>2 DEF Deeper
<1>4. ASSUME a1 * b2 <= b1 * a2, b1 * c2 <= c1 * b2 PROVE a1 * c2 <= c1 * a2
  <2>1. (a1 * b2) * c2 <= (b1 * a2) * c2
    BY ONLY <1>1, <1>2, <1>4, Multiplied
  <2>2. (b1 * c2) * a2 <= (c1 * b2) * a2
    BY ONLY <1>1, <1>2, <1>4, Multiplied
  <2>3. /\ (a1 * b2) * c2 = (a1 * c2) * b2 /\ (b1 * a2) * c2 = (b1 * c2) * a2
        /\ (c1 * b2) * a2 = (c1 * a2) * b2
    BY ONLY <1>1
  <2>4. (a1 * c2) * b2 <= (c1 * a2) * b2
    <3>1. (a1 * c2) * b2 \in Int /\ (b1 * c2) * a2 \in Int /\ (c1 * a2) * b2 \in Int
      BY ONLY <1>1, <1>2
    <3> QED
      BY ONLY <2>1, <2>2, <2>3, <3>1
  <2> QED
    BY ONLY <1>1, <1>2, <2>4, Multiplied
<1>5. /\ ~ Deeper(a, b) <=> a1 * b2 <= b1 * a2
      /\ ~ Deeper(b, c) <=> b1 * c2 <= c1 * b2
      /\ ~ Deeper(a, c) <=> a1 * c2 <= c1 * a2
  BY <1>1, <1>2 DEF Deeper
<1> QED
  BY <1>3, <1>4, <1>5

LEMMA DeepestIs ==
    ASSUME NEW n, n \in Nat, n > 0, NEW f, DOMAIN f = 1..n, \A i \in 1..n : Fraction(f[i])
    PROVE  /\ \E i \in 1..n : Deepest(f) = f[i]
           /\ \A i \in 1..n : ~ Deeper(f[i], Deepest(f))
<1> DEFINE S == {f[i] : i \in 1..n}
           Has(U) == \E d \in U : \A other \in U : ~ Deeper(other, d)
           T == {U \in SUBSET S : U = {} \/ Has(U)}
<1>1. {} \in T
  OBVIOUS
<1>2. IsFiniteSet(S) /\ \A d \in S : Fraction(d)
  <2>1. IsFiniteSet(1..n)
    BY FS_Interval
  <2>2. IsFiniteSet(S)
    BY ONLY <2>1, ImageIsFinite
  <2> QED
    BY <2>2
<1>3. S # {} /\ (\A i \in 1..n : f[i] \in S) /\ \A d \in S : \E i \in 1..n : d = f[i]
  <2>1. 1 \in 1..n
    OBVIOUS
  <2> QED
    BY <2>1
<1>4. f # <<>> /\ ToSet(f) = S
  <2>1. 1 \in 1..n /\ DOMAIN <<>> = {}
    OBVIOUS
  <2> QED
    BY <2>1 DEF ToSet
<1> HIDE DEF S
<1>5. ASSUME NEW U \in SUBSET S, U # {}, \A x \in U : U \ {x} \in T PROVE U \in T
  <2>1. PICK z \in U : TRUE
    BY <1>5
  <2>2. \A d \in U : Fraction(d)
    BY <1>2
  <2>3. CASE U \ {z} = {}
    <3>1. \A y \in U : y = z
      BY <2>3
    <3>2. ~ Deeper(z, z)
      BY <2>2, DeeperIsAnOrder
    <3> QED
      BY <3>1, <3>2
  <2>4. CASE U \ {z} # {}
    <3>1. PICK d \in U \ {z} : \A other \in U \ {z} : ~ Deeper(other, d)
      BY <1>5, <2>4
    <3>2. CASE Deeper(z, d)
      <4>1. \A other \in U : ~ Deeper(other, z)
        <5> SUFFICES ASSUME NEW other \in U PROVE ~ Deeper(other, z)
          OBVIOUS
        <5>1. ~ Deeper(d, z) /\ ~ Deeper(z, z)
          BY <2>2, <3>2, DeeperIsAnOrder
        <5>2. other # z => ~ Deeper(other, d)
          BY <3>1
        <5> QED
          BY <2>2, <5>1, <5>2, DeeperIsAnOrder
      <4> QED
        BY <4>1
    <3>3. CASE ~ Deeper(z, d)
      BY <3>1, <3>3
    <3> QED
      BY <3>2, <3>3
  <2> QED
    BY <2>3, <2>4
<1> HIDE DEF T
<1>6. S \in T
  BY ONLY <1>1, <1>2, <1>5, InductOnSets
<1>7. \E d \in S : \A other \in S : ~ Deeper(other, d)
  BY <1>3, <1>6 DEF T
<1>8. Deepest(f) \in S /\ \A other \in S : ~ Deeper(other, Deepest(f))
  BY <1>4, <1>7 DEF Deepest
<1> QED
  BY <1>3, <1>8

LEMMA DrawdownsAre ==
    ASSUME NEW start \in Int, NEW values \in Seq(Int), \A i \in 1..Len(values) : values[i] > 0
    PROVE  /\ DOMAIN Drawdowns(start, values) = 1..Len(values)
           /\ Len(Drawdowns(start, values)) = Len(values)
           /\ \A i \in 1..Len(values) :
                 /\ Drawdowns(start, values)[i] = <<Top(start, values, i) - values[i], Top(start, values, i)>>
                 /\ Fraction(Drawdowns(start, values)[i])
<1> DEFINE n == Len(values)
           D == Drawdowns(start, values)
<1>1. n \in Nat /\ DOMAIN values = 1..n /\ \A i \in 1..n : values[i] \in Int
  OBVIOUS
<1>2. D = [i \in 1..n |-> <<Top(start, values, i) - values[i], Top(start, values, i)>>]
  BY <1>1 DEF Drawdowns, Top
<1>3. ASSUME NEW i \in 1..n
      PROVE  Top(start, values, i) - values[i] \in Int /\ Top(start, values, i) \in Int
             /\ Top(start, values, i) > 0
  <2>0. i \in 1..i
    BY <1>1
  <2>1. Top(start, values, i) \in Int /\ \A j \in 1..i : Top(start, values, i) >= values[j]
    BY TopIs
  <2>2. Top(start, values, i) >= values[i] /\ values[i] > 0 /\ values[i] \in Int
    BY <1>1, <2>0, <2>1
  <2> QED
    BY ONLY <2>1, <2>2
<1> HIDE DEF D, n
<1>4. DOMAIN D = 1..n /\ \A i \in 1..n : D[i] = <<Top(start, values, i) - values[i], Top(start, values, i)>>
  BY <1>2
<1>5. \A i \in 1..n : D[i] \in Int \X Int /\ Fraction(D[i])
  <2> SUFFICES ASSUME NEW i \in 1..n PROVE D[i] \in Int \X Int /\ Fraction(D[i])
    OBVIOUS
  <2>1. PICK a \in Int, b \in Int : D[i] = <<a, b>> /\ b > 0
    BY <1>3, <1>4
  <2> QED
    BY ONLY <2>1 DEF Fraction
<1>6. Len(D) = n
  <2>1. D \in [1..n -> Int \X Int]
    BY <1>2, <1>4, <1>5
  <2>2. D \in Seq(Int \X Int)
    BY ONLY <1>1, <2>1
  <2> QED
    BY ONLY <1>1, <1>4, <2>2
<1> QED
  BY <1>4, <1>5, <1>6 DEF D, n

\* The peak is the highest point of the curve and of the initial equity.
PeakIsHighest ==
    /\ peak >= InitialEquity /\ \A j \in 1..Len(curve) : peak >= curve[j]
    /\ peak = InitialEquity \/ \E j \in 1..Len(curve) : peak = curve[j]

LEMMA PeaksHold == TradingSpec => []PeakIsHighest
<1>1. TradingInit => PeakIsHighest
  BY LedgerBounds DEF TradingInit, LedgerInit, PeakIsHighest
<1>2. Ledgers /\ PeakIsHighest /\ [TradingNext]_tradingVars => PeakIsHighest'
  <2> SUFFICES ASSUME Ledgers, PeakIsHighest, [TradingNext]_tradingVars PROVE PeakIsHighest'
    OBVIOUS
  <2>1. ASSUME NEW order \in Orders, Execute(order) PROVE PeakIsHighest'
    <3>1. PICK f \in Fills : f = SimulatedFill(order)
      BY SimulatedIsAFill
    <3> DEFINE after == [holdings EXCEPT ![f.symbol] = Applied(@, f)]
               e == Equity(after)
               n == Len(curve)
    <3>2. /\ curve' = Append(curve, e) /\ peak' = Max({peak, e})
      BY <2>1, <3>1 DEF Execute, ProcessFill
    <3>3. /\ holdings \in [Symbols -> Positions] /\ prices \in [Symbols -> Int]
          /\ curve \in Seq(Int) /\ peak \in Int /\ f.symbol \in Symbols
      BY ChangeIs DEF Ledgers, LedgerTypes
    <3>4. after \in [Symbols -> Positions]
      BY <3>3, AppliedIsAPosition
    <3> HIDE DEF after
    <3>5. e \in Int
      BY <3>3, <3>4, EquityIs
    <3> HIDE DEF e
    <3>6. peak' = IF peak >= e THEN peak ELSE e
      BY <3>2, <3>3, <3>5, LargestOfTwo
    <3>7. /\ n \in Nat /\ Len(curve') = n + 1
          /\ \A j \in 1..n + 1 : curve'[j] = IF j <= n THEN curve[j] ELSE e
          /\ \A j \in 1..n : curve[j] \in Int
      BY <3>2, <3>3, <3>5
    <3>8. /\ peak >= InitialEquity /\ (\A j \in 1..n : peak >= curve[j])
          /\ (peak = InitialEquity \/ \E j \in 1..n : peak = curve[j])
      BY DEF PeakIsHighest
    <3> HIDE DEF n
    <3>9. InitialEquity \in Int
      BY LedgerBounds
    <3>10. \A j \in 1..n : j \in 1..n + 1 /\ curve'[j] = curve[j]
      BY ONLY <3>7
    <3>11. n + 1 \in 1..n + 1 /\ curve'[n + 1] = e
      BY ONLY <3>7
    <3>12. \A j \in 1..n + 1 : j \in 1..n \/ j = n + 1
      BY ONLY <3>7
    <3>13. peak' >= InitialEquity /\ \A j \in 1..n + 1 : peak' >= curve'[j]
      <4>1. peak' \in Int /\ peak' >= peak /\ peak' >= e
        BY ONLY <3>3, <3>5, <3>6
      <4>2. \A j \in 1..n : peak' >= curve[j]
        BY ONLY <3>3, <3>7, <3>8, <4>1
      <4>3. peak' >= InitialEquity
        BY ONLY <3>3, <3>8, <3>9, <4>1
      <4> QED
        BY ONLY <3>10, <3>11, <3>12, <4>1, <4>2, <4>3
    <3>14. peak' = InitialEquity \/ \E j \in 1..n + 1 : peak' = curve'[j]
      BY ONLY <3>6, <3>8, <3>10, <3>11
    <3> QED
      BY <3>7, <3>13, <3>14 DEF PeakIsHighest
  <2>2. CASE HandlePrices \/ Read \/ UNCHANGED tradingVars
    <3>1. UNCHANGED <<curve, peak>>
      BY <2>2 DEF HandlePrices, HandleTrade, HandleSignal, Read, ReadTab, SendWorkbook,
                  bookVars, tradingVars, ledgerVars
    <3> QED
      BY <3>1 DEF PeakIsHighest
  <2> QED
    BY <2>1, <2>2 DEF TradingNext
<1> QED
  BY <1>1, <1>2, LedgersHold, PTL DEF TradingSpec

\* The equity never fell to nothing.
Solvent == \A i \in DOMAIN curve : curve[i] > 0

LEMMA DrawdownsFollow ==
    ASSUME Ledgers, PeakIsHighest, Solvent PROVE DrawdownsAgree
<1> DEFINE n == Len(curve)
           charted == Suffix(curve, Window)
           chart == DrawdownTab.drawdowns
           risk == RiskTab.maxDrawdown
<1>1. /\ curve \in Seq(Int) /\ n \in Nat /\ InitialEquity \in Int /\ InitialEquity >= 0
      /\ Window \in Nat /\ Window > 0 /\ peak \in Int
      /\ DOMAIN curve = 1..n /\ \A i \in 1..n : curve[i] \in Int /\ curve[i] > 0
  BY LedgerBounds DEF Ledgers, LedgerTypes, Solvent
<1>2. chart = Drawdowns(InitialEquity, charted)
  BY DEF DrawdownTab
<1>3. risk = MaxDrawdown(curve)
  BY DEF RiskTab
<1> DEFINE m == Min({Window, n})
<1>4. m \in Nat /\ m <= n /\ (n <= Window => m = n)
  BY <1>1, SmallestOfTwo
<1>5. charted = SubSeq(curve, n - m + 1, n)
  BY DEF Suffix
<1> HIDE DEF m, n, charted, chart, risk
<1>6. /\ charted \in Seq(Int) /\ Len(charted) = m
      /\ \A j \in 1..m : n - m + j \in 1..n /\ charted[j] = curve[n - m + j]
  <2>1. \A i \in n - m + 1 .. n : i \in 1..n
    BY ONLY <1>1, <1>4
  <2>2. charted \in Seq(Int) /\ Len(charted) = m
    BY ONLY <1>1, <1>4, <1>5, <2>1
  <2>3. \A j \in 1..m : charted[j] = curve[n - m + j]
    BY ONLY <1>1, <1>4, <1>5
  <2>4. \A j \in 1..m : n - m + j \in 1..n
    BY ONLY <1>1, <1>4
  <2> QED
    BY <2>2, <2>3, <2>4
<1>7. \A j \in 1..Len(charted) : charted[j] > 0 /\ charted[j] \in Int
  BY ONLY <1>1, <1>6
<1>8. /\ DOMAIN chart = 1..m /\ Len(chart) = m
      /\ \A i \in 1..m : /\ chart[i] = <<Top(InitialEquity, charted, i) - charted[i], Top(InitialEquity, charted, i)>>
                         /\ Fraction(chart[i])
  BY ONLY <1>1, <1>2, <1>6, <1>7, DrawdownsAre
<1>9. \A j \in 1..n : peak >= curve[j]
  BY DEF PeakIsHighest, n
<1>10. peak >= InitialEquity /\ (peak = InitialEquity \/ \E j \in 1..n : peak = curve[j])
  BY DEF PeakIsHighest, n
<1>11. \A i \in 1..m : chart[i][2] <= peak
  <2> SUFFICES ASSUME NEW i \in 1..m PROVE Top(InitialEquity, charted, i) <= peak
    BY <1>8
  <2>1. \/ Top(InitialEquity, charted, i) = InitialEquity
        \/ \E j \in 1..i : Top(InitialEquity, charted, i) = charted[j]
    BY <1>1, <1>6, TopIs
  <2>2. ASSUME NEW j \in 1..i PROVE charted[j] <= peak
    <3>1. j \in 1..m
      BY <1>4
    <3> QED
      BY <1>1, <1>6, <1>9, <3>1
  <2>3. InitialEquity <= peak
    BY ONLY <1>1, <1>10
  <2> QED
    BY <2>1, <2>2, <2>3
<1>12. ASSUME n <= Window, curve # <<>>
       PROVE  /\ Last(chart)[2] = peak
              /\ ~ Deeper(risk, Deepest(chart))
              /\ Head(curve) >= InitialEquity => ~ Deeper(Deepest(chart), risk)
  <2>1. m = n /\ n > 0
    <3>1. Len(curve) # 0
      BY <1>1, <1>12
    <3>2. n # 0
      BY <3>1 DEF n
    <3> QED
      BY ONLY <1>1, <1>4, <1>12, <3>2
  <2>2. charted = curve
    <3>1. \A j \in 1..n : charted[j] = curve[j]
      BY ONLY <1>1, <1>6, <2>1
    <3> QED
      BY ONLY <1>1, <1>6, <2>1, <3>1 DEF n
  <2>3. 1 \in 1..n /\ n \in 1..n /\ n = Len(curve)
    BY <1>1, <2>1 DEF n
  <2>4. Last(chart)[2] = peak
    <3> DEFINE t == Top(InitialEquity, curve, n)
    <3>1. Last(chart)[2] = t
      BY <1>8, <2>1, <2>2, <2>3 DEF Last
    <3>2. /\ t \in Int /\ t >= InitialEquity /\ (\A j \in 1..n : t >= curve[j])
          /\ (t = InitialEquity \/ \E j \in 1..n : t = curve[j])
      BY <1>1, <2>3, TopIs
    <3> HIDE DEF t
    <3> QED
      BY ONLY <1>1, <1>9, <1>10, <3>1, <3>2
  <2> DEFINE first == Drawdowns(curve[1], curve)
  <2>5. curve[1] \in Int /\ Head(curve) = curve[1]
    BY <1>1, <2>3
  <2>6. risk = Deepest(first)
    BY <1>3, <1>12, <2>5 DEF MaxDrawdown
  <2>7. /\ DOMAIN first = 1..n
        /\ \A i \in 1..n : /\ first[i] = <<Top(curve[1], curve, i) - curve[i], Top(curve[1], curve, i)>>
                           /\ Fraction(first[i])
    <3>1. \A i \in 1..Len(curve) : curve[i] > 0
      BY <1>1, <2>3
    <3> QED
      BY ONLY <1>1, <2>3, <2>5, <3>1, DrawdownsAre
  <2> HIDE DEF first
  <2>8. /\ \E i \in 1..n : risk = first[i]
        /\ \A i \in 1..n : ~ Deeper(first[i], risk)
    BY ONLY <1>1, <2>1, <2>6, <2>7, DeepestIs
  <2>9. /\ \E i \in 1..n : Deepest(chart) = chart[i]
        /\ \A i \in 1..n : ~ Deeper(chart[i], Deepest(chart))
    BY ONLY <1>1, <1>8, <2>1, DeepestIs
  <2>10. \A i \in 1..n : Fraction(chart[i]) /\ Fraction(first[i])
    BY <1>8, <2>1, <2>7
  <2>11. ~ Deeper(risk, Deepest(chart))
    <3>1. PICK i \in 1..n : risk = first[i]
      BY <2>8
    <3> DEFINE T == Top(InitialEquity, curve, i)
               t == Top(curve[1], curve, i)
               v == curve[i]
    <3>2. T \in Int /\ t \in Int /\ v \in Int /\ v > 0 /\ t <= T /\ t > 0
      <4>1. v \in Int /\ v > 0 /\ i \in 1..i /\ 1 \in 1..i
        BY <1>1
      <4>2. T \in Int /\ \A j \in 1..i : T >= curve[j]
        BY <1>1, <2>3, TopIs
      <4>3. t \in Int /\ (\A j \in 1..i : t >= curve[j])
            /\ (t = curve[1] \/ \E j \in 1..i : t = curve[j])
        BY <1>1, <2>3, <2>5, TopIs
      <4> HIDE DEF T, t, v
      <4>4. t <= T
        BY <4>1, <4>2, <4>3
      <4>5. t >= v
        BY <4>1, <4>3 DEF v
      <4> QED
        BY ONLY <4>1, <4>2, <4>3, <4>4, <4>5
    <3>3. chart[i] = <<T - v, T>> /\ first[i] = <<t - v, t>>
      BY <1>8, <2>1, <2>2, <2>7
    <3> HIDE DEF T, t, v
    <3>4. ~ ((t - v) * T > (T - v) * t)
      <4>1. t * v <= T * v
        BY ONLY <3>2, Multiplied
      <4>2. (t - v) * T = t * T - T * v /\ (T - v) * t = t * T - t * v
        BY ONLY <3>2
      <4>3. t * T \in Int /\ T * v \in Int /\ t * v \in Int
        BY ONLY <3>2
      <4> QED
        BY ONLY <4>1, <4>2, <4>3
    <3>5. ~ Deeper(first[i], chart[i])
      BY ONLY <3>3, <3>4 DEF Deeper
    <3> QED
      BY <2>9, <2>10, <3>1, <3>5, DeeperIsAnOrder
  <2>12. ASSUME curve[1] >= InitialEquity PROVE ~ Deeper(Deepest(chart), risk)
    <3>1. PICK i \in 1..n : Deepest(chart) = chart[i]
      BY <2>9
    <3>2. Top(InitialEquity, curve, i) = Top(curve[1], curve, i)
      <4> DEFINE T == Top(InitialEquity, curve, i)
                 t == Top(curve[1], curve, i)
      <4>1. 1 \in 1..i /\ \A j \in 1..i : curve[j] \in Int
        BY <1>1
      <4>2. T \in Int /\ (\A j \in 1..i : T >= curve[j])
            /\ (T = InitialEquity \/ \E j \in 1..i : T = curve[j])
        BY <1>1, <2>3, TopIs
      <4>3. t \in Int /\ (\A j \in 1..i : t >= curve[j])
            /\ (t = curve[1] \/ \E j \in 1..i : t = curve[j])
        BY <1>1, <2>3, <2>5, TopIs
      <4> HIDE DEF T, t
      <4>4. t <= T
        BY ONLY <4>1, <4>2, <4>3
      <4>5. T <= t
        BY ONLY <1>1, <2>5, <2>12, <4>1, <4>2, <4>3
      <4> QED
        BY ONLY <4>2, <4>3, <4>4, <4>5 DEF T, t
    <3>3. chart[i] = first[i]
      BY <1>8, <2>1, <2>2, <2>7, <3>2
    <3> QED
      BY <2>8, <3>1, <3>3
  <2> QED
    BY <2>4, <2>5, <2>11, <2>12
<1>13. DOMAIN chart = 1..m
  BY <1>8
<1> QED
  BY <1>11, <1>12, <1>13 DEF DrawdownsAgree, chart, risk, n

(* DrawdownsAgree: whatever is filled, the three places that keep a        *)
(* drawdown agree about it whenever no point of the curve has fallen to    *)
(* nothing, for a window of any size.                                      *)
THEOREM DrawdownsDoAgree == TradingSpec => [](Solvent => DrawdownsAgree)
<1>1. Ledgers /\ PeakIsHighest => (Solvent => DrawdownsAgree)
  BY DrawdownsFollow
<1> QED
  BY <1>1, LedgersHold, PeaksHold, PTL

-----------------------------------------------------------------------------
(* The walk of the book.                                                   *)

BookDepth == Seq([price : Nat, size : Nat])
Walks == [remaining : Int, cost : Int]

\* The library's fold, as the loop it stands for.
LEMMA WalkIsALoop ==
    ASSUME NEW quantity \in Nat, NEW depth \in BookDepth
    PROVE  \E w : /\ w[0] = [remaining |-> quantity, cost |-> 0]
                  /\ \A k \in 1..Len(depth) : w[k] = TakeLevel(w[k - 1], depth[k])
                  /\ WalkTheBook(quantity, depth) =
                        IF depth = <<>> THEN 0
                        ELSE IF quantity - w[Len(depth)].remaining <= 0 THEN Head(depth).price
                        ELSE w[Len(depth)].cost \div (quantity - w[Len(depth)].remaining)
<1> DEFINE base == [remaining |-> quantity, cost |-> 0]
           n == Len(depth)
           turn == [p \in (1..n) \X Walks |-> TakeLevel(p[2], depth[p[1]])]
           Is(F) == F = [s \in SUBSET DOMAIN depth |->
                            IF s = {} THEN base
                            ELSE TakeLevel(F[s \ {Max(s)}], depth[Max(s)])]
<1>1. /\ n \in Nat /\ DOMAIN depth = 1..n /\ base \in Walks
      /\ \A k \in 1..n : depth[k] \in [price : Nat, size : Nat]
  <2>1. base \in Walks
    BY DEF Walks
  <2> DEFINE Level == [price : Nat, size : Nat]
  <2>2. depth \in Seq(Level)
    BY DEF BookDepth
  <2> HIDE DEF Level
  <2>3. n \in Nat /\ DOMAIN depth = 1..n /\ \A k \in 1..n : depth[k] \in Level
    BY <2>2
  <2> QED
    BY <2>1, <2>3 DEF Level
<1>2. ASSUME NEW walk \in Walks, NEW k \in 1..n PROVE TakeLevel(walk, depth[k]) \in Walks
  <2> DEFINE a == walk.remaining
             c == walk.cost
             b == depth[k].size
             d == depth[k].price
  <2>1. a \in Int /\ b \in Int /\ c \in Int /\ d \in Int
    BY <1>1 DEF Walks
  <2> DEFINE t == Min({a, b})
  <2>2. t \in Int
    <3> HIDE DEF a, b
    <3> QED
      BY <2>1, SmallestOfTwo
  <2>3. TakeLevel(walk, depth[k]) = [remaining |-> a - t, cost |-> c + t * d]
    BY DEF TakeLevel
  <2> HIDE DEF a, b, c, d, t
  <2> QED
    BY <2>1, <2>2, <2>3 DEF Walks
<1>3. turn \in [(1..n) \X Walks -> Walks]
  BY <1>2
<1>4. \E F : Is(F)
  <2>1. Folded(base, turn, Walks, n)
    <3> HIDE DEF base, turn, n
    <3> QED
      BY ONLY <1>1, <1>3, FoldExists
  <2>2. PICK F \in [SUBSET (1..n) -> Walks] : IsFold(F, base, turn, n)
    <3> HIDE DEF base, turn, n
    <3> QED
      BY ONLY <2>1 DEF Folded
  <2>3. ASSUME NEW s \in SUBSET (1..n), s # {}
        PROVE  F[s] = TakeLevel(F[s \ {Max(s)}], depth[Max(s)])
    <3>1. Max(s) \in 1..n /\ s \ {Max(s)} \in SUBSET (1..n)
      BY <1>1, <2>3, LastOfSome
    <3>2. <<Max(s), F[s \ {Max(s)}]>> \in (1..n) \X Walks
      BY <3>1
    <3>3. F[s] = turn[<<Max(s), F[s \ {Max(s)}]>>]
      <4> HIDE DEF turn
      <4> QED
        BY <2>2, <2>3 DEF IsFold
    <3> QED
      BY <3>2, <3>3
  <2>4. F[{}] = base
    <3> HIDE DEF base, turn
    <3> QED
      BY <2>2 DEF IsFold
  <2>5. Is(F)
    BY <1>1, <2>3, <2>4
  <2> QED
    BY <2>5
<1> DEFINE G == CHOOSE F : Is(F)
<1>5. Is(G)
  BY <1>4
<1>6. FoldLeft(TakeLevel, base, depth) = G[DOMAIN depth]
  BY DEF FoldLeft, MapThenFoldSet
<1>7. PICK H : H = G
  OBVIOUS
<1> DEFINE w == [k \in 0..n |-> H[1..k]]
<1>8. w[0] = base
  <2>1. 1..0 = {} /\ 0 \in 0..n /\ {} \in SUBSET DOMAIN depth
    BY <1>1
  <2> HIDE DEF base, G, n
  <2> QED
    BY <1>5, <1>7, <2>1
<1>9. ASSUME NEW k \in 1..n PROVE w[k] = TakeLevel(w[k - 1], depth[k])
  <2>1. /\ 1..k # {} /\ 1..k \in SUBSET DOMAIN depth /\ k \in 0..n /\ k - 1 \in 0..n
        /\ Max(1..k) = k /\ (1..k) \ {k} = 1..(k - 1)
    BY <1>1, FirstOnes
  <2> HIDE DEF base, G, n
  <2>2. H[1..k] = TakeLevel(H[(1..k) \ {Max(1..k)}], depth[Max(1..k)])
    BY <1>5, <1>7, <2>1
  <2> QED
    BY <2>1, <2>2
<1>10. FoldLeft(TakeLevel, base, depth) = w[n]
  <2>1. n \in 0..n
    BY <1>1
  <2> HIDE DEF G, base, n
  <2> QED
    BY <1>1, <1>6, <1>7, <2>1
<1>11. WalkTheBook(quantity, depth) =
          IF depth = <<>> THEN 0
          ELSE IF quantity - w[n].remaining <= 0 THEN Head(depth).price
          ELSE w[n].cost \div (quantity - w[n].remaining)
  <2>1. WalkTheBook(quantity, depth) =
           LET walk == FoldLeft(TakeLevel, base, depth)
           IN  IF depth = <<>> THEN 0
               ELSE IF quantity - walk.remaining <= 0 THEN Head(depth).price
               ELSE walk.cost \div (quantity - walk.remaining)
    BY DEF WalkTheBook
  <2> HIDE DEF w, base, n
  <2> QED
    BY ONLY <1>10, <2>1
<1> HIDE DEF w
<1> QED
  BY <1>8, <1>9, <1>11

SizesOf(depth) == [j \in DOMAIN depth |-> depth[j].size]

LEMMA OfferedGrows ==
    ASSUME NEW depth \in BookDepth
    PROVE  /\ Len(depth) \in Nat /\ DOMAIN depth = 1..Len(depth)
           /\ \A k \in 1..Len(depth) : depth[k].size \in Nat /\ depth[k].price \in Nat
           /\ Offered(depth, 0) = 0
           /\ \A k \in 0..Len(depth) : Offered(depth, k) \in Nat
           /\ \A k \in 1..Len(depth) :
                 Offered(depth, k) = Offered(depth, k - 1) + depth[k].size
<1> DEFINE n == Len(depth)
           f == SizesOf(depth)
           O(k) == SumFunctionOnSet(f, 1..k)
<1>1. /\ n \in Nat /\ DOMAIN depth = 1..n
      /\ \A k \in 1..n : depth[k].size \in Nat /\ depth[k].price \in Nat
  <2> DEFINE Level == [price : Nat, size : Nat]
  <2>1. depth \in Seq(Level)
    BY DEF BookDepth
  <2>2. \A l \in Level : l.size \in Nat /\ l.price \in Nat
    OBVIOUS
  <2> HIDE DEF Level
  <2> QED
    BY <2>1, <2>2
<1>2. \A k \in 1..n : f[k] \in Nat /\ f[k] = depth[k].size
  BY <1>1 DEF SizesOf
<1>3. \A k : Offered(depth, k) = O(k)
  BY DEF Offered, SizesOf
<1> HIDE DEF f, n
<1>4. O(0) = 0
  <2>1. 1..0 = {}
    OBVIOUS
  <2> QED
    BY <2>1, SumOfNone
<1>5. ASSUME NEW k \in 1..n PROVE O(k) = f[k] + O(k - 1)
  <2>1. k \in Nat /\ k > 0 /\ k \in Int /\ k \in 1..k /\ 1..k \subseteq 1..n
    BY <1>1
  <2>2. IsFiniteSet(1..k) /\ \A x \in 1..k : f[x] \in Int
    BY <1>2, <2>1, FS_Interval
  <2>3. O(k) = f[k] + SumFunctionOnSet(f, (1..k) \ {k})
    BY ONLY <2>1, <2>2, SumWithout
  <2>4. (1..k) \ {k} = 1..(k - 1)
    BY <2>1
  <2> QED
    BY <2>3, <2>4
<1>6. \A k \in 0..n : O(k) \in Nat
  <2> DEFINE T == {k \in Nat : k <= n => O(k) \in Nat}
  <2>1. 0 \in T
    BY <1>4
  <2>2. ASSUME NEW k \in Nat, k \in T PROVE k + 1 \in T
    <3> SUFFICES ASSUME k + 1 <= n PROVE O(k + 1) \in Nat
      OBVIOUS
    <3>1. k + 1 \in 1..n /\ (k + 1) - 1 = k /\ k <= n
      BY <1>1
    <3>2. O(k) \in Nat
      BY <2>2, <3>1
    <3>3. O(k + 1) = f[k + 1] + O((k + 1) - 1) /\ f[k + 1] \in Nat
      BY <1>2, <1>5, <3>1
    <3> HIDE DEF O
    <3> QED
      BY <3>1, <3>2, <3>3
  <2> HIDE DEF T
  <2>3. Nat \subseteq T
    BY ONLY <2>1, <2>2, Induct
  <2> QED
    BY <2>3 DEF T
<1> QED
  <2>1. ASSUME NEW k \in 1..n
        PROVE  Offered(depth, k) = Offered(depth, k - 1) + depth[k].size
    <3>1. O(k) = f[k] + O(k - 1) /\ f[k] = depth[k].size
      BY <1>2, <1>5
    <3>2. O(k - 1) \in Nat /\ f[k] \in Nat
      BY <1>1, <1>2, <1>6
    <3> HIDE DEF O
    <3> QED
      BY <1>3, <3>1, <3>2
  <2> QED
    BY <1>1, <1>3, <1>4, <1>6, <2>1 DEF n

LEMMA OfferedIsMonotone ==
    ASSUME NEW depth \in BookDepth, NEW i \in 0..Len(depth), NEW j \in 0..Len(depth),
           i <= j
    PROVE  Offered(depth, i) <= Offered(depth, j)
<1> DEFINE n == Len(depth)
           O == [k \in 0..n |-> Offered(depth, k)]
           T == {t \in Nat : i + t <= n => O[i] <= O[i + t]}
<1>1. n \in Nat /\ \A k \in 0..n : O[k] \in Nat
  BY OfferedGrows
<1>2. \A k \in 1..n : O[k - 1] <= O[k]
  <2>1. ASSUME NEW k \in 1..n PROVE O[k - 1] <= O[k]
    <3>1. k \in 0..n /\ k - 1 \in 0..n
      BY <1>1
    <3>2. Offered(depth, k) = Offered(depth, k - 1) + depth[k].size
          /\ depth[k].size \in Nat /\ Offered(depth, k - 1) \in Nat
      BY <3>1, OfferedGrows
    <3> QED
      BY <3>1, <3>2
  <2> QED
    BY <2>1
<1>0. i \in 0..n /\ j \in 0..n
  OBVIOUS
<1> HIDE DEF O, n
<1>3. 0 \in T
  BY <1>0, <1>1
<1>4. ASSUME NEW t \in Nat, t \in T PROVE t + 1 \in T
  <2> SUFFICES ASSUME i + (t + 1) <= n PROVE O[i] <= O[i + (t + 1)]
    OBVIOUS
  <2>1. i + t <= n /\ i + (t + 1) \in 1..n /\ (i + (t + 1)) - 1 = i + t
        /\ i + t \in 0..n /\ i + (t + 1) \in 0..n
    BY <1>0, <1>1
  <2>2. O[i] <= O[i + t] /\ O[i + t] <= O[i + (t + 1)]
    BY <1>2, <1>4, <2>1
  <2> QED
    BY <1>0, <1>1, <2>1, <2>2
<1> HIDE DEF T
<1>5. Nat \subseteq T
  BY ONLY <1>3, <1>4, Induct
<1>6. j - i \in Nat /\ i + (j - i) = j /\ j <= n
  BY <1>0, <1>1
<1>7. O[i] <= O[j]
  BY <1>5, <1>6 DEF T
<1> QED
  BY <1>0, <1>7 DEF O

\* A unit's price is that of the level it lies in, and it lies in one.
LEMMA UnitPriceIs ==
    ASSUME NEW depth \in BookDepth, NEW k \in 1..Len(depth), NEW u \in Nat,
           Offered(depth, k - 1) < u, u <= Offered(depth, k)
    PROVE  UnitPrice(depth, u) = depth[k].price
<1> DEFINE n == Len(depth)
           In(i) == Offered(depth, i - 1) < u /\ u <= Offered(depth, i)
<1>1. n \in Nat /\ DOMAIN depth = 1..n /\ \A i \in 0..n : Offered(depth, i) \in Nat
  BY OfferedGrows
<1>2. ASSUME NEW i \in 1..n, NEW j \in 1..n, In(i), In(j), i < j PROVE FALSE
  <2>1. i \in 0..n /\ j - 1 \in 0..n /\ i <= j - 1
    BY <1>1, <1>2
  <2>2. Offered(depth, i) <= Offered(depth, j - 1)
    BY <2>1, OfferedIsMonotone
  <2>3. Offered(depth, i) \in Nat /\ Offered(depth, j - 1) \in Nat
    BY <1>1, <2>1
  <2> QED
    BY <1>2, <2>2, <2>3
<1>3. ASSUME NEW i \in 1..n, In(i) PROVE i = k
  <2>1. i < k \/ i > k \/ i = k
    BY <1>1
  <2> QED
    BY <1>2, <1>3, <2>1
<1>4. In(k) /\ k \in DOMAIN depth
  BY <1>1
<1>5. (CHOOSE i \in DOMAIN depth : In(i)) = k
  BY <1>1, <1>3, <1>4
<1> QED
  BY <1>5 DEF UnitPrice

\* The loop takes the best units of the book, one by one.
LEMMA WalkPaysByTheUnit ==
    ASSUME NEW quantity \in Nat, NEW depth \in BookDepth,
           NEW units, units = Min({quantity, Offered(depth, Len(depth))}), units > 0
    PROVE  WalkTheBook(quantity, depth)
             = SumFunction([u \in 1..units |-> UnitPrice(depth, u)]) \div units
<1> DEFINE n == Len(depth)
           O == [k \in 0..n |-> Offered(depth, k)]
           U == [u \in 1..units |-> UnitPrice(depth, u)]
           S(m) == SumFunctionOnSet(U, 1..m)
           m(k) == IF quantity <= O[k] THEN quantity ELSE O[k]
<1>1. /\ n \in Nat /\ \A k \in 0..n : O[k] \in Nat
      /\ O[0] = 0
      /\ \A k \in 1..n : /\ depth[k].size \in Nat /\ depth[k].price \in Nat
                         /\ O[k] = O[k - 1] + depth[k].size
  <2>1. ASSUME NEW k \in 1..n PROVE O[k] = O[k - 1] + depth[k].size
    <3>1. k \in 0..n /\ k - 1 \in 0..n
      BY OfferedGrows
    <3> QED
      BY <3>1, OfferedGrows
  <2> QED
    BY <2>1, OfferedGrows
<1>2. \A k \in 0..n : O[k] <= O[n]
  <2>1. ASSUME NEW k \in 0..n PROVE O[k] <= O[n]
    <3>1. n \in 0..n /\ k <= n
      BY <1>1
    <3> QED
      BY <3>1, OfferedIsMonotone
  <2> QED
    BY <2>1
<1>3. ASSUME NEW k \in 1..n, NEW u \in Nat, O[k - 1] < u, u <= O[k], u <= units
      PROVE  U[u] = depth[k].price
  <2>1. k \in 0..n /\ k - 1 \in 0..n /\ O[k - 1] \in Nat
    BY <1>1
  <2>2. u \in 1..units
    <3>1. u > 0
      BY <1>3, <2>1
    <3>2. units \in Int
      <4>1. O[n] \in Int /\ units = Min({quantity, O[n]})
        BY <1>1
      <4> HIDE DEF O
      <4> QED
        BY <4>1, SmallestOfTwo
    <3> QED
      BY <1>3, <3>1, <3>2
  <2>3. UnitPrice(depth, u) = depth[k].price
    BY <1>3, <2>1, UnitPriceIs
  <2> QED
    BY <2>2, <2>3
<1>4. units = m(n) /\ units \in Nat
  <2>1. O[n] \in Int /\ units = Min({quantity, O[n]}) /\ O[n] \in Nat
    BY <1>1
  <2> HIDE DEF O
  <2> QED
    BY <2>1, SmallestOfTwo
<1>5. SumFunction(U) = S(units)
  BY DEF SumFunction
<1>6. \A u \in 1..units : \E k \in 1..n : O[k - 1] < u /\ u <= O[k]
  <2> SUFFICES ASSUME NEW u \in 1..units PROVE \E k \in 1..n : O[k - 1] < u /\ u <= O[k]
    OBVIOUS
  <2> DEFINE R == {k \in Nat : k <= n /\ u <= O[k]}
  <2>0. u \in Nat /\ u > 0
    BY <1>4
  <2> HIDE DEF O, n
  <2>1. n \in R
    BY <1>1, <1>4
  <2>2. PICK k \in R : \A j \in R : k <= j
    BY <2>1, Least
  <2>3. k # 0
    BY <1>1, <2>0, <2>2
  <2>4. k - 1 \notin R /\ k - 1 \in Nat /\ k - 1 \in 0..n /\ k \in 1..n
    BY <1>1, <2>2, <2>3
  <2>5. O[k - 1] < u
    BY <1>1, <2>0, <2>4
  <2> QED
    BY <2>2, <2>4, <2>5
<1>7. \A u \in 1..units : U[u] \in Int
  <2> SUFFICES ASSUME NEW u \in 1..units PROVE U[u] \in Int
    OBVIOUS
  <2>1. PICK k \in 1..n : O[k - 1] < u /\ u <= O[k]
    BY <1>6
  <2>2. u \in Nat /\ u <= units
    BY <1>4
  <2>3. U[u] = depth[k].price
    <3> HIDE DEF O, U, n
    <3> QED
      BY <1>3, <2>1, <2>2
  <2>4. depth[k].price \in Nat
    <3> HIDE DEF n, O
    <3> QED
      BY <1>1
  <2> QED
    BY ONLY <2>3, <2>4
<1>8. PICK w : /\ w[0] = [remaining |-> quantity, cost |-> 0]
               /\ \A k \in 1..n : w[k] = TakeLevel(w[k - 1], depth[k])
               /\ WalkTheBook(quantity, depth) =
                     IF depth = <<>> THEN 0
                     ELSE IF quantity - w[n].remaining <= 0 THEN Head(depth).price
                     ELSE w[n].cost \div (quantity - w[n].remaining)
  BY WalkIsALoop
<1>9. depth # <<>>
  <2>1. depth = <<>> => n = 0
    OBVIOUS
  <2>2. n # 0
    <3> HIDE DEF O, n
    <3> QED
      BY <1>1, <1>4
  <2> QED
    BY <2>1, <2>2
<1> DEFINE T == {k \in Nat : k <= n => w[k] = [remaining |-> quantity - m(k), cost |-> S(m(k))]}
<1>10. ASSUME NEW k \in 0..n PROVE m(k) \in Nat /\ m(k) <= units /\ S(m(k)) \in Int
  <2>1. O[k] \in Nat /\ O[n] \in Nat /\ O[k] <= O[n]
    BY <1>1, <1>2
  <2>2. m(k) \in Nat /\ m(k) <= units
    <3> HIDE DEF O, n
    <3> QED
      BY <1>4, <2>1
  <2> DEFINE l == m(k)
  <2>3. l \in Nat /\ l <= units
    BY <2>2
  <2> HIDE DEF l, U, O
  <2>4. IsFiniteSet(1..l) /\ \A u \in 1..l : U[u] \in Int
    <3>1. l \in Int
      BY <2>3
    <3>2. IsFiniteSet(1..l)
      BY ONLY <3>1, FS_Interval
    <3>3. \A u \in 1..l : u \in 1..units
      BY ONLY <1>4, <2>3
    <3> QED
      BY <1>7, <3>2, <3>3
  <2>5. S(l) \in Int
    BY <2>4, SumIsAnInteger
  <2> QED
    BY <2>3, <2>5 DEF l
<1>11. 0 \in T
  <2>1. m(0) = 0 /\ 1..0 = {} /\ quantity - 0 = quantity
    <3> HIDE DEF O, n
    <3> QED
      BY <1>1
  <2>2. S(0) = 0
    BY <2>1, SumOfNone
  <2> HIDE DEF S, m
  <2> QED
    BY <1>8, <2>1, <2>2
<1>12. ASSUME NEW k \in Nat, k \in T PROVE k + 1 \in T
  <2> SUFFICES ASSUME k + 1 <= n
               PROVE  w[k + 1] = [remaining |-> quantity - m(k + 1), cost |-> S(m(k + 1))]
    OBVIOUS
  <2> DEFINE p == depth[k + 1].price
             z == depth[k + 1].size
             a == m(k)
             b == m(k + 1)
             t == Min({quantity - a, z})
  <2>1. /\ k + 1 \in 1..n /\ k \in 0..n /\ k + 1 \in 0..n /\ (k + 1) - 1 = k
    BY <1>1
  <2>2. p \in Nat /\ z \in Nat /\ O[k + 1] = O[k] + z /\ O[k] \in Nat
    <3> HIDE DEF O, n
    <3> QED
      BY <1>1, <2>1
  <2>3. a \in Nat /\ b \in Nat /\ b <= units /\ S(a) \in Int /\ S(b) \in Int
    <3> HIDE DEF O, n, m, S
    <3> QED
      BY <1>10, <2>1
  <2>4. w[k] = [remaining |-> quantity - a, cost |-> S(a)]
    BY <1>12, <2>1
  <2>5. a <= quantity /\ t \in Int /\ a + t = b /\ a <= b
    <3>1. a <= quantity
      <4> HIDE DEF O
      <4> QED
        BY <2>2
    <3>2. t = IF quantity - a <= z THEN quantity - a ELSE z
      <4>1. quantity - a \in Int /\ z \in Int
        BY <2>2, <2>3
      <4> HIDE DEF a, z
      <4> QED
        BY <4>1, SmallestOfTwo
    <3> HIDE DEF O, t, z
    <3> QED
      BY <2>2, <3>1, <3>2
  <2>6. S(b) = S(a) + (b - a) * p
    <3>1. \A u \in 1..b : U[u] \in Int
      <4> HIDE DEF b, U
      <4> QED
        BY <1>4, <1>7, <2>3
    <3>2. ASSUME NEW u \in a + 1 .. b PROVE U[u] = p
      <4>1. u \in Nat /\ u <= units /\ a < u /\ u <= b
        <5> HIDE DEF a, b
        <5> QED
          BY <1>4, <2>3
      <4>2. O[k] < u /\ u <= O[k + 1]
        <5> HIDE DEF O, z
        <5> QED
          BY <2>2, <4>1
      <4> HIDE DEF O, U, n, a, b
      <4> QED
        BY <1>3, <2>1, <4>1, <4>2 DEF p
    <3> HIDE DEF U, a, b, p
    <3>3. \A u \in a + 1 .. b : U[u] = p
      BY <3>2
    <3>4. a \in Nat /\ b \in Nat /\ a <= b /\ p \in Int
      BY <2>2, <2>3, <2>5
    <3> QED
      BY ONLY <3>1, <3>3, <3>4, SumGoesOn
  <2>7. w[k + 1] = TakeLevel(w[k], depth[k + 1])
    BY <1>8, <2>1
  <2>8. TakeLevel(w[k], depth[k + 1])
          = [remaining |-> (quantity - a) - t, cost |-> S(a) + t * p]
    <3> HIDE DEF a, S
    <3> QED
      BY <2>4 DEF TakeLevel
  <2>9. (quantity - a) - t = quantity - b /\ t = b - a
    <3> HIDE DEF a, b, t
    <3> QED
      BY <2>3, <2>5
  <2> HIDE DEF a, b, t, S, p
  <2>10. w[k + 1] = [remaining |-> quantity - b, cost |-> S(b)]
    BY <2>6, <2>7, <2>8, <2>9
  <2> QED
    BY <2>10 DEF b
<1>13. w[n] = [remaining |-> quantity - units, cost |-> S(units)]
  <2> HIDE DEF T
  <2>1. Nat \subseteq T
    BY ONLY <1>11, <1>12, Induct
  <2>2. n \in T
    BY <1>1, <2>1
  <2> USE DEF T
  <2>3. w[n] = [remaining |-> quantity - m(n), cost |-> S(m(n))]
    <3> HIDE DEF m, S, n
    <3> QED
      BY <1>1, <2>2
  <2> HIDE DEF m, S
  <2> QED
    BY <1>4, <2>3
<1>14. quantity - w[n].remaining = units /\ w[n].cost = S(units) /\ ~ (units <= 0)
  <2>1. w[n].remaining = quantity - units /\ w[n].cost = S(units)
    BY <1>13
  <2> HIDE DEF S, n
  <2> QED
    BY <1>4, <2>1
<1> HIDE DEF S, U, n
<1>15. WalkTheBook(quantity, depth) = S(units) \div units
  BY <1>8, <1>9, <1>14
<1> QED
  BY <1>5, <1>15 DEF U

LEMMA OrderIs ==
    ASSUME NEW order \in Orders
    PROVE  /\ order.quantity \in Nat \ {0} /\ order.depth \in BookDepth
           /\ FillPrice(order) \in Nat \ {0} /\ Notional(order) \in Nat \ {0}
<1>1. /\ order.quantity \in Quantities /\ FillPrice(order) \in Prices
      /\ order.depth \in BookDepth
  BY AnalyticsAssumption DEF AnalyticsAssumption, BookDepth
<1>2. order.quantity \in Nat \ {0} /\ FillPrice(order) \in Nat \ {0}
  BY <1>1, LedgerBounds
<1>3. Notional(order) = order.quantity * FillPrice(order)
  BY DEF Notional
<1>4. \A a \in Nat \ {0}, b \in Nat \ {0} : a * b \in Nat \ {0}
  OBVIOUS
<1> QED
  BY <1>1, <1>2, <1>3, <1>4

LEMMA PriceFollowsTheBook ==
    ASSUME NEW order \in Orders, ~(IsMaker(order) /\ order.limit # NoLimit),
           NEW units, units = Min({order.quantity, Offered(order.depth, Len(order.depth))}),
           units > 0
    PROVE  FillPrice(order)
             = SumFunction([n \in 1..units |-> UnitPrice(order.depth, n)]) \div units
<1>1. order.quantity \in Nat /\ order.depth \in BookDepth /\ order.quantity > 0
  BY OrderIs
<1>2. order.depth # <<>>
  <2> SUFFICES ASSUME order.depth = <<>> PROVE FALSE
    OBVIOUS
  <2>1. Len(order.depth) = 0
    OBVIOUS
  <2>2. Offered(order.depth, Len(order.depth)) = 0
    BY <1>1, <2>1, OfferedGrows
  <2>3. Min({order.quantity, 0}) = 0
    BY <1>1, SmallestOfTwo
  <2> QED
    BY <2>2, <2>3
<1>3. FillPrice(order) = WalkTheBook(order.quantity, order.depth)
  BY <1>2 DEF FillPrice
<1>4. WalkTheBook(order.quantity, order.depth)
        = SumFunction([u \in 1..units |-> UnitPrice(order.depth, u)]) \div units
  BY <1>1, WalkPaysByTheUnit
<1> QED
  BY <1>3, <1>4

\* The more is traded, the later the tier, and the lower its rates.
LEMMA TiersFall ==
    ASSUME NEW v \in Nat, NEW x \in Nat, v <= x
    PROVE  TierOf(x).maker <= TierOf(v).maker /\ TierOf(x).taker <= TierOf(v).taker
<1> DEFINE n == Len(Tiers)
           Under(y) == {i \in DOMAIN Tiers : y < Tiers[i].below}
           At(y) == IF Under(y) # {} THEN Min(Under(y)) ELSE n
<1>1. Tiers \in Seq([below : Nat, maker : Nat, taker : Nat]) /\ Tiers # <<>>
  BY FillSimulatorAssumption DEF FillSimulatorAssumption
<1>2. n \in Nat /\ n > 0 /\ DOMAIN Tiers = 1..n
  BY <1>1
<1>3. \A i \in 1..n : Tiers[i].below \in Nat /\ Tiers[i].maker \in Nat /\ Tiers[i].taker \in Nat
  <2> DEFINE Tier == [below : Nat, maker : Nat, taker : Nat]
  <2>1. Tiers \in Seq(Tier) /\ \A t \in Tier : t.below \in Nat /\ t.maker \in Nat /\ t.taker \in Nat
    BY <1>1
  <2> HIDE DEF Tier
  <2> QED
    BY <2>1
<1>4. \A i, j \in 1..n :
         i < j => Tiers[j].maker <= Tiers[i].maker /\ Tiers[j].taker <= Tiers[i].taker
  BY <1>2, FillSimulatorAssumption DEF FillSimulatorAssumption
<1>5. ASSUME NEW y \in Nat
      PROVE  /\ TierOf(y) = Tiers[At(y)] /\ At(y) \in 1..n
             /\ \A i \in Under(y) : At(y) <= i
             /\ Under(y) # {} => At(y) \in Under(y)
  <2>1. CASE Under(y) = {}
    <3>1. TierOf(y) = Tiers[n]
      <4>1. ~ \E i \in DOMAIN Tiers : y < Tiers[i].below
        BY <2>1
      <4> QED
        BY <4>1 DEF TierOf, Last
    <3> QED
      BY <1>2, <2>1, <3>1
  <2>2. CASE Under(y) # {}
    <3> DEFINE T == Under(y)
    <3>1. T \in SUBSET Nat /\ T # {} /\ T \subseteq 1..n
      BY <1>2, <2>2
    <3>2. TierOf(y) = Tiers[Min(T)]
      <4>1. \E i \in DOMAIN Tiers : y < Tiers[i].below
        BY <2>2
      <4> QED
        BY <4>1 DEF TierOf
    <3>3. At(y) = Min(T)
      BY <2>2
    <3> HIDE DEF T
    <3>4. \E a \in T : \A b \in T : a <= b
      BY ONLY <3>1, Least
    <3>5. Min(T) \in T /\ \A b \in T : Min(T) <= b
      BY <3>4 DEF Min
    <3> HIDE DEF n
    <3>6. Min(T) \in 1..n
      BY <3>1, <3>5
    <3> QED
      BY <3>2, <3>3, <3>5, <3>6 DEF T
  <2> QED
    BY <2>1, <2>2
<1>6. At(v) <= At(x)
  <2>1. CASE Under(x) = {}
    <3>1. At(x) = n
      BY <2>1
    <3>2. At(v) \in 1..n
      BY <1>5
    <3> HIDE DEF At, n
    <3> QED
      BY <1>2, <3>1, <3>2
  <2>2. CASE Under(x) # {}
    <3>1. At(x) \in Under(x)
      BY <1>5, <2>2
    <3>2. At(x) \in Under(v)
      <4>1. At(x) \in 1..n /\ x < Tiers[At(x)].below
        BY <1>2, <3>1
      <4>2. v < Tiers[At(x)].below
        <5> DEFINE b == Tiers[At(x)].below
        <5>1. b \in Nat /\ x < b
          BY <1>3, <4>1
        <5> HIDE DEF b
        <5>2. v < b
          BY <5>1
        <5> QED
          BY <5>2 DEF b
      <4> HIDE DEF At
      <4> QED
        BY <1>2, <4>1, <4>2
    <3> QED
      BY <1>5, <3>2
  <2> QED
    BY <2>1, <2>2
<1>7. /\ At(v) \in 1..n /\ TierOf(v) = Tiers[At(v)]
      /\ At(x) \in 1..n /\ TierOf(x) = Tiers[At(x)]
  BY <1>5
<1> HIDE DEF At
<1>8. Tiers[At(x)].maker <= Tiers[At(v)].maker /\ Tiers[At(x)].taker <= Tiers[At(v)].taker
  <2>1. CASE At(v) = At(x)
    BY <1>3, <1>7, <2>1
  <2>2. CASE At(v) < At(x)
    BY <1>4, <1>7, <2>2
  <2> HIDE DEF n
  <2> QED
    BY <1>2, <1>6, <1>7, <2>1, <2>2
<1> QED
  BY <1>7, <1>8

\* The rate that the schedule has for an order that makes, or that takes.
RateAt(maker, v) ==
    IF FixedRate # Tiered THEN FixedRate
    ELSE IF maker THEN TierOf(v).maker ELSE TierOf(v).taker

PaidRate(order, fill) == (fill.fee * RateUnit) \div Notional(order)

\* The inductive invariant.
OrdersFilled ==
    /\ volume \in Nat /\ Len(orders) = Len(fills) /\ orders \in Seq(Orders)
    /\ \A i \in 1..Len(orders) :
          /\ fills[i].price = FillPrice(orders[i])
          /\ PaidRate(orders[i], fills[i]) \in Int
          /\ PaidRate(orders[i], fills[i]) >= RateAt(IsMaker(orders[i]), volume)
    /\ RatesNeverRise

LEMMA RateAtIs ==
    ASSUME NEW v \in Nat, NEW maker \in BOOLEAN PROVE RateAt(maker, v) \in Int
<1>1. PICK i \in DOMAIN Tiers : TierOf(v) = Tiers[i]
  BY TierIsATier
<1>2. Tiers[i].maker \in Int /\ Tiers[i].taker \in Int
  <2> DEFINE Tier == [below : Nat, maker : Nat, taker : Nat]
  <2>1. Tiers \in Seq(Tier) /\ \A t \in Tier : t.maker \in Int /\ t.taker \in Int
    BY FillSimulatorAssumption DEF FillSimulatorAssumption
  <2> HIDE DEF Tier
  <2> QED
    BY <2>1
<1>3. FixedRate \in Int
  BY FillSimulatorAssumption DEF FillSimulatorAssumption, Tiered
<1> QED
  BY <1>1, <1>2, <1>3 DEF RateAt

LEMMA RatesFall ==
    ASSUME NEW v \in Nat, NEW x \in Nat, v <= x, NEW maker \in BOOLEAN
    PROVE  RateAt(maker, x) <= RateAt(maker, v)
<1>1. TierOf(x).maker <= TierOf(v).maker /\ TierOf(x).taker <= TierOf(v).taker
  BY TiersFall
<1>2. FixedRate \in Int
  BY FillSimulatorAssumption DEF FillSimulatorAssumption, Tiered
<1> QED
  BY <1>1, <1>2 DEF RateAt

LEMMA FeeIsExact ==
    ASSUME NEW order \in Orders, NEW rate \in Rates, rate \in Int
    PROVE  (Fee(order, rate) * RateUnit) \div Notional(order) = rate
<1> DEFINE n == Notional(order)
<1>1. Fee(order, rate) * RateUnit = n * rate
  BY AnalyticsAssumption DEF AnalyticsAssumption
<1>2. n \in Nat \ {0}
  BY OrderIs
<1> HIDE DEF n
<1>3. (n * rate) \div n = rate
  BY <1>2, DivisionOfMultiple
<1> QED
  BY <1>1, <1>3 DEF n

LEMMA PaysTheRate ==
    ASSUME NEW order \in Orders, volume \in Nat
    PROVE  PaidRate(order, SimulatedFill(order)) = RateAt(IsMaker(order), volume)
<1> DEFINE r == FeeRate(order)
<1>1. r = RateAt(IsMaker(order), volume) /\ IsMaker(order) \in BOOLEAN
  BY DEF FeeRate, RateAt, IsMaker
<1>2. r \in Rates /\ r \in Int
  BY <1>1, RateIsOfTheSchedule, RateAtIs
<1>3. SimulatedFill(order).fee = Fee(order, r)
  BY DEF SimulatedFill
<1> HIDE DEF r
<1>4. (Fee(order, r) * RateUnit) \div Notional(order) = r
  BY <1>2, FeeIsExact
<1> QED
  BY <1>1, <1>3, <1>4 DEF PaidRate

LEMMA RatesAre ==
    RatesNeverRise <=>
        \A i \in DOMAIN orders : \A j \in DOMAIN orders :
            i < j /\ IsMaker(orders[i]) = IsMaker(orders[j])
                => PaidRate(orders[j], fills[j]) <= PaidRate(orders[i], fills[i])
BY Zenon DEF RatesNeverRise, PaidRate

LEMMA ExecuteFills ==
    ASSUME Ledgers, OrdersFilled, NEW order \in Orders, Execute(order)
    PROVE  OrdersFilled'
<1> DEFINE n == Len(orders)
           f == SimulatedFill(order)
           paid == [i \in 1..n + 1 |-> PaidRate(orders'[i], fills'[i])]
           maker == [i \in 1..n + 1 |-> IsMaker(orders'[i])]
<1>1. /\ fills' = Append(fills, f) /\ orders' = Append(orders, order)
      /\ volume' = volume + Notional(order)
  BY DEF Execute, ProcessFill, CountVolume
<1>2. f \in Fills /\ f.price = FillPrice(order)
  BY SimulatedIsAFill DEF SimulatedFill
<1>3. Notional(order) \in Nat /\ volume \in Nat /\ volume' \in Nat /\ volume <= volume'
  <2>1. Notional(order) \in Nat /\ volume \in Nat
    BY OrderIs DEF OrdersFilled
  <2> QED
    BY <1>1, <2>1
<1>4. PaidRate(order, f) = RateAt(IsMaker(order), volume)
  BY <1>3, PaysTheRate
<1> HIDE DEF f
<1>5. fills \in Seq(Fills)
  BY DEF Ledgers, LedgerTypes
<1>6. /\ n \in Nat /\ orders' \in Seq(Orders) /\ Len(orders') = n + 1 /\ Len(fills') = n + 1
      /\ \A i \in 1..n : i \in 1..n + 1 /\ fills'[i] = fills[i] /\ orders'[i] = orders[i]
      /\ n + 1 \in 1..n + 1 /\ fills'[n + 1] = f /\ orders'[n + 1] = order
  <2>1. orders \in Seq(Orders) /\ Len(orders) = Len(fills)
    BY DEF OrdersFilled
  <2> QED
    BY <1>1, <1>2, <1>5, <2>1
<1>7. \A i \in 1..n + 1 : maker[i] \in BOOLEAN
  BY DEF IsMaker
<1>8. \A i \in 1..n : /\ paid[i] = PaidRate(orders[i], fills[i])
                      /\ maker[i] = IsMaker(orders[i])
  BY <1>6
<1>9. paid[n + 1] = RateAt(maker[n + 1], volume)
  BY <1>4, <1>6
<1>10. \A i \in 1..n : /\ paid[i] \in Int /\ paid[i] >= RateAt(maker[i], volume)
                       /\ fills[i].price = FillPrice(orders[i])
  <2>1. \A i \in 1..n : /\ PaidRate(orders[i], fills[i]) \in Int
                        /\ PaidRate(orders[i], fills[i]) >= RateAt(IsMaker(orders[i]), volume)
                        /\ fills[i].price = FillPrice(orders[i])
    BY DEF OrdersFilled
  <2> HIDE DEF n, paid, maker
  <2> QED
    BY <1>8, <2>1
<1>11. \A i, j \in 1..n : i < j /\ maker[i] = maker[j] => paid[j] <= paid[i]
  <2>1. DOMAIN orders = 1..n
    BY DEF OrdersFilled
  <2>2. \A i \in 1..n : \A j \in 1..n :
            i < j /\ IsMaker(orders[i]) = IsMaker(orders[j])
                => PaidRate(orders[j], fills[j]) <= PaidRate(orders[i], fills[i])
    BY <2>1, RatesAre DEF OrdersFilled
  <2> HIDE DEF n, paid, maker
  <2> QED
    BY <1>8, <2>2
<1>12. \A i \in 1..n + 1 : /\ PaidRate(orders'[i], fills'[i]) = paid[i]
                           /\ IsMaker(orders'[i]) = maker[i]
  OBVIOUS
<1>13. \A i \in 1..n + 1 : i \in 1..n \/ i = n + 1
  BY <1>6
<1> HIDE DEF n, paid, maker
<1>14. \A m \in BOOLEAN : /\ RateAt(m, volume) \in Int /\ RateAt(m, volume') \in Int
                          /\ RateAt(m, volume') <= RateAt(m, volume)
  BY <1>3, RateAtIs, RatesFall
<1>15. ASSUME NEW i \in 1..n + 1
       PROVE  /\ fills'[i].price = FillPrice(orders'[i])
              /\ paid[i] \in Int /\ paid[i] >= RateAt(maker[i], volume')
  <2>1. fills'[i].price = FillPrice(orders'[i])
    BY <1>2, <1>6, <1>10, <1>13
  <2>2. paid[i] \in Int /\ paid[i] >= RateAt(maker[i], volume)
    BY <1>7, <1>9, <1>10, <1>13, <1>14
  <2>3. /\ RateAt(maker[i], volume) \in Int /\ RateAt(maker[i], volume') \in Int
        /\ RateAt(maker[i], volume') <= RateAt(maker[i], volume)
    BY <1>7, <1>14
  <2> QED
    BY <2>1, <2>2, <2>3
<1>16. ASSUME NEW i \in 1..n + 1, NEW j \in 1..n + 1, i < j, maker[i] = maker[j]
       PROVE  paid[j] <= paid[i]
  <2>1. i \in 1..n
    BY <1>6, <1>13, <1>16
  <2>2. CASE j \in 1..n
    BY <1>11, <1>16, <2>1, <2>2
  <2>3. CASE j = n + 1
    BY <1>9, <1>10, <1>16, <2>1, <2>3
  <2> QED
    BY <1>13, <2>2, <2>3
<1>17. RatesNeverRise'
  <2>1. DOMAIN orders' = 1..n + 1
    BY <1>6
  <2>2. \A i \in 1..n + 1 : \A j \in 1..n + 1 :
            i < j /\ IsMaker(orders'[i]) = IsMaker(orders'[j])
                => PaidRate(orders'[j], fills'[j]) <= PaidRate(orders'[i], fills'[i])
    BY <1>12, <1>16
  <2> QED
    BY Zenon, <2>1, <2>2 DEF RatesNeverRise, PaidRate
<1>18. \A i \in 1..n + 1 : /\ PaidRate(orders'[i], fills'[i]) \in Int
                           /\ PaidRate(orders'[i], fills'[i])
                                >= RateAt(IsMaker(orders'[i]), volume')
  BY <1>12, <1>15
<1> QED
  BY <1>3, <1>6, <1>15, <1>17, <1>18 DEF OrdersFilled

LEMMA OrdersFilledHolds == TradingSpec => []OrdersFilled
<1>1. TradingInit => OrdersFilled
  BY DEF TradingInit, LedgerInit, SimulatorInit, OrdersFilled, RatesNeverRise
<1>2. Ledgers /\ OrdersFilled /\ [TradingNext]_tradingVars => OrdersFilled'
  <2> SUFFICES ASSUME Ledgers, OrdersFilled, [TradingNext]_tradingVars PROVE OrdersFilled'
    OBVIOUS
  <2>1. ASSUME NEW order \in Orders, Execute(order) PROVE OrdersFilled'
    BY <2>1, ExecuteFills
  <2>2. CASE UNCHANGED <<fills, orders, volume>>
    BY <2>2 DEF OrdersFilled, RatesNeverRise
  <2>3. (HandlePrices \/ Read) /\ UNCHANGED <<volume, orders>> => UNCHANGED <<fills, orders, volume>>
    BY DEF HandlePrices, HandleTrade, HandleSignal, Read, ReadTab, SendWorkbook, bookVars
  <2>4. UNCHANGED tradingVars => UNCHANGED <<fills, orders, volume>>
    BY DEF bookVars, tradingVars, ledgerVars
  <2> QED
    BY <2>1, <2>2, <2>3, <2>4 DEF TradingNext
<1> QED
  BY <1>1, <1>2, LedgersHold, PTL DEF TradingSpec

(* OrdersPayTheirPrice: whatever is filled, an order pays the average of   *)
(* the best units of its book, or its limit, and no later order of a kind  *)
(* pays a higher rate than an earlier one, for every book, whatever        *)
(* schedule whose rates do not rise with the volume, and fees that come    *)
(* out exact in the unit that they are counted in.                         *)
THEOREM OrdersDoPayTheirPrice == TradingSpec => []OrdersPayTheirPrice
<1>1. ASSUME OrdersFilled PROVE OrdersPayTheirPrice
  <2>1. ASSUME NEW i \in DOMAIN orders
        PROVE  LET order == orders[i]
                   units == Min({order.quantity, Offered(order.depth, Len(order.depth))})
                   paid  == SumFunction([n \in 1..units |-> UnitPrice(order.depth, n)])
                   limited == IsMaker(order) /\ order.limit # NoLimit
               IN  /\ limited => fills[i].price = order.limit
                   /\ ~limited /\ units > 0 => fills[i].price = paid \div units
                   /\ ~limited => EnginePrice(order) = fills[i].price
    <3>1. orders[i] \in Orders /\ fills[i].price = FillPrice(orders[i])
      BY <1>1 DEF OrdersFilled
    <3>2. PICK order \in Orders : order = orders[i]
      BY <3>1
    <3> DEFINE units == Min({order.quantity, Offered(order.depth, Len(order.depth))})
               paid  == SumFunction([n \in 1..units |-> UnitPrice(order.depth, n)])
               limited == IsMaker(order) /\ order.limit # NoLimit
    <3>3. limited => FillPrice(order) = order.limit
      BY DEF FillPrice
    <3>4. ~limited => FillPrice(order) = EnginePrice(order)
      BY DEF FillPrice, EnginePrice
    <3>5. ~limited /\ units > 0 => FillPrice(order) = paid \div units
      BY PriceFollowsTheBook
    <3> QED
      BY <3>1, <3>2, <3>3, <3>4, <3>5
  <2>2. FillsFollowTheBook
    BY <2>1 DEF FillsFollowTheBook
  <2> QED
    BY <1>1, <2>2 DEF OrdersPayTheirPrice, OrdersFilled
<1> QED
  BY <1>1, OrdersFilledHolds, PTL

-----------------------------------------------------------------------------
(* The walks of a backtest over its fills.                                 *)

\* A fold over a sequence is a loop that takes one element after the other.

LEMMA OfSymbolIsALoop ==
    ASSUME NEW S, NEW filled \in Seq(S), NEW sym
    PROVE  \E w : /\ w[0] = <<>>
                  /\ \A k \in 1..Len(filled) :
                        w[k] = IF filled[k].symbol = sym THEN Append(w[k - 1], filled[k])
                               ELSE w[k - 1]
                  /\ OfSymbol(filled, sym) = w[Len(filled)]
<1> DEFINE n == Len(filled)
           R == Seq(S)
           One(own, f) == IF f.symbol = sym THEN Append(own, f) ELSE own
           turn == [p \in (1..n) \X R |-> One(p[2], filled[p[1]])]
           Is(F) == F = [s \in SUBSET DOMAIN filled |->
                            IF s = {} THEN <<>> ELSE One(F[s \ {Max(s)}], filled[Max(s)])]
           G == CHOOSE F : Is(F)
<1>1. n \in Nat /\ DOMAIN filled = 1..n /\ \A k \in 1..n : filled[k] \in S
  OBVIOUS
<1>2. turn \in [(1..n) \X R -> R] /\ <<>> \in R
  BY <1>1
<1>3. \E F : Is(F)
  <2>1. PICK F \in [SUBSET (1..n) -> R] : IsFold(F, <<>>, turn, n)
    <3> HIDE DEF turn, n, R
    <3>1. Folded(<<>>, turn, R, n)
      BY ONLY <1>1, <1>2, FoldExists
    <3> QED
      BY ONLY <3>1 DEF Folded
  <2>2. ASSUME NEW s \in SUBSET (1..n), s # {}
        PROVE  F[s] = One(F[s \ {Max(s)}], filled[Max(s)])
    <3>1. Max(s) \in 1..n /\ s \ {Max(s)} \in SUBSET (1..n)
      BY <1>1, <2>2, LastOfSome
    <3>2. <<Max(s), F[s \ {Max(s)}]>> \in (1..n) \X R
      BY <3>1
    <3>3. F[s] = turn[<<Max(s), F[s \ {Max(s)}]>>]
      <4> HIDE DEF turn
      <4> QED
        BY <2>1, <2>2 DEF IsFold
    <3> QED
      BY <3>2, <3>3
  <2>3. F[{}] = <<>>
    <3> HIDE DEF turn
    <3> QED
      BY <2>1 DEF IsFold
  <2>4. Is(F)
    BY <1>1, <2>2, <2>3
  <2> QED
    BY <2>4
<1>4. Is(G)
  BY <1>3
<1>5. OfSymbol(filled, sym) = G[DOMAIN filled]
  BY DEF OfSymbol, FoldLeft, MapThenFoldSet
<1>6. PICK H : H = G
  OBVIOUS
<1> DEFINE w == [k \in 0..n |-> H[1..k]]
<1>7. w[0] = <<>>
  <2>1. 1..0 = {} /\ 0 \in 0..n /\ {} \in SUBSET DOMAIN filled
    BY <1>1
  <2> HIDE DEF G, n
  <2> QED
    BY <1>4, <1>6, <2>1
<1>8. ASSUME NEW k \in 1..n PROVE w[k] = One(w[k - 1], filled[k])
  <2>1. /\ 1..k # {} /\ 1..k \in SUBSET DOMAIN filled /\ k \in 0..n /\ k - 1 \in 0..n
        /\ Max(1..k) = k /\ (1..k) \ {k} = 1..(k - 1)
    BY <1>1, FirstOnes
  <2> HIDE DEF G, n
  <2>2. H[1..k] = One(H[(1..k) \ {Max(1..k)}], filled[Max(1..k)])
    BY <1>4, <1>6, <2>1
  <2> HIDE DEF One
  <2> QED
    BY <2>1, <2>2
<1>9. OfSymbol(filled, sym) = w[n]
  <2>1. n \in 0..n
    BY <1>1
  <2> HIDE DEF G, n
  <2> QED
    BY <1>1, <1>5, <1>6, <2>1
<1> HIDE DEF w
<1> QED
  BY <1>7, <1>8, <1>9

Results == [position : Int, entry : Int, realized : Int, wins : Int]

LEMMA WalkedIsARun ==
    ASSUME NEW run \in Results, NEW f \in Fills, NEW cost \in Int
    PROVE  Walked(run, f, cost) \in Results /\ Gain(run, f) \in Int
<1>1. /\ run.position \in Int /\ run.entry \in Int /\ run.realized \in Int /\ run.wins \in Int
      /\ Change(f) \in Int /\ Change(f) # 0 /\ f.price \in Int /\ f.fee \in Int
      /\ f.quantity \in Int
  BY ChangeIs, LedgerBounds DEF Results, Fills
<1>2. Size(run.position) \in Nat /\ Size(Change(f)) \in Nat /\ Size(Change(f)) > 0
  BY <1>1 DEF Size
<1>3. Gain(run, f) \in Int
  <2> DEFINE m == Min({f.quantity, Size(run.position)})
  <2>1. m \in Int
    BY <1>1, <1>2, SmallestOfTwo
  <2>2. Gain(run, f) = IF run.position * Change(f) >= 0 THEN 0
                       ELSE m * (f.price - run.entry) * (IF run.position > 0 THEN 1 ELSE -1)
    BY DEF Gain
  <2> HIDE DEF m
  <2>3. m * (f.price - run.entry) \in Int
    BY <1>1, <2>1
  <2> QED
    BY <2>2, <2>3
<1>4. Entry(run, f) \in Int
  <2> DEFINE a == run.entry * Size(run.position) + f.price * Size(Change(f))
             d == Size(run.position) + Size(Change(f))
  <2>1. a \in Int /\ d \in Nat \ {0}
    BY <1>1, <1>2
  <2>2. Average(run.position, run.entry, Change(f), f.price) = a \div d
    BY DEF Average
  <2> HIDE DEF a, d
  <2>3. a \div d \in Int
    BY <2>1, Division
  <2> QED
    BY <1>1, <2>2, <2>3 DEF Entry
<1> QED
  BY <1>1, <1>3, <1>4 DEF Walked, Results

LEMMA CostsAre ==
    ASSUME NEW f \in Fills PROVE f.slip \in Int /\ f.fee + f.slip \in Int
<1>1. f.fee \in Int /\ f.slip \in Int
  BY ChangeIs DEF Fills
<1> QED
  BY <1>1

LEMMA SymbolMetricsIsALoop ==
    ASSUME NEW filled \in Seq(Fills)
    PROVE  \E w : /\ w[0] = Untouched
                  /\ \A k \in 1..Len(filled) :
                        w[k] = Walked(w[k - 1], filled[k], filled[k].fee)
                  /\ \A k \in 0..Len(filled) : w[k] \in Results
                  /\ SymbolMetrics(filled) = w[Len(filled)]
<1> DEFINE n == Len(filled)
           One(run, f) == Walked(run, f, f.fee)
           turn == [p \in (1..n) \X Results |-> One(p[2], filled[p[1]])]
           Is(F) == F = [s \in SUBSET DOMAIN filled |->
                            IF s = {} THEN Untouched ELSE One(F[s \ {Max(s)}], filled[Max(s)])]
           G == CHOOSE F : Is(F)
<1>1. n \in Nat /\ DOMAIN filled = 1..n /\ \A k \in 1..n : filled[k] \in Fills
  OBVIOUS
<1>2. \A run \in Results : \A k \in 1..n : One(run, filled[k]) \in Results
  BY <1>1, ChangeIs, WalkedIsARun
<1>3. turn \in [(1..n) \X Results -> Results] /\ Untouched \in Results
  <2>1. Untouched \in Results
    BY DEF Untouched, Results
  <2> HIDE DEF One
  <2> QED
    BY <1>2, <2>1
<1>4. \E F : Is(F)
  <2>1. PICK F \in [SUBSET (1..n) -> Results] : IsFold(F, Untouched, turn, n)
    <3> HIDE DEF turn, n
    <3>1. Folded(Untouched, turn, Results, n)
      BY ONLY <1>1, <1>3, FoldExists
    <3> QED
      BY ONLY <3>1 DEF Folded
  <2> HIDE DEF One
  <2>2. ASSUME NEW s \in SUBSET (1..n), s # {}
        PROVE  F[s] = One(F[s \ {Max(s)}], filled[Max(s)])
    <3>1. Max(s) \in 1..n /\ s \ {Max(s)} \in SUBSET (1..n)
      BY <1>1, <2>2, LastOfSome
    <3>2. <<Max(s), F[s \ {Max(s)}]>> \in (1..n) \X Results
      BY <3>1
    <3>3. F[s] = turn[<<Max(s), F[s \ {Max(s)}]>>]
      <4> HIDE DEF turn
      <4> QED
        BY <2>1, <2>2 DEF IsFold
    <3> QED
      BY <3>2, <3>3
  <2>3. F[{}] = Untouched
    <3> HIDE DEF turn
    <3> QED
      BY <2>1 DEF IsFold
  <2>4. Is(F)
    BY <1>1, <2>2, <2>3
  <2> QED
    BY <2>4
<1>5. Is(G)
  BY <1>4
<1>6. SymbolMetrics(filled) = G[DOMAIN filled]
  BY DEF SymbolMetrics, FoldLeft, MapThenFoldSet
<1> HIDE DEF One
<1>7. PICK H : H = G
  OBVIOUS
<1> DEFINE w == [k \in 0..n |-> H[1..k]]
<1>8. w[0] = Untouched
  <2>1. 1..0 = {} /\ 0 \in 0..n /\ {} \in SUBSET DOMAIN filled
    BY <1>1
  <2> HIDE DEF G, n
  <2> QED
    BY <1>5, <1>7, <2>1
<1>9. ASSUME NEW k \in 1..n PROVE w[k] = One(w[k - 1], filled[k])
  <2>1. /\ 1..k # {} /\ 1..k \in SUBSET DOMAIN filled /\ k \in 0..n /\ k - 1 \in 0..n
        /\ Max(1..k) = k /\ (1..k) \ {k} = 1..(k - 1)
    BY <1>1, FirstOnes
  <2> HIDE DEF G, n
  <2>2. H[1..k] = One(H[(1..k) \ {Max(1..k)}], filled[Max(1..k)])
    BY <1>5, <1>7, <2>1
  <2> QED
    BY <2>1, <2>2
<1>10. SymbolMetrics(filled) = w[n]
  <2>1. n \in 0..n
    BY <1>1
  <2> HIDE DEF G, n
  <2> QED
    BY <1>1, <1>6, <1>7, <2>1
<1> HIDE DEF w, n
<1>11. \A k \in 0..n : w[k] \in Results
  <2> DEFINE T == {k \in 0..n : w[k] \in Results}
  <2>1. 0 \in T
    BY <1>1, <1>3, <1>8
  <2>2. ASSUME NEW k \in 1..n, k - 1 \in T PROVE k \in T
    <3>1. w[k - 1] \in Results /\ k \in 0..n
      BY <1>1, <2>2
    <3>2. One(w[k - 1], filled[k]) \in Results
      BY <1>2, <3>1
    <3> QED
      BY <1>9, <3>1, <3>2
  <2> HIDE DEF T
  <2>3. \A k \in 0..n : k \in T
    BY ONLY <1>1, <2>1, <2>2, Turns
  <2> QED
    BY <2>3 DEF T
<1> USE DEF One
<1> QED
  BY <1>8, <1>9, <1>10, <1>11 DEF n

LEMMA MetricsFromFillsIsALoop ==
    ASSUME NEW filled \in Seq(Fills)
    PROVE  \E w : /\ w[0] = Untouched
                  /\ \A k \in 1..Len(filled) :
                        w[k] = Walked(w[k - 1], filled[k], filled[k].fee + filled[k].slip)
                  /\ \A k \in 0..Len(filled) : w[k] \in Results
                  /\ MetricsFromFills(filled) = w[Len(filled)]
<1> DEFINE n == Len(filled)
           One(run, f) == Walked(run, f, f.fee + f.slip)
           turn == [p \in (1..n) \X Results |-> One(p[2], filled[p[1]])]
           Is(F) == F = [s \in SUBSET DOMAIN filled |->
                            IF s = {} THEN Untouched ELSE One(F[s \ {Max(s)}], filled[Max(s)])]
           G == CHOOSE F : Is(F)
<1>1. n \in Nat /\ DOMAIN filled = 1..n /\ \A k \in 1..n : filled[k] \in Fills
  OBVIOUS
<1>2. \A run \in Results : \A k \in 1..n : One(run, filled[k]) \in Results
  BY <1>1, CostsAre, WalkedIsARun
<1>3. turn \in [(1..n) \X Results -> Results] /\ Untouched \in Results
  <2>1. Untouched \in Results
    BY DEF Untouched, Results
  <2> HIDE DEF One
  <2> QED
    BY <1>2, <2>1
<1>4. \E F : Is(F)
  <2>1. PICK F \in [SUBSET (1..n) -> Results] : IsFold(F, Untouched, turn, n)
    <3> HIDE DEF turn, n
    <3>1. Folded(Untouched, turn, Results, n)
      BY ONLY <1>1, <1>3, FoldExists
    <3> QED
      BY ONLY <3>1 DEF Folded
  <2> HIDE DEF One
  <2>2. ASSUME NEW s \in SUBSET (1..n), s # {}
        PROVE  F[s] = One(F[s \ {Max(s)}], filled[Max(s)])
    <3>1. Max(s) \in 1..n /\ s \ {Max(s)} \in SUBSET (1..n)
      BY <1>1, <2>2, LastOfSome
    <3>2. <<Max(s), F[s \ {Max(s)}]>> \in (1..n) \X Results
      BY <3>1
    <3>3. F[s] = turn[<<Max(s), F[s \ {Max(s)}]>>]
      <4> HIDE DEF turn
      <4> QED
        BY <2>1, <2>2 DEF IsFold
    <3> QED
      BY <3>2, <3>3
  <2>3. F[{}] = Untouched
    <3> HIDE DEF turn
    <3> QED
      BY <2>1 DEF IsFold
  <2>4. Is(F)
    BY <1>1, <2>2, <2>3
  <2> QED
    BY <2>4
<1>5. Is(G)
  BY <1>4
<1>6. MetricsFromFills(filled) = G[DOMAIN filled]
  BY DEF MetricsFromFills, FoldLeft, MapThenFoldSet
<1> HIDE DEF One
<1>7. PICK H : H = G
  OBVIOUS
<1> DEFINE w == [k \in 0..n |-> H[1..k]]
<1>8. w[0] = Untouched
  <2>1. 1..0 = {} /\ 0 \in 0..n /\ {} \in SUBSET DOMAIN filled
    BY <1>1
  <2> HIDE DEF G, n
  <2> QED
    BY <1>5, <1>7, <2>1
<1>9. ASSUME NEW k \in 1..n PROVE w[k] = One(w[k - 1], filled[k])
  <2>1. /\ 1..k # {} /\ 1..k \in SUBSET DOMAIN filled /\ k \in 0..n /\ k - 1 \in 0..n
        /\ Max(1..k) = k /\ (1..k) \ {k} = 1..(k - 1)
    BY <1>1, FirstOnes
  <2> HIDE DEF G, n
  <2>2. H[1..k] = One(H[(1..k) \ {Max(1..k)}], filled[Max(1..k)])
    BY <1>5, <1>7, <2>1
  <2> QED
    BY <2>1, <2>2
<1>10. MetricsFromFills(filled) = w[n]
  <2>1. n \in 0..n
    BY <1>1
  <2> HIDE DEF G, n
  <2> QED
    BY <1>1, <1>6, <1>7, <2>1
<1> HIDE DEF w, n
<1>11. \A k \in 0..n : w[k] \in Results
  <2> DEFINE T == {k \in 0..n : w[k] \in Results}
  <2>1. 0 \in T
    BY <1>1, <1>3, <1>8
  <2>2. ASSUME NEW k \in 1..n, k - 1 \in T PROVE k \in T
    <3>1. w[k - 1] \in Results /\ k \in 0..n
      BY <1>1, <2>2
    <3>2. One(w[k - 1], filled[k]) \in Results
      BY <1>2, <3>1
    <3> QED
      BY <1>9, <3>1, <3>2
  <2> HIDE DEF T
  <2>3. \A k \in 0..n : k \in T
    BY ONLY <1>1, <2>1, <2>2, Turns
  <2> QED
    BY <2>3 DEF T
<1> USE DEF One
<1> QED
  BY <1>8, <1>9, <1>10, <1>11 DEF n

LEMMA SlippageIsALoop ==
    ASSUME NEW filled \in Seq(Fills)
    PROVE  \E w : /\ w[0] = 0
                  /\ \A k \in 1..Len(filled) :
                        w[k] = w[k - 1] + filled[k].slip
                  /\ \A k \in 0..Len(filled) : w[k] \in Int
                  /\ Slippage(filled) = w[Len(filled)]
<1> DEFINE n == Len(filled)
           One(run, f) == run + f.slip
           turn == [p \in (1..n) \X Int |-> One(p[2], filled[p[1]])]
           Is(F) == F = [s \in SUBSET DOMAIN filled |->
                            IF s = {} THEN 0 ELSE One(F[s \ {Max(s)}], filled[Max(s)])]
           G == CHOOSE F : Is(F)
<1>1. n \in Nat /\ DOMAIN filled = 1..n /\ \A k \in 1..n : filled[k] \in Fills
  OBVIOUS
<1>2. \A run \in Int : \A k \in 1..n : One(run, filled[k]) \in Int
  BY <1>1, CostsAre
<1>3. turn \in [(1..n) \X Int -> Int] /\ 0 \in Int
  <2>1. 0 \in Int
    OBVIOUS
  <2> HIDE DEF One
  <2> QED
    BY <1>2, <2>1
<1>4. \E F : Is(F)
  <2>1. PICK F \in [SUBSET (1..n) -> Int] : IsFold(F, 0, turn, n)
    <3> HIDE DEF turn, n
    <3>1. Folded(0, turn, Int, n)
      BY ONLY <1>1, <1>3, FoldExists
    <3> QED
      BY ONLY <3>1 DEF Folded
  <2> HIDE DEF One
  <2>2. ASSUME NEW s \in SUBSET (1..n), s # {}
        PROVE  F[s] = One(F[s \ {Max(s)}], filled[Max(s)])
    <3>1. Max(s) \in 1..n /\ s \ {Max(s)} \in SUBSET (1..n)
      BY <1>1, <2>2, LastOfSome
    <3>2. <<Max(s), F[s \ {Max(s)}]>> \in (1..n) \X Int
      BY <3>1
    <3>3. F[s] = turn[<<Max(s), F[s \ {Max(s)}]>>]
      <4> HIDE DEF turn
      <4> QED
        BY <2>1, <2>2 DEF IsFold
    <3> QED
      BY <3>2, <3>3
  <2>3. F[{}] = 0
    <3> HIDE DEF turn
    <3> QED
      BY <2>1 DEF IsFold
  <2>4. Is(F)
    BY <1>1, <2>2, <2>3
  <2> QED
    BY <2>4
<1>5. Is(G)
  BY <1>4
<1>6. Slippage(filled) = G[DOMAIN filled]
  BY DEF Slippage, FoldLeft, MapThenFoldSet
<1> HIDE DEF One
<1>7. PICK H : H = G
  OBVIOUS
<1> DEFINE w == [k \in 0..n |-> H[1..k]]
<1>8. w[0] = 0
  <2>1. 1..0 = {} /\ 0 \in 0..n /\ {} \in SUBSET DOMAIN filled
    BY <1>1
  <2> HIDE DEF G, n
  <2> QED
    BY <1>5, <1>7, <2>1
<1>9. ASSUME NEW k \in 1..n PROVE w[k] = One(w[k - 1], filled[k])
  <2>1. /\ 1..k # {} /\ 1..k \in SUBSET DOMAIN filled /\ k \in 0..n /\ k - 1 \in 0..n
        /\ Max(1..k) = k /\ (1..k) \ {k} = 1..(k - 1)
    BY <1>1, FirstOnes
  <2> HIDE DEF G, n
  <2>2. H[1..k] = One(H[(1..k) \ {Max(1..k)}], filled[Max(1..k)])
    BY <1>5, <1>7, <2>1
  <2> QED
    BY <2>1, <2>2
<1>10. Slippage(filled) = w[n]
  <2>1. n \in 0..n
    BY <1>1
  <2> HIDE DEF G, n
  <2> QED
    BY <1>1, <1>6, <1>7, <2>1
<1> HIDE DEF w, n
<1>11. \A k \in 0..n : w[k] \in Int
  <2> DEFINE T == {k \in 0..n : w[k] \in Int}
  <2>1. 0 \in T
    BY <1>1, <1>3, <1>8
  <2>2. ASSUME NEW k \in 1..n, k - 1 \in T PROVE k \in T
    <3>1. w[k - 1] \in Int /\ k \in 0..n
      BY <1>1, <2>2
    <3>2. One(w[k - 1], filled[k]) \in Int
      BY <1>2, <3>1
    <3> QED
      BY <1>9, <3>1, <3>2
  <2> HIDE DEF T
  <2>3. \A k \in 0..n : k \in T
    BY ONLY <1>1, <2>1, <2>2, Turns
  <2> QED
    BY <2>3 DEF T
<1> USE DEF One
<1> QED
  BY <1>8, <1>9, <1>10, <1>11 DEF n

LEMMA OneMoreFill ==
    ASSUME NEW S, NEW filled \in Seq(S), NEW e \in S
    PROVE  /\ Append(filled, e) \in Seq(S) /\ Len(filled) \in Nat
           /\ Len(Append(filled, e)) = Len(filled) + 1
           /\ \A k \in 1..Len(filled) : Append(filled, e)[k] = filled[k]
           /\ Append(filled, e)[Len(filled) + 1] = e
OBVIOUS

LEMMA OfSymbolGrows ==
    ASSUME NEW S, NEW filled \in Seq(S), NEW e \in S, NEW sym
    PROVE  OfSymbol(Append(filled, e), sym) =
              IF e.symbol = sym THEN Append(OfSymbol(filled, sym), e)
              ELSE OfSymbol(filled, sym)
<1> DEFINE more == Append(filled, e)
           n == Len(filled)
<1>1. more \in Seq(S) /\ n \in Nat /\ Len(more) = n + 1 /\ more[n + 1] = e
      /\ \A k \in 1..n : more[k] = filled[k]
  BY OneMoreFill
<1> HIDE DEF more
<1>2. PICK w : /\ w[0] = <<>>
               /\ \A k \in 1..n :
                     w[k] = IF filled[k].symbol = sym THEN Append(w[k - 1], filled[k])
                            ELSE w[k - 1]
               /\ OfSymbol(filled, sym) = w[n]
  BY OfSymbolIsALoop
<1>3. PICK x : /\ x[0] = <<>>
               /\ \A k \in 1..Len(more) :
                     x[k] = IF more[k].symbol = sym THEN Append(x[k - 1], more[k])
                            ELSE x[k - 1]
               /\ OfSymbol(more, sym) = x[Len(more)]
  BY <1>1, OfSymbolIsALoop
<1> DEFINE T == {k \in 0..n : x[k] = w[k]}
<1> HIDE DEF n
<1>4. 0 \in T
  BY <1>1, <1>2, <1>3
<1>5. ASSUME NEW k \in 1..n, k - 1 \in T PROVE k \in T
  <2>1. k \in 1..Len(more) /\ k \in 0..n /\ x[k - 1] = w[k - 1] /\ more[k] = filled[k]
    BY <1>1, <1>5
  <2>2. x[k] = w[k]
    BY ONLY <1>2, <1>3, <2>1, k \in 1..n
  <2> QED
    BY <2>1, <2>2
<1> HIDE DEF T
<1>6. \A k \in 0..n : k \in T
  BY ONLY <1>1, <1>4, <1>5, Turns
<1>7. x[n] = w[n]
  BY <1>1, <1>6 DEF T
<1>8. n + 1 \in 1..Len(more) /\ (n + 1) - 1 = n
  BY <1>1
<1>9. x[n + 1] = IF e.symbol = sym THEN Append(x[n], e) ELSE x[n]
  BY ONLY <1>1, <1>3, <1>8
<1>10. OfSymbol(more, sym) = x[n + 1]
  BY <1>1, <1>3
<1> QED
  BY <1>2, <1>7, <1>9, <1>10 DEF more

LEMMA OfSymbolIs ==
    ASSUME NEW S, NEW filled \in Seq(S), NEW sym
    PROVE  /\ OfSymbol(filled, sym) \in Seq(S)
           /\ filled = <<>> => OfSymbol(filled, sym) = <<>>
           /\ (\A k \in 1..Len(filled) : filled[k].symbol = sym) => OfSymbol(filled, sym) = filled
<1> DEFINE n == Len(filled)
           first(k) == SubSeq(filled, 1, k)
<1>1. PICK w : /\ w[0] = <<>>
               /\ \A k \in 1..n :
                     w[k] = IF filled[k].symbol = sym THEN Append(w[k - 1], filled[k])
                            ELSE w[k - 1]
               /\ OfSymbol(filled, sym) = w[n]
  BY OfSymbolIsALoop
<1>2. n \in Nat /\ \A k \in 1..n : filled[k] \in S
  OBVIOUS
<1>3. \A k \in 0..n : w[k] \in Seq(S)
  <2> DEFINE T == {k \in 0..n : w[k] \in Seq(S)}
  <2> HIDE DEF n
  <2>1. 0 \in T
    <3>1. 0 \in 0..n /\ <<>> \in Seq(S)
      BY <1>2
    <3> QED
      BY <1>1, <3>1
  <2>2. ASSUME NEW k \in 1..n, k - 1 \in T PROVE k \in T
    <3>1. w[k - 1] \in Seq(S) /\ k \in 0..n /\ filled[k] \in S
      BY <1>2, <2>2
    <3>2. Append(w[k - 1], filled[k]) \in Seq(S)
      BY ONLY <3>1
    <3>3. w[k] = Append(w[k - 1], filled[k]) \/ w[k] = w[k - 1]
      BY <1>1
    <3> QED
      BY <3>1, <3>2, <3>3
  <2> HIDE DEF T
  <2>3. \A k \in 0..n : k \in T
    BY ONLY <1>2, <2>1, <2>2, Turns
  <2> QED
    BY <2>3 DEF T
<1>4. ASSUME \A k \in 1..n : filled[k].symbol = sym
      PROVE  w[n] = filled
  <2> DEFINE T == {k \in 0..n : /\ w[k] \in Seq(S) /\ Len(w[k]) = k
                                /\ \A i \in 1..k : w[k][i] = filled[i]}
  <2> HIDE DEF n
  <2>1. 0 \in T
    <3>1. 0 \in 0..n /\ <<>> \in Seq(S) /\ Len(<<>>) = 0 /\ 1..0 = {}
      BY <1>2
    <3> QED
      BY <1>1, <3>1
  <2>2. ASSUME NEW k \in 1..n, k - 1 \in T PROVE k \in T
    <3>1. /\ w[k - 1] \in Seq(S) /\ Len(w[k - 1]) = k - 1 /\ k \in Nat /\ k > 0 /\ k \in 0..n
          /\ \A i \in 1..k - 1 : w[k - 1][i] = filled[i]
      BY <1>2, <2>2
    <3>2. w[k] = Append(w[k - 1], filled[k]) /\ filled[k] \in S
      BY <1>1, <1>2, <1>4
    <3>3. w[k] \in Seq(S) /\ Len(w[k]) = k /\ w[k][k] = filled[k]
          /\ \A i \in 1..k - 1 : w[k][i] = w[k - 1][i]
      BY ONLY <3>1, <3>2
    <3>4. \A i \in 1..k : i \in 1..k - 1 \/ i = k
      BY <3>1
    <3> QED
      BY <3>1, <3>3, <3>4
  <2> HIDE DEF T
  <2>3. \A k \in 0..n : k \in T
    BY ONLY <1>2, <2>1, <2>2, Turns
  <2>4. /\ w[n] \in Seq(S) /\ Len(w[n]) = n /\ \A i \in 1..n : w[n][i] = filled[i]
    BY <1>2, <2>3 DEF T
  <2> QED
    BY <2>4 DEF n
<1>5. n \in 0..n
  BY <1>2
<1>6. filled = <<>> => n = 0
  OBVIOUS
<1> HIDE DEF n
<1> QED
  BY <1>1, <1>3, <1>4, <1>5, <1>6 DEF n

LEMMA NoFillsYet == <<>> \in Seq(Fills) => SymbolMetrics(<<>>) = Untouched
<1> SUFFICES ASSUME <<>> \in Seq(Fills) PROVE SymbolMetrics(<<>>) = Untouched
  OBVIOUS
<1>1. PICK w : w[0] = Untouched /\ SymbolMetrics(<<>>) = w[Len(<<>>)]
  BY SymbolMetricsIsALoop
<1>2. Len(<<>>) = 0
  OBVIOUS
<1> QED
  BY <1>1, <1>2

LEMMA SymbolMetricsGrow ==
    ASSUME NEW filled \in Seq(Fills), NEW e \in Fills
    PROVE  /\ SymbolMetrics(filled) \in Results
           /\ SymbolMetrics(Append(filled, e)) = Walked(SymbolMetrics(filled), e, e.fee)
<1> DEFINE more == Append(filled, e)
           n == Len(filled)
<1>1. more \in Seq(Fills) /\ n \in Nat /\ Len(more) = n + 1 /\ more[n + 1] = e
      /\ \A k \in 1..n : more[k] = filled[k]
  BY OneMoreFill
<1> HIDE DEF more
<1>2. PICK w : /\ w[0] = Untouched
               /\ \A k \in 1..n : w[k] = Walked(w[k - 1], filled[k], filled[k].fee)
               /\ \A k \in 0..n : w[k] \in Results
               /\ SymbolMetrics(filled) = w[n]
  BY SymbolMetricsIsALoop
<1>3. PICK x : /\ x[0] = Untouched
               /\ \A k \in 1..Len(more) : x[k] = Walked(x[k - 1], more[k], more[k].fee)
               /\ SymbolMetrics(more) = x[Len(more)]
  BY <1>1, SymbolMetricsIsALoop
<1> DEFINE T == {k \in 0..n : x[k] = w[k]}
<1> HIDE DEF n
<1>4. 0 \in T
  BY <1>1, <1>2, <1>3
<1>5. ASSUME NEW k \in 1..n, k - 1 \in T PROVE k \in T
  <2>1. k \in 1..Len(more) /\ k \in 0..n /\ x[k - 1] = w[k - 1] /\ more[k] = filled[k]
    BY <1>1, <1>5
  <2>2. x[k] = w[k]
    BY ONLY <1>2, <1>3, <2>1, k \in 1..n
  <2> QED
    BY <2>1, <2>2
<1> HIDE DEF T
<1>6. \A k \in 0..n : k \in T
  BY ONLY <1>1, <1>4, <1>5, Turns
<1>7. x[n] = w[n] /\ w[n] \in Results
  BY <1>1, <1>2, <1>6 DEF T
<1>8. n + 1 \in 1..Len(more) /\ (n + 1) - 1 = n
  BY <1>1
<1>9. x[n + 1] = Walked(x[n], e, e.fee)
  BY ONLY <1>1, <1>3, <1>8
<1>10. SymbolMetrics(more) = x[n + 1]
  BY <1>1, <1>3
<1> QED
  BY <1>2, <1>7, <1>9, <1>10 DEF more

\* The evaluator takes the slippage off what a symbol's analysis realizes.
LEMMA EvaluatorTakesTheSlippage ==
    ASSUME NEW filled \in Seq(Fills)
    PROVE  MetricsFromFills(filled).realized = SymbolMetrics(filled).realized - Slippage(filled)
<1> DEFINE n == Len(filled)
<1>1. PICK w : /\ w[0] = Untouched
               /\ \A k \in 1..n : w[k] = Walked(w[k - 1], filled[k], filled[k].fee)
               /\ \A k \in 0..n : w[k] \in Results
               /\ SymbolMetrics(filled) = w[n]
  BY SymbolMetricsIsALoop
<1>2. PICK x : /\ x[0] = Untouched
               /\ \A k \in 1..n :
                     x[k] = Walked(x[k - 1], filled[k], filled[k].fee + filled[k].slip)
               /\ \A k \in 0..n : x[k] \in Results
               /\ MetricsFromFills(filled) = x[n]
  BY MetricsFromFillsIsALoop
<1>3. PICK t : /\ t[0] = 0
               /\ \A k \in 1..n : t[k] = t[k - 1] + filled[k].slip
               /\ \A k \in 0..n : t[k] \in Int
               /\ Slippage(filled) = t[n]
  BY SlippageIsALoop
<1>4. n \in Nat /\ \A k \in 1..n : filled[k] \in Fills
  OBVIOUS
<1> HIDE DEF n
<1> DEFINE T == {k \in 0..n : /\ x[k].position = w[k].position /\ x[k].entry = w[k].entry
                              /\ x[k].realized = w[k].realized - t[k]}
<1>5. 0 \in T
  BY <1>1, <1>2, <1>3, <1>4 DEF Untouched
<1>6. ASSUME NEW k \in 1..n, k - 1 \in T PROVE k \in T
  <2> DEFINE a == w[k - 1]
             b == x[k - 1]
             f == filled[k]
  <2>0. k - 1 \in 0..n /\ k \in 0..n
    BY ONLY <1>4, k \in 1..n
  <2>1. /\ k \in 0..n /\ a \in Results /\ b \in Results /\ f \in Fills
        /\ t[k - 1] \in Int /\ t[k] = t[k - 1] + f.slip
        /\ w[k] = Walked(a, f, f.fee) /\ x[k] = Walked(b, f, f.fee + f.slip)
    <3>1. a \in Results /\ w[k] = Walked(a, f, f.fee)
      BY ONLY <1>1, <2>0, k \in 1..n
    <3>2. b \in Results /\ x[k] = Walked(b, f, f.fee + f.slip)
      BY ONLY <1>2, <2>0, k \in 1..n
    <3>3. t[k - 1] \in Int /\ t[k] = t[k - 1] + f.slip
      BY ONLY <1>3, <2>0, k \in 1..n
    <3> QED
      BY <1>4, <2>0, <3>1, <3>2, <3>3
  <2>2. b.position = a.position /\ b.entry = a.entry /\ b.realized = a.realized - t[k - 1]
    BY <1>6
  <2> HIDE DEF a, b, f
  <2>3. Gain(b, f) = Gain(a, f) /\ Entry(b, f) = Entry(a, f) /\ Gain(a, f) \in Int
    <3>1. f.fee \in Int
      BY <2>1, ChangeIs
    <3>2. Gain(a, f) \in Int
      BY <2>1, <3>1, WalkedIsARun
    <3> QED
      BY <2>2, <3>2 DEF Gain, Entry
  <2>4. f.fee \in Int /\ f.slip \in Int /\ a.realized \in Int
    BY <2>1, ChangeIs, CostsAre DEF Results
  <2>5. x[k].position = w[k].position /\ x[k].entry = w[k].entry
    BY <2>1, <2>2, <2>3 DEF Walked
  <2>6. /\ x[k].realized = b.realized + Gain(b, f) - (f.fee + f.slip)
        /\ w[k].realized = a.realized + Gain(a, f) - f.fee
    BY <2>1 DEF Walked
  <2>7. x[k].realized = w[k].realized - t[k]
    <3> DEFINE g == Gain(a, f)
               u == t[k - 1]
    <3>1. x[k].realized = (a.realized - u) + g - (f.fee + f.slip)
      BY ONLY <2>2, <2>3, <2>6
    <3>2. w[k].realized = a.realized + g - f.fee /\ t[k] = u + f.slip
      BY ONLY <2>1, <2>6
    <3>3. g \in Int /\ u \in Int
      BY ONLY <2>1, <2>3
    <3> HIDE DEF g, u
    <3> QED
      BY ONLY <2>4, <3>1, <3>2, <3>3
  <2> QED
    BY <2>1, <2>5, <2>7
<1> HIDE DEF T
<1>7. \A k \in 0..n : k \in T
  BY ONLY <1>4, <1>5, <1>6, Turns
<1>8. x[n].realized = w[n].realized - t[n]
  BY <1>4, <1>7 DEF T
<1> QED
  BY <1>1, <1>2, <1>3, <1>8

LEMMA FlipsGrow ==
    ASSUME NEW filled \in Seq(Fills), NEW e \in Fills
    PROVE  /\ filled = <<>> => ~ Flips(filled)
           /\ Flips(Append(filled, e)) <=>
                 \/ Flips(filled)
                 \/ SymbolMetrics(filled).position
                      * (SymbolMetrics(filled).position + Change(e)) < 0
<1> DEFINE more == Append(filled, e)
           n == Len(filled)
           Held(seq, k) == SymbolMetrics(SubSeq(seq, 1, k - 1)).position
           Turn(seq, k) == Held(seq, k) * (Held(seq, k) + Change(seq[k])) < 0
<1>1. more \in Seq(Fills) /\ n \in Nat /\ Len(more) = n + 1 /\ more[n + 1] = e
      /\ \A k \in 1..n : more[k] = filled[k]
  BY OneMoreFill
<1>2. DOMAIN filled = 1..n /\ DOMAIN more = 1..(n + 1)
  BY <1>1
<1>3. ASSUME NEW k \in 1..n PROVE SubSeq(more, 1, k - 1) = SubSeq(filled, 1, k - 1)
  <2> HIDE DEF more
  <2> QED
    BY <1>1
<1>4. SubSeq(more, 1, n) = filled
  <2> HIDE DEF more
  <2> QED
    BY <1>1
<1>5. \A seq : Flips(seq) <=> \E k \in DOMAIN seq : Turn(seq, k)
  BY DEF Flips
<1>6. \A k \in 1..n : Turn(more, k) <=> Turn(filled, k)
  BY <1>1, <1>3
<1>7. Turn(more, n + 1) <=> SymbolMetrics(filled).position
                              * (SymbolMetrics(filled).position + Change(e)) < 0
  <2>1. (n + 1) - 1 = n
    BY <1>1
  <2>2. SubSeq(more, 1, (n + 1) - 1) = filled
    BY <1>4, <2>1
  <2> HIDE DEF more, n
  <2> QED
    BY <1>1, <2>2
<1>8. \A k \in 1..(n + 1) : k \in 1..n \/ k = n + 1
  BY <1>1
<1>9. n + 1 \in 1..(n + 1) /\ \A k \in 1..n : k \in 1..(n + 1)
  BY <1>1
<1>10. filled = <<>> => 1..n = {}
  OBVIOUS
<1> HIDE DEF n, Turn, more
<1> QED
  BY <1>2, <1>5, <1>6, <1>7, <1>8, <1>9, <1>10 DEF more

LEMMA SignOfProduct ==
    ASSUME NEW a \in Int, NEW b \in Int, a # 0, b # 0
    PROVE  (a * b > 0) <=> (a > 0 <=> b > 0)
<1>1. CASE a > 0 /\ b > 0
  <2>1. a * b > 0
    BY ONLY <1>1, a \in Int, b \in Int
  <2> QED
    BY <1>1, <2>1
<1>2. CASE a < 0 /\ b < 0
  <2> DEFINE x == -a
             y == -b
  <2>1. x > 0 /\ y > 0 /\ x \in Int /\ y \in Int /\ a * b = x * y
    BY <1>2
  <2>2. x * y > 0
    BY ONLY <2>1
  <2> QED
    BY <1>2, <2>1, <2>2
<1>3. CASE a > 0 /\ b < 0
  <2> DEFINE y == -b
  <2>1. y > 0 /\ y \in Int /\ a * b = -(a * y) /\ a * y \in Int
    BY <1>3
  <2>2. a * y > 0
    BY ONLY <1>3, <2>1, a \in Int
  <2> QED
    BY <1>3, <2>1, <2>2
<1>4. CASE a < 0 /\ b > 0
  <2> DEFINE x == -a
  <2>1. x > 0 /\ x \in Int /\ a * b = -(x * b) /\ x * b \in Int
    BY <1>4
  <2>2. x * b > 0
    BY ONLY <1>4, <2>1, b \in Int
  <2> QED
    BY <1>4, <2>1, <2>2
<1> QED
  BY <1>1, <1>2, <1>3, <1>4

TurnsOver(held, change) == held * (held + change) < 0

\* A fill that does not turn the position over is booked by both alike.
LEMMA BookedAlike ==
    ASSUME NEW p \in Positions, NEW run \in Results, NEW f \in Fills,
           run.position = p.quantity, p.quantity # 0 => run.entry = p.avg,
           ~TurnsOver(p.quantity, Change(f))
    PROVE  /\ Gain(run, f) = RealizedBy(p, f)
           /\ p.quantity + Change(f) # 0 => Entry(run, f) = EntryPrice(p, f)
<1> DEFINE q == p.quantity
           c == Change(f)
           a == p.avg
           x == f.price
<1>1. /\ q \in Int /\ a \in Int /\ c \in Int /\ c # 0 /\ x \in Int
      /\ run.entry \in Int /\ f.quantity = Size(c)
  <2>1. f.quantity \in Int /\ f.quantity > 0
    BY LedgerBounds DEF Fills
  <2>2. f.quantity = Size(c)
    BY <2>1 DEF Change, Size
  <2> QED
    BY <2>2, ChangeIs DEF Positions, Results
<1>2. ~(q * (q + c) < 0) /\ run.position = q /\ (q # 0 => run.entry = a)
  BY DEF TurnsOver
<1> DEFINE m == IF Size(c) <= Size(q) THEN Size(c) ELSE Size(q)
<1>3. Min({f.quantity, Size(run.position)}) = m
  <2>1. Size(c) \in Int /\ Size(q) \in Int
    BY <1>1, SizeIs
  <2>2. f.quantity = Size(c) /\ Size(run.position) = Size(q)
    BY <1>1, <1>2
  <2> HIDE DEF c, q
  <2> QED
    BY <2>1, <2>2, SmallestOfTwo
<1>4. Gain(run, f) = IF q * c >= 0 THEN 0
                     ELSE m * (x - run.entry) * (IF q > 0 THEN 1 ELSE -1)
  BY <1>2, <1>3 DEF Gain
<1>5. /\ Increases(q, c) => RealizedBy(p, f) = 0
      /\ ~Increases(q, c) => RealizedBy(p, f) =
            IF q > 0 THEN m * (x - a) ELSE m * (a - x)
  BY YieldIs DEF RealizedBy
<1>6. EntryPrice(p, f) =
         IF Increases(q, c) THEN Average(q, a, c, x)
         ELSE IF q + c # 0 /\ (q + c > 0 <=> c > 0) THEN x ELSE a
  BY DEF EntryPrice
<1>7. Entry(run, f) =
         IF Size(q + c) > Size(q)
         THEN IF q = 0 THEN x ELSE Average(q, run.entry, c, x)
         ELSE IF q + c = 0 THEN 0 ELSE run.entry
  BY <1>2 DEF Entry
<1>8. Increases(q, c) <=> (q = 0 \/ (q > 0 <=> c > 0))
  BY DEF Increases
<1>9. m \in Int
  BY <1>1, SizeIs
<1> HIDE DEF q, c, a, x, m
<1>10. CASE q = 0
  <2>1. Size(q) = 0 /\ Size(c) > 0 /\ Size(q + c) = Size(c) /\ Size(c) \in Nat
    BY <1>1, <1>10 DEF Size
  <2>2. Average(q, a, c, x) = x
    <3> DEFINE d == Size(c)
    <3>1. d \in Nat \ {0} /\ a * 0 + x * d = d * x /\ 0 + d = d
      BY <1>1, <2>1
    <3>2. Average(q, a, c, x) = (a * 0 + x * d) \div (0 + d)
      BY <2>1 DEF Average
    <3> HIDE DEF d
    <3> QED
      BY <1>1, <3>1, <3>2, DivisionOfMultiple
  <2>3. q * c = 0
    BY <1>1, <1>10
  <2> QED
    BY <1>4, <1>5, <1>6, <1>7, <1>8, <1>10, <2>1, <2>2, <2>3 DEF q, c
<1>11. CASE q # 0 /\ (q > 0 <=> c > 0)
  <2>1. q * c > 0 /\ q * c \in Int
    BY <1>1, <1>11, SignOfProduct
  <2>2. Size(q + c) > Size(q)
    BY <1>1, <1>11 DEF Size
  <2> QED
    BY <1>2, <1>4, <1>5, <1>6, <1>7, <1>8, <1>11, <2>1, <2>2 DEF q, c
<1>12. CASE q # 0 /\ ~(q > 0 <=> c > 0)
  <2>1. ~(q * c > 0) /\ q * c \in Int /\ q * c # 0
    <3>1. q * c # 0
      BY ONLY <1>1, <1>12
    <3> QED
      BY <1>1, <1>12, <3>1, SignOfProduct
  <2>2. q + c # 0 => (q > 0 <=> q + c > 0)
    <3> SUFFICES ASSUME q + c # 0, ~(q > 0 <=> q + c > 0) PROVE FALSE
      OBVIOUS
    <3>1. ~(q * (q + c) > 0) /\ q * (q + c) \in Int /\ q * (q + c) # 0
      <4>1. q + c \in Int
        BY <1>1
      <4> DEFINE e == q + c
      <4>2. e \in Int /\ e # 0 /\ ~(q > 0 <=> e > 0)
        BY <4>1
      <4> HIDE DEF e
      <4>3. q * e # 0 /\ q * e \in Int
        BY ONLY <1>1, <1>12, <4>2
      <4>4. ~(q * e > 0)
        BY <1>1, <1>12, <4>2, SignOfProduct
      <4> QED
        BY <4>3, <4>4 DEF e
    <3> QED
      BY <1>2, <3>1
  <2>3. Size(q + c) <= Size(q)
    BY <1>1, <1>12, <2>2 DEF Size
  <2>4. run.entry = a
    BY <1>2, <1>12
  <2>5. Gain(run, f) = m * (x - a) * (IF q > 0 THEN 1 ELSE -1)
    BY <1>4, <2>1, <2>4
  <2>6. RealizedBy(p, f) = IF q > 0 THEN m * (x - a) ELSE m * (a - x)
    BY <1>5, <1>8, <1>12
  <2>7. m * (x - a) * 1 = m * (x - a) /\ m * (x - a) * (-1) = m * (a - x)
    BY <1>1, <1>9
  <2>8. Gain(run, f) = RealizedBy(p, f)
    BY <2>5, <2>6, <2>7
  <2>9. q + c # 0 => Entry(run, f) = a
    <3>1. ~(Size(q + c) > Size(q))
      BY <1>1, <2>3, SizeIs
    <3> QED
      BY <1>7, <2>4, <3>1
  <2>10. q + c # 0 => ~(q + c > 0 <=> c > 0)
    BY <1>12, <2>2
  <2>11. q + c # 0 => EntryPrice(p, f) = a
    BY <1>6, <1>8, <1>12, <2>10
  <2> QED
    BY <2>8, <2>9, <2>11 DEF q, c
<1> QED
  BY <1>10, <1>11, <1>12

\* The inductive invariant: what the analysis of a symbol makes of its fills is
\* what the ledger made of them, as long as none turned the position over.
SymbolAgrees(s) ==
    LET own == OfSymbol(fills, s)
        run == SymbolMetrics(own)
        position == holdings[s]
    IN  /\ own = <<>> => position = NoPosition
        /\ run.position = position.quantity
        /\ ~Flips(own) =>
              /\ run.realized = position.realized - position.fees
              /\ position.quantity # 0 => run.entry = position.avg
              /\ run.wins <= score.winners

SymbolsAgree == \A s \in Symbols : SymbolAgrees(s)

LEMMA ExecuteAgrees ==
    ASSUME Ledgers, SymbolsAgree, NEW order \in Orders, Execute(order)
    PROVE  SymbolsAgree'
<1> DEFINE f == SimulatedFill(order)
           r == RealizedBy(holdings[f.symbol], f)
<1>1. f \in Fills /\ f.symbol \in Symbols
  BY SimulatedIsAFill, ChangeIs
<1>2. ProcessFill(f)
  BY DEF Execute
<1> HIDE DEF f
<1>3. /\ holdings \in [Symbols -> Positions] /\ fills \in Seq(Fills)
      /\ score \in [fills : Int, winners : Int, profit : Int, loss : Int]
  BY DEF Ledgers, LedgerTypes
<1>4. /\ fills' = Append(fills, f) /\ score' = Counted(r)
      /\ holdings' = [holdings EXCEPT ![f.symbol] = Applied(@, f)]
  BY <1>2 DEF ProcessFill
<1>5. r \in Int
  BY <1>1, <1>3, YieldIs
<1> HIDE DEF r
<1>6. /\ score'.winners = score.winners + (IF r > 0 THEN 1 ELSE 0)
      /\ score.winners \in Int /\ score'.winners \in Int /\ score.winners <= score'.winners
  <2>1. score'.winners = score.winners + (IF r > 0 THEN 1 ELSE 0)
    BY <1>4 DEF Counted
  <2>2. score.winners \in Int
    BY <1>3
  <2> QED
    BY <2>1, <2>2
<1>7. ASSUME NEW s \in Symbols, s # f.symbol PROVE SymbolAgrees(s)'
  <2>1. OfSymbol(fills', s) = OfSymbol(fills, s)
    BY <1>1, <1>3, <1>4, <1>7, OfSymbolGrows
  <2>2. holdings'[s] = holdings[s]
    BY <1>3, <1>4, <1>7
  <2> DEFINE own == OfSymbol(fills, s)
             run == SymbolMetrics(own)
  <2>3. run.wins \in Int
    <3>1. own \in Seq(Fills)
      BY <1>3, OfSymbolIs
    <3> HIDE DEF own
    <3>2. run \in Results
      BY <1>1, <3>1, SymbolMetricsGrow
    <3> QED
      BY <3>2 DEF Results
  <2>4. run.wins <= score.winners => run.wins <= score'.winners
    BY <1>6, <2>3
  <2>5. SymbolAgrees(s)
    BY DEF SymbolsAgree
  <2> QED
    BY <2>1, <2>2, <2>4, <2>5 DEF SymbolAgrees
<1>8. ASSUME NEW s, s = f.symbol PROVE SymbolAgrees(s)'
  <2> DEFINE own == OfSymbol(fills, s)
             run == SymbolMetrics(own)
             p == holdings[s]
             more == OfSymbol(fills', s)
             next == SymbolMetrics(more)
             t == holdings'[s]
  <2>1. s \in Symbols /\ p \in Positions /\ t = Applied(p, f) /\ r = RealizedBy(p, f)
    BY <1>1, <1>3, <1>4, <1>8 DEF r
  <2>2. more = Append(own, f) /\ own \in Seq(Fills)
    BY <1>1, <1>3, <1>4, <1>8, OfSymbolGrows, OfSymbolIs
  <2>3. /\ run.position = p.quantity
        /\ ~Flips(own) => /\ run.realized = p.realized - p.fees
                          /\ p.quantity # 0 => run.entry = p.avg
                          /\ run.wins <= score.winners
    BY <2>1 DEF SymbolsAgree, SymbolAgrees
  <2> HIDE DEF own, more, p, t
  <2>4. run \in Results /\ next = Walked(run, f, f.fee)
    BY <1>1, <2>2, SymbolMetricsGrow
  <2>5. Flips(more) <=> Flips(own) \/ run.position * (run.position + Change(f)) < 0
    BY <1>1, <2>2, FlipsGrow
  <2>6. more # <<>>
    BY <1>1, <2>2
  <2> HIDE DEF run, next
  <2>7. /\ next.position = run.position + Change(f) /\ next.entry = Entry(run, f)
        /\ next.realized = run.realized + Gain(run, f) - f.fee
        /\ next.wins = run.wins + (IF Gain(run, f) > f.fee THEN 1 ELSE 0)
    BY <2>4 DEF Walked
  <2>8. /\ t.quantity = p.quantity + Change(f) /\ t.avg = EntryPrice(p, f)
        /\ t.realized = p.realized + r /\ t.fees = p.fees + f.fee
    BY <2>1 DEF Applied
  <2>9. /\ p.quantity \in Int /\ p.realized \in Int /\ p.fees \in Int /\ Change(f) \in Int
        /\ f.fee \in Int /\ f.fee >= 0 /\ run.wins \in Int
    <3>1. f.fee >= 0
      BY <1>1, LedgerBounds DEF Fills
    <3> QED
      BY <1>1, <2>1, <2>4, <3>1, ChangeIs DEF Positions, Results
  <2>10. ASSUME ~Flips(more)
         PROVE  /\ next.realized = t.realized - t.fees
                /\ t.quantity # 0 => next.entry = t.avg
                /\ next.wins <= score'.winners
    <3>1. /\ run.realized = p.realized - p.fees /\ run.wins <= score.winners
          /\ p.quantity # 0 => run.entry = p.avg
          /\ ~TurnsOver(p.quantity, Change(f))
      BY <2>3, <2>5, <2>10 DEF TurnsOver
    <3>2. Gain(run, f) = r /\ (p.quantity + Change(f) # 0 => Entry(run, f) = EntryPrice(p, f))
      <4>1. /\ f \in Fills /\ p \in Positions /\ run \in Results
            /\ run.position = p.quantity
        BY <1>1, <2>1, <2>3, <2>4
      <4>2. /\ Gain(run, f) = RealizedBy(p, f)
            /\ p.quantity + Change(f) # 0 => Entry(run, f) = EntryPrice(p, f)
        BY ONLY <3>1, <4>1, BookedAlike
      <4> QED
        BY <2>1, <4>2
    <3>3. next.realized = t.realized - t.fees
      <4>1. next.realized = (p.realized - p.fees) + r - f.fee
        BY ONLY <2>7, <3>1, <3>2
      <4>2. t.realized = p.realized + r /\ t.fees = p.fees + f.fee
        BY <2>8
      <4> QED
        BY ONLY <1>5, <2>9, <4>1, <4>2
    <3>4. next.wins <= score'.winners
      <4>1. run.wins <= score.winners /\ run.wins \in Int
        BY <2>9, <3>1
      <4>2. next.wins = run.wins + (IF r > f.fee THEN 1 ELSE 0) /\ f.fee \in Int /\ f.fee >= 0
        BY <2>7, <2>9, <3>2
      <4> QED
        BY ONLY <1>5, <1>6, <4>1, <4>2
    <3> QED
      BY <2>7, <2>8, <3>2, <3>3, <3>4
  <2>11. next.position = t.quantity
    BY <2>3, <2>7, <2>8
  <2> QED
    BY <2>6, <2>10, <2>11 DEF SymbolAgrees, next, more, t
<1> QED
  BY <1>7, <1>8 DEF SymbolsAgree

LEMMA SymbolsAlwaysAgree == TradingSpec => []SymbolsAgree
<1>1. TradingInit => SymbolsAgree
  <2> SUFFICES ASSUME TradingInit, NEW s \in Symbols PROVE SymbolAgrees(s)
    BY DEF SymbolsAgree
  <2>1. /\ fills = <<>> /\ fills \in Seq(Fills) /\ holdings[s] = NoPosition
        /\ score.winners = 0
    BY DEF TradingInit, LedgerInit
  <2>2. OfSymbol(fills, s) = <<>>
    BY <2>1, OfSymbolIs
  <2>3. <<>> \in Seq(Fills)
    OBVIOUS
  <2>4. SymbolMetrics(<<>>) = Untouched
    BY <2>3, NoFillsYet
  <2> QED
    BY <2>1, <2>2, <2>4 DEF SymbolAgrees, Untouched, NoPosition
<1>2. Ledgers /\ SymbolsAgree /\ [TradingNext]_tradingVars => SymbolsAgree'
  <2> SUFFICES ASSUME Ledgers, SymbolsAgree, [TradingNext]_tradingVars PROVE SymbolsAgree'
    OBVIOUS
  <2>1. ASSUME NEW order \in Orders, Execute(order) PROVE SymbolsAgree'
    BY <2>1, ExecuteAgrees
  <2>2. CASE UNCHANGED <<fills, holdings, score>>
    BY <2>2 DEF SymbolsAgree, SymbolAgrees
  <2>3. (HandlePrices \/ Read) => UNCHANGED <<fills, holdings, score>>
    BY DEF HandlePrices, HandleTrade, HandleSignal, Read, ReadTab, SendWorkbook, bookVars
  <2>4. UNCHANGED tradingVars => UNCHANGED <<fills, holdings, score>>
    BY DEF bookVars, tradingVars, ledgerVars
  <2> QED
    BY <2>1, <2>2, <2>3, <2>4 DEF TradingNext
<1> QED
  BY <1>1, <1>2, LedgersHold, PTL DEF TradingSpec

\* The quotient that rounds n has n within half a step of it, and so has the
\* even one of two.
LEMMA RoundedIsNear ==
    ASSUME NEW n \in Int
    PROVE  /\ Rounded(n) \in Int
           /\ (2 * Rounded(n)) * ReturnStep - ReturnStep <= 2 * n
           /\ 2 * n <= (2 * Rounded(n)) * ReturnStep + ReturnStep
<1> DEFINE d == 2 * ReturnStep
           x == 2 * n + ReturnStep
           near == x \div d
<1>1. ReturnStep \in Nat \ {0} /\ d \in Nat \ {0} /\ x \in Int
  BY BacktestAnalysisAssumption DEF BacktestAnalysisAssumption
<1> HIDE DEF d, x
<1>2. near \in Int /\ near * d <= x /\ x < near * d + d
  BY <1>1, Division
<1>3. Rounded(n) = IF x = near * d /\ near % 2 = 1 THEN near - 1 ELSE near
  BY DEF Rounded, d, x
<1> HIDE DEF near
<1>4. PICK p \in Int : p = near * d
  BY <1>1, <1>2
<1>5. (near - 1) * d = p - d
  BY <1>1, <1>2, <1>4
<1>6. CASE Rounded(n) = near
  <2>1. (2 * Rounded(n)) * ReturnStep = p
    BY <1>1, <1>2, <1>4, <1>6 DEF d
  <2> QED
    BY <1>1, <1>2, <1>4, <1>6, <2>1 DEF d, x
<1>7. CASE Rounded(n) = near - 1 /\ x = p
  <2>1. (2 * Rounded(n)) * ReturnStep = p - d
    BY <1>1, <1>2, <1>5, <1>7 DEF d
  <2>2. Rounded(n) \in Int
    BY <1>2, <1>7
  <2> QED
    BY <1>1, <1>4, <1>7, <2>1, <2>2 DEF d, x
<1> QED
  BY <1>3, <1>4, <1>6, <1>7

\* A smaller gain does not round to a larger return, and one that does not
\* round to a smaller return is not smaller by more than a step.
LEMMA RoundingKeepsOrder ==
    ASSUME NEW a \in Int, NEW b \in Int
    PROVE  /\ a <= b => Rounded(a) <= Rounded(b)
           /\ Rounded(a) <= Rounded(b) => a - b <= ReturnStep
<1>1. PICK r \in Nat \ {0} : r = ReturnStep
  BY BacktestAnalysisAssumption DEF BacktestAnalysisAssumption
<1>2. PICK i \in Int : i = Rounded(a)
  BY RoundedIsNear
<1>3. PICK j \in Int : j = Rounded(b)
  BY RoundedIsNear
<1>4. /\ (2 * i) * r - r <= 2 * a /\ 2 * a <= (2 * i) * r + r
      /\ (2 * j) * r - r <= 2 * b /\ 2 * b <= (2 * j) * r + r
  BY <1>1, <1>2, <1>3, RoundedIsNear
<1>5. ASSUME i <= j PROVE a - b <= r
  <2>1. (2 * i) * r <= (2 * j) * r
    BY ONLY <1>5, i \in Int, j \in Int, r \in Nat
  <2>2. PICK u \in Int, v \in Int : u = (2 * i) * r /\ v = (2 * j) * r
    OBVIOUS
  <2> QED
    BY ONLY <1>4, <2>1, <2>2, a \in Int, b \in Int, r \in Nat
<1>6. ASSUME a <= b PROVE i <= j
  <2> SUFFICES ASSUME i >= j + 1 PROVE FALSE
    OBVIOUS
  <2>1. (2 * j) * r + 2 * r <= (2 * i) * r
    BY ONLY i >= j + 1, i \in Int, j \in Int, r \in Nat
  <2>2. PICK u \in Int, v \in Int : u = (2 * i) * r /\ v = (2 * j) * r
    OBVIOUS
  <2>3. a = b /\ 2 * b = v + r /\ 2 * a = u - r
    BY ONLY <1>4, <1>6, <2>1, <2>2, a \in Int, b \in Int, r \in Nat
  <2> QED
    BY <1>2, <1>3, <2>3
<1> QED
  BY <1>1, <1>2, <1>3, <1>5, <1>6

(* AnalysisMatchesLedger: whatever is filled, the analysis of a backtest   *)
(* realizes for each symbol what the ledger does, less its fees, while no  *)
(* fill turns the position over, and counts no more winners; its best      *)
(* symbol gained no less than another by more than a rounding; the         *)
(* evaluator realizes the ledger's gain less the slippage when there is    *)
(* but one symbol.                                                         *)
THEOREM AnalysisDoesMatchLedger == TradingSpec => []AnalysisMatchesLedger
<1>1. ASSUME Ledgers, SymbolsAgree PROVE AnalysisMatchesLedger
  <2> DEFINE net(s) == holdings[s].realized - holdings[s].fees
             fillsOf == [s \in ActiveSymbols |-> OfSymbol(fills, s)]
             steady == {s \in ActiveSymbols : ~Flips(fillsOf[s])}
  <2>1. fills \in Seq(Fills)
    BY <1>1 DEF Ledgers, LedgerTypes
  <2>2. ActiveSymbols \subseteq Symbols
    <3>1. \A i \in DOMAIN fills : fills[i] \in Fills
      BY <2>1
    <3> QED
      BY <3>1 DEF ActiveSymbols, Fills
  <2>3. ASSUME NEW s \in steady
        PROVE  /\ SymbolMetrics(fillsOf[s]).realized = net(s)
               /\ SymbolMetrics(fillsOf[s]).wins <= score.winners
    BY <1>1, <2>2 DEF SymbolsAgree, SymbolAgrees
  <2>4. ASSUME NEW s \in steady, ActiveSymbols = {s}
        PROVE  MetricsFromFills(fills).realized = net(s) - Slippage(fillsOf[s])
    <3>1. \A k \in 1..Len(fills) : fills[k].symbol = s
      <4>1. \A k \in 1..Len(fills) : fills[k].symbol \in ActiveSymbols
        BY <2>1 DEF ActiveSymbols
      <4> QED
        BY <2>4, <4>1
    <3>2. fillsOf[s] = fills
      BY <2>1, <3>1, OfSymbolIs
    <3>3. MetricsFromFills(fills).realized = SymbolMetrics(fills).realized - Slippage(fills)
      BY <2>1, EvaluatorTakesTheSlippage
    <3>4. SymbolMetrics(fillsOf[s]).realized = net(s)
      BY <2>3
    <3> HIDE DEF net, fillsOf
    <3> QED
      BY <3>2, <3>3, <3>4
  <2>5. ASSUME steady = ActiveSymbols
        PROVE  /\ {s \in steady : \A t \in steady : net(t) <= net(s)}
                    \subseteq BestSymbols(fillsOf)
               /\ \A s \in BestSymbols(fillsOf), t \in steady :
                    net(t) - net(s) <= ReturnStep
    <3>1. DOMAIN fillsOf = steady
      BY <2>5
    <3>2. \A s \in steady : SymbolMetrics(fillsOf[s]).realized = net(s)
      BY <2>3
    <3>3. \A s \in steady : net(s) \in Int
      <4>1. \A s \in Symbols : holdings[s] \in Positions
        BY <1>1 DEF Ledgers, LedgerTypes
      <4> QED
        BY <2>2, <4>1 DEF Positions
    <3> HIDE DEF net, fillsOf, steady
    <3>4. BestSymbols(fillsOf)
             = {s \in steady : \A t \in steady : Rounded(net(t)) <= Rounded(net(s))}
      BY <3>1, <3>2 DEF BestSymbols
    <3> QED
      BY <3>3, <3>4, RoundingKeepsOrder
  <2> HIDE DEF net, fillsOf, steady
  <2>6. /\ \A s \in steady :
              /\ SymbolMetrics(fillsOf[s]).realized = net(s)
              /\ SymbolMetrics(fillsOf[s]).wins <= score.winners
              /\ ActiveSymbols = {s} => MetricsFromFills(fills).realized
                                          = net(s) - Slippage(fillsOf[s])
        /\ steady = ActiveSymbols =>
              /\ {s \in steady : \A t \in steady : net(t) <= net(s)}
                    \subseteq BestSymbols(fillsOf)
              /\ \A s \in BestSymbols(fillsOf), t \in steady :
                    net(t) - net(s) <= ReturnStep
    BY <2>3, <2>4, <2>5
  <2> QED
    BY <2>6 DEF AnalysisMatchesLedger, net, fillsOf, steady
<1> QED
  BY <1>1, LedgersHold, SymbolsAlwaysAgree, PTL

-----------------------------------------------------------------------------
(* The tracker and the analysis of the same trades.                        *)

\* F is the search of FindPriceAt, window by window.
Middle(window) == (window[1] + window[2]) \div 2

Searching(F, line, target) ==
    F = [window \in (DOMAIN line) \X (DOMAIN line) |->
            IF window[1] >= window[2] THEN line[window[1]].price
            ELSE IF line[Middle(window)].at < target
                 THEN F[<<Middle(window) + 1, window[2]>>]
            ELSE F[<<window[1], Middle(window)>>]]

LEMMA SearchUnfolds ==
    ASSUME NEW line, NEW target
    PROVE  FindPriceAt(line, target) =
              IF line = <<>> \/ target > Last(line).at THEN Pending
              ELSE (CHOOSE F : Searching(F, line, target))[<<1, Len(line)>>]
BY DEF FindPriceAt, Searching, Middle

LEMMA SearchTurn ==
    ASSUME NEW line, NEW target, NEW F, Searching(F, line, target),
           NEW lo \in DOMAIN line, NEW hi \in DOMAIN line
    PROVE  F[<<lo, hi>>] = IF lo >= hi THEN line[lo].price
                       ELSE IF line[(lo + hi) \div 2].at < target
                            THEN F[<<(lo + hi) \div 2 + 1, hi>>]
                       ELSE F[<<lo, (lo + hi) \div 2>>]
<1> <<lo, hi>> \in (DOMAIN line) \X (DOMAIN line)
  OBVIOUS
<1> QED
  BY DEF Searching, Middle

\* The k-th entry is the first of those from lo to hi at or after the target,
\* or the last of them.
FirstAt(k, line, target, lo, hi) ==
    /\ k \in lo..hi /\ (k = hi \/ line[k].at >= target)
    /\ \A j \in lo..(k - 1) : line[j].at < target

InOrder(line, n) ==
    /\ n \in Nat /\ DOMAIN line = 1..n /\ \A i \in 1..n : line[i].at \in Int
    /\ \A i, j \in 1..n : i < j => line[i].at <= line[j].at

LEMMA ThereIsAFirst ==
    ASSUME NEW n, NEW line, InOrder(line, n), NEW target \in Int,
           NEW lo \in 1..n, NEW hi \in 1..n, lo <= hi
    PROVE  /\ \E k : FirstAt(k, line, target, lo, hi)
           /\ \A k, l : FirstAt(k, line, target, lo, hi) /\ FirstAt(l, line, target, lo, hi)
                        => k = l
<1> DEFINE late(k) == k = hi \/ line[k].at >= target
           T == {k \in Nat : k \in lo..hi /\ late(k)}
<1>1. n \in Nat /\ lo \in Nat /\ hi \in Nat /\ \A i \in lo..hi : i \in 1..n /\ line[i].at \in Int
  BY DEF InOrder
<1>2. hi \in T
  BY <1>1
<1>3. PICK k \in T : \A y \in T : k <= y
  <2>1. T \in SUBSET Nat /\ T # {}
    BY <1>2
  <2> HIDE DEF T
  <2> QED
    BY <2>1, Least
<1>4. k \in lo..hi /\ late(k)
  BY <1>3
<1>5. ASSUME NEW j \in lo..(k - 1) PROVE line[j].at < target
  <2>1. j \in lo..hi /\ j \in Nat /\ ~(k <= j)
    BY <1>1, <1>4
  <2>2. ~late(j)
    BY <1>3, <2>1
  <2> QED
    BY <1>1, <2>1, <2>2
<1>6. FirstAt(k, line, target, lo, hi)
  BY <1>4, <1>5 DEF FirstAt
<1>7. ASSUME NEW a, NEW b, FirstAt(a, line, target, lo, hi), FirstAt(b, line, target, lo, hi)
      PROVE  ~(a < b)
  <2>1. a \in lo..hi /\ b \in lo..hi /\ late(a)
    BY <1>7 DEF FirstAt
  <2> SUFFICES ASSUME a < b PROVE FALSE
    OBVIOUS
  <2>2. a \in lo..(b - 1) /\ a # hi
    BY <1>1, <2>1
  <2>3. line[a].at < target /\ line[a].at \in Int
    BY <1>1, <1>7, <2>1, <2>2 DEF FirstAt
  <2> QED
    BY <2>1, <2>2, <2>3
<1>8. ASSUME NEW a, NEW b, FirstAt(a, line, target, lo, hi), FirstAt(b, line, target, lo, hi)
      PROVE  a = b
  <2>1. a \in Int /\ b \in Int
    BY <1>1, <1>8 DEF FirstAt
  <2> QED
    BY <1>7, <1>8, <2>1
<1> QED
  BY <1>6, <1>8

\* The half that the search goes on with has the same first.
LEMMA HalfHasTheFirst ==
    ASSUME NEW n, NEW line, InOrder(line, n), NEW target \in Int,
           NEW lo \in 1..n, NEW hi \in 1..n, lo < hi, NEW mid, mid = (lo + hi) \div 2
    PROVE  /\ mid \in 1..n /\ mid + 1 \in 1..n /\ lo <= mid /\ mid + 1 <= hi
           /\ line[mid].at < target =>
                 \A k : FirstAt(k, line, target, mid + 1, hi) => FirstAt(k, line, target, lo, hi)
           /\ ~(line[mid].at < target) =>
                 \A k : FirstAt(k, line, target, lo, mid) => FirstAt(k, line, target, lo, hi)
<1>1. n \in Nat /\ lo \in Nat /\ hi \in Nat /\ lo <= mid /\ mid + 1 <= hi /\ mid \in Int
  BY DEF InOrder
<1>2. mid \in 1..n /\ mid + 1 \in 1..n
  BY <1>1
<1>3. \A i \in 1..n : line[i].at \in Int
  BY DEF InOrder
<1>4. ASSUME line[mid].at < target, NEW k, FirstAt(k, line, target, mid + 1, hi)
      PROVE  FirstAt(k, line, target, lo, hi)
  <2>1. k \in (mid + 1)..hi /\ (k = hi \/ line[k].at >= target)
    BY <1>4 DEF FirstAt
  <2>2. k \in lo..hi
    BY <1>1, <2>1
  <2>3. ASSUME NEW j \in lo..(k - 1) PROVE line[j].at < target
    <3>1. j \in 1..n /\ (j \in (mid + 1)..(k - 1) \/ j = mid \/ j < mid)
      BY <1>1, <2>1
    <3>2. CASE j \in (mid + 1)..(k - 1)
      BY <1>4, <3>2 DEF FirstAt
    <3>3. CASE j = mid
      BY <1>4, <3>3
    <3>4. CASE j < mid
      <4>1. line[j].at <= line[mid].at
        BY <1>2, <3>1, <3>4 DEF InOrder
      <4> QED
        BY <1>2, <1>3, <1>4, <3>1, <4>1
    <3> QED
      BY <3>1, <3>2, <3>3, <3>4
  <2> QED
    BY <2>1, <2>2, <2>3 DEF FirstAt
<1>5. ASSUME ~(line[mid].at < target), NEW k, FirstAt(k, line, target, lo, mid)
      PROVE  FirstAt(k, line, target, lo, hi)
  <2>1. k \in lo..mid /\ (k = mid \/ line[k].at >= target)
        /\ \A j \in lo..(k - 1) : line[j].at < target
    BY <1>5 DEF FirstAt
  <2>2. line[k].at >= target
    BY <1>2, <1>3, <1>5, <2>1
  <2>3. k \in lo..hi
    BY <1>1, <2>1
  <2> QED
    BY <2>1, <2>2, <2>3 DEF FirstAt
<1> QED
  BY <1>1, <1>2, <1>4, <1>5

LEMMA SearchExists ==
    ASSUME NEW n, NEW line, InOrder(line, n), NEW target \in Int
    PROVE  \E F : Searching(F, line, target)
<1> DEFINE first(lo, hi) == CHOOSE k : FirstAt(k, line, target, lo, hi)
           F == [window \in (DOMAIN line) \X (DOMAIN line) |->
                    IF window[1] >= window[2] THEN line[window[1]].price
                    ELSE line[first(window[1], window[2])].price]
           turn(window) ==
                    IF window[1] >= window[2] THEN line[window[1]].price
                    ELSE IF line[Middle(window)].at < target
                         THEN F[<<Middle(window) + 1, window[2]>>]
                    ELSE F[<<window[1], Middle(window)>>]
<1>1. n \in Nat /\ DOMAIN line = 1..n
  BY DEF InOrder
<1>2. ASSUME NEW lo \in 1..n, NEW hi \in 1..n, lo <= hi
      PROVE  F[<<lo, hi>>] = line[first(lo, hi)].price
  <2>1. <<lo, hi>> \in (DOMAIN line) \X (DOMAIN line)
    BY <1>1
  <2>2. CASE lo < hi
    <3>1. ~(lo >= hi)
      BY <1>1, <2>2
    <3> HIDE DEF first
    <3> QED
      BY <2>1, <3>1
  <2>3. CASE lo = hi
    <3>1. FirstAt(first(lo, hi), line, target, lo, hi)
      BY <1>2, ThereIsAFirst
    <3>2. first(lo, hi) = lo
      BY <1>1, <2>3, <3>1 DEF FirstAt
    <3> QED
      BY <1>1, <2>1, <2>3, <3>2
  <2> QED
    BY <1>1, <1>2, <2>2, <2>3
<1>3. ASSUME NEW window \in (DOMAIN line) \X (DOMAIN line)
      PROVE  F[window] = turn(window)
  <2>1. PICK lo \in 1..n, hi \in 1..n : window = <<lo, hi>>
    BY <1>1
  <2> DEFINE mid == (lo + hi) \div 2
  <2>2. window[1] = lo /\ window[2] = hi /\ Middle(window) = mid
    BY <2>1 DEF Middle
  <2>3. CASE ~(lo < hi)
    <3>1. lo >= hi
      BY <1>1, <2>3
    <3> QED
      BY <2>2, <3>1
  <2>4. CASE lo < hi
    <3> HIDE DEF F
    <3>1. lo <= hi /\ ~(lo >= hi)
      BY <1>1, <2>4
    <3>2. FirstAt(first(lo, hi), line, target, lo, hi)
      BY <3>1, ThereIsAFirst
    <3>3. /\ mid \in 1..n /\ mid + 1 \in 1..n /\ lo <= mid /\ mid + 1 <= hi
          /\ line[mid].at < target =>
                \A k : FirstAt(k, line, target, mid + 1, hi) => FirstAt(k, line, target, lo, hi)
          /\ ~(line[mid].at < target) =>
                \A k : FirstAt(k, line, target, lo, mid) => FirstAt(k, line, target, lo, hi)
      BY <2>4, HalfHasTheFirst
    <3> HIDE DEF mid
    <3>4. F[window] = line[first(lo, hi)].price
      BY <1>2, <2>1, <3>1
    <3>5. CASE line[mid].at < target
      <4>1. FirstAt(first(mid + 1, hi), line, target, mid + 1, hi)
        BY <3>3, ThereIsAFirst
      <4>2. first(mid + 1, hi) = first(lo, hi)
        <5> HIDE DEF first
        <5> QED
          BY <3>1, <3>2, <3>3, <3>5, <4>1, ThereIsAFirst
      <4>3. F[<<mid + 1, hi>>] = line[first(mid + 1, hi)].price
        BY <1>2, <3>3
      <4> QED
        BY <2>2, <3>1, <3>4, <3>5, <4>2, <4>3
    <3>6. CASE ~(line[mid].at < target)
      <4>1. FirstAt(first(lo, mid), line, target, lo, mid)
        BY <3>3, ThereIsAFirst
      <4>2. first(lo, mid) = first(lo, hi)
        <5> HIDE DEF first
        <5> QED
          BY <3>1, <3>2, <3>3, <3>6, <4>1, ThereIsAFirst
      <4>3. F[<<lo, mid>>] = line[first(lo, mid)].price
        BY <1>2, <3>3
      <4> QED
        BY <2>2, <3>1, <3>4, <3>6, <4>2, <4>3
    <3> QED
      BY <3>5, <3>6
  <2> QED
    BY <2>3, <2>4
<1>4. F = [window \in (DOMAIN line) \X (DOMAIN line) |-> turn(window)]
  <2>1. DOMAIN F = (DOMAIN line) \X (DOMAIN line)
    OBVIOUS
  <2> HIDE DEF F, turn
  <2>2. \A window \in (DOMAIN line) \X (DOMAIN line) : F[window] = turn(window)
    BY <1>3
  <2>3. F = [window \in DOMAIN F |-> F[window]]
    BY DEF F
  <2> QED
    BY <2>1, <2>2, <2>3
<1> HIDE DEF F
<1>5. Searching(F, line, target)
  BY <1>4 DEF Searching
<1> QED
  BY <1>5

\* What the search finds is the first of its window.
LEMMA SearchFinds ==
    ASSUME NEW n, NEW line, InOrder(line, n), NEW target \in Int,
           NEW F, Searching(F, line, target), NEW k, FirstAt(k, line, target, 1, n), n > 0
    PROVE  F[<<1, n>>] = line[k].price
<1> DEFINE Finds(lo, hi) ==
               \A i : FirstAt(i, line, target, lo, hi) => F[<<lo, hi>>] = line[i].price
           T == {d \in Nat : \A lo, hi \in 1..n : lo <= hi /\ hi - lo <= d => Finds(lo, hi)}
<1>1. n \in Nat /\ DOMAIN line = 1..n
  BY DEF InOrder
<1>2. ASSUME NEW lo \in 1..n, NEW hi \in 1..n, lo = hi PROVE Finds(lo, hi)
  <2>1. F[<<lo, hi>>] = line[lo].price
    <3>1. lo \in DOMAIN line /\ hi \in DOMAIN line /\ lo >= hi
      BY <1>1, <1>2
    <3> QED
      BY <3>1, SearchTurn
  <2>2. \A i : FirstAt(i, line, target, lo, hi) => i = lo
    BY <1>1, <1>2 DEF FirstAt
  <2> QED
    BY <2>1, <2>2
<1>3. 0 \in T
  <2>1. \A lo, hi \in 1..n : lo <= hi /\ hi - lo <= 0 => lo = hi
    BY <1>1
  <2> HIDE DEF Finds
  <2> QED
    BY <1>2, <2>1
<1>4. ASSUME NEW d \in Nat, d \in T PROVE d + 1 \in T
  <2> SUFFICES ASSUME NEW lo \in 1..n, NEW hi \in 1..n, lo <= hi, hi - lo <= d + 1
               PROVE  Finds(lo, hi)
    OBVIOUS
  <2> DEFINE mid == (lo + hi) \div 2
  <2>1. CASE lo < hi
    <3>1. /\ mid \in 1..n /\ mid + 1 \in 1..n /\ lo <= mid /\ mid + 1 <= hi
          /\ line[mid].at < target =>
                \A i : FirstAt(i, line, target, mid + 1, hi) => FirstAt(i, line, target, lo, hi)
          /\ ~(line[mid].at < target) =>
                \A i : FirstAt(i, line, target, lo, mid) => FirstAt(i, line, target, lo, hi)
      BY <2>1, HalfHasTheFirst
    <3>2. F[<<lo, hi>>] = IF line[mid].at < target THEN F[<<mid + 1, hi>>] ELSE F[<<lo, mid>>]
      <4>1. ~(lo >= hi)
        BY <1>1, <2>1
      <4>2. lo \in DOMAIN line /\ hi \in DOMAIN line
        BY <1>1
      <4> QED
        BY <4>1, <4>2, SearchTurn
    <3> HIDE DEF mid
    <3>3. hi - (mid + 1) <= d /\ mid - lo <= d
      BY <1>1, <3>1
    <3>4. Finds(mid + 1, hi) /\ Finds(lo, mid)
      <4> HIDE DEF Finds
      <4> QED
        BY <1>4, <3>1, <3>3
    <3>5. ASSUME NEW i, FirstAt(i, line, target, lo, hi) PROVE F[<<lo, hi>>] = line[i].price
      <4>1. CASE line[mid].at < target
        <5>1. PICK j : FirstAt(j, line, target, mid + 1, hi)
          BY <3>1, ThereIsAFirst
        <5>2. j = i
          BY <1>1, <2>1, <3>1, <3>5, <4>1, <5>1, ThereIsAFirst
        <5> QED
          BY <3>2, <3>4, <4>1, <5>1, <5>2
      <4>2. CASE ~(line[mid].at < target)
        <5>1. PICK j : FirstAt(j, line, target, lo, mid)
          BY <3>1, ThereIsAFirst
        <5>2. j = i
          BY <1>1, <2>1, <3>1, <3>5, <4>2, <5>1, ThereIsAFirst
        <5> QED
          BY <3>2, <3>4, <4>2, <5>1, <5>2
      <4> QED
        BY <4>1, <4>2
    <3> QED
      BY <3>5
  <2>2. CASE lo = hi
    BY <1>2, <2>2
  <2> QED
    BY <1>1, <2>1, <2>2
<1> HIDE DEF T
<1>5. n - 1 \in T
  <2>1. Nat \subseteq T
    BY ONLY <1>3, <1>4, Induct
  <2>2. n - 1 \in Nat
    BY <1>1
  <2> QED
    BY <2>1, <2>2
<1>6. 1 \in 1..n /\ n \in 1..n /\ 1 <= n /\ n - 1 <= n - 1
  BY <1>1
<1>7. Finds(1, n)
  <2> HIDE DEF Finds
  <2> QED
    BY <1>5, <1>6 DEF T
<1> QED
  BY <1>7

(* FindPriceAt: over trades in the order of their timestamps, however many *)
(* and whatever their times, the binary search returns the price of the    *)
(* first at or after the target, and nothing only if there is none.        *)
THEOREM SearchFindsTheFirst ==
    ASSUME NEW S, NEW line \in Seq(S), NEW target \in Int,
           \A i \in 1..Len(line) : line[i].at \in Int,
           \A i, j \in 1..Len(line) : i < j => line[i].at <= line[j].at
    PROVE  /\ (\A i \in 1..Len(line) : line[i].at < target)
                  => FindPriceAt(line, target) = Pending
           /\ \A k \in 1..Len(line) :
                 line[k].at >= target /\ (\A j \in 1..(k - 1) : line[j].at < target)
                     => FindPriceAt(line, target) = line[k].price
<1> DEFINE n == Len(line)
           F == CHOOSE F : Searching(F, line, target)
<1>1. n \in Nat /\ DOMAIN line = 1..n /\ (n > 0 => Last(line) = line[n]) /\ (n > 0 <=> line # <<>>)
  BY DEF Last
<1>2. InOrder(line, n)
  BY <1>1 DEF InOrder
<1>3. FindPriceAt(line, target) = IF line = <<>> \/ target > Last(line).at THEN Pending
                                  ELSE F[<<1, n>>]
  BY SearchUnfolds
<1>4. Searching(F, line, target)
  BY <1>2, SearchExists
<1> HIDE DEF F, n
<1>5. ASSUME \A i \in 1..n : line[i].at < target PROVE FindPriceAt(line, target) = Pending
  <2>1. CASE n > 0
    <3>1. n \in 1..n
      BY <1>1, <2>1
    <3>2. line[n].at \in Int /\ line[n].at < target
      BY <1>2, <1>5, <3>1 DEF InOrder
    <3>3. target > Last(line).at
      BY <1>1, <2>1, <3>2
    <3> QED
      BY <1>3, <3>3
  <2> QED
    BY <1>1, <1>3, <2>1
<1>6. ASSUME NEW k \in 1..n, line[k].at >= target, \A j \in 1..(k - 1) : line[j].at < target
      PROVE  FindPriceAt(line, target) = line[k].price
  <2>1. n > 0 /\ k \in Int /\ n \in 1..n /\ (k = n \/ k < n)
    BY <1>1
  <2>2. line[n].at \in Int /\ line[k].at \in Int /\ line[k].at <= line[n].at
    BY <1>2, <2>1 DEF InOrder
  <2>3. ~(target > Last(line).at) /\ line # <<>>
    BY <1>1, <1>6, <2>1, <2>2
  <2>4. FirstAt(k, line, target, 1, n)
    BY <1>6 DEF FirstAt
  <2>5. F[<<1, n>>] = line[k].price
    BY <1>2, <1>4, <2>1, <2>4, SearchFinds
  <2> QED
    BY <1>3, <2>3, <2>5
<1> QED
  BY <1>5, <1>6 DEF n

-----------------------------------------------------------------------------
(* The trades with a timestamp, and those of a symbol in their order.      *)

LEMMA TimedIsALoop ==
    ASSUME NEW S, NEW filled \in Seq(S)
    PROVE  \E w : /\ w[0] = <<>>
                  /\ \A k \in 1..Len(filled) :
                        w[k] = IF filled[k].at > 0 THEN Append(w[k - 1], filled[k])
                               ELSE w[k - 1]
                  /\ Timed(filled) = w[Len(filled)]
<1> DEFINE n == Len(filled)
           R == Seq(S)
           One(own, f) == IF f.at > 0 THEN Append(own, f) ELSE own
           turn == [p \in (1..n) \X R |-> One(p[2], filled[p[1]])]
           Is(F) == F = [s \in SUBSET DOMAIN filled |->
                            IF s = {} THEN <<>> ELSE One(F[s \ {Max(s)}], filled[Max(s)])]
           G == CHOOSE F : Is(F)
<1>1. n \in Nat /\ DOMAIN filled = 1..n /\ \A k \in 1..n : filled[k] \in S
  OBVIOUS
<1>2. turn \in [(1..n) \X R -> R] /\ <<>> \in R
  BY <1>1
<1>3. \E F : Is(F)
  <2>1. PICK F \in [SUBSET (1..n) -> R] : IsFold(F, <<>>, turn, n)
    <3> HIDE DEF turn, n, R
    <3>1. Folded(<<>>, turn, R, n)
      BY ONLY <1>1, <1>2, FoldExists
    <3> QED
      BY ONLY <3>1 DEF Folded
  <2>2. ASSUME NEW s \in SUBSET (1..n), s # {}
        PROVE  F[s] = One(F[s \ {Max(s)}], filled[Max(s)])
    <3>1. Max(s) \in 1..n /\ s \ {Max(s)} \in SUBSET (1..n)
      BY <1>1, <2>2, LastOfSome
    <3>2. <<Max(s), F[s \ {Max(s)}]>> \in (1..n) \X R
      BY <3>1
    <3>3. F[s] = turn[<<Max(s), F[s \ {Max(s)}]>>]
      <4> HIDE DEF turn
      <4> QED
        BY <2>1, <2>2 DEF IsFold
    <3> QED
      BY <3>2, <3>3
  <2>3. F[{}] = <<>>
    <3> HIDE DEF turn
    <3> QED
      BY <2>1 DEF IsFold
  <2>4. Is(F)
    BY <1>1, <2>2, <2>3
  <2> QED
    BY <2>4
<1>4. Is(G)
  BY <1>3
<1>5. Timed(filled) = G[DOMAIN filled]
  BY DEF Timed, FoldLeft, MapThenFoldSet
<1>6. PICK H : H = G
  OBVIOUS
<1> DEFINE w == [k \in 0..n |-> H[1..k]]
<1>7. w[0] = <<>>
  <2>1. 1..0 = {} /\ 0 \in 0..n /\ {} \in SUBSET DOMAIN filled
    BY <1>1
  <2> HIDE DEF G, n
  <2> QED
    BY <1>4, <1>6, <2>1
<1>8. ASSUME NEW k \in 1..n PROVE w[k] = One(w[k - 1], filled[k])
  <2>1. /\ 1..k # {} /\ 1..k \in SUBSET DOMAIN filled /\ k \in 0..n /\ k - 1 \in 0..n
        /\ Max(1..k) = k /\ (1..k) \ {k} = 1..(k - 1)
    BY <1>1, FirstOnes
  <2> HIDE DEF G, n
  <2>2. H[1..k] = One(H[(1..k) \ {Max(1..k)}], filled[Max(1..k)])
    BY <1>4, <1>6, <2>1
  <2> HIDE DEF One
  <2> QED
    BY <2>1, <2>2
<1>9. Timed(filled) = w[n]
  <2>1. n \in 0..n
    BY <1>1
  <2> HIDE DEF G, n
  <2> QED
    BY <1>1, <1>5, <1>6, <2>1
<1> HIDE DEF w
<1> QED
  BY <1>7, <1>8, <1>9

LEMMA TimedGrows ==
    ASSUME NEW S, NEW filled \in Seq(S), NEW e \in S
    PROVE  Timed(Append(filled, e)) =
              IF e.at > 0 THEN Append(Timed(filled), e)
              ELSE Timed(filled)
<1> DEFINE more == Append(filled, e)
           n == Len(filled)
<1>1. more \in Seq(S) /\ n \in Nat /\ Len(more) = n + 1 /\ more[n + 1] = e
      /\ \A k \in 1..n : more[k] = filled[k]
  BY OneMoreFill
<1> HIDE DEF more
<1>2. PICK w : /\ w[0] = <<>>
               /\ \A k \in 1..n :
                     w[k] = IF filled[k].at > 0 THEN Append(w[k - 1], filled[k])
                            ELSE w[k - 1]
               /\ Timed(filled) = w[n]
  BY TimedIsALoop
<1>3. PICK x : /\ x[0] = <<>>
               /\ \A k \in 1..Len(more) :
                     x[k] = IF more[k].at > 0 THEN Append(x[k - 1], more[k])
                            ELSE x[k - 1]
               /\ Timed(more) = x[Len(more)]
  BY <1>1, TimedIsALoop
<1> DEFINE T == {k \in 0..n : x[k] = w[k]}
<1> HIDE DEF n
<1>4. 0 \in T
  BY <1>1, <1>2, <1>3
<1>5. ASSUME NEW k \in 1..n, k - 1 \in T PROVE k \in T
  <2>1. k \in 1..Len(more) /\ k \in 0..n /\ x[k - 1] = w[k - 1] /\ more[k] = filled[k]
    BY <1>1, <1>5
  <2>2. x[k] = w[k]
    BY ONLY <1>2, <1>3, <2>1, k \in 1..n
  <2> QED
    BY <2>1, <2>2
<1> HIDE DEF T
<1>6. \A k \in 0..n : k \in T
  BY ONLY <1>1, <1>4, <1>5, Turns
<1>7. x[n] = w[n]
  BY <1>1, <1>6 DEF T
<1>8. n + 1 \in 1..Len(more) /\ (n + 1) - 1 = n
  BY <1>1
<1>9. x[n + 1] = IF e.at > 0 THEN Append(x[n], e) ELSE x[n]
  BY ONLY <1>1, <1>3, <1>8
<1>10. Timed(more) = x[n + 1]
  BY <1>1, <1>3
<1> QED
  BY <1>2, <1>7, <1>9, <1>10 DEF more

LEMMA PlacedIs ==
    ASSUME NEW S, NEW line \in Seq(S), NEW t \in S
    PROVE  /\ Placed(line, t) \in Seq(S)
           /\ (\A i \in 1..Len(line) : ~Earlier(t, line[i])) => Placed(line, t) = Append(line, t)
<1> DEFINE n == Len(line)
           passed == {i \in DOMAIN line : ~Earlier(t, line[i])}
           m == Cardinality(passed)
<1>1. n \in Nat /\ DOMAIN line = 1..n
  OBVIOUS
<1>2. IsFiniteSet(1..n) /\ Cardinality(1..n) = n
  BY <1>1, FS_Interval
<1>3. m \in Nat /\ m <= n
  <2>1. passed \subseteq 1..n
    BY <1>1
  <2> HIDE DEF passed, n
  <2> QED
    BY <1>2, <2>1, FS_Subset, FS_CardinalityType
<1>4. (\A i \in 1..n : ~Earlier(t, line[i])) => m = n
  <2> SUFFICES ASSUME \A i \in 1..n : ~Earlier(t, line[i]) PROVE m = n
    OBVIOUS
  <2>1. passed = 1..n
    BY <1>1
  <2> QED
    BY <1>2, <2>1
<1>5. Placed(line, t) = SubSeq(line, 1, (m + 1) - 1) \o <<t>> \o SubSeq(line, m + 1, n)
  BY DEF Placed, InsertAt
<1> HIDE DEF m
<1>6. Placed(line, t) = SubSeq(line, 1, m) \o <<t>> \o SubSeq(line, m + 1, n)
  <2>1. (m + 1) - 1 = m
    BY <1>3
  <2> HIDE DEF n
  <2> QED
    BY ONLY <1>5, <2>1, Zenon
<1>7. SubSeq(line, 1, m) \in Seq(S) /\ SubSeq(line, m + 1, n) \in Seq(S) /\ <<t>> \in Seq(S)
  BY <1>1, <1>3
<1>8. Placed(line, t) \in Seq(S)
  BY <1>6, <1>7
<1>9. ASSUME m = n PROVE Placed(line, t) = Append(line, t)
  <2>1. SubSeq(line, 1, n) = line /\ SubSeq(line, n + 1, n) = <<>>
    BY <1>1
  <2>2. Placed(line, t) = (line \o <<t>>) \o <<>>
    BY <1>6, <1>9, <2>1
  <2>3. line \o <<t>> = Append(line, t) /\ Append(line, t) \in Seq(S)
    OBVIOUS
  <2>4. Append(line, t) \o <<>> = Append(line, t)
    BY <2>3
  <2> QED
    BY <2>2, <2>3, <2>4
<1> QED
  BY <1>4, <1>8, <1>9

LEMMA TimelineIsALoop ==
    ASSUME NEW S, NEW filled \in Seq(S), NEW sym
    PROVE  \E w : /\ w[0] = <<>>
                  /\ \A k \in 1..Len(filled) :
                        w[k] = IF filled[k].symbol = sym THEN Placed(w[k - 1], filled[k])
                               ELSE w[k - 1]
                  /\ Timeline(filled, sym) = w[Len(filled)]
<1> DEFINE n == Len(filled)
           R == Seq(S)
           One(own, f) == IF f.symbol = sym THEN Placed(own, f) ELSE own
           turn == [p \in (1..n) \X R |-> One(p[2], filled[p[1]])]
           Is(F) == F = [s \in SUBSET DOMAIN filled |->
                            IF s = {} THEN <<>> ELSE One(F[s \ {Max(s)}], filled[Max(s)])]
           G == CHOOSE F : Is(F)
<1>1. n \in Nat /\ DOMAIN filled = 1..n /\ \A k \in 1..n : filled[k] \in S
  OBVIOUS
<1>2. turn \in [(1..n) \X R -> R] /\ <<>> \in R
  <2>1. ASSUME NEW k \in 1..n, NEW own \in R PROVE One(own, filled[k]) \in R
    <3>1. Placed(own, filled[k]) \in Seq(S)
      BY <1>1, PlacedIs
    <3> QED
      BY <3>1
  <2> HIDE DEF One, R
  <2>2. turn \in [(1..n) \X R -> R]
    BY <2>1
  <2> QED
    BY <2>2 DEF R
<1>3. \E F : Is(F)
  <2>1. PICK F \in [SUBSET (1..n) -> R] : IsFold(F, <<>>, turn, n)
    <3> HIDE DEF turn, n, R
    <3>1. Folded(<<>>, turn, R, n)
      BY ONLY <1>1, <1>2, FoldExists
    <3> QED
      BY ONLY <3>1 DEF Folded
  <2>2. ASSUME NEW s \in SUBSET (1..n), s # {}
        PROVE  F[s] = One(F[s \ {Max(s)}], filled[Max(s)])
    <3>1. Max(s) \in 1..n /\ s \ {Max(s)} \in SUBSET (1..n)
      BY <1>1, <2>2, LastOfSome
    <3>2. <<Max(s), F[s \ {Max(s)}]>> \in (1..n) \X R
      BY <3>1
    <3>3. F[s] = turn[<<Max(s), F[s \ {Max(s)}]>>]
      <4> HIDE DEF turn
      <4> QED
        BY <2>1, <2>2 DEF IsFold
    <3> QED
      BY <3>2, <3>3
  <2>3. F[{}] = <<>>
    <3> HIDE DEF turn
    <3> QED
      BY <2>1 DEF IsFold
  <2>4. Is(F)
    BY <1>1, <2>2, <2>3
  <2> QED
    BY <2>4
<1>4. Is(G)
  BY <1>3
<1>5. Timeline(filled, sym) = G[DOMAIN filled]
  BY DEF Timeline, FoldLeft, MapThenFoldSet
<1>6. PICK H : H = G
  OBVIOUS
<1> DEFINE w == [k \in 0..n |-> H[1..k]]
<1>7. w[0] = <<>>
  <2>1. 1..0 = {} /\ 0 \in 0..n /\ {} \in SUBSET DOMAIN filled
    BY <1>1
  <2> HIDE DEF G, n
  <2> QED
    BY <1>4, <1>6, <2>1
<1>8. ASSUME NEW k \in 1..n PROVE w[k] = One(w[k - 1], filled[k])
  <2>1. /\ 1..k # {} /\ 1..k \in SUBSET DOMAIN filled /\ k \in 0..n /\ k - 1 \in 0..n
        /\ Max(1..k) = k /\ (1..k) \ {k} = 1..(k - 1)
    BY <1>1, FirstOnes
  <2> HIDE DEF G, n
  <2>2. H[1..k] = One(H[(1..k) \ {Max(1..k)}], filled[Max(1..k)])
    BY <1>4, <1>6, <2>1
  <2> HIDE DEF One
  <2> QED
    BY <2>1, <2>2
<1>9. Timeline(filled, sym) = w[n]
  <2>1. n \in 0..n
    BY <1>1
  <2> HIDE DEF G, n
  <2> QED
    BY <1>1, <1>5, <1>6, <2>1
<1> HIDE DEF w
<1> QED
  BY <1>7, <1>8, <1>9

LEMMA TimelineGrows ==
    ASSUME NEW S, NEW filled \in Seq(S), NEW e \in S, NEW sym
    PROVE  Timeline(Append(filled, e), sym) =
              IF e.symbol = sym THEN Placed(Timeline(filled, sym), e)
              ELSE Timeline(filled, sym)
<1> DEFINE more == Append(filled, e)
           n == Len(filled)
<1>1. more \in Seq(S) /\ n \in Nat /\ Len(more) = n + 1 /\ more[n + 1] = e
      /\ \A k \in 1..n : more[k] = filled[k]
  BY OneMoreFill
<1> HIDE DEF more
<1>2. PICK w : /\ w[0] = <<>>
               /\ \A k \in 1..n :
                     w[k] = IF filled[k].symbol = sym THEN Placed(w[k - 1], filled[k])
                            ELSE w[k - 1]
               /\ Timeline(filled, sym) = w[n]
  BY TimelineIsALoop
<1>3. PICK x : /\ x[0] = <<>>
               /\ \A k \in 1..Len(more) :
                     x[k] = IF more[k].symbol = sym THEN Placed(x[k - 1], more[k])
                            ELSE x[k - 1]
               /\ Timeline(more, sym) = x[Len(more)]
  BY <1>1, TimelineIsALoop
<1> DEFINE T == {k \in 0..n : x[k] = w[k]}
<1> HIDE DEF n
<1>4. 0 \in T
  BY <1>1, <1>2, <1>3
<1>5. ASSUME NEW k \in 1..n, k - 1 \in T PROVE k \in T
  <2>1. k \in 1..Len(more) /\ k \in 0..n /\ x[k - 1] = w[k - 1] /\ more[k] = filled[k]
    BY <1>1, <1>5
  <2>2. x[k] = w[k]
    BY ONLY <1>2, <1>3, <2>1, k \in 1..n
  <2> QED
    BY <2>1, <2>2
<1> HIDE DEF T
<1>6. \A k \in 0..n : k \in T
  BY ONLY <1>1, <1>4, <1>5, Turns
<1>7. x[n] = w[n]
  BY <1>1, <1>6 DEF T
<1>8. n + 1 \in 1..Len(more) /\ (n + 1) - 1 = n
  BY <1>1
<1>9. x[n + 1] = IF e.symbol = sym THEN Placed(x[n], e) ELSE x[n]
  BY ONLY <1>1, <1>3, <1>8
<1>10. Timeline(more, sym) = x[n + 1]
  BY <1>1, <1>3
<1> QED
  BY <1>2, <1>7, <1>9, <1>10 DEF more

-----------------------------------------------------------------------------
(* The horizons of a signal.                                               *)

RisesFor(seen, s) ==
    LET own == {i \in DOMAIN seen : seen[i].symbol = s /\ seen[i].at > 0}
    IN  \A i, j \in own : i < j => seen[i].at < seen[j].at

SentBefore(seen, x, h) ==
    \A i \in 1..x.since :
        seen[i].symbol = x.symbol /\ seen[i].at > 0 => seen[i].at < x.at + h

Line(seen, s) == Timeline(Timed(seen), s)

\* The timeline is made of the trades of the symbol, in their order.
Follows(seen, s) ==
    /\ Timed(seen) \in Seq(Trades) /\ Line(seen, s) \in Seq(Trades)
    /\ RisesFor(seen, s) =>
          /\ \A i, j \in 1..Len(Line(seen, s)) :
                i < j => Line(seen, s)[i].at < Line(seen, s)[j].at
          /\ \A k \in 1..Len(Line(seen, s)) : \E m \in 1..Len(seen) :
                Line(seen, s)[k] = seen[m] /\ seen[m].symbol = s /\ seen[m].at > 0

Matches(seen, x, h) ==
    RisesFor(seen, x.symbol) /\ SentBefore(seen, x, h)
        => x.returns[h] = ReturnAfterwards(x, h, Timed(seen))

\* What each tracked signal keeps to, whatever comes next.
Right(seen, x) ==
    /\ x.since \in 0..Len(seen) /\ x.mid >= 0
    /\ TradesAreStamped => \A h \in Horizons : Matches(seen, x, h)
    /\ \A nearer, h \in Horizons :
          nearer < h /\ x.returns[nearer] = Pending => x.returns[h] = Pending
    /\ ~TradesAreStamped => \A h \in Horizons : x.returns[h] = Pending

SignalsAreRight ==
    /\ \A s \in Symbols : Follows(trades, s)
    /\ \A i \in 1..Len(tracked) : Right(trades, tracked[i])

LEMMA TradeAmounts ==
    ASSUME NEW t \in Trades
    PROVE  /\ t.symbol \in Symbols /\ t.price \in Nat \ {0} /\ t.at \in Nat
           /\ t.price # Pending
<1>1. t \in [symbol : Symbols, price : Prices, at : Nat]
  BY LedgerAssumption, Zenon DEF LedgerAssumption
<1>2. t.symbol \in Symbols /\ t.price \in Prices /\ t.at \in Nat
  BY ONLY <1>1
<1>3. t.price \in Nat \ {0}
  BY <1>2, LedgerAssumption DEF LedgerAssumption
<1> QED
  BY <1>2, <1>3 DEF Pending

LEMMA HorizonsAre == \A h \in Horizons : h \in Nat \ {0}
BY AlphaDecayAssumption DEF AlphaDecayAssumption

\* One more trade goes to the end of the timeline of its symbol, when trades
\* come in order, and to no other.
LEMMA FollowsOneMore ==
    ASSUME NEW seen \in Seq(Trades), NEW t \in Trades, NEW s, Follows(seen, s)
    PROVE  /\ Follows(Append(seen, t), s)
           /\ ~(t.at > 0 /\ t.symbol = s) => Line(Append(seen, t), s) = Line(seen, s)
           /\ RisesFor(Append(seen, t), s) =>
                 /\ RisesFor(seen, s)
                 /\ t.at > 0 /\ t.symbol = s =>
                       /\ Line(Append(seen, t), s) = Append(Line(seen, s), t)
                       /\ \A k \in 1..Len(Line(seen, s)) : Line(seen, s)[k].at < t.at
<1> DEFINE more == Append(seen, t)
           n == Len(seen)
           old == Line(seen, s)
           new == Line(more, s)
           timed == Timed(seen)
<1>1. /\ more \in Seq(Trades) /\ n \in Nat /\ Len(more) = n + 1 /\ more[n + 1] = t
      /\ DOMAIN seen = 1..n /\ DOMAIN more = 1..(n + 1)
      /\ \A k \in 1..n : more[k] = seen[k] /\ seen[k] \in Trades
  OBVIOUS
<1>2. /\ timed \in Seq(Trades) /\ old \in Seq(Trades)
      /\ RisesFor(seen, s) =>
            /\ \A i, j \in 1..Len(old) : i < j => old[i].at < old[j].at
            /\ \A k \in 1..Len(old) : \E m \in 1..n :
                  old[k] = seen[m] /\ seen[m].symbol = s /\ seen[m].at > 0
  BY DEF Follows
<1>3. Timed(more) = IF t.at > 0 THEN Append(timed, t) ELSE timed
  BY TimedGrows
<1>4. Timed(more) \in Seq(Trades)
  BY <1>2, <1>3
<1>5. new = IF t.at > 0 /\ t.symbol = s THEN Placed(old, t) ELSE old
  <2>1. CASE t.at > 0
    <3>1. Timeline(Append(timed, t), s) = IF t.symbol = s THEN Placed(Timeline(timed, s), t)
                                          ELSE Timeline(timed, s)
      BY <1>2, TimelineGrows
    <3> QED
      BY <1>3, <2>1, <3>1 DEF Line
  <2>2. CASE ~(t.at > 0)
    BY <1>3, <2>2 DEF Line
  <2> QED
    BY <2>1, <2>2
<1>6. new \in Seq(Trades)
  BY <1>2, <1>5, PlacedIs
<1> HIDE DEF more, old, new, timed, n
<1>7. RisesFor(more, s) => RisesFor(seen, s)
  <2> SUFFICES ASSUME RisesFor(more, s) PROVE RisesFor(seen, s)
    OBVIOUS
  <2>1. ASSUME NEW i \in 1..n, NEW j \in 1..n, i < j, seen[i].at > 0, seen[j].at > 0,
               seen[i].symbol = s, seen[j].symbol = s
        PROVE  seen[i].at < seen[j].at
    <3>1. i \in DOMAIN more /\ j \in DOMAIN more /\ more[i] = seen[i] /\ more[j] = seen[j]
      BY <1>1
    <3> QED
      BY <2>1, <3>1 DEF RisesFor
  <2> QED
    BY <1>1, <2>1 DEF RisesFor
<1>8. ASSUME RisesFor(more, s), t.at > 0, t.symbol = s
      PROVE  /\ new = Append(old, t)
             /\ \A k \in 1..Len(old) : old[k].at < t.at
  <2>1. ASSUME NEW k \in 1..Len(old) PROVE old[k].at < t.at
    <3>1. PICK m \in 1..n : old[k] = seen[m] /\ seen[m].symbol = s /\ seen[m].at > 0
      BY <1>2, <1>7, <1>8
    <3>2. m \in DOMAIN more /\ n + 1 \in DOMAIN more /\ m < n + 1 /\ more[m] = seen[m]
      BY <1>1
    <3>3. more[m].at < more[n + 1].at
      BY <1>1, <1>8, <3>1, <3>2 DEF RisesFor
    <3> QED
      BY <1>1, <3>1, <3>2, <3>3
  <2>2. ASSUME NEW k \in 1..Len(old) PROVE ~Earlier(t, old[k])
    <3>1. old[k] \in Trades
      BY <1>2
    <3>2. old[k].at \in Nat /\ t.at \in Nat
      BY <3>1, TradeAmounts
    <3> QED
      BY <2>1, <3>2 DEF Earlier
  <2>3. new = Append(old, t)
    BY <1>2, <1>5, <1>8, <2>2, PlacedIs
  <2> QED
    BY <2>1, <2>3
<1>9. ASSUME RisesFor(more, s)
      PROVE  /\ \A i, j \in 1..Len(new) : i < j => new[i].at < new[j].at
             /\ \A k \in 1..Len(new) : \E m \in 1..Len(more) :
                   new[k] = more[m] /\ more[m].symbol = s /\ more[m].at > 0
  <2>1. ASSUME NEW k \in 1..Len(old)
        PROVE  \E m \in 1..Len(more) :
                   old[k] = more[m] /\ more[m].symbol = s /\ more[m].at > 0
    <3>1. PICK m \in 1..n : old[k] = seen[m] /\ seen[m].symbol = s /\ seen[m].at > 0
      BY <1>2, <1>7, <1>9
    <3>2. m \in 1..Len(more) /\ more[m] = seen[m]
      BY <1>1
    <3> QED
      BY <3>1, <3>2
  <2>2. CASE ~(t.at > 0 /\ t.symbol = s)
    <3>1. new = old
      BY <1>5, <2>2
    <3> QED
      BY <1>2, <1>7, <1>9, <2>1, <3>1
  <2>3. CASE t.at > 0 /\ t.symbol = s
    <3> DEFINE l == Len(old)
    <3>1. /\ l \in Nat /\ Len(new) = l + 1 /\ new[l + 1] = t
          /\ \A k \in 1..l : new[k] = old[k]
      <4>1. new = Append(old, t) /\ old \in Seq(Trades)
        BY <1>2, <1>8, <1>9, <2>3
      <4> QED
        BY <4>1, OneMoreFill
    <3>2. \A k \in 1..l : old[k].at < t.at
      BY <1>8, <1>9, <2>3
    <3>3. \A i, j \in 1..l : i < j => old[i].at < old[j].at
      BY <1>2, <1>7, <1>9
    <3> HIDE DEF l
    <3>4. ASSUME NEW i \in 1..(l + 1), NEW j \in 1..(l + 1), i < j
          PROVE  new[i].at < new[j].at
      <4>1. i \in 1..l /\ (j \in 1..l \/ j = l + 1)
        BY <3>1, <3>4
      <4>2. CASE j \in 1..l
        BY <3>1, <3>3, <3>4, <4>1, <4>2
      <4>3. CASE j = l + 1
        BY <3>1, <3>2, <4>1, <4>3
      <4> QED
        BY <4>1, <4>2, <4>3
    <3>5. ASSUME NEW k \in 1..(l + 1)
          PROVE  \E m \in 1..Len(more) :
                     new[k] = more[m] /\ more[m].symbol = s /\ more[m].at > 0
      <4>1. k \in 1..l \/ k = l + 1
        BY <3>1
      <4>2. CASE k \in 1..l
        BY <2>1, <3>1, <4>2 DEF l
      <4>3. CASE k = l + 1
        <5>1. n + 1 \in 1..Len(more) /\ more[n + 1] = new[k]
          BY <1>1, <3>1, <4>3
        <5> QED
          BY <1>1, <2>3, <5>1
      <4> QED
        BY <4>1, <4>2, <4>3
    <3> QED
      BY <3>1, <3>4, <3>5
  <2> QED
    BY <2>2, <2>3
<1>10. Follows(more, s)
  BY <1>4, <1>6, <1>9 DEF Follows, new
<1> QED
  BY <1>5, <1>7, <1>8, <1>10 DEF more, new, old

Sorted(line) ==
    /\ line \in Seq(Trades)
    /\ \A i \in 1..Len(line) : line[i] \in Trades /\ line[i].at \in Int
    /\ \A i, j \in 1..Len(line) : i < j => line[i].at <= line[j].at

LEMMA LineIsInOrder ==
    ASSUME NEW seen \in Seq(Trades), NEW s, Follows(seen, s), RisesFor(seen, s)
    PROVE  Sorted(Line(seen, s))
<1> DEFINE line == Line(seen, s)
<1>1. line \in Seq(Trades) /\ \A i, j \in 1..Len(line) : i < j => line[i].at < line[j].at
  BY DEF Follows
<1> HIDE DEF line
<1>2. \A i \in 1..Len(line) : line[i] \in Trades
  BY <1>1
<1>3. \A i \in 1..Len(line) : line[i].at \in Int
  BY <1>2, TradeAmounts
<1> QED
  BY <1>1, <1>2, <1>3 DEF Sorted, line

LEMMA EvaluatedIs ==
    ASSUME NEW x \in Tracked, NEW symbol, NEW at \in Int, NEW price \in Int, NEW y,
           y = Evaluated(x, symbol, at, price)
    PROVE  /\ y.symbol = x.symbol /\ y.at = x.at /\ y.mid = x.mid /\ y.since = x.since
           /\ x.symbol # symbol \/ x.mid = 0 => y = x
           /\ ~(x.symbol # symbol \/ x.mid = 0) => \A h \in Horizons :
                 y.returns[h] = IF x.returns[h] = Pending /\ at >= x.at + h THEN price
                                ELSE x.returns[h]
BY DEF Evaluated, Tracked

\* A trade at the end of a timeline is found by the search exactly if no trade
\* before it was at or after the target.
LEMMA SearchOneMore ==
    ASSUME NEW old, Sorted(old), NEW t \in Trades, NEW new, new = Append(old, t),
           Sorted(new), NEW target \in Int
    PROVE  FindPriceAt(new, target) =
              IF FindPriceAt(old, target) = Pending /\ t.at >= target THEN t.price
              ELSE FindPriceAt(old, target)
<1> DEFINE l == Len(old)
<1>0. /\ old \in Seq(Trades) /\ new \in Seq(Trades)
      /\ \A i \in 1..Len(old) : old[i] \in Trades /\ old[i].at \in Int
      /\ \A i \in 1..Len(new) : new[i] \in Trades /\ new[i].at \in Int
      /\ \A i, j \in 1..Len(old) : i < j => old[i].at <= old[j].at
      /\ \A i, j \in 1..Len(new) : i < j => new[i].at <= new[j].at
  BY DEF Sorted
<1>1. /\ new \in Seq(Trades) /\ l \in Nat /\ Len(new) = l + 1 /\ new[l + 1] = t
      /\ \A k \in 1..l : new[k] = old[k]
  BY <1>0, OneMoreFill
<1>2. DOMAIN old = 1..l
  BY <1>0
<1> HIDE DEF l
<1>3. t.at \in Int /\ t.price # Pending
  BY TradeAmounts
<1>4. CASE \A i \in 1..l : old[i].at < target
  <2>1. FindPriceAt(old, target) = Pending
    BY <1>4, <1>0, SearchFindsTheFirst DEF l
  <2>2. CASE t.at >= target
    <3>1. l + 1 \in 1..Len(new) /\ \A j \in 1..((l + 1) - 1) : new[j].at < target
      BY <1>1, <1>4
    <3>2. FindPriceAt(new, target) = new[l + 1].price
      BY <1>1, <2>2, <3>1, <1>0, SearchFindsTheFirst
    <3> QED
      BY <1>1, <2>1, <2>2, <3>2
  <2>3. CASE ~(t.at >= target)
    <3>1. \A i \in 1..(l + 1) : i \in 1..l \/ i = l + 1
      BY <1>1
    <3>2. t.at < target
      BY <1>3, <2>3
    <3>3. \A i \in 1..Len(new) : new[i].at < target
      BY <1>1, <1>4, <3>1, <3>2
    <3>4. FindPriceAt(new, target) = Pending
      BY <1>1, <3>3, <1>0, SearchFindsTheFirst
    <3> QED
      BY <2>1, <2>3, <3>4
  <2> QED
    BY <2>2, <2>3
<1>5. CASE ~(\A i \in 1..l : old[i].at < target)
  <2>1. PICK i \in 1..l : ~(old[i].at < target)
    BY <1>5
  <2>2. 1 \in 1..l /\ l \in 1..l /\ 1 <= l
    BY <1>1, <2>1
  <2>3. InOrder(old, l)
    BY <1>0, <1>1, <1>2 DEF InOrder, l
  <2>4. PICK k : FirstAt(k, old, target, 1, l)
    BY <2>2, <2>3, ThereIsAFirst
  <2>5. k \in 1..l /\ (k = l \/ old[k].at >= target)
        /\ \A j \in 1..(k - 1) : old[j].at < target
    BY <2>4 DEF FirstAt
  <2>6. old[k].at >= target
    <3>1. old[i].at \in Int /\ old[k].at \in Int
      BY <1>0, <2>1, <2>5 DEF l
    <3>2. i \in 1..(k - 1) \/ i = k \/ k < i
      BY <1>1, <2>1, <2>5
    <3>3. k = l => ~(k < i)
      BY <1>1, <2>1
    <3> QED
      BY <2>1, <2>5, <3>1, <3>2, <3>3
  <2>7. FindPriceAt(old, target) = old[k].price
    BY <2>5, <2>6, <1>0, SearchFindsTheFirst DEF l
  <2>8. FindPriceAt(new, target) = new[k].price
    <3>1. k \in 1..Len(new) /\ new[k] = old[k] /\ \A j \in 1..(k - 1) : j \in 1..l
      BY <1>1, <2>5
    <3>2. new[k].at >= target /\ \A j \in 1..(k - 1) : new[j].at < target
      BY <1>1, <2>5, <2>6, <3>1
    <3> QED
      BY <1>1, <3>1, <3>2, <1>0, SearchFindsTheFirst
  <2>9. old[k].price # Pending /\ new[k] = old[k]
    <3>1. old[k] \in Trades
      BY <1>0, <2>5 DEF l
    <3> QED
      BY <1>1, <2>5, <3>1, TradeAmounts
  <2> QED
    BY <2>7, <2>8, <2>9
<1> QED
  BY <1>4, <1>5

LEMMA MatchesOneMore ==
    ASSUME NEW seen \in Seq(Trades), NEW t \in Trades, NEW x \in Tracked, NEW y,
           NEW h \in Horizons, Follows(seen, x.symbol), x.since \in 0..Len(seen),
           x.mid >= 0, Matches(seen, x, h),
           y = IF t.at > 0 THEN Evaluated(x, t.symbol, t.at, t.price) ELSE x
    PROVE  Matches(Append(seen, t), y, h)
<1> DEFINE s == x.symbol
           more == Append(seen, t)
           old == Line(seen, s)
           new == Line(more, s)
           target == x.at + h
<1>1. /\ x.at \in Int /\ x.mid \in Int /\ h \in Nat /\ target \in Int
      /\ t.at \in Int /\ t.price \in Int
  BY HorizonsAre, TradeAmounts DEF Tracked
<1>2. /\ y.symbol = s /\ y.at = x.at /\ y.mid = x.mid /\ y.since = x.since
      /\ ~(t.at > 0 /\ t.symbol = s) \/ x.mid = 0 => y = x
      /\ t.at > 0 /\ t.symbol = s /\ x.mid # 0 =>
            y.returns[h] = IF x.returns[h] = Pending /\ t.at >= target THEN t.price
                           ELSE x.returns[h]
  <2>0. PICK z : z = Evaluated(x, t.symbol, t.at, t.price)
    OBVIOUS
  <2>1. /\ z.symbol = x.symbol /\ z.at = x.at /\ z.mid = x.mid /\ z.since = x.since
        /\ x.symbol # t.symbol \/ x.mid = 0 => z = x
        /\ ~(x.symbol # t.symbol \/ x.mid = 0) => \A k \in Horizons :
              z.returns[k] = IF x.returns[k] = Pending /\ t.at >= x.at + k THEN t.price
                             ELSE x.returns[k]
    BY ONLY <1>1, <2>0, x \in Tracked, EvaluatedIs
  <2>2. y = IF t.at > 0 THEN z ELSE x
    BY <2>0
  <2>3. CASE t.at > 0
    <3>1. y = z
      BY ONLY <2>2, <2>3
    <3> QED
      BY ONLY <2>1, <2>3, <3>1, h \in Horizons
  <2>4. CASE ~(t.at > 0)
    <3>1. y = x
      BY ONLY <2>2, <2>4
    <3> QED
      BY ONLY <2>4, <3>1
  <2> QED
    BY ONLY <2>3, <2>4
<1> SUFFICES ASSUME RisesFor(more, s), SentBefore(more, y, h)
             PROVE  y.returns[h] = ReturnAfterwards(y, h, Timed(more))
  BY <1>2 DEF Matches
<1>3. /\ Follows(more, s) /\ RisesFor(seen, s)
      /\ ~(t.at > 0 /\ t.symbol = s) => new = old
      /\ t.at > 0 /\ t.symbol = s => new = Append(old, t)
  BY FollowsOneMore
<1>4. more \in Seq(Trades) /\ Len(seen) \in Nat /\ \A i \in 1..Len(seen) : more[i] = seen[i]
  OBVIOUS
<1>5. SentBefore(seen, x, h)
  <2>1. \A i \in 1..x.since : i \in 1..Len(seen)
    BY <1>4
  <2> HIDE DEF more
  <2> QED
    BY <1>2, <1>4, <2>1 DEF SentBefore
<1>6. x.returns[h] = ReturnAfterwards(x, h, Timed(seen))
  BY <1>3, <1>5 DEF Matches
<1>7. x.returns[h] = IF x.mid > 0 THEN FindPriceAt(old, target) ELSE Pending
  BY <1>6 DEF ReturnAfterwards, Line
<1>8. ReturnAfterwards(y, h, Timed(more)) = IF x.mid > 0 THEN FindPriceAt(new, target) ELSE Pending
  BY <1>2 DEF ReturnAfterwards, Line
<1> HIDE DEF s, more, old, new, target
<1>9. CASE ~(x.mid > 0)
  <2>1. x.mid = 0
    BY <1>1, <1>9
  <2> QED
    BY <1>2, <1>7, <1>8, <1>9, <2>1
<1>10. CASE x.mid > 0 /\ ~(t.at > 0 /\ t.symbol = s)
  BY <1>2, <1>3, <1>7, <1>8, <1>10
<1>11. CASE x.mid > 0 /\ t.at > 0 /\ t.symbol = s
  <2>1. new = Append(old, t)
    BY <1>3, <1>11
  <2>2. Sorted(old) /\ Sorted(new) /\ target \in Int
    BY <1>1, <1>3, <1>4, LineIsInOrder DEF s, old, new
  <2>3. FindPriceAt(new, target) =
           IF FindPriceAt(old, target) = Pending /\ t.at >= target THEN t.price
           ELSE FindPriceAt(old, target)
    BY ONLY <2>1, <2>2, t \in Trades, SearchOneMore
  <2>4. x.mid # 0
    BY <1>1, <1>11
  <2> QED
    BY <1>2, <1>7, <1>8, <1>11, <2>3, <2>4
<1> QED
  BY <1>9, <1>10, <1>11

LEMMA RightAfterTrade ==
    ASSUME NEW seen \in Seq(Trades), NEW t \in Trades, NEW x \in Tracked, NEW y,
           Follows(seen, x.symbol), Right(seen, x),
           y = IF TradesAreStamped /\ t.at > 0
               THEN Evaluated(x, t.symbol, t.at, t.price) ELSE x
    PROVE  Right(Append(seen, t), y)
<1>1. /\ x.at \in Int /\ t.at \in Int /\ t.price \in Int /\ t.price # Pending
      /\ \A h \in Horizons : h \in Int /\ x.returns[h] \in Int
  BY HorizonsAre, TradeAmounts DEF Tracked
<1>2. x.since \in 0..Len(seen) /\ x.mid >= 0
  BY DEF Right
<1>3. y.since = x.since /\ y.mid = x.mid
  BY <1>1, EvaluatedIs
<1>4. y.since \in 0..Len(Append(seen, t)) /\ y.mid >= 0
  <2>1. Len(Append(seen, t)) = Len(seen) + 1 /\ Len(seen) \in Nat
    OBVIOUS
  <2> QED
    BY <1>2, <1>3, <2>1
<1>5. ASSUME TradesAreStamped, NEW h \in Horizons PROVE Matches(Append(seen, t), y, h)
  <2>1. Matches(seen, x, h)
    BY <1>5 DEF Right
  <2>2. y = IF t.at > 0 THEN Evaluated(x, t.symbol, t.at, t.price) ELSE x
    BY <1>5
  <2> QED
    BY ONLY <1>2, <2>1, <2>2, seen \in Seq(Trades), t \in Trades, x \in Tracked,
            h \in Horizons, Follows(seen, x.symbol), MatchesOneMore
<1>6. ASSUME NEW nearer \in Horizons, NEW h \in Horizons, nearer < h,
             y.returns[nearer] = Pending
      PROVE  y.returns[h] = Pending
  <2>0. x.returns[nearer] = Pending => x.returns[h] = Pending
    BY <1>6 DEF Right
  <2>1. CASE y = x
    BY <1>6, <2>0, <2>1
  <2>2. CASE y # x
    <3>1. y = Evaluated(x, t.symbol, t.at, t.price)
      BY <2>2
    <3>2. ~(x.symbol # t.symbol \/ x.mid = 0)
      BY <1>1, <2>2, <3>1, EvaluatedIs
    <3>3. \A g \in Horizons :
             y.returns[g] = IF x.returns[g] = Pending /\ t.at >= x.at + g THEN t.price
                            ELSE x.returns[g]
      BY <1>1, <3>1, <3>2, EvaluatedIs
    <3>4. x.returns[nearer] = Pending /\ ~(t.at >= x.at + nearer)
      BY <1>1, <1>6, <3>3
    <3>5. ~(t.at >= x.at + h)
      BY <1>1, <1>6, <3>4
    <3> QED
      BY <2>0, <3>3, <3>4, <3>5
  <2> QED
    BY <2>1, <2>2
<1>7. ASSUME ~TradesAreStamped PROVE \A h \in Horizons : y.returns[h] = Pending
  BY <1>7 DEF Right
<1> QED
  BY <1>4, <1>5, <1>6, <1>7 DEF Right

\* A signal that has come after all trades so far has no return yet, here or
\* there.
LEMMA RightAtFirst ==
    ASSUME NEW seen \in Seq(Trades), NEW x \in Tracked, Follows(seen, x.symbol),
           x.since = Len(seen), x.mid >= 0, \A h \in Horizons : x.returns[h] = Pending
    PROVE  Right(seen, x)
<1> DEFINE s == x.symbol
           line == Line(seen, s)
<1>1. x.at \in Int /\ Len(seen) \in Nat /\ \A h \in Horizons : h \in Int
  BY HorizonsAre DEF Tracked
<1>2. ASSUME NEW h \in Horizons PROVE Matches(seen, x, h)
  <2> SUFFICES ASSUME RisesFor(seen, s), SentBefore(seen, x, h)
               PROVE  ReturnAfterwards(x, h, Timed(seen)) = Pending
    BY DEF Matches
  <2>1. /\ line \in Seq(Trades)
        /\ \A i \in 1..Len(line) : line[i] \in Trades /\ line[i].at \in Int
        /\ \A i, j \in 1..Len(line) : i < j => line[i].at <= line[j].at
    BY LineIsInOrder DEF Sorted
  <2>2. ASSUME NEW k \in 1..Len(line) PROVE line[k].at < x.at + h
    <3>1. PICK m \in 1..Len(seen) : line[k] = seen[m] /\ seen[m].symbol = s /\ seen[m].at > 0
      BY DEF Follows
    <3> HIDE DEF line
    <3> QED
      BY <3>1 DEF SentBefore
  <2>3. x.at + h \in Int
    BY <1>1
  <2> HIDE DEF line
  <2>4. FindPriceAt(line, x.at + h) = Pending
    BY <2>1, <2>2, <2>3, SearchFindsTheFirst
  <2> QED
    BY <2>4 DEF ReturnAfterwards, Line, line
<1> QED
  BY <1>1, <1>2 DEF Right

\* What is left of a sequence after one more was appended.
LEMMA SuffixHas ==
    ASSUME NEW S, NEW s \in Seq(S), NEW x \in S, NEW n \in Nat,
           NEW i \in 1..Len(Suffix(Append(s, x), n))
    PROVE  Suffix(Append(s, x), n)[i] = x
              \/ \E j \in 1..Len(s) : Suffix(Append(s, x), n)[i] = s[j]
<1> DEFINE a == Append(s, x)
           m == Min({n, Len(a)})
           r == Suffix(a, n)
<1>1. a \in Seq(S) /\ Len(a) \in Nat /\ Len(a) = Len(s) + 1 /\ Len(s) \in Nat
      /\ a[Len(s) + 1] = x /\ \A k \in 1..Len(s) : a[k] = s[k]
  BY OneMoreFill
<1> HIDE DEF a
<1>2. m \in Nat /\ m <= Len(a)
  BY <1>1, SmallestOfTwo
<1>3. r = SubSeq(a, Len(a) - m + 1, Len(a))
  BY DEF Suffix
<1> HIDE DEF m, r
<1>4. PICK from \in 1..(Len(a) + 1) : from = Len(a) - m + 1
  <2>1. Len(a) - m + 1 \in 1..(Len(a) + 1)
    BY <1>1, <1>2
  <2> QED
    BY <2>1
<1>5. Len(r) = Len(a) - from + 1 /\ \A k \in 1..Len(r) : r[k] = a[from + k - 1]
  BY <1>1, <1>2, <1>3, <1>4
<1>6. i \in 1..Len(r) /\ r[i] = a[from + i - 1]
  BY <1>5 DEF a, r
<1>7. from + i - 1 \in 1..Len(s) \/ from + i - 1 = Len(s) + 1
  BY <1>1, <1>4, <1>5, <1>6
<1>8. r[i] = x \/ \E j \in 1..Len(s) : r[i] = s[j]
  BY <1>1, <1>6, <1>7
<1> QED
  BY <1>8 DEF r, a

LEMMA TradeKeepsSignalsRight ==
    ASSUME Ledgers, SignalsAreRight, NEW trade \in Trades, HandleTrade(trade)
    PROVE  SignalsAreRight'
<1>1. /\ trades \in Seq(Trades) /\ tracked \in Seq(Tracked)
      /\ DOMAIN tracked = 1..Len(tracked) /\ Len(tracked) \in Nat
      /\ \A i \in 1..Len(tracked) : tracked[i] \in Tracked
  BY DEF Ledgers, LedgerTypes
<1>2. trades' = Append(trades, trade)
  BY DEF HandleTrade
<1>3. ASSUME NEW s \in Symbols PROVE Follows(trades', s)
  <2>1. Follows(trades, s)
    BY DEF SignalsAreRight
  <2> QED
    BY <1>1, <1>2, <2>1, FollowsOneMore
<1> DEFINE after(x) == IF TradesAreStamped /\ trade.at > 0
                       THEN Evaluated(x, trade.symbol, trade.at, trade.price) ELSE x
<1>4. /\ Len(tracked') = Len(tracked)
      /\ \A i \in 1..Len(tracked) : tracked'[i] = after(tracked[i])
  <2>1. CASE TradesAreStamped /\ trade.at > 0
    <3>1. tracked' = [i \in DOMAIN tracked |->
                         Evaluated(tracked[i], trade.symbol, trade.at, trade.price)]
      BY <2>1 DEF HandleTrade, UpdatePrice, OnTrade
    <3>2. tracked' \in Seq(Tracked)
      <4>1. LedgerTypes'
        BY TradeTyped DEF Ledgers
      <4> QED
        BY <4>1 DEF LedgerTypes
    <3>3. DOMAIN tracked' = 1..Len(tracked)
      BY <1>1, <3>1
    <3>4. Len(tracked') = Len(tracked)
      BY <1>1, <3>2, <3>3
    <3> QED
      BY <1>1, <2>1, <3>1, <3>4
  <2>2. CASE ~(TradesAreStamped /\ trade.at > 0)
    <3>1. tracked' = tracked
      BY <2>2 DEF HandleTrade, UpdatePrice
    <3> QED
      BY <2>2, <3>1
  <2> QED
    BY <2>1, <2>2
<1>5. ASSUME NEW i \in 1..Len(tracked) PROVE Right(trades', tracked'[i])
  <2> DEFINE x == tracked[i]
             y == tracked'[i]
  <2>1. x \in Tracked /\ x.symbol \in Symbols /\ Right(trades, x)
    BY <1>1 DEF Tracked, SignalsAreRight
  <2>2. Follows(trades, x.symbol)
    BY <2>1 DEF SignalsAreRight
  <2>3. y = IF TradesAreStamped /\ trade.at > 0
            THEN Evaluated(x, trade.symbol, trade.at, trade.price) ELSE x
    BY <1>4
  <2> HIDE DEF x, y
  <2>4. Right(Append(trades, trade), y)
    BY ONLY <1>1, <2>1, <2>2, <2>3, trade \in Trades, RightAfterTrade
  <2> QED
    BY <1>2, <2>4 DEF y
<1> QED
  BY <1>3, <1>4, <1>5 DEF SignalsAreRight

LEMMA SignalKeepsSignalsRight ==
    ASSUME Ledgers, SignalsAreRight, NEW signal \in Signals, HandleSignal(signal)
    PROVE  SignalsAreRight'
<1> DEFINE x == [symbol |-> signal.symbol, at |-> signal.at, mid |-> signal.mid,
                 since |-> Len(trades), returns |-> [h \in Horizons |-> Pending]]
<1>1. trades \in Seq(Trades) /\ tracked \in Seq(Tracked) /\ Len(trades) \in Nat
  BY DEF Ledgers, LedgerTypes
<1>2. trades' = trades /\ tracked' = Suffix(Append(tracked, x), MaxSignals)
  BY DEF HandleSignal, RecordSignal
<1>3. /\ x \in Tracked /\ x.symbol \in Symbols /\ x.mid >= 0 /\ x.since = Len(trades)
      /\ \A h \in Horizons : x.returns[h] = Pending
  <2>1. /\ signal.symbol \in Symbols /\ signal.mid \in Int /\ signal.at \in Int
        /\ Pending \in Int
    BY SignalIs DEF Pending
  <2>2. signal.mid >= 0
    <3>1. signal \in [symbol : Symbols, mid : {0} \cup Prices, at : Nat \ {0}]
      BY LedgerAssumption, Zenon DEF LedgerAssumption
    <3>2. signal.mid \in {0} \cup Prices
      BY ONLY <3>1
    <3>3. CASE signal.mid = 0
      BY <3>3
    <3>4. CASE signal.mid \in Prices
      BY <3>4, LedgerBounds
    <3> QED
      BY <3>2, <3>3, <3>4
  <2> QED
    BY <1>1, <2>1, <2>2 DEF Tracked
<1> HIDE DEF x
<1>4. Right(trades, x)
  <2>1. Follows(trades, x.symbol)
    BY <1>3 DEF SignalsAreRight
  <2> QED
    BY <1>1, <1>3, <2>1, RightAtFirst
<1>5. MaxSignals \in Nat
  BY AlphaDecayAssumption DEF AlphaDecayAssumption
<1>6. ASSUME NEW i \in 1..Len(tracked') PROVE Right(trades', tracked'[i])
  <2>1. tracked'[i] = x \/ \E j \in 1..Len(tracked) : tracked'[i] = tracked[j]
    BY <1>1, <1>2, <1>3, <1>5, SuffixHas
  <2> QED
    BY <1>2, <1>4, <2>1 DEF SignalsAreRight
<1>7. \A s \in Symbols : Follows(trades', s)
  BY <1>2 DEF SignalsAreRight
<1> QED
  BY <1>6, <1>7 DEF SignalsAreRight

\* Before the first trade every timeline is empty.
LEMMA NothingToFollow == ASSUME NEW s PROVE Follows(<<>>, s)
<1>1. <<>> \in Seq(Trades) /\ Len(<<>>) = 0
  OBVIOUS
<1>2. Timed(<<>>) = <<>>
  BY <1>1, TimedIsALoop
<1>3. Timeline(<<>>, s) = <<>>
  <2>1. PICK w : /\ w[0] = <<>>
                 /\ \A k \in 1..Len(<<>>) :
                       w[k] = IF <<>>[k].symbol = s THEN Placed(w[k - 1], <<>>[k])
                              ELSE w[k - 1]
                 /\ Timeline(<<>>, s) = w[Len(<<>>)]
    BY <1>1, TimelineIsALoop, Zenon
  <2> QED
    BY <1>1, <2>1
<1>4. PICK none : none = <<>>
  OBVIOUS
<1>5. Line(none, s) = none /\ Timed(none) = none /\ none \in Seq(Trades) /\ 1..Len(none) = {}
  BY <1>1, <1>2, <1>3, <1>4 DEF Line
<1>6. Follows(none, s)
  BY ONLY <1>5 DEF Follows
<1> QED
  BY <1>4, <1>6

LEMMA SignalsAlwaysRight == TradingSpec => []SignalsAreRight
<1>1. TradingInit => SignalsAreRight
  <2> SUFFICES ASSUME TradingInit PROVE SignalsAreRight
    OBVIOUS
  <2>1. trades = <<>> /\ tracked = <<>> /\ 1..Len(tracked) = {}
    BY DEF TradingInit, LedgerInit, AlphaDecayInit
  <2> QED
    BY <2>1, NothingToFollow DEF SignalsAreRight
<1>2. Ledgers /\ SignalsAreRight /\ [TradingNext]_tradingVars => SignalsAreRight'
  <2> SUFFICES ASSUME Ledgers, SignalsAreRight, [TradingNext]_tradingVars
               PROVE  SignalsAreRight'
    OBVIOUS
  <2>1. ASSUME NEW trade \in Trades, HandleTrade(trade) PROVE SignalsAreRight'
    BY <2>1, TradeKeepsSignalsRight
  <2>2. ASSUME NEW signal \in Signals, HandleSignal(signal) PROVE SignalsAreRight'
    BY <2>2, SignalKeepsSignalsRight
  <2>3. CASE UNCHANGED <<trades, tracked>>
    BY <2>3 DEF SignalsAreRight
  <2>4. ASSUME NEW order \in Orders, Execute(order) PROVE UNCHANGED <<trades, tracked>>
    BY <2>4 DEF Execute, ProcessFill
  <2>5. Read => UNCHANGED <<trades, tracked>>
    BY DEF Read, ReadTab, SendWorkbook
  <2>6. UNCHANGED tradingVars => UNCHANGED <<trades, tracked>>
    BY DEF tradingVars, ledgerVars
  <2> QED
    BY <2>1, <2>2, <2>3, <2>4, <2>5, <2>6 DEF TradingNext, HandlePrices
<1> QED
  BY <1>1, <1>2, LedgersHold, PTL DEF TradingSpec

(* HorizonsMatch: whatever trades and signals come, in whatever order, and *)
(* however many the tracker keeps: the return that it takes at a horizon,  *)
(* trade by trade, is the one that the analysis finds in the sorted trades *)
(* afterwards, if the trades of the symbol came in order and the signal    *)
(* before them; no farther horizon is filled before a nearer one; and none *)
(* ever is where trades lack the field that the consume loop reads.        *)
THEOREM HorizonsDoMatch == TradingSpec => []HorizonsMatch
<1>1. ASSUME Ledgers, SignalsAreRight PROVE HorizonsMatch
  <2>1. DOMAIN tracked = 1..Len(tracked)
    BY <1>1 DEF Ledgers, LedgerTypes
  <2> SUFFICES ASSUME NEW i \in 1..Len(tracked), NEW h \in Horizons
               PROVE  /\ TradesAreStamped /\ CameInOrder(tracked[i].symbol)
                            /\ CameInTime(tracked[i], h)
                            => tracked[i].returns[h]
                                 = ReturnAfterwards(tracked[i], h, Timed(trades))
                      /\ \A nearer \in Horizons :
                            nearer < h /\ tracked[i].returns[nearer] = Pending
                                => tracked[i].returns[h] = Pending
                      /\ ~TradesAreStamped => tracked[i].returns[h] = Pending
    BY <2>1 DEF HorizonsMatch
  <2>2. Right(trades, tracked[i])
    BY <1>1 DEF SignalsAreRight
  <2>3. CameInOrder(tracked[i].symbol) => RisesFor(trades, tracked[i].symbol)
    BY DEF CameInOrder, RisesFor
  <2>4. CameInTime(tracked[i], h) => SentBefore(trades, tracked[i], h)
    BY DEF CameInTime, SentBefore
  <2> QED
    BY <2>2, <2>3, <2>4 DEF Right, Matches
<1> QED
  BY <1>1, LedgersHold, SignalsAlwaysRight, PTL

-----------------------------------------------------------------------------
(* The prices that the analysis looks up.                                  *)

LEMMA EarlierIs ==
    ASSUME NEW a \in Trades, NEW b \in Trades, NEW c \in Trades
    PROVE  /\ ~Earlier(c, b) /\ ~Earlier(b, a) => ~Earlier(c, a)
           /\ Earlier(a, b) => ~Earlier(b, a)
           /\ ~Earlier(b, a) => a.at <= b.at
<1>1. /\ a.at \in Int /\ b.at \in Int /\ c.at \in Int
      /\ a.price \in Int /\ b.price \in Int /\ c.price \in Int
  BY TradeAmounts
<1> QED
  BY <1>1 DEF Earlier

LEMMA PartOfSeq ==
    ASSUME NEW S, NEW s \in Seq(S), NEW i \in 1..(Len(s) + 1), NEW j \in 0..Len(s), j >= i - 1
    PROVE  /\ SubSeq(s, i, j) \in Seq(S) /\ Len(SubSeq(s, i, j)) = j - i + 1
           /\ \A k \in 1..(j - i + 1) : SubSeq(s, i, j)[k] = s[i + k - 1]
<1>1. Len(s) \in Nat /\ \A k \in i..j : k \in 1..Len(s)
  OBVIOUS
<1>2. SubSeq(s, i, j) \in Seq(S)
  BY <1>1
<1>3. Len(SubSeq(s, i, j)) = j - i + 1
  BY <1>1
<1>4. \A k \in 1..(j - i + 1) : SubSeq(s, i, j)[k] = s[i + k - 1]
  BY <1>1
<1> QED
  BY <1>2, <1>3, <1>4

LEMMA JoinedSeqs ==
    ASSUME NEW S, NEW b \in Seq(S), NEW c \in Seq(S), NEW g, g = b \o c
    PROVE  /\ g \in Seq(S) /\ Len(g) = Len(b) + Len(c)
           /\ \A i \in 1..Len(b) : g[i] = b[i]
           /\ \A i \in 1..Len(c) : g[Len(b) + i] = c[i]
<1>1. g \in Seq(S) /\ Len(g) = Len(b) + Len(c)
  OBVIOUS
<1>2. \A i \in 1..Len(b) : g[i] = b[i]
  OBVIOUS
<1>3. \A i \in 1..Len(c) : g[Len(b) + i] = c[i]
  OBVIOUS
<1> QED
  BY <1>1, <1>2, <1>3

InLine(line) ==
    /\ line \in Seq(Trades)
    /\ \A i, j \in 1..Len(line) : i < j => ~Earlier(line[j], line[i])

\* The trade in the line after its first m trades.
Between(m, line, t, more) ==
    /\ \A i \in 1..m : ~Earlier(t, line[i])
    /\ \A i \in (m + 1)..Len(line) : Earlier(t, line[i])
    /\ more \in Seq(Trades) /\ Len(more) = Len(line) + 1
    /\ \A i \in 1..m : more[i] = line[i]
    /\ more[m + 1] = t
    /\ \A i \in (m + 1)..Len(line) : more[i + 1] = line[i]

\* Where a trade is placed: between those that it is not earlier than, and
\* those that it is.
LEMMA PlacedBetween ==
    ASSUME NEW line, InLine(line), NEW t \in Trades
    PROVE  \E m \in 0..Len(line) : Between(m, line, t, Placed(line, t))
<1> DEFINE n == Len(line)
           passed == {i \in DOMAIN line : ~Earlier(t, line[i])}
           m == Cardinality(passed)
<1>1. /\ n \in Nat /\ DOMAIN line = 1..n /\ line \in Seq(Trades)
      /\ \A i \in 1..n : line[i] \in Trades
      /\ \A i, j \in 1..n : i < j => ~Earlier(line[j], line[i])
  BY DEF InLine
<1>2. \A i \in 1..n : i \in passed <=> ~Earlier(t, line[i])
  BY <1>1
<1>3. passed \subseteq 1..n
  BY <1>1
<1>4. Placed(line, t) = SubSeq(line, 1, (m + 1) - 1) \o <<t>> \o SubSeq(line, m + 1, n)
  BY DEF Placed, InsertAt
<1> HIDE DEF passed, n
<1>5. ASSUME NEW j \in passed, NEW i \in 1..n, i < j PROVE i \in passed
  <2>1. j \in 1..n /\ ~Earlier(t, line[j]) /\ ~Earlier(line[j], line[i])
    BY <1>1, <1>2, <1>3, <1>5
  <2>2. ~Earlier(t, line[i])
    BY <1>1, <2>1, EarlierIs
  <2> QED
    BY <1>2, <2>2
<1>6. PICK top \in 0..n : passed = 1..top
  <2>1. CASE passed = {}
    <3>1. 0 \in 0..n /\ 1..0 = {}
      BY <1>1
    <3> QED
      BY <2>1, <3>1
  <2>2. CASE passed # {}
    <3>1. IsFiniteSet(passed) /\ \A x \in passed : x \in Int
      <4>1. n \in Int
        BY <1>1
      <4>2. IsFiniteSet(1..n)
        BY <4>1, FS_Interval
      <4>3. IsFiniteSet(passed)
        BY <1>3, <4>2, FS_Subset
      <4>4. \A x \in passed : x \in 1..n
        BY <1>3
      <4> QED
        BY <4>1, <4>3, <4>4
    <3>2. PICK top \in passed : \A x \in passed : top >= x
      BY <2>2, <3>1, LargestOfSome
    <3>3. top \in 1..n
      BY <1>3
    <3>4. ASSUME NEW i \in 1..top PROVE i \in passed
      <4>1. i \in 1..n /\ (i < top \/ i = top)
        BY <1>1, <3>3
      <4> QED
        BY <1>5, <3>2, <4>1
    <3>5. ASSUME NEW i \in passed PROVE i \in 1..top
      <4>1. top >= i /\ i \in 1..n
        BY <1>3, <3>2
      <4> QED
        BY <1>1, <3>3, <4>1
    <3>6. passed = 1..top
      BY <3>4, <3>5
    <3>7. top \in 0..n
      BY <1>1, <3>3
    <3> QED
      BY <3>6, <3>7
  <2> QED
    BY <2>1, <2>2
<1>7. m = top
  <2>1. top \in Nat
    BY <1>1
  <2>2. Cardinality(1..top) = top
    BY <2>1, FS_Interval
  <2> QED
    BY <1>6, <2>2
<1> HIDE DEF m
<1>8. Placed(line, t) = SubSeq(line, 1, top) \o <<t>> \o SubSeq(line, top + 1, n)
  <2>1. (top + 1) - 1 = top
    BY <1>1
  <2> QED
    BY ONLY <1>4, <1>7, <2>1, Zenon
<1> DEFINE a == SubSeq(line, 1, top)
           c == SubSeq(line, top + 1, n)
<1>9. /\ a \in Seq(Trades) /\ Len(a) = top /\ \A i \in 1..top : a[i] = line[i]
      /\ c \in Seq(Trades) /\ Len(c) = n - top
      /\ \A i \in 1..(n - top) : c[i] = line[top + i]
  <2>1. top \in Nat /\ top <= n
    BY <1>1
  <2>2. a \in Seq(Trades) /\ Len(a) = top /\ \A i \in 1..top : a[i] = line[1 + i - 1]
    <3>1. 1 \in 1..(n + 1) /\ top \in 0..n /\ top >= 1 - 1 /\ top - 1 + 1 = top
      BY <1>1, <2>1
    <3> QED
      BY <1>1, <3>1, PartOfSeq DEF n
  <2>3. /\ c \in Seq(Trades) /\ Len(c) = n - (top + 1) + 1
        /\ \A i \in 1..(n - (top + 1) + 1) : c[i] = line[(top + 1) + i - 1]
    <3>1. top + 1 \in 1..(n + 1) /\ n \in 0..n /\ n >= (top + 1) - 1
      BY <1>1, <2>1
    <3> QED
      BY <1>1, <3>1, PartOfSeq DEF n
  <2> HIDE DEF a, c
  <2>4. \A i \in 1..top : 1 + i - 1 = i
    BY <2>1
  <2>5. /\ n - (top + 1) + 1 = n - top
        /\ \A i \in 1..(n - (top + 1) + 1) : (top + 1) + i - 1 = top + i
    <3>1. n \in Int /\ top \in Int
      BY <1>1, <2>1
    <3>2. n - (top + 1) + 1 = n - top
      BY ONLY <3>1
    <3>3. ASSUME NEW i \in 1..(n - (top + 1) + 1) PROVE (top + 1) + i - 1 = top + i
      BY ONLY <3>1, <3>3
    <3> QED
      BY <3>2, <3>3
  <2>6. \A i \in 1..top : a[i] = line[i]
    BY ONLY <2>2, <2>4
  <2>7. \A i \in 1..(n - top) : c[i] = line[top + i]
    BY ONLY <2>3, <2>5
  <2> QED
    BY ONLY <2>2, <2>3, <2>5, <2>6, <2>7
<1> HIDE DEF a, c
<1> DEFINE g == a \o <<t>> \o c
<1>10. /\ g \in Seq(Trades) /\ Len(g) = n + 1
       /\ \A i \in 1..top : g[i] = line[i]
       /\ g[top + 1] = t
       /\ \A i \in 1..(n - top) : g[top + 1 + i] = line[top + i]
  <2> DEFINE b == a \o <<t>>
  <2>0. top \in Nat /\ top <= n /\ <<t>> \in Seq(Trades) /\ Len(<<t>>) = 1 /\ <<t>>[1] = t
    BY <1>1
  <2>1. /\ b \in Seq(Trades) /\ Len(b) = top + 1 /\ b[top + 1] = t
        /\ \A i \in 1..top : b[i] = a[i]
    BY <1>9, <2>0, JoinedSeqs
  <2>3. g = b \o c
    BY DEF b
  <2> HIDE DEF b, g
  <2>2. /\ g \in Seq(Trades) /\ Len(g) = (top + 1) + (n - top)
        /\ \A i \in 1..(top + 1) : g[i] = b[i]
        /\ \A i \in 1..(n - top) : g[(top + 1) + i] = c[i]
    <3>1. b \in Seq(Trades) /\ c \in Seq(Trades) /\ Len(b) = top + 1 /\ Len(c) = n - top
      BY <1>9, <2>1
    <3>2. PICK x \in Seq(Trades) : x = b
      BY ONLY <3>1, Zenon
    <3>3. PICK y \in Seq(Trades) : y = c
      BY ONLY <3>1, Zenon
    <3>4. PICK z : z = g
      OBVIOUS
    <3>5. z = x \o y
      BY ONLY <2>3, <3>2, <3>3, <3>4, Zenon
    <3>6. /\ z \in Seq(Trades) /\ Len(z) = Len(x) + Len(y)
          /\ \A i \in 1..Len(x) : z[i] = x[i]
          /\ \A i \in 1..Len(y) : z[Len(x) + i] = y[i]
      BY ONLY <3>5, JoinedSeqs, x \in Seq(Trades), y \in Seq(Trades)
    <3> QED
      BY ONLY <3>1, <3>2, <3>3, <3>4, <3>6
  <2>4. /\ (top + 1) + (n - top) = n + 1 /\ top + 1 \in 1..(top + 1)
        /\ \A i \in 1..top : i \in 1..(top + 1)
    BY <1>1, <2>0
  <2> QED
    BY <1>9, <2>1, <2>2, <2>4
<1>11. g = Placed(line, t)
  BY <1>8 DEF a, c
<1> HIDE DEF g
<1>12. ASSUME NEW i \in (top + 1)..n PROVE g[i + 1] = line[i]
  <2>1. i - top \in 1..(n - top) /\ top + 1 + (i - top) = i + 1 /\ top + (i - top) = i
    BY <1>1
  <2> QED
    BY <1>10, <2>1
<1>13. /\ \A i \in 1..top : ~Earlier(t, line[i])
       /\ \A i \in (top + 1)..n : Earlier(t, line[i])
  <2>1. \A i \in 1..top : i \in 1..n
    BY <1>1
  <2>2. \A i \in (top + 1)..n : i \in 1..n /\ ~(i \in 1..top)
    BY <1>1
  <2> QED
    BY <1>2, <1>6, <2>1, <2>2
<1>14. Between(top, line, t, g)
  BY <1>10, <1>12, <1>13 DEF Between, n
<1> QED
  BY ONLY <1>11, <1>14, top \in 0..n DEF n

\* The sort of the analysis: the trades of the symbol, all of them and no
\* other, none before one that it is earlier than.
LEMMA TimelineIsSorted ==
    ASSUME NEW seen \in Seq(Trades), NEW s
    PROVE  /\ InLine(Timeline(seen, s))
           /\ \A m \in 1..Len(seen) : seen[m].symbol = s =>
                 \E i \in 1..Len(Timeline(seen, s)) : Timeline(seen, s)[i] = seen[m]
           /\ \A i \in 1..Len(Timeline(seen, s)) : \E m \in 1..Len(seen) :
                 seen[m].symbol = s /\ Timeline(seen, s)[i] = seen[m]
<1> DEFINE n == Len(seen)
           Holds(line, k) ==
               /\ InLine(line)
               /\ \A m \in 1..k : seen[m].symbol = s => \E i \in 1..Len(line) : line[i] = seen[m]
               /\ \A i \in 1..Len(line) : \E m \in 1..k : seen[m].symbol = s /\ line[i] = seen[m]
<1>1. PICK w : /\ w[0] = <<>>
               /\ \A k \in 1..n :
                     w[k] = IF seen[k].symbol = s THEN Placed(w[k - 1], seen[k])
                            ELSE w[k - 1]
               /\ Timeline(seen, s) = w[n]
  BY TimelineIsALoop
<1>2. n \in Nat /\ \A k \in 1..n : seen[k] \in Trades
  OBVIOUS
<1> DEFINE T == {k \in 0..n : Holds(w[k], k)}
<1> HIDE DEF n
<1>3. 0 \in T
  <2>1. 0 \in 0..n /\ <<>> \in Seq(Trades) /\ Len(<<>>) = 0 /\ 1..0 = {}
    BY <1>2
  <2>2. InLine(<<>>)
    BY <2>1 DEF InLine
  <2> QED
    BY <1>1, <2>1, <2>2
<1>4. ASSUME NEW k \in 1..n, k - 1 \in T PROVE k \in T
  <2> DEFINE line == w[k - 1]
             more == w[k]
             t == seen[k]
  <2>1. /\ InLine(line) /\ t \in Trades /\ k \in Nat /\ k \in 0..n
        /\ \A m \in 1..(k - 1) : seen[m].symbol = s =>
               \E i \in 1..Len(line) : line[i] = seen[m]
        /\ \A i \in 1..Len(line) : \E m \in 1..(k - 1) : seen[m].symbol = s /\ line[i] = seen[m]
    BY <1>2, <1>4
  <2>2. more = IF t.symbol = s THEN Placed(line, t) ELSE line
    BY <1>1
  <2>3. /\ line \in Seq(Trades) /\ Len(line) \in Nat /\ \A i \in 1..Len(line) : line[i] \in Trades
        /\ \A i, j \in 1..Len(line) : i < j => ~Earlier(line[j], line[i])
    BY <2>1 DEF InLine
  <2> HIDE DEF line, more, t
  <2>4. Holds(more, k)
    <3>1. \A m \in 1..k : m \in 1..(k - 1) \/ m = k
      BY <2>1
    <3>2. \A m \in 1..(k - 1) : m \in 1..k
      BY <2>1
    <3>3. k \in 1..k
      BY <2>1
    <3>4. CASE t.symbol # s
      BY <2>1, <2>2, <3>1, <3>2, <3>4 DEF t
    <3>5. CASE t.symbol = s
      <4>0. more = Placed(line, t)
        BY <2>2, <3>5
      <4>1. PICK m \in 0..Len(line) :
              /\ \A i \in 1..m : ~Earlier(t, line[i])
              /\ \A i \in (m + 1)..Len(line) : Earlier(t, line[i])
              /\ more \in Seq(Trades) /\ Len(more) = Len(line) + 1
              /\ \A i \in 1..m : more[i] = line[i]
              /\ more[m + 1] = t
              /\ \A i \in (m + 1)..Len(line) : more[i + 1] = line[i]
        <5>1. InLine(line) /\ t \in Trades
          BY <2>1
        <5> QED
          <6>1. \E m \in 0..Len(line) : Between(m, line, t, Placed(line, t))
            BY ONLY <5>1, PlacedBetween
          <6>2. PICK m \in 0..Len(line) : Between(m, line, t, Placed(line, t))
            BY <6>1, Zenon
          <6>3. Between(m, line, t, more)
            BY ONLY <4>0, <6>2
          <6> QED
            BY <6>3 DEF Between
      <4> DEFINE l == Len(line)
      <4>2. l \in Nat /\ m \in Nat /\ m <= l /\ Len(more) = l + 1 /\ m + 1 \in 1..(l + 1)
        BY <2>3, <4>1
      <4>3. ASSUME NEW i \in 1..(l + 1), i # m + 1
            PROVE  \E a \in 1..l : more[i] = line[a] /\ ((a = i /\ i <= m) \/ (a = i - 1 /\ i > m + 1))
        <5> HIDE DEF l
        <5>1. CASE i <= m
          <6>1. i \in 1..m /\ i \in 1..l
            BY <4>2, <5>1
          <6> QED
            BY <4>1, <5>1, <6>1
        <5>2. CASE i > m + 1
          <6>1. i - 1 \in (m + 1)..l /\ i - 1 \in 1..l /\ (i - 1) + 1 = i
            BY <4>2, <5>2
          <6>2. more[(i - 1) + 1] = line[i - 1]
            BY <4>1, <6>1 DEF l
          <6> QED
            BY <5>2, <6>1, <6>2
        <5> QED
          BY <4>2, <4>3, <5>1, <5>2
      <4> HIDE DEF l
      <4>4. ASSUME NEW i \in 1..(l + 1), NEW j \in 1..(l + 1), i < j
            PROVE  ~Earlier(more[j], more[i])
        <5>1. i \in Int /\ j \in Int /\ m \in Int
          BY <4>2
        <5>2. CASE i = m + 1
          <6>1. j # m + 1 /\ ~(j \in 1..m)
            BY <4>4, <5>1, <5>2
          <6>2. j - 1 \in (m + 1)..l /\ j - 1 \in 1..l /\ more[j] = line[j - 1]
            <7>1. PICK a \in 1..l : more[j] = line[a] /\ ((a = j /\ j <= m) \/ (a = j - 1 /\ j > m + 1))
              BY <4>3, <6>1
            <7>2. a = j - 1
              BY <4>4, <5>1, <5>2, <7>1
            <7>3. a \in (m + 1)..l
              BY <4>2, <4>4, <5>1, <5>2, <7>1, <7>2
            <7> QED
              BY <7>1, <7>2, <7>3
          <6>3. Earlier(t, line[j - 1]) /\ line[j - 1] \in Trades /\ more[i] = t
            BY <2>3, <4>1, <5>2, <6>2 DEF l
          <6> QED
            BY <2>1, <6>2, <6>3, EarlierIs
        <5>3. CASE j = m + 1
          <6>1. i \in 1..m
            BY <4>4, <5>1, <5>3
          <6> QED
            BY <4>1, <5>3, <6>1
        <5>4. CASE i # m + 1 /\ j # m + 1
          <6>1. PICK a \in 1..l : more[i] = line[a] /\ ((a = i /\ i <= m) \/ (a = i - 1 /\ i > m + 1))
            BY <4>3, <5>4
          <6>2. PICK b \in 1..l : more[j] = line[b] /\ ((b = j /\ j <= m) \/ (b = j - 1 /\ j > m + 1))
            BY <4>3, <5>4
          <6>3. a < b
            BY <4>2, <4>4, <5>1, <6>1, <6>2
          <6> QED
            BY <2>3, <6>1, <6>2, <6>3 DEF l
        <5> QED
          BY <5>2, <5>3, <5>4
      <4>5. InLine(more)
        BY <4>1, <4>2, <4>4 DEF InLine
      <4>6. ASSUME NEW i \in 1..l PROVE \E j \in 1..(l + 1) : more[j] = line[i]
        <5>1. (i \in 1..m /\ i \in 1..(l + 1)) \/ (i \in (m + 1)..l /\ i + 1 \in 1..(l + 1))
          BY <4>2
        <5> QED
          BY <4>1, <5>1 DEF l
      <4>7. ASSUME NEW q \in 1..k, seen[q].symbol = s PROVE \E j \in 1..(l + 1) : more[j] = seen[q]
        <5>1. CASE q = k
          BY <4>1, <4>2, <5>1 DEF t
        <5>2. CASE q # k
          <6>1. q \in 1..(k - 1)
            BY <3>1, <5>2
          <6>2. PICK i \in 1..l : line[i] = seen[q]
            BY <2>1, <4>7, <6>1 DEF l
          <6> QED
            BY <4>6, <6>2
        <5> QED
          BY <5>1, <5>2
      <4>8. ASSUME NEW j \in 1..(l + 1)
            PROVE  \E q \in 1..k : seen[q].symbol = s /\ more[j] = seen[q]
        <5>1. CASE j = m + 1
          BY <3>3, <3>5, <4>1, <5>1 DEF t
        <5>2. CASE j # m + 1
          <6>1. PICK i \in 1..l : more[j] = line[i]
            BY <4>3, <5>2
          <6>2. PICK q \in 1..(k - 1) : seen[q].symbol = s /\ line[i] = seen[q]
            BY <2>1 DEF l
          <6> QED
            BY <3>2, <6>1, <6>2
        <5> QED
          BY <5>1, <5>2
      <4> QED
        BY <4>2, <4>5, <4>7, <4>8
    <3> QED
      BY <3>4, <3>5
  <2> HIDE DEF Holds
  <2> QED
    BY <2>1, <2>4 DEF more
<1> HIDE DEF T
<1>5. \A k \in 0..n : k \in T
  BY ONLY <1>2, <1>3, <1>4, Turns
<1>6. Holds(w[n], n)
  <2>1. n \in 0..n
    BY <1>2
  <2> HIDE DEF Holds
  <2> QED
    BY <1>5, <2>1 DEF T
<1> QED
  BY <1>1, <1>6 DEF n

(* What compute_alpha_decay takes for a return: whatever trades, in        *)
(* whatever order, the price of a trade of the symbol at or after the      *)
(* horizon that no other such trade is earlier than, and nothing only if   *)
(* there is none.                                                          *)
THEOREM AnalysisTakesTheNearest ==
    ASSUME NEW seen \in Seq(Trades), NEW s, NEW target \in Int
    PROVE  LET after == {m \in 1..Len(seen) : seen[m].symbol = s /\ seen[m].at >= target}
               price == FindPriceAt(Timeline(seen, s), target)
           IN  /\ after = {} => price = Pending
               /\ after # {} => \E m \in after :
                     price = seen[m].price /\ \A k \in after : ~Earlier(seen[k], seen[m])
<1> DEFINE after == {m \in 1..Len(seen) : seen[m].symbol = s /\ seen[m].at >= target}
           line == Timeline(seen, s)
           price == FindPriceAt(line, target)
           n == Len(line)
<1>1. /\ InLine(line)
      /\ \A m \in 1..Len(seen) : seen[m].symbol = s => \E i \in 1..n : line[i] = seen[m]
      /\ \A i \in 1..n : \E m \in 1..Len(seen) : seen[m].symbol = s /\ line[i] = seen[m]
  BY TimelineIsSorted
<1> HIDE DEF line
<1>2. /\ line \in Seq(Trades) /\ n \in Nat /\ \A i \in 1..n : line[i] \in Trades
      /\ DOMAIN line = 1..n
      /\ \A i, j \in 1..n : i < j => ~Earlier(line[j], line[i])
  BY <1>1 DEF InLine
<1> HIDE DEF n
<1>3. \A i \in 1..n : line[i].at \in Int
  BY <1>2, TradeAmounts
<1>4. \A i, j \in 1..n : i < j => line[i].at <= line[j].at
  BY <1>2, EarlierIs
<1>5. /\ (\A i \in 1..n : line[i].at < target) => price = Pending
      /\ \A k \in 1..n :
            line[k].at >= target /\ (\A j \in 1..(k - 1) : line[j].at < target)
                => price = line[k].price
  BY <1>2, <1>3, <1>4, SearchFindsTheFirst DEF n
<1>6. ASSUME NEW i \in 1..n, ~(line[i].at < target)
      PROVE  \E m \in after : line[i] = seen[m]
  <2>1. PICK m \in 1..Len(seen) : seen[m].symbol = s /\ line[i] = seen[m]
    BY <1>1 DEF n
  <2>2. seen[m].at >= target
    BY <1>3, <1>6, <2>1
  <2> QED
    BY <2>1, <2>2
<1>7. ASSUME after = {} PROVE price = Pending
  <2>1. \A i \in 1..n : line[i].at < target
    BY <1>6, <1>7
  <2> QED
    BY <1>5, <2>1
<1>8. ASSUME after # {}
      PROVE  \E m \in after : price = seen[m].price /\ \A k \in after : ~Earlier(seen[k], seen[m])
  <2>1. PICK late \in after : TRUE
    BY <1>8
  <2>2. PICK last \in 1..n : line[last] = seen[late]
    BY <1>1, <2>1 DEF n
  <2>3. InOrder(line, n) /\ 1 \in 1..n /\ n \in 1..n /\ 1 <= n
    <3>1. InOrder(line, n)
      BY <1>2, <1>3, <1>4 DEF InOrder
    <3>2. n \in Nat /\ last \in 1..n
      BY <1>2
    <3>3. 1 \in 1..n /\ n \in 1..n /\ 1 <= n
      BY ONLY <3>2
    <3> QED
      BY <3>1, <3>3
  <2>4. PICK k : FirstAt(k, line, target, 1, n)
    BY ONLY <2>3, target \in Int, ThereIsAFirst
  <2>5. /\ k \in 1..n /\ (k = n \/ line[k].at >= target)
        /\ \A j \in 1..(k - 1) : line[j].at < target
    BY <2>4 DEF FirstAt
  <2>6. ASSUME NEW i \in 1..n, line[i].at >= target PROVE ~(i < k)
    <3>1. i < k => i \in 1..(k - 1)
      BY <1>2, <2>5
    <3> QED
      BY <1>3, <2>5, <2>6, <3>1
  <2>7. line[last].at >= target
    BY <2>1, <2>2
  <2>8. line[k].at >= target
    <3>1. ~(last < k)
      BY <2>6, <2>7
    <3>2. k = n => last = k
      BY <1>2, <2>2, <3>1
    <3> QED
      BY <2>5, <2>7, <3>2
  <2>9. price = line[k].price
    BY <1>5, <2>5, <2>8
  <2>10. PICK m \in after : line[k] = seen[m]
    BY <1>3, <1>6, <2>5, <2>8
  <2>11. ASSUME NEW q \in after PROVE ~Earlier(seen[q], seen[m])
    <3>1. PICK i \in 1..n : line[i] = seen[q]
      BY <1>1 DEF n
    <3>2. ~(i < k)
      BY <2>6, <3>1
    <3>3. i = k \/ k < i
      BY <1>2, <2>5, <3>2
    <3>4. CASE k < i
      BY <1>2, <2>5, <2>10, <3>1, <3>4
    <3>5. CASE i = k
      <4>1. line[k] \in Trades
        BY <1>2, <2>5
      <4>2. line[k].at \in Int /\ line[k].price \in Int
        BY <4>1, TradeAmounts
      <4> QED
        BY <2>10, <3>1, <3>5, <4>2 DEF Earlier
    <3> QED
      BY <3>3, <3>4, <3>5
  <2> QED
    BY <2>9, <2>10, <2>11
<1> HIDE DEF after
<1> QED
  BY <1>7, <1>8 DEF after, line

=============================================================================
