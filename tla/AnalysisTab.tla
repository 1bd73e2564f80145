----------------------------- MODULE AnalysisTab ----------------------------
(***************************************************************************)
(* The analysis tab of the dashboard (services/post-trade/frontend/src/    *)
(* tabs/AnalysisTab.tsx) with the job store behind it: the tab submits one *)
(* job at a time and polls its status on a timer, whether or not the poll  *)
(* before has been answered, and lists the jobs on another timer.  Other   *)
(* clients submit jobs, too.                                               *)
(***************************************************************************)
EXTENDS AnalysisJobs

CONSTANT Slots  \* bound: requests of the tab that are under way at one time

VARIABLES
    activeJob,   \* activeJobId
    submitted,   \* the job whose submission is not yet answered
    viewing,     \* viewingJobId
    shown,       \* activeResult: "none", "result", or what came instead
    requests,    \* [at, job, saw] for each request under way
    listed,      \* jobs that the tab's list shows as completed, or may come to show so
    superseded   \* polls of another job were under way when activeJobId was set (history)

tabVars == <<activeJob, submitted, viewing, shown, requests, listed, superseded>>
vars == <<serverVars, tabVars>>

NoRequest == [at |-> "idle", job |-> "none", saw |-> "none"]

Init ==
    /\ ServerInit
    /\ activeJob = "none" /\ submitted = "none" /\ viewing = "none" /\ shown = "none"
    /\ requests = [s \in Slots |-> NoRequest]
    /\ listed = {}
    /\ superseded = FALSE

Request(s, at, job, saw) ==
    requests' = [requests EXCEPT ![s] = [at |-> at, job |-> job, saw |-> saw]]

-----------------------------------------------------------------------------
(* Submitting. *)

\* handleSubmit; the buttons are disabled while a job is active.
Submit(j) ==
    /\ activeJob = "none" /\ submitted = "none"
    /\ \E t \in Types : SubmitTo(j, t)
    /\ submitted' = j /\ viewing' = "none" /\ shown' = "none"
    /\ UNCHANGED <<activeJob, requests, listed, superseded>>

SubmitAnswered ==
    /\ submitted # "none"
    /\ activeJob' = submitted /\ submitted' = "none"
    /\ superseded' = \E s \in Slots : requests[s].at # "idle"
    /\ UNCHANGED <<serverVars, viewing, shown, requests, listed>>

SubmitElsewhere(j) ==
    /\ \E t \in Types : SubmitTo(j, t)
    /\ UNCHANGED tabVars

-----------------------------------------------------------------------------
(* Polling.  A request reads the entry by get, under the lock, and its     *)
(* field without it; the answer may take any time.                         *)

\* The timer of the effect, which runs while a job is active.
Poll(s) ==
    /\ activeJob # "none" /\ requests[s] = NoRequest
    /\ Request(s, "get status", activeJob, "none")
    /\ UNCHANGED <<serverVars, activeJob, submitted, viewing, shown, listed, superseded>>

\* handleViewResult, of a job that the tab's list shows as completed.
View(s, j) ==
    /\ requests[s] = NoRequest /\ j \in listed
    /\ Request(s, "get view", j, "none")
    /\ UNCHANGED <<serverVars, activeJob, submitted, viewing, shown, listed, superseded>>

\* Mutant of Get: get does not wait for the lock.
GetUnlocked(s) ==
    /\ requests[s].at \in {"get status", "get result", "get view"}
    /\ Request(s, CASE requests[s].at = "get status" -> "read status"
                    [] requests[s].at = "get result" -> "read result"
                    [] requests[s].at = "get view" -> "read view",
               requests[s].job, "none")
    /\ UNCHANGED <<serverVars, activeJob, submitted, viewing, shown, listed, superseded>>

Get(s) ==
    /\ lock = "none"
    /\ requests[s].at \in {"get status", "get result", "get view"}
    /\ Request(s, CASE requests[s].at = "get status" -> "read status"
                    [] requests[s].at = "get result" -> "read result"
                    [] requests[s].at = "get view" -> "read view",
               requests[s].job, "none")
    /\ UNCHANGED <<serverVars, activeJob, submitted, viewing, shown, listed, superseded>>

ReadStatus(s) ==
    /\ requests[s].at = "read status"
    /\ Request(s, "status", requests[s].job, status[requests[s].job])
    /\ UNCHANGED <<serverVars, activeJob, submitted, viewing, shown, listed, superseded>>

\* "not yet" is the error that an entry without a result is answered with.
ReadResult(s) ==
    /\ requests[s].at \in {"read result", "read view"}
    /\ LET j == requests[s].job IN
       Request(s, IF requests[s].at = "read result" THEN "result" ELSE "view", j,
               IF status[j] = "none" THEN "not found"
               ELSE IF result[j] THEN "result" ELSE "not yet")
    /\ UNCHANGED <<serverVars, activeJob, submitted, viewing, shown, listed, superseded>>

\* The row of the job in the list, if it is there, gets the status as well.
ListAs(j, seen) == listed' = IF seen = "completed" THEN listed \cup {j} ELSE listed

\* Mutant of StatusAnswered: a failed job stays active.
StatusAnsweredDone(s) ==
    /\ requests[s].at = "status" /\ ListAs(requests[s].job, requests[s].saw)
    /\ IF requests[s].saw = "completed"
       THEN Request(s, "get result", requests[s].job, "none")
       ELSE requests' = [requests EXCEPT ![s] = NoRequest]
    /\ UNCHANGED <<serverVars, activeJob, submitted, viewing, shown, superseded>>

StatusAnswered(s) ==
    /\ requests[s].at = "status" /\ ListAs(requests[s].job, requests[s].saw)
    /\ IF requests[s].saw = "completed"
       THEN Request(s, "get result", requests[s].job, "none")
       ELSE requests' = [requests EXCEPT ![s] = NoRequest]
    /\ activeJob' = IF requests[s].saw = "failed" THEN "none" ELSE activeJob
    /\ UNCHANGED <<serverVars, submitted, viewing, shown, superseded>>

\* Mutant of ResultAnswered: the tab turns to the job before it has the answer.
ResultAnsweredEmpty(s) ==
    /\ requests[s].at = "result"
    /\ shown' = requests[s].saw /\ UNCHANGED viewing
    /\ activeJob' = "none"
    /\ requests' = [requests EXCEPT ![s] = NoRequest]
    /\ UNCHANGED <<serverVars, submitted, listed, superseded>>

\* Whatever the answer is, it is shown, and no job is active any more.
ResultAnswered(s) ==
    /\ requests[s].at = "result"
    /\ shown' = requests[s].saw /\ viewing' = requests[s].job
    /\ activeJob' = "none"
    /\ requests' = [requests EXCEPT ![s] = NoRequest]
    /\ UNCHANGED <<serverVars, submitted, listed, superseded>>

ViewAnswered(s) ==
    /\ requests[s].at = "view"
    /\ shown' = requests[s].saw /\ viewing' = requests[s].job
    /\ requests' = [requests EXCEPT ![s] = NoRequest]
    /\ UNCHANGED <<serverVars, activeJob, submitted, listed, superseded>>

Answer(s) ==
    \/ ReadStatus(s) \/ ReadResult(s)
    \/ StatusAnswered(s) \/ ResultAnswered(s) \/ ViewAnswered(s)

Tab(s) == Poll(s) \/ Get(s) \/ Answer(s)

-----------------------------------------------------------------------------
(* The list, which the tab gets every three seconds.  Any number of        *)
(* requests for it may be under way, each reads the rows one by one, and   *)
(* they may be answered in any order: what a row was when one of them read *)
(* it, the tab may come to show at any time after.                         *)

RefreshJobs(j) ==
    /\ ListAs(j, status[j])
    /\ UNCHANGED <<serverVars, activeJob, submitted, viewing, shown, requests, superseded>>

-----------------------------------------------------------------------------
Answered == {"status", "result", "view"}

\* A request fails when the server goes down, which the tab passes over, unless
\* its answer is on its way already.
Restart ==
    /\ RestartServer
    /\ \E arriving \in SUBSET {s \in Slots : requests[s].at \in Answered} :
          requests' = [s \in Slots |-> IF s \in arriving THEN requests[s] ELSE NoRequest]
    /\ submitted' \in {submitted, "none"}
    /\ UNCHANGED <<activeJob, viewing, shown, listed, superseded>>

Next ==
    \/ \E j \in Jobs : Submit(j) \/ SubmitElsewhere(j) \/ RefreshJobs(j)
    \/ SubmitAnswered \/ (Pool /\ UNCHANGED tabVars)
    \/ \E s \in Slots : Tab(s) \/ \E j \in Jobs : View(s, j)
    \/ Restart

Spec == Init /\ [][Next]_vars

(* Fairness: the threads of the pool and of the server run, the timer of   *)
(* the tab fires, and requests are answered.                               *)
Fairness ==
    /\ WF_vars(SubmitAnswered)
    /\ WF_vars(Take /\ UNCHANGED tabVars)
    /\ \A j \in Jobs : WF_vars((BeginUpdate(j) \/ SetField(j)) /\ UNCHANGED tabVars)
    /\ SF_vars(\E s \in Slots : Poll(s))
    /\ \A s \in Slots : WF_vars(Get(s) \/ Answer(s))

FairSpec == Spec /\ Fairness

Over(j) == status[j] \in {"completed", "failed"}

\* The store has lost the job in a restart.
Forgotten(j) == restarts > 0 /\ status[j] = "none"

-----------------------------------------------------------------------------
(* The types of the variables. *)
TypeOK ==
    /\ type \in [Jobs -> Types \cup {"none"}] /\ status \in [Jobs -> Statuses]
    /\ progress \in [Jobs -> 0..100] /\ result \in [Jobs -> BOOLEAN]
    /\ executor \in Seq(Jobs) /\ running \subseteq Jobs /\ failing \subseteq Jobs
    /\ step \in [Jobs -> 0..Len(RunAll) + 2]
    /\ \A i \in DOMAIN writes : writes[i].field \in {"status", "result", "progress"}
    /\ lock \in Jobs \cup {"none"} /\ restarts \in 0..MaxRestarts
    /\ {activeJob, submitted, viewing} \subseteq Jobs \cup {"none"}
    /\ shown \in {"none", "result", "not yet", "not found"}
    /\ \A s \in Slots : requests[s].job \in Jobs \cup {"none"}
    /\ listed \subseteq Jobs /\ superseded \in BOOLEAN

(* Whenever no update is under way, a job is completed exactly if it has   *)
(* its result and 100 percent; its thread is free, then, for another job.  *)
EntriesAreWhole ==
    lock = "none" => \A j \in Jobs :
        /\ (status[j] = "completed") <=> result[j]
        /\ result[j] <=> (progress[j] = 100)
        /\ Over(j) => j \notin running

(* The status is set before the result, the endpoints read both without    *)
(* the lock, and the tab asks for what its own list shows as completed,    *)
(* which may be old; still, who asks is never told "not yet", because get  *)
(* waits for the update under way, and is told that there is no such job   *)
(* only if a restart has lost it.                                          *)
ResultFollowsStatus ==
    \A s \in Slots :
        requests[s].at \in {"result", "view"} =>
            \/ requests[s].saw = "result"
            \/ requests[s].saw = "not found" /\ Forgotten(requests[s].job)

(* The job that the tab submitted stays active until it failed, its own    *)
(* result or that it is not known is shown, or a restart has lost it,      *)
(* unless a request for an older job was under way when it became active.  *)
ActiveJobIsFollowed ==
    [][\A j \in Jobs :
          activeJob = j /\ activeJob' # j /\ ~superseded =>
              status[j] = "failed" \/ Forgotten(j) \/ viewing' = j]_vars

(* Every job that is submitted is over in the end: one that fails frees    *)
(* its thread for those behind it.                                         *)
EveryJobEnds == <>[](\A j \in Jobs : Over(j) \/ status[j] = "none")

(* The tab is free again in the end, unless the service was restarted: of  *)
(* a job that it no longer knows the tab asks for ever.                    *)
TabGetsFree == <>[](activeJob = "none" \/ restarts > 0)

-----------------------------------------------------------------------------
(* What the code does not keep (README, "Where code and text disagree"). *)

(* The active job is polled until it is over.                              *)
ActiveJobIsPolledToItsEnd ==
    [][\A j \in Jobs : activeJob = j /\ activeJob' # j => Over(j)]_vars

=============================================================================
