--------------------------- MODULE CircuitBreaker ---------------------------
(***************************************************************************)
(* lib/quant_core/circuit_breaker.py: the kill switch.  A Redis key says   *)
(* whether trading is halted; every service holds one CircuitBreaker       *)
(* object that caches the answer for CHECK_INTERVAL_S.  The object has no  *)
(* lock, and in the risk gateway its methods run on the consume thread,    *)
(* on the heartbeat task and on the worker threads of the HTTP API, so     *)
(* each read and write of the two cached fields is a step of its own.      *)
(*                                                                         *)
(* Time is kept as ages that saturate, so that runs of any length are      *)
(* explored: lastCheckAge is monotonic() - _last_check, callAge is the     *)
(* time since the call in progress read the clock.                         *)
(***************************************************************************)
EXTENDS Integers

CONSTANTS
    Services,   \* processes, each with one CircuitBreaker object
    Threads,    \* threads that call its methods
    Operators,  \* those (HTTP workers) that call trip and reset; the others check
    Service,    \* Service[t]: the process of thread t
    Interval,   \* CHECK_INTERVAL_S, in clock ticks
    MaxCall     \* longest time a call takes, in clock ticks (environment)

ASSUME CircuitBreakerAssumption ==
    /\ Operators \subseteq Threads
    /\ Service \in [Threads -> Services]
    /\ Interval \in Nat \ {0}
    /\ MaxCall \in Nat

VARIABLES
    key,           \* the breaker key exists in Redis
    cached,        \* _cached_state of each service
    lastCheckAge,  \* age of _last_check of each service
    doing,         \* what each thread is about to do
    callAge,       \* age of the clock reading of each thread's call
    val,           \* the state each thread is about to store
    sinceClear,    \* history: time since the key was last absent
    sinceTrip      \* history: time since the key was last present or a GET failed

breakerVars == <<key, cached, lastCheckAge, doing, callAge, val, sinceClear, sinceTrip>>
history == <<sinceClear, sinceTrip>>
local == <<cached, lastCheckAge>>

\* An age beyond which the cache is expired for every call in progress.
Expired == Interval + MaxCall

\* No answer is older than this (see the properties below).
Bound == Interval + 3 * MaxCall

Older(age, limit) == IF age < limit THEN age + 1 ELSE limit

Goto(t, label) == doing' = [doing EXCEPT ![t] = label]

BreakerInit ==
    /\ key \in BOOLEAN
    /\ cached = [s \in Services |-> FALSE]
    /\ lastCheckAge = [s \in Services |-> Expired]
    /\ doing = [t \in Threads |-> "idle"]
    /\ callAge = [t \in Threads |-> 0]
    /\ val = [t \in Threads |-> FALSE]
    /\ sinceClear = IF key THEN Bound ELSE 0
    /\ sinceTrip = IF key THEN 0 ELSE Bound

-----------------------------------------------------------------------------
(* The Redis key, with the two history variables that follow it. *)

KeySet ==
    /\ key' = TRUE
    /\ sinceTrip' = 0
    /\ UNCHANGED sinceClear

KeyDeleted ==
    /\ key' = FALSE
    /\ sinceClear' = 0
    /\ UNCHANGED sinceTrip

KeyUntouched == UNCHANGED <<key, history>>

\* A thread enters a method; the clock is read at once by is_tripped.
Enter(t, label) ==
    /\ doing[t] = "idle"
    /\ Goto(t, label)
    /\ callAge' = [callAge EXCEPT ![t] = 0]
    /\ UNCHANGED <<local, val>>
    /\ KeyUntouched

Store(t, state) == cached' = [cached EXCEPT ![Service[t]] = state]

Stamp(t, age) == lastCheckAge' = [lastCheckAge EXCEPT ![Service[t]] = age]

-----------------------------------------------------------------------------
(* is_tripped *)

CheckBegin(t) == t \notin Operators /\ Enter(t, "test")

\* Mutant of Fresh: a breaker seen tripped stays tripped.
FreshOrTripped(t) ==
    cached[Service[t]] \/ lastCheckAge[Service[t]] - callAge[t] < Interval

Fresh(t) == lastCheckAge[Service[t]] - callAge[t] < Interval

CheckTest(t) ==
    /\ doing[t] = "test"
    /\ Goto(t, IF Fresh(t) THEN "answer" ELSE "get")
    /\ UNCHANGED <<local, callAge, val>>
    /\ KeyUntouched

CheckGet(t) ==
    /\ doing[t] = "get"
    /\ val' = [val EXCEPT ![t] = key]
    /\ Goto(t, "store")
    /\ UNCHANGED <<local, callAge>>
    /\ KeyUntouched

\* Mutant of CheckGetFails: fails open.
CheckGetFailsOpen(t) ==
    /\ doing[t] = "get"
    /\ val' = [val EXCEPT ![t] = FALSE]
    /\ Goto(t, "store")
    /\ sinceTrip' = 0
    /\ UNCHANGED <<key, local, callAge, sinceClear>>

\* The GET raises: Redis is assumed to hold the key.
CheckGetFails(t) ==
    /\ doing[t] = "get"
    /\ val' = [val EXCEPT ![t] = TRUE]
    /\ Goto(t, "store")
    /\ sinceTrip' = 0
    /\ UNCHANGED <<key, local, callAge, sinceClear>>

CheckStore(t) ==
    /\ doing[t] = "store"
    /\ Store(t, val[t])
    /\ Goto(t, "stamp")
    /\ UNCHANGED <<lastCheckAge, callAge, val>>
    /\ KeyUntouched

\* _last_check becomes the clock read at the beginning of the call.
CheckStamp(t) ==
    /\ doing[t] = "stamp"
    /\ Stamp(t, callAge[t])
    /\ Goto(t, "answer")
    /\ UNCHANGED <<cached, callAge, val>>
    /\ KeyUntouched

\* The method returns _cached_state as it is now.
CheckAnswer(t) ==
    /\ doing[t] = "answer"
    /\ val' = [val EXCEPT ![t] = cached[Service[t]]]
    /\ Goto(t, "idle")
    /\ UNCHANGED <<local, callAge>>
    /\ KeyUntouched

-----------------------------------------------------------------------------
(* trip *)

TripBegin(t) == t \in Operators /\ Enter(t, "set")

TripSet(t) ==
    /\ doing[t] = "set"
    /\ KeySet
    /\ Goto(t, "tripStore")
    /\ UNCHANGED <<local, callAge, val>>

\* The SET raises, before or after Redis applied it; trip raises too.
TripSetFails(t) ==
    /\ doing[t] = "set"
    /\ KeySet \/ KeyUntouched
    /\ Goto(t, "idle")
    /\ UNCHANGED <<local, callAge, val>>

TripStore(t) ==
    /\ doing[t] = "tripStore"
    /\ Store(t, TRUE)
    /\ Goto(t, "tripStamp")
    /\ UNCHANGED <<lastCheckAge, callAge, val>>
    /\ KeyUntouched

TripStamp(t) ==
    /\ doing[t] = "tripStamp"
    /\ Stamp(t, 0)
    /\ Goto(t, "idle")
    /\ UNCHANGED <<cached, callAge, val>>
    /\ KeyUntouched

-----------------------------------------------------------------------------
(* reset *)

ResetBegin(t) == t \in Operators /\ Enter(t, "delete")

ResetDelete(t) ==
    /\ doing[t] = "delete"
    /\ KeyDeleted
    /\ Goto(t, "resetStore")
    /\ UNCHANGED <<local, callAge, val>>

ResetDeleteFails(t) ==
    /\ doing[t] = "delete"
    /\ KeyDeleted \/ KeyUntouched
    /\ Goto(t, "idle")
    /\ UNCHANGED <<local, callAge, val>>

ResetStore(t) ==
    /\ doing[t] = "resetStore"
    /\ Store(t, FALSE)
    /\ Goto(t, "resetStamp")
    /\ UNCHANGED <<lastCheckAge, callAge, val>>
    /\ KeyUntouched

ResetStamp(t) ==
    /\ doing[t] = "resetStamp"
    /\ Stamp(t, 0)
    /\ Goto(t, "idle")
    /\ UNCHANGED <<cached, callAge, val>>
    /\ KeyUntouched

-----------------------------------------------------------------------------
(* A service dies and comes back with a new object; time passes. *)

Restart(s) ==
    /\ cached' = [cached EXCEPT ![s] = FALSE]
    /\ lastCheckAge' = [lastCheckAge EXCEPT ![s] = Expired]
    /\ doing' = [t \in Threads |-> IF Service[t] = s THEN "idle" ELSE doing[t]]
    /\ UNCHANGED <<callAge, val>>
    /\ KeyUntouched

\* The environment's promise: no call in progress lasts longer than MaxCall.
Age ==
    /\ \A t \in Threads : doing[t] # "idle" => callAge[t] < MaxCall
    /\ lastCheckAge' = [s \in Services |-> Older(lastCheckAge[s], Expired)]
    /\ callAge' = [t \in Threads |-> Older(callAge[t], MaxCall)]
    /\ sinceClear' = IF key THEN Older(sinceClear, Bound) ELSE 0
    /\ sinceTrip' = IF key THEN 0 ELSE Older(sinceTrip, Bound)
    /\ UNCHANGED <<key, cached, doing, val>>

Check(t) ==
    \/ CheckBegin(t) \/ CheckTest(t) \/ CheckGet(t) \/ CheckGetFails(t)
    \/ CheckStore(t) \/ CheckStamp(t) \/ CheckAnswer(t)

Trip(t) ==
    \/ TripBegin(t) \/ TripSet(t) \/ TripSetFails(t)
    \/ TripStore(t) \/ TripStamp(t)

Reset(t) ==
    \/ ResetBegin(t) \/ ResetDelete(t) \/ ResetDeleteFails(t)
    \/ ResetStore(t) \/ ResetStamp(t)

BreakerNext ==
    \/ \E t \in Threads : Check(t) \/ Trip(t) \/ Reset(t)
    \/ \E s \in Services : Restart(s)
    \/ Age

BreakerSpec == BreakerInit /\ [][BreakerNext]_breakerVars

-----------------------------------------------------------------------------
Labels == {"idle", "test", "get", "store", "stamp", "answer",
           "set", "tripStore", "tripStamp",
           "delete", "resetStore", "resetStamp"}

\* The types of the variables.
BreakerTypeOK ==
    /\ key \in BOOLEAN
    /\ cached \in [Services -> BOOLEAN]
    /\ lastCheckAge \in [Services -> 0..Expired]
    /\ doing \in [Threads -> Labels]
    /\ callAge \in [Threads -> 0..MaxCall]
    /\ val \in [Threads -> BOOLEAN]
    /\ sinceClear \in 0..Bound
    /\ sinceTrip \in 0..Bound

(* No lost trip: however the calls of the threads of a process interleave, *)
(* is_tripped answers FALSE only if the key was absent less than           *)
(* Interval + 3 * MaxCall ago.  One MaxCall is the stale GET of a slow     *)
(* check, one the gap between the store and the stamp of a slow trip, one  *)
(* the slow call that answers.                                             *)
FalseAnswerIsRecent ==
    \A t \in Threads :
        doing[t] = "answer" /\ ~cached[Service[t]] => sinceClear < Bound

(* No lost reset: is_tripped answers TRUE only if, within the same bound,  *)
(* the key was present or Redis could not be asked.                        *)
TrueAnswerIsRecent ==
    \A t \in Threads :
        doing[t] = "answer" /\ cached[Service[t]] => sinceTrip < Bound

=============================================================================
