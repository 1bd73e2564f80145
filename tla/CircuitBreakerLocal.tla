------------------------ MODULE CircuitBreakerLocal -------------------------
(***************************************************************************)
(* What trip promises inside the process that calls it: it writes its own  *)
(* cache, so that this process need not wait for the cache to expire.      *)
(* Two history variables follow that promise through CircuitBreaker.       *)
(***************************************************************************)
EXTENDS CircuitBreaker

VARIABLES
    tripped,  \* tripped[s]: trip has returned in s, no reset was called since
    saw       \* saw[t]: what tripped was when t's is_tripped began

localVars == <<breakerVars, tripped, saw>>

LocalInit ==
    /\ BreakerInit
    /\ tripped = [s \in Services |-> FALSE]
    /\ saw = [t \in Threads |-> FALSE]

Forget == [s \in Services |-> FALSE]

NoOtherReset(t) ==
    \A u \in Threads \ {t} : doing[u] \notin {"delete", "resetStore", "resetStamp"}

LocalNext ==
    \/ \E t \in Threads :
        \/ /\ CheckBegin(t)
           /\ saw' = [saw EXCEPT ![t] = tripped[Service[t]]]
           /\ UNCHANGED tripped
        \/ /\ TripStamp(t)
           /\ tripped' = [tripped EXCEPT ![Service[t]] = NoOtherReset(t)]
           /\ UNCHANGED saw
        \/ /\ ResetBegin(t)
           /\ tripped' = Forget
           /\ saw' = [u \in Threads |-> FALSE]
        \/ /\ \/ CheckTest(t) \/ CheckGet(t) \/ CheckGetFails(t)
              \/ CheckStore(t) \/ CheckStamp(t) \/ CheckAnswer(t)
              \/ TripBegin(t) \/ TripSet(t) \/ TripSetFails(t) \/ TripStore(t)
              \/ ResetDelete(t) \/ ResetDeleteFails(t)
              \/ ResetStore(t) \/ ResetStamp(t)
           /\ UNCHANGED <<tripped, saw>>
    \/ \E s \in Services :
        /\ Restart(s)
        /\ tripped' = [tripped EXCEPT ![s] = FALSE]
        /\ saw' = [t \in Threads |-> saw[t] /\ Service[t] # s]
    \/ Age /\ UNCHANGED <<tripped, saw>>

LocalSpec == LocalInit /\ [][LocalNext]_localVars

(* A check that begins after trip has returned in the same process, with   *)
(* no reset called since, answers that the breaker is tripped: trip wrote  *)
(* the cache that the check answers from.                                  *)
TripIsVisibleLocally ==
    \A t \in Threads : doing[t] = "answer" /\ saw[t] => cached[Service[t]]

=============================================================================
