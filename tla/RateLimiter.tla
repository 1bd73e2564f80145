----------------------------- MODULE RateLimiter ----------------------------
(***************************************************************************)
(* The requests of the Coinbase client (lib/quant_core/coinbase_rest.py),  *)
(* which pass a token bucket (lib/quant_core/rate_limiter.py) before each  *)
(* attempt, whatever the bucket answers, and are retried with a backoff.   *)
(* Time is a count of ticks and one token comes in Period of them; the     *)
(* bucket's content is counted in ticks too, so that nothing is rounded.   *)
(***************************************************************************)
EXTENDS Integers, Sequences

CONSTANTS
    Callers,     \* threads that share the client
    Period,      \* 1 / calls_per_second
    Burst,       \* burst_size
    Timeout,     \* of acquire
    MaxRetries,  \* RetryPolicy.max_retries
    Backoffs,    \* the delays that delay_for_attempt gives
    MaxTime,     \* bound on the time explored
    MaxRequests  \* bound on the attempts explored

ASSUME RateLimiterAssumption ==
    /\ Period \in Nat \ {0} /\ Burst \in Nat \ {0} /\ Timeout \in Nat
    /\ MaxRetries \in Nat /\ Backoffs \subseteq Nat
    /\ MaxTime \in Nat /\ MaxRequests \in Nat

VARIABLES
    now,         \* time.monotonic()
    tokens,      \* _tokens, in ticks
    lastRefill,  \* _last_refill
    pc,          \* where each caller is
    wake,        \* when its sleep ends
    deadline,    \* of its acquire()
    attempt,     \* of its request
    grants,      \* when acquire() returned True (history)
    requests     \* when a request went out (history)

bucket == <<tokens, lastRefill, grants>>
caller == <<pc, wake, deadline, attempt>>
vars == <<now, bucket, caller, requests>>

\* A full bucket.
Full == Burst * Period

Init ==
    /\ now = 0 /\ tokens = Full /\ lastRefill = 0 /\ grants = <<>>
    /\ pc = [c \in Callers |-> "idle"]
    /\ wake = [c \in Callers |-> 0] /\ deadline = [c \in Callers |-> 0]
    /\ attempt = [c \in Callers |-> 0]
    /\ requests = <<>>

At(c, from, to) == pc[c] = from /\ pc' = [pc EXCEPT ![c] = to]

-----------------------------------------------------------------------------
(* acquire(). *)

Refilled ==
    IF tokens + (now - lastRefill) <= Full THEN tokens + (now - lastRefill) ELSE Full

\* Under the lock: _refill, and a token if there is one.
Grant(c) ==
    /\ At(c, "acquire", "send")
    /\ Refilled >= Period
    /\ tokens' = Refilled - Period /\ lastRefill' = now
    /\ grants' = Append(grants, now)
    /\ UNCHANGED <<now, wake, deadline, attempt, requests>>

\* Mutant of NoToken: the refill is not dated.
NoTokenUndated(c) ==
    /\ At(c, "acquire", "wait")
    /\ Refilled < Period
    /\ tokens' = Refilled
    /\ UNCHANGED <<now, lastRefill, wake, deadline, attempt, grants, requests>>

NoToken(c) ==
    /\ At(c, "acquire", "wait")
    /\ Refilled < Period
    /\ tokens' = Refilled /\ lastRefill' = now
    /\ UNCHANGED <<now, wake, deadline, attempt, grants, requests>>

\* After the lock: sleep for one token's time, or for what is left.
Wait(c) ==
    /\ deadline[c] > now
    /\ At(c, "wait", "sleep")
    /\ wake' = [wake EXCEPT ![c] =
                   now + (IF Period <= deadline[c] - now THEN Period ELSE deadline[c] - now)]
    /\ UNCHANGED <<now, bucket, deadline, attempt, requests>>

Woken(c) ==
    /\ now >= wake[c]
    /\ At(c, "sleep", "acquire")
    /\ UNCHANGED <<now, bucket, wake, deadline, attempt, requests>>

\* acquire() returns False, and _request does not look at it.
TimesOut(c) ==
    /\ deadline[c] <= now
    /\ At(c, "wait", "send")
    /\ UNCHANGED <<now, bucket, wake, deadline, attempt, requests>>

-----------------------------------------------------------------------------
(* _request(). *)

Acquire(c, from) ==
    /\ At(c, from, "acquire")
    /\ deadline' = [deadline EXCEPT ![c] = now + Timeout]

Begin(c) ==
    /\ Acquire(c, "idle")
    /\ attempt' = [attempt EXCEPT ![c] = 0]
    /\ UNCHANGED <<now, bucket, wake, requests>>

\* The answer is final: 200, a client error, or a malformed body.
Answered(c) ==
    /\ Len(requests) < MaxRequests
    /\ At(c, "send", "idle")
    /\ requests' = Append(requests, now)
    /\ UNCHANGED <<now, bucket, wake, deadline, attempt>>

\* 429, a server error or none: backed off, or raised after the last attempt.
Fails(c) ==
    /\ Len(requests) < MaxRequests
    /\ requests' = Append(requests, now)
    /\ IF attempt[c] >= MaxRetries
         THEN At(c, "send", "idle") /\ UNCHANGED wake
         ELSE /\ At(c, "send", "backoff")
              /\ \E delay \in Backoffs : wake' = [wake EXCEPT ![c] = now + delay]
    /\ UNCHANGED <<now, bucket, deadline, attempt>>

Retry(c) ==
    /\ now >= wake[c]
    /\ Acquire(c, "backoff")
    /\ attempt' = [attempt EXCEPT ![c] = @ + 1]
    /\ UNCHANGED <<now, bucket, wake, requests>>

-----------------------------------------------------------------------------
\* No caller is held up between the lock and its sleep.
Tick ==
    /\ now < MaxTime
    /\ \A c \in Callers : pc[c] # "wait"
    /\ now' = now + 1
    /\ UNCHANGED <<bucket, caller, requests>>

Call(c) ==
    \/ Grant(c) \/ NoToken(c) \/ Wait(c) \/ Woken(c) \/ TimesOut(c)
    \/ Begin(c) \/ Answered(c) \/ Fails(c) \/ Retry(c)

Next == Tick \/ \E c \in Callers : Call(c)

Spec == Init /\ [][Next]_vars

\* Any stretch of the times in seq has a burst and the rate's share.
WithinRate(seq) ==
    \A i, j \in 1..Len(seq) :
        i <= j => (j - i + 1) * Period <= Full + (seq[j] - seq[i])

-----------------------------------------------------------------------------
(* The types of the variables. *)
TypeOK ==
    /\ now \in 0..MaxTime /\ tokens \in 0..Full /\ lastRefill \in 0..now
    /\ pc \in [Callers -> {"idle", "acquire", "wait", "sleep", "send", "backoff"}]
    /\ wake \in [Callers -> Nat] /\ deadline \in [Callers -> Nat]
    /\ attempt \in [Callers -> 0..MaxRetries]
    /\ grants \in Seq(0..now) /\ requests \in Seq(0..now)

(* However its callers interleave, the bucket lets through a burst and     *)
(* the rate's share in any stretch of time, and no more.                   *)
GrantsWithinRate == WithinRate(grants)

(* A single caller, whose acquire() has time for one token, sends within   *)
(* the rate but for one request, retries included, although what acquire() *)
(* answers is not looked at.                                               *)
RequestsWithinRate ==
    \A i, j \in 1..Len(requests) :
        i <= j => (j - i) * Period <= Full + (requests[j] - requests[i])

=============================================================================
