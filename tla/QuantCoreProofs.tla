--------------------------- MODULE QuantCoreProofs --------------------------
(***************************************************************************)
(* What the library that the services share promises: the rate limiter,    *)
(* for any number of callers, any rate and any burst; and the circuit      *)
(* breaker, for any number of services and threads, any interval and any   *)
(* bound on the length of a call.                                          *)
(***************************************************************************)
EXTENDS RateLimiter, CircuitBreaker, TLAPS

\* A request that backs off has an attempt left.
Attempts == \A c \in Callers : pc[c] = "backoff" => attempt[c] < MaxRetries

Shape == TypeOK /\ Attempts

\* What is left in the bucket and what was taken since a grant came out of
\* a full bucket and the time since then.
Spent ==
    \A i \in 1..Len(grants) :
        tokens + (Len(grants) - i + 1) * Period <= Full + (lastRefill - grants[i])

Others(c) ==
    \/ Wait(c) \/ Woken(c) \/ TimesOut(c)
    \/ Begin(c) \/ Answered(c) \/ Fails(c) \/ Retry(c)

LEMMA Constants ==
    /\ Period \in Nat \ {0} /\ Full \in Nat /\ Period <= Full /\ Timeout \in Nat
    /\ MaxTime \in Nat /\ MaxRetries \in Nat /\ Backoffs \subseteq Nat
<1>1. /\ Period \in Nat \ {0} /\ Burst \in Nat \ {0} /\ Timeout \in Nat
      /\ MaxTime \in Nat /\ MaxRetries \in Nat /\ Backoffs \subseteq Nat
  BY RateLimiterAssumption DEF RateLimiterAssumption
<1>2. Burst * Period = (Burst - 1) * Period + Period /\ (Burst - 1) * Period \in Nat
  BY <1>1
<1>3. QED
  BY <1>1, <1>2 DEF Full

LEMMA ElementOf ==
    ASSUME NEW S, NEW seq \in Seq(S), NEW i \in 1..Len(seq)
    PROVE  seq[i] \in S
OBVIOUS

LEMMA ShareIsInt == ASSUME NEW i \in Int, NEW j \in Int
                    PROVE  (j - i) * Period \in Int /\ (j - i + 1) * Period \in Int
<1>1. Period \in Int
  BY Constants
<1>2. QED
  BY ONLY <1>1

LEMMA DropNatural ==
    ASSUME NEW a \in Nat, NEW b \in Int, NEW d \in Int, a + b <= d
    PROVE  b <= d
OBVIOUS

LEMMA ShapeInit == Init => Shape
BY Constants DEF Init, Shape, TypeOK, Attempts

LEMMA ShapeNext == Shape /\ [Next]_vars => Shape'
<1> SUFFICES ASSUME Shape, [Next]_vars PROVE Shape'
  OBVIOUS
<1>. USE Constants DEF Shape, TypeOK, Attempts
<1>1. CASE UNCHANGED vars
  BY <1>1 DEF vars, bucket, caller
<1>2. CASE Tick
  BY <1>2 DEF Tick, bucket, caller
<1>3. ASSUME NEW c \in Callers, Grant(c) PROVE Shape'
  <2>1. tokens' \in 0..Full
    BY <1>3 DEF Grant, Refilled
  <2>2. grants' \in Seq(0..now)
    BY <1>3 DEF Grant
  <2>3. QED
    BY <1>3, <2>1, <2>2 DEF Grant, At
<1>4. ASSUME NEW c \in Callers, NoToken(c) PROVE Shape'
  BY <1>4 DEF NoToken, At, Refilled
<1>5. ASSUME NEW c \in Callers, Wait(c) PROVE Shape'
  BY <1>5 DEF Wait, At, bucket
<1>6. ASSUME NEW c \in Callers, Woken(c) \/ TimesOut(c) PROVE Shape'
  BY <1>6 DEF Woken, TimesOut, At, bucket
<1>7. ASSUME NEW c \in Callers, Begin(c) PROVE Shape'
  BY <1>7 DEF Begin, Acquire, At, bucket
<1>8. ASSUME NEW c \in Callers, Answered(c) PROVE Shape'
  BY <1>8 DEF Answered, At, bucket
<1>9. ASSUME NEW c \in Callers, Fails(c) PROVE Shape'
  <2>. /\ UNCHANGED <<now, tokens, lastRefill, grants, deadline, attempt>>
       /\ requests' \in Seq(0..now)
    BY <1>9 DEF Fails, bucket
  <2>1. CASE attempt[c] >= MaxRetries
    <3>1. pc' = [pc EXCEPT ![c] = "idle"] /\ wake' = wake
      BY <1>9, <2>1 DEF Fails, At
    <3>2. QED
      BY <3>1
  <2>2. CASE ~(attempt[c] >= MaxRetries)
    <3>1. PICK delay \in Backoffs : wake' = [wake EXCEPT ![c] = now + delay]
      BY <1>9, <2>2 DEF Fails
    <3>2. wake' \in [Callers -> Nat]
      BY <3>1
    <3>3. pc' = [pc EXCEPT ![c] = "backoff"]
      BY <1>9, <2>2 DEF Fails, At
    <3>4. attempt[c] < MaxRetries
      BY <2>2
    <3>5. QED
      BY <3>2, <3>3, <3>4
  <2>3. QED
    BY <2>1, <2>2
<1>10. ASSUME NEW c \in Callers, Retry(c) PROVE Shape'
  BY <1>10 DEF Retry, Acquire, At, bucket
<1>11. QED
  BY <1>1, <1>2, <1>3, <1>4, <1>5, <1>6, <1>7, <1>8, <1>9, <1>10 DEF Next, Call

(* The types of the variables are those of TypeOK in every reachable state *)
(* (RateLimiter and CoinbaseRESTClient._request); in particular no request *)
(* makes more than MaxRetries retries.                                     *)
THEOREM TypeCorrect == Spec => []TypeOK
<1>1. Shape => TypeOK
  BY DEF Shape
<1>2. QED
  BY <1>1, ShapeInit, ShapeNext, PTL DEF Spec

-----------------------------------------------------------------------------
\* Only Grant and NoToken touch the bucket.
LEMMA BucketStep ==
    ASSUME [Next]_vars
    PROVE  \/ UNCHANGED bucket
           \/ \E c \in Callers : Grant(c) \/ NoToken(c)
BY DEF Next, Call, vars, Tick, Wait, Woken, TimesOut, Begin, Answered, Fails, Retry

\* What a refill adds is no more than the time that went by.
LEMMA RefillIsBounded ==
    Shape => /\ Refilled \in Int /\ Refilled <= Full
             /\ Refilled <= tokens + (now - lastRefill)
BY Constants DEF Shape, TypeOK, Refilled

LEMMA SpentWhenRefilled ==
    ASSUME Shape, Spent, NEW i \in 1..Len(grants)
    PROVE  Refilled + (Len(grants) - i + 1) * Period <= Full + (now - grants[i])
<1>. DEFINE share == (Len(grants) - i + 1) * Period
<1>1. /\ share \in Int /\ grants[i] \in Int /\ tokens \in Int /\ lastRefill \in Int
      /\ now \in Int /\ Full \in Int
  BY Constants DEF Shape, TypeOK
<1>2. tokens + share <= Full + (lastRefill - grants[i])
  BY DEF Spent
<1>. HIDE DEF share
<1>3. Refilled + share <= Full + (now - grants[i])
  BY ONLY RefillIsBounded, Shape, <1>1, <1>2
<1>4. QED
  BY <1>3 DEF share

LEMMA SpentNext == Shape /\ Spent /\ [Next]_vars => Spent'
<1> SUFFICES ASSUME Shape, Spent, [Next]_vars PROVE Spent'
  OBVIOUS
<1>1. CASE UNCHANGED bucket
  BY <1>1 DEF bucket, Spent
<1>2. ASSUME NEW c \in Callers, NoToken(c) PROVE Spent'
  BY <1>2, SpentWhenRefilled DEF NoToken, Spent
<1>3. ASSUME NEW c \in Callers, Grant(c) PROVE Spent'
  <2>1. /\ Len(grants) \in Nat /\ Len(grants') = Len(grants) + 1
        /\ grants'[Len(grants) + 1] = now
        /\ \A i \in 1..Len(grants) : grants'[i] = grants[i]
    BY <1>3 DEF Grant, Shape, TypeOK
  <2>2. Refilled \in Int /\ Refilled <= Full /\ Full \in Int /\ Period \in Int /\ now \in Int
    BY RefillIsBounded, Constants DEF Shape, TypeOK
  <2>3. ASSUME NEW i \in 1..Len(grants) + 1
        PROVE  (Refilled - Period) + (Len(grants) + 1 - i + 1) * Period
                   <= Full + (now - grants'[i])
    <3>1. CASE i = Len(grants) + 1
      <4>1. (Len(grants) + 1 - i + 1) * Period = Period /\ grants'[i] = now
        BY <2>1, <2>2, <3>1
      <4>2. (Refilled - Period) + Period <= Full + (now - now)
        BY ONLY <2>2
      <4>3. QED
        BY ONLY <4>1, <4>2, Zenon
    <3>2. CASE i # Len(grants) + 1
      <4>. DEFINE share == (Len(grants) - i + 1) * Period  start == grants[i]
      <4>1. i \in 1..Len(grants) /\ grants'[i] = start
        BY <2>1, <3>2
      <4>2. share \in Int /\ start \in Int
        BY <2>1, <2>2, <4>1 DEF Shape, TypeOK
      <4>3. (Len(grants) + 1 - i + 1) * Period = share + Period
        BY <2>1, <2>2, <4>1
      <4>4. Refilled + share <= Full + (now - start)
        BY <4>1, SpentWhenRefilled
      <4>. HIDE DEF share, start
      <4>5. (Refilled - Period) + (share + Period) <= Full + (now - start)
        BY ONLY <2>2, <4>2, <4>4
      <4>6. QED
        BY ONLY <4>1, <4>3, <4>5, Zenon
    <3>3. QED
      BY <3>1, <3>2
  <2>4. tokens' = Refilled - Period /\ lastRefill' = now
    BY <1>3 DEF Grant
  <2>5. ASSUME NEW i \in 1..Len(grants')
        PROVE  tokens' + (Len(grants') - i + 1) * Period
                   <= Full + (lastRefill' - grants'[i])
    <3>1. i \in 1..Len(grants) + 1
      BY <2>1
    <3>2. (Refilled - Period) + (Len(grants) + 1 - i + 1) * Period
              <= Full + (now - grants'[i])
      BY <2>3, <3>1
    <3>3. Len(grants') = Len(grants) + 1
      BY <2>1
    <3>4. QED
      <4>1. (Len(grants') - i + 1) * Period = (Len(grants) + 1 - i + 1) * Period
        BY ONLY <3>3
      <4>2. QED
        BY ONLY <2>4, <3>2, <4>1, Zenon
  <2>6. QED
    BY <2>5 DEF Spent
<1>4. QED
  BY <1>1, <1>2, <1>3, BucketStep

LEMMA GrantsNext ==
    Shape /\ Spent /\ GrantsWithinRate /\ [Next]_vars => GrantsWithinRate'
<1> SUFFICES ASSUME Shape, Spent, GrantsWithinRate, [Next]_vars
             PROVE  GrantsWithinRate'
  OBVIOUS
<1>. USE Constants DEF GrantsWithinRate
<1>1. Shape' /\ Spent'
  BY ShapeNext, SpentNext
<1>2. CASE grants' = grants
  BY <1>2 DEF WithinRate
<1>3. ASSUME NEW c \in Callers, Grant(c) PROVE GrantsWithinRate'
  <2>1. /\ Len(grants') = Len(grants) + 1 /\ Len(grants) \in Nat
        /\ grants'[Len(grants')] = lastRefill'
        /\ \A i \in 1..Len(grants) : grants'[i] = grants[i]
    BY <1>3 DEF Grant, Shape, TypeOK
  <2>2. ASSUME NEW i \in 1..Len(grants'), NEW j \in 1..Len(grants'), i <= j
        PROVE  (j - i + 1) * Period <= Full + (grants'[j] - grants'[i])
    <3>1. CASE j = Len(grants')
      <4>1. tokens' + (j - i + 1) * Period <= Full + (grants'[j] - grants'[i])
        BY <1>1, <2>1, <3>1 DEF Spent
      <4>2. tokens' \in 0..Full /\ grants' \in Seq(0..now')
        BY ONLY <1>1 DEF Shape, TypeOK
      <4>3. grants'[i] \in 0..now' /\ grants'[j] \in 0..now'
        BY ONLY <4>2, ElementOf, i \in 1..Len(grants'), j \in 1..Len(grants'), Zenon
      <4>. DEFINE share == (j - i + 1) * Period  end == grants'[j]  start == grants'[i]
      <4>4. share \in Int /\ end \in Int /\ start \in Int /\ tokens' \in Nat /\ Full \in Nat
        <5>1. i \in Int /\ j \in Int
          OBVIOUS
        <5>2. share \in Int
          BY ONLY <5>1, ShareIsInt
        <5>3. now' \in Int
          BY ONLY <1>1, Constants DEF Shape, TypeOK
        <5>4. QED
          BY ONLY <4>2, <4>3, <5>2, <5>3, Constants
      <4>5. tokens' + share <= Full + (end - start)
        BY ONLY <4>1
      <4>. HIDE DEF share, end, start
      <4>6. share <= Full + (end - start)
        <5>1. Full + (end - start) \in Int
          BY ONLY <4>4
        <5>2. QED
          BY ONLY <4>4, <4>5, <5>1, DropNatural, Zenon
      <4>7. QED
        BY ONLY <4>6 DEF share, end, start
    <3>2. CASE j # Len(grants')
      <4>1. i \in 1..Len(grants) /\ j \in 1..Len(grants)
        BY <2>1, <2>2, <3>2
      <4>2. QED
        BY <2>1, <2>2, <4>1 DEF WithinRate
    <3>3. QED
      BY <3>1, <3>2
  <2>3. QED
    BY <2>2 DEF WithinRate
<1>4. QED
  BY <1>2, <1>3, BucketStep DEF bucket, NoToken

LEMMA RateInit == Init => Spent /\ GrantsWithinRate
BY DEF Init, Spent, GrantsWithinRate, WithinRate

(* In any stretch of time acquire() (RateLimiter) grants at most a burst   *)
(* and the rate's share, however many threads contend for it.              *)
THEOREM BucketKeepsToTheRate == Spec => []GrantsWithinRate
<1>1. Init => Shape /\ Spent /\ GrantsWithinRate
  BY ShapeInit, RateInit
<1>2. Shape /\ Spent /\ GrantsWithinRate /\ [Next]_vars
      => (Shape /\ Spent /\ GrantsWithinRate)'
  BY ShapeNext, SpentNext, GrantsNext
<1>3. QED
  BY <1>1, <1>2, PTL DEF Spec

-----------------------------------------------------------------------------
\* While its acquire() is under way, the bucket has a token at its deadline.
InTime(c) ==
    /\ pc[c] \in {"acquire", "wait", "sleep"} =>
           Period <= tokens + (deadline[c] - lastRefill)
    /\ pc[c] = "wait" => now < deadline[c]

\* Grants and requests alternate.
Paired(c) ==
    /\ Len(grants) = Len(requests) + (IF pc[c] = "send" THEN 1 ELSE 0)
    /\ \A k \in 1..Len(requests) : grants[k] <= requests[k]
    /\ \A k \in 1..Len(grants) : k > 1 => requests[k - 1] <= grants[k]

LEMMA InTimeNext ==
    ASSUME NEW c \in Callers, Callers = {c}, Period <= Timeout,
           Shape, InTime(c), [Next]_vars
    PROVE  InTime(c)'
<1>. USE Constants DEF Shape, TypeOK, InTime
<1>1. CASE UNCHANGED vars
  BY <1>1 DEF vars, bucket, caller
<1>2. CASE Tick
  BY <1>2 DEF Tick, bucket, caller
<1>3. CASE Grant(c)
  BY <1>3 DEF Grant, At
<1>4. CASE NoToken(c)
  <2>1. /\ pc[c] = "acquire" /\ pc' = [pc EXCEPT ![c] = "wait"]
        /\ tokens' = tokens + (now - lastRefill) /\ lastRefill' = now /\ deadline' = deadline
        /\ tokens + (now - lastRefill) < Period
    BY <1>4 DEF NoToken, At, Refilled
  <2>2. Period <= tokens + (deadline[c] - lastRefill)
    BY <2>1
  <2>3. /\ Period <= (tokens + (now - lastRefill)) + (deadline[c] - now)
        /\ now < deadline[c]
    BY <2>1, <2>2
  <2>4. now' = now
    BY <1>4 DEF NoToken
  <2>5. QED
    BY <2>1, <2>3, <2>4
<1>5. CASE Wait(c)
  BY <1>5 DEF Wait, At, bucket
<1>6. CASE Woken(c)
  BY <1>6 DEF Woken, At, bucket
<1>7. CASE TimesOut(c)
  BY <1>7 DEF TimesOut, At, bucket
<1>8. CASE Begin(c) \/ Retry(c)
  BY <1>8 DEF Begin, Retry, Acquire, At, bucket
<1>9. CASE Answered(c) \/ Fails(c)
  BY <1>9 DEF Answered, Fails, At, bucket
<1>10. QED
  BY <1>1, <1>2, <1>3, <1>4, <1>5, <1>6, <1>7, <1>8, <1>9 DEF Next, Call

LEMMA PairedNext ==
    ASSUME NEW c \in Callers, Callers = {c},
           Shape, InTime(c), Paired(c), [Next]_vars
    PROVE  Paired(c)'
<1>. USE Constants DEF Shape, TypeOK, Paired
<1>1. CASE UNCHANGED <<grants, requests>> /\ (pc'[c] = "send" <=> pc[c] = "send")
  BY <1>1
<1>2. CASE UNCHANGED vars \/ Tick
  BY <1>1, <1>2 DEF vars, Tick, bucket, caller
<1>3. CASE Grant(c)
  <2>1. /\ pc[c] = "acquire" /\ pc'[c] = "send" /\ requests' = requests
        /\ Len(grants') = Len(grants) + 1 /\ grants'[Len(grants) + 1] = now
        /\ \A k \in 1..Len(grants) : grants'[k] = grants[k]
    BY <1>3 DEF Grant, At
  <2>2. \A k \in 1..Len(requests) : requests[k] <= now
    <3>1. requests \in Seq(0..now) /\ now \in Nat
      OBVIOUS
    <3>2. \A k \in 1..Len(requests) : requests[k] \in 0..now
      BY ONLY <3>1
    <3> QED
      BY ONLY <3>1, <3>2
  <2>3. Len(grants) = Len(requests) /\ Len(grants) \in Nat
    BY <2>1
  <2>4. \A k \in 1..Len(requests) : grants'[k] <= requests[k]
    BY <2>1, <2>3
  <2>5. ASSUME NEW k \in 1..Len(grants) + 1, k > 1
        PROVE  requests[k - 1] <= grants'[k]
    <3>1. CASE k = Len(grants) + 1
      <4>1. k - 1 \in 1..Len(requests)
        BY <2>3, <2>5, <3>1
      <4>2. QED
        BY <2>1, <2>2, <3>1, <4>1
    <3>2. CASE k # Len(grants) + 1
      <4>1. k \in 1..Len(grants)
        BY ONLY k \in 1..Len(grants) + 1, <2>3, <3>2
      <4>2. QED
        BY <2>1, <2>5, <4>1
    <3>3. QED
      BY <3>1, <3>2
  <2>6. QED
    BY ONLY <2>1, <2>3, <2>4, <2>5 DEF Paired
<1>4. CASE NoToken(c) \/ Wait(c) \/ Woken(c) \/ Begin(c) \/ Retry(c)
  BY <1>1, <1>4 DEF NoToken, Wait, Woken, Begin, Retry, Acquire, At, bucket
<1>5. CASE TimesOut(c)
  BY <1>5 DEF TimesOut, At, InTime
<1>6. CASE Answered(c) \/ Fails(c)
  <2>1. /\ pc[c] = "send" /\ pc'[c] # "send" /\ grants' = grants
        /\ Len(requests') = Len(requests) + 1 /\ requests'[Len(requests) + 1] = now
        /\ \A k \in 1..Len(requests) : requests'[k] = requests[k]
    <3>1. CASE Answered(c)
      BY <3>1 DEF Answered, At, bucket
    <3>2. CASE Fails(c)
      <4>1. pc[c] = "send" /\ pc' \in {[pc EXCEPT ![c] = "idle"], [pc EXCEPT ![c] = "backoff"]}
        BY ONLY <3>2 DEF Fails, At
      <4>2. QED
        BY <3>2, <4>1 DEF Fails, bucket
    <3>3. QED
      BY <1>6, <3>1, <3>2
  <2>2. \A k \in 1..Len(grants) : grants[k] <= now
    OBVIOUS
  <2>3. Len(grants) = Len(requests) + 1 /\ Len(requests) \in Nat
    BY <2>1
  <2>4. ASSUME NEW k \in 1..Len(requests) + 1
        PROVE  grants[k] <= requests'[k]
    <3>1. CASE k = Len(requests) + 1
      BY <2>1, <2>2, <2>3, <3>1
    <3>2. CASE k # Len(requests) + 1
      <4>1. k \in 1..Len(requests)
        BY <2>3, <3>2
      <4>2. QED
        BY <2>1, <4>1
    <3>3. QED
      BY <3>1, <3>2
  <2>5. ASSUME NEW k \in 1..Len(grants), k > 1
        PROVE  requests'[k - 1] <= grants[k]
    <3>1. k - 1 \in 1..Len(requests)
      BY <2>3, <2>5
    <3>2. QED
      BY <2>1, <2>5, <3>1
  <2>6. QED
    BY ONLY <2>1, <2>3, <2>4, <2>5 DEF Paired
<1>7. QED
  BY <1>2, <1>3, <1>4, <1>5, <1>6 DEF Next, Call

LEMMA PairedWithinRate ==
    ASSUME NEW c \in Callers, Shape, Paired(c), GrantsWithinRate
    PROVE  RequestsWithinRate
<1> SUFFICES ASSUME NEW i \in 1..Len(requests), NEW j \in 1..Len(requests), i <= j
             PROVE  (j - i) * Period <= Full + (requests[j] - requests[i])
  BY DEF RequestsWithinRate
<1>1. /\ requests \in Seq(0..now) /\ grants \in Seq(0..now) /\ now \in Nat
  BY ONLY Shape, Constants DEF Shape, TypeOK
<1>2. /\ Len(requests) \in Nat /\ Len(grants) \in Nat /\ Len(grants) >= Len(requests)
      /\ \A k \in 1..Len(requests) : requests[k] \in Int
      /\ \A k \in 1..Len(grants) : grants[k] \in Int
  <2>1. Len(requests) \in Nat /\ Len(grants) \in Nat
    BY ONLY <1>1
  <2>2. Len(grants) >= Len(requests)
    BY ONLY <2>1, Paired(c) DEF Paired
  <2>3. \A k \in 1..Len(requests) : requests[k] \in 0..now
    BY ONLY <1>1, ElementOf, Zenon
  <2>4. \A k \in 1..Len(grants) : grants[k] \in 0..now
    BY ONLY <1>1, ElementOf, Zenon
  <2>5. 0..now \subseteq Int
    BY ONLY <1>1
  <2>6. QED
    BY ONLY <2>1, <2>2, <2>3, <2>4, <2>5
<1>3. CASE i = j
  <2>1. j - i = 0 /\ requests[j] - requests[i] = 0
    BY ONLY <1>2, <1>3, i \in 1..Len(requests), j \in 1..Len(requests)
  <2>2. QED
    BY ONLY <2>1, Constants
<1>4. CASE i < j
  <2>1. i + 1 \in 1..Len(grants) /\ j \in 1..Len(grants) /\ i + 1 <= j /\ i + 1 > 1
    BY ONLY <1>2, <1>4, i \in 1..Len(requests), j \in 1..Len(requests)
  <2>2. (j - (i + 1) + 1) * Period <= Full + (grants[j] - grants[i + 1])
    BY ONLY <2>1, GrantsWithinRate DEF GrantsWithinRate, WithinRate
  <2>3. j - (i + 1) + 1 = j - i /\ (i + 1) - 1 = i
    BY ONLY i \in 1..Len(requests), j \in 1..Len(requests)
  <2>4. grants[j] <= requests[j] /\ requests[i] <= grants[i + 1]
    BY ONLY <2>1, <2>3, Paired(c), j \in 1..Len(requests) DEF Paired
  <2>. DEFINE share == (j - i) * Period
              sentI == requests[i]  sentJ == requests[j]
              grantedI == grants[i + 1]  grantedJ == grants[j]
  <2>5. share \in Int
    BY ONLY <1>2, ShareIsInt, i \in 1..Len(requests), j \in 1..Len(requests)
  <2>6. sentI \in Int /\ sentJ \in Int /\ grantedI \in Int /\ grantedJ \in Int /\ Full \in Int
    BY ONLY <1>2, <2>1, Constants, i \in 1..Len(requests), j \in 1..Len(requests)
  <2>7. share <= Full + (grantedJ - grantedI)
    BY ONLY <2>2, <2>3
  <2>8. grantedJ <= sentJ /\ sentI <= grantedI
    BY ONLY <2>4
  <2>. HIDE DEF share, sentI, sentJ, grantedI, grantedJ
  <2>9. share <= Full + (sentJ - sentI)
    BY ONLY <2>5, <2>6, <2>7, <2>8
  <2>10. QED
    BY ONLY <2>9 DEF share, sentI, sentJ
<1>5. QED
  BY ONLY <1>3, <1>4, i <= j, i \in 1..Len(requests), j \in 1..Len(requests)

(* A single caller, like execution's consume thread, whose acquire() has   *)
(* time for one token, keeps its requests (CoinbaseRESTClient._request),   *)
(* retries included, to the rate: its acquire() is never refused.          *)
THEOREM LoneCallerKeepsToTheRate ==
    ASSUME NEW c \in Callers, Callers = {c}, Period <= Timeout
    PROVE  Spec => []RequestsWithinRate
<1>. DEFINE LInv == Shape /\ Spent /\ GrantsWithinRate /\ InTime(c) /\ Paired(c)
<1>1. Init => LInv
  BY ShapeInit, RateInit, Constants DEF Init, InTime, Paired
<1>2. LInv /\ [Next]_vars => LInv'
  BY ShapeNext, SpentNext, GrantsNext, InTimeNext, PairedNext
<1>3. LInv => RequestsWithinRate
  BY PairedWithinRate
<1>. HIDE DEF LInv
<1>4. QED
  BY <1>1, <1>2, <1>3, PTL DEF Spec

-----------------------------------------------------------------------------
(* The circuit breaker. *)

(* The inductive invariant speaks of both states of the breaker at once:   *)
(* of FALSE with the time since the key was absent, of TRUE with the time  *)
(* since the key was present or unreadable.                                *)

\* The history variables say so when Redis holds the state now.
Now == IF key THEN sinceTrip = 0 ELSE sinceClear = 0

\* A thread about to store a state has seen it, or made it so, in its call.
StoreInv(state, storing, since) ==
    \A t \in Threads :
        (doing[t] = "store" /\ val[t] = state) \/ doing[t] = storing
        => since <= callAge[t]

\* A cached state is not much older than the stamp that keeps it alive: the
\* slack is the stale read of a slow check and the late stamp of a slow call.
CacheInv(state, since) ==
    \A s \in Services :
        cached[s] = state => \/ lastCheckAge[s] = Expired
                             \/ since <= lastCheckAge[s] + 2 * MaxCall

StampInv(state, since) ==
    \A t \in Threads :
        /\ doing[t] \in {"stamp", "tripStamp", "resetStamp"}
        /\ cached[Service[t]] = state
        => since <= callAge[t] + MaxCall

AnswerInv(state, since) ==
    \A t \in Threads :
        doing[t] = "answer" /\ cached[Service[t]] = state
        => since < Interval + 2 * MaxCall + callAge[t]

Recent(state, storing, since) ==
    /\ StoreInv(state, storing, since)
    /\ CacheInv(state, since)
    /\ StampInv(state, since)
    /\ AnswerInv(state, since)

Seen ==
    /\ Now
    /\ Recent(FALSE, "resetStore", sinceClear)
    /\ Recent(TRUE, "tripStore", sinceTrip)

-----------------------------------------------------------------------------
USE CircuitBreakerAssumption DEF CircuitBreakerAssumption, Expired, Bound

(* Every variable keeps its type: in particular ages never exceed the     *)
(* limit at which they saturate.                                          *)
THEOREM BreakerTypes == BreakerSpec => []BreakerTypeOK
<1>1. BreakerInit => BreakerTypeOK
  BY DEF BreakerInit, BreakerTypeOK, Labels
<1>2. BreakerTypeOK /\ [BreakerNext]_breakerVars => BreakerTypeOK'
  <2> SUFFICES ASSUME BreakerTypeOK, [BreakerNext]_breakerVars
               PROVE  BreakerTypeOK'
    OBVIOUS
  <2> USE DEF BreakerTypeOK, Labels, Goto, Store, Stamp,
              KeySet, KeyDeleted, KeyUntouched, history,
              local
  <2>z. 0 \in 0..Bound
    OBVIOUS
  <2>1. ASSUME NEW t \in Threads, Check(t)
        PROVE  BreakerTypeOK'
    <3>s. Service[t] \in Services
      OBVIOUS
    <3>1. CASE CheckBegin(t)
      BY <3>1, <3>s DEF CheckBegin, Enter
    <3>2. CASE CheckTest(t)
      BY <3>2, <3>s DEF CheckTest, Fresh
    <3>3. CASE CheckGet(t)
      BY <3>3, <3>s DEF CheckGet
    <3>4. CASE CheckGetFails(t)
      BY <3>4, <3>s DEF CheckGetFails
    <3>5. CASE CheckStore(t)
      BY <3>5, <3>s DEF CheckStore
    <3>6. CASE CheckStamp(t)
      BY <3>6, <3>s DEF CheckStamp
    <3>7. CASE CheckAnswer(t)
      BY <3>7, <3>s DEF CheckAnswer
    <3>q. QED
      BY <2>1, <3>1, <3>2, <3>3, <3>4, <3>5, <3>6, <3>7 DEF Check
  <2>2. ASSUME NEW t \in Threads, Trip(t)
        PROVE  BreakerTypeOK'
    <3>s. Service[t] \in Services
      OBVIOUS
    <3>1. CASE TripBegin(t)
      BY <3>1, <3>s DEF TripBegin, Enter
    <3>2. CASE TripSet(t)
      BY <3>2, <3>s DEF TripSet
    <3>3. CASE TripSetFails(t)
      <4>1. doing' \in [Threads -> Labels]
        BY <3>3 DEF TripSetFails
      <4>2. UNCHANGED <<local, callAge, val>>
        BY <3>3 DEF TripSetFails
      <4>3. key' \in BOOLEAN
        BY <3>3 DEF TripSetFails
      <4>4. sinceClear' \in 0..Bound /\ sinceTrip' \in 0..Bound
        BY <3>3, <2>z DEF TripSetFails
      <4>5. QED
        BY <4>1, <4>2, <4>3, <4>4
    <3>4. CASE TripStore(t)
      BY <3>4, <3>s DEF TripStore
    <3>5. CASE TripStamp(t)
      BY <3>5, <3>s DEF TripStamp
    <3>q. QED
      BY <2>2, <3>1, <3>2, <3>3, <3>4, <3>5 DEF Trip
  <2>3. ASSUME NEW t \in Threads, Reset(t)
        PROVE  BreakerTypeOK'
    <3>s. Service[t] \in Services
      OBVIOUS
    <3>1. CASE ResetBegin(t)
      BY <3>1, <3>s DEF ResetBegin, Enter
    <3>2. CASE ResetDelete(t)
      <4>1. doing' \in [Threads -> Labels]
        BY <3>2 DEF ResetDelete
      <4>2. UNCHANGED <<local, callAge, val>>
        BY <3>2 DEF ResetDelete
      <4>3. key' \in BOOLEAN
        BY <3>2 DEF ResetDelete
      <4>4. sinceClear' \in 0..Bound /\ sinceTrip' \in 0..Bound
        BY <3>2, <2>z DEF ResetDelete
      <4>5. QED
        BY <4>1, <4>2, <4>3, <4>4
    <3>3. CASE ResetDeleteFails(t)
      <4>1. doing' \in [Threads -> Labels]
        BY <3>3 DEF ResetDeleteFails
      <4>2. UNCHANGED <<local, callAge, val>>
        BY <3>3 DEF ResetDeleteFails
      <4>3. key' \in BOOLEAN
        BY <3>3 DEF ResetDeleteFails
      <4>4. sinceClear' \in 0..Bound /\ sinceTrip' \in 0..Bound
        BY <3>3, <2>z DEF ResetDeleteFails
      <4>5. QED
        BY <4>1, <4>2, <4>3, <4>4
    <3>4. CASE ResetStore(t)
      BY <3>4, <3>s DEF ResetStore
    <3>5. CASE ResetStamp(t)
      BY <3>5, <3>s DEF ResetStamp
    <3>q. QED
      BY <2>3, <3>1, <3>2, <3>3, <3>4, <3>5 DEF Reset
  <2>4. ASSUME NEW s \in Services, Restart(s)
        PROVE  BreakerTypeOK'
    BY <2>4 DEF Restart
  <2>5. CASE Age
    BY <2>5 DEF Age, Older
  <2>6. CASE UNCHANGED breakerVars
    BY <2>6 DEF breakerVars
  <2>7. QED
    BY <2>1, <2>2, <2>3, <2>4, <2>5, <2>6 DEF BreakerNext
<1>3. QED
  BY <1>1, <1>2, PTL DEF BreakerSpec

(* Seen is inductive: whatever a thread of is_tripped, trip or reset       *)
(* stores, stamps or answers was true of Redis not long ago.               *)
LEMMA AnswersAreRecent == BreakerSpec => []Seen
<1>1. BreakerInit => Seen
  BY DEF BreakerInit, Seen, Now, Recent, StoreInv, CacheInv, StampInv, AnswerInv
<1>2. BreakerTypeOK /\ Seen /\ [BreakerNext]_breakerVars => Seen'
  <2> SUFFICES ASSUME BreakerTypeOK, Seen, [BreakerNext]_breakerVars
               PROVE  Seen'
    OBVIOUS
  <2> USE DEF BreakerTypeOK, Seen, Now, Recent, StoreInv, CacheInv, StampInv, AnswerInv,
              Goto, Store, Stamp, KeySet, KeyDeleted,
              KeyUntouched, history, local
  <2>1. ASSUME NEW t \in Threads, Check(t)
        PROVE  Seen'
    <3>s. Service[t] \in Services
      OBVIOUS
    <3>1. CASE CheckBegin(t)
      BY <3>1, <3>s DEF CheckBegin, Enter
    <3>2. CASE CheckTest(t)
      BY <3>2, <3>s DEF CheckTest, Fresh
    <3>3. CASE CheckGet(t)
      BY <3>3, <3>s DEF CheckGet
    <3>4. CASE CheckGetFails(t)
      BY <3>4, <3>s DEF CheckGetFails
    <3>5. CASE CheckStore(t)
      BY <3>5, <3>s DEF CheckStore
    <3>6. CASE CheckStamp(t)
      BY <3>6, <3>s DEF CheckStamp
    <3>7. CASE CheckAnswer(t)
      BY <3>7, <3>s DEF CheckAnswer
    <3>q. QED
      BY <2>1, <3>1, <3>2, <3>3, <3>4, <3>5, <3>6, <3>7 DEF Check
  <2>2. ASSUME NEW t \in Threads, Trip(t)
        PROVE  Seen'
    <3>s. Service[t] \in Services
      OBVIOUS
    <3>1. CASE TripBegin(t)
      BY <3>1, <3>s DEF TripBegin, Enter
    <3>2. CASE TripSet(t)
      BY <3>2, <3>s DEF TripSet
    <3>3. CASE TripSetFails(t)
      BY <3>3, <3>s DEF TripSetFails
    <3>4. CASE TripStore(t)
      BY <3>4, <3>s DEF TripStore
    <3>5. CASE TripStamp(t)
      BY <3>5, <3>s DEF TripStamp
    <3>q. QED
      BY <2>2, <3>1, <3>2, <3>3, <3>4, <3>5 DEF Trip
  <2>3. ASSUME NEW t \in Threads, Reset(t)
        PROVE  Seen'
    <3>s. Service[t] \in Services
      OBVIOUS
    <3>1. CASE ResetBegin(t)
      BY <3>1, <3>s DEF ResetBegin, Enter
    <3>2. CASE ResetDelete(t)
      BY <3>2, <3>s DEF ResetDelete
    <3>3. CASE ResetDeleteFails(t)
      BY <3>3, <3>s DEF ResetDeleteFails
    <3>4. CASE ResetStore(t)
      BY <3>4, <3>s DEF ResetStore
    <3>5. CASE ResetStamp(t)
      BY <3>5, <3>s DEF ResetStamp
    <3>q. QED
      BY <2>3, <3>1, <3>2, <3>3, <3>4, <3>5 DEF Reset
  <2>4. ASSUME NEW s \in Services, Restart(s)
        PROVE  Seen'
    BY <2>4 DEF Restart
  <2>5. CASE Age
    BY <2>5 DEF Age, Older
  <2>6. CASE UNCHANGED breakerVars
    BY <2>6 DEF breakerVars
  <2>7. QED
    BY <2>1, <2>2, <2>3, <2>4, <2>5, <2>6 DEF BreakerNext
<1>3. QED
  BY <1>1, <1>2, BreakerTypes, PTL DEF BreakerSpec

(* A trip takes effect everywhere: no answer is FALSE once the key has     *)
(* been there for Bound ticks, in whatever way the calls interleave.       *)
THEOREM TripIsNotLost == BreakerSpec => []FalseAnswerIsRecent
<1>1. BreakerTypeOK /\ Seen => FalseAnswerIsRecent
  BY DEF BreakerTypeOK, Seen, Recent, AnswerInv, FalseAnswerIsRecent
<1>2. QED
  BY <1>1, BreakerTypes, AnswersAreRecent, PTL

(* A reset takes effect everywhere: no answer is TRUE once the key has     *)
(* been away, and Redis reachable, for Bound ticks.                        *)
THEOREM ResetIsNotLost == BreakerSpec => []TrueAnswerIsRecent
<1>1. BreakerTypeOK /\ Seen => TrueAnswerIsRecent
  BY DEF BreakerTypeOK, Seen, Recent, AnswerInv, TrueAnswerIsRecent
<1>2. QED
  BY <1>1, BreakerTypes, AnswersAreRecent, PTL

=============================================================================
