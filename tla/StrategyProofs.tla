--------------------------- MODULE StrategyProofs ---------------------------
(***************************************************************************)
(* The strategies and the analysis that judges one.  For any warmup,       *)
(* cooldown, queue and number of restarts the two strategies of a symbol   *)
(* cancel: within a life they signal at the same trades and to opposite    *)
(* sides, and the topic has at most one signal without its counterpart for *)
(* each life and for each delivery that fails, comes late or is repeated.  *)
(* For every number of trades, splits and minimum, and every               *)
(* share of training, the walk-forward analysis does not look ahead, which *)
(* is mostly about the rounding of the sizes and of the starts; and for    *)
(* any results, simulations and costs the grade is what it takes.          *)
(***************************************************************************)
EXTENDS AlphaEngine, Backtest, DataTheorems, TLAPS

Mean == "mean_reversion"
Mom == "momentum"

LEMMA RegistryIs ==
    /\ Strategies = {Mean, Mom} /\ Registry[1] = Mean /\ Registry[2] = Mom
    /\ Len(Registry) = 2
<1>1. DOMAIN Registry = {1, 2} /\ Registry[1] = Mean /\ Registry[2] = Mom
        /\ Len(Registry) = 2
      BY DEF Registry, Mean, Mom
<1> QED
    BY <1>1 DEF Strategies, ToSet

LEMMA ProceedIs ==
    ASSUME Proceed
    PROVE  /\ next = 1 => next' = 2 /\ pc' = "trade"
           /\ next = 2 => next' = 1 /\ pc' = "poll"
<1>1. Len(Registry) = 2
      BY RegistryIs
<1> QED
    BY <1>1 DEF Proceed

-----------------------------------------------------------------------------
(* Types. *)

Produced == [strategy : Strategies, side : Sides]

Types ==
    /\ taken \in Nat /\ pc \in {"poll", "breaker", "trade", "dead"} /\ next \in {1, 2}
    /\ count \in [Strategies -> Nat] /\ since \in [Strategies -> Nat]
    /\ last \in [Strategies -> Sides \cup {"none"}]
    /\ queue \in Seq(Produced)
    /\ sent \in Int /\ emitted \in Int /\ restarts \in Nat /\ losses \in Nat

LEMMA SideForType ==
    ASSUME NEW s, NEW z PROVE SideFor(s, z) \in Sides \cup {"none"}
BY DEF SideFor, Sides

LEMMA SignalForType ==
    ASSUME NEW s PROVE SignalFor(s) \in Sides \cup {"none"}
BY SideForType DEF SignalFor

LEMMA CountTradeTypes ==
    ASSUME Types, NEW s \in Strategies, NEW b \in BOOLEAN, CountTrade(s, b)
    PROVE  count' \in [Strategies -> Nat] /\ since' \in [Strategies -> Nat]
BY AlphaEngineAssumption DEF Types, CountTrade, UpTo

LEMMA NextTypes ==
    ASSUME Types, pc = "trade"
    PROVE  Registry[next] \in Strategies
BY RegistryIs DEF Types

LEMMA RememberTypes ==
    ASSUME Types, NEW s \in Strategies, Remember(s)
    PROVE  /\ count' \in [Strategies -> Nat] /\ since' \in [Strategies -> Nat]
           /\ last' \in [Strategies -> Sides \cup {"none"}]
           /\ SignalFor(s) \in Sides
<1>1. CountTrade(s, TRUE)
      BY DEF Remember
<1> QED
    BY <1>1, CountTradeTypes, SignalForType DEF Remember, Types

\* A signal goes to the topic from some place of the queue.
LEMMA DeliverTypes ==
    ASSUME queue \in Seq(Produced), NEW i \in 1..Len(queue)
    PROVE  /\ queue[i] \in Produced /\ Weight(queue[i].side) \in {-1, 1}
           /\ RemoveAt(queue, i) \in Seq(Produced)
           /\ Len(RemoveAt(queue, i)) = Len(queue) - 1
           /\ \A k \in 1..(Len(queue) - 1) :
                 RemoveAt(queue, i)[k] = IF k < i THEN queue[k] ELSE queue[k + 1]
<1>1. queue[i] \in Produced
      OBVIOUS
<1>2. Weight(queue[i].side) \in {-1, 1}
      BY DEF Weight
<1> DEFINE q == queue
<1>3. q \in Seq(Produced) /\ Len(q) \in Nat /\ i \in 1..Len(q)
      OBVIOUS
<1> HIDE DEF q
<1>4. /\ RemoveAt(q, i) \in Seq(Produced)
      /\ Len(RemoveAt(q, i)) = Len(q) - 1
      /\ \A k \in 1..(Len(q) - 1) :
            RemoveAt(q, i)[k] = IF k < i THEN q[k] ELSE q[k + 1]
  <2> DEFINE a == SubSeq(q, 1, i - 1)
             b == SubSeq(q, i + 1, Len(q))
  <2>1. a \in Seq(Produced) /\ Len(a) = i - 1 /\ \A k \in 1..(i - 1) : a[k] = q[k]
        BY ONLY <1>3
  <2>2. /\ b \in Seq(Produced) /\ Len(b) = Len(q) - i
        /\ \A k \in 1..(Len(q) - i) : b[k] = q[k + i]
        BY ONLY <1>3
  <2>3. RemoveAt(q, i) = a \o b
        BY DEF RemoveAt
  <2> HIDE DEF a, b
  <2>4. /\ a \o b \in Seq(Produced) /\ Len(a \o b) = Len(q) - 1
        /\ \A k \in 1..(Len(q) - 1) :
              (a \o b)[k] = IF k < i THEN a[k] ELSE b[k - (i - 1)]
        BY ONLY <1>3, <2>1, <2>2
  <2>5. ASSUME NEW k \in 1..(Len(q) - 1)
        PROVE  (a \o b)[k] = IF k < i THEN q[k] ELSE q[k + 1]
    <3>1. CASE k < i
          BY <1>3, <2>1, <2>4, <3>1
    <3>2. CASE ~ (k < i)
      <4>1. k - (i - 1) \in 1..(Len(q) - i) /\ k - (i - 1) + i = k + 1
            BY <1>3, <3>2
      <4>2. b[k - (i - 1)] = q[k - (i - 1) + i]
            BY <2>2, <4>1
      <4> QED
          BY <2>4, <3>2, <4>1, <4>2
    <3> QED
        BY <3>1, <3>2
  <2> QED
      BY <2>3, <2>4, <2>5
<1> QED
    BY <1>1, <1>2, <1>4 DEF q

LEMMA TypesNext ==
    ASSUME Types, [Next]_vars
    PROVE  Types'
<1> USE DEF Types
<1>1. CASE PollTrade \/ PollFails \/ Suppress \/ BreakerPasses
      BY <1>1 DEF PollTrade, PollFails, Suppress, BreakerPasses, offsets, strategies,
                  life, history
<1>2. CASE NoSignal
  <2>1. count' \in [Strategies -> Nat] /\ since' \in [Strategies -> Nat]
        BY <1>2, NextTypes, CountTradeTypes DEF NoSignal
  <2> QED
      BY <1>2, <2>1, ProceedIs DEF NoSignal, offsets, life, history
<1>3. CASE SkipSignal \/ EmitSignal \/ EmitFails
  <2> DEFINE s == Registry[next]
  <2>1. s \in Strategies /\ Remember(s)
        BY <1>3, NextTypes DEF SkipSignal, EmitSignal, EmitFails
  <2>2. /\ count' \in [Strategies -> Nat] /\ since' \in [Strategies -> Nat]
        /\ last' \in [Strategies -> Sides \cup {"none"}] /\ SignalFor(s) \in Sides
        BY <2>1, RememberTypes
  <2>3. Signal(s, SignalFor(s)) \in Produced
        BY <2>1, <2>2 DEF Signal, Produced
  <2>4. CASE SkipSignal
        BY <2>2, <2>4, ProceedIs DEF SkipSignal, offsets, life, history
  <2>5. CASE EmitSignal
    <3>1. queue' \in Seq(Produced) /\ emitted' \in Int
          BY <2>3, <2>5 DEF EmitSignal, Weight
    <3> QED
        BY <2>2, <2>5, <3>1, ProceedIs DEF EmitSignal, offsets, history
  <2>6. CASE EmitFails
        BY <2>2, <2>6 DEF EmitFails, offsets, life, history
  <2> QED
      BY <1>3, <2>4, <2>5, <2>6
<1>5. CASE Publish \/ Commit
      BY <1>5 DEF Publish, Commit, strategies, life, history
<1>6. CASE Producer
  <2>1. UNCHANGED <<taken, pc, next, count, since, last, emitted, restarts>>
        BY <1>6 DEF Producer, Send, SendLate, SendTwice, SendFails, Deliver,
                    offsets, strategies, life
  <2>2. losses' \in Nat
        BY <1>6 DEF Producer, Send, SendLate, SendTwice, SendFails, Lose, Deliver
  <2>3. ASSUME NEW i \in 1..Len(queue), Deliver(i)
        PROVE  sent' \in Int /\ queue' \in Seq(Produced)
    <3>1. Weight(queue[i].side) \in {-1, 1} /\ RemoveAt(queue, i) \in Seq(Produced)
          BY DeliverTypes
    <3> QED
        BY <2>3, <3>1 DEF Deliver
  <2>4. CASE Send
    <3>1. 1 \in 1..Len(queue)
          BY <2>4 DEF Send
    <3> QED
        BY <2>1, <2>2, <2>3, <2>4, <3>1 DEF Send
  <2>5. CASE SendLate
    <3>1. PICK i \in 2..Len(queue) : Deliver(i)
          BY <2>5 DEF SendLate
    <3> QED
        BY <2>1, <2>2, <2>3, <3>1
  <2>6. CASE SendTwice \/ SendFails
    <3>1. queue # <<>> /\ queue \in Seq(Produced)
          BY <2>6 DEF SendTwice, SendFails
    <3>2. Weight(Head(queue).side) \in Int /\ Tail(queue) \in Seq(Produced)
          BY <3>1 DEF Weight
    <3>3. sent' = sent \/ sent' = sent + Weight(Head(queue).side)
          BY <2>6 DEF SendTwice, SendFails
    <3>4. queue' = queue \/ queue' = Tail(queue)
          BY <2>6 DEF SendTwice, SendFails
    <3>5. sent \in Int
          OBVIOUS
    <3>6. sent' \in Int
          BY ONLY <3>2, <3>3, <3>5
    <3>7. queue' \in Seq(Produced)
          BY ONLY <3>1, <3>2, <3>4
    <3> QED
        BY <2>1, <2>2, <3>6, <3>7
  <2> QED
      BY <1>6, <2>4, <2>5, <2>6 DEF Producer
<1>7. CASE Restart
      BY <1>7 DEF Restart, Zero, NoSide
<1>8. CASE UNCHANGED vars
      BY <1>8 DEF vars, offsets, strategies, life, history
<1> QED
    BY <1>1, <1>2, <1>3, <1>5, <1>6, <1>7, <1>8 DEF Next, Loop

-----------------------------------------------------------------------------
(* What the strategies have in common. *)

\* Both have given no signal yet, or theirs went to opposite sides.
Opposed(a, b) == (a = "none" /\ b = "none") \/ (a \in Sides /\ b \in Sides /\ a # b)

Together ==
    /\ count[Mean] = count[Mom] /\ since[Mean] = since[Mom]
    /\ Opposed(last[Mean], last[Mom]) /\ emitted = 0

\* Mean reversion has had the trade, momentum has not: it will follow suit.
MeanIsAhead ==
    /\ count[Mean] = UpTo(Warmup, count[Mom] + 1)
    /\ \/ /\ SignalFor(Mom) = "none" /\ emitted = 0
          /\ since[Mean] = UpTo(Cooldown, since[Mom] + 1)
          /\ Opposed(last[Mean], last[Mom])
       \/ /\ SignalFor(Mom) \in Sides /\ Opposed(last[Mean], SignalFor(Mom))
          /\ since[Mean] = 0
          /\ emitted = IF zone = "worthless" THEN 0 ELSE Weight(last[Mean])

Pairs ==
    /\ pc \in {"poll", "breaker"} => Together
    /\ pc = "trade" /\ next = 1 => Together
    /\ pc = "trade" /\ next = 2 => MeanIsAhead

\* The sides of the two strategies in a zone are opposite, or there is none.
LEMMA SidesAreOpposite == \A z : Opposed(SideFor(Mean, z), SideFor(Mom, z))
BY DEF Opposed, SideFor, Low, Mean, Mom, Sides

\* With the same counters, and last signals to opposite sides, the signals
\* for a trade are opposite, or there is none.
LEMMA SignalsAreOpposite ==
    ASSUME Types, Together
    PROVE  Opposed(SignalFor(Mean), SignalFor(Mom))
<1>1. Opposed(SideFor(Mean, zone), SideFor(Mom, zone))
      BY SidesAreOpposite
<1>2. Ready(Mean) <=> Ready(Mom)
      BY DEF Together, Ready
<1>3. Opposed(last[Mean], last[Mom])
      BY DEF Together
<1> QED
    BY <1>1, <1>2, <1>3 DEF SignalFor, Opposed, Sides

LEMMA PairsNext ==
    ASSUME Types, Pairs, [Next]_vars
    PROVE  Pairs'
<1> USE RegistryIs
<1>0. Mean # Mom /\ Mean \in Strategies /\ Mom \in Strategies
      BY DEF Mean, Mom
<1>1. CASE PollTrade \/ PollFails \/ Suppress
      BY <1>1 DEF PollTrade, PollFails, Suppress, Pairs, Together, strategies, life
<1>2. CASE BreakerPasses
      BY <1>2 DEF BreakerPasses, Pairs, Together, strategies
<1>3. CASE next = 1 /\ (NoSignal \/ SkipSignal \/ EmitSignal)
  <2>1. Together /\ pc = "trade" /\ Registry[next] = Mean
        BY <1>3 DEF NoSignal, SkipSignal, EmitSignal, Pairs
  <2>2. pc' = "trade" /\ next' = 2 /\ zone' = zone
        BY <1>3, ProceedIs DEF NoSignal, SkipSignal, EmitSignal
  <2>3. Opposed(SignalFor(Mean), SignalFor(Mom))
        BY <2>1, SignalsAreOpposite
  <2>4. CASE NoSignal
    <3>1. /\ SignalFor(Mean) = "none" /\ last' = last /\ emitted' = emitted
          /\ count' = [count EXCEPT ![Mean] = UpTo(Warmup, @ + 1)]
          /\ since' = [since EXCEPT ![Mean] = UpTo(Cooldown, @ + 1)]
          BY <2>1, <2>4 DEF NoSignal, CountTrade, life
    <3>2. /\ count'[Mom] = count[Mom] /\ since'[Mom] = since[Mom]
          /\ count'[Mean] = UpTo(Warmup, count[Mom] + 1)
          /\ since'[Mean] = UpTo(Cooldown, since[Mom] + 1)
          BY <1>0, <2>1, <3>1 DEF Types, Together
    <3>3. SignalFor(Mom)' = SignalFor(Mom)
          BY <2>2, <3>1, <3>2 DEF SignalFor, Ready
    <3>4. SignalFor(Mom) = "none"
          BY <2>3, <3>1 DEF Opposed, Sides
    <3> QED
        BY <2>1, <2>2, <3>1, <3>2, <3>3, <3>4 DEF Pairs, MeanIsAhead, Together
  <2>5. CASE SkipSignal \/ EmitSignal
    <3>1. /\ SignalFor(Mean) # "none"
          /\ emitted' = emitted + IF zone = "worthless" THEN 0 ELSE Weight(SignalFor(Mean))
          /\ last' = [last EXCEPT ![Mean] = SignalFor(Mean)]
          /\ count' = [count EXCEPT ![Mean] = UpTo(Warmup, @ + 1)]
          /\ since' = [since EXCEPT ![Mean] = 0]
          BY <2>1, <2>5 DEF SkipSignal, EmitSignal, Remember, CountTrade, life, Types
    <3>2. /\ count'[Mom] = count[Mom] /\ since'[Mom] = since[Mom]
          /\ count'[Mean] = UpTo(Warmup, count[Mom] + 1) /\ since'[Mean] = 0
          /\ last'[Mean] = SignalFor(Mean) /\ last'[Mom] = last[Mom]
          BY <1>0, <2>1, <3>1 DEF Types, Together
    <3>3. SignalFor(Mom)' = SignalFor(Mom)
          BY <2>2, <3>2 DEF SignalFor, Ready
    <3>4. SignalFor(Mom) \in Sides /\ Opposed(last'[Mean], SignalFor(Mom))
          BY <2>3, <3>1, <3>2 DEF Opposed
    <3>5. emitted' = IF zone' = "worthless" THEN 0 ELSE Weight(last'[Mean])
          BY <2>1, <2>2, <3>1, <3>2 DEF Together, Weight
    <3> QED
        BY <2>2, <3>2, <3>3, <3>4, <3>5 DEF Pairs, MeanIsAhead
  <2> QED
      BY <1>3, <2>4, <2>5
<1>4. CASE next # 1 /\ (NoSignal \/ SkipSignal \/ EmitSignal)
  <2>1. MeanIsAhead /\ next = 2 /\ Registry[next] = Mom /\ pc = "trade"
        BY <1>4 DEF NoSignal, SkipSignal, EmitSignal, Pairs, Types
  <2>2. pc' = "poll"
        BY <1>4, <2>1, ProceedIs DEF NoSignal, SkipSignal, EmitSignal
  <2>3. CASE NoSignal
    <3>1. /\ SignalFor(Mom) = "none" /\ last' = last /\ emitted' = emitted
          /\ count' = [count EXCEPT ![Mom] = UpTo(Warmup, @ + 1)]
          /\ since' = [since EXCEPT ![Mom] = UpTo(Cooldown, @ + 1)]
          BY <2>1, <2>3 DEF NoSignal, CountTrade, life
    <3>2. /\ count'[Mean] = count[Mean] /\ since'[Mean] = since[Mean]
          /\ count'[Mom] = UpTo(Warmup, count[Mom] + 1)
          /\ since'[Mom] = UpTo(Cooldown, since[Mom] + 1)
          BY <1>0, <3>1 DEF Types
    <3> QED
        BY <2>1, <2>2, <3>1, <3>2 DEF Pairs, MeanIsAhead, Together, Sides
  <2>4. CASE SkipSignal \/ EmitSignal
    <3>1. /\ SignalFor(Mom) # "none"
          /\ emitted' = emitted + IF zone = "worthless" THEN 0 ELSE Weight(SignalFor(Mom))
          /\ last' = [last EXCEPT ![Mom] = SignalFor(Mom)]
          /\ count' = [count EXCEPT ![Mom] = UpTo(Warmup, @ + 1)]
          /\ since' = [since EXCEPT ![Mom] = 0]
          BY <2>1, <2>4 DEF SkipSignal, EmitSignal, Remember, CountTrade, life, Types
    <3>2. /\ count'[Mean] = count[Mean] /\ since'[Mean] = since[Mean]
          /\ count'[Mom] = UpTo(Warmup, count[Mom] + 1) /\ since'[Mom] = 0
          /\ last'[Mom] = SignalFor(Mom) /\ last'[Mean] = last[Mean]
          BY <1>0, <3>1 DEF Types
    <3>3. Opposed(last[Mean], SignalFor(Mom))
            /\ emitted = (IF zone = "worthless" THEN 0 ELSE Weight(last[Mean]))
            /\ since[Mean] = 0 /\ count[Mean] = UpTo(Warmup, count[Mom] + 1)
            /\ SignalFor(Mom) \in Sides
          BY <2>1, <3>1 DEF MeanIsAhead
    <3>4. Weight(last[Mean]) + Weight(SignalFor(Mom)) = 0
          BY <3>3 DEF Opposed, Weight, Sides
    <3> QED
        BY <2>2, <3>1, <3>2, <3>3, <3>4 DEF Pairs, Together, Weight
  <2> QED
      BY <1>4, <2>3, <2>4
<1>5. CASE EmitFails
      BY <1>5 DEF EmitFails, Pairs
<1>6. CASE Restart
  <2>1. Together'
        BY <1>0, <1>6 DEF Restart, Zero, NoSide, Together, Opposed
  <2> QED
      BY <1>6, <2>1 DEF Restart, Pairs
<1>7. CASE UNCHANGED <<pc, next, zone, strategies, emitted>>
  <2>1. UNCHANGED <<pc, next, zone, count, since, last, emitted>>
        BY <1>7 DEF strategies
  <2>2. SignalFor(Mom)' = SignalFor(Mom)
        BY <2>1 DEF SignalFor, Ready
  <2> QED
      BY <2>1, <2>2 DEF Pairs, Together, MeanIsAhead
<1> QED
    BY <1>1, <1>2, <1>3, <1>4, <1>5, <1>6, <1>7
       DEF Next, Loop, Producer, Publish, Send, SendLate, SendTwice, SendFails, Deliver,
           Commit, vars, strategies, life

-----------------------------------------------------------------------------
(* The signals in the queue: what the topic will have come to as they      *)
(* leave it one after the other.                                           *)

Near == {-1, 0, 1}

Within(x, bound) == -bound <= x /\ x <= bound

\* d[k] is what the topic comes to with the first k signals of the queue.
LegsAre(d) ==
    /\ d \in [0..Len(queue) -> Int] /\ d[0] = sent
    /\ \A k \in 1..Len(queue) : d[k] = d[k - 1] + Weight(queue[k].side)
    /\ \A k \in 0..Len(queue) : Within(d[k], restarts + losses + 1)
    /\ Within(d[Len(queue)] - emitted, restarts + losses)

Legs ==
    /\ emitted \in Near
    /\ \E d : LegsAre(d)

\* A signal is the first of a pair, or it makes up for the one before.
LEMMA EmitIsNear ==
    ASSUME Types, Pairs, EmitSignal
    PROVE  \E x \in Produced : /\ queue' = Append(queue, x) /\ emitted' \in Near
                               /\ emitted' = emitted + Weight(x.side)
<1> DEFINE s == Registry[next]
           x == Signal(s, SignalFor(s))
<1>1. s \in Strategies /\ SignalFor(s) \in Sides /\ zone # "worthless" /\ pc = "trade"
      BY NextTypes, SignalForType DEF EmitSignal, Remember
<1>2. x \in Produced /\ x.side = SignalFor(s)
      BY <1>1 DEF Signal, Produced
<1>3. queue' = Append(queue, x) /\ emitted' = emitted + Weight(x.side)
      BY <1>2 DEF EmitSignal
<1>4. CASE next = 1
  <2>1. emitted = 0
        BY <1>1, <1>4 DEF Pairs, Together
  <2> QED
      BY <1>2, <1>3, <2>1 DEF Weight, Near
<1>5. CASE next = 2
  <2>1. s = Mom /\ MeanIsAhead
        BY <1>1, <1>5, RegistryIs DEF Pairs
  <2>2. Opposed(last[Mean], SignalFor(Mom)) /\ emitted = Weight(last[Mean])
        BY <1>1, <2>1 DEF MeanIsAhead, Sides
  <2>3. emitted' = 0
        BY <1>1, <1>2, <1>3, <2>1, <2>2 DEF Opposed, Weight, Sides
  <2> QED
      BY <1>2, <1>3, <2>3 DEF Near
<1> QED
    BY <1>4, <1>5 DEF Types

LEMMA LegsNext ==
    ASSUME Types, Pairs, Legs, [Next]_vars
    PROVE  Legs'
<1> DEFINE n == Len(queue)
           R == restarts + losses
<1>1. PICK d : LegsAre(d)
      BY DEF Legs
<1>2. n \in Nat /\ R \in Nat /\ restarts \in Nat /\ losses \in Nat
      BY DEF Types
<1>3. /\ d \in [0..n -> Int] /\ d[0] = sent
      /\ \A k \in 1..n : d[k] = d[k - 1] + Weight(queue[k].side)
      /\ \A k \in 0..n : d[k] \in Int /\ Within(d[k], R + 1)
      /\ Within(d[n] - emitted, R)
      /\ emitted \in Near /\ emitted \in Int
  <2>1. emitted \in Near
        BY DEF Legs
  <2>2. emitted \in Int
        BY <2>1 DEF Near
  <2>3. /\ d \in [0..n -> Int] /\ d[0] = sent
        /\ \A k \in 1..n : d[k] = d[k - 1] + Weight(queue[k].side)
        /\ \A k \in 0..n : Within(d[k], R + 1)
        /\ Within(d[n] - emitted, R)
        BY ONLY <1>1 DEF LegsAre
  <2> HIDE DEF n, R
  <2>4. \A k \in 0..n : d[k] \in Int
        BY <2>3
  <2> QED
      BY <2>1, <2>2, <2>3, <2>4
<1>4. CASE EmitSignal
  <2>1. PICK x \in Produced : /\ queue' = Append(queue, x) /\ emitted' \in Near
                              /\ emitted' = emitted + Weight(x.side)
        BY <1>4, EmitIsNear
  <2>2. UNCHANGED <<sent, restarts, losses>>
        BY <1>4 DEF EmitSignal, history
  <2>3. /\ Len(queue') = n + 1 /\ queue'[n + 1] = x
        /\ \A k \in 1..n : queue'[k] = queue[k]
        BY <2>1 DEF Types
  <2> DEFINE w == Weight(x.side)
             e == [k \in 0..(n + 1) |-> IF k <= n THEN d[k] ELSE d[n] + w]
  <2>4. w \in {-1, 1}
        BY DEF Weight
  <2>5. emitted' \in Near /\ emitted' = emitted + w
        BY <2>1
  <2> HIDE DEF n, R, w
  <2>6. d[n] \in Int /\ Within(d[n] + w - emitted', R) /\ Within(d[n] + w, R + 1)
        BY <1>2, <1>3, <2>4, <2>5 DEF Within, Near
  <2>7. e \in [0..(n + 1) -> Int] /\ e[0] = sent
        BY <1>2, <1>3, <2>4, <2>6
  <2>8. \A k \in 0..n : e[k] = d[k]
        BY <1>2
  <2>9. e[n + 1] = d[n] + w
        BY <1>2
  <2>10. ASSUME NEW k \in 1..(n + 1) PROVE e[k] = e[k - 1] + Weight(queue'[k].side)
    <3>1. CASE k = n + 1
      <4>1. e[k - 1] = d[n]
            BY <1>2, <2>8, <3>1
      <4> QED
          BY <2>3, <2>9, <3>1, <4>1 DEF w
    <3>2. CASE k # n + 1
      <4>1. k \in 1..n /\ k - 1 \in 0..n /\ k \in 0..n
            BY <1>2, <3>2
      <4> QED
          BY <1>3, <2>3, <2>8, <4>1
    <3> QED
        BY <3>1, <3>2
  <2>11. ASSUME NEW k \in 0..(n + 1) PROVE Within(e[k], R + 1)
    <3>1. k \in 0..n \/ k = n + 1
          BY <1>2
    <3> QED
        BY <1>3, <2>6, <2>8, <2>9, <3>1
  <2> HIDE DEF e
  <2>12. PICK f : f = e
        OBVIOUS
  <2>13. Within(f[n + 1] - emitted', R) /\ R = restarts' + losses' /\ n + 1 = Len(queue')
    <3>1. R = restarts' + losses'
          BY <2>2 DEF R
    <3>2. f[n + 1] = d[n] + w
          BY ONLY <2>9, <2>12
    <3>3. Within(f[n + 1] - emitted', R)
      <4>1. d[n] \in Int /\ w \in Int /\ emitted' \in Int /\ R \in Int
            BY <1>2, <2>4, <2>5, <2>6 DEF Near
      <4>2. -R <= d[n] + w - emitted' /\ d[n] + w - emitted' <= R
            BY ONLY <2>6, <4>1 DEF Within
      <4> QED
          BY ONLY <3>2, <4>1, <4>2 DEF Within
    <3>4. Len(queue') = n + 1
          BY ONLY <2>3
    <3> QED
        BY ONLY <3>1, <3>3, <3>4
  <2>14. /\ f \in [0..(n + 1) -> Int] /\ f[0] = sent'
         /\ \A k \in 1..(n + 1) : f[k] = f[k - 1] + Weight(queue'[k].side)
         /\ \A k \in 0..(n + 1) : Within(f[k], R + 1)
        BY ONLY <2>2, <2>7, <2>10, <2>11, <2>12
  <2> HIDE DEF Within
  <2>15. LegsAre(f)'
        BY ONLY <2>13, <2>14 DEF LegsAre
  <2> QED
      BY <2>5, <2>15 DEF Legs
<1>5. ASSUME NEW i \in 1..n, Deliver(i),
             (losses' = losses /\ i = 1) \/ losses' = losses + 1
      PROVE  Legs'
  <2>1. /\ sent' = sent + Weight(queue[i].side) /\ queue' = RemoveAt(queue, i)
        /\ UNCHANGED <<restarts, emitted>>
        BY <1>5 DEF Deliver, life
  <2> DEFINE w == Weight(queue[i].side)
             q == queue'
             e == [k \in 0..(n - 1) |-> IF k < i THEN d[k] + w ELSE d[k + 1]]
  <2>2. /\ w \in {-1, 1} /\ Len(q) = n - 1
        /\ \A k \in 1..(n - 1) : q[k] = IF k < i THEN queue[k] ELSE queue[k + 1]
        BY <1>5, <2>1, DeliverTypes DEF Types
  <2>3. i \in 1..n /\ i \in Int /\ n >= 1 /\ sent' = sent + w /\ d[i] = d[i - 1] + w
        BY <1>2, <1>3, <2>1
  <2> DEFINE S == restarts' + losses'
  <2>4. S \in Nat /\ ((S = R /\ i = 1) \/ S = R + 1)
        BY <1>2, <1>5, <2>1
  <2> HIDE DEF n, R, w, q, S
  <2>5. ASSUME NEW k \in 0..(n - 1)
        PROVE  e[k] = (IF k < i THEN d[k] + w ELSE d[k + 1]) /\ k \in 0..n /\ k + 1 \in 1..n
               /\ k + 1 \in 0..n
        BY <1>2, <2>3
  <2>6. e \in [0..(n - 1) -> Int] /\ e[0] = sent'
    <3>1. \A k \in 0..(n - 1) : (IF k < i THEN d[k] + w ELSE d[k + 1]) \in Int
      <4>1. ASSUME NEW k \in 0..(n - 1)
            PROVE  (IF k < i THEN d[k] + w ELSE d[k + 1]) \in Int
        <5>1. k \in 0..n /\ k + 1 \in 0..n /\ w \in Int
              BY <2>2, <2>5
        <5>2. d[k] \in Int /\ d[k + 1] \in Int
              BY <1>3, <5>1
        <5> QED
            BY ONLY <5>1, <5>2
      <4> QED
          BY <4>1
    <3>2. e \in [0..(n - 1) -> Int]
          BY ONLY <3>1
    <3>3. 0 \in 0..(n - 1) /\ 0 < i
          BY <1>2, <2>3
    <3> QED
        BY <1>3, <2>3, <2>5, <3>2, <3>3
  <2>7. ASSUME NEW k \in 1..(n - 1) PROVE e[k] = e[k - 1] + Weight(q[k].side)
    <3>1. k \in 0..(n - 1) /\ k - 1 \in 0..(n - 1) /\ k \in 1..n /\ k + 1 \in 1..n
          /\ k \in Int /\ k - 1 + 1 = k
          BY <1>2
    <3>2. CASE k < i
      <4>1. e[k] = d[k] + w /\ e[k - 1] = d[k - 1] + w /\ q[k] = queue[k]
            BY <2>2, <2>3, <2>5, <3>1, <3>2
      <4>2. d[k] = d[k - 1] + Weight(queue[k].side) /\ d[k - 1] \in Int
            BY <1>2, <1>3, <3>1
      <4>3. Weight(queue[k].side) \in {-1, 1}
            BY DEF Weight
      <4> QED
          BY <2>2, <4>1, <4>2, <4>3
    <3>3. CASE k = i
      <4>1. e[k] = d[k + 1] /\ e[k - 1] = d[k - 1] + w /\ q[k] = queue[k + 1]
            BY <2>2, <2>3, <2>5, <3>1, <3>3
      <4>2. d[k + 1] = d[k] + Weight(queue[k + 1].side)
            BY <1>2, <1>3, <3>1
      <4> QED
          BY <2>3, <3>3, <4>1, <4>2
    <3>4. CASE k > i
      <4>1. e[k] = d[k + 1] /\ e[k - 1] = d[k] /\ q[k] = queue[k + 1]
            BY <2>2, <2>3, <2>5, <3>1, <3>4
      <4>2. d[k + 1] = d[k] + Weight(queue[k + 1].side)
            BY <1>2, <1>3, <3>1
      <4> QED
          BY <4>1, <4>2
    <3> QED
        BY <2>3, <3>1, <3>2, <3>3, <3>4
  <2>8. ASSUME NEW k \in 0..(n - 1) PROVE Within(e[k], S + 1)
    <3>1. d[k] \in Int /\ Within(d[k], R + 1) /\ d[k + 1] \in Int /\ Within(d[k + 1], R + 1)
          BY <1>3, <2>5
    <3>2. CASE S = R + 1
          BY <1>2, <2>2, <2>4, <2>5, <3>1, <3>2 DEF Within
    <3>3. CASE S = R /\ i = 1
      <4>1. e[k] = d[k + 1]
        <5>1. CASE k < i
          <6>1. k = 0
                BY <1>2, <3>3, <5>1
          <6> QED
              BY <2>3, <2>5, <3>3, <5>1, <6>1
        <5>2. CASE ~ (k < i)
              BY <2>5, <5>2
        <5> QED
            BY <5>1, <5>2
      <4> QED
          BY <3>1, <3>3, <4>1
    <3> QED
        BY <2>4, <3>2, <3>3
  <2>9. Within(e[n - 1] - emitted, S)
    <3>1. e[n - 1] = d[n]
      <4>1. n - 1 \in 0..(n - 1) /\ n - 1 + 1 = n
            BY <1>2, <2>3
      <4>2. CASE n - 1 < i
        <5>1. i = n
              BY <1>2, <2>3, <4>2
        <5> QED
            BY <2>3, <2>5, <4>1, <4>2, <5>1
      <4>3. CASE ~ (n - 1 < i)
            BY <2>5, <4>1, <4>3
      <4> QED
          BY <4>2, <4>3
    <3>2. d[n] \in Int
          BY <1>2, <1>3
    <3> HIDE DEF e
    <3> QED
        BY ONLY <1>2, <1>3, <2>4, <3>1, <3>2 DEF Within
  <2> HIDE DEF e
  <2>10. PICK f : f = e
        OBVIOUS
  <2>11. LegsAre(f)'
        BY <2>10, <2>1, <2>2, <2>6, <2>7, <2>8, <2>9 DEF LegsAre, Within, S, q
  <2> QED
      BY <1>3, <2>1, <2>11 DEF Legs
<1>6. CASE Send
  <2>1. 1 \in 1..n /\ Deliver(1) /\ losses' = losses
        BY <1>6 DEF Send, Types
  <2> QED
      BY <1>5, <2>1
<1>7. CASE SendLate
  <2>1. PICK i \in 2..n : Deliver(i)
        BY <1>7 DEF SendLate
  <2>2. i \in 1..n /\ losses' = losses + 1
        BY <1>2, <1>7 DEF SendLate, Lose
  <2> QED
      BY <1>5, <2>1, <2>2
<1>8. CASE SendTwice
  <2> DEFINE w == Weight(Head(queue).side)
             e == [k \in 0..n |-> d[k] + w]
  <2>1. /\ sent' = sent + w /\ losses' = losses + 1
        /\ UNCHANGED <<queue, restarts, emitted>>
        BY <1>8 DEF SendTwice, Lose, life
  <2>2. w \in {-1, 1}
        BY DEF Weight
  <2> DEFINE S == restarts' + losses'
  <2>3. S = R + 1
        BY <1>2, <2>1
  <2> HIDE DEF n, R, w, S
  <2>4. e \in [0..n -> Int] /\ e[0] = sent' /\ \A k \in 0..n : e[k] = d[k] + w
        BY <1>2, <1>3, <2>1, <2>2
  <2>5. ASSUME NEW k \in 1..n PROVE e[k] = e[k - 1] + Weight(queue[k].side)
    <3>1. k \in 0..n /\ k - 1 \in 0..n
          BY <1>2
    <3>2. Weight(queue[k].side) \in {-1, 1} /\ d[k - 1] \in Int
          BY <1>3, <3>1 DEF Weight
    <3>3. d[k] = d[k - 1] + Weight(queue[k].side) /\ e[k] = d[k] + w /\ e[k - 1] = d[k - 1] + w
          BY <1>3, <2>4, <3>1
    <3> HIDE DEF e
    <3> QED
        BY ONLY <2>2, <3>2, <3>3
  <2>6. ASSUME NEW k \in 0..n PROVE Within(e[k], S + 1)
    <3>1. d[k] \in Int /\ Within(d[k], R + 1) /\ e[k] = d[k] + w
          BY <1>3, <2>4
    <3> HIDE DEF e
    <3> QED
        BY ONLY <1>2, <2>2, <2>3, <3>1 DEF Within
  <2>7. Within(e[n] - emitted, S)
    <3>1. d[n] \in Int /\ e[n] = d[n] + w
          BY <1>2, <1>3, <2>4
    <3> HIDE DEF e
    <3> QED
        BY ONLY <1>2, <1>3, <2>2, <2>3, <3>1 DEF Within
  <2> HIDE DEF e
  <2>8. PICK f : f = e
        OBVIOUS
  <2>9. LegsAre(f)'
        BY <2>8, <2>1, <2>4, <2>5, <2>6, <2>7 DEF LegsAre, Within, S, n
  <2> QED
      BY <1>3, <2>1, <2>9 DEF Legs
<1>9. CASE SendFails
  <2> DEFINE w == Weight(queue[1].side)
             q == queue'
             e == [k \in 0..(n - 1) |-> d[k + 1] - w]
  <2>1. /\ queue # <<>> /\ queue' = Tail(queue) /\ losses' = losses + 1
        /\ UNCHANGED <<sent, restarts, emitted>>
        BY <1>9 DEF SendFails, Lose, life
  <2>2. n >= 1 /\ Len(q) = n - 1 /\ \A k \in 1..(n - 1) : q[k] = queue[k + 1]
        BY <2>1 DEF Types
  <2>3. w \in {-1, 1}
        BY DEF Weight
  <2>4. 1 \in 1..n /\ d[1] = d[0] + w
        BY <1>2, <1>3, <2>2
  <2> DEFINE S == restarts' + losses'
  <2>5. S = R + 1
        BY <1>2, <2>1
  <2> HIDE DEF n, R, w, q, S
  <2>6. ASSUME NEW k \in 0..(n - 1)
        PROVE  e[k] = d[k + 1] - w /\ k + 1 \in 0..n /\ k + 1 \in 1..n /\ d[k + 1] \in Int
        BY <1>2, <1>3, <2>2
  <2>7. e \in [0..(n - 1) -> Int] /\ e[0] = sent'
    <3>1. \A k \in 0..(n - 1) : d[k + 1] - w \in Int
          BY <2>3, <2>6
    <3>2. e \in [0..(n - 1) -> Int]
          BY ONLY <3>1
    <3>3. 0 \in 0..(n - 1) /\ d[0] \in Int
          BY <1>2, <1>3, <2>2
    <3>4. e[0] = d[1] - w
          BY <2>6, <3>3
    <3> HIDE DEF e
    <3>5. e[0] = d[0]
          BY ONLY <2>3, <2>4, <3>3, <3>4
    <3> QED
        BY <1>3, <2>1, <3>2, <3>5
  <2>8. ASSUME NEW k \in 1..(n - 1) PROVE e[k] = e[k - 1] + Weight(q[k].side)
    <3>1. k \in 0..(n - 1) /\ k - 1 \in 0..(n - 1) /\ k - 1 + 1 = k /\ k + 1 - 1 = k
          /\ k + 1 \in 1..n
          BY <1>2
    <3>2. d[k + 1] = d[k] + Weight(q[k].side)
          BY <1>3, <2>2, <3>1
    <3>3. Weight(q[k].side) \in {-1, 1} /\ d[k] \in Int /\ e[k] = d[k + 1] - w
          /\ e[k - 1] = d[k] - w
          BY <2>6, <3>1 DEF Weight
    <3> HIDE DEF e
    <3> QED
        BY ONLY <2>3, <3>2, <3>3
  <2>9. ASSUME NEW k \in 0..(n - 1) PROVE Within(e[k], S + 1)
    <3>1. d[k + 1] \in Int /\ Within(d[k + 1], R + 1) /\ e[k] = d[k + 1] - w
          BY <1>3, <2>6
    <3> HIDE DEF e
    <3> QED
        BY ONLY <1>2, <2>3, <2>5, <3>1 DEF Within
  <2>10. Within(e[n - 1] - emitted, S)
    <3>1. d[n] \in Int /\ e[n - 1] = d[n] - w
      <4>1. n - 1 \in 0..(n - 1) /\ n - 1 + 1 = n
            BY <1>2, <2>2
      <4>2. e[n - 1] = d[n - 1 + 1] - w
            BY <2>6, <4>1
      <4> QED
          BY <1>2, <1>3, <4>1, <4>2
    <3> HIDE DEF e
    <3> QED
        BY ONLY <1>2, <1>3, <2>3, <2>5, <3>1 DEF Within
  <2> HIDE DEF e
  <2>11. PICK f : f = e
        OBVIOUS
  <2>12. LegsAre(f)'
        BY <2>11, <2>1, <2>2, <2>7, <2>8, <2>9, <2>10 DEF LegsAre, Within, S, q
  <2> QED
      BY <1>3, <2>1, <2>12 DEF Legs
<1>10. CASE Restart
  <2>1. /\ queue' = <<>> /\ emitted' = 0 /\ sent' = sent
        /\ restarts' = restarts + 1 /\ losses' = losses
        BY <1>10 DEF Restart
  <2> DEFINE e == [k \in 0..0 |-> sent]
             S == restarts' + losses'
  <2>2. S = R + 1 /\ Len(queue') = 0
        BY <1>2, <2>1
  <2>3. sent \in Int /\ Within(sent, R + 1)
        BY <1>2, <1>3
  <2>4. e \in [0..0 -> Int] /\ e[0] = sent
        BY <2>3
  <2> HIDE DEF e, R, S
  <2>5. Within(sent, S + 1) /\ Within(sent - 0, S)
        BY <1>2, <2>2, <2>3 DEF Within
  <2>6. (\A k \in 1..0 : FALSE) /\ \A k \in 0..0 : k = 0
        OBVIOUS
  <2>7. PICK f : f = e
        OBVIOUS
  <2>8. LegsAre(f)'
        BY <2>7, <2>1, <2>2, <2>4, <2>5, <2>6 DEF LegsAre, Within, S
  <2> QED
      BY <2>1, <2>8 DEF Legs, Near
<1>11. CASE UNCHANGED <<queue, sent, restarts, losses, emitted>>
  <2>1. LegsAre(d)'
        BY <1>1, <1>11 DEF LegsAre
  <2> QED
      BY <1>3, <1>11, <2>1 DEF Legs
<1>12. CASE \/ PollTrade \/ PollFails \/ Suppress \/ BreakerPasses
            \/ NoSignal \/ SkipSignal \/ EmitFails \/ Publish \/ Commit
  <2>1. UNCHANGED <<queue, sent, restarts, losses, emitted>>
        BY <1>12 DEF PollTrade, PollFails, Suppress, BreakerPasses, NoSignal,
                     SkipSignal, EmitFails, Publish, Commit, life, history
  <2> QED
      BY <1>11, <2>1
<1>13. CASE UNCHANGED vars
  <2>1. UNCHANGED <<queue, sent, restarts, losses, emitted>>
        BY <1>13 DEF vars, life, history
  <2> QED
      BY <1>11, <2>1
<1> QED
    BY <1>4, <1>6, <1>7, <1>8, <1>9, <1>10, <1>12, <1>13 DEF Next, Loop, Producer

-----------------------------------------------------------------------------
IInv == Types /\ Pairs /\ Legs

LEMMA InitIInv == Init => IInv
<1> SUFFICES ASSUME Init PROVE IInv
    OBVIOUS
<1>1. Types
      BY DEF Init, Types, Zero, NoSide
<1>2. Pairs
      BY RegistryIs DEF Init, Pairs, Together, Opposed, Zero, NoSide
<1> DEFINE d == [k \in 0..0 |-> 0]
<1>3. d \in [0..0 -> Int] /\ d[0] = 0
      OBVIOUS
<1> HIDE DEF d
<1>4. (\A k \in 1..0 : FALSE) /\ \A k \in 0..0 : k = 0
      OBVIOUS
<1>5. LegsAre(d)
      BY <1>3, <1>4 DEF Init, LegsAre, Within
<1>6. Legs
      BY <1>5 DEF Init, Legs, Near
<1> QED
    BY <1>1, <1>2, <1>6 DEF IInv

LEMMA NextIInv == IInv /\ [Next]_vars => IInv'
BY TypesNext, PairsNext, LegsNext DEF IInv

LEMMA AlwaysIInv == Spec => []IInv
BY InitIInv, NextIInv, PTL DEF Spec

(* Between two trades the signals of a life cancel: momentum follows mean  *)
(* reversion at every trade, to the other side.                            *)
THEOREM StrategiesAlwaysCancel == Spec => []StrategiesCancel
<1>1. IInv => StrategiesCancel
      BY DEF IInv, Pairs, Together, StrategiesCancel, Mean, Mom
<1> QED
    BY <1>1, AlwaysIInv, PTL

(* However often the process is restarted, and however often the producer  *)
(* gives a signal up, sends it again or lets one overtake it, each of these*)
(* leaves at most one signal in the topic without its counterpart.         *)
THEOREM FewLegsAreAlone == Spec => []LegsLeftAlone
<1>1. ASSUME IInv PROVE LegsLeftAlone
  <2>1. PICK d : LegsAre(d)
        BY <1>1 DEF IInv, Legs
  <2>2. 0 \in 0..Len(queue) /\ sent \in Int /\ restarts \in Nat /\ losses \in Nat
        BY <1>1 DEF IInv, Types
  <2>3. Within(sent, restarts + losses + 1)
        BY <2>1, <2>2 DEF LegsAre
  <2> QED
      BY <2>2, <2>3 DEF LegsLeftAlone, Abs, Within
<1> QED
    BY <1>1, AlwaysIInv, PTL

-----------------------------------------------------------------------------
(***************************************************************************)
(* The walk-forward analysis: sizes and starts of rolling windows.         *)
(***************************************************************************)

Width(n, s) == TrainSize(n, s) + TestSize(n, s)

\* The windows together are no longer than the trades.
LEMMA WidthFits ==
    ASSUME NEW n \in Nat, NEW s \in Nat \ {0}
    PROVE  /\ TrainSize(n, s) \in Nat /\ TestSize(n, s) \in Nat
           /\ Width(n, s) \in Nat /\ Width(n, s) * s <= n
  <1> DEFINE t == TrainSize(n, s)
             e == TestSize(n, s)
             d == 100 * s
             a == n * TrainShare
             b == n * (100 - TrainShare)
  <1>1. TrainShare \in 1..99
    BY WalkForwardAssumption
  <1>2. a \in Nat /\ b \in Nat /\ a + b = 100 * n /\ d \in Nat \ {0}
    BY <1>1, Z3
  <1>3. t \in Int /\ t * d <= a
    BY <1>2, Division DEF TrainSize
  <1>4. e \in Int /\ e * d <= b
    <2>1. e = b \div d
      BY DEF TestSize
    <2> HIDE DEF b, d, e
    <2> QED
      BY <1>2, <2>1, Division
  <1>5. 0 <= t /\ 0 <= e
    <2>1. t = a \div d /\ e = b \div d
      BY DEF TrainSize, TestSize
    <2>2. 0 * d <= a /\ 0 * d <= b
      BY <1>2
    <2> HIDE DEF a, b, d, e, t
    <2> QED
      BY <1>2, <2>1, <2>2, DivisionAtLeast
  <1>6. (t + e) * d <= 100 * n
    <2>1. (t + e) * d = t * d + e * d
      BY <1>2, <1>3, <1>4, Z3
    <2> QED
      BY <2>1, <1>2, <1>3, <1>4
  <1>7. (t + e) * d = 100 * ((t + e) * s)
    BY <1>3, <1>4, Z3
  <1>8. (t + e) * s <= n
    BY <1>3, <1>4, <1>6, <1>7
  <1> QED
    BY <1>3, <1>4, <1>5, <1>8 DEF Width

\* A window starts no earlier than the one before it ends.
LEMMA StartsApart ==
    ASSUME NEW n \in Nat, NEW s \in Nat \ {0},
           NEW j \in 1..s, NEW k \in 1..s
    PROVE  /\ Start(n, s, j) \in Nat
           /\ j < k => Start(n, s, j) + Width(n, s) <= Start(n, s, k)
  <1> DEFINE w == Width(n, s)
             r == n - TrainSize(n, s) - TestSize(n, s)
             d == Larger(s - 1, 1)
             q == Start(n, s, j)
  <1>1. w \in Nat /\ w * s <= n
    BY WidthFits DEF Width
  <1>2. r = n - w /\ r \in Int
    BY WidthFits DEF Width
  <1>3. d \in Nat \ {0}
    BY DEF Larger
  <1>4. w <= w * s
    BY <1>1, Z3
  <1>5. r \in Nat
    BY <1>1, <1>2, <1>4
  <1>6. (j - 1) * r \in Nat /\ (k - 1) * r \in Nat
    BY <1>5, Z3
  <1> DEFINE x == (j - 1) * r
  <1>7. q \in Int /\ q * d <= (j - 1) * r
    <2>1. q = x \div d
      BY DEF Start
    <2>2. x \in Int
      BY <1>6
    <2> HIDE DEF x, d, q
    <2>3. q \in Int /\ q * d <= x
      BY ONLY <1>3, <2>1, <2>2, Division
    <2> QED
      BY <2>3 DEF x
  <1>8. 0 <= q
    <2>1. q = x \div d
      BY DEF Start
    <2>2. x \in Int /\ 0 * d <= x
      BY <1>3, <1>6
    <2> HIDE DEF x, d, q
    <2> QED
      BY ONLY <1>3, <2>1, <2>2, DivisionAtLeast
  <1>9. ASSUME j < k PROVE q + w <= Start(n, s, k)
    <2>1. d = s - 1
      BY <1>9 DEF Larger
    <2>2. w * s = w * d + w
      BY <1>1, <2>1, Z3
    <2>3. w * d <= r
      BY <1>1, <1>2, <1>3, <2>2
    <2>4. (q + w) * d = q * d + w * d
      BY <1>1, <1>3, <1>7, Z3
    <2>5. (j - 1) * r + r = j * r
      BY <1>5, Z3
    <2>6. j * r <= (k - 1) * r
      BY <1>5, <1>9, Z3
    <2>7. (q + w) * d <= (k - 1) * r
      <3>1. q * d \in Int /\ w * d \in Int /\ j * r \in Int
        BY <1>1, <1>3, <1>5, <1>7
      <3> QED
        BY <1>5, <1>6, <1>7, <2>3, <2>4, <2>5, <2>6, <3>1
    <2> QED
      BY <1>1, <1>3, <1>6, <1>7, <2>7, DivisionAtLeast DEF Start
  <1> QED
    BY <1>7, <1>8, <1>9

-----------------------------------------------------------------------------
(***************************************************************************)
(* The windows of a job.                                                   *)
(***************************************************************************)

LEMMA SplitsPositive ==
    ASSUME NEW n \in Nat, NEW s \in Nat \ {0}
    PROVE  Splits(n, s) \in Nat \ {0}
  <1>1. n \div (MinTrain + MinTest) \in Int
    BY WalkForwardAssumption, Division
  <1> QED
    BY <1>1 DEF Splits, Larger

\* A rolling window with a test lies within the trades.
LEMMA RollingInRange ==
    ASSUME NEW n \in Nat, NEW s \in Nat \ {0}, NEW k \in 1..s,
           Rolling(n, s, k).testEnd > Rolling(n, s, k).testStart
    PROVE  LET w == Rolling(n, s, k)
           IN  /\ w.trainStart = Start(n, s, k) /\ w.trainStart \in Nat
               /\ w.trainEnd \in Nat /\ w.testStart = w.trainEnd
               /\ w.trainStart <= w.trainEnd
               /\ w.testEnd \in Nat /\ w.testEnd <= n
               /\ w.testEnd <= w.trainStart + Width(n, s)
  <1> DEFINE start == Start(n, s, k)
             train == TrainSize(n, s)
             test == TestSize(n, s)
  <1>1. start \in Nat /\ train \in Nat /\ test \in Nat
    BY WidthFits, StartsApart
  <1>2. Rolling(n, s, k) =
            [trainStart |-> start, trainEnd |-> start + train,
             testStart |-> start + train,
             testEnd |-> Smaller(start + train + test, n)]
    BY DEF Rolling
  <1>3. Width(n, s) = train + test
    BY DEF Width
  <1> HIDE DEF start, train, test
  <1>4. start = Start(n, s, k)
    BY DEF start
  <1> QED
    BY <1>1, <1>2, <1>3, <1>4 DEF Smaller

\* So does a window of an expanding job, which tests from where the one before
\* it stopped.
LEMMA ExpandingInRange ==
    ASSUME NEW n \in Nat, NEW s \in Nat \ {0},
           NEW j \in 1..s, NEW k \in 1..s, j <= k
    PROVE  LET v == Expanding(n, s, j)
               w == Expanding(n, s, k)
           IN  /\ w.trainStart = 0 /\ w.trainEnd \in Nat
               /\ w.testStart = w.trainEnd
               /\ w.testEnd \in Int /\ w.testEnd <= n
               /\ v.trainEnd <= w.testStart
               /\ j < k => v.testEnd <= w.testStart
  <1> DEFINE test == Larger(MinTest, n \div (s + 1))
             initial == Larger(MinTrain, n - s * test)
  <1>1. n \div (s + 1) \in Int
    BY Division
  <1>2. test \in Nat
    BY <1>1, WalkForwardAssumption DEF Larger
  <1>3. s * test \in Nat
    BY <1>2
  <1>4. initial \in Nat
    BY <1>3, WalkForwardAssumption DEF Larger
  <1>5. (j - 1) * test \in Nat /\ (k - 1) * test \in Nat
    BY <1>2
  <1>6. (j - 1) * test <= (k - 1) * test
    BY <1>2, Z3
  <1>7. j < k => (j - 1) * test + test <= (k - 1) * test
    <2>1. (j - 1) * test + test = j * test
      BY <1>2, Z3
    <2>2. j < k => j * test <= (k - 1) * test
      BY <1>2, Z3
    <2> QED
      BY <2>1, <2>2
  <1> DEFINE a == initial + (j - 1) * test
             b == initial + (k - 1) * test
  <1>8. /\ Expanding(n, s, j) =
               [trainStart |-> 0, trainEnd |-> a, testStart |-> a,
                testEnd |-> Smaller(a + test, n)]
        /\ Expanding(n, s, k) =
               [trainStart |-> 0, trainEnd |-> b, testStart |-> b,
                testEnd |-> Smaller(b + test, n)]
    BY DEF Expanding
  <1>9. /\ a \in Nat /\ b \in Nat /\ a <= b
        /\ j < k => a + test <= b
    <2> HIDE DEF test, initial
    <2> QED
      BY <1>2, <1>4, <1>5, <1>6, <1>7
  <1> HIDE DEF a, b, test
  <1> QED
    BY <1>2, <1>8, <1>9 DEF Smaller

-----------------------------------------------------------------------------
(***************************************************************************)
(* The invariant: each result is of the window of its own index, and that  *)
(* window has a test.                                                      *)
(***************************************************************************)

WalkTypeOK ==
    /\ setup \in Setups
    /\ trial \in [tried : Nat, params : Nat, sharpe : Int]
    /\ results \in Seq([window : {Window(i) : i \in 1..Windows}, params : Nat,
                        train : Int, test : Int])

WindowsInv ==
    /\ WalkTypeOK
    /\ \A k \in DOMAIN results : HasFold(k) /\ results[k].window = Window(k)

LEMMA SetupTypes ==
    ASSUME setup \in Setups
    PROVE  /\ setup.trades \in Nat /\ setup.splits \in Nat \ {0}
           /\ setup.window \in {"rolling", "expanding"}
           /\ Windows \in Nat \ {0}
  BY WalkForwardAssumption, SplitsPositive DEF Windows

LEMMA InitInv == BacktestInit => WindowsInv
  BY WalkForwardAssumption
     DEF BacktestInit, WalkInit, WindowsInv, WalkTypeOK, NoTrial

LEMMA NextInv == WindowsInv /\ [BacktestNext]_backtestVars => WindowsInv'
  <1> SUFFICES ASSUME WindowsInv, [BacktestNext]_backtestVars PROVE WindowsInv'
    OBVIOUS
  <1> USE DEF WindowsInv
  <1>1. ASSUME Train PROVE WindowsInv'
    <2>1. setup' = setup /\ results' = results
      BY <1>1 DEF Train
    <2>2. trial' \in [tried : Nat, params : Nat, sharpe : Int]
      <3>1. PICK sharpe \in Sharpes :
                trial' = IF trial.tried = 0 \/ sharpe > trial.sharpe
                         THEN [tried |-> trial.tried + 1,
                               params |-> trial.tried + 1, sharpe |-> sharpe]
                         ELSE [trial EXCEPT !.tried = @ + 1]
        BY <1>1 DEF Train
      <3>2. sharpe \in Int /\ trial \in [tried : Nat, params : Nat, sharpe : Int]
        BY WalkForwardAssumption DEF WalkTypeOK
      <3>3. CASE trial.tried = 0 \/ sharpe > trial.sharpe
        BY <3>1, <3>2, <3>3
      <3>4. CASE ~(trial.tried = 0 \/ sharpe > trial.sharpe)
        BY <3>1, <3>2, <3>4
      <3> QED
        BY <3>3, <3>4
    <2> QED
      BY <2>1, <2>2 DEF WalkTypeOK, HasFold, Window, Windows
  <1>2. ASSUME Test PROVE WindowsInv'
    <2> DEFINE k == Len(results) + 1
    <2>1. PICK sharpe \in Sharpes :
              results' = Append(results,
                  [window |-> Window(k), params |-> trial.params,
                   train |-> trial.sharpe, test |-> sharpe])
      BY <1>2 DEF Test
    <2>2. HasFold(k) /\ k \in 1..Windows
      BY <1>2, SetupTypes DEF Test, FoldUnderWay, HasFold, WalkTypeOK
    <2>3. setup' = setup /\ trial' = NoTrial
      BY <1>2 DEF Test
    <2>4. WalkTypeOK'
      BY <2>1, <2>2, <2>3, WalkForwardAssumption
         DEF WalkTypeOK, NoTrial, Window, Windows
    <2>5. \A i \in DOMAIN results' :
              HasFold(i) /\ results'[i].window = Window(i)
      <3> DEFINE new == [window |-> Window(k), params |-> trial.params,
                         train |-> trial.sharpe, test |-> sharpe]
             folds == [window : {Window(i) : i \in 1..Windows}, params : Nat,
                       train : Int, test : Int]
      <3>1. new.window = Window(k) /\ results \in Seq(folds)
        BY DEF WalkTypeOK
      <3> HIDE DEF new, folds
      <3>2. results' = Append(results, new)
        BY <2>1 DEF new
      <3> QED
        BY <2>2, <3>1, <3>2
    <2> QED
      BY <2>3, <2>4, <2>5 DEF HasFold, Window, Windows
  <1>3. ASSUME UNCHANGED walkVars PROVE WindowsInv'
    BY <1>3 DEF walkVars, WalkTypeOK, HasFold, Window, Windows
  <1> QED
    BY <1>1, <1>2, <1>3
       DEF BacktestNext, WalkForwardStep, RunMonteCarlo, RunCostSweep, backtestVars

\* What the windows of two results have to do with each other.
LEMMA WindowsApart ==
    ASSUME WindowsInv, NEW j \in DOMAIN results, NEW k \in DOMAIN results, j <= k
    PROVE  /\ InRange(results[k].window)
           /\ results[j].window.trainEnd <= results[k].window.testStart
           /\ j < k => results[j].window.testEnd <=
                 IF setup.window = "rolling" THEN results[k].window.trainStart
                                             ELSE results[k].window.testStart
  <1>1. /\ setup \in Setups
        /\ results[j].window = Window(j) /\ results[k].window = Window(k)
        /\ j \in 1..Windows /\ k \in 1..Windows
        /\ Window(j).testEnd > Window(j).testStart
        /\ Window(k).testEnd > Window(k).testStart
    <2>1. setup \in Setups /\ Windows \in Nat /\ DOMAIN results = 1..Len(results)
          /\ Len(results) \in Nat
      BY SetupTypes DEF WindowsInv, WalkTypeOK
    <2>2. HasFold(j) /\ HasFold(k) /\ j \in 1..j /\ k \in 1..k
      BY <2>1 DEF WindowsInv
    <2>3. j <= Windows /\ k <= Windows
          /\ Window(j).testEnd > Window(j).testStart
          /\ Window(k).testEnd > Window(k).testStart
      BY <2>2 DEF HasFold
    <2> QED
      BY <2>1, <2>2, <2>3 DEF WindowsInv
  <1> DEFINE n == setup.trades
  <1>2. n \in Nat
    BY <1>1, SetupTypes
  <1>3. CASE setup.window = "rolling"
    <2> DEFINE s == Splits(n, setup.splits)
    <2>1. /\ s \in Nat \ {0} /\ j \in 1..s /\ k \in 1..s
          /\ Window(j) = Rolling(n, s, j) /\ Window(k) = Rolling(n, s, k)
      BY <1>1, <1>3, SplitsPositive, SetupTypes DEF Windows, Window
    <2> HIDE DEF s, n
    <2>2. \A i \in {j, k} : LET w == Window(i)
           IN  /\ w.trainStart = Start(n, s, i) /\ w.trainStart \in Nat
               /\ w.trainEnd \in Nat /\ w.testStart = w.trainEnd
               /\ w.trainStart <= w.trainEnd
               /\ w.testEnd \in Nat /\ w.testEnd <= n
               /\ w.testEnd <= w.trainStart + Width(n, s)
      BY <1>1, <1>2, <2>1, RollingInRange
    <2>3. j < k => Window(j).testEnd <= Window(k).trainStart
      <3>1. j < k => Start(n, s, j) + Width(n, s) <= Start(n, s, k)
        BY <1>2, <2>1, StartsApart
      <3>2. Width(n, s) \in Nat
        BY <1>2, <2>1, WidthFits
      <3> QED
        BY <2>2, <3>1, <3>2
    <2>4. InRange(Window(k))
      BY <1>1, <2>2 DEF InRange, n
    <2>5. Window(j).trainEnd <= Window(k).testStart
      <3>1. j \in Int /\ k \in Int
        BY <2>1
      <3> QED
        BY <1>1, <2>2, <2>3, <3>1
    <2> QED
      BY <1>1, <1>3, <2>3, <2>4, <2>5
  <1>4. CASE setup.window # "rolling"
    <2> DEFINE s == setup.splits
    <2>1. /\ s \in Nat \ {0} /\ j \in 1..s /\ k \in 1..s
          /\ Window(j) = Expanding(n, s, j) /\ Window(k) = Expanding(n, s, k)
      BY <1>1, <1>4, SetupTypes DEF Windows, Window
    <2>2. LET v == Window(j)
              w == Window(k)
          IN  /\ w.trainStart = 0 /\ w.trainEnd \in Nat
              /\ w.testStart = w.trainEnd
              /\ w.testEnd \in Int /\ w.testEnd <= n
              /\ v.trainEnd <= w.testStart
              /\ j < k => v.testEnd <= w.testStart
      BY <1>2, <2>1, ExpandingInRange
    <2>3. InRange(Window(k))
      BY <1>1, <2>2 DEF InRange
    <2> QED
      BY <1>1, <1>4, <2>2, <2>3
  <1> QED
    BY <1>3, <1>4

-----------------------------------------------------------------------------
LEMMA WindowsInvHolds == BacktestSpec => []WindowsInv
  BY InitInv, NextInv, PTL DEF BacktestSpec

\* walk_forward.py does not look ahead: whatever the trades, the splits, the
\* minimums and the share of training, parameters are tested on trades that
\* exist and that no training so far has seen.
THEOREM NoLookAhead == BacktestSpec => []TestIsUnseen
  <1>1. WindowsInv => TestIsUnseen
    <2> SUFFICES ASSUME WindowsInv, NEW k \in DOMAIN results
                 PROVE  /\ InRange(results[k].window)
                        /\ \A j \in 1..k :
                              results[j].window.trainEnd <=
                                  results[k].window.testStart
      BY DEF TestIsUnseen
    <2>1. k \in Nat /\ \A j \in 1..k : j \in DOMAIN results
      <3>1. DOMAIN results = 1..Len(results) /\ Len(results) \in Nat
        BY DEF WindowsInv, WalkTypeOK
      <3> QED
        BY ONLY <3>1, k \in DOMAIN results
    <2> QED
      BY <2>1, WindowsApart
  <1> QED
    BY <1>1, WindowsInvHolds, PTL

\* No trade is tested twice, and rolling windows share none.
THEOREM FoldsApart == BacktestSpec => []FoldsDoNotOverlap
  <1>1. WindowsInv => FoldsDoNotOverlap
    <2> SUFFICES ASSUME WindowsInv, NEW j \in DOMAIN results,
                        NEW k \in DOMAIN results, j < k
                 PROVE  results[j].window.testEnd <=
                            IF setup.window = "rolling"
                            THEN results[k].window.trainStart
                            ELSE results[k].window.testStart
      BY DEF FoldsDoNotOverlap
    <2>1. j <= k
      BY DEF WindowsInv, WalkTypeOK
    <2> QED
      BY <2>1, WindowsApart
  <1> QED
    BY <1>1, WindowsInvHolds, PTL

-----------------------------------------------------------------------------
(* The grade.                                                              *)

LEMMA CountIs ==
    ASSUME NEW S, IsFiniteSet(S)
    PROVE  /\ Cardinality(S) \in Nat
           /\ \A i \in S : Cardinality(S) >= 1
           /\ \A i, j \in S : i # j => Cardinality(S) >= 2
<1>1. Cardinality(S) \in Nat
  BY FS_CardinalityType
<1>2. ASSUME NEW i \in S PROVE Cardinality(S) >= 1
  <2>1. Cardinality({i}) = 1 /\ {i} \in SUBSET S
    BY FS_Singleton
  <2> QED
    BY <1>1, <2>1, FS_Subset
<1>3. ASSUME NEW i \in S, NEW j \in S, i # j PROVE Cardinality(S) >= 2
  <2>1. IsFiniteSet({i}) /\ Cardinality({i}) = 1 /\ j \notin {i}
    BY <1>3, FS_Singleton
  <2>2. Cardinality({i} \cup {j}) = 2 /\ {i} \cup {j} \in SUBSET S
    BY <2>1, FS_AddElement
  <2> QED
    BY <1>1, <2>2, FS_Subset
<1> QED
  BY <1>1, <1>2, <1>3

LEMMA GradeIs ==
    ASSUME NEW n \in Nat, NEW flags, DOMAIN flags = 1..n
    PROVE  /\ \A i \in 1..n : flags[i] = "critical" => Grade(flags) \in {"WEAK", "FAIL"}
           /\ \A i, j \in 1..n :
                 i # j /\ flags[i] = "critical" /\ flags[j] = "critical"
                     => Grade(flags) = "FAIL"
           /\ Grade(flags) = "STRONG" =>
                 \A i \in 1..n : flags[i] # "critical" /\ flags[i] # "warning"
<1> DEFINE C == {i \in 1..n : flags[i] = "critical"}
           W == {i \in 1..n : flags[i] = "warning"}
<1>1. Grade(flags) =
         IF Cardinality(C) >= 2 THEN "FAIL"
         ELSE IF Cardinality(C) = 1 \/ Cardinality(W) >= 3 THEN "WEAK"
         ELSE IF Cardinality(W) >= 1 THEN "MODERATE"
         ELSE "STRONG"
  BY DEF Grade, Quantify
<1>2. IsFiniteSet(C) /\ IsFiniteSet(W)
  <2>1. IsFiniteSet(1..n)
    BY FS_Interval
  <2> QED
    BY <2>1, FS_Subset
<1>3. (\A i \in 1..n : flags[i] = "critical" => i \in C)
      /\ (\A i \in 1..n : flags[i] = "warning" => i \in W)
  OBVIOUS
<1> HIDE DEF C, W
<1>4. /\ Cardinality(C) \in Nat /\ Cardinality(W) \in Nat
      /\ (\A i \in C : Cardinality(C) >= 1) /\ (\A i \in W : Cardinality(W) >= 1)
      /\ (\A i, j \in C : i # j => Cardinality(C) >= 2)
  BY <1>2, CountIs
<1>5. ASSUME NEW i \in 1..n, flags[i] = "critical" PROVE Grade(flags) \in {"WEAK", "FAIL"}
  <2>1. Cardinality(C) >= 1
    BY <1>3, <1>4, <1>5
  <2> QED
    BY ONLY <1>1, <1>4, <2>1
<1>6. ASSUME NEW i \in 1..n, NEW j \in 1..n, i # j, flags[i] = "critical", flags[j] = "critical"
      PROVE  Grade(flags) = "FAIL"
  <2>1. Cardinality(C) >= 2
    BY <1>3, <1>4, <1>6
  <2> QED
    BY ONLY <1>1, <1>4, <2>1
<1>7. ASSUME Grade(flags) = "STRONG", NEW i \in 1..n
      PROVE  flags[i] # "critical" /\ flags[i] # "warning"
  <2>1. ~ (Cardinality(C) >= 1) /\ ~ (Cardinality(W) >= 1)
    BY ONLY <1>1, <1>4, <1>7
  <2> QED
    BY <1>3, <1>4, <2>1
<1> QED
  BY <1>5, <1>6, <1>7

\* The flags of a report, one after the other.
LEMMA FlagsAre ==
    ASSUME NEW a, NEW b, NEW c, NEW S, a \in Seq(S), b \in Seq(S), c \in Seq(S)
    PROVE  /\ Len(a \o b \o c) = Len(a) + Len(b) + Len(c)
           /\ DOMAIN (a \o b \o c) = 1..Len(a) + Len(b) + Len(c)
           /\ \A i \in 1..Len(a) : (a \o b \o c)[i] = a[i]
           /\ \A i \in 1..Len(b) : (a \o b \o c)[Len(a) + i] = b[i]
OBVIOUS

LEMMA SeverityIs ==
    ASSUME NEW critical, NEW warning
    PROVE  /\ Severity(critical, warning) \in {"critical", "warning", "info"}
           /\ critical => Severity(critical, warning) = "critical"
           /\ warning => Severity(critical, warning) \in {"critical", "warning"}
BY DEF Severity

Severities == {"critical", "warning", "info"}

LEMMA SumsAreIntegers ==
    ASSUME WindowsInv
    PROVE  /\ TrainSum(results) \in Int /\ TestSum(results) \in Int
           /\ Len(results) \in Nat
           /\ results # <<>> => Len(results) > 0
           /\ results = <<>> => TrainSum(results) = 0
<1> DEFINE f == [k \in DOMAIN results |-> results[k].train]
           g == [k \in DOMAIN results |-> results[k].test]
<1>1. /\ Len(results) \in Nat /\ DOMAIN results = 1..Len(results)
      /\ \A k \in 1..Len(results) : results[k].train \in Int /\ results[k].test \in Int
      /\ results # <<>> => Len(results) > 0
  <2> DEFINE folds == [window : {Window(i) : i \in 1..Windows}, params : Nat,
                       train : Int, test : Int]
  <2>1. results \in Seq(folds)
    BY DEF WindowsInv, WalkTypeOK
  <2>2. \A x \in folds : x.train \in Int /\ x.test \in Int
    OBVIOUS
  <2> HIDE DEF folds
  <2>3. /\ Len(results) \in Nat /\ DOMAIN results = 1..Len(results)
        /\ \A k \in 1..Len(results) : results[k] \in folds
    BY ONLY <2>1
  <2>4. results # <<>> => Len(results) > 0
    BY ONLY <2>1
  <2> QED
    BY <2>2, <2>3, <2>4
<1>2. IsFiniteSet(DOMAIN results)
  BY <1>1, FS_Interval
<1>3. TrainSum(results) = SumFunctionOnSet(f, DOMAIN results)
      /\ TestSum(results) = SumFunctionOnSet(g, DOMAIN results)
  BY DEF TrainSum, TestSum, SumFunction
<1>4. \A k \in DOMAIN results : f[k] \in Int /\ g[k] \in Int
  BY <1>1
<1>5. results = <<>> => DOMAIN results = {}
  OBVIOUS
<1> HIDE DEF f, g
<1>6. SumFunctionOnSet(f, DOMAIN results) \in Int /\ SumFunctionOnSet(g, DOMAIN results) \in Int
  BY ONLY <1>2, <1>4, SumIsAnInteger
<1>7. results = <<>> => SumFunctionOnSet(f, DOMAIN results) = 0
  BY ONLY <1>5, SumOfNone
<1> QED
  BY <1>1, <1>3, <1>6, <1>7

LEMMA GradeFollows == ASSUME WindowsInv PROVE GradeIsEarned
<1> DEFINE train == TrainSum(results)
           test == TestSum(results)
           n == Len(results)
           W == WalkForwardFlags(results)
           M == MonteCarloFlags(sims)
           C == CostFlags(profitable)
           F == W \o M \o C
<1>1. /\ train \in Int /\ test \in Int /\ n \in Nat /\ (results # <<>> => n > 0)
      /\ (results = <<>> => train = 0)
  BY SumsAreIntegers
<1>2. TheGrade = Grade(F)
  BY DEF TheGrade, ReportGrade
<1> DEFINE a == Severity(Exceeds(train, test, 3, 1), Exceeds(train, test, 3, 2))
           b == Severity(Degrades(train, test, 50), Degrades(train, test, 25))
           c == Severity(FALSE, Inconsistent(results))
           d == Severity(test < 0, 2 * test < n * Unit)
           e == Severity(2 * Positives(sims) < Len(sims), 4 * Positives(sims) < 3 * Len(sims))
           f == Severity(FALSE, AtLevel(sims, 95) - AtLevel(sims, 5) > 3 * Unit)
<1>3. W = IF results = <<>> THEN <<"warning">> ELSE <<a, b, c, d>>
  BY DEF WalkForwardFlags
<1>4. M = IF sims = <<>> THEN <<"warning">> ELSE <<e, f>>
  BY DEF MonteCarloFlags
<1>5. /\ a \in Severities /\ b \in Severities /\ c \in Severities
      /\ d \in Severities /\ e \in Severities /\ f \in Severities
  BY SeverityIs DEF Severities
<1>6. C \in Seq(Severities)
  <2> DEFINE x == Severity(Under(MaxFee(profitable), 3), Under(MaxFee(profitable), 6))
             y == Severity(FALSE, Under(MaxSlippage(profitable), 5))
  <2>1. x \in Severities /\ y \in Severities
    BY SeverityIs DEF Severities
  <2>2. C = <<x, y>>
    BY DEF CostFlags
  <2> HIDE DEF Severities, x, y, C
  <2> QED
    BY ONLY <2>1, <2>2
<1>7. train > 2 * test /\ train > 0 => b = "critical"
  <2>1. ASSUME train > 2 * test, train > 0 PROVE Degrades(train, test, 50)
    <3> HIDE DEF train, test
    <3>1. Magnitude(train) = train /\ train # 0
      BY <1>1, <2>1 DEF Magnitude
    <3>2. 100 * (train - test) > 50 * train
      BY <1>1, <2>1
    <3> QED
      BY <3>1, <3>2 DEF Degrades
  <2> QED
    BY <2>1, SeverityIs
<1>8. train > 3 * test /\ test > 0 => a = "critical"
  <2>1. ASSUME train > 3 * test, test > 0 PROVE Exceeds(train, test, 3, 1)
    <3> HIDE DEF train, test
    <3> QED
      BY <1>1, <2>1 DEF Exceeds
  <2> QED
    BY <2>1, SeverityIs
<1>9. test < 0 => d = "critical"
  BY SeverityIs
<1>10. ~ (2 * test < n * Unit) \/ d \in {"critical", "warning"}
  BY SeverityIs
<1>11. ~ Exceeds(train, test, 3, 2) \/ a \in {"critical", "warning"}
  BY SeverityIs
<1> HIDE DEF a, b, c, d, e, f
<1>12. W \in Seq(Severities) /\ M \in Seq(Severities)
  <2>1. "warning" \in Severities
    BY DEF Severities
  <2> HIDE DEF Severities, W, M
  <2> QED
    BY ONLY <1>3, <1>4, <1>5, <2>1
<1>13. /\ Len(W) \in Nat /\ Len(M) \in Nat /\ Len(C) \in Nat /\ Len(W) >= 1 /\ Len(M) >= 1
       /\ results # <<>> => Len(W) = 4 /\ W[1] = a /\ W[2] = b /\ W[4] = d
       /\ results = <<>> => W[1] = "warning"
       /\ sims = <<>> => M[1] = "warning"
  <2> HIDE DEF W, M, C
  <2>1. Len(C) \in Nat
    BY <1>6
  <2> QED
    BY ONLY <1>3, <1>4, <2>1
<1> DEFINE k == Len(W) + Len(M) + Len(C)
<1> HIDE DEF W, M, C
<1>14. /\ DOMAIN F = 1..k
       /\ \A i \in 1..Len(W) : F[i] = W[i]
       /\ \A i \in 1..Len(M) : F[Len(W) + i] = M[i]
  BY ONLY <1>6, <1>12, FlagsAre
<1>15. k \in Nat /\ 1 \in 1..k /\ Len(W) + 1 \in 1..k
       /\ F[1] = W[1] /\ F[Len(W) + 1] = M[1]
  BY ONLY <1>13, <1>14
<1>16. results # <<>> => /\ 2 \in 1..k /\ 4 \in 1..k
                         /\ F[1] = a /\ F[2] = b /\ F[4] = d
  <2> HIDE DEF F
  <2>1. ASSUME Len(W) = 4
        PROVE  2 \in 1..k /\ 4 \in 1..k /\ 1 \in 1..Len(W) /\ 2 \in 1..Len(W) /\ 4 \in 1..Len(W)
    BY ONLY <1>13, <2>1
  <2> HIDE DEF k
  <2>2. ASSUME results # <<>>
        PROVE  Len(W) = 4 /\ W[1] = a /\ W[2] = b /\ W[4] = d
    BY ONLY <1>13, <2>2
  <2>3. ASSUME results # <<>> PROVE F[1] = W[1] /\ F[2] = W[2] /\ F[4] = W[4]
    BY ONLY <1>14, <2>1, <2>2, <2>3
  <2> QED
    BY ONLY <2>1, <2>2, <2>3
<1> HIDE DEF F, k
<1>17. /\ \A i \in 1..k : F[i] = "critical" => Grade(F) \in {"WEAK", "FAIL"}
       /\ \A i, j \in 1..k : i # j /\ F[i] = "critical" /\ F[j] = "critical" => Grade(F) = "FAIL"
       /\ Grade(F) = "STRONG" => \A i \in 1..k : F[i] # "critical" /\ F[i] # "warning"
  BY ONLY <1>14, <1>15, GradeIs
<1>18. train > 0 => results # <<>>
  BY <1>1
<1>19. ASSUME train > 0, train > 2 * test PROVE Grade(F) \in {"WEAK", "FAIL"}
  BY <1>7, <1>16, <1>17, <1>18, <1>19
<1>20. ASSUME train > 0, train > 3 * test, test # 0 PROVE Grade(F) = "FAIL"
  <2> HIDE DEF train, test
  <2>1. test > 0 \/ test < 0
    BY <1>1, <1>20
  <2>2. train > 2 * test
    BY <1>1, <1>20
  <2>3. b = "critical" /\ (a = "critical" \/ d = "critical")
    BY <1>7, <1>8, <1>9, <1>20, <2>1, <2>2
  <2>4. results # <<>>
    BY <1>18, <1>20
  <2> QED
    BY <1>15, <1>16, <1>17, <2>3, <2>4
<1>21. ASSUME Grade(F) = "STRONG" PROVE results # <<>> /\ sims # <<>> /\ train < 2 * test
  <2>1. \A i \in 1..k : F[i] # "critical" /\ F[i] # "warning"
    BY <1>17, <1>21
  <2>2. results # <<>> /\ sims # <<>>
    BY <1>13, <1>15, <2>1
  <2>3. d \notin {"critical", "warning"} /\ a \notin {"critical", "warning"}
    BY <1>15, <1>16, <2>1, <2>2
  <2>4. ~ (2 * test < n * Unit) /\ ~ Exceeds(train, test, 3, 2)
    BY <1>10, <1>11, <2>3
  <2>5. Unit \in Int /\ Unit > 0
    BY ValidationAssumption DEF ValidationAssumption
  <2> HIDE DEF train, test, n
  <2>6. n * Unit > 0 /\ n * Unit \in Int
    BY <1>1, <2>2, <2>5
  <2>7. test > 0
    BY <1>1, <2>4, <2>6
  <2>8. ~ (train * 2 > 3 * test)
    BY <2>4, <2>7 DEF Exceeds
  <2>9. train < 2 * test
    BY <1>1, <2>7, <2>8
  <2> QED
    BY <2>2, <2>9
<1> QED
  BY <1>2, <1>19, <1>20, <1>21 DEF GradeIsEarned

(* GradeIsEarned: whatever the windows, samples and scenarios come to, a   *)
(* strategy that does half as well on unseen trades is WEAK at best, one   *)
(* that does a third as well or loses FAILs, and STRONG has every part.    *)
THEOREM GradesAreEarned == BacktestSpec => []GradeIsEarned
  BY GradeFollows, WindowsInvHolds, PTL

-----------------------------------------------------------------------------
(* The distribution of the simulations.                                    *)

\* The positions of the values under v, and of those up to v.
Below(values, v) == {j \in DOMAIN values : values[j] < v}
AtMost(values, v) == {j \in DOMAIN values : values[j] <= v}

LEMMA HasPlace ==
    ASSUME NEW values \in Seq(Int), NEW i \in DOMAIN values
    PROVE  \E v \in Range(values) : /\ Cardinality(Below(values, v)) < i
                                    /\ Cardinality(AtMost(values, v)) >= i
<1> DEFINE D == DOMAIN values
           V == {values[j] : j \in D}
           S == {v \in V : Cardinality(AtMost(values, v)) >= i}
<1>1. /\ Len(values) \in Nat /\ D = 1..Len(values)
      /\ \A j \in D : values[j] \in Int
      /\ i \in Nat /\ i >= 1 /\ i <= Len(values)
  OBVIOUS
<1>2. IsFiniteSet(D) /\ Cardinality(D) = Len(values)
  <2> DEFINE n == Len(values)
  <2> HIDE DEF n, D
  <2>1. n \in Nat /\ D = 1..n /\ n >= 1
    BY <1>1 DEF n
  <2>2. IsFiniteSet(1..n) /\ Cardinality(1..n) = n - 1 + 1
    BY ONLY <2>1, FS_Interval
  <2> QED
    BY <2>1, <2>2 DEF n
<1>3. IsFiniteSet(V) /\ Range(values) = V
  BY <1>2, ImageIsFinite DEF Range
<1>4. \A v : /\ IsFiniteSet(Below(values, v)) /\ IsFiniteSet(AtMost(values, v))
             /\ Cardinality(Below(values, v)) \in Nat /\ Cardinality(AtMost(values, v)) \in Nat
  BY <1>2, FS_Subset, FS_CardinalityType DEF Below, AtMost
<1>5. V # {} /\ \A v \in V : v \in Int
  BY <1>1
<1>6. S # {} /\ S \subseteq V
  <2>1. Max(V) \in V /\ \A v \in V : Max(V) >= v
    BY <1>3, <1>5, LargestOfSome
  <2>2. \A j \in D : values[j] <= Max(V)
    BY <1>1, <1>5, <2>1
  <2>3. AtMost(values, Max(V)) = D
    BY <2>2 DEF AtMost
  <2> QED
    BY <1>1, <1>2, <2>1, <2>3
<1>7. PICK v \in S : \A w \in S : v <= w
  <2>1. IsFiniteSet(S) /\ \A x \in S : x \in Int
    BY <1>3, <1>5, <1>6, FS_Subset
  <2> HIDE DEF S
  <2> QED
    BY ONLY <1>6, <2>1, SmallestOfSome
<1>8. v \in V /\ v \in Int /\ Cardinality(AtMost(values, v)) >= i
  BY <1>5, <1>7
<1>9. ASSUME ~ (Cardinality(Below(values, v)) < i) PROVE FALSE
  <2> DEFINE B == {values[j] : j \in Below(values, v)}
  <2>1. IsFiniteSet(B)
    BY <1>4, ImageIsFinite
  <2>2. Below(values, v) # {}
    BY <1>1, <1>4, <1>9, FS_EmptySet
  <2>3. B # {} /\ \A b \in B : b \in V /\ b \in Int /\ b < v
    BY <1>1, <1>8, <2>2 DEF Below
  <2> DEFINE w == Max(B)
  <2>4. w \in B /\ \A b \in B : w >= b
    <3> HIDE DEF B
    <3> QED
      BY ONLY <2>1, <2>3, LargestOfSome
  <2>5. w \in V /\ w \in Int /\ w < v
    BY <2>3, <2>4
  <2>6. Below(values, v) \subseteq AtMost(values, w)
    <3>1. ASSUME NEW j \in Below(values, v) PROVE values[j] <= w /\ j \in D
      <4>1. j \in D /\ values[j] \in B
        BY DEF Below
      <4> HIDE DEF B, w
      <4> QED
        BY <1>1, <2>4, <2>5, <4>1
    <3> QED
      BY <3>1 DEF AtMost
  <2> HIDE DEF B, w
  <2>7. Cardinality(Below(values, v)) <= Cardinality(AtMost(values, w))
    BY <1>4, <2>6, FS_Subset
  <2>8. Cardinality(AtMost(values, w)) >= i
    BY <1>1, <1>4, <1>9, <2>7
  <2>9. w \in S
    BY <2>5, <2>8
  <2>10. v <= w
    BY <1>7, <2>9
  <2> QED
    BY ONLY <1>8, <2>5, <2>10
<1> QED
  BY <1>3, <1>8, <1>9

Rises(s) == s \in Seq(Int) /\ \A i, j \in DOMAIN s : i <= j => s[i] <= s[j]

LEMMA SortedRises ==
    ASSUME NEW values \in Seq(Int)
    PROVE  Rises(Sorted(values))
<1> DEFINE s == Sorted(values)
           D == DOMAIN values
<1>1. /\ Len(values) \in Nat /\ D = 1..Len(values)
      /\ \A j \in D : values[j] \in Int
  OBVIOUS
<1>2. ASSUME NEW i \in D
      PROVE  /\ s[i] \in Range(values)
             /\ Cardinality(Below(values, s[i])) < i
             /\ Cardinality(AtMost(values, s[i])) >= i
  <2> DEFINE Place(v) == /\ Cardinality(Below(values, v)) < i
                         /\ Cardinality(AtMost(values, v)) >= i
  <2>1. s[i] = CHOOSE v \in Range(values) : Place(v)
    BY DEF Sorted, Quantify, Below, AtMost
  <2>2. \E v \in Range(values) : Place(v)
    BY HasPlace
  <2> HIDE DEF Place
  <2>3. s[i] \in Range(values) /\ Place(s[i])
    BY <2>1, <2>2
  <2> QED
    BY <2>3 DEF Place
<1>3. DOMAIN s = D
  BY DEF Sorted
<1>4. \A i \in D : s[i] \in Int
  BY <1>1, <1>2 DEF Range
<1>5. s \in [1..Len(values) -> Int]
  BY <1>1, <1>3, <1>4 DEF Sorted
<1> HIDE DEF s
<1>6. s \in Seq(Int)
  BY ONLY <1>1, <1>5
<1>7. ASSUME NEW i \in D, NEW j \in D, i <= j, s[j] < s[i] PROVE FALSE
  <2>1. AtMost(values, s[j]) \subseteq Below(values, s[i])
    BY <1>1, <1>4, <1>7 DEF AtMost, Below
  <2>2. IsFiniteSet(D) /\ Below(values, s[i]) \in SUBSET D
    BY <1>1, FS_Interval DEF Below
  <2>3. IsFiniteSet(Below(values, s[i]))
    BY <2>2, FS_Subset
  <2>4. Cardinality(AtMost(values, s[j])) <= Cardinality(Below(values, s[i]))
        /\ Cardinality(Below(values, s[i])) \in Nat
        /\ Cardinality(AtMost(values, s[j])) \in Nat
    BY <2>1, <2>3, FS_Subset, FS_CardinalityType
  <2>5. Cardinality(AtMost(values, s[j])) >= j /\ Cardinality(Below(values, s[i])) < i
        /\ i \in Int /\ j \in Int
    BY <1>1, <1>2
  <2> QED
    BY ONLY <1>7, <2>4, <2>5
<1>8. \A i, j \in D : i <= j => s[i] <= s[j]
  BY <1>4, <1>7
<1> QED
  BY <1>3, <1>6, <1>8 DEF Rises, s

SimsInv == Rises(sims)

LEMMA SimsRise == BacktestSpec => []SimsInv
<1>1. ASSUME BacktestInit PROVE SimsInv
  <2>1. <<>> \in Seq(Int) /\ DOMAIN <<>> = {}
    OBVIOUS
  <2> QED
    BY <1>1, <2>1 DEF BacktestInit, Rises, SimsInv
<1>2. ASSUME SimsInv, [BacktestNext]_backtestVars PROVE SimsInv'
  <2>1. ASSUME RunMonteCarlo PROVE SimsInv'
    <3>1. PICK sample \in Samples \cup {<<>>} : sims' = Sorted(sample)
      BY <2>1 DEF RunMonteCarlo
    <3>2. sample \in Seq(Int)
      <4>1. <<>> \in Seq(Int)
        OBVIOUS
      <4> QED
        BY ONLY <4>1, BacktestAssumption, sample \in Samples \cup {<<>>}
           DEF BacktestAssumption
    <3> QED
      BY <3>1, <3>2, SortedRises DEF SimsInv
  <2>2. ASSUME sims' = sims PROVE SimsInv'
    BY <1>2, <2>2 DEF SimsInv
  <2> QED
    BY <1>2, <2>1, <2>2 DEF BacktestNext, WalkForwardStep, RunCostSweep, backtestVars
<1> QED
  BY <1>1, <1>2, PTL DEF BacktestSpec

\* Where the value of a level is.
Place(n, level) == 1 + IF (level * n) \div 100 <= n - 1 THEN (level * n) \div 100 ELSE n - 1

Levels == {5, 25, 50, 75, 95}

LEMMA Places ==
    ASSUME NEW n \in Nat, n > 0
    PROVE  /\ \A a \in Levels : Place(n, a) \in 1..n
           /\ \A a, b \in Levels : a <= b => Place(n, a) <= Place(n, b)
           /\ Place(n, 50) = 1 + n \div 2 /\ 1 + n \div 2 \in 1..n
           /\ 100 * Place(n, 5) > 5 * n
<1>1. /\ (5 * n) \div 100 <= (25 * n) \div 100 /\ (25 * n) \div 100 <= (50 * n) \div 100
      /\ (50 * n) \div 100 <= (75 * n) \div 100 /\ (75 * n) \div 100 <= (95 * n) \div 100
      /\ (5 * n) \div 100 \in Nat /\ (25 * n) \div 100 \in Nat /\ (50 * n) \div 100 \in Nat
      /\ (75 * n) \div 100 \in Nat /\ (95 * n) \div 100 \in Nat
  OBVIOUS
<1>2. /\ (50 * n) \div 100 = n \div 2 /\ n \div 2 <= n - 1 /\ n \div 2 \in Nat
      /\ (5 * n) \div 100 <= n - 1 /\ 100 * (1 + (5 * n) \div 100) > 5 * n
  OBVIOUS
<1>3. \A a \in Levels : Place(n, a) \in 1..n
  BY <1>1 DEF Levels, Place
<1>4. \A a, b \in Levels : a <= b => (a * n) \div 100 <= (b * n) \div 100
  BY <1>1 DEF Levels
<1>5. \A a \in Levels : (a * n) \div 100 \in Nat
  BY <1>1 DEF Levels
<1>6. \A a, b \in Levels : a <= b => Place(n, a) <= Place(n, b)
  BY <1>4, <1>5 DEF Place
<1> QED
  BY <1>2, <1>3, <1>6 DEF Place

LEMMA LevelIsAt ==
    ASSUME NEW s \in Seq(Int), s # <<>>, NEW a \in Levels
    PROVE  AtLevel(s, a) = s[Place(Len(s), a)]
<1> DEFINE q == (a * Len(s)) \div 100
           m == Len(s) - 1
<1>1. q \in Nat /\ m \in Nat
  <2>1. Len(s) \in Nat /\ Len(s) > 0
    OBVIOUS
  <2>2. a \in Nat
    BY DEF Levels
  <2>3. a * Len(s) \in Nat
    BY <2>1, <2>2
  <2> HIDE DEF Levels
  <2> DEFINE p == a * Len(s)
  <2> HIDE DEF p
  <2>4. p \in Nat => p \div 100 \in Nat
    OBVIOUS
  <2> QED
    BY <2>1, <2>3, <2>4 DEF p
<1>2. AtLevel(s, a) = s[1 + Max({0, Min({q, m})})]
  BY DEF AtLevel
<1>3. Place(Len(s), a) = 1 + IF q <= m THEN q ELSE m
  BY DEF Place
<1> HIDE DEF q, m
<1>4. Min({q, m}) = (IF q <= m THEN q ELSE m) /\ Min({q, m}) \in Nat
  BY <1>1, SmallestOfTwo
<1>5. Max({0, Min({q, m})}) = Min({q, m})
  <2> DEFINE x == Min({q, m})
  <2>1. x \in Nat
    BY <1>4
  <2> HIDE DEF x
  <2>2. Max({0, x}) = x
    BY <2>1, LargestOfTwo
  <2> QED
    BY <2>2 DEF x
<1> QED
  BY <1>2, <1>3, <1>4, <1>5

\* The positives are the last ones of a sample that rises.
LEMMA PositivesAreLast ==
    ASSUME NEW s, Rises(s), NEW i \in DOMAIN s
    PROVE  /\ Positives(s) \in Nat
           /\ s[i] > 0 => Positives(s) >= Len(s) - i + 1
           /\ ~ (s[i] > 0) => Positives(s) <= Len(s) - i
<1> DEFINE P == {j \in DOMAIN s : s[j] > 0}
           n == Len(s)
<1>1. Positives(s) = Cardinality(P)
  BY DEF Positives, Quantify
<1>2. /\ n \in Nat /\ DOMAIN s = 1..n /\ i \in Nat /\ i >= 1 /\ i <= n
      /\ \A j \in 1..n : s[j] \in Int
      /\ \A j, k \in 1..n : j <= k => s[j] <= s[k]
  BY DEF Rises
<1>3. IsFiniteSet(1..n) /\ P \in SUBSET (1..n)
  BY <1>2, FS_Interval
<1>4. IsFiniteSet(P) /\ Cardinality(P) \in Nat
  BY <1>3, FS_Subset, FS_CardinalityType
<1> HIDE DEF n
<1>5. Cardinality(i..n) = n - i + 1 /\ Cardinality((i+1)..n) = n - i
      /\ IsFiniteSet((i+1)..n)
  <2> DEFINE h == i + 1
  <2>1. i \in Int /\ h \in Int /\ n \in Int /\ h = i + 1 /\ i <= n
    BY ONLY <1>2
  <2> HIDE DEF h
  <2>2. Cardinality(i..n) = n - i + 1
    BY ONLY <2>1, FS_Interval
  <2>3. IsFiniteSet(h..n) /\ Cardinality(h..n) = IF h > n THEN 0 ELSE n - h + 1
    BY ONLY <2>1, FS_Interval
  <2>4. Cardinality(h..n) = n - i
    BY ONLY <2>1, <2>3
  <2> QED
    BY <2>2, <2>3, <2>4 DEF h
<1>6. ASSUME s[i] > 0 PROVE Cardinality(P) >= n - i + 1
  <2>1. \A j \in i..n : s[j] > 0 /\ j \in 1..n
    BY <1>2, <1>6
  <2>2. i..n \subseteq P
    BY <1>2, <2>1
  <2>3. Cardinality(i..n) <= Cardinality(P)
    BY <1>4, <2>2, FS_Subset
  <2> QED
    BY ONLY <1>2, <1>4, <1>5, <2>3
<1>7. ASSUME ~ (s[i] > 0) PROVE Cardinality(P) <= n - i
  <2>1. ASSUME NEW j \in P PROVE j \in (i+1)..n
    <3>1. j \in 1..n /\ s[j] > 0 /\ ~ (s[j] <= s[i])
      BY <1>2, <1>7
    <3>2. ~ (j <= i)
      BY ONLY <1>2, <3>1
    <3> QED
      BY ONLY <1>2, <3>1, <3>2
  <2>2. P \subseteq (i+1)..n
    BY <2>1
  <2>3. Cardinality(P) <= Cardinality((i+1)..n)
    BY <1>5, <2>2, FS_Subset
  <2> QED
    BY ONLY <1>2, <1>4, <1>5, <2>3
<1> QED
  BY <1>1, <1>4, <1>6, <1>7 DEF n

LEMMA IntervalsFollow == ASSUME Rises(sims) PROVE IntervalsAgree
<1> SUFFICES ASSUME sims # <<>>
             PROVE  /\ AtLevel(sims, 50) = Median(sims)
                    /\ \A a, b \in Levels : a <= b => AtLevel(sims, a) <= AtLevel(sims, b)
                    /\ 2 * Positives(sims) < Len(sims) => Median(sims) <= 0
                    /\ 100 * Positives(sims) > 95 * Len(sims) => AtLevel(sims, 5) > 0
  BY DEF IntervalsAgree, Levels
<1> DEFINE n == Len(sims)
<1>1. /\ sims \in Seq(Int) /\ n \in Nat /\ n > 0 /\ DOMAIN sims = 1..n
      /\ \A i \in 1..n : sims[i] \in Int
      /\ \A i, j \in 1..n : i <= j => sims[i] <= sims[j]
  BY DEF Rises
<1>2. \A a \in Levels : AtLevel(sims, a) = sims[Place(n, a)]
  BY <1>1, LevelIsAt
<1>3. Median(sims) = sims[1 + n \div 2]
  BY DEF Median
<1> HIDE DEF n
<1>4. /\ \A a \in Levels : Place(n, a) \in 1..n
      /\ \A a, b \in Levels : a <= b => Place(n, a) <= Place(n, b)
      /\ Place(n, 50) = 1 + n \div 2 /\ 1 + n \div 2 \in 1..n
      /\ 100 * Place(n, 5) > 5 * n
  BY ONLY <1>1, Places
<1>5. 5 \in Levels /\ 50 \in Levels
  BY DEF Levels
<1> HIDE DEF Levels
<1>6. AtLevel(sims, 50) = Median(sims)
  BY ONLY <1>2, <1>3, <1>4, <1>5
<1>7. \A a, b \in Levels : a <= b => AtLevel(sims, a) <= AtLevel(sims, b)
  BY ONLY <1>1, <1>2, <1>4
<1>8. ASSUME 2 * Positives(sims) < n PROVE Median(sims) <= 0
  <2> DEFINE m == 1 + n \div 2
  <2>1. m \in 1..n /\ 2 * m <= n + 2 /\ sims[m] \in Int
    BY <1>1, <1>4
  <2> HIDE DEF m
  <2>2. Positives(sims) \in Nat /\ (sims[m] > 0 => Positives(sims) >= n - m + 1)
    BY <1>1, <2>1, PositivesAreLast DEF n
  <2>3. ~ (sims[m] > 0)
    BY ONLY <1>1, <1>8, <2>1, <2>2
  <2> QED
    BY <1>3, <2>1, <2>3 DEF m
<1>9. ASSUME 100 * Positives(sims) > 95 * n PROVE AtLevel(sims, 5) > 0
  <2> DEFINE m == Place(n, 5)
  <2>1. m \in 1..n /\ 100 * m > 5 * n /\ sims[m] \in Int
    BY <1>1, <1>4, <1>5
  <2> HIDE DEF m
  <2>2. Positives(sims) \in Nat /\ (~ (sims[m] > 0) => Positives(sims) <= n - m)
    BY <1>1, <2>1, PositivesAreLast DEF n
  <2>3. sims[m] > 0
    BY ONLY <1>1, <1>9, <2>1, <2>2
  <2> QED
    BY <1>2, <1>5, <2>3 DEF m
<1> QED
  BY <1>6, <1>7, <1>8, <1>9 DEF n

(* IntervalsAgree: the simulations stand in order whatever sample was      *)
(* drawn, so the levels of the distribution rise around its median and its *)
(* share of positives says on which side of zero they are.                 *)
THEOREM IntervalsDoAgree == BacktestSpec => []IntervalsAgree
<1>1. SimsInv => IntervalsAgree
  BY IntervalsFollow DEF SimsInv
<1> QED
  BY <1>1, SimsRise, PTL

=============================================================================
