----------------------------- MODULE AlphaEngine ----------------------------
(***************************************************************************)
(* The alpha engine (services/alpha-engine/alpha_engine_svc), for the      *)
(* trades of one symbol: its consume thread asks the circuit breaker and   *)
(* hands the trade to the two strategies registered for the symbol, which  *)
(* produce signals.  The z-score of a trade is abstracted to the zone it   *)
(* lies in; both strategies keep the same window and see the same zone.    *)
(***************************************************************************)
EXTENDS Integers, SequencesExt

CONSTANTS
    Warmup,       \* warmup_trades
    Cooldown,     \* cooldown_trades
    QueueMax,     \* signals the producer's queue holds
    MaxTrades,    \* bound on the trades explored
    MaxRestarts,  \* bound on the restarts explored
    MaxLosses     \* bound on the failed, repeated and late deliveries explored

ASSUME AlphaEngineAssumption ==
    {Warmup, Cooldown, QueueMax, MaxTrades, MaxRestarts, MaxLosses} \subseteq Nat

\* In the order in which they are registered.
Registry == <<"mean_reversion", "momentum">>
Strategies == ToSet(Registry)
Sides == {"BUY", "SELL"}

\* Below -threshold_std, there at a price of 0, above it, between; no VWAP or
\* volatility yet.
Zones == {"low", "worthless", "high", "middle", "undefined"}
Low == {"low", "worthless"}

VARIABLES
    published,  \* trades in the raw.trades topic
    position,   \* trades handed out
    committed,  \* the group's committed offset, NoOffset at first
    taken,      \* trades handed out since the process started
    pc,         \* where the consume loop is: "poll", "breaker", "trade", "dead"
    zone,       \* the zone of the trade in hand
    next,       \* the strategy in Registry that gets it next
    count,      \* _trade_count of each strategy, up to Warmup
    since,      \* _trades_since_last_signal, up to Cooldown
    last,       \* _last_signal_side, "none" at first
    queue,      \* signals produced and not yet sent
    sent,       \* the signals topic: those that buy, less those that sell
    restarts,   \* restarts so far (history)
    losses,     \* deliveries that failed, came twice or were overtaken (history)
    handed,     \* trades that reached the strategies in this life (history)
    emitted     \* the same of the signals produced in this life (history)

offsets == <<published, position, committed, taken>>
strategies == <<count, since, last>>
history == <<restarts, losses>>
life == <<handed, emitted>>
vars == <<offsets, pc, zone, next, strategies, queue, sent, history, life>>

NoOffset == -1

Zero == [s \in Strategies |-> 0]
NoSide == [s \in Strategies |-> "none"]

Init ==
    /\ published = 0 /\ position = 0 /\ committed = NoOffset /\ taken = 0
    /\ pc = "poll" /\ zone = "undefined" /\ next = 1
    /\ count = Zero /\ since = Zero /\ last = NoSide
    /\ queue = <<>> /\ sent = 0 /\ restarts = 0 /\ losses = 0
    /\ handed = 0 /\ emitted = 0

-----------------------------------------------------------------------------
(* on_trade. *)

\* Mutant of SideFor: momentum fades the move too.
SideForFading(strategy, z) ==
    CASE z \in Low -> "BUY" [] z = "high" -> "SELL" [] OTHER -> "none"

SideFor(strategy, z) ==
    CASE z \in Low /\ strategy = "mean_reversion" -> "BUY"
      [] z \in Low /\ strategy = "momentum" -> "SELL"
      [] z = "high" /\ strategy = "mean_reversion" -> "SELL"
      [] z = "high" /\ strategy = "momentum" -> "BUY"
      [] OTHER -> "none"

UpTo(bound, n) == IF n < bound THEN n ELSE bound

Ready(strategy) ==
    count[strategy] + 1 >= Warmup /\ since[strategy] + 1 >= Cooldown

\* The side of the signal that the trade in hand makes a strategy give.
SignalFor(strategy) ==
    LET side == SideFor(strategy, zone) IN
    IF Ready(strategy) /\ side # last[strategy] THEN side ELSE "none"

Signal(strategy, side) == [strategy |-> strategy, side |-> side]

Weight(side) == IF side = "BUY" THEN 1 ELSE -1

CountTrade(s, signalled) ==
    /\ count' = [count EXCEPT ![s] = UpTo(Warmup, @ + 1)]
    /\ since' = [since EXCEPT ![s] = IF signalled THEN 0 ELSE UpTo(Cooldown, @ + 1)]

Proceed ==
    /\ next' = IF next < Len(Registry) THEN next + 1 ELSE 1
    /\ pc' = IF next < Len(Registry) THEN "trade" ELSE "poll"

-----------------------------------------------------------------------------
(* The consume loop. *)

PollTrade ==
    /\ pc = "poll" /\ position < published
    /\ position' = position + 1 /\ taken' = taken + 1
    /\ pc' = "breaker"
    /\ UNCHANGED <<published, committed, zone, next, strategies, queue, sent,
                   history, life>>

\* A message that is no trade: nothing catches the error, and the thread ends.
PollFails ==
    /\ pc = "poll" /\ position < published
    /\ position' = position + 1 /\ taken' = taken + 1
    /\ pc' = "dead"
    /\ UNCHANGED <<published, committed, zone, next, strategies, queue, sent,
                   history, life>>

\* The breaker answers TRUE: the strategies do not get the trade.
Suppress ==
    /\ pc = "breaker"
    /\ pc' = "poll"
    /\ UNCHANGED <<offsets, zone, next, strategies, queue, sent, history, life>>

\* It answers FALSE; the window decides the zone, once it is full enough.
BreakerPasses ==
    /\ pc = "breaker"
    /\ zone' \in Zones
    /\ handed' = handed + 1
    /\ pc' = "trade" /\ next' = 1
    /\ UNCHANGED <<offsets, strategies, queue, sent, history, emitted>>

NoSignal ==
    /\ pc = "trade"
    /\ LET s == Registry[next] IN SignalFor(s) = "none" /\ CountTrade(s, FALSE)
    /\ Proceed
    /\ UNCHANGED <<offsets, zone, last, queue, sent, history, life>>

\* The strategy takes the side of its signal for given.
Remember(s) ==
    /\ SignalFor(s) # "none"
    /\ CountTrade(s, TRUE)
    /\ last' = [last EXCEPT ![s] = SignalFor(s)]

\* There is no quantity to give at a price of 0, and so no signal.
SkipSignal ==
    /\ pc = "trade" /\ zone = "worthless"
    /\ Remember(Registry[next])
    /\ Proceed
    /\ UNCHANGED <<offsets, zone, queue, sent, history, life>>

EmitSignal ==
    /\ pc = "trade" /\ zone # "worthless" /\ Len(queue) < QueueMax
    /\ LET s == Registry[next] IN
           /\ Remember(s)
           /\ queue' = Append(queue, Signal(s, SignalFor(s)))
           /\ emitted' = emitted + Weight(SignalFor(s))
    /\ Proceed
    /\ UNCHANGED <<offsets, zone, sent, history, handed>>

\* produce raises when the queue is full, and nothing catches it: the thread
\* ends, with the strategy's state as if the signal had gone out.
EmitFails ==
    /\ pc = "trade" /\ zone # "worthless" /\ Len(queue) >= QueueMax
    /\ Remember(Registry[next])
    /\ pc' = "dead"
    /\ UNCHANGED <<offsets, zone, next, queue, sent, history, life>>

-----------------------------------------------------------------------------
(* Around it: market data, the client library, the process. *)

Publish ==
    /\ published < MaxTrades
    /\ published' = published + 1
    /\ UNCHANGED <<position, committed, taken, pc, zone, next, strategies, queue,
                   sent, history, life>>

\* A signal leaves the queue for the topic.
Deliver(i) ==
    /\ sent' = sent + Weight(queue[i].side) /\ queue' = RemoveAt(queue, i)
    /\ UNCHANGED <<offsets, pc, zone, next, strategies, restarts, life>>

\* Mutant of Send: the newest signal is sent first.
SendNewest == queue # <<>> /\ Deliver(Len(queue)) /\ UNCHANGED losses

Send == queue # <<>> /\ Deliver(1) /\ UNCHANGED losses

\* The producer retries, is not idempotent, and keeps many requests under
\* way: a later signal arrives before one that is tried again,
Lose == losses < MaxLosses /\ losses' = losses + 1

SendLate == Lose /\ \E i \in 2..Len(queue) : Deliver(i)

\* one is sent again although it arrived,
SendTwice ==
    /\ Lose /\ queue # <<>>
    /\ sent' = sent + Weight(Head(queue).side)
    /\ UNCHANGED <<offsets, pc, zone, next, strategies, queue, restarts, life>>

\* or is given up.
SendFails ==
    /\ Lose /\ queue # <<>>
    /\ queue' = Tail(queue)
    /\ UNCHANGED <<offsets, pc, zone, next, strategies, sent, restarts, life>>

\* Automatic, of what was handed out, handled or not.
Commit ==
    /\ taken > 0 /\ committed < position
    /\ committed' = position
    /\ UNCHANGED <<published, position, taken, pc, zone, next, strategies, queue,
                   sent, history, life>>

\* A crash loses the queue.  A stop flushes it, and is Send, then this.
Restart ==
    /\ restarts < MaxRestarts /\ restarts' = restarts + 1
    /\ position' = IF committed = NoOffset THEN published ELSE committed
    /\ taken' = 0 /\ pc' = "poll" /\ zone' = "undefined" /\ next' = 1
    /\ count' = Zero /\ since' = Zero /\ last' = NoSide
    /\ queue' = <<>> /\ handed' = 0 /\ emitted' = 0
    /\ UNCHANGED <<published, committed, sent, losses>>

Loop ==
    \/ PollTrade \/ PollFails \/ Suppress \/ BreakerPasses
    \/ NoSignal \/ SkipSignal \/ EmitSignal \/ EmitFails

Producer == Send \/ SendLate \/ SendTwice \/ SendFails

Next == Loop \/ Publish \/ Producer \/ Commit \/ Restart

Spec == Init /\ [][Next]_vars

Abs(x) == IF x < 0 THEN -x ELSE x

-----------------------------------------------------------------------------
(* The types of the variables. *)
TypeOK ==
    /\ published \in 0..MaxTrades /\ position \in 0..published
    /\ committed \in {NoOffset} \cup 0..position /\ taken \in 0..position
    /\ pc \in {"poll", "breaker", "trade", "dead"} /\ zone \in Zones
    /\ next \in 1..Len(Registry)
    /\ count \in [Strategies -> 0..Warmup] /\ since \in [Strategies -> 0..Cooldown]
    /\ last \in [Strategies -> Sides \cup {"none"}]
    /\ queue \in Seq([strategy : Strategies, side : Sides])
    /\ sent \in Int /\ emitted \in Int
    /\ restarts \in 0..MaxRestarts /\ losses \in 0..MaxLosses /\ handed \in 0..MaxTrades

(* Mean reversion and momentum give their signals at the same trades and   *)
(* to opposite sides: between two trades the signals of a life cancel, and *)
(* the positions they ask for add up to nothing.                           *)
StrategiesCancel ==
    pc = "poll" =>
        /\ emitted = 0
        /\ count["mean_reversion"] = count["momentum"]
        /\ since["mean_reversion"] = since["momentum"]

(* At most one signal is without its counterpart in the topic for each     *)
(* life that ended in the middle and for each delivery that failed, came   *)
(* twice or overtook another, besides the one whose counterpart is to come.*)
LegsLeftAlone == Abs(sent) <= restarts + losses + 1

-----------------------------------------------------------------------------
(* What the code does not keep (README, "Where code and text disagree"). *)

(* While the breaker is tripped the engine "continues updating model       *)
(* state": between two trades every trade of the life is in the strategies.*)
ModelStateIsCurrent == pc = "poll" => handed = taken

=============================================================================
