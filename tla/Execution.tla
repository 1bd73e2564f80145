------------------------------ MODULE Execution -----------------------------
(***************************************************************************)
(* The execution service (services/execution/execution_svc): one thread    *)
(* consumes approved orders and market depth, asks the circuit breaker,    *)
(* registers the order, fills it on paper or sends it to the exchange, and *)
(* publishes the fill.  Beside it run the mode API (another thread), the   *)
(* client of the log, which commits offsets on its own, the producer's     *)
(* sender, and the main task, which stops the service on a signal.         *)
(*                                                                         *)
(* The orders topic is a log of N messages; message k carries OrderAt[k].  *)
(* Two messages carry one order when the gateway's producer, which is not  *)
(* idempotent, retries.  A "life" is one run of the process.               *)
(***************************************************************************)
EXTENDS Integers, FiniteSets

CONSTANTS
    Orders, Strategies, Symbols,
    N,            \* messages that the orders topic receives
    OrderAt,      \* OrderAt[k]: the order in message k
    StrategyOf,   \* StrategyOf[o]
    SymbolOf,     \* SymbolOf[o]
    DefaultMode,  \* TRADING_MODE
    EnvModes,     \* STRATEGY_MODES, "none" where it says nothing
    QueueMax,     \* events the producer's queue holds
    MaxRestarts   \* bound on the lives explored

Modes == {"paper", "live"}

Messages == 1..N

ASSUME ExecutionAssumption ==
    /\ N \in Nat
    /\ OrderAt \in [Messages -> Orders]
    /\ StrategyOf \in [Orders -> Strategies]
    /\ SymbolOf \in [Orders -> Symbols]
    /\ DefaultMode \in Modes
    /\ EnvModes \in [Strategies -> Modes \cup {"none"}]
    /\ QueueMax \in Nat
    /\ MaxRestarts \in Nat

VARIABLES
    published,   \* messages in the log
    position,    \* messages the consumer has been given
    committed,   \* the group's committed offset, NoOffset at first
    phase,       \* "up", then "stopping", "closed", "flushed"; "down"
    pc,          \* where the consume loop is
    current,     \* the message last handed out in this life, 0 at first
    mode,        \* order_mode, read once for the message in hand
    client,      \* the exchange client could be created in this life
    overrides,   \* StrategyModeManager._modes
    quoted,      \* the symbols in latest_mid
    tracker,     \* status of each order in OrderTracker._orders
    stored,      \* status of each order in Redis
    outbox,      \* events produced and not yet sent
    restarts,    \* lives ended (history)
    placed,      \* place_order calls for each message (history)
    paperFills,  \* fills published with trading_mode paper (history)
    liveFills,   \* fills published with trading_mode live (history)
    late,        \* live placements since the strategy stopped being live (history)
    fate         \* what became of each message (history)

log == <<published, position, committed>>
hand == <<current, mode>>
orders == <<tracker, stored>>
process == <<phase, client, overrides, quoted>>
tallies == <<restarts, placed, paperFills, liveFills, late>>
history == <<tallies, fate>>
vars == <<log, phase, pc, hand, client, overrides, quoted, orders, outbox, history>>

NoOffset == -1

Unknown == [o \in Orders |-> "none"]

Zero == [k \in Messages |-> 0]

Init ==
    /\ published = 0 /\ position = 0 /\ committed = NoOffset
    /\ phase = "up" /\ pc = "loop" /\ current = 0 /\ mode = "paper"
    /\ client \in BOOLEAN /\ overrides = EnvModes /\ quoted = {}
    /\ tracker = Unknown /\ stored = Unknown
    /\ outbox = {}
    /\ restarts = 0 /\ placed = Zero /\ paperFills = Zero /\ liveFills = Zero
    /\ late = [s \in Strategies |-> 0]
    /\ fate = [k \in Messages |-> "pending"]

Order == OrderAt[current]
Strategy == StrategyOf[Order]

ModeIn(modes, s) == IF modes[s] = "none" THEN DefaultMode ELSE modes[s]

GetMode(s) == ModeIn(overrides, s)

-----------------------------------------------------------------------------
(* Producing an event, and the order tracker. *)

Event(topic, what) ==
    [topic |-> topic, what |-> what, message |-> current, life |-> restarts]

\* A full producer queue makes produce raise; the consume thread catches it
\* nowhere but around the exchange call, and ends.
Produce(event, next, otherwise) ==
    IF Cardinality(outbox) < QueueMax
    THEN outbox' = outbox \cup {event} /\ pc' = next
    ELSE UNCHANGED outbox /\ pc' = otherwise

Transitions ==
    [SUBMITTED |-> {"ACCEPTED", "REJECTED"},
     ACCEPTED |-> {"FILLED", "PARTIALLY_FILLED", "CANCELLED"},
     PARTIALLY_FILLED |-> {"FILLED", "PARTIALLY_FILLED", "CANCELLED"}]

Valid(from, to) == from \in DOMAIN Transitions /\ to \in Transitions[from]

\* _persist: a failure of Redis is logged and forgotten.
SetStatus(o, status) ==
    /\ tracker' = [tracker EXCEPT ![o] = status]
    /\ stored' \in {stored, [stored EXCEPT ![o] = status]}

\* Mutant of Transition: the table of valid transitions is not consulted.
TransitionUnchecked(o, status) == SetStatus(o, status)

Transition(o, status) ==
    IF Valid(tracker[o], status) THEN SetStatus(o, status) ELSE UNCHANGED orders

Announce(status, next) ==
    IF Valid(tracker[Order], status)
    THEN Produce(Event("order.status", status), next, "dead")
    ELSE UNCHANGED outbox /\ pc' = next

-----------------------------------------------------------------------------
(* The consume loop. *)

Running == phase # "down"

At(label) == Running /\ pc = label

\* The loop tests the shutdown event and enters consumer.poll.
BeginPoll ==
    /\ At("loop") /\ phase = "up"
    /\ pc' = "poll"
    /\ UNCHANGED <<log, hand, process, orders, outbox, history>>

\* The message in hand is handled when its handler returns to the loop; one
\* that ends the consume thread is not.
Conclude ==
    fate' = IF pc' = "loop" THEN [fate EXCEPT ![current] = "handled"] ELSE fate

\* No message, an error, or a consumer that was closed meanwhile.
PollNothing ==
    /\ At("poll")
    /\ pc' = "loop"
    /\ UNCHANGED <<log, hand, process, orders, outbox, history>>

Polling == At("poll") /\ phase \in {"up", "stopping"}

PollDepth(s) ==
    /\ Polling
    /\ quoted' = quoted \cup {s}
    /\ pc' = "loop"
    /\ UNCHANGED <<log, hand, phase, client, overrides, orders, outbox, history>>

PollOrder ==
    /\ Polling
    /\ position < published
    /\ position' = position + 1
    /\ current' = position + 1
    /\ pc' = "check"
    /\ UNCHANGED <<published, committed, mode, process, orders, outbox, history>>

\* The breaker answers TRUE.
BlockOrder ==
    /\ At("check")
    /\ Produce(Event("audit.log", "blocked"), "loop", "dead")
    /\ Conclude
    /\ UNCHANGED <<log, hand, process, orders, tallies>>

\* No market data: the order is skipped.
SkipOrder ==
    /\ At("check")
    /\ SymbolOf[Order] \notin quoted
    /\ pc' = "loop"
    /\ Conclude
    /\ UNCHANGED <<log, hand, process, orders, outbox, tallies>>

\* Mutant of RegisterOrder: a loop that has once been live stays so.
RegisterOrderStickyMode ==
    /\ At("check")
    /\ SymbolOf[Order] \in quoted
    /\ mode' = IF mode = "live" THEN mode ELSE GetMode(Strategy)
    /\ SetStatus(Order, "SUBMITTED")
    /\ pc' = "accept"
    /\ UNCHANGED <<log, current, process, outbox, history>>

RegisterOrder ==
    /\ At("check")
    /\ SymbolOf[Order] \in quoted
    /\ mode' = GetMode(Strategy)
    /\ SetStatus(Order, "SUBMITTED")
    /\ pc' = "accept"
    /\ UNCHANGED <<log, current, process, outbox, history>>

AcceptOrder ==
    /\ At("accept")
    /\ Transition(Order, "ACCEPTED")
    /\ Announce("ACCEPTED", "execute")
    /\ UNCHANGED <<log, hand, process, history>>

\* place_order is called; whether the exchange acts on it is not known here.
PlaceOrder ==
    /\ At("execute") /\ mode = "live" /\ client
    /\ placed' = [placed EXCEPT ![current] = @ + 1]
    /\ late' = IF GetMode(Strategy) = "live" THEN late
               ELSE [late EXCEPT ![Strategy] = @ + 1]
    /\ pc' = "placing"
    /\ UNCHANGED <<log, hand, process, orders, outbox, restarts, paperFills, liveFills,
                   fate>>

\* A full queue here is caught like a failure of the exchange.
PlaceReturns ==
    /\ At("placing")
    /\ Produce(Event("audit.log", "sent"), "fill", "placeFailed")
    /\ UNCHANGED <<log, hand, process, orders, history>>

\* Mutant of PlaceRaises: the order is sent again.
PlaceRaisesAndRetries ==
    /\ At("placing")
    /\ pc' = "execute"
    /\ UNCHANGED <<log, hand, process, orders, outbox, history>>

PlaceRaises ==
    /\ At("placing")
    /\ pc' = "placeFailed"
    /\ UNCHANGED <<log, hand, process, orders, outbox, history>>

PlaceFailed ==
    /\ At("placeFailed")
    /\ Transition(Order, "REJECTED")
    /\ pc' = "loop"
    /\ Conclude
    /\ UNCHANGED <<log, hand, process, outbox, tallies>>

\* Mutant of RejectWithoutClient: the order waits for a client.
AwaitClient == At("execute") /\ mode = "live" /\ ~client /\ UNCHANGED vars

RejectWithoutClient ==
    /\ At("execute") /\ mode = "live" /\ ~client
    /\ Transition(Order, "REJECTED")
    /\ Produce(Event("audit.log", "no client"), "loop", "dead")
    /\ Conclude
    /\ UNCHANGED <<log, hand, process, tallies>>

SimulateFill ==
    /\ At("execute") /\ mode = "paper"
    /\ pc' = "fill"
    /\ UNCHANGED <<log, hand, process, orders, outbox, history>>

MarkFilled ==
    /\ At("fill")
    /\ Transition(Order, "FILLED")
    /\ Announce("FILLED", "publish")
    /\ UNCHANGED <<log, hand, process, history>>

CountFill(tag) ==
    IF tag = "live"
    THEN liveFills' = [liveFills EXCEPT ![current] = @ + 1] /\ UNCHANGED paperFills
    ELSE paperFills' = [paperFills EXCEPT ![current] = @ + 1] /\ UNCHANGED liveFills

\* Mutant of PublishFill: the fill is tagged with the mode as it is now.
PublishFillRetagged ==
    /\ At("publish")
    /\ Produce(Event("fills", "fill"), "audit", "dead")
    /\ IF outbox' # outbox THEN CountFill(GetMode(Strategy))
       ELSE UNCHANGED <<paperFills, liveFills>>
    /\ UNCHANGED <<log, hand, process, orders, restarts, placed, late, fate>>

\* The fill is tagged with the mode read when the order was registered.
PublishFill ==
    /\ At("publish")
    /\ Produce(Event("fills", "fill"), "audit", "dead")
    /\ IF outbox' # outbox THEN CountFill(mode) ELSE UNCHANGED <<paperFills, liveFills>>
    /\ UNCHANGED <<log, hand, process, orders, restarts, placed, late, fate>>

AuditFill ==
    /\ At("audit")
    /\ Produce(Event("audit.log", "fill"), "loop", "dead")
    /\ Conclude
    /\ UNCHANGED <<log, hand, process, orders, tallies>>

-----------------------------------------------------------------------------
(* The other actors: the gateway, the mode API, the client library. *)

Publish ==
    /\ published < N
    /\ published' = published + 1
    /\ UNCHANGED <<position, committed, pc, hand, process, orders, outbox, history>>

\* Nothing is late for a strategy that is live again.
NotLateIn(modes) ==
    late' = [s \in Strategies |-> IF ModeIn(modes, s) = "live" THEN 0 ELSE late[s]]

ChangeMode(modes) ==
    /\ phase \in {"up", "stopping"}
    /\ overrides' = modes
    /\ NotLateIn(modes)
    /\ UNCHANGED <<log, pc, hand, phase, client, quoted, orders, outbox,
                   restarts, placed, paperFills, liveFills, fate>>

SetMode(s, m) ==
    /\ m = "live" => client
    /\ ChangeMode([overrides EXCEPT ![s] = m])

ResetMode(s) == ChangeMode([overrides EXCEPT ![s] = "none"])

\* enable.auto.commit: up to the message last handed out, handled or not.
AutoCommit ==
    /\ phase \in {"up", "stopping"} /\ current # 0
    /\ committed' = current
    /\ UNCHANGED <<published, position, pc, hand, process, orders, outbox, history>>

Send(topic) ==
    /\ Running
    /\ \E e \in outbox : e.topic = topic
    /\ outbox' = {e \in outbox : e.topic # topic}
    /\ UNCHANGED <<log, pc, hand, process, orders, history>>

-----------------------------------------------------------------------------
(* The end of a life. *)

\* SIGTERM or SIGINT sets the shutdown event.
Signal ==
    /\ phase = "up" /\ restarts < MaxRestarts
    /\ phase' = "stopping"
    /\ UNCHANGED <<log, pc, hand, client, overrides, quoted, orders, outbox, history>>

\* consumer.close commits.
CloseConsumer ==
    /\ phase = "stopping"
    /\ phase' = "closed"
    /\ committed' = IF current # 0 THEN current ELSE committed
    /\ UNCHANGED <<published, position, pc, hand, client, overrides, quoted,
                   orders, outbox, history>>

\* producer.flush, with a broker that answers within its timeout.
FlushProducer ==
    /\ phase = "closed"
    /\ phase' = "flushed"
    /\ outbox' = {}
    /\ UNCHANGED <<log, pc, hand, client, overrides, quoted, orders, history>>

Die ==
    /\ phase' = "down" /\ pc' = "loop"
    /\ outbox' = {} /\ tracker' = Unknown /\ quoted' = {}
    /\ current' = 0 /\ mode' = "paper"
    /\ UNCHANGED <<log, client, overrides, stored, history>>

\* The interpreter waits for the consume thread, then ends.
Exit == phase = "flushed" /\ pc \in {"loop", "dead"} /\ Die

Crash == Running /\ restarts < MaxRestarts /\ Die

\* A message that no life will be handed again, and none has handled, is
\* lost; "skipped" when it was passed over for want of a committed offset.
PassOver(reason) ==
    fate' = [k \in Messages |->
                 IF fate[k] = "pending" /\ k <= position' THEN reason ELSE fate[k]]

\* A life begins at the given place in the log.
Begin(from) ==
    /\ phase = "down"
    /\ phase' = "up"
    /\ restarts' = restarts + 1
    /\ position' = from
    /\ PassOver(IF committed = NoOffset THEN "skipped" ELSE "lost")
    /\ client' \in BOOLEAN /\ overrides' = EnvModes
    /\ NotLateIn(EnvModes)
    /\ UNCHANGED <<published, committed, pc, hand, quoted, orders, outbox,
                   placed, paperFills, liveFills>>

\* Mutant of Start: every life starts at the end of the log.
StartAtEnd == Begin(published)

\* Without a committed offset the group starts at the end of the log.
Start == Begin(IF committed = NoOffset THEN published ELSE committed)

-----------------------------------------------------------------------------
Handle ==
    \/ PollNothing \/ BlockOrder \/ SkipOrder \/ RegisterOrder \/ AcceptOrder
    \/ PlaceOrder \/ PlaceReturns \/ PlaceRaises \/ PlaceFailed
    \/ RejectWithoutClient \/ SimulateFill \/ MarkFilled
    \/ PublishFill \/ AuditFill

Environment ==
    \/ Publish \/ AutoCommit
    \/ \E s \in Strategies : ResetMode(s) \/ \E m \in Modes : SetMode(s, m)
    \/ \E e \in outbox : Send(e.topic)

Life == Signal \/ CloseConsumer \/ FlushProducer \/ Exit \/ Crash \/ Start

Next ==
    \/ BeginPoll \/ PollOrder \/ Handle
    \/ \E s \in Symbols : PollDepth(s)
    \/ Environment \/ Life

Spec == Init /\ [][Next]_vars

(* Fairness.  The consume loop keeps running: every call a handler makes   *)
(* returns (the exchange client bounds its attempts and their timeouts).   *)
(* poll serves both topics, so that depth messages cannot starve orders    *)
(* for ever.  The broker takes what the sender offers.  The main task      *)
(* completes a stop, and the container is restarted.                       *)
Fairness ==
    /\ WF_vars(BeginPoll) /\ SF_vars(PollOrder) /\ WF_vars(Handle)
    /\ \A topic \in {"order.status", "audit.log", "fills"} : WF_vars(Send(topic))
    /\ WF_vars(CloseConsumer) /\ WF_vars(FlushProducer) /\ WF_vars(Exit)
    /\ WF_vars(Start)

FairSpec == Spec /\ Fairness

-----------------------------------------------------------------------------
Statuses == {"SUBMITTED", "ACCEPTED", "PARTIALLY_FILLED",
             "FILLED", "REJECTED", "CANCELLED"}

Labels == {"loop", "poll", "check", "accept", "execute", "placing",
           "placeFailed", "fill", "publish", "audit", "dead"}

Events == [topic : {"order.status", "audit.log", "fills"},
           what : Statuses \cup {"blocked", "sent", "no client", "fill"},
           message : Messages, life : Nat]

(* The types of the variables. *)
TypeOK ==
    /\ published \in 0..N /\ position \in 0..published
    /\ committed \in {NoOffset} \cup 0..published
    /\ phase \in {"up", "stopping", "closed", "flushed", "down"}
    /\ pc \in Labels /\ current \in 0..N /\ mode \in Modes
    /\ client \in BOOLEAN /\ overrides \in [Strategies -> Modes \cup {"none"}]
    /\ quoted \subseteq Symbols
    /\ tracker \in [Orders -> Statuses \cup {"none"}]
    /\ stored \in [Orders -> Statuses \cup {"none"}]
    /\ outbox \subseteq Events
    /\ restarts \in Nat
    /\ placed \in [Messages -> Nat]
    /\ paperFills \in [Messages -> Nat]
    /\ liveFills \in [Messages -> Nat]
    /\ late \in [Strategies -> Nat]
    /\ fate \in [Messages -> {"pending", "handled", "lost", "skipped"}]

(* In one life of the process a message leads to one execution at most,    *)
(* either on the exchange or on paper, whatever crashes, commits and mode  *)
(* changes happen around it.  Redelivery after a crash is the only way to  *)
(* execute a message twice.                                                *)
ExecutedOncePerLife ==
    \A k \in Messages : placed[k] + paperFills[k] <= restarts + 1

(* No fill is reported as live that was not sent to the exchange, however  *)
(* the mode API is used while the order is being handled.                  *)
LiveFillWasPlaced == \A k \in Messages : liveFills[k] <= placed[k]

(* When an operator takes a strategy out of live mode, at most the order   *)
(* in hand still goes to the exchange.                                     *)
AtMostOneLatePlacement == \A s \in Strategies : late[s] <= 1

(* A life that ends with its offsets committed loses at most the order it  *)
(* had in hand: the next life starts behind the commit, which covers the   *)
(* message last handed out whether or not its handler is done with it.     *)
AtMostOneLostPerLife ==
    Cardinality({k \in Messages : fate[k] = "lost"}) <= restarts

(* A message whose offset was committed, by any life, is never handed out  *)
(* again, so that a redelivered order is one no commit covered.            *)
CommittedIsNotReplayed ==
    [][pc = "poll" /\ pc' = "check" => current' > committed]_vars

\* The order tracker as the state machine that its docstring draws.
StateMachine == INSTANCE OrderStateMachine WITH status <- tracker

(* OrderTracker implements the state machine of its docstring. *)
ImplementsStateMachine == StateMachine!Spec

(* Every message of the orders topic is eventually handled to one of its   *)
(* ends (blocked, skipped without a quote, rejected, filled and audited)   *)
(* through stops, crashes and redelivery.  What can keep it from that is   *)
(* named: a restart behind the commit that covered it in hand (one a life, *)
(* see above), a restart without an offset, or a full queue that ends the  *)
(* consume thread of a process nobody restarts.                            *)
EveryOrderIsHandled ==
    \A k \in Messages :
        published >= k ~> \/ fate[k] = "handled"
                          \/ fate[k] \in {"lost", "skipped"}
                          \/ [](pc = "dead")

-----------------------------------------------------------------------------
(* What the code does not keep (README, "Where code and text disagree"). *)

(* Between two messages no order is open: each was filled or rejected.     *)
NoOpenOrderAtRest ==
    pc = "loop" => \A o \in Orders : tracker[o] \notin {"SUBMITTED", "ACCEPTED"}

(* A stop on a signal flushes the producer: no event is lost.              *)
StopLosesNothing == [][Exit => outbox = {}]_vars

(* FILLED is a terminal state: an order in it stays in it.                 *)
FilledIsFinal ==
    [][\A o \in Orders : stored[o] = "FILLED" => stored'[o] = "FILLED"]_vars

\* Lives that end on a signal only, after the flush.
GracefulSpec == Init /\ [][Next /\ (phase' = "down" => phase = "flushed")]_vars

=============================================================================
