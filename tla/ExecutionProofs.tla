-------------------------- MODULE ExecutionProofs ---------------------------
(***************************************************************************)
(* Theorems about Execution, for every number of messages, restarts and    *)
(* queue places, and every assignment of orders, strategies and symbols.   *)
(***************************************************************************)
EXTENDS Execution, FiniteSetTheorems, TLAPS

Handling == Labels \ {"loop", "poll", "dead"}

\* Where the consume loop stands in the log.
Offsets ==
    /\ phase = "down" => pc = "loop" /\ current = 0
    /\ phase # "down" => committed <= position
    /\ current # 0 => current = position
    /\ pc \in Handling => current # 0

Shape == TypeOK /\ Offsets

Topics == {"order.status", "audit.log", "fills"}

-----------------------------------------------------------------------------
(* Helpers of the actions. *)

LEMMA ProduceKeepsType ==
    ASSUME NEW event \in Events, NEW next, NEW otherwise,
           outbox \subseteq Events, Produce(event, next, otherwise)
    PROVE  outbox' \subseteq Events /\ pc' \in {next, otherwise}
BY DEF Produce

LEMMA NonzeroIsMessage == ASSUME current \in 0..N,
   current # 0 PROVE current \in Messages
BY ExecutionAssumption DEF ExecutionAssumption, Messages

LEMMA EventHasType ==
    ASSUME NEW topic \in Topics,
           NEW what \in Statuses \cup {"blocked", "sent", "no client", "fill"},
           TypeOK, current # 0
    PROVE  Event(topic, what) \in Events
<1>1. current \in 0..N /\ restarts \in Nat
  BY DEF TypeOK
<1>2. current \in Messages
  BY <1>1, NonzeroIsMessage
<1> QED BY <1>1, <1>2 DEF Event, Events, Topics

LEMMA SetStatusKeepsType ==
    ASSUME NEW o \in Orders, NEW status \in Statuses, TypeOK, SetStatus(o, status)
    PROVE  /\ tracker' \in [Orders -> Statuses \cup {"none"}]
           /\ stored' \in [Orders -> Statuses \cup {"none"}]
BY DEF SetStatus, TypeOK

LEMMA TransitionKeepsType ==
    ASSUME NEW o \in Orders, NEW status \in Statuses, TypeOK, Transition(o,
       status)
    PROVE  /\ tracker' \in [Orders -> Statuses \cup {"none"}]
           /\ stored' \in [Orders -> Statuses \cup {"none"}]
BY SetStatusKeepsType DEF Transition, TypeOK, orders

LEMMA AnnounceKeepsType ==
    ASSUME NEW status \in Statuses, NEW next, TypeOK, current # 0,
           Announce(status, next)
    PROVE  outbox' \subseteq Events /\ pc' \in {next, "dead"}
BY ProduceKeepsType, EventHasType DEF Announce, TypeOK, Topics

LEMMA ConcludeKeepsType ==
    ASSUME TypeOK, Conclude
    PROVE  fate' \in [Messages -> {"pending", "handled", "lost", "skipped"}]
BY DEF TypeOK, Conclude

LEMMA PassOverKeepsType ==
    ASSUME NEW reason \in {"lost", "skipped"}, TypeOK, PassOver(reason)
    PROVE  fate' \in [Messages -> {"pending", "handled", "lost", "skipped"}]
BY DEF TypeOK, PassOver

LEMMA InHandIsTyped ==
    ASSUME Shape, pc \in Handling
    PROVE  /\ current \in Messages /\ Order \in Orders
           /\ Strategy \in Strategies /\ GetMode(Strategy) \in Modes
BY ExecutionAssumption
   DEF Shape, TypeOK, Offsets, Messages, Order, Strategy, GetMode, ModeIn, Modes

-----------------------------------------------------------------------------
(* Types, and where the loop stands in the log. *)

(* The invariant holds in the initial states. *)
LEMMA ShapeInit == Init => Shape
BY ExecutionAssumption
   DEF Init, Shape, TypeOK, Offsets, Unknown, Zero, NoOffset, Labels, Modes,
       Messages, Handling

(* Every step keeps it. *)
LEMMA ShapeNext == Shape /\ [Next]_vars => Shape'
<1> SUFFICES ASSUME Shape, [Next]_vars PROVE Shape'
    OBVIOUS
<1> USE DEF Shape
<1>a. CASE PollNothing \/ BeginPoll \/ SkipOrder \/ PlaceRaises \/ SimulateFill
  <2>1. fate' \in [Messages -> {"pending", "handled", "lost", "skipped"}]
    BY <1>a, ConcludeKeepsType DEF PollNothing, BeginPoll, SkipOrder, PlaceRaises,
       SimulateFill, TypeOK, history
  <2> QED
    BY <1>a, <2>1 DEF PollNothing, BeginPoll, SkipOrder, PlaceRaises,
       SimulateFill,
       At, Running, TypeOK, Offsets, log, hand, process, orders, history, tallies,
       Labels, Handling
<1>b. CASE PollOrder
  BY <1>b, ExecutionAssumption DEF PollOrder, Polling, At, TypeOK, Offsets,
     process, orders, history, tallies,
     Labels, Handling, NoOffset
<1>c. CASE BlockOrder \/ PlaceReturns \/ PublishFill \/ AuditFill
  <2>1. pc \in Handling /\ current # 0
    BY <1>c DEF BlockOrder, PlaceReturns, PublishFill, AuditFill, At, Offsets,
       Handling, Labels
  <2>2. current \in Messages
    BY <2>1, InHandIsTyped
  <2>3. /\ outbox' \subseteq Events
        /\ pc' \in {"loop", "dead", "fill", "placeFailed", "audit"}
    BY <1>c, <2>1, EventHasType, ProduceKeepsType
       DEF BlockOrder, PlaceReturns, PublishFill, AuditFill, TypeOK, Topics
  <2>4. /\ paperFills' \in [Messages -> Nat]
        /\ liveFills' \in [Messages -> Nat]
        /\ fate' \in [Messages -> {"pending", "handled", "lost", "skipped"}]
    BY <1>c, <2>2, ConcludeKeepsType DEF BlockOrder, PlaceReturns, PublishFill,
       AuditFill, CountFill,
       TypeOK, history, tallies
  <2>5. /\ UNCHANGED <<log, hand, process, orders, restarts, placed, late>>
        /\ phase # "down"
    BY <1>c DEF BlockOrder, PlaceReturns, PublishFill, AuditFill, history,
       tallies, At, Running
  <2> QED
    BY <2>1, <2>3, <2>4, <2>5 DEF TypeOK, Offsets, log, hand, process, orders,
       Labels, Handling
<1>d. CASE RegisterOrder \/ AcceptOrder \/ PlaceFailed \/ RejectWithoutClient
           \/ MarkFilled
  <2>1. pc \in Handling /\ current # 0 /\ phase # "down"
    BY <1>d DEF RegisterOrder, AcceptOrder, PlaceFailed, RejectWithoutClient,
       MarkFilled, At, Running, Offsets, Handling, Labels
  <2>2. /\ Order \in Orders /\ Strategy \in Strategies /\ GetMode(Strategy) \in Modes
    BY <2>1, InHandIsTyped
  <2>3. /\ tracker' \in [Orders -> Statuses \cup {"none"}]
        /\ stored' \in [Orders -> Statuses \cup {"none"}]
    BY <1>d, <2>2, SetStatusKeepsType, TransitionKeepsType
       DEF RegisterOrder, AcceptOrder, PlaceFailed, RejectWithoutClient,
           MarkFilled, Statuses
  <2>4. /\ outbox' \subseteq Events
        /\ pc' \in {"accept", "execute", "loop", "dead", "publish"}
    <3>1. CASE RegisterOrder \/ PlaceFailed
      BY <3>1 DEF RegisterOrder, PlaceFailed, TypeOK
    <3>2. CASE AcceptOrder \/ MarkFilled
      BY <3>2, <2>1, AnnounceKeepsType DEF AcceptOrder, MarkFilled, Statuses
    <3>3. CASE RejectWithoutClient
      BY <3>3, <2>1, EventHasType, ProduceKeepsType
         DEF RejectWithoutClient, TypeOK, Topics
    <3> QED BY <1>d, <3>1, <3>2, <3>3
  <2>5. /\ UNCHANGED <<log, current, process, tallies>> /\ mode' \in Modes
        /\ fate' \in [Messages -> {"pending", "handled", "lost", "skipped"}]
    BY <1>d, <2>2, ConcludeKeepsType DEF history, RegisterOrder, AcceptOrder,
       PlaceFailed, RejectWithoutClient,
       MarkFilled, hand, TypeOK
  <2> QED
    BY <2>1, <2>3, <2>4, <2>5 DEF TypeOK, Offsets, log, process, history, tallies,
       Labels, Handling
<1>e. CASE PlaceOrder
  <2>1. current \in Messages /\ Strategy \in Strategies
    BY <1>e, InHandIsTyped DEF PlaceOrder, At, Handling, Labels
  <2> QED
    BY <1>e, <2>1 DEF PlaceOrder, At, Running, TypeOK, Offsets, log, hand,
       process, orders, Labels, Handling
<1>f. CASE \E s \in Symbols : PollDepth(s)
  BY <1>f DEF PollDepth, Polling, At, Running, TypeOK, Offsets, log, hand,
     orders, history, tallies, Labels, Handling
<1>g. CASE Publish \/ AutoCommit \/ \E topic \in Topics : Send(topic)
  <2>1. CASE Publish
    BY <2>1, ExecutionAssumption DEF Publish, NoOffset, TypeOK, Offsets, hand,
       process, orders, history, tallies
  <2>2. CASE AutoCommit
    BY <2>2 DEF AutoCommit, TypeOK, Offsets, hand, process, orders, history,
       tallies
  <2>3. CASE \E topic \in Topics : Send(topic)
    BY <2>3 DEF Send, TypeOK, Offsets, log, hand, process, orders, history,
       tallies
  <2> QED BY <1>g, <2>1, <2>2, <2>3
<1>h. CASE \E modes \in [Strategies -> Modes \cup {"none"}] : ChangeMode(modes)
  BY <1>h DEF ChangeMode, NotLateIn, TypeOK, Offsets, log, hand, orders
<1>i. CASE Signal \/ CloseConsumer \/ FlushProducer
  <2>1. CASE Signal \/ FlushProducer
    BY <2>1 DEF Signal, FlushProducer, TypeOK, Offsets, log, hand, orders,
       history, tallies
  <2>2. CASE CloseConsumer
    BY <2>2 DEF CloseConsumer, TypeOK, Offsets, hand, orders, history, tallies
  <2> QED BY <1>i, <2>1, <2>2
<1>j. CASE Die
  BY <1>j, ExecutionAssumption DEF Die, NoOffset, TypeOK, Offsets, log,
     history, tallies, Unknown, Labels, Handling, Modes
<1>k. CASE Start
  <2>1. fate' \in [Messages -> {"pending", "handled", "lost", "skipped"}]
    BY <1>k, PassOverKeepsType DEF Start, Begin
  <2> QED
    BY <1>k, <2>1, ExecutionAssumption DEF Start, Begin, NotLateIn, TypeOK,
       Offsets, hand,
     orders, NoOffset, Handling
<1>l. CASE UNCHANGED vars
  BY <1>l DEF vars, TypeOK, Offsets, log, hand, orders, history, tallies
<1>m. Environment => \/ Publish \/ AutoCommit
                     \/ \E topic \in Topics : Send(topic)
                     \/ \E modes \in [Strategies -> Modes \cup {"none"}] :
                            ChangeMode(modes)
  <2>1. \A e \in outbox : e.topic \in Topics
    BY DEF TypeOK, Events, Topics
  <2>2. \A s \in Strategies : \A m \in Modes \cup {"none"} :
           [overrides EXCEPT ![s] = m] \in [Strategies -> Modes \cup {"none"}]
    BY DEF TypeOK
  <2> QED BY <2>1, <2>2 DEF Environment, SetMode, ResetMode
<1> QED
  BY <1>a, <1>b, <1>c, <1>d, <1>e, <1>f, <1>g, <1>h, <1>i, <1>j, <1>k, <1>l, <1>m
     DEF Next, Handle, Life, Exit, Crash

LEMMA ShapeAlways == Spec => []Shape
BY ShapeInit, ShapeNext, PTL DEF Spec

(* TypeOK holds in every state. *)
THEOREM TypeCorrect == Spec => []TypeOK
BY ShapeAlways, PTL DEF Shape

-----------------------------------------------------------------------------
(* One execution in a life: a message that was not handed out in this      *)
(* life, or that is in hand and not executed yet, is behind by one.        *)

Undone(k) ==
    \/ phase # "down" /\ k > position
    \/ k = current /\ pc \in {"check", "accept", "execute"}
    \/ k = current /\ pc \in {"fill", "publish"} /\ mode = "paper"

Executions ==
    \A k \in Messages :
        /\ placed[k] + paperFills[k] <= restarts + 1
        /\ Undone(k) => placed[k] + paperFills[k] <= restarts

\* A message in hand that was placed is not yet counted as filled.
Fills ==
    \A k \in Messages :
        /\ liveFills[k] <= placed[k]
        /\ k = current /\ pc \in {"placing", "fill", "publish"} /\ mode = "live"
              => liveFills[k] < placed[k]

PlacingIsLive == pc = "placing" => mode = "live"

Done == Executions /\ Fills /\ PlacingIsLive

counts == <<placed, paperFills, liveFills, restarts>>

LEMMA DoneInit == Init => Done
BY ExecutionAssumption
   DEF Init, Done, Executions, Fills, PlacingIsLive, Undone, Zero, Messages,
       ExecutionAssumption

LEMMA CountsAreTyped ==
    ASSUME Shape
    PROVE  /\ placed \in [Messages -> Nat] /\ paperFills \in [Messages -> Nat]
           /\ liveFills \in [Messages -> Nat] /\ restarts \in Nat
           /\ position \in Nat /\ current \in Nat /\ mode \in Modes
BY ExecutionAssumption DEF Shape, TypeOK, ExecutionAssumption

LEMMA MessagesAreNat == Messages \subseteq Nat \ {0}
BY ExecutionAssumption DEF Messages, ExecutionAssumption

LEMMA DoneNext == Shape /\ Done /\ [Next]_vars => Done'
<1> SUFFICES ASSUME Shape, Done, [Next]_vars PROVE Done'
    OBVIOUS
<1> USE CountsAreTyped, MessagesAreNat
<1> USE DEF Done, Executions, Fills, PlacingIsLive, Undone, counts
<1>1. ASSUME UNCHANGED <<counts, position, current, mode, phase>>,
             pc' \in {"loop", "poll", "dead", "placeFailed", "audit"}
      PROVE  Done'
  BY <1>1
<1>2. ASSUME UNCHANGED <<counts, position, current, mode, pc>>,
             phase' = phase \/ phase # "down"
      PROVE  Done'
  BY <1>2
<1>a. CASE BeginPoll \/ PollNothing \/ SkipOrder \/ PlaceRaises \/ PlaceFailed
           \/ \E s \in Symbols : PollDepth(s)
  BY <1>a, <1>1 DEF BeginPoll, PollNothing, SkipOrder, PlaceRaises, PlaceFailed,
     PollDepth, log, hand, process, history, tallies
<1>b. CASE BlockOrder \/ RejectWithoutClient \/ AuditFill
  BY <1>b, <1>1 DEF BlockOrder, RejectWithoutClient, AuditFill, Produce,
     log, hand, process, history, tallies
<1>c. CASE PollOrder
  BY <1>c DEF PollOrder, Polling, At, Running, process, history, tallies
<1>d. CASE RegisterOrder
  BY <1>d DEF RegisterOrder, At, log, process, history, tallies
<1>e. CASE AcceptOrder
  <2>1. pc' \in {"execute", "dead"}
    BY <1>e DEF AcceptOrder, Announce, Produce
  <2> QED
    BY <1>e, <2>1 DEF AcceptOrder, At, log, hand, process, history, tallies
<1>f. CASE PlaceOrder
  <2>1. /\ pc = "execute" /\ pc' = "placing" /\ mode = "live"
        /\ UNCHANGED <<position, current, mode, phase, restarts,
                       paperFills, liveFills>>
        /\ placed' = [placed EXCEPT ![current] = @ + 1]
    BY <1>f DEF PlaceOrder, At, log, hand, process
  <2>2. ASSUME NEW k \in Messages
        PROVE  /\ placed[k] \in Nat /\ paperFills[k] \in Nat /\ liveFills[k] \in Nat
               /\ placed'[k] = IF k = current THEN placed[k] + 1 ELSE placed[k]
    BY <2>1
  <2>3. current <= position
    BY DEF Shape, Offsets
  <2> QED BY <2>1, <2>2, <2>3
<1>g. CASE PlaceReturns
  <2>1. pc' \in {"fill", "placeFailed"}
    BY <1>g DEF PlaceReturns, Produce
  <2> QED
    BY <1>g, <2>1 DEF PlaceReturns, At, log, hand, process, history, tallies
<1>h. CASE SimulateFill
  BY <1>h DEF SimulateFill, At, log, hand, process, history, tallies
<1>i. CASE MarkFilled
  <2>1. pc' \in {"publish", "dead"}
    BY <1>i DEF MarkFilled, Announce, Produce
  <2> QED
    BY <1>i, <2>1 DEF MarkFilled, At, log, hand, process, history, tallies
<1>j. CASE PublishFill
  <2>1. pc' \in {"audit", "dead"} /\ pc = "publish"
    BY <1>j DEF PublishFill, Produce, At
  <2>2. \/ UNCHANGED <<paperFills, liveFills>>
        \/ CountFill(mode)
    BY <1>j DEF PublishFill
  <2>3. UNCHANGED <<position, current, mode, phase, restarts, placed>>
    BY <1>j DEF PublishFill, log, hand, process
  <2>4. CASE UNCHANGED <<paperFills, liveFills>>
    BY <2>1, <2>3, <2>4
  <2>5. CASE CountFill(mode)
    <3>1. ASSUME NEW k \in Messages
          PROVE  /\ placed[k] \in Nat /\ paperFills[k] \in Nat /\ liveFills[k] \in Nat
                 /\ paperFills'[k] = IF k = current /\ mode = "paper"
                                     THEN paperFills[k] + 1 ELSE paperFills[k]
                 /\ liveFills'[k] = IF k = current /\ mode = "live"
                                    THEN liveFills[k] + 1 ELSE liveFills[k]
      BY <2>5 DEF CountFill, Modes
    <3>2. current <= position
      BY DEF Shape, Offsets
    <3> QED BY <2>1, <2>3, <3>1, <3>2
  <2> QED BY <2>2, <2>4, <2>5
<1>k. CASE Environment \/ Signal \/ CloseConsumer \/ FlushProducer
  BY <1>k, <1>2 DEF Environment, Publish, AutoCommit, Send, SetMode, ResetMode,
     ChangeMode, Signal, CloseConsumer, FlushProducer, log, hand, process,
        history, tallies
<1>l. CASE Die
  BY <1>l DEF Die, log, history, tallies
<1>m. CASE Start
  <2>1. pc = "loop"
    BY <1>m DEF Start, Begin, Shape, Offsets
  <2>2. /\ UNCHANGED <<placed, paperFills, liveFills, pc, current, mode>>
        /\ restarts' = restarts + 1
    BY <1>m DEF Start, Begin, hand
  <2> QED BY <2>1, <2>2
<1>n. CASE UNCHANGED vars
  BY <1>n, <1>2 DEF vars, log, hand, history, tallies
<1> QED
  BY <1>a, <1>b, <1>c, <1>d, <1>e, <1>f, <1>g, <1>h, <1>i, <1>j, <1>k, <1>l,
     <1>m, <1>n DEF Next, Handle, Life, Exit, Crash

(* A message leads to one execution at most in each life of the process.   *)
THEOREM OneExecutionPerLife == Spec => []ExecutedOncePerLife
<1>1. Done => ExecutedOncePerLife
  BY DEF Done, Executions, ExecutedOncePerLife
<1> QED
  BY <1>1, DoneInit, DoneNext, ShapeAlways, PTL DEF Spec

(* Every fill reported as live was sent to the exchange.                   *)
THEOREM LiveFillsArePlaced == Spec => []LiveFillWasPlaced
<1>1. Done => LiveFillWasPlaced
  BY DEF Done, Fills, LiveFillWasPlaced
<1> QED
  BY <1>1, DoneInit, DoneNext, ShapeAlways, PTL DEF Spec

-----------------------------------------------------------------------------
(* Mode changes: nothing is late for a live strategy, nor for the order in *)
(* hand until it is placed.                                                *)

Lateness ==
    /\ \A s \in Strategies :
          late[s] <= 1 /\ (GetMode(s) = "live" => late[s] = 0)
    /\ pc \in {"accept", "execute"} /\ mode = "live" => late[Strategy] = 0

LEMMA LatenessInit == Init => Lateness
BY DEF Init, Lateness

LEMMA LatenessNext == Shape /\ Lateness /\ [Next]_vars => Lateness'
<1> SUFFICES ASSUME Shape, Lateness, [Next]_vars PROVE Lateness'
    OBVIOUS
<1> USE DEF Lateness, GetMode, ModeIn, Strategy, Order
<1>1. ASSUME UNCHANGED <<late, overrides>>, pc' \notin {"accept", "execute"}
      PROVE  Lateness'
  BY <1>1
<1>2. ASSUME UNCHANGED <<late, overrides, pc, mode, current>>
      PROVE  Lateness'
  BY <1>2
<1>a. CASE BeginPoll \/ PollNothing \/ SkipOrder \/ PlaceRaises \/ PlaceFailed
           \/ PollOrder \/ SimulateFill \/ \E s \in Symbols : PollDepth(s)
  BY <1>a, <1>1 DEF BeginPoll, PollNothing, SkipOrder, PlaceRaises, PlaceFailed,
     PollOrder, SimulateFill, PollDepth, process, history, tallies
<1>b. CASE BlockOrder \/ RejectWithoutClient \/ AuditFill \/ PlaceReturns
           \/ MarkFilled \/ PublishFill
  <2>1. pc' \in {"loop", "dead", "fill", "placeFailed", "publish", "audit"}
    BY <1>b DEF BlockOrder, RejectWithoutClient, AuditFill, PlaceReturns,
       MarkFilled, PublishFill, Announce, Produce
  <2>2. UNCHANGED <<late, overrides>>
    BY <1>b DEF BlockOrder, RejectWithoutClient, AuditFill, PlaceReturns,
       MarkFilled, PublishFill, process, history, tallies
  <2> QED BY <2>1, <2>2, <1>1
<1>c. CASE RegisterOrder
  <2>1. Strategy \in Strategies
    BY <1>c, InHandIsTyped DEF RegisterOrder, At, Handling, Labels
  <2> QED BY <1>c, <2>1 DEF RegisterOrder, process, history, tallies
<1>d. CASE AcceptOrder
  <2>1. pc' \in {"execute", "dead"} /\ pc = "accept"
    BY <1>d DEF AcceptOrder, Announce, Produce, At
  <2> QED BY <1>d, <2>1 DEF AcceptOrder, hand, process, history, tallies
<1>e. CASE PlaceOrder
  <2>1. Strategy \in Strategies
    BY <1>e, InHandIsTyped DEF PlaceOrder, At, Handling, Labels
  <2>2. late[Strategy] = 0 /\ pc' = "placing"
    BY <1>e DEF PlaceOrder, At
  <2>3. overrides' = overrides /\ late \in [Strategies -> Nat]
    BY <1>e DEF PlaceOrder, process, Shape, TypeOK
  <2>4. CASE GetMode(Strategy) = "live"
    BY <1>e, <2>2, <2>3, <2>4 DEF PlaceOrder
  <2>5. CASE GetMode(Strategy) # "live"
    <3>1. late' = [late EXCEPT ![Strategy] = @ + 1]
      BY <1>e, <2>5 DEF PlaceOrder
    <3>2. \A s \in Strategies : late'[s] = IF s = Strategy THEN 1 ELSE late[s]
      BY <2>2, <2>3, <3>1
    <3> QED BY <2>2, <2>3, <2>5, <3>2
  <2> QED BY <2>4, <2>5
<1>f. CASE \E modes : ChangeMode(modes)
  <2> PICK modes : ChangeMode(modes)
    BY <1>f
  <2>1. /\ overrides' = modes /\ UNCHANGED <<pc, mode, current>>
        /\ late' = [s \in Strategies |-> IF ModeIn(modes,
           s) = "live" THEN 0 ELSE late[s]]
    BY DEF ChangeMode, NotLateIn, hand
  <2>2. pc \in {"accept", "execute"} => Strategy \in Strategies
    BY InHandIsTyped DEF Handling, Labels
  <2> QED BY <2>1, <2>2
<1>g. CASE Start
  <2>1. /\ overrides' = EnvModes
        /\ late' = [s \in Strategies |-> IF ModeIn(EnvModes,
           s) = "live" THEN 0 ELSE late[s]]
    BY <1>g DEF Start, Begin, NotLateIn
  <2>2. pc' = "loop"
    BY <1>g DEF Start, Begin, Shape, Offsets
  <2> QED BY <2>1, <2>2
<1>h. CASE Die
  BY <1>h, <1>1 DEF Die, history, tallies
<1>i. CASE Publish \/ AutoCommit \/ (\E topic : Send(topic))
           \/ Signal \/ CloseConsumer \/ FlushProducer \/ UNCHANGED vars
  BY <1>i, <1>2 DEF Publish, AutoCommit, Send, Signal, CloseConsumer,
     FlushProducer, vars, hand, process, history, tallies
<1> QED
  BY <1>a, <1>b, <1>c, <1>d, <1>e, <1>f, <1>g, <1>h, <1>i
     DEF Next, Handle, Environment, Life, SetMode, ResetMode, Exit, Crash

(* At most the order in hand is placed after its strategy leaves live mode. *)
THEOREM LatePlacementsAreBounded == Spec => []AtMostOneLatePlacement
<1>1. Lateness => AtMostOneLatePlacement
  BY DEF Lateness, AtMostOneLatePlacement
<1> QED
  BY <1>1, LatenessInit, LatenessNext, ShapeAlways, PTL DEF Spec

-----------------------------------------------------------------------------
(* What becomes of a message.  While a life runs, the message in hand is   *)
(* the only one, of those it was handed or that were passed over, without  *)
(* a fate; so one message at most is without a fate when a commit covers   *)
(* it, and a new life loses that one at most.                              *)

Fated(what) == {k \in Messages : fate[k] = what}

InHandOnly ==
    phase # "down" => \A k \in Fated("pending") :
        k <= position => k = current /\ pc \notin {"loop", "poll"}

OneUncovered ==
    \A j, k \in Fated("pending") : j <= committed /\ k <= committed => j = k

LossesCounted == Cardinality(Fated("lost")) <= restarts

Fates == InHandOnly /\ OneUncovered /\ LossesCounted

LEMMA FatesAreTyped ==
    ASSUME Shape
    PROVE  /\ position \in Nat /\ current \in Nat /\ committed \in Int
           /\ restarts \in Nat
           /\ fate \in [Messages -> {"pending", "handled", "lost", "skipped"}]
           /\ phase # "down" => committed <= position
           /\ pc \in Handling => current \in Messages /\ current = position
BY ExecutionAssumption, InHandIsTyped
   DEF Shape, TypeOK, Offsets, NoOffset, ExecutionAssumption

LEMMA FatesInit == Init => Fates
<1> SUFFICES ASSUME Init PROVE Fates
    OBVIOUS
<1>1. Fated("lost") = {}
  BY DEF Init, Fated
<1>2. Cardinality(Fated("lost")) = 0
  BY <1>1, FS_EmptySet
<1>3. Fated("pending") \subseteq Nat \ {0}
  BY MessagesAreNat DEF Fated
<1> QED
  BY <1>2, <1>3 DEF Init, Fates, InHandOnly, OneUncovered, LossesCounted, NoOffset

\* A step that decides no fate and hands nothing out.
LEMMA QuietStepKeepsFates ==
    ASSUME Shape, Fates, UNCHANGED <<fate, position, current, restarts>>,
           phase' # "down" => phase # "down",
           pc' \in {"loop", "poll"} => pc \in {"loop", "poll"},
           committed' = committed \/ (phase # "down" /\ committed' = current
                                      /\ current <= position)
    PROVE  Fates'
<1>1. \A what : Fated(what)' = Fated(what)
  BY DEF Fated
<1>2. InHandOnly'
  BY <1>1 DEF Fates, InHandOnly
<1>3. OneUncovered'
  <2>1. CASE committed' = committed
    BY <1>1, <2>1 DEF Fates, OneUncovered
  <2>2. CASE phase # "down" /\ committed' = current /\ current <= position
    <3>1. \A k \in Fated("pending") : k \in Nat
      BY MessagesAreNat DEF Fated
    <3> QED
      BY <1>1, <2>2, <3>1, FatesAreTyped DEF Fates, OneUncovered, InHandOnly
  <2> QED BY <2>1, <2>2
<1> QED BY <1>1, <1>2, <1>3 DEF Fates, LossesCounted

\* The step that ends a handler.
LEMMA ConclusionKeepsFates ==
    ASSUME Shape, Fates, Conclude, pc \in Handling, pc' \in {"loop", "dead"},
           UNCHANGED <<log, current, restarts, phase>>
    PROVE  Fates'
<1>1. CASE pc' = "loop"
  <2>1. Fated("pending")' = Fated("pending") \ {current}
    BY <1>1, FatesAreTyped DEF Fated, Conclude
  <2>2. Fated("lost")' \subseteq Fated("lost")
    BY <1>1, FatesAreTyped DEF Fated, Conclude
  <2>3. Cardinality(Fated("lost")') <= Cardinality(Fated("lost"))
        /\ Cardinality(Fated("lost")') \in Nat /\ Cardinality(Fated("lost")) \in Nat
    <3>1. IsFiniteSet(Messages)
      BY ExecutionAssumption, FS_Interval DEF Messages, ExecutionAssumption
    <3>2. IsFiniteSet(Fated("lost"))
      BY <3>1, FS_Subset DEF Fated
    <3> QED BY <2>2, <3>2, FS_Subset, FS_CardinalityType
  <2>4. OneUncovered'
    BY <2>1 DEF Fates, OneUncovered, log
  <2>5. InHandOnly'
    BY <2>1 DEF Fates, InHandOnly, log
  <2>6. LossesCounted'
    BY <2>3, FatesAreTyped DEF Fates, LossesCounted
  <2> QED BY <2>4, <2>5, <2>6 DEF Fates
<1>2. CASE pc' # "loop"
  <2>1. fate' = fate
    BY <1>2 DEF Conclude
  <2>2. \A what : Fated(what)' = Fated(what)
    BY <2>1 DEF Fated
  <2>3. InHandOnly'
    BY <1>2, <2>2 DEF Fates, InHandOnly, log
  <2> QED BY <2>2, <2>3 DEF Fates, OneUncovered, LossesCounted, log
<1> QED BY <1>1, <1>2

\* A new life settles what is behind the place where it begins.
LEMMA StartKeepsFates == ASSUME Shape, Fates, Start PROVE Fates'
<1> DEFINE from == IF committed = NoOffset THEN published ELSE committed
           reason == IF committed = NoOffset THEN "skipped" ELSE "lost"
           L == Fated("lost")
<1>1. /\ position' = from /\ committed' = committed /\ restarts' = restarts + 1
      /\ current' = current /\ pc' = pc
      /\ fate' = [k \in Messages |-> IF fate[k] = "pending" /\ k <= from
                                     THEN reason ELSE fate[k]]
  BY DEF Start, Begin, PassOver, hand
<1>2. committed <= from /\ from \in Int
  BY ExecutionAssumption DEF Shape, TypeOK, NoOffset, ExecutionAssumption
<1>3. Fated("pending")' = {k \in Fated("pending") : ~(k <= from)}
  BY <1>1 DEF Fated
<1>4. InHandOnly'
  BY <1>1, <1>3 DEF InHandOnly
<1>5. OneUncovered'
  BY <1>1, <1>3 DEF Fates, OneUncovered
<1>6. \E j : L' \subseteq L \cup {j}
  <2>1. CASE committed = NoOffset
    BY <1>1, <2>1 DEF Fated
  <2>2. CASE committed # NoOffset
    <3>1. L' = L \cup {k \in Fated("pending") : k <= committed}
      BY <1>1, <2>2, FatesAreTyped DEF Fated
    <3>2. CASE \E k \in Fated("pending") : k <= committed
      BY <3>1, <3>2 DEF Fates, OneUncovered
    <3>3. CASE ~\E k \in Fated("pending") : k <= committed
      BY <3>1, <3>3
    <3> QED BY <3>2, <3>3
  <2> QED BY <2>1, <2>2
<1>7. Cardinality(L') <= Cardinality(L) + 1
      /\ Cardinality(L) \in Nat /\ Cardinality(L') \in Nat
  <2> PICK j : L' \subseteq L \cup {j}
    BY <1>6
  <2>1. IsFiniteSet(Messages)
    BY ExecutionAssumption, FS_Interval DEF Messages, ExecutionAssumption
  <2>2. IsFiniteSet(L)
    BY <2>1, FS_Subset DEF Fated
  <2>3. IsFiniteSet(L \cup {j}) /\ Cardinality(L \cup {j}) <= Cardinality(L) + 1
        /\ Cardinality(L) \in Nat /\ Cardinality(L \cup {j}) \in Nat
    <3>1. IsFiniteSet(L \cup {j}) /\ (\/ Cardinality(L \cup {j}) = Cardinality(L)
                                      \/ Cardinality(L \cup {j}) = Cardinality(L) + 1)
      BY <2>2, FS_AddElement
    <3>2. Cardinality(L) \in Nat /\ Cardinality(L \cup {j}) \in Nat
      BY <2>2, <3>1, FS_CardinalityType
    <3> QED BY <3>1, <3>2
  <2>4. Cardinality(L') <= Cardinality(L \cup {j}) /\ Cardinality(L') \in Nat
    BY <2>3, FS_Subset, FS_CardinalityType
  <2> QED BY <2>3, <2>4
<1>8. LossesCounted'
  <2>1. restarts \in Nat /\ Cardinality(L) <= restarts
    BY FatesAreTyped DEF Fates, LossesCounted
  <2>2. Cardinality(L') <= restarts'
    BY <1>1, <1>7, <2>1
  <2> QED BY <2>2 DEF LossesCounted
<1> QED BY <1>4, <1>5, <1>8 DEF Fates

LEMMA FatesNext == Shape /\ Fates /\ [Next]_vars => Fates'
<1> SUFFICES ASSUME Shape, Fates, [Next]_vars PROVE Fates'
    OBVIOUS
<1>a. CASE BlockOrder \/ SkipOrder \/ PlaceFailed \/ RejectWithoutClient \/ AuditFill
  <2>1. /\ Conclude /\ pc \in Handling /\ pc' \in {"loop", "dead"}
        /\ UNCHANGED <<log, current, restarts, phase>>
    BY <1>a DEF BlockOrder, SkipOrder, PlaceFailed, RejectWithoutClient,
       AuditFill,
       Produce, At, Handling, Labels, hand, process, tallies
  <2> QED BY <2>1, ConclusionKeepsFates
<1>b. CASE RegisterOrder \/ AcceptOrder \/ PlaceOrder \/ PlaceReturns \/ PlaceRaises
           \/ SimulateFill \/ MarkFilled \/ PublishFill
  <2>1. pc' \notin {"loop", "poll"}
    BY <1>b DEF RegisterOrder, AcceptOrder, PlaceOrder, PlaceReturns, PlaceRaises,
       SimulateFill, MarkFilled, PublishFill, Announce, Produce
  <2>2. UNCHANGED <<fate, log, current, restarts, phase>>
    BY <1>b DEF RegisterOrder, AcceptOrder, PlaceOrder, PlaceReturns, PlaceRaises,
       SimulateFill, MarkFilled, PublishFill, hand, process, history, tallies
  <2> QED BY <2>1, <2>2, QuietStepKeepsFates DEF log
<1>c. CASE BeginPoll \/ PollNothing \/ \E s \in Symbols : PollDepth(s)
  <2>1. /\ pc \in {"loop", "poll"}
        /\ UNCHANGED <<fate, log, current, restarts, phase>>
    BY <1>c DEF BeginPoll, PollNothing, PollDepth, Polling, At, hand, process,
       history, tallies
  <2> QED BY <2>1, QuietStepKeepsFates DEF log
<1>d. CASE PollOrder
  <2>1. /\ position' = position + 1 /\ current' = position + 1 /\ pc' = "check"
        /\ pc = "poll" /\ phase # "down" /\ phase' = phase
        /\ UNCHANGED <<fate, committed, restarts>>
    BY <1>d DEF PollOrder, Polling, At, Running, process, history, tallies
  <2>2. \A what : Fated(what)' = Fated(what)
    BY <2>1 DEF Fated
  <2>3. \A k \in Fated("pending") : k \in Nat
    BY MessagesAreNat DEF Fated
  <2> QED
    BY <2>1, <2>2, <2>3, FatesAreTyped
       DEF Fates, InHandOnly, OneUncovered, LossesCounted
<1>e. CASE Environment \/ Signal \/ CloseConsumer \/ FlushProducer \/ UNCHANGED vars
  <2>1. UNCHANGED <<fate, position, current, restarts, pc>>
    BY <1>e DEF Environment, Publish, AutoCommit, Send, SetMode, ResetMode,
       ChangeMode, Signal, CloseConsumer, FlushProducer, vars, log, hand, history,
       tallies
  <2>2. phase' # "down" => phase # "down"
    BY <1>e DEF Environment, Publish, AutoCommit, Send, SetMode, ResetMode,
       ChangeMode, Signal, CloseConsumer, FlushProducer, vars, process
  <2>3. committed' = committed \/ (phase # "down" /\ committed' = current
                                   /\ current # 0)
    BY <1>e DEF Environment, Publish, AutoCommit, Send, SetMode, ResetMode,
       ChangeMode, Signal, CloseConsumer, FlushProducer, vars, log
  <2>4. current # 0 => current <= position
    BY DEF Shape, Offsets, TypeOK
  <2> QED BY <2>1, <2>2, <2>3, <2>4, QuietStepKeepsFates
<1>f. CASE Die
  <2>1. /\ phase' = "down" /\ UNCHANGED <<fate, committed, restarts>>
    BY <1>f DEF Die, log, history, tallies
  <2>2. \A what : Fated(what)' = Fated(what)
    BY <2>1 DEF Fated
  <2> QED
    BY <2>1, <2>2 DEF Fates, InHandOnly, OneUncovered, LossesCounted
<1>g. CASE Start
  BY <1>g, StartKeepsFates
<1> QED
  BY <1>a, <1>b, <1>c, <1>d, <1>e, <1>f, <1>g DEF Next, Handle, Life, Exit, Crash

(* A life that ends loses at most the order it had in hand to its commits. *)
THEOREM LossesAreBounded == Spec => []AtMostOneLostPerLife
<1>1. Fates => AtMostOneLostPerLife
  BY DEF Fates, LossesCounted, Fated, AtMostOneLostPerLife
<1> QED
  BY <1>1, FatesInit, FatesNext, ShapeAlways, PTL DEF Spec

-----------------------------------------------------------------------------
(* A message that a commit covers is not handed out again.                 *)
THEOREM CommittedIsDone == Spec => CommittedIsNotReplayed
<1> DEFINE A == pc = "poll" /\ pc' = "check" => current' > committed
<1>1. ASSUME Shape, [Next]_vars PROVE [A]_vars
  <2> SUFFICES ASSUME Next, pc = "poll", pc' = "check" PROVE current' > committed
    BY <1>1
  <2>1. PollOrder
    BY DEF Next, Handle, Environment, Life, BeginPoll, PollNothing, PollDepth,
       BlockOrder, SkipOrder, RegisterOrder, AcceptOrder, PlaceOrder,
          PlaceReturns,
       PlaceRaises, PlaceFailed, RejectWithoutClient, SimulateFill, MarkFilled,
       PublishFill, AuditFill, At, Publish, AutoCommit, SetMode, ResetMode,
       ChangeMode, Send, Signal, CloseConsumer, FlushProducer, Exit, Crash,
          Die, Start, Begin
  <2>2. committed <= position /\ current' = position + 1
    BY <1>1, <2>1 DEF PollOrder, Polling, At, Running, Shape, Offsets
  <2>3. committed \in Int /\ position \in Int
    BY <1>1, ExecutionAssumption DEF Shape, TypeOK, NoOffset, ExecutionAssumption
  <2> QED BY <2>2, <2>3
<1> QED
  BY <1>1, ShapeAlways, PTL DEF Spec, CommittedIsNotReplayed

-----------------------------------------------------------------------------
(* The order tracker implements the state machine of its docstring: every  *)
(* step registers an order, follows one edge, forgets all, or stutters.    *)

LEMMA ValidIsEdge ==
    ASSUME NEW from, NEW to, Valid(from, to)
    PROVE  <<from, to>> \in StateMachine!Edges
BY DEF Valid, Transitions, StateMachine!Edges

LEMMA TransitionIsMove ==
    ASSUME NEW o \in Orders, NEW to, Transition(o, to)
    PROVE  [StateMachine!Next]_tracker
<1>1. CASE Valid(tracker[o], to)
  <2>1. <<tracker[o], to>> \in StateMachine!Edges
    BY <1>1, ValidIsEdge
  <2>2. tracker' = [tracker EXCEPT ![o] = to]
    BY <1>1 DEF Transition, SetStatus
  <2>3. StateMachine!Move(o, to) /\ to = <<tracker[o], to>>[2]
    BY <2>1, <2>2 DEF StateMachine!Move
  <2>4. \E e \in StateMachine!Edges : StateMachine!Move(o, e[2])
    BY <2>1, <2>3
  <2> QED BY <2>4 DEF StateMachine!Next
<1>2. CASE ~Valid(tracker[o], to)
  BY <1>2 DEF Transition, orders
<1> QED BY <1>1, <1>2

THEOREM TrackerImplementsStateMachine == Spec => ImplementsStateMachine
<1>1. Init => StateMachine!Init
  BY DEF Init, StateMachine!Init, StateMachine!Nothing, Unknown
<1>2. ASSUME Shape, [Next]_vars PROVE [StateMachine!Next]_tracker
  <2>1. CASE RegisterOrder
    <3>1. Order \in Orders
      BY <1>2, <2>1, InHandIsTyped DEF RegisterOrder, At, Handling, Labels
    <3>2. StateMachine!Register(Order)
      BY <2>1 DEF RegisterOrder, SetStatus, StateMachine!Register
    <3> QED BY <3>1, <3>2 DEF StateMachine!Next
  <2>2. CASE AcceptOrder \/ PlaceFailed \/ RejectWithoutClient \/ MarkFilled
    <3>1. Order \in Orders
      BY <1>2, <2>2, InHandIsTyped DEF AcceptOrder, PlaceFailed,
         RejectWithoutClient, MarkFilled, At, Handling, Labels
    <3>2. \E status : Transition(Order, status)
      BY <2>2 DEF AcceptOrder, PlaceFailed, RejectWithoutClient, MarkFilled
    <3> QED BY <3>1, <3>2, TransitionIsMove
  <2>3. CASE Die
    BY <2>3 DEF Die, Unknown, StateMachine!Next, StateMachine!Forget,
       StateMachine!Nothing
  <2>4. CASE ~(RegisterOrder \/ AcceptOrder \/ PlaceFailed
               \/ RejectWithoutClient \/ MarkFilled \/ Die)
    <3>1. UNCHANGED tracker
      BY <1>2, <2>4 DEF Next, Handle, Environment, Life, Exit, Crash, BeginPoll,
         PollNothing, PollDepth, PollOrder, BlockOrder, SkipOrder, PlaceOrder,
         PlaceReturns, PlaceRaises, SimulateFill, PublishFill, AuditFill, Publish,
         AutoCommit, Send, SetMode, ResetMode, ChangeMode, Signal, CloseConsumer,
         FlushProducer, Start, Begin, orders, vars
    <3> QED BY <3>1
  <2> QED BY <2>1, <2>2, <2>3, <2>4
<1> QED
  BY <1>1, <1>2, ShapeAlways, PTL DEF Spec, ImplementsStateMachine,
     StateMachine!Spec

=============================================================================
