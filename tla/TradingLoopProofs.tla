------------------------- MODULE TradingLoopProofs --------------------------
(***************************************************************************)
(* What the loop of a trade keeps for all symbols, limits and bounds:      *)
(* post-trade's book is a piece of the account's history, what Redis holds *)
(* is never torn, and orders under way carry a position only so far past   *)
(* its limit.                                                              *)
(***************************************************************************)
EXTENDS TradingLoop, TLAPS

-----------------------------------------------------------------------------
(* Types, by who holds the variables. *)

StoreTypes == positions \in [Symbols -> Int]

GatewayTypes ==
    /\ gpc \in {"poll", "breaker", "read", "check", "dead"}
    /\ signal \in Signals /\ snapshot \in [Symbols -> Int] /\ unread \subseteq Symbols
    /\ decisions \in [APPROVED : Nat, REJECTED : Nat]
    /\ audits \in Nat /\ received \in 0..MaxSignals

TopicTypes ==
    /\ orders \in Seq(Signals) /\ fills \in Seq(Signals)
    /\ account \in Seq([Symbols -> Int]) /\ Len(account) = Len(fills) + 1

PostTradeTypes ==
    /\ position \in 0..Len(fills) /\ committed \in {NoOffset} \cup 0..Len(fills)
    /\ ppc \in {"poll", "sync"} /\ book \in [Symbols -> Int] /\ known \subseteq Symbols
    /\ taken \in Nat /\ restarts \in 0..MaxRestarts

Types == StoreTypes /\ GatewayTypes /\ TopicTypes /\ PostTradeTypes

LEMMA TypesInit == Init => Types
<1> SUFFICES ASSUME Init PROVE Types
    OBVIOUS
<1> USE RiskGatewayAssumption, PostTradeAssumption, TradingLoopAssumption
        DEF Init, StoreInit, GatewayInit, PostTradeInit, Flat
<1>1. <<Flat>> \in Seq([Symbols -> Int]) /\ Len(<<Flat>>) = 1
      BY DEF Flat
<1>2. StoreTypes /\ GatewayTypes
      BY DEF StoreTypes, GatewayTypes
<1>3. TopicTypes /\ PostTradeTypes
      BY <1>1 DEF TopicTypes, PostTradeTypes, NoOffset
<1> QED
    BY <1>2, <1>3 DEF Types

\* The step that publishes an order, whether or not its audit entry follows.
OrderStep ==
    gpc = "check" /\ Passes /\ PublishOrder /\ gpc' \in {"poll", "dead"}

LEMMA OrdersGrowByOrderStep ==
    ASSUME GatewayStep
    PROVE  /\ UNCHANGED <<store, fills, account, postTradeVars, outages>>
           /\ OrderStep \/ UNCHANGED orders
BY DEF GatewayStep, Gateway, PollSignal, BreakerBlocks, BreakerPasses, ReadPortfolio,
       ReadFails, Approve, Reject, DecisionFails, OrderFails, AuditFails, OrderStep

LEMMA GatewayKeepsTypes ==
    Types /\ GatewayStep => StoreTypes' /\ GatewayTypes' /\ TopicTypes'
<1> SUFFICES ASSUME Types, GatewayStep
             PROVE  StoreTypes' /\ GatewayTypes' /\ TopicTypes'
    OBVIOUS
<1> USE RiskGatewayAssumption DEF Types, store
<1>0. fills' = fills /\ account' = account /\ positions' = positions
      BY OrdersGrowByOrderStep
<1>1. TopicTypes'
  <2>1. CASE OrderStep
    <3>1. PICK adjusted \in 1..signal.quantity :
             orders' = Append(orders, [signal EXCEPT !.quantity = adjusted])
          BY <2>1 DEF OrderStep, PublishOrder
    <3>2. [signal EXCEPT !.quantity = adjusted] \in Signals
          BY DEF GatewayTypes, Signals
    <3> QED
        BY <1>0, <3>1, <3>2 DEF TopicTypes
  <2>2. CASE UNCHANGED orders
        BY <1>0, <2>2 DEF TopicTypes
  <2> QED
      BY <2>1, <2>2, OrdersGrowByOrderStep
<1>2. GatewayTypes'
  <2>1. CASE PollSignal
        BY <2>1 DEF PollSignal, GatewayTypes
  <2>2. CASE BreakerBlocks \/ Approve \/ Reject \/ OrderFails \/ AuditFails
        BY <2>2 DEF BreakerBlocks, Approve, Reject, OrderFails, AuditFails, Decide,
                    GatewayTypes
  <2>3. CASE BreakerPasses \/ ReadFails \/ DecisionFails
        BY <2>3 DEF BreakerPasses, ReadFails, DecisionFails, Flat, GatewayTypes
  <2>4. CASE ReadPortfolio
        BY <2>4 DEF ReadPortfolio, StoreTypes, GatewayTypes
  <2> QED
      BY <2>1, <2>2, <2>3, <2>4 DEF GatewayStep, Gateway
<1> QED
    BY <1>0, <1>1, <1>2 DEF StoreTypes

LEMMA PostTradeKeepsTypes ==
    Types /\ PostTradeStep => StoreTypes' /\ TopicTypes' /\ PostTradeTypes'
<1> SUFFICES ASSUME Types, PostTradeStep
             PROVE  StoreTypes' /\ TopicTypes' /\ PostTradeTypes'
    OBVIOUS
<1> USE PostTradeAssumption DEF Types, store
<1>0. orders' = orders /\ account' = account
      BY DEF PostTradeStep
<1>1. CASE PollFill
  <2>1. fills[position + 1] \in Signals
        BY <1>1 DEF PollFill, TopicTypes, PostTradeTypes
  <2>2. Signed(fills[position + 1].side, fills[position + 1].quantity) \in Int
        BY <2>1 DEF Signed, Signals
  <2>3. book' \in [Symbols -> Int]
        BY <1>1, <2>1, <2>2 DEF PollFill, ApplyFill, PostTradeTypes, Signals
  <2>4. known' \subseteq Symbols
        BY <1>1, <2>1 DEF PollFill, PostTradeTypes, Signals
  <2> QED
      BY <1>0, <1>1, <2>3, <2>4 DEF PollFill, StoreTypes, TopicTypes, PostTradeTypes
<1>2. CASE SyncPortfolio
      BY <1>0, <1>2 DEF SyncPortfolio, Write, StoreTypes, TopicTypes, PostTradeTypes
<1>3. CASE SyncFails
      BY <1>0, <1>3 DEF SyncFails, StoreTypes, TopicTypes, PostTradeTypes
<1>4. CASE CommitFills
      BY <1>0, <1>4 DEF CommitFills, StoreTypes, TopicTypes, PostTradeTypes
<1>5. CASE RestartPostTrade
      BY <1>0, <1>5
         DEF RestartPostTrade, Flat, NoOffset, StoreTypes, TopicTypes, PostTradeTypes
<1> QED
    BY <1>1, <1>2, <1>3, <1>4, <1>5 DEF PostTradeStep, PostTrade

LEMMA FillKeepsTypes ==
    Types /\ (FillOrder \/ DropOrder) => TopicTypes' /\ Len(fills') >= Len(fills)
<1> SUFFICES ASSUME Types, FillOrder \/ DropOrder
             PROVE  TopicTypes' /\ Len(fills') >= Len(fills)
    OBVIOUS
<1> USE DEF Types
<1>1. Head(orders) \in Signals /\ Tail(orders) \in Seq(Signals)
      BY DEF FillOrder, DropOrder, TopicTypes
<1>2. CASE FillOrder
  <2>1. actual \in [Symbols -> Int]
        BY DEF actual, TopicTypes
  <2>2. Signed(Head(orders).side, Head(orders).quantity) \in Int
        BY <1>1 DEF Signed, Signals
  <2>3. [actual EXCEPT ![Head(orders).symbol] =
             @ + Signed(Head(orders).side, Head(orders).quantity)]
          \in [Symbols -> Int]
        BY <1>1, <2>1, <2>2 DEF Signals
  <2>4. account' \in Seq([Symbols -> Int]) /\ Len(account') = Len(account) + 1
        BY <1>2, <2>3 DEF FillOrder, TopicTypes
  <2>5. fills' \in Seq(Signals) /\ Len(fills') = Len(fills) + 1
        BY <1>1, <1>2 DEF FillOrder, TopicTypes
  <2> QED
      BY <1>1, <1>2, <2>4, <2>5 DEF FillOrder, TopicTypes
<1>3. CASE DropOrder
      BY <1>1, <1>3 DEF DropOrder, TopicTypes
<1> QED
    BY <1>2, <1>3

LEMMA TypesNext == Types /\ [Next]_vars => Types'
<1> SUFFICES ASSUME Types, [Next]_vars PROVE Types'
    OBVIOUS
<1>1. CASE GatewayStep
  <2>1. PostTradeTypes'
        BY <1>1 DEF GatewayStep, Types, PostTradeTypes, postTradeVars
  <2> QED
      BY <1>1, <2>1, GatewayKeepsTypes DEF Types
<1>2. CASE PostTradeStep
  <2>1. GatewayTypes'
        BY <1>2 DEF PostTradeStep, Types, GatewayTypes, gatewayVars
  <2> QED
      BY <1>2, <2>1, PostTradeKeepsTypes DEF Types
<1>3. CASE FillOrder \/ DropOrder
  <2>1. StoreTypes' /\ GatewayTypes'
        BY <1>3 DEF FillOrder, DropOrder, Types, StoreTypes, GatewayTypes, store,
                    gatewayVars
  <2>2. TopicTypes' /\ Len(fills') >= Len(fills)
        BY <1>3, FillKeepsTypes
  <2>3. PostTradeTypes'
    <3>1. UNCHANGED postTradeVars
          BY <1>3 DEF FillOrder, DropOrder
    <3>2. Len(fills') \in Nat /\ Len(fills) \in Nat /\ Len(fills') >= Len(fills)
          BY <2>2 DEF Types, TopicTypes
    <3> QED
        BY ONLY <3>1, <3>2, Types DEF Types, PostTradeTypes, postTradeVars
  <2> QED
      BY <2>1, <2>2, <2>3 DEF Types
<1>4. CASE StoreStep
  <2>1. StoreTypes' /\ GatewayTypes'
        BY <1>4 DEF StoreStep, Outage, Recovery, Types, StoreTypes, GatewayTypes,
                    gatewayVars
  <2>2. TopicTypes' /\ PostTradeTypes'
        BY <1>4 DEF StoreStep, Types, TopicTypes, PostTradeTypes, postTradeVars
  <2> QED
      BY <2>1, <2>2 DEF Types
<1>5. CASE UNCHANGED vars
      BY <1>5 DEF vars, Types, StoreTypes, GatewayTypes, TopicTypes, PostTradeTypes,
                  store, gatewayVars, postTradeVars
<1> QED
    BY <1>1, <1>2, <1>3, <1>4, <1>5 DEF Next

-----------------------------------------------------------------------------
(* The history of the account, and the book as a piece of it. *)

After(portfolio, fill) ==
    [portfolio EXCEPT ![fill.symbol] = @ + Signed(fill.side, fill.quantity)]

History ==
    /\ account[1] = Flat
    /\ \A n \in 1..Len(fills) : account[n + 1] = After(account[n], fills[n])

\* A step adds to the fills and to the account, and takes nothing back.
LEMMA HistoryGrows ==
    ASSUME Types, [Next]_vars
    PROVE  /\ \A n \in 1..Len(fills) : n \in 1..Len(fills') /\ fills'[n] = fills[n]
           /\ \A n \in 1..Len(account) :
                 n \in 1..Len(account') /\ account'[n] = account[n]
<1>1. CASE FillOrder
  <2>1. Head(orders) \in Signals
        BY <1>1 DEF FillOrder, Types, TopicTypes
  <2>2. account' = Append(account, After(actual, Head(orders)))
        BY <1>1 DEF FillOrder, After
  <2> QED
      BY <1>1, <2>1, <2>2 DEF FillOrder, Types, TopicTypes
<1>2. CASE UNCHANGED <<fills, account>>
      BY <1>2
<1> QED
    BY <1>1, <1>2 DEF Next, GatewayStep, DropOrder, PostTradeStep, PostTrade, PollFill,
           SyncPortfolio, SyncFails, CommitFills, RestartPostTrade, StoreStep, vars

LEMMA HistoryNext == Types /\ History /\ [Next]_vars => History'
<1> SUFFICES ASSUME Types, History, [Next]_vars PROVE History'
    OBVIOUS
<1>1. account'[1] = Flat
      BY HistoryGrows DEF History, Types, TopicTypes
<1>2. ASSUME NEW n \in 1..Len(fills')
      PROVE  account'[n + 1] = After(account'[n], fills'[n])
  <2>1. CASE n \in 1..Len(fills)
    <3>1. n \in 1..Len(account) /\ n + 1 \in 1..Len(account)
          BY <2>1 DEF Types, TopicTypes
    <3>2. account'[n] = account[n] /\ account'[n + 1] = account[n + 1]
            /\ fills'[n] = fills[n]
          BY <2>1, <3>1, HistoryGrows
    <3> QED
        BY <2>1, <3>2 DEF History
  <2>2. CASE n \notin 1..Len(fills)
    <3>1. FillOrder
          BY <1>2, <2>2
             DEF Next, GatewayStep, DropOrder, PostTradeStep, PostTrade, PollFill,
                 SyncPortfolio, SyncFails, CommitFills, RestartPostTrade, StoreStep, vars
    <3>2. fills' = Append(fills, Head(orders))
            /\ account' = Append(account, After(actual, Head(orders)))
          BY <3>1 DEF FillOrder, After
    <3>3. n = Len(fills) + 1 /\ fills'[n] = Head(orders)
          BY <1>2, <2>2, <3>2 DEF Types, TopicTypes
    <3>4. account'[n] = actual /\ account'[n + 1] = After(actual, Head(orders))
          BY <3>2, <3>3 DEF Types, TopicTypes, actual
    <3> QED
        BY <3>3, <3>4
  <2> QED
      BY <2>1, <2>2
<1> QED
    BY <1>1, <1>2 DEF History

LEMMA BookNext ==
    Types /\ History /\ BookIsWhatWasTaken /\ [Next]_vars => BookIsWhatWasTaken'
<1> SUFFICES ASSUME Types, History, BookIsWhatWasTaken, [Next]_vars
             PROVE  BookIsWhatWasTaken'
    OBVIOUS
<1> DEFINE first == position - taken + 1
<1>0. first \in 1..Len(account) /\ position + 1 \in 1..Len(account)
      BY DEF BookIsWhatWasTaken, Types, TopicTypes, PostTradeTypes
<1>1. CASE PostTradeStep /\ PollFill
  <2> DEFINE fill == fills[position + 1]
  <2>1. fill \in Signals /\ position + 1 \in 1..Len(fills)
        BY <1>1 DEF PollFill, Types, TopicTypes, PostTradeTypes
  <2>2. account[position + 2] = After(account[position + 1], fill)
        BY <2>1, position + 1 + 1 = position + 2
           DEF History, Types, PostTradeTypes, TopicTypes
  <2>3. /\ position' = position + 1 /\ taken' = taken + 1 /\ account' = account
        /\ book' = After(book, fill)
        BY <1>1 DEF PostTradeStep, PollFill, ApplyFill, After
  <2>4. position' - taken' + 1 = first /\ position' + 1 = position + 2
        BY <2>3 DEF Types, PostTradeTypes
  <2>5. /\ account[position + 1] \in [Symbols -> Int] /\ book \in [Symbols -> Int]
        /\ account[first] \in [Symbols -> Int]
        BY <1>0 DEF Types, PostTradeTypes, TopicTypes
  <2>6. Signed(fill.side, fill.quantity) \in Int
        BY <2>1 DEF Signed, Signals
  <2>7. \A s \in Symbols :
            book'[s] = account'[position' + 1][s] - account'[position' - taken' + 1][s]
    <3> TAKE s \in Symbols
    <3>1. book[s] = account[position + 1][s] - account[first][s]
          BY DEF BookIsWhatWasTaken
    <3>2. book'[s] - book[s] = account[position + 2][s] - account[position + 1][s]
          BY <2>2, <2>3, <2>5, <2>6 DEF After
    <3>3. book'[s] = account[position + 2][s] - account[first][s]
          BY <2>2, <2>3, <2>5, <2>6, <3>1, <3>2 DEF After
    <3> QED
        BY <2>3, <2>4, <3>3
  <2>8. taken' <= position'
        BY <2>3 DEF BookIsWhatWasTaken, Types, PostTradeTypes
  <2> QED
      BY <2>7, <2>8 DEF BookIsWhatWasTaken
<1>2. CASE PostTradeStep /\ RestartPostTrade
  <2>0. committed \in {NoOffset} \cup 0..Len(fills) /\ Len(fills) \in Nat
        BY DEF Types, PostTradeTypes, TopicTypes
  <2>1. /\ position' \in 0..Len(fills) /\ taken' = 0 /\ account' = account
        /\ book' = Flat
        BY <1>2, <2>0 DEF PostTradeStep, RestartPostTrade
  <2>2. account[position' + 1] \in [Symbols -> Int]
    <3>1. account \in Seq([Symbols -> Int]) /\ Len(account) = Len(fills) + 1
          BY DEF Types, TopicTypes
    <3>2. PICK n \in 0..Len(fills) : position' = n
          BY ONLY <2>1
    <3>3. n + 1 \in 1..Len(account)
          BY ONLY <2>0, <3>1, <3>2
    <3> QED
        BY ONLY <3>1, <3>2, <3>3
  <2>3. position' - taken' + 1 = position' + 1
        BY <2>1
  <2> QED
      BY <2>1, <2>2, <2>3 DEF BookIsWhatWasTaken, Flat
<1>3. CASE UNCHANGED <<position, taken, book>>
  <2>1. account'[first] = account[first] /\ account'[position + 1] = account[position + 1]
        BY <1>0, HistoryGrows
  <2> QED
      BY <1>3, <2>1 DEF BookIsWhatWasTaken
<1> QED
    BY <1>1, <1>2, <1>3
       DEF Next, GatewayStep, FillOrder, DropOrder, PostTradeStep, PostTrade,
           SyncPortfolio, SyncFails, CommitFills, StoreStep, vars, postTradeVars

-----------------------------------------------------------------------------
(* The portfolio in Redis. *)

\* Until a restart the book holds all fills handed out, and a symbol that it
\* does not know has none.
Complete ==
    restarts = 0 =>
        /\ taken = position
        /\ \A s \in Symbols \ known : positions[s] = 0 /\ book[s] = 0

LEMMA BookIsTheAccount ==
    ASSUME Types, History, BookIsWhatWasTaken, Complete, restarts = 0
    PROVE  position + 1 \in 1..Len(account) /\ book = account[position + 1]
<1>1. position + 1 \in 1..Len(account) /\ position - taken + 1 = 1
      BY DEF Complete, Types, PostTradeTypes, TopicTypes
<1>2. account[position + 1] \in [Symbols -> Int] /\ book \in [Symbols -> Int]
      BY <1>1 DEF Types, TopicTypes, PostTradeTypes
<1>3. \A s \in Symbols : book[s] = account[position + 1][s]
  <2> TAKE s \in Symbols
  <2>1. book[s] = account[position + 1][s] - account[1][s]
        BY <1>1 DEF BookIsWhatWasTaken
  <2>2. account[1][s] = 0
        BY DEF History, Flat
  <2>3. account[position + 1][s] \in Int
        BY <1>2
  <2> QED
      BY <2>1, <2>2, <2>3
<1> QED
    BY <1>1, <1>2, <1>3

LEMMA RedisNext ==
    /\ Types /\ History /\ BookIsWhatWasTaken /\ Complete /\ StaleNeverTorn
    /\ [Next]_vars
    => Complete' /\ StaleNeverTorn'
<1> SUFFICES ASSUME Types, History, BookIsWhatWasTaken, Complete, StaleNeverTorn,
                    [Next]_vars, restarts' = 0
             PROVE  /\ taken' = position'
                    /\ \A s \in Symbols \ known' : positions'[s] = 0 /\ book'[s] = 0
                    /\ PortfolioIsReal'
    BY DEF Complete, StaleNeverTorn
<1>1. restarts = 0
  <2>1. restarts \in Nat
        BY PostTradeAssumption DEF Types, PostTradeTypes
  <2> QED
      BY <2>1 DEF Next, GatewayStep, FillOrder, DropOrder, PostTradeStep, PostTrade,
                  PollFill, SyncPortfolio, SyncFails, CommitFills, RestartPostTrade,
                  StoreStep, vars, postTradeVars
<1>2. /\ taken = position
      /\ \A s \in Symbols \ known : positions[s] = 0 /\ book[s] = 0
      BY <1>1 DEF Complete
<1>3. PICK n \in 1..Len(account) : positions = account[n]
      BY <1>1 DEF StaleNeverTorn, PortfolioIsReal, Types, TopicTypes
<1>4. \A m \in 1..Len(account) : m \in DOMAIN account' /\ account'[m] = account[m]
  <2>1. DOMAIN account' = 1..Len(account')
        BY TypesNext DEF Types, TopicTypes
  <2> QED
      BY <2>1, HistoryGrows
<1>5. CASE PostTradeStep /\ PollFill
  <2>1. /\ position' = position + 1 /\ taken' = taken + 1 /\ positions' = positions
        /\ known' = known \cup {fills[position + 1].symbol}
        /\ book' = After(book, fills[position + 1])
        BY <1>5 DEF PostTradeStep, PollFill, ApplyFill, After, store
  <2>2. \A s \in Symbols \ known' : book'[s] = book[s]
        BY <2>1 DEF After, Types, PostTradeTypes
  <2> QED
      BY <1>2, <1>3, <1>4, <2>1, <2>2 DEF PortfolioIsReal
<1>6. CASE PostTradeStep /\ SyncPortfolio
  <2>1. positions' = [s \in Symbols |-> IF s \in known THEN book[s] ELSE positions[s]]
        BY <1>6 DEF SyncPortfolio, Write
  <2>2. UNCHANGED <<position, taken, book, known>>
        BY <1>6 DEF SyncPortfolio
  <2>3. book = [s \in Symbols |-> book[s]]
        BY DEF Types, PostTradeTypes
  <2>4. positions' = book
        BY <1>2, <2>1, <2>3
  <2>5. position + 1 \in 1..Len(account) /\ book = account[position + 1]
        BY <1>1, BookIsTheAccount
  <2> QED
      BY <1>2, <1>4, <2>2, <2>4, <2>5 DEF PortfolioIsReal
<1>7. CASE UNCHANGED <<positions, position, taken, book, known>>
      BY <1>2, <1>3, <1>4, <1>7 DEF PortfolioIsReal
<1>8. ~(PostTradeStep /\ RestartPostTrade)
      BY <1>1 DEF RestartPostTrade
<1> QED
    BY <1>5, <1>6, <1>7, <1>8
       DEF Next, GatewayStep, Gateway, PollSignal, BreakerBlocks, BreakerPasses,
           ReadPortfolio, ReadFails, Approve, Reject, DecisionFails, OrderFails,
           AuditFails, FillOrder, DropOrder,
           PostTradeStep, PostTrade, SyncFails, CommitFills, StoreStep, Outage,
           Recovery, vars, postTradeVars, store

BookInv == Types /\ History /\ BookIsWhatWasTaken /\ Complete /\ StaleNeverTorn

LEMMA BookInit == Init => BookInv
<1> SUFFICES ASSUME Init PROVE BookInv
    OBVIOUS
<1>1. Types
      BY TypesInit
<1>2. /\ account = <<Flat>> /\ positions = Flat /\ book = Flat /\ fills = <<>>
      /\ position = 0 /\ taken = 0
      BY DEF Init, StoreInit, PostTradeInit
<1>3. account[1] = Flat /\ 1 \in DOMAIN account /\ Len(fills) = 0
      BY <1>2
<1>4. History /\ BookIsWhatWasTaken
      BY <1>2, <1>3 DEF History, BookIsWhatWasTaken, Flat
<1>5. Complete /\ StaleNeverTorn
      BY <1>2, <1>3 DEF Complete, StaleNeverTorn, PortfolioIsReal, Flat
<1> QED
    BY <1>1, <1>4, <1>5 DEF BookInv

LEMMA BookInvHolds == Spec => []BookInv
<1>1. BookInv /\ [Next]_vars => BookInv'
      BY TypesNext, HistoryNext, BookNext, RedisNext DEF BookInv
<1> QED
    BY <1>1, BookInit, PTL DEF Spec

(* Post-trade's book is exactly the fills it was handed since it started,  *)
(* a piece of the topic without a gap, whatever it restarts from.          *)
THEOREM BookIsAPiece == Spec => []BookIsWhatWasTaken
<1>1. BookInv => BookIsWhatWasTaken
      BY DEF BookInv
<1> QED
    BY <1>1, BookInvHolds, PTL

(* However often Redis goes down and writes fail, a portfolio read from it *)
(* is one that the account had, until post-trade is restarted.             *)
THEOREM RedisIsNeverTorn == Spec => []StaleNeverTorn
<1>1. BookInv => StaleNeverTorn
      BY DEF BookInv
<1> QED
    BY <1>1, BookInvHolds, PTL

-----------------------------------------------------------------------------
(* How far positions go past the limit. *)

Highest == PositionLimit + (Window - 1) * Largest

Lowest == -(PositionLimit + (Window + 1) * Largest)

LEMMA LargestIsNat == Largest \in Nat /\ Largest <= MaxQuantity /\ Largest <= OrderLimit
BY RiskGatewayAssumption DEF Largest

LEMMA TimesMonotonic ==
    ASSUME NEW a \in Int, NEW b \in Int, NEW l \in Nat, a <= b
    PROVE  a * l \in Int /\ b * l \in Int /\ a * l <= b * l
OBVIOUS

LEMMA TimesSucc ==
    ASSUME NEW a \in Int, NEW l \in Int
    PROVE  (a + 1) * l = a * l + l /\ (a - 1) * l = a * l - l /\ a * l \in Int
OBVIOUS

\* What is taken up by one fill is given back by the order it was.
LEMMA Spends ==
    ASSUME NEW a \in Int, NEW new \in Int, NEW b \in Int, NEW q \in Int,
           NEW l \in Int, NEW h \in Int
    PROVE  /\ new <= a + l /\ a + (b + l) + q <= h => new + b + q <= h
           /\ new >= a - l /\ a - (b + l) - q >= h => new - b - q >= h
OBVIOUS

LEMMA Shifts ==
    ASSUME NEW a \in Int, NEW p \in Int, NEW n \in Int, NEW b \in Int, NEW room \in Int,
           n + b <= room
    PROVE  /\ a - p <= b => a + n <= p + room
           /\ p - a <= b => a - n >= p - room
OBVIOUS

LEMMA LimitsAreInt == Highest \in Int /\ Lowest \in Int /\ Lowest <= 0 /\ 0 <= Highest
<1>1. Window - 1 \in Nat /\ Window + 1 \in Nat
      BY TradingLoopAssumption
<1>2. 0 * Largest = 0
      BY LargestIsNat
<1>3. (Window - 1) * Largest \in Nat /\ (Window + 1) * Largest \in Nat
  <2>1. 0 * Largest <= (Window - 1) * Largest /\ (Window - 1) * Largest \in Int
        BY <1>1, LargestIsNat, TimesMonotonic
  <2>2. 0 * Largest <= (Window + 1) * Largest /\ (Window + 1) * Largest \in Int
        BY <1>1, LargestIsNat, TimesMonotonic
  <2> QED
      BY <1>2, <2>1, <2>2
<1> QED
    BY <1>3, RiskGatewayAssumption DEF Highest, Lowest

\* Redis and post-trade have stayed up.
Unbroken == outages = 0 /\ restarts = 0

LEMMA UnbrokenBefore ==
    ASSUME Types, outages \in Nat, [Next]_vars, Unbroken'
    PROVE  /\ Unbroken /\ ~(PostTradeStep /\ RestartPostTrade)
           /\ ~(StoreStep /\ Outage)
<1>0. restarts \in Nat
      BY DEF Types, PostTradeTypes
<1>1. restarts' = restarts \/ restarts' = restarts + 1
      BY DEF Next, GatewayStep, FillOrder, DropOrder, PostTradeStep, PostTrade,
             PollFill, SyncPortfolio, SyncFails, CommitFills, RestartPostTrade,
             StoreStep, vars, postTradeVars
<1>2. outages' = outages \/ outages' = outages + 1
      BY DEF Next, GatewayStep, FillOrder, DropOrder, PostTradeStep, StoreStep, vars
<1>3. PostTradeStep /\ RestartPostTrade => restarts' = restarts + 1
      BY DEF RestartPostTrade
<1>4. StoreStep /\ Outage => outages' = outages + 1
      BY DEF StoreStep, Outage, Recovery
<1> QED
    BY <1>0, <1>1, <1>2, <1>3, <1>4 DEF Unbroken

\* No outage and no restart: Redis holds the book, or lacks one fill of it.
Synced ==
    /\ redisUp /\ outages = 0 /\ restarts = 0
    /\ ppc = "poll" => positions = account[position + 1]
    /\ ppc = "sync" => position >= 1 /\ positions = account[position]

LEMMA SyncedNext ==
    ASSUME BookInv, Synced, [Next]_vars, Unbroken'
    PROVE  Synced'
<1> USE DEF BookInv
<1>0. \A m \in 1..Len(account) : account'[m] = account[m]
      BY HistoryGrows
<1>1. ~(PostTradeStep /\ RestartPostTrade) /\ ~(StoreStep)
  <2>1. outages \in Nat
        BY DEF Synced
  <2> QED
      BY <2>1, UnbrokenBefore DEF Synced, StoreStep, Recovery
<1>2. CASE PostTradeStep /\ PollFill
  <2>1. /\ position' = position + 1 /\ positions' = positions /\ ppc = "poll"
        /\ ppc' = "sync" /\ UNCHANGED <<redisUp, outages, restarts, account>>
        BY <1>2 DEF PostTradeStep, PollFill, store
  <2> QED
      BY <2>1 DEF Synced, Types, PostTradeTypes
<1>3. CASE PostTradeStep /\ SyncPortfolio
  <2>1. positions' = [s \in Symbols |-> IF s \in known THEN book[s] ELSE positions[s]]
        BY <1>3 DEF SyncPortfolio, Write
  <2>2. /\ UNCHANGED <<position, book, known, redisUp, outages, restarts, account>>
        /\ ppc' = "poll"
        BY <1>3 DEF PostTradeStep, SyncPortfolio, Write
  <2>3. book = [s \in Symbols |-> book[s]]
        BY DEF Types, PostTradeTypes
  <2>4. positions' = book
        BY <2>1, <2>3 DEF Complete, Synced
  <2>5. book = account[position + 1]
        BY BookIsTheAccount DEF Synced
  <2> QED
      BY <2>2, <2>4, <2>5 DEF Synced
<1>4. CASE UNCHANGED <<positions, redisUp, outages, restarts, ppc, position>>
  <2>1. /\ position + 1 \in 1..Len(account)
        /\ ppc = "sync" => position \in 1..Len(account)
        BY DEF Synced, Types, PostTradeTypes, TopicTypes
  <2> QED
      BY <1>0, <1>4, <2>1 DEF Synced
<1>5. ~(PostTradeStep /\ SyncFails)
      BY DEF Synced, SyncFails
<1> QED
    BY <1>1, <1>2, <1>3, <1>4, <1>5
       DEF Next, GatewayStep, Gateway, PollSignal, BreakerBlocks, BreakerPasses,
           ReadPortfolio, ReadFails, Approve, Reject, DecisionFails, OrderFails,
           AuditFails, FillOrder, DropOrder,
           PostTradeStep, PostTrade, CommitFills, vars, postTradeVars, store

\* An order is at most Largest, and the account moves by no more per fill.
Small ==
    /\ \A k \in 1..Len(orders) : orders[k].quantity <= Largest
    /\ \A m, n \in 1..Len(account) : m <= n =>
          \A s \in Symbols :
              /\ account[n][s] - account[m][s] <= (n - m) * Largest
              /\ account[m][s] - account[n][s] <= (n - m) * Largest

LEMMA SmallNext ==
    ASSUME Types, Small, [Next]_vars
    PROVE  Small'
<1> USE LargestIsNat
<1>0. Len(orders) \in Nat /\ Len(account) \in Nat /\ Len(account) >= 1
      BY DEF Types, TopicTypes
<1>1. CASE FillOrder
  <2> DEFINE fill == Head(orders)
             last == Len(account)
  <2>0. fill \in Signals /\ fill = orders[1] /\ 1 \in 1..Len(orders)
        BY <1>1 DEF FillOrder, Types, TopicTypes
  <2>1. fill.quantity \in Nat /\ fill.symbol \in Symbols
        BY <2>0, RiskGatewayAssumption DEF Signals
  <2>2. account' = Append(account, After(actual, fill)) /\ orders' = Tail(orders)
        BY <1>1 DEF FillOrder, After
  <2>3. \A k \in 1..Len(orders') : k + 1 \in 1..Len(orders) /\ orders'[k] = orders[k + 1]
        BY <1>1, <2>2 DEF FillOrder, Types, TopicTypes
  <2>4. \A k \in 1..Len(orders') : orders'[k].quantity <= Largest
        BY <2>3 DEF Small
  <2>5. Len(account') = last + 1 /\ account'[last + 1] = After(actual, fill)
        BY <2>2 DEF Types, TopicTypes
  <2>6. \A m \in 1..last : account'[m] = account[m]
        BY HistoryGrows
  <2>7. ASSUME NEW s \in Symbols
        PROVE  /\ account'[last + 1][s] - account[last][s] <= Largest
               /\ account[last][s] - account'[last + 1][s] <= Largest
               /\ account'[last + 1][s] \in Int /\ account[last][s] \in Int
    <3>1. actual \in [Symbols -> Int] /\ actual = account[last]
          BY <1>0 DEF actual, Types, TopicTypes
    <3>2. fill.quantity <= Largest
          BY <2>0 DEF Small
    <3>3. After(actual, fill)[s] = IF s = fill.symbol
              THEN actual[s] + Signed(fill.side, fill.quantity) ELSE actual[s]
          BY <3>1, <2>1 DEF After
    <3> QED
        BY <2>1, <2>5, <3>1, <3>2, <3>3 DEF Signed
  <2>8. ASSUME NEW m \in 1..last + 1, NEW n \in 1..last + 1, m <= n, NEW s \in Symbols
        PROVE  /\ account'[n][s] - account'[m][s] <= (n - m) * Largest
               /\ account'[m][s] - account'[n][s] <= (n - m) * Largest
    <3>1. CASE n \in 1..last
      <4>1. m \in 1..last
            BY <1>0, <3>1, <2>8
      <4> QED
          BY <2>6, <2>8, <3>1, <4>1 DEF Small
    <3>2. CASE n = last + 1 /\ m = last + 1
      <4>1. (n - m) * Largest = 0 /\ account'[n][s] \in Int
            BY <1>0, <2>7, <3>2
      <4> QED
          BY <3>2, <4>1
    <3>3. CASE n = last + 1 /\ m \in 1..last
      <4>0. account[m][s] \in Int
            BY <1>0, <3>3 DEF Types, TopicTypes
      <4>1. /\ account[last][s] - account[m][s] <= (last - m) * Largest
            /\ account[m][s] - account[last][s] <= (last - m) * Largest
        <5>1. m \in 1..Len(account) /\ last \in 1..Len(account) /\ m <= last
              BY <1>0, <3>3
        <5> QED
            BY <5>1, <2>8 DEF Small
      <4>2. (n - m) * Largest = (last - m) * Largest + Largest
              /\ (last - m) * Largest \in Int
        <5>1. n - m = (last - m) + 1 /\ last - m \in Int
              BY <1>0, <3>3
        <5> QED
            BY <5>1, TimesSucc
      <4>3. /\ account'[last + 1][s] - account[last][s] <= Largest
            /\ account[last][s] - account'[last + 1][s] <= Largest
            /\ account'[last + 1][s] \in Int /\ account[last][s] \in Int
            BY <2>7
      <4>4. account'[n][s] = account'[last + 1][s] /\ account'[m][s] = account[m][s]
            BY <2>6, <3>3
      <4>5. Largest \in Int
            BY LargestIsNat
      <4> DEFINE x == account[m][s]
                 y == account[last][s]
                 z == account'[last + 1][s]
                 p == (last - m) * Largest
                 q == (n - m) * Largest
      <4>6. z - x <= q /\ x - z <= q
        <5> HIDE DEF x, y, z, p, q
        <5>1. /\ x \in Int /\ y \in Int /\ z \in Int /\ p \in Int /\ q = p + Largest
              /\ y - x <= p /\ x - y <= p /\ z - y <= Largest /\ y - z <= Largest
              BY <4>0, <4>1, <4>2, <4>3 DEF x, y, z, p, q
        <5> QED
            BY ONLY <4>5, <5>1
      <4> QED
          BY <4>4, <4>6
    <3> QED
        BY <1>0, <3>1, <3>2, <3>3
  <2> QED
      BY <2>4, <2>5, <2>8 DEF Small
<1>2. CASE DropOrder
  <2>1. \A k \in 1..Len(orders') : k + 1 \in 1..Len(orders) /\ orders'[k] = orders[k + 1]
        BY <1>2 DEF DropOrder, Types, TopicTypes
  <2> QED
      BY <1>2, <2>1 DEF DropOrder, Small
<1>3. CASE GatewayStep /\ OrderStep
  <2>1. PICK adjusted \in 1..signal.quantity :
           orders' = Append(orders, [signal EXCEPT !.quantity = adjusted])
        BY <1>3 DEF OrderStep, PublishOrder
  <2>2. /\ signal.quantity \in 1..MaxQuantity
        /\ [signal EXCEPT !.quantity = adjusted] \in Signals
        /\ [signal EXCEPT !.quantity = adjusted].quantity = adjusted
        BY RiskGatewayAssumption DEF Types, GatewayTypes, Signals
  <2>3. signal.quantity <= OrderLimit
        BY <1>3 DEF OrderStep, Passes, ChecksPass, OrderNotionalOk
  <2>4. adjusted <= Largest
        BY <2>2, <2>3, RiskGatewayAssumption DEF Largest
  <2>5. \A k \in 1..Len(orders') : orders'[k].quantity <= Largest
        BY <2>1, <2>2, <2>4 DEF Small, Types, TopicTypes
  <2> QED
      BY <1>3, <2>5 DEF GatewayStep, Small
<1>4. CASE UNCHANGED <<orders, account>>
      BY <1>4 DEF Small
<1> QED
    BY <1>1, <1>2, <1>3, <1>4, OrdersGrowByOrderStep
       DEF Next, PostTradeStep, PostTrade, PollFill, SyncPortfolio, SyncFails,
           CommitFills, RestartPostTrade, StoreStep, vars

\* No more is under way than the window takes.
Narrow == UnderWay <= Window

Busy == IF gpc \in {"poll", "dead"} THEN 0 ELSE 1

\* The fills that Redis does not hold.
Behind == (Len(fills) - position) + (IF ppc = "sync" THEN 1 ELSE 0)

Parts ==
    /\ Busy \in 0..1 /\ Len(orders) \in Nat /\ Behind \in Nat
    /\ UnderWay = Busy + Len(orders) + Behind

LEMMA UnderWayHasParts == Types => Parts
<1> SUFFICES ASSUME Types PROVE Parts
    OBVIOUS
<1>1. Busy \in 0..1 /\ Len(orders) \in Nat /\ Len(fills) - position \in Nat
      BY DEF Busy, Types, TopicTypes, PostTradeTypes
<1> QED
    BY <1>1 DEF Parts, UnderWay, Behind, Busy

LEMMA NarrowNext ==
    ASSUME Types, Narrow, ~(PostTradeStep /\ RestartPostTrade), [Next]_vars
    PROVE  Narrow'
<1>0. /\ Len(orders) \in Nat /\ Len(fills) \in Nat /\ position \in Nat /\ Window \in Nat
      /\ position <= Len(fills)
      BY TradingLoopAssumption DEF Types, TopicTypes, PostTradeTypes
<1> DEFINE total == Busy + Len(orders) + Behind
<1>c. Types' => Parts'
      BY UnderWayHasParts, PTL
<1>a. /\ Busy \in 0..1 /\ Behind \in Nat /\ Busy' \in 0..1 /\ Behind' \in Nat
      /\ UnderWay = total /\ UnderWay' = total' /\ total <= Window
      /\ Len(orders') \in Nat
      BY <1>c, TypesNext, UnderWayHasParts DEF Narrow, Parts
<1>b. SUFFICES total' <= Window
      BY <1>a DEF Narrow
<1>1. CASE GatewayStep
  <2>1. Behind' = Behind
        BY <1>1 DEF GatewayStep, postTradeVars, Behind
  <2>2. CASE PollSignal
    <3>1. UnderWay < Window /\ Busy = 0 /\ Busy' = 1 /\ orders' = orders
          BY <1>1, <2>2 DEF GatewayStep, PollSignal, Busy
    <3>2. total < Window
          BY <1>a, <3>1
    <3>3. total' = total + 1
          BY <1>a, <2>1, <3>1
    <3> QED
        BY <1>0, <1>a, <3>2, <3>3
  <2>3. CASE OrderStep
    <3>1. Busy = 1 /\ Busy' = 0 /\ Len(orders') = Len(orders) + 1
      <4>1. PICK order \in Signals : orders' = Append(orders, order)
        <5>1. PICK adjusted \in 1..signal.quantity :
                 orders' = Append(orders, [signal EXCEPT !.quantity = adjusted])
              BY <2>3 DEF OrderStep, PublishOrder
        <5>2. [signal EXCEPT !.quantity = adjusted] \in Signals
              BY RiskGatewayAssumption DEF Types, GatewayTypes, Signals
        <5> QED
            BY <5>1, <5>2
      <4> QED
          BY <2>3, <4>1 DEF OrderStep, Types, TopicTypes, Busy
    <3> QED
        BY <1>0, <1>a, <2>1, <3>1
  <2>4. CASE UNCHANGED orders /\ gpc' \in {"poll", "dead"}
    <3>1. Busy' = 0 /\ orders' = orders
          BY <2>4 DEF Busy
    <3> QED
        BY <1>0, <1>a, <2>1, <3>1
  <2>5. CASE BreakerPasses \/ ReadPortfolio
    <3>1. Busy' = Busy /\ orders' = orders
          BY <2>5 DEF BreakerPasses, ReadPortfolio, Busy
    <3> QED
        BY <1>0, <1>a, <2>1, <3>1
  <2> QED
      BY <1>1, <2>2, <2>3, <2>4, <2>5, OrdersGrowByOrderStep
         DEF GatewayStep, Gateway, BreakerBlocks, ReadFails, Approve, Reject,
             DecisionFails, OrderFails, AuditFails
<1>2. CASE FillOrder
  <2>1. /\ Len(orders') = Len(orders) - 1 /\ Len(fills') = Len(fills) + 1
        /\ UNCHANGED <<gpc, position, ppc>>
        BY <1>2 DEF FillOrder, Types, TopicTypes, gatewayVars, postTradeVars
  <2>2. Behind' = Behind + 1
        BY <1>0, <2>1 DEF Behind
  <2>3. Busy' = Busy
        BY <2>1 DEF Busy
  <2> QED
      BY <1>0, <1>a, <2>1, <2>2, <2>3
<1>3. CASE DropOrder
  <2>1. Len(orders') = Len(orders) - 1 /\ UNCHANGED <<fills, gpc, position, ppc>>
        BY <1>3 DEF DropOrder, Types, TopicTypes, gatewayVars, postTradeVars
  <2>2. Behind' = Behind /\ Busy' = Busy
        BY <2>1 DEF Behind, Busy
  <2> QED
      BY <1>0, <1>a, <2>1, <2>2
<1>4. CASE PostTradeStep
  <2>1. UNCHANGED <<gpc, orders, fills>>
        BY <1>4 DEF PostTradeStep, PostTrade, PollFill, SyncPortfolio, SyncFails,
                    CommitFills, RestartPostTrade, gatewayVars
  <2>2. \/ position' = position + 1 /\ ppc = "poll" /\ ppc' = "sync"
        \/ position' = position /\ ppc' = "poll"
        \/ UNCHANGED <<position, ppc>>
        BY <1>4 DEF PostTradeStep, PostTrade, PollFill, SyncPortfolio, SyncFails,
                    CommitFills, RestartPostTrade, Types, PostTradeTypes
  <2>3. Behind' <= Behind
        BY <1>0, <2>1, <2>2 DEF Behind
  <2>4. Busy' = Busy
        BY <2>1 DEF Busy
  <2> QED
      BY <1>0, <1>a, <2>1, <2>3, <2>4
<1>5. CASE UNCHANGED <<gpc, orders, fills, position, ppc>>
      BY <1>5, <1>a DEF Busy, Behind
<1> QED
    BY <1>1, <1>2, <1>3, <1>4, <1>5
       DEF Next, StoreStep, vars, gatewayVars, postTradeVars

\* The account is as far from Redis as the fills that Redis lacks take it.
LEMMA RedisIsNear ==
    ASSUME BookInv, Synced, Small, NEW s \in Symbols
    PROVE  /\ actual[s] \in Int /\ positions[s] \in Int /\ Behind \in Nat
           /\ Behind * Largest \in Int
           /\ actual[s] - positions[s] <= Behind * Largest
           /\ positions[s] - actual[s] <= Behind * Largest
<1> USE DEF BookInv
<1>1. PICK m \in 1..Len(account) : positions = account[m] /\ Behind = Len(account) - m
  <2>1. CASE ppc = "poll"
    <3>1. position + 1 \in 1..Len(account) /\ Behind = Len(account) - (position + 1)
          BY <2>1 DEF Types, TopicTypes, PostTradeTypes, Behind
    <3> QED
        BY <2>1, <3>1 DEF Synced
  <2>2. CASE ppc = "sync"
    <3>1. position \in 1..Len(account) /\ Behind = Len(account) - position
          BY <2>2 DEF Types, TopicTypes, PostTradeTypes, Behind, Synced
    <3> QED
        BY <2>2, <3>1 DEF Synced
  <2> QED
      BY <2>1, <2>2 DEF Types, PostTradeTypes
<1>2. Len(account) \in 1..Len(account) /\ m <= Len(account)
      BY <1>1 DEF Types, TopicTypes
<1>3. actual[s] \in Int /\ positions[s] \in Int /\ Behind \in Nat
      BY <1>1, <1>2 DEF actual, Types, TopicTypes, StoreTypes
<1>4. Behind * Largest \in Int
      BY <1>3, LargestIsNat, TimesMonotonic
<1> QED
    BY <1>1, <1>2, <1>3, <1>4 DEF Small, actual

\* What the orders under way can still do, beyond what has been read.
Reading ==
    /\ gpc = "check" => unread = {}
    /\ gpc \in {"read", "check"} =>
          \A s \in Symbols \ unread :
              /\ actual[s] + Len(orders) * Largest
                    <= snapshot[s] + (Window - 1) * Largest
              /\ actual[s] - Len(orders) * Largest
                    >= snapshot[s] - (Window - 1) * Largest

\* A fill moves each position by at most Largest.
LEMMA FillIsSmall ==
    ASSUME Types, Small, FillOrder, [Next]_vars, NEW s \in Symbols
    PROVE  /\ actual'[s] \in Int /\ actual[s] \in Int
           /\ actual'[s] <= actual[s] + Largest
           /\ actual'[s] >= actual[s] - Largest
<1> DEFINE last == Len(account)
<1>1. Len(account') = last + 1 /\ last \in Nat /\ last >= 1
      BY DEF FillOrder, Types, TopicTypes
<1>2. account'[last] = account[last]
      BY <1>1, HistoryGrows
<1>3. Small' /\ Types'
      BY SmallNext, TypesNext
<1>4. last \in 1..Len(account') /\ last + 1 \in 1..Len(account')
      BY <1>1
<1>5. actual'[s] \in Int /\ actual[s] \in Int
      BY <1>1, <1>3, <1>4 DEF actual, Types, TopicTypes
<1>6. (last + 1 - last) * Largest = Largest
      BY <1>1, LargestIsNat
<1>7. /\ account'[last + 1][s] - account'[last][s] <= (last + 1 - last) * Largest
      /\ account'[last][s] - account'[last + 1][s] <= (last + 1 - last) * Largest
      BY <1>1, <1>3, <1>4 DEF Small
<1> QED
    BY <1>1, <1>2, <1>5, <1>6, <1>7, LargestIsNat DEF actual

LEMMA ReadingNext ==
    ASSUME BookInv, Synced, Small, Narrow, Reading, [Next]_vars
    PROVE  Reading'
<1> USE DEF BookInv
<1> DEFINE room == (Window - 1) * Largest
<1>0. Len(orders) \in Nat /\ Largest \in Nat /\ Len(orders) * Largest \in Int /\ room \in Int
  <2>1. Len(orders) \in Nat /\ Largest \in Nat /\ Window - 1 \in Int
        BY LargestIsNat, TradingLoopAssumption DEF Types, TopicTypes
  <2> QED
      BY <2>1, TimesSucc
<1>1. CASE GatewayStep /\ ReadPortfolio
  <2>1. PICK r \in unread :
           /\ snapshot' = [snapshot EXCEPT ![r] = positions[r]]
           /\ unread' = unread \ {r}
           /\ gpc' = IF unread = {r} THEN "check" ELSE "read"
        BY <1>1 DEF ReadPortfolio
  <2>2. UNCHANGED <<orders, account>> /\ gpc = "read"
        BY <1>1 DEF GatewayStep, ReadPortfolio
  <2>3. r \in Symbols /\ snapshot \in [Symbols -> Int]
        BY <2>1 DEF Types, GatewayTypes
  <2>4. /\ actual[r] + Len(orders) * Largest <= positions[r] + room
        /\ actual[r] - Len(orders) * Largest >= positions[r] - room
    <3>1. Behind \in Nat /\ Len(orders) + Behind <= Window - 1
      <4>1. Busy = 1
            BY <2>2 DEF Busy
      <4> QED
          BY <4>1, UnderWayHasParts, TradingLoopAssumption DEF Parts, Narrow
    <3>2. (Len(orders) + Behind) * Largest <= room
          BY <1>0, <3>1, TradingLoopAssumption, TimesMonotonic
    <3>3. (Len(orders) + Behind) * Largest = Len(orders) * Largest + Behind * Largest
          BY <1>0, <3>1
    <3>4. /\ actual[r] \in Int /\ positions[r] \in Int /\ Behind * Largest \in Int
          /\ actual[r] - positions[r] <= Behind * Largest
          /\ positions[r] - actual[r] <= Behind * Largest
          BY <2>3, RedisIsNear
    <3>5. Len(orders) * Largest + Behind * Largest <= room
          BY <3>2, <3>3
    <3> DEFINE ahead == Len(orders) * Largest
               late == Behind * Largest
    <3>6. ahead \in Int /\ late \in Int /\ room \in Int
          BY <1>0, <3>4
    <3> HIDE DEF room, ahead, late
    <3> QED
        BY <3>4, <3>5, <3>6, Shifts DEF ahead, late
  <2>5. ASSUME NEW s \in Symbols \ unread'
        PROVE  /\ actual'[s] + Len(orders') * Largest <= snapshot'[s] + room
               /\ actual'[s] - Len(orders') * Largest >= snapshot'[s] - room
    <3>1. actual'[s] = actual[s] /\ orders' = orders
          BY <2>2 DEF actual
    <3>2. CASE s = r
          BY <2>1, <2>3, <2>4, <3>1, <3>2
    <3>3. CASE s # r
      <4>1. s \in Symbols \ unread /\ snapshot'[s] = snapshot[s]
            BY <2>1, <2>3, <3>3
      <4> QED
          BY <2>2, <3>1, <4>1 DEF Reading
    <3> QED
        BY <3>2, <3>3
  <2>6. gpc' = "check" => unread' = {}
        BY <2>1
  <2> QED
      BY <2>5, <2>6 DEF Reading
<1>2. CASE GatewayStep /\ ~ReadPortfolio
  <2>1. \/ gpc' \notin {"read", "check"}
        \/ gpc' = "read" /\ unread' = Symbols
        BY <1>2 DEF GatewayStep, Gateway, PollSignal, BreakerBlocks, BreakerPasses,
                    ReadFails, Approve, Reject, DecisionFails, OrderFails, AuditFails
  <2> QED
      BY <2>1 DEF Reading
<1>3. CASE FillOrder
  <2>1. /\ Len(orders') = Len(orders) - 1
        /\ UNCHANGED <<gpc, unread, snapshot>>
        BY <1>3 DEF FillOrder, Types, TopicTypes, gatewayVars
  <2>2. Len(orders') * Largest = Len(orders) * Largest - Largest
        BY <1>0, <2>1, TimesSucc
  <2>3. ASSUME NEW s \in Symbols \ unread, gpc \in {"read", "check"}
        PROVE  /\ actual'[s] + Len(orders') * Largest <= snapshot[s] + room
               /\ actual'[s] - Len(orders') * Largest >= snapshot[s] - room
    <3>1. /\ actual[s] + Len(orders) * Largest <= snapshot[s] + room
          /\ actual[s] - Len(orders) * Largest >= snapshot[s] - room
          BY <2>3 DEF Reading
    <3>2. snapshot[s] \in Int
          BY DEF Types, GatewayTypes
    <3>3. /\ actual'[s] \in Int /\ actual[s] \in Int
          /\ actual'[s] <= actual[s] + Largest
          /\ actual'[s] >= actual[s] - Largest
          BY <1>3, FillIsSmall
    <3> DEFINE before == Len(orders) * Largest
               after == Len(orders') * Largest
    <3>4. before \in Int /\ room \in Int /\ after = before - Largest /\ Largest \in Nat
          BY <1>0, <2>2
    <3>5. /\ actual[s] + before <= snapshot[s] + room
          /\ actual[s] - before >= snapshot[s] - room
          BY <3>1
    <3> HIDE DEF room, before, after
    <3>6. actual'[s] + after <= snapshot[s] + room
          BY <3>2, <3>3, <3>4, <3>5
    <3>7. actual'[s] - after >= snapshot[s] - room
          BY <3>2, <3>3, <3>4, <3>5
    <3> QED
        BY <3>6, <3>7 DEF after
  <2> QED
      BY <2>1, <2>3 DEF Reading
<1>4. CASE DropOrder
  <2>1. /\ Len(orders') = Len(orders) - 1
        /\ UNCHANGED <<gpc, unread, snapshot, account>>
        BY <1>4 DEF DropOrder, Types, TopicTypes, gatewayVars
  <2>2. Len(orders') * Largest = Len(orders) * Largest - Largest
        BY <1>0, <2>1, TimesSucc
  <2>3. ASSUME NEW s \in Symbols \ unread, gpc \in {"read", "check"}
        PROVE  /\ actual[s] + Len(orders') * Largest <= snapshot[s] + room
               /\ actual[s] - Len(orders') * Largest >= snapshot[s] - room
    <3>1. /\ actual[s] + Len(orders) * Largest <= snapshot[s] + room
          /\ actual[s] - Len(orders) * Largest >= snapshot[s] - room
          BY <2>3 DEF Reading
    <3>2. snapshot[s] \in Int
          BY DEF Types, GatewayTypes
    <3>3. actual[s] \in Int
          BY DEF Types, TopicTypes, actual
    <3> DEFINE before == Len(orders) * Largest
               after == Len(orders') * Largest
    <3>4. before \in Int /\ room \in Int /\ after = before - Largest /\ Largest \in Nat
          BY <1>0, <2>2
    <3>5. /\ actual[s] + before <= snapshot[s] + room
          /\ actual[s] - before >= snapshot[s] - room
          BY <3>1
    <3> HIDE DEF room, before, after
    <3>6. actual[s] + after <= snapshot[s] + room
          BY <3>2, <3>3, <3>4, <3>5
    <3>7. actual[s] - after >= snapshot[s] - room
          BY <3>2, <3>3, <3>4, <3>5
    <3> QED
        BY <3>6, <3>7 DEF after
  <2> QED
      BY <2>1, <2>3 DEF Reading, actual
<1>5. CASE UNCHANGED <<gpc, unread, snapshot, orders, account>>
      BY <1>5 DEF Reading, actual
<1> QED
    BY <1>1, <1>2, <1>3, <1>4, <1>5
       DEF Next, PostTradeStep, StoreStep, vars, gatewayVars

\* The positions, and where each order under way can carry them when all
\* those before it go the same way.
Pending ==
    \A s \in Symbols :
        /\ Lowest <= actual[s] /\ actual[s] <= Highest
        /\ \A k \in 1..Len(orders) : orders[k].symbol = s =>
              IF orders[k].side = "BUY"
              THEN actual[s] + (k - 1) * Largest + orders[k].quantity <= Highest
              ELSE actual[s] - (k - 1) * Largest - orders[k].quantity >= Lowest

LEMMA ApprovedIsBounded ==
    ASSUME BookInv, Reading, Pending, GatewayStep, OrderStep
    PROVE  Pending'
<1> USE DEF BookInv
<1> DEFINE r == signal.symbol
           room == (Window - 1) * Largest
           len == Len(orders)
<1>1. PICK adjusted \in 1..signal.quantity :
         orders' = Append(orders, [signal EXCEPT !.quantity = adjusted])
      BY DEF OrderStep, PublishOrder
<1> DEFINE order == [signal EXCEPT !.quantity = adjusted]
<1>2. /\ order.symbol = r /\ order.side = signal.side /\ order.quantity = adjusted
      /\ r \in Symbols /\ signal.quantity \in Nat /\ adjusted \in Nat
      /\ adjusted <= signal.quantity
      BY <1>1, RiskGatewayAssumption DEF Types, GatewayTypes, Signals
<1>3. signal.quantity <= Largest /\ Abs(snapshot[r] + signal.quantity) <= PositionLimit
  <2>1. signal.quantity <= OrderLimit /\ signal.quantity <= MaxQuantity
        BY RiskGatewayAssumption
           DEF OrderStep, Passes, ChecksPass, OrderNotionalOk, Types, GatewayTypes, Signals
  <2>2. Abs(snapshot[r] + signal.quantity) <= PositionLimit
        BY DEF OrderStep, Passes, ChecksPass, PositionNotionalOk
  <2> QED
      BY <2>1, <2>2 DEF Largest
<1>4. /\ len' = len + 1 /\ orders'[len + 1] = order /\ actual' = actual
      /\ \A k \in 1..len : orders'[k] = orders[k]
  <2>1. orders \in Seq(Signals)
        BY DEF Types, TopicTypes
  <2> QED
      BY <1>1, <2>1 DEF GatewayStep, actual
<1>5. /\ len \in Nat /\ Largest \in Nat /\ len * Largest \in Int /\ room \in Int
      /\ (Window + 1) * Largest = room + Largest + Largest
      /\ (len + 1 - 1) * Largest = len * Largest
  <2>1. len \in Nat /\ Largest \in Nat /\ Window \in Int /\ Window - 1 \in Int
        BY LargestIsNat, TradingLoopAssumption DEF Types, TopicTypes
  <2>2. Window * Largest = room + Largest
        BY <2>1, TimesSucc
  <2>3. (Window + 1) * Largest = Window * Largest + Largest
        BY <2>1, TimesSucc
  <2> QED
      BY <2>1, <2>2, <2>3, TimesSucc
<1>6. /\ actual[r] + len * Largest <= snapshot[r] + room
      /\ actual[r] - len * Largest >= snapshot[r] - room
      BY <1>2 DEF OrderStep, Reading
<1>7. actual[r] \in Int /\ snapshot[r] \in Int
  <2>1. actual[r] \in Int
        BY <1>2 DEF actual, Types, TopicTypes
  <2> QED
      BY <1>2, <2>1 DEF Types, GatewayTypes
<1>8. /\ snapshot[r] + signal.quantity <= PositionLimit
      /\ snapshot[r] + signal.quantity >= -PositionLimit
      BY <1>2, <1>3, <1>7, RiskGatewayAssumption DEF Abs
<1>9. /\ actual[r] + len * Largest + adjusted <= Highest
      /\ actual[r] - len * Largest - adjusted >= Lowest
  <2>1. actual[r] + len * Largest + adjusted <= PositionLimit + room
    <3> HIDE DEF room, len
    <3> QED
        BY <1>2, <1>5, <1>6, <1>7, <1>8, RiskGatewayAssumption
  <2>2. actual[r] - len * Largest - adjusted >= -(PositionLimit + (room + Largest + Largest))
    <3> HIDE DEF room, len
    <3> QED
        BY <1>2, <1>3, <1>5, <1>6, <1>7, <1>8, RiskGatewayAssumption
  <2> QED
      BY <1>5, <2>1, <2>2 DEF Highest, Lowest
<1>10. ASSUME NEW s \in Symbols, NEW k \in 1..len', orders'[k].symbol = s
       PROVE  IF orders'[k].side = "BUY"
              THEN actual[s] + (k - 1) * Largest + orders'[k].quantity <= Highest
              ELSE actual[s] - (k - 1) * Largest - orders'[k].quantity >= Lowest
  <2>1. CASE k \in 1..len
        BY <1>4, <1>10, <2>1 DEF Pending
  <2>2. CASE k = len + 1
    <3>1. orders'[k] = order /\ s = r
          BY <1>2, <1>4, <1>10, <2>2
    <3>2. (k - 1) * Largest = len * Largest
          BY <1>5, <2>2
    <3> QED
        BY <1>2, <1>9, <3>1, <3>2
  <2> QED
      BY <1>4, <1>5, <1>10, <2>1, <2>2
<1> QED
    BY <1>4, <1>10 DEF Pending

LEMMA TakenIsBounded ==
    ASSUME BookInv, Small, Pending, FillOrder \/ DropOrder, [Next]_vars
    PROVE  Pending'
<1> USE DEF BookInv
<1>0. /\ orders \in Seq(Signals) /\ Largest \in Nat /\ Highest \in Int /\ Lowest \in Int
      /\ orders # <<>> /\ orders' = Tail(orders) /\ Len(orders) \in Nat
      BY LargestIsNat, LimitsAreInt DEF FillOrder, DropOrder, Types, TopicTypes
<1>1. ASSUME NEW s \in Symbols
      PROVE  /\ actual'[s] \in Int /\ actual[s] \in Int
             /\ actual'[s] <= actual[s] + Largest /\ actual'[s] >= actual[s] - Largest
             /\ Lowest <= actual'[s] /\ actual'[s] <= Highest
  <2>0. actual[s] \in Int /\ Lowest <= actual[s] /\ actual[s] <= Highest
    <3>1. actual[s] \in Int
          BY DEF actual, Types, TopicTypes
    <3> QED
        BY <3>1 DEF Pending
  <2>1. CASE DropOrder
    <3>1. actual' = actual
          BY <2>1 DEF DropOrder, actual
    <3> QED
        BY <1>0, <2>0, <3>1
  <2>2. CASE FillOrder
    <3> DEFINE fill == orders[1]
    <3>1. fill \in Signals /\ Head(orders) = fill /\ 1 \in 1..Len(orders)
          BY <1>0
    <3>2. fill.quantity \in Nat /\ fill.symbol \in Symbols
          BY <3>1, RiskGatewayAssumption DEF Signals
    <3>3. actual'[s] = IF s = fill.symbol
                       THEN actual[s] + Signed(fill.side, fill.quantity) ELSE actual[s]
      <4>1. actual \in [Symbols -> Int]
            BY DEF actual, Types, TopicTypes
      <4>2. actual' = After(actual, fill)
        <5>1. account' = Append(account, After(actual, fill))
              BY <2>2, <3>1 DEF FillOrder, After
        <5> QED
            BY <5>1 DEF actual, Types, TopicTypes
      <4> QED
          BY <3>2, <4>1, <4>2 DEF After
    <3>4. s = fill.symbol =>
             IF fill.side = "BUY" THEN actual[s] + fill.quantity <= Highest
                                  ELSE actual[s] - fill.quantity >= Lowest
      <4>1. (1 - 1) * Largest = 0
            BY <1>0
      <4>2. s = fill.symbol =>
             IF fill.side = "BUY"
             THEN actual[s] + (1 - 1) * Largest + fill.quantity <= Highest
             ELSE actual[s] - (1 - 1) * Largest - fill.quantity >= Lowest
            BY <3>1 DEF Pending
      <4> QED
          BY <2>0, <3>2, <4>1, <4>2
    <3>5. Lowest <= actual'[s] /\ actual'[s] <= Highest
          BY <1>0, <2>0, <3>2, <3>3, <3>4 DEF Signed
    <3> QED
        BY <2>2, <3>5, FillIsSmall
  <2> QED
      BY <2>1, <2>2
<1>2. ASSUME NEW s \in Symbols, NEW k \in 1..Len(orders'), orders'[k].symbol = s
      PROVE  IF orders'[k].side = "BUY"
             THEN actual'[s] + (k - 1) * Largest + orders'[k].quantity <= Highest
             ELSE actual'[s] - (k - 1) * Largest - orders'[k].quantity >= Lowest
  <2>1. /\ k + 1 \in 1..Len(orders) /\ orders'[k] = orders[k + 1]
        /\ orders[k + 1] \in Signals
        BY <1>0, <1>2
  <2>2. (k + 1 - 1) * Largest = (k - 1) * Largest + Largest /\ (k - 1) * Largest \in Int
    <3>1. k - 1 \in Int /\ (k - 1) + 1 = k + 1 - 1
          BY <1>2
    <3> QED
        BY <1>0, <3>1, TimesSucc
  <2>3. IF orders[k + 1].side = "BUY"
        THEN actual[s] + (k + 1 - 1) * Largest + orders[k + 1].quantity <= Highest
        ELSE actual[s] - (k + 1 - 1) * Largest - orders[k + 1].quantity >= Lowest
        BY <1>2, <2>1 DEF Pending
  <2>4. orders[k + 1].quantity \in Nat
        BY <2>1, RiskGatewayAssumption DEF Signals
  <2>5. /\ actual'[s] \in Int /\ actual[s] \in Int
        /\ actual'[s] <= actual[s] + Largest /\ actual'[s] >= actual[s] - Largest
        BY <1>1, <1>2
  <2>8. Largest \in Int /\ Highest \in Int /\ Lowest \in Int
        BY <1>0
  <2> DEFINE before == (k - 1) * Largest
             quantity == orders[k + 1].quantity
  <2>6. CASE orders[k + 1].side = "BUY"
    <3>1. actual[s] + (before + Largest) + quantity <= Highest
          BY <2>2, <2>3, <2>6
    <3>2. before \in Int /\ quantity \in Nat
          BY <2>2, <2>4
    <3> HIDE DEF before, quantity
    <3>3. actual'[s] + before + quantity <= Highest
      <4> DEFINE old == actual[s]  new == actual'[s]
      <4>1. old \in Int /\ new \in Int /\ new <= old + Largest
            BY <2>5
      <4>2. old + (before + Largest) + quantity <= Highest
            BY <3>1
      <4> HIDE DEF old, new
      <4>3. new + before + quantity <= Highest
            BY ONLY <4>1, <4>2, <2>8, <3>2
      <4> QED
          BY ONLY <4>3 DEF new
    <3> QED
        BY <2>1, <2>6, <3>3 DEF before, quantity
  <2>7. CASE orders[k + 1].side # "BUY"
    <3>1. actual[s] - (before + Largest) - quantity >= Lowest
          BY <2>2, <2>3, <2>7
    <3>2. before \in Int /\ quantity \in Nat
          BY <2>2, <2>4
    <3> HIDE DEF before, quantity
    <3>3. actual'[s] - before - quantity >= Lowest
          BY <2>5, <2>8, <3>1, <3>2, Spends
    <3> QED
        BY <2>1, <2>7, <3>3 DEF before, quantity
  <2> QED
      BY <2>6, <2>7
<1> QED
    BY <1>1, <1>2 DEF Pending

LEMMA PendingNext ==
    ASSUME BookInv, Small, Reading, Pending, [Next]_vars
    PROVE  Pending'
<1>1. CASE GatewayStep /\ OrderStep
      BY <1>1, ApprovedIsBounded
<1>2. CASE FillOrder \/ DropOrder
      BY <1>2, TakenIsBounded
<1>3. CASE UNCHANGED <<orders, account>>
      BY <1>3 DEF Pending, actual
<1> QED
    BY <1>1, <1>2, <1>3, OrdersGrowByOrderStep
       DEF Next, PostTradeStep, PostTrade, PollFill, SyncPortfolio, SyncFails,
           CommitFills, RestartPostTrade, StoreStep, vars

Bounded == BookInv /\ Synced /\ Small /\ Narrow /\ Reading /\ Pending

LEMMA BoundedInit == Init => Bounded
<1> SUFFICES ASSUME Init PROVE Bounded
    OBVIOUS
<1>1. BookInv
      BY BookInit
<1>2. /\ account = <<Flat>> /\ positions = Flat /\ fills = <<>> /\ orders = <<>>
      /\ position = 0 /\ ppc = "poll" /\ gpc = "poll" /\ unread = {}
      /\ redisUp /\ outages = 0 /\ restarts = 0
      BY DEF Init, StoreInit, GatewayInit, PostTradeInit
<1>3. /\ Len(account) = 1 /\ account[1] = Flat /\ actual = Flat
      /\ Len(orders) = 0 /\ Len(fills) = 0
      BY <1>2 DEF actual
<1>4. Synced
      BY <1>2, <1>3 DEF Synced
<1>5. Small
  <2>1. (1 - 1) * Largest = 0
        BY LargestIsNat
  <2> QED
      BY <1>3, <2>1 DEF Small, Flat
<1>6. Narrow
      BY <1>2, <1>3, TradingLoopAssumption DEF Narrow, UnderWay
<1>7. Reading
      BY <1>2 DEF Reading
<1>8. Pending
  <2>1. \A s \in Symbols : actual[s] = 0
        BY <1>3 DEF Flat
  <2>2. \A k \in 1..Len(orders) : FALSE
        BY <1>3
  <2> QED
      BY <2>1, <2>2, LimitsAreInt DEF Pending
<1> QED
    BY <1>1, <1>4, <1>5, <1>6, <1>7, <1>8 DEF Bounded

(* While Redis and post-trade stay up, orders under way carry a position   *)
(* past its limit by no more than Window - 1 of the largest orders on the  *)
(* long side and Window + 1 on the short side, whatever the limits, the    *)
(* symbols and the window, and although the gateway reads one symbol at a  *)
(* time from a portfolio that is behind the account.                       *)
THEOREM OvershootBounded == Spec => []OvershootIsBounded
<1> DEFINE Inv == BookInv /\ outages \in Nat /\ (Unbroken => Bounded)
<1>1. Init => Inv
      BY BoundedInit DEF Bounded, Init
<1>2. Inv /\ [Next]_vars => Inv'
  <2> SUFFICES ASSUME Inv, [Next]_vars PROVE Inv'
      OBVIOUS
  <2>1. BookInv'
        BY TypesNext, HistoryNext, BookNext, RedisNext DEF BookInv
  <2>2. outages' \in Nat
        BY DEF Next, GatewayStep, FillOrder, DropOrder, PostTradeStep, StoreStep, vars
  <2>3. ASSUME Unbroken'
        PROVE  Bounded'
    <3>1. Bounded /\ ~(PostTradeStep /\ RestartPostTrade)
          BY <2>3, UnbrokenBefore DEF BookInv
    <3>2. Synced'
          BY <2>3, <3>1, SyncedNext DEF Bounded
    <3>3. Small' /\ Narrow'
          BY <3>1, SmallNext, NarrowNext DEF Bounded, BookInv
    <3>4. Reading' /\ Pending'
          BY <3>1, ReadingNext, PendingNext DEF Bounded
    <3> QED
        BY <2>1, <3>2, <3>3, <3>4 DEF Bounded
  <2> QED
      BY <2>1, <2>2, <2>3
<1>3. Inv => OvershootIsBounded
  <2> SUFFICES ASSUME Bounded, NEW s \in Symbols
               PROVE  actual[s] <= Highest /\ actual[s] >= Lowest
      BY DEF OvershootIsBounded, LongOvershootIsBounded, ShortOvershootIsBounded,
             Highest, Lowest, Unbroken
  <2>1. actual[s] \in Int
        BY DEF Bounded, BookInv, Types, TopicTypes, actual
  <2> QED
      BY <2>1, LimitsAreInt DEF Bounded, Pending
<1> QED
    BY <1>1, <1>2, <1>3, PTL DEF Spec

=============================================================================
