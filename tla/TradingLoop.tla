----------------------------- MODULE TradingLoop ----------------------------
(***************************************************************************)
(* The loop a trade goes round: signal, risk gateway, orders, execution,   *)
(* fills, post-trade, the portfolio in Redis, and back to the gateway.     *)
(* Execution is modelled in detail by module Execution; here it takes the  *)
(* next order and either fills it or drops it.                             *)
(***************************************************************************)
EXTENDS RiskGateway, PostTrade, SequencesExt

CONSTANTS
    Window,     \* bound: signals, orders and fills under way at one time
    MaxOutages  \* bound on the outages of Redis explored

ASSUME TradingLoopAssumption == Window \in Nat \ {0} /\ MaxOutages \in Nat

VARIABLES
    account,  \* the positions after each fill, from none on (history)
    outages   \* outages of Redis so far (history)

vars == <<store, gatewayVars, orders, fills, postTradeVars, account, outages>>

\* The positions that the fills make.
actual == account[Len(account)]

Init ==
    /\ StoreInit /\ GatewayInit /\ PostTradeInit
    /\ account = <<Flat>> /\ outages = 0

UnderWay ==
    (IF gpc \in {"poll", "dead"} THEN 0 ELSE 1) + Len(orders)
    + (Len(fills) - position) + (IF ppc = "sync" THEN 1 ELSE 0)

FillOrder ==
    /\ orders # <<>>
    /\ fills' = Append(fills, Head(orders))
    /\ account' = Append(account,
           [actual EXCEPT ![Head(orders).symbol] =
                @ + Signed(Head(orders).side, Head(orders).quantity)])
    /\ orders' = Tail(orders)
    /\ UNCHANGED <<store, gatewayVars, postTradeVars, outages>>

\* The breaker, missing market data or the exchange.
DropOrder ==
    /\ orders # <<>>
    /\ orders' = Tail(orders)
    /\ UNCHANGED <<store, gatewayVars, fills, postTradeVars, account, outages>>

GatewayStep ==
    /\ gpc = "poll" => UnderWay < Window
    /\ Gateway
    /\ UNCHANGED <<fills, postTradeVars, account, outages>>

PostTradeStep == PostTrade /\ UNCHANGED <<gatewayVars, orders, account, outages>>

StoreStep ==
    /\ \/ Outage /\ outages < MaxOutages /\ outages' = outages + 1
       \/ Recovery /\ UNCHANGED outages
    /\ UNCHANGED <<gatewayVars, orders, fills, postTradeVars, account>>

Next == GatewayStep \/ FillOrder \/ DropOrder \/ PostTradeStep \/ StoreStep

Spec == Init /\ [][Next]_vars

-----------------------------------------------------------------------------
(* Fairness: the consume loops run, execution takes what is in the orders  *)
(* topic, and Redis comes back.                                            *)
Fairness ==
    /\ WF_vars(GatewayStep)
    /\ WF_vars(FillOrder \/ DropOrder)
    /\ WF_vars(PollFill /\ PostTradeStep)
    /\ WF_vars((SyncPortfolio \/ SyncFails) /\ PostTradeStep)
    /\ WF_vars(Recovery /\ StoreStep)

FairSpec == Spec /\ Fairness

Published == decisions.APPROVED + decisions.REJECTED

\* The portfolio in Redis is one that the account had at some time.
PortfolioIsReal == \E n \in DOMAIN account : positions = account[n]

\* The largest order the gateway lets through.
Largest == IF MaxQuantity <= OrderLimit THEN MaxQuantity ELSE OrderLimit

-----------------------------------------------------------------------------
(* The types of the variables. *)
TypeOK ==
    /\ positions \in [Symbols -> Int] /\ redisUp \in BOOLEAN
    /\ gpc \in {"poll", "breaker", "read", "check", "dead"}
    /\ signal \in Signals /\ snapshot \in [Symbols -> Int] /\ unread \subseteq Symbols
    /\ orders \in Seq(Signals) /\ fills \in Seq(Signals)
    /\ decisions \in [APPROVED : Nat, REJECTED : Nat]
    /\ audits \in Nat /\ received \in 0..MaxSignals
    /\ position \in 0..Len(fills) /\ committed \in {NoOffset} \cup 0..Len(fills)
    /\ ppc \in {"poll", "sync"} /\ book \in [Symbols -> Int] /\ known \subseteq Symbols
    /\ taken \in Nat /\ unwritten \in BOOLEAN /\ restarts \in 0..MaxRestarts
    /\ account \in Seq([Symbols -> Int]) /\ Len(account) = Len(fills) + 1
    /\ outages \in 0..MaxOutages

(* A position exceeds the limit on the long side only by the orders that   *)
(* were under way when the gateway read the portfolio.                     *)
LongOvershootIsBounded ==
    \A s \in Symbols : actual[s] <= PositionLimit + (Window - 1) * Largest

(* On the short side, where the check adds what the order takes away, by   *)
(* two orders more.                                                        *)
ShortOvershootIsBounded ==
    \A s \in Symbols : actual[s] >= -(PositionLimit + (Window + 1) * Largest)

(* How far orders under way can carry a position past its limit, while     *)
(* Redis and post-trade have stayed up: a portfolio that is written late   *)
(* or not at all lets any number of orders through.                        *)
OvershootIsBounded ==
    outages = 0 /\ restarts = 0 => LongOvershootIsBounded /\ ShortOvershootIsBounded

(* While post-trade keeps its book, the portfolio in Redis is one that the *)
(* account had, whatever writes fail: stale perhaps, never torn.           *)
StaleNeverTorn == restarts = 0 => PortfolioIsReal

(* Post-trade's book is exactly the fills it was handed since it started,  *)
(* and those are a piece of the topic without a gap.                       *)
BookIsWhatWasTaken ==
    /\ taken <= position
    /\ \A s \in Symbols :
          book[s] = account[position + 1][s] - account[position - taken + 1][s]

(* The portfolio in Redis settles at the positions that the fills make,    *)
(* through an outage and the end of the gateway's thread, unless the last  *)
(* write to it failed: nothing but another fill makes up for that.         *)
LoopSettles == <>[](positions = actual \/ unwritten)

(* Every signal the gateway takes is decided, one way or the other; only   *)
(* the last one it ever takes can stay undecided, when an error of Redis   *)
(* or a full queue ends the consume thread with it in hand.                *)
EverySignalIsDecided ==
    \A n \in 1..MaxSignals :
        received >= n ~> Published >= n \/ (gpc = "dead" /\ received = n)

-----------------------------------------------------------------------------
(* Where the positions stay within the limit, and where they do not. *)

(* The position limit holds of the positions that the fills make.          *)
PositionWithinLimit == \A s \in Symbols : Abs(actual[s]) <= PositionLimit

(* The exposure limit holds of all positions together.                     *)
ExposureWithinLimit ==
    FoldFunction(LAMBDA q, sum : Abs(q) + sum, 0, actual) <= ExposureLimit

(* Every approval and rejection is published to the audit log.             *)
EveryDecisionIsAudited == gpc = "poll" => audits = Published

(* Post-trade is the source of truth of the portfolio, also after it was   *)
(* restarted: what it writes to Redis the account has had.                 *)
RestartedBookIsReal == restarts > 0 => PortfolioIsReal

(* The gateway fails safe: an error rejects the signal it has in hand.     *)
EveryTakenSignalIsDecided ==
    \A n \in 1..MaxSignals : received >= n ~> Published >= n

(* When nothing is under way, Redis holds the positions of the account.    *)
RedisIsCurrentAtRest == UnderWay = 0 => positions = actual

=============================================================================
