----------------------------- MODULE RiskGateway ----------------------------
(***************************************************************************)
(* The risk gateway (services/risk-gateway/risk_gateway_svc): for each     *)
(* signal it asks the circuit breaker, reads the portfolio that post-trade *)
(* keeps in Redis, runs the risk checks, and publishes an order or a       *)
(* rejection.  Nothing catches the error that produce raises when the      *)
(* producer's queue is full, nor one of Redis: the consume thread ends,    *)
(* and the process stays up.  Quantities are whole numbers and every price *)
(* is 1, so that a quantity is its notional.                               *)
(***************************************************************************)
EXTENDS PortfolioStore

CONSTANTS
    Sides,          \* sides of the signals explored
    MaxQuantity,    \* largest target_quantity of a signal
    PositionLimit,  \* max_position_notional
    OrderLimit,     \* max_order_notional
    ExposureLimit,  \* max_total_exposure
    MaxSignals      \* bound on the signals explored

ASSUME RiskGatewayAssumption ==
    /\ Sides \subseteq {"BUY", "SELL"}
    /\ MaxQuantity \in Nat /\ PositionLimit \in Nat
    /\ OrderLimit \in Nat /\ ExposureLimit \in Nat /\ MaxSignals \in Nat

VARIABLES
    gpc,        \* where the consume loop is
    signal,     \* the signal in hand
    snapshot,   \* the positions read for it so far
    unread,     \* the symbols still to be read for it
    orders,     \* the orders topic, less what execution has consumed
    decisions,  \* [APPROVED, REJECTED]: risk events published, by decision
    audits,     \* approvals and rejections published to audit.log
    received    \* signals consumed (history)

gatewayVars == <<gpc, signal, snapshot, unread, decisions, audits, received>>

Signals == [symbol : Symbols, side : Sides, quantity : 1..MaxQuantity]

GatewayInit ==
    /\ gpc = "poll"
    /\ signal \in Signals
    /\ snapshot = Flat /\ unread = {}
    /\ orders = <<>>
    /\ decisions = [APPROVED |-> 0, REJECTED |-> 0]
    /\ audits = 0
    /\ received = 0

-----------------------------------------------------------------------------
(* risk_checks.py *)

Abs(x) == IF x < 0 THEN -x ELSE x

\* Mutant of PositionNotionalOk: the position held is checked without the order.
PositionNotionalOkOfHeld(sig, held) == Abs(held[sig.symbol]) <= PositionLimit

\* The side of the signal is not looked at: target_quantity has no sign.
PositionNotionalOk(sig, held) ==
    Abs(held[sig.symbol] + sig.quantity) <= PositionLimit

OrderNotionalOk(sig) == sig.quantity <= OrderLimit

\* The gateway passes no prices, so that the positions held weigh nothing.
TotalExposureOk(sig) == sig.quantity <= ExposureLimit

\* check_var is given no estimate and passes; check_drawdown is an input.
ChecksPass(sig, held, drawdownOk) ==
    /\ PositionNotionalOk(sig, held)
    /\ OrderNotionalOk(sig)
    /\ drawdownOk
    /\ TotalExposureOk(sig)

-----------------------------------------------------------------------------
(* The consume loop. *)

PollSignal ==
    /\ gpc = "poll" /\ received < MaxSignals
    /\ signal' \in Signals
    /\ received' = received + 1
    /\ gpc' = "breaker"
    /\ UNCHANGED <<store, snapshot, unread, orders, decisions, audits>>

Decide(decision) == decisions' = [decisions EXCEPT ![decision] = @ + 1]

\* The breaker answers TRUE, as it does when it cannot ask Redis.
BreakerBlocks ==
    /\ gpc = "breaker"
    /\ Decide("REJECTED")
    /\ gpc' = "poll"
    /\ UNCHANGED <<store, signal, snapshot, unread, orders, audits, received>>

\* It answers FALSE, from its cache perhaps.
BreakerPasses ==
    /\ gpc = "breaker"
    /\ gpc' = "read" /\ snapshot' = Flat /\ unread' = Symbols
    /\ UNCHANGED <<store, signal, orders, decisions, audits, received>>

\* One key at a time: what is read need not have been there at one time.
ReadPortfolio ==
    /\ gpc = "read" /\ redisUp
    /\ \E s \in unread :
          /\ snapshot' = [snapshot EXCEPT ![s] = positions[s]]
          /\ unread' = unread \ {s}
          /\ gpc' = IF unread = {s} THEN "check" ELSE "read"
    /\ UNCHANGED <<store, signal, orders, decisions, audits, received>>

\* Nothing catches a Redis error here: the consume thread ends.
ReadFails ==
    /\ gpc = "read" /\ ~redisUp
    /\ gpc' = "dead"
    /\ UNCHANGED <<store, signal, snapshot, unread, orders, decisions, audits,
                   received>>

Passes == ChecksPass(signal, snapshot, TRUE)

Fails == \E drawdownOk \in BOOLEAN : ~ChecksPass(signal, snapshot, drawdownOk)

\* With a drawdown between 3% and 10% the quantity is scaled down.
PublishOrder ==
    \E adjusted \in 1..signal.quantity :
        orders' = Append(orders, [signal EXCEPT !.quantity = adjusted])

Approve ==
    /\ gpc = "check" /\ Passes
    /\ Decide("APPROVED")
    /\ PublishOrder
    /\ audits' = audits + 1
    /\ gpc' = "poll"
    /\ UNCHANGED <<store, signal, snapshot, unread, received>>

\* Mutant of Reject: no decision is published.
RejectSilently ==
    /\ gpc = "check" /\ Fails
    /\ gpc' = "poll"
    /\ UNCHANGED <<store, signal, snapshot, unread, orders, decisions, audits,
                   received>>

Reject ==
    /\ gpc = "check" /\ Fails
    /\ Decide("REJECTED")
    /\ audits' = audits + 1
    /\ gpc' = "poll"
    /\ UNCHANGED <<store, signal, snapshot, unread, orders, received>>

\* The queue is full at the decision, whoever takes it;
DecisionFails ==
    /\ gpc \in {"breaker", "check"}
    /\ gpc' = "dead"
    /\ UNCHANGED <<store, signal, snapshot, unread, orders, decisions, audits,
                   received>>

\* at the order, whose approval is published already;
OrderFails ==
    /\ gpc = "check" /\ Passes
    /\ Decide("APPROVED")
    /\ gpc' = "dead"
    /\ UNCHANGED <<store, signal, snapshot, unread, orders, audits, received>>

\* at the entry of the audit log.
AuditFails ==
    /\ gpc = "check"
    /\ \/ Passes /\ Decide("APPROVED") /\ PublishOrder
       \/ Fails /\ Decide("REJECTED") /\ UNCHANGED orders
    /\ gpc' = "dead"
    /\ UNCHANGED <<store, signal, snapshot, unread, audits, received>>

Gateway ==
    \/ PollSignal \/ BreakerBlocks \/ BreakerPasses
    \/ ReadPortfolio \/ ReadFails \/ Approve \/ Reject
    \/ DecisionFails \/ OrderFails \/ AuditFails

=============================================================================
