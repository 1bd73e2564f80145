------------------------------- MODULE PnL ----------------------------------
(***************************************************************************)
(* The profit and loss engine of the post-trade service                    *)
(* (services/post-trade/post_trade_svc/pnl.py): positions at average cost. *)
(* Amounts are integers in a unit small enough for the averages of an      *)
(* instance to be exact.                                                   *)
(***************************************************************************)
EXTENDS Integers, FiniteSetsExt, Functions

NoPosition == [quantity |-> 0, avg |-> 0, realized |-> 0, fees |-> 0]

Size(n) == IF n < 0 THEN -n ELSE n

Change(fill) == IF fill.side = "BUY" THEN fill.quantity ELSE -fill.quantity

\* The fill increases what is held, or opens it.
Increases(held, change) == held = 0 \/ (held > 0 <=> change > 0)

Average(held, avg, change, price) ==
    (avg * Size(held) + price * Size(change)) \div (Size(held) + Size(change))

\* What closing `change` of the position yields.
Yield(position, change, price) ==
    LET closed == Min({Size(change), Size(position.quantity)})
    IN  IF position.quantity > 0 THEN closed * (price - position.avg)
                                 ELSE closed * (position.avg - price)

RealizedBy(position, fill) ==
    IF Increases(position.quantity, Change(fill)) THEN 0
    ELSE Yield(position, Change(fill), fill.price)

\* Mutant of EntryPrice: a position that changed sides keeps its old entry.
EntryPriceKept(position, fill) ==
    IF Increases(position.quantity, Change(fill))
    THEN Average(position.quantity, position.avg, Change(fill), fill.price)
    ELSE position.avg

EntryPrice(position, fill) ==
    LET held == position.quantity + Change(fill)
    IN  IF Increases(position.quantity, Change(fill))
        THEN Average(position.quantity, position.avg, Change(fill), fill.price)
        ELSE IF held # 0 /\ (held > 0 <=> Change(fill) > 0) THEN fill.price
        ELSE position.avg

Applied(position, fill) ==
    [quantity |-> position.quantity + Change(fill),
     avg      |-> EntryPrice(position, fill),
     realized |-> position.realized + RealizedBy(position, fill),
     fees     |-> position.fees + fill.fee]

\* Mutant of Unrealized: a short position gains when the price rises.
UnrealizedUnsigned(position, price) ==
    Size(position.quantity) * (price - position.avg)

Unrealized(position, price) == position.quantity * (price - position.avg)

TotalRealized(positions) ==
    SumFunction([s \in DOMAIN positions |-> positions[s].realized])

TotalFees(positions) ==
    SumFunction([s \in DOMAIN positions |-> positions[s].fees])

\* `priced` are the symbols with a price; the others weigh at their entry.
TotalUnrealized(positions, prices, priced) ==
    SumFunction([s \in priced |-> Unrealized(positions[s], prices[s])])

=============================================================================
