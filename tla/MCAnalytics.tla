---------------------------- MODULE MCAnalytics -----------------------------
EXTENDS Analytics

CONSTANTS BTC, ETH

U == 1260 \* prices are multiples of it, and the averages that come about exact

Order(symbol, side, type, quantity, mid, limit, depth) ==
    [symbol |-> symbol, side |-> side, type |-> type, quantity |-> quantity,
     mid |-> mid, spread |-> 2 * U, limit |-> limit, depth |-> depth]

Level(price, size) == [price |-> price, size |-> size]

\* One symbol goes every way, the other stands beside it.
SomeOrders ==
    {Order(BTC, "BUY", "MARKET", 1, 2*U, NoLimit, <<>>),
     Order(BTC, "BUY", "MARKET", 2, 2*U, NoLimit, <<Level(3*U, 1), Level(5*U, 2)>>),
     Order(BTC, "SELL", "LIMIT", 1, 2*U, 2*U, <<>>),
     Order(BTC, "SELL", "MARKET", 2, 4*U, NoLimit, <<Level(3*U, 1)>>),
     Order(ETH, "SELL", "LIMIT", 1, 2*U, NoLimit, <<>>)}

SomeTrades ==
    {[symbol |-> BTC, price |-> 2*U, at |-> 2],
     [symbol |-> BTC, price |-> 4*U, at |-> 3],
     [symbol |-> ETH, price |-> 4*U, at |-> 3]}

\* The one of the other symbol was sent before its book had a level.
SomeSignals ==
    {[symbol |-> BTC, mid |-> 2*U, at |-> 1], [symbol |-> ETH, mid |-> 0, at |-> 1]}

Schedule == <<[below |-> 3*U, maker |-> 2, taker |-> 4],
              [below |-> 9*U, maker |-> 1, taker |-> 2],
              [below |-> 15*U, maker |-> 0, taker |-> 1]>>

ByTiers == Tiered

SomePrices == {k * U : k \in 1..5}

\* What the orders above can pay.
SomeFees == {(q * k * U * r) \div RateUnit : q \in {1, 2}, k \in 1..5, r \in {0, 1, 2, 4}}

=============================================================================
