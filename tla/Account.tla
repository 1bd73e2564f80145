------------------------------ MODULE Account -------------------------------
(***************************************************************************)
(* What a ledger promises: every fill moves cash against inventory and     *)
(* pays its fee, and nothing else does.                                    *)
(***************************************************************************)
EXTENDS Integers

CONSTANTS
    Symbols,     \* symbols that are traded
    Quantities,  \* sizes of a fill
    Prices,      \* prices of a fill
    Fees         \* fees of a fill

VARIABLES
    cash,        \* of each symbol: received for it less paid for it
    inventory    \* of each symbol: the signed quantity held

Init ==
    /\ cash = [s \in Symbols |-> 0]
    /\ inventory = [s \in Symbols |-> 0]

Buy(s, quantity) ==
    /\ inventory' = [inventory EXCEPT ![s] = @ + quantity]
    /\ \E price \in Prices, fee \in Fees :
          cash' = [cash EXCEPT ![s] = @ - quantity * price - fee]

Sell(s, quantity) ==
    /\ inventory' = [inventory EXCEPT ![s] = @ - quantity]
    /\ \E price \in Prices, fee \in Fees :
          cash' = [cash EXCEPT ![s] = @ + quantity * price - fee]

Next ==
    \E s \in Symbols, quantity \in Quantities :
        Buy(s, quantity) \/ Sell(s, quantity)

Spec == Init /\ [][Next]_<<cash, inventory>>

=============================================================================
