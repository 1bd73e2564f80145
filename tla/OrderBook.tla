------------------------------ MODULE OrderBook -----------------------------
(***************************************************************************)
(* services/alpha-engine/alpha_engine_svc/order_book.py: a book of price   *)
(* levels kept up to date from incremental changes.  A book maps each      *)
(* level, a side and a price, to its size; size 0 is a level that is not   *)
(* in the dictionary.                                                      *)
(***************************************************************************)
EXTENDS Integers, FiniteSetsExt

CONSTANTS
    Prices,  \* prices explored
    MaxSize  \* largest size explored

ASSUME OrderBookAssumption ==
    /\ Prices \subseteq Nat \ {0} /\ IsFiniteSet(Prices)
    /\ MaxSize \in Nat \ {0}

Levels == {"bid", "ask"} \X Prices

Books == [Levels -> 0..MaxSize]

EmptyBook == [l \in Levels |-> 0]

\* One entry of update.bids or update.asks.
Changes == [level : Levels, size : 0..MaxSize]

\* Mutant of ApplyDelta: a quantity of zero removes nothing.
ApplyDeltaKeepingZeros(book, change) ==
    IF change.size = 0 THEN book ELSE [book EXCEPT ![change.level] = change.size]

\* A quantity of zero removes the level, any other replaces it.
ApplyDelta(book, change) == [book EXCEPT ![change.level] = change.size]

PricesOf(book, side) == {p \in Prices : book[<<side, p>>] > 0}

\* best_bid() >= best_ask(): no exchange shows such a book.
Crossed(book) ==
    /\ PricesOf(book, "bid") # {} /\ PricesOf(book, "ask") # {}
    /\ Max(PricesOf(book, "bid")) >= Min(PricesOf(book, "ask"))

=============================================================================
