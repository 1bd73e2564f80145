--------------------------- MODULE PortfolioStore ---------------------------
(***************************************************************************)
(* lib/quant_core/portfolio_state.py: the portfolio in Redis.  Post-trade  *)
(* writes it and the risk gateway reads it; both find Redis up or down.    *)
(***************************************************************************)
EXTENDS Integers, Sequences

CONSTANT Symbols

VARIABLES
    positions,  \* quantity of each symbol, 0 while it has no key
    redisUp     \* Redis answers

store == <<positions, redisUp>>

Flat == [s \in Symbols |-> 0]

StoreInit == positions = Flat /\ redisUp = TRUE

\* sync_portfolio_to_redis: one transaction, of the symbols the writer knows.
Write(book, known) ==
    /\ redisUp
    /\ positions' = [s \in Symbols |-> IF s \in known THEN book[s] ELSE positions[s]]
    /\ UNCHANGED redisUp

\* Redis stops answering, and answers again with what it held.
Outage == redisUp /\ redisUp' = FALSE /\ UNCHANGED positions

Recovery == ~redisUp /\ redisUp' = TRUE /\ UNCHANGED positions

=============================================================================
