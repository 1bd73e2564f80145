------------------------------ MODULE PostTrade -----------------------------
(***************************************************************************)
(* The post-trade service (services/post-trade/post_trade_svc): it applies *)
(* each fill to the positions it keeps in memory and then writes them to   *)
(* Redis (lib/quant_core/portfolio_state.py), in one transaction.  Nothing *)
(* is read back: a restart begins flat, at the committed offset.           *)
(***************************************************************************)
EXTENDS PortfolioStore

CONSTANT
    MaxRestarts  \* bound on the restarts explored

ASSUME PostTradeAssumption == MaxRestarts \in Nat

VARIABLES
    fills,      \* the fills topic
    position,   \* fills handed out
    committed,  \* the group's committed offset, NoOffset at first
    ppc,        \* where the consume loop is
    book,       \* PortfolioPnL.positions: signed quantity of each symbol
    known,      \* the symbols it has
    taken,      \* fills handed out since the last restart
    unwritten,  \* the last write to Redis failed (history)
    restarts    \* restarts so far (history)

postTradeVars ==
    <<position, committed, ppc, book, known, taken, unwritten, restarts>>

NoOffset == -1

PostTradeInit ==
    /\ fills = <<>> /\ position = 0 /\ committed = NoOffset
    /\ ppc = "poll" /\ book = Flat /\ known = {} /\ taken = 0
    /\ unwritten = FALSE /\ restarts = 0

Signed(side, quantity) == IF side = "BUY" THEN quantity ELSE -quantity

\* Mutant of ApplyFill: a SELL is applied as a BUY.
ApplyFillUnsigned(fill) ==
    book' = [book EXCEPT ![fill.symbol] = @ + fill.quantity]

ApplyFill(fill) ==
    book' = [book EXCEPT ![fill.symbol] = @ + Signed(fill.side, fill.quantity)]

PollFill ==
    /\ ppc = "poll" /\ position < Len(fills)
    /\ ApplyFill(fills[position + 1])
    /\ known' = known \cup {fills[position + 1].symbol}
    /\ position' = position + 1
    /\ taken' = taken + 1
    /\ ppc' = "sync"
    /\ UNCHANGED <<store, fills, committed, unwritten, restarts>>

\* Mutants of SyncPortfolio: what Redis holds already is not rewritten; a
\* write waits for a second fill.
SyncNewSymbols ==
    /\ ppc = "sync"
    /\ Write(book, {s \in known : positions[s] = 0})
    /\ ppc' = "poll"
    /\ unwritten' = FALSE
    /\ UNCHANGED <<fills, position, committed, book, known, taken, restarts>>

SyncPairs ==
    /\ ppc = "sync" /\ taken % 2 = 0
    /\ Write(book, known)
    /\ ppc' = "poll"
    /\ unwritten' = FALSE
    /\ UNCHANGED <<fills, position, committed, book, known, taken, restarts>>

SyncPortfolio ==
    /\ ppc = "sync"
    /\ Write(book, known)
    /\ ppc' = "poll"
    /\ unwritten' = FALSE
    /\ UNCHANGED <<fills, position, committed, book, known, taken, restarts>>

\* The error is logged; the next fill writes everything again.
SyncFails ==
    /\ ppc = "sync" /\ ~redisUp
    /\ ppc' = "poll" /\ unwritten' = TRUE
    /\ UNCHANGED <<store, fills, position, committed, book, known, taken, restarts>>

CommitFills ==
    /\ taken > 0 /\ committed # position
    /\ committed' = position
    /\ UNCHANGED <<store, fills, position, ppc, book, known, taken,
                   unwritten, restarts>>

\* The process dies and starts again; without an offset, at the end.
RestartPostTrade ==
    /\ restarts < MaxRestarts
    /\ restarts' = restarts + 1
    /\ position' = IF committed = NoOffset THEN Len(fills) ELSE committed
    /\ ppc' = "poll" /\ book' = Flat /\ known' = {} /\ taken' = 0
    /\ UNCHANGED <<store, fills, committed, unwritten>>

PostTrade ==
    \/ PollFill \/ SyncPortfolio \/ SyncFails \/ CommitFills \/ RestartPostTrade

=============================================================================
