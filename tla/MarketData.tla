----------------------------- MODULE MarketData -----------------------------
(***************************************************************************)
(* The market data service (services/market-data/market_data_svc): a       *)
(* WebSocket to the exchange, opened again whenever it breaks, and a Kafka *)
(* producer, for the depth of one symbol.  The exchange sends a change of  *)
(* its book to whoever is subscribed at the time; its snapshot is of a     *)
(* type that _consume skips.  A batch of changes is one change here.       *)
(***************************************************************************)
EXTENDS OrderBook, SequencesExt

CONSTANTS
    QueueMax,    \* messages the producer's queue holds
    MaxChanges,  \* bound on the changes of the exchange's book explored
    MaxLosses    \* bound on the failures explored

ASSUME MarketDataAssumption == {QueueMax, MaxChanges, MaxLosses} \subseteq Nat

VARIABLES
    exchange,  \* the exchange's book
    ws,        \* where ExchangeWebSocket.start is; "down" between processes
    wire,      \* changes sent to the connection and not yet read
    queue,     \* the producer's queue
    depthLog,  \* the raw.depth topic
    lost,      \* the levels whose last change will not arrive (history)
    changes,   \* changes of the exchange's book (history)
    losses     \* failures so far (history)

marketVars == <<exchange, ws, wire, queue, depthLog, lost, changes, losses>>

MarketInit ==
    /\ exchange \in Books /\ ~Crossed(exchange)
    /\ ws = "connecting" /\ wire = <<>> /\ queue = <<>> /\ depthLog = <<>>
    /\ lost = {l \in Levels : exchange[l] # 0}
    /\ changes = 0 /\ losses = 0

LevelsOf(messages) == {m.level : m \in ToSet(messages)}

Lose == losses < MaxLosses /\ losses' = losses + 1

-----------------------------------------------------------------------------
\* The exchange changes a level and tells the subscriber.
Change ==
    /\ changes < MaxChanges
    /\ changes' = changes + 1
    /\ \E c \in Changes :
          /\ c.size # exchange[c.level]
          /\ exchange' = [exchange EXCEPT ![c.level] = c.size] /\ ~Crossed(exchange')
          /\ IF ws = "live" THEN wire' = Append(wire, c) /\ lost' = lost \ {c.level}
             ELSE UNCHANGED wire /\ lost' = lost \cup {c.level}
    /\ UNCHANGED <<ws, queue, depthLog, losses>>

-----------------------------------------------------------------------------
(* ExchangeWebSocket. *)

Connect ==
    /\ ws = "connecting"
    /\ ws' = "open"
    /\ UNCHANGED <<exchange, wire, queue, depthLog, lost, changes, losses>>

Subscribe ==
    /\ ws = "open"
    /\ ws' = "live"
    /\ UNCHANGED <<exchange, wire, queue, depthLog, lost, changes, losses>>

\* The exchange answers with an error, of a type that _consume skips.
Refuse ==
    /\ ws = "open" /\ Lose
    /\ ws' = "silent"
    /\ UNCHANGED <<exchange, wire, queue, depthLog, lost, changes>>

\* Connecting fails, or the connection breaks with what it still held.
Disconnect ==
    /\ ws \in {"connecting", "open", "silent", "live"} /\ Lose
    /\ ws' = "backoff"
    /\ lost' = lost \cup LevelsOf(wire) /\ wire' = <<>>
    /\ UNCHANGED <<exchange, queue, depthLog, changes>>

\* Mutant of Reconnect: the second failure is the last.
ReconnectOnce ==
    /\ ws = "backoff" /\ losses < 2
    /\ ws' = "connecting"
    /\ UNCHANGED <<exchange, wire, queue, depthLog, lost, changes, losses>>

\* After the sleep.
Reconnect ==
    /\ ws = "backoff"
    /\ ws' = "connecting"
    /\ UNCHANGED <<exchange, wire, queue, depthLog, lost, changes, losses>>

\* _consume reads a message, normalises and produces it.
Receive ==
    /\ ws = "live" /\ wire # <<>> /\ Len(queue) < QueueMax
    /\ queue' = Append(queue, Head(wire)) /\ wire' = Tail(wire)
    /\ UNCHANGED <<exchange, ws, depthLog, lost, changes, losses>>

\* produce raises, as with a full queue; _consume logs it and goes on.
ReceiveFails ==
    /\ ws = "live" /\ wire # <<>> /\ Lose
    /\ wire' = Tail(wire)
    /\ lost' = lost \cup ({Head(wire).level} \ LevelsOf(wire'))
    /\ UNCHANGED <<exchange, ws, queue, depthLog, changes>>

-----------------------------------------------------------------------------
(* The producer: not idempotent, any number of requests in flight. *)

\* Mutant of Deliver: a message waits for a second one.
DeliverPairs ==
    /\ Len(queue) > 1
    /\ depthLog' = Append(depthLog, Head(queue)) /\ queue' = Tail(queue)
    /\ UNCHANGED <<exchange, ws, wire, lost, changes, losses>>

Deliver ==
    /\ queue # <<>>
    /\ depthLog' = Append(depthLog, Head(queue)) /\ queue' = Tail(queue)
    /\ UNCHANGED <<exchange, ws, wire, lost, changes, losses>>

\* A request fails and is sent again behind one that came after it.
DeliverLate ==
    /\ Lose
    /\ \E i \in 2..Len(queue) :
          /\ depthLog' = Append(depthLog, queue[i]) /\ queue' = RemoveAt(queue, i)
          /\ lost' = lost \cup ({queue[i].level} \cap LevelsOf(SubSeq(queue, 1, i - 1)))
    /\ UNCHANGED <<exchange, ws, wire, changes>>

\* The broker's answer is lost and the request is sent again.
DeliverTwice ==
    /\ queue # <<>> /\ Lose
    /\ depthLog' = Append(depthLog, Head(queue))
    /\ UNCHANGED <<exchange, ws, wire, queue, lost, changes>>

\* message.timeout.ms goes by: the callback logs an error.
DeliverFails ==
    /\ queue # <<>> /\ Lose
    /\ queue' = Tail(queue)
    /\ lost' = lost \cup ({Head(queue).level} \ LevelsOf(queue' \o wire))
    /\ UNCHANGED <<exchange, ws, wire, depthLog, changes>>

-----------------------------------------------------------------------------
(* The process. *)

\* A signal: stop() closes the connection, then the publisher flushes.
Stop ==
    /\ ws \in {"connecting", "open", "silent", "live", "backoff"} /\ Lose
    /\ ws' = "flush"
    /\ lost' = lost \cup LevelsOf(wire) /\ wire' = <<>>
    /\ UNCHANGED <<exchange, queue, depthLog, changes>>

Flushed ==
    /\ ws = "flush" /\ queue = <<>>
    /\ ws' = "down"
    /\ UNCHANGED <<exchange, wire, queue, depthLog, lost, changes, losses>>

\* A crash, or a flush that takes more than its ten seconds.
CrashMarketData ==
    /\ ws # "down" /\ Lose
    /\ ws' = "down"
    /\ lost' = lost \cup LevelsOf(wire \o queue)
    /\ wire' = <<>> /\ queue' = <<>>
    /\ UNCHANGED <<exchange, depthLog, changes>>

StartMarketData ==
    /\ ws = "down"
    /\ ws' = "connecting"
    /\ UNCHANGED <<exchange, wire, queue, depthLog, lost, changes, losses>>

MarketData ==
    \/ Change \/ Connect \/ Subscribe \/ Refuse \/ Disconnect \/ Reconnect
    \/ Receive \/ ReceiveFails
    \/ Deliver \/ DeliverLate \/ DeliverTwice \/ DeliverFails
    \/ Stop \/ Flushed \/ CrashMarketData \/ StartMarketData

=============================================================================
