------------------------------- MODULE Storage ------------------------------
(***************************************************************************)
(* The storage service (services/storage/storage_svc): one thread polls    *)
(* market data from Kafka into two buffers in memory, commits the offsets, *)
(* and copies the buffers to TimescaleDB once they are full or old.  The   *)
(* two topics are one log here; a row is the offset of its message.        *)
(***************************************************************************)
EXTENDS Integers, SequencesExt

CONSTANTS
    Kinds,             \* kinds of message explored
    BatchSize,         \* BATCH_SIZE: rows that make a buffer full
    PollMax,           \* max_messages of one poll
    SnapshotInterval,  \* BOOK_SNAPSHOT_INTERVAL
    MaxMessages,       \* bound on the messages explored
    MaxCrashes,        \* bound on the crashes explored
    MaxWriteFailures,  \* bound on the failed inserts explored
    MaxCommitFailures  \* bound on the failed commits explored

\* A thin update has an empty side; what is malformed does not parse.
ASSUME StorageAssumption ==
    /\ Kinds \subseteq {"trade", "depth", "thin", "malformed"}
    /\ {BatchSize, PollMax, SnapshotInterval} \subseteq Nat \ {0}
    /\ {MaxMessages, MaxCrashes, MaxWriteFailures, MaxCommitFailures} \subseteq Nat

VARIABLES
    log,            \* kinds of the messages in Kafka
    committed,      \* committed offset, NoOffset before the first commit
    position,       \* messages handed out, counted from the log's start
    taken,          \* messages handed out since the process started
    pc,             \* where main() is
    running,        \* no signal has come yet
    depthCount,     \* _book_update_counter
    trades, books,  \* _trade_buffer and _book_buffer
    flushing,       \* [trades, books]: what the flush under way still has
    tradeTable, bookTable,  \* rows in TimescaleDB
    handed,         \* the messages that were ever handed out (history)
    crashes, writeFailures, commitFailures  \* how many so far (history)

offsets == <<log, committed, position, taken>>
buffers == <<trades, books, flushing>>
process == <<position, taken, pc, running, depthCount, buffers>>
tables == <<tradeTable, bookTable>>
history == <<handed, crashes, writeFailures, commitFailures>>
vars == <<log, committed, process, tables, history>>

NoOffset == -1
Nothing == [trades |-> <<>>, books |-> <<>>]

Init ==
    /\ log = <<>> /\ committed = NoOffset /\ position = 0 /\ taken = 0
    /\ pc = "poll" /\ running = TRUE
    /\ depthCount = 0 /\ trades = <<>> /\ books = <<>> /\ flushing = Nothing
    /\ tradeTable = <<>> /\ bookTable = <<>>
    /\ handed = {} /\ crashes = 0 /\ writeFailures = 0 /\ commitFailures = 0

\* Market data publishes a message.
Publish ==
    /\ Len(log) < MaxMessages
    /\ \E k \in Kinds : log' = Append(log, k)
    /\ UNCHANGED <<committed, process, tables, history>>

-----------------------------------------------------------------------------
(* process_batch. *)

Depths(m, n) == {o \in m + 1 .. n : log[o] \in {"depth", "thin"}}

\* The offsets S, as the loop over the messages comes to them.
InOrder(S) ==
    CHOOSE rows \in [1..Cardinality(S) -> S] :
        \A i, j \in DOMAIN rows : i < j => rows[i] < rows[j]

\* Mutant of TradeRows: the newest trade first.
TradeRowsNewestFirst(m, n) == Reverse(InOrder({o \in m + 1 .. n : log[o] = "trade"}))

TradeRows(m, n) == InOrder({o \in m + 1 .. n : log[o] = "trade"})

\* Every SnapshotInterval-th update is kept, if it has both sides.
BookRows(m, n) ==
    InOrder({o \in m + 1 .. n :
        /\ log[o] = "depth"
        /\ (depthCount + Cardinality(Depths(m, o))) % SnapshotInterval = 0})

PollBatch ==
    /\ pc = "poll" /\ running
    /\ \E n \in position + 1 .. Len(log) :
          /\ n - position <= PollMax
          /\ trades' = trades \o TradeRows(position, n)
          /\ books' = books \o BookRows(position, n)
          /\ depthCount' = (depthCount + Cardinality(Depths(position, n)))
                               % SnapshotInterval
          /\ position' = n /\ taken' = taken + (n - position)
          /\ handed' = handed \cup (position + 1 .. n)
    /\ pc' = "commit"
    /\ UNCHANGED <<log, committed, running, flushing, tables, crashes,
                   writeFailures, commitFailures>>

\* No message, or an error of the broker, which ends main.
PollNothing ==
    /\ pc = "poll" /\ running
    /\ pc' \in {"check", "final"}
    /\ UNCHANGED <<offsets, running, depthCount, buffers, tables, history>>

\* Synchronous, of everything handed out, and before any of it is written.
Commit ==
    /\ pc = "commit"
    /\ committed' = position
    /\ pc' = "check"
    /\ UNCHANGED <<log, position, taken, running, depthCount, buffers, tables,
                   history>>

\* Nothing catches the KafkaException before main's finally.
CommitFails ==
    /\ pc = "commit" /\ commitFailures < MaxCommitFailures
    /\ commitFailures' = commitFailures + 1
    /\ pc' = "final"
    /\ UNCHANGED <<offsets, running, depthCount, buffers, tables, handed, crashes,
                   writeFailures>>

\* librdkafka's timer, of what the poll has handed out by then.
AutoCommit ==
    /\ pc # "down"
    /\ committed' \in position - taken + 1 .. position /\ committed' > committed
    /\ UNCHANGED <<log, process, tables, history>>

-----------------------------------------------------------------------------
(* flush: the buffers are emptied first, then each is copied to its table. *)

TakeBuffers(next) ==
    /\ flushing' = [trades |-> trades, books |-> books]
    /\ trades' = <<>> /\ books' = <<>>
    /\ pc' = next

Full == Len(trades) >= BatchSize \/ Len(books) >= BatchSize

\* Mutant of Flush: a buffer that is not full waits.
FlushWhenFull ==
    /\ pc = "check" /\ Full
    /\ TakeBuffers("flush")
    /\ UNCHANGED <<offsets, running, depthCount, tables, history>>

\* Full buffers are flushed, others once BATCH_TIMEOUT_MS has gone by.
Flush ==
    /\ pc = "check" /\ (trades # <<>> \/ books # <<>>)
    /\ TakeBuffers("flush")
    /\ UNCHANGED <<offsets, running, depthCount, tables, history>>

SkipFlush ==
    /\ pc = "check" /\ ~Full
    /\ pc' = "poll"
    /\ UNCHANGED <<offsets, running, depthCount, buffers, tables, history>>

\* Mutant of WriteTrades: what was taken is kept, to be written again.
WriteTradesAndKeep ==
    /\ pc \in {"flush", "finalFlush"} /\ flushing.trades # <<>>
    /\ tradeTable' = tradeTable \o flushing.trades
    /\ flushing' = [flushing EXCEPT !.trades = <<>>]
    /\ trades' = flushing.trades
    /\ UNCHANGED <<offsets, pc, running, depthCount, books, bookTable, history>>

\* One COPY, all or nothing.
WriteTrades ==
    /\ pc \in {"flush", "finalFlush"} /\ flushing.trades # <<>>
    /\ tradeTable' = tradeTable \o flushing.trades
    /\ flushing' = [flushing EXCEPT !.trades = <<>>]
    /\ UNCHANGED <<offsets, pc, running, depthCount, trades, books, bookTable,
                   history>>

WriteBooks ==
    /\ pc \in {"flush", "finalFlush"} /\ flushing.trades = <<>> /\ flushing.books # <<>>
    /\ bookTable' = bookTable \o flushing.books
    /\ flushing' = Nothing
    /\ UNCHANGED <<offsets, pc, running, depthCount, trades, books, tradeTable,
                   history>>

Flushed ==
    /\ pc \in {"flush", "finalFlush"} /\ flushing = Nothing
    /\ pc' = IF pc = "flush" THEN "poll" ELSE "close"
    /\ UNCHANGED <<offsets, running, depthCount, buffers, tables, history>>

\* Mutant of WriteFails: the service takes no notice.
WriteFailsQuietly ==
    /\ pc \in {"flush", "finalFlush"} /\ flushing # Nothing
    /\ writeFailures < MaxWriteFailures
    /\ pc' = IF pc = "flush" THEN "poll" ELSE "close"
    /\ flushing' = Nothing
    /\ UNCHANGED <<offsets, running, depthCount, trades, books, tables, history>>

\* The exception leaves flush with what it had taken; from the final flush
\* it leaves main without closing the consumer.
WriteFails ==
    /\ pc \in {"flush", "finalFlush"} /\ flushing # Nothing
    /\ writeFailures < MaxWriteFailures
    /\ writeFailures' = writeFailures + 1
    /\ pc' = IF pc = "flush" THEN "final" ELSE "down"
    /\ flushing' = Nothing
    /\ UNCHANGED <<offsets, running, depthCount, trades, books, tables, handed,
                   crashes, commitFailures>>

-----------------------------------------------------------------------------
(* The process. *)

Signal ==
    /\ running /\ pc # "down"
    /\ running' = FALSE
    /\ UNCHANGED <<offsets, pc, depthCount, buffers, tables, history>>

FinalFlush ==
    /\ pc = "final" \/ (pc = "poll" /\ ~running)
    /\ TakeBuffers("finalFlush")
    /\ UNCHANGED <<offsets, running, depthCount, tables, history>>

\* Closing the consumer commits what was handed out, if the broker answers.
Close ==
    /\ pc = "close"
    /\ committed' \in IF taken = 0 THEN {committed} ELSE {committed, position}
    /\ pc' = "down"
    /\ UNCHANGED <<log, position, taken, running, depthCount, buffers, tables,
                   history>>

Crash ==
    /\ pc # "down" /\ crashes < MaxCrashes
    /\ crashes' = crashes + 1
    /\ pc' = "down"
    /\ UNCHANGED <<offsets, running, depthCount, buffers, tables, handed,
                   writeFailures, commitFailures>>

\* Docker starts it again; without an offset it starts at the end of the log.
Start ==
    /\ pc = "down"
    /\ position' = IF committed = NoOffset THEN Len(log) ELSE committed
    /\ taken' = 0 /\ pc' = "poll" /\ running' = TRUE
    /\ depthCount' = 0 /\ trades' = <<>> /\ books' = <<>> /\ flushing' = Nothing
    /\ UNCHANGED <<log, committed, tables, history>>

Step ==
    \/ PollBatch \/ PollNothing \/ Commit \/ CommitFails
    \/ Flush \/ SkipFlush \/ WriteTrades \/ WriteBooks \/ Flushed \/ WriteFails
    \/ FinalFlush \/ Close \/ Start

Next == Publish \/ Step \/ AutoCommit \/ Signal \/ Crash

Spec == Init /\ [][Next]_vars

-----------------------------------------------------------------------------
(* Fairness: main() goes round its loop, Kafka hands out in the end what   *)
(* it holds, and BATCH_TIMEOUT_MS goes by.                                 *)
FairSpec == Spec /\ WF_vars(Step) /\ SF_vars(PollBatch) /\ SF_vars(Flush)

Occurrences(o, table) == Cardinality({i \in DOMAIN table : table[i] = o})

Buffered == ToSet(trades) \cup ToSet(flushing.trades)

\* Trades that were handed out and are neither stored, nor in memory, nor
\* to be handed out again.
LostTrades ==
    {o \in handed : o <= position /\ log[o] = "trade"}
        \ (ToSet(tradeTable) \cup Buffered)

-----------------------------------------------------------------------------
(* The types of the variables. *)
TypeOK ==
    /\ log \in Seq(Kinds) /\ committed \in {NoOffset} \cup 1..Len(log)
    /\ position \in 0..Len(log) /\ taken \in 0..position
    /\ pc \in {"poll", "commit", "check", "flush", "final", "finalFlush", "close", "down"}
    /\ running \in BOOLEAN /\ depthCount \in 0..SnapshotInterval - 1
    /\ trades \in Seq(1..position) /\ books \in Seq(1..position)
    /\ flushing \in [trades : Seq(1..position), books : Seq(1..position)]
    /\ tradeTable \in Seq(1..Len(log)) /\ bookTable \in Seq(1..Len(log))
    /\ handed \subseteq 1..Len(log) /\ crashes \in 0..MaxCrashes
    /\ writeFailures \in 0..MaxWriteFailures
    /\ commitFailures \in 0..MaxCommitFailures

(* Through crashes, redeliveries and failed inserts, each row is written   *)
(* once, and once more at most for each commit that failed.                *)
DuplicatesNeedFailedCommits ==
    \A o \in handed :
        /\ Occurrences(o, tradeTable) <= 1 + commitFailures
        /\ Occurrences(o, bookTable) <= 1 + commitFailures

(* While commits succeed, the rows of a table are in the order in which    *)
(* the messages were published.                                            *)
TablesAreInOrder ==
    commitFailures = 0 =>
        \A table \in {tradeTable, bookTable} :
            \A i, j \in DOMAIN table : i < j => table[i] < table[j]

(* A crash or a failed insert loses the trades of one poll and of a buffer *)
(* that was not yet full, and nothing else loses any.                      *)
LossIsBounded ==
    pc # "down" =>
        Cardinality(LostTrades) <= (crashes + writeFailures) * (BatchSize - 1 + PollMax)

(* Every trade handed out is stored in the end, also if no other follows,  *)
(* unless a crash or a failed insert lost it (LossIsBounded).              *)
EveryTradeIsStoredOrLost ==
    <>[](\A o \in handed :
            log[o] = "trade" => o \in ToSet(tradeTable) \cup LostTrades)

(* The same without the exception, which the code does not keep (README,   *)
(* "Where code and text disagree").                                        *)
EveryTradeIsStored ==
    <>[](\A o \in handed : log[o] = "trade" => o \in ToSet(tradeTable))

=============================================================================
