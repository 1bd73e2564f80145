----------------------------- MODULE MarketFeed -----------------------------
(***************************************************************************)
(* From the exchange's book to the copies of it: market data publishes     *)
(* the changes, and the alpha engine applies them to the book it keeps in  *)
(* memory (services/alpha-engine/alpha_engine_svc/main.py).  The changes   *)
(* are those of one symbol, which is one of the engine's books.            *)
(***************************************************************************)
EXTENDS MarketData

CONSTANT MaxRestarts  \* bound on the restarts of the alpha engine explored

ASSUME MarketFeedAssumption == MaxRestarts \in Nat

VARIABLES
    mirror,     \* books[symbol]
    position,   \* changes handed out to the alpha engine
    committed,  \* its group's committed offset, NoOffset at first
    taken,      \* changes handed out since it started
    alive,      \* its consume thread runs
    restarts    \* its restarts so far (history)

alphaVars == <<mirror, position, committed, taken, alive, restarts>>
vars == <<marketVars, alphaVars>>

NoOffset == -1

Init ==
    /\ MarketInit
    /\ mirror = EmptyBook /\ position = 0 /\ committed = NoOffset
    /\ taken = 0 /\ alive = TRUE /\ restarts = 0

PollDepth ==
    /\ alive /\ position < Len(depthLog)
    /\ mirror' = ApplyDelta(mirror, depthLog[position + 1])
    /\ position' = position + 1 /\ taken' = taken + 1
    /\ UNCHANGED <<marketVars, committed, alive, restarts>>

\* The thread ends at another message: at a trade whose signal finds the
\* producer's queue full, or at one that does not parse.  The process stays up.
ThreadEnds ==
    /\ alive /\ alive' = FALSE
    /\ UNCHANGED <<marketVars, mirror, position, committed, taken, restarts>>

\* On a timer and when the consumer is closed, of what was handed out.
Commit ==
    /\ taken > 0 /\ committed < position
    /\ committed' \in position - taken + 1 .. position /\ committed' > committed
    /\ UNCHANGED <<marketVars, mirror, position, taken, alive, restarts>>

From == IF committed = NoOffset THEN Len(depthLog) ELSE committed

\* The changes a level still has before it, if the alpha engine is at from.
Arriving(from) ==
    LevelsOf(SubSeq(depthLog, from + 1, Len(depthLog)) \o queue \o wire)

\* Mutant of RestartAlpha: the book survives.
RestartAlphaWithBook ==
    /\ restarts < MaxRestarts /\ restarts' = restarts + 1
    /\ position' = From /\ taken' = 0 /\ alive' = TRUE
    /\ lost' = lost \cup (Levels \ Arriving(From))
    /\ UNCHANGED <<exchange, ws, wire, queue, depthLog, changes, losses, mirror,
                   committed>>

\* The book begins empty, at the committed offset or at the end.
RestartAlpha ==
    /\ restarts < MaxRestarts /\ restarts' = restarts + 1
    /\ position' = From /\ taken' = 0 /\ mirror' = EmptyBook /\ alive' = TRUE
    /\ lost' = lost \cup {l \in Levels \ Arriving(From) : exchange[l] # 0}
    /\ UNCHANGED <<exchange, ws, wire, queue, depthLog, changes, losses, committed>>

AlphaEngine == PollDepth \/ ThreadEnds \/ Commit \/ RestartAlpha

Next == (MarketData /\ UNCHANGED alphaVars) \/ AlphaEngine

Spec == Init /\ [][Next]_vars

(* Fairness: the connection loop and the producer go on, and so does the   *)
(* consumer while its thread runs; market data, whose process ends, is     *)
(* started again, the alpha engine, whose process stays up, need not be.   *)
Fairness ==
    /\ WF_vars((Connect \/ Subscribe \/ Reconnect) /\ UNCHANGED alphaVars)
    /\ WF_vars(Receive /\ UNCHANGED alphaVars)
    /\ WF_vars(Deliver /\ UNCHANGED alphaVars)
    /\ WF_vars((Flushed \/ StartMarketData) /\ UNCHANGED alphaVars)
    /\ WF_vars(PollDepth)

FairSpec == Spec /\ Fairness

UnderWay == wire # <<>> \/ queue # <<>> \/ position < Len(depthLog)

-----------------------------------------------------------------------------
(* The types of the variables. *)
TypeOK ==
    /\ exchange \in Books /\ mirror \in Books
    /\ ws \in {"connecting", "open", "silent", "live", "backoff", "flush", "down"}
    /\ {wire, queue, depthLog} \subseteq Seq(Changes)
    /\ lost \subseteq Levels /\ changes \in 0..MaxChanges /\ losses \in 0..MaxLosses
    /\ position \in 0..Len(depthLog) /\ committed \in {NoOffset} \cup 1..position
    /\ taken \in 0..position /\ alive \in BOOLEAN /\ restarts \in 0..MaxRestarts

(* When no change is under way, the alpha engine's book differs from the   *)
(* exchange's only in levels whose last change was lost: it was there      *)
(* before the subscription, came while the connection was down, or fell to *)
(* a failure on the way.  Nothing else makes the copy wrong.               *)
MirrorLacksOnlyWhatWasLost ==
    ~UnderWay => \A l \in Levels \ lost : mirror[l] = exchange[l]

(* Although the snapshot is skipped and a restart replays changes, the     *)
(* alpha engine never sees a crossed book unless a change was lost, sent   *)
(* twice or overtaken after the service was connected.                     *)
CrossedOnlyByALoss == Crossed(mirror) => losses > 0

(* Whatever breaks, the feed comes back and the book converges, but for    *)
(* the levels whose last change was lost, unless the consume thread ends   *)
(* for good in a process that stays up.                                    *)
MirrorConverges ==
    \/ <>[](\A l \in Levels \ lost : mirror[l] = exchange[l])
    \/ <>[]~alive

(* Whatever breaks, the connection is opened and subscribed again and      *)
(* again, unless the exchange refused a subscription: then the connection  *)
(* stays up and brings nothing.                                            *)
FeedComesBack == []<>(ws = "live") \/ <>[](ws = "silent")

-----------------------------------------------------------------------------
(* What the code does not keep (README, "Where code and text disagree"). *)

(* A connection that has brought no message for STALE_TIMEOUT_S is opened  *)
(* again.                                                                  *)
SilenceEndsTheConnection == ws = "silent" ~> ws # "silent"

(* The changes of a symbol reach the log in the order they were received,  *)
(* so that the copy never shows a book that the exchange never had.        *)
BookIsNeverCrossed == ~Crossed(mirror)

=============================================================================
