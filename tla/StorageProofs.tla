---------------------------- MODULE StorageProofs ---------------------------
(***************************************************************************)
(* For any log, size of the buffers and polls, and any number of crashes,  *)
(* failed inserts and failed commits: what the tables of the storage       *)
(* service hold twice, out of order, or not at all.                        *)
(***************************************************************************)
EXTENDS Storage, DataTheorems, TLAPS

-----------------------------------------------------------------------------
(* The rows of a batch. *)

Rising(rows) == \A i, j \in DOMAIN rows : i < j => rows[i] < rows[j]

LEMMA RisingOnce ==
    ASSUME NEW c \in Nat, NEW rows \in [1..c -> Nat], Rising(rows),
           NEW i \in 1..c, NEW j \in 1..c, rows[i] = rows[j]
    PROVE  i = j
<1>1. rows[i] \in Nat /\ rows[j] \in Nat /\ DOMAIN rows = 1..c
  OBVIOUS
<1>2. (i < j => rows[i] < rows[j]) /\ (j < i => rows[j] < rows[i])
  BY <1>1 DEF Rising
<1> QED
  BY <1>1, <1>2

UpTo(S, k) == S \cap (1..k)

Ordered(S) ==
    /\ IsFiniteSet(S) /\ Cardinality(S) \in Nat
    /\ \E rows \in [1..Cardinality(S) -> S] : Rising(rows)

\* What is listed in order can be continued.
LEMMA OneMore ==
    ASSUME NEW P \in SUBSET Nat, Ordered(P), NEW o \in Nat, \A x \in P : x < o
    PROVE  Ordered(P \cup {o})
<1> DEFINE c == Cardinality(P)
           Q == P \cup {o}
<1>1. c \in Nat /\ IsFiniteSet(P) /\ o \notin P
  BY DEF Ordered
<1>2. IsFiniteSet(Q) /\ Cardinality(Q) = c + 1
  BY <1>1, FS_AddElement
<1>3. PICK rows \in [1..c -> P] : Rising(rows)
  BY DEF Ordered
<1> HIDE DEF c
<1> DEFINE more == [i \in 1..c + 1 |-> IF i <= c THEN rows[i] ELSE o]
<1>4. more \in [1..c + 1 -> Q]
  BY <1>1
<1>5. Rising(more)
  <2> SUFFICES ASSUME NEW i \in 1..c + 1, NEW j \in 1..c + 1, i < j
               PROVE  more[i] < more[j]
    BY DEF Rising
  <2>1. i \in 1..c /\ more[i] = rows[i] /\ rows[i] \in P
    BY <1>1
  <2>2. more[j] = IF j <= c THEN rows[j] ELSE o
    OBVIOUS
  <2> HIDE DEF more
  <2>3. CASE j <= c
    <3>1. j \in DOMAIN rows /\ i \in DOMAIN rows
      BY <1>1, <2>1, <2>3
    <3>2. rows[i] < rows[j]
      BY <1>3, <3>1 DEF Rising
    <3> QED
      BY <2>1, <2>2, <2>3, <3>2
  <2>4. CASE ~ (j <= c)
    BY <2>1, <2>2, <2>4
  <2> QED
    BY <2>3, <2>4
<1> HIDE DEF more, Q
<1>6. c + 1 \in Nat
  BY <1>1
<1>7. Ordered(Q)
  BY <1>2, <1>4, <1>5, <1>6 DEF Ordered
<1> QED
  BY <1>7 DEF Q

\* So the offsets up to n that are in S can be listed in order.
LEMMA OrderExists ==
    ASSUME NEW S \in SUBSET (Nat \ {0}), NEW n \in Nat PROVE Ordered(UpTo(S, n))
<1> DEFINE T == {k \in Nat : Ordered(UpTo(S, k))}
<1>1. 0 \in T
  <2>1. UpTo(S, 0) = {}
    BY DEF UpTo
  <2>2. Ordered({})
    <3>1. IsFiniteSet({}) /\ Cardinality({}) = 0
      BY FS_EmptySet
    <3>2. [i \in 1..0 |-> i] \in [1..0 -> {}] /\ Rising([i \in 1..0 |-> i])
      BY DEF Rising
    <3>3. \E rows \in [1..Cardinality({}) -> {}] : Rising(rows)
      BY <3>1, <3>2
    <3> QED
      BY <3>1, <3>3 DEF Ordered
  <2> QED
    BY <2>1, <2>2
<1>2. ASSUME NEW k \in Nat, k \in T PROVE k + 1 \in T
  <2>1. Ordered(UpTo(S, k)) /\ UpTo(S, k) \in SUBSET Nat /\ k + 1 \in Nat
        /\ \A x \in UpTo(S, k) : x < k + 1
    BY <1>2 DEF UpTo
  <2>2. UpTo(S, k + 1) = IF k + 1 \in S THEN UpTo(S, k) \cup {k + 1} ELSE UpTo(S, k)
    BY DEF UpTo
  <2>3. Ordered(UpTo(S, k) \cup {k + 1})
    BY ONLY <2>1, OneMore
  <2> QED
    BY <2>1, <2>2, <2>3
<1> HIDE DEF T
<1>3. n \in T
  BY <1>1, <1>2, Induct
<1> QED
  BY <1>3 DEF T

\* InOrder lists all the offsets of a set, once and in order.
LEMMA Listed ==
    ASSUME NEW S \in SUBSET (Nat \ {0}), NEW n \in Nat, \A o \in S : o <= n
    PROVE  /\ IsFiniteSet(S) /\ Cardinality(S) \in Nat
           /\ InOrder(S) \in [1..Cardinality(S) -> S]
           /\ Rising(InOrder(S))
           /\ \A o \in S : \E i \in 1..Cardinality(S) : InOrder(S)[i] = o
<1>1. UpTo(S, n) = S
  <2>1. \A o \in S : o \in 1..n
    OBVIOUS
  <2> QED
    BY <2>1 DEF UpTo
<1>2. Ordered(S)
  BY <1>1, OrderExists
<1>3. Cardinality(S) \in Nat /\ IsFiniteSet(S)
  BY <1>2 DEF Ordered
<1> DEFINE c == Cardinality(S)
           rows == InOrder(S)
<1>4. rows \in [1..c -> S] /\ Rising(rows)
  BY <1>2 DEF InOrder, Rising, Ordered
<1>5. c \in Nat
  BY <1>3
<1> HIDE DEF rows, c
<1>6. rows \in Injection(1..c, S)
  <2>1. rows \in [1..c -> Nat]
    BY <1>4
  <2>2. \A i, j \in 1..c : rows[i] = rows[j] => i = j
    BY <1>4, <1>5, <2>1, RisingOnce
  <2> QED
    BY <1>4, <2>2 DEF Injection, IsInjective
<1>7. rows \in Surjection(1..c, S)
  <2>1. Cardinality(1..c) = c
    BY <1>5, FS_Interval
  <2>2. Cardinality(1..c) = Cardinality(S)
    BY <2>1 DEF c
  <2> QED
    BY <1>3, <1>6, <2>2, FS_Injection
<1> QED
  BY <1>3, <1>4, <1>7 DEF Surjection, rows, c

\* What a poll adds to a buffer: offsets of the batch, once and in order.
Batch(rows, m, n) ==
    /\ rows \in Seq(m + 1 .. n) /\ Rising(rows) /\ Len(rows) <= n - m

LEMMA BatchOf ==
    ASSUME NEW m \in Nat, NEW n \in Nat, m <= n, NEW S \in SUBSET (m + 1 .. n)
    PROVE  /\ Batch(InOrder(S), m, n)
           /\ S \subseteq ToSet(InOrder(S))
<1>1. S \in SUBSET (Nat \ {0}) /\ \A o \in S : o <= n
  OBVIOUS
<1> DEFINE c == Cardinality(S)
           rows == InOrder(S)
<1>2. /\ c \in Nat /\ rows \in [1..c -> S] /\ Rising(rows)
      /\ \A o \in S : \E i \in 1..c : rows[i] = o
  BY <1>1, Listed
<1>3. c <= n - m
  <2>1. IsFiniteSet(m + 1 .. n) /\ Cardinality(m + 1 .. n) = n - m
    <3>1. m + 1 \in Int /\ n \in Int
      OBVIOUS
    <3>2. /\ IsFiniteSet(m + 1 .. n)
          /\ Cardinality(m + 1 .. n) = IF m + 1 > n THEN 0 ELSE n - (m + 1) + 1
      BY ONLY <3>1, FS_Interval
    <3> QED
      BY <3>2
  <2>2. c <= Cardinality(m + 1 .. n)
    BY ONLY <2>1, FS_Subset, S \in SUBSET (m + 1 .. n)
  <2> QED
    BY <2>1, <2>2
<1> HIDE DEF c, rows
<1>4. rows \in Seq(m + 1 .. n) /\ Len(rows) = c /\ DOMAIN rows = 1..c
  <2>1. rows \in [1..c -> m + 1 .. n] /\ c \in Nat
    BY <1>2
  <2> QED
    BY ONLY <2>1
<1>5. Batch(rows, m, n)
  BY <1>2, <1>3, <1>4 DEF Batch
<1>6. S \subseteq ToSet(rows)
  BY <1>2, <1>4 DEF ToSet
<1> QED
  BY <1>5, <1>6 DEF rows

LEMMA RowsOfABatch ==
    ASSUME NEW m \in Nat, NEW n \in Nat, m <= n
    PROVE  /\ Batch(TradeRows(m, n), m, n) /\ Batch(BookRows(m, n), m, n)
           /\ {o \in m + 1 .. n : log[o] = "trade"} \subseteq ToSet(TradeRows(m, n))
BY BatchOf DEF TradeRows, BookRows

\* A batch adds each of its offsets once to what a table holds.
LEMMA OccurrencesAfter ==
    ASSUME NEW table \in Seq(Nat), NEW rows \in Seq(Nat), Rising(rows), NEW o \in Nat
    PROVE  /\ Occurrences(o, table) \in Nat
           /\ Occurrences(o, table \o rows) =
                 Occurrences(o, table) + (IF o \in ToSet(rows) THEN 1 ELSE 0)
<1> DEFINE A == {i \in DOMAIN table : table[i] = o}
           all == table \o rows
           B == {i \in DOMAIN all : all[i] = o}
           a == Len(table)
<1>1. IsFiniteSet(A) /\ Cardinality(A) \in Nat
  <2>1. IsFiniteSet(1..a)
    BY FS_Interval
  <2>2. A \in SUBSET (1..a)
    OBVIOUS
  <2> QED
    BY <2>1, <2>2, FS_Subset, FS_CardinalityType
<1>2. Occurrences(o, table) = Cardinality(A) /\ Occurrences(o, all) = Cardinality(B)
  BY DEF Occurrences
<1>3. CASE o \notin ToSet(rows)
  <2>1. \A i \in DOMAIN rows : rows[i] # o
    BY <1>3 DEF ToSet
  <2>2. B = A
    BY <2>1
  <2> HIDE DEF A, B
  <2> QED
    BY <1>2, <1>1, <1>3, <2>2
<1>4. CASE o \in ToSet(rows)
  <2>1. PICK n \in DOMAIN rows : rows[n] = o
    BY <1>4 DEF ToSet
  <2>2. \A i \in DOMAIN rows : rows[i] = o => i = n
    <3>1. Len(rows) \in Nat /\ rows \in [1..Len(rows) -> Nat]
      OBVIOUS
    <3>2. DOMAIN rows = 1..Len(rows)
      OBVIOUS
    <3> QED
      BY <2>1, <3>1, <3>2, RisingOnce
  <2>3. a + n \notin A /\ a + n \in DOMAIN all /\ all[a + n] = o
    BY <2>1
  <2>4. \A i \in DOMAIN all : IF i <= a THEN i \in DOMAIN table /\ all[i] = table[i]
                              ELSE i - a \in DOMAIN rows /\ all[i] = rows[i - a]
    OBVIOUS
  <2>5. \A i \in DOMAIN table : i \in DOMAIN all /\ all[i] = table[i]
    OBVIOUS
  <2>6. \A i \in DOMAIN all : i \in Int /\ a \in Int
    OBVIOUS
  <2>7. \A i \in DOMAIN all : all[i] = o => i \in A \/ i = a + n
    BY <2>2, <2>4, <2>6
  <2>8. B = A \cup {a + n}
    BY <2>3, <2>5, <2>7
  <2> HIDE DEF A, B, a
  <2>9. Cardinality(B) = Cardinality(A) + 1
    BY <1>1, <2>3, <2>8, FS_AddElement
  <2> QED
    BY <1>2, <1>1, <1>4, <2>9
<1> QED
  BY <1>3, <1>4

-----------------------------------------------------------------------------
(* What the process holds.  The two kinds of row are treated alike.        *)

Rows == {"trades", "books"}

Buffer(k) == IF k = "trades" THEN trades ELSE books

Table(k) == IF k = "trades" THEN tradeTable ELSE bookTable

Flushes == {"flush", "finalFlush"}

Typed ==
    /\ log \in Seq(Kinds) /\ position \in 0..Len(log) /\ taken \in 0..position
    /\ committed \in {NoOffset} \cup 1..position /\ (pc = "commit" => position > 0)
    /\ pc \in {"poll", "commit", "check", "flush", "final", "finalFlush", "close", "down"}
    /\ depthCount \in 0..SnapshotInterval - 1
    /\ handed \subseteq 1..Len(log)
    /\ crashes \in 0..MaxCrashes /\ writeFailures \in 0..MaxWriteFailures
    /\ commitFailures \in 0..MaxCommitFailures

\* Rows are in a buffer or in the flush under way, never in both.
Buffers ==
    /\ DOMAIN flushing = Rows
    /\ \A k \in Rows :
          /\ Table(k) \in Seq(1..Len(log))
          /\ Buffer(k) \in Seq(1..position) /\ Rising(Buffer(k))
          /\ flushing[k] \in Seq(1..position) /\ Rising(flushing[k])
          /\ pc \in Flushes \cup {"close"} => Buffer(k) = <<>>
          /\ pc \notin Flushes \cup {"down"} => flushing[k] = <<>>

Kept == Typed /\ Buffers

LEMMA InitKept == Init => Kept
BY StorageAssumption
   DEF StorageAssumption, Init, Kept, Typed, Buffers, Rows, Buffer, Table, Rising,
       Flushes, Nothing

\* Rows that follow others.
LEMMA RisingJoined ==
    ASSUME NEW a \in Seq(Nat), NEW b \in Seq(Nat), Rising(a), Rising(b),
           \A i \in DOMAIN a, j \in DOMAIN b : a[i] < b[j]
    PROVE  Rising(a \o b)
<1> DEFINE all == a \o b
           n == Len(a)
<1>1. \A i \in DOMAIN all : /\ i \in Int /\ n \in Int
                            /\ IF i <= n THEN i \in DOMAIN a /\ all[i] = a[i]
                               ELSE i - n \in DOMAIN b /\ all[i] = b[i - n]
  OBVIOUS
<1> HIDE DEF all, n
<1>2. ASSUME NEW i \in DOMAIN all, NEW j \in DOMAIN all, i < j PROVE all[i] < all[j]
  <2>1. CASE j <= n
    BY <1>1, <1>2, <2>1 DEF Rising
  <2>2. CASE i <= n /\ ~ (j <= n)
    BY <1>1, <2>2
  <2>3. CASE ~ (i <= n)
    <3>1. /\ i - n \in DOMAIN b /\ j - n \in DOMAIN b /\ i - n < j - n
          /\ all[i] = b[i - n] /\ all[j] = b[j - n]
      BY <1>1, <1>2, <2>3
    <3> QED
      BY <3>1 DEF Rising
  <2> QED
    BY <2>1, <2>2, <2>3
<1> QED
  BY <1>2 DEF Rising, all

\* A batch follows what is already in the buffer.
LEMMA RisingFurther ==
    ASSUME NEW m \in Nat, NEW n \in Nat, m <= n, NEW rows \in Seq(1..m), Rising(rows),
           NEW new, Batch(new, m, n)
    PROVE  rows \o new \in Seq(1..n) /\ Rising(rows \o new)
<1>1. new \in Seq(1..n) /\ rows \in Seq(1..n) /\ new \in Seq(m + 1 .. n) /\ Rising(new)
  BY DEF Batch
<1>2. rows \in Seq(Nat) /\ new \in Seq(Nat)
  BY <1>1
<1>3. (\A i \in DOMAIN rows : rows[i] \in 1..m) /\ \A i \in DOMAIN new : new[i] \in m + 1 .. n
  BY <1>1
<1>4. \A i \in DOMAIN rows, j \in DOMAIN new : rows[i] < new[j]
  BY <1>3
<1>5. rows \o new \in Seq(1..n)
  BY <1>1
<1> QED
  BY <1>1, <1>2, <1>4, <1>5, RisingJoined

\* The same, kind by kind.
LEMMA KindByKind ==
    Buffers <=>
        /\ DOMAIN flushing = Rows
        /\ tradeTable \in Seq(1..Len(log)) /\ bookTable \in Seq(1..Len(log))
        /\ trades \in Seq(1..position) /\ Rising(trades)
        /\ books \in Seq(1..position) /\ Rising(books)
        /\ flushing.trades \in Seq(1..position) /\ Rising(flushing.trades)
        /\ flushing.books \in Seq(1..position) /\ Rising(flushing.books)
        /\ pc \in Flushes \cup {"close"} => trades = <<>> /\ books = <<>>
        /\ pc \notin Flushes \cup {"down"} =>
               flushing.trades = <<>> /\ flushing.books = <<>>
BY DEF Buffers, Rows, Buffer, Table

LEMMA NothingIsRising == Rising(<<>>)
BY DEF Rising

LEMMA PollKeepsKept == ASSUME Kept, PollBatch PROVE Kept'
<1> USE DEF Kept, Typed
<1>1. PICK n \in position + 1 .. Len(log) :
          /\ n - position <= PollMax
          /\ trades' = trades \o TradeRows(position, n)
          /\ books' = books \o BookRows(position, n)
          /\ depthCount' = (depthCount + Cardinality(Depths(position, n)))
                               % SnapshotInterval
          /\ position' = n /\ taken' = taken + (n - position)
          /\ handed' = handed \cup (position + 1 .. n)
  BY DEF PollBatch
<1>2. position \in Nat /\ n \in Nat /\ position <= n /\ n <= Len(log)
  BY <1>1
<1>3. Batch(TradeRows(position, n), position, n) /\ Batch(BookRows(position, n), position, n)
  BY <1>2, RowsOfABatch
<1>4. depthCount' \in 0..SnapshotInterval - 1
  <2>1. Depths(position, n) \in SUBSET (position + 1 .. n)
    BY DEF Depths
  <2>2. IsFiniteSet(position + 1 .. n)
    BY <1>2, FS_Interval
  <2>3. Cardinality(Depths(position, n)) \in Nat
    BY ONLY <2>1, <2>2, FS_Subset, FS_CardinalityType
  <2>4. SnapshotInterval \in Nat \ {0}
    BY StorageAssumption DEF StorageAssumption
  <2> QED
    BY <1>1, <2>3, <2>4
<1>5. Typed'
  BY <1>1, <1>2, <1>4 DEF PollBatch, offsets, tables
<1>6. trades' \in Seq(1..n) /\ Rising(trades') /\ books' \in Seq(1..n) /\ Rising(books')
  <2>1. /\ trades \in Seq(1..position) /\ Rising(trades)
        /\ books \in Seq(1..position) /\ Rising(books)
    BY DEF Buffers, Rows, Buffer
  <2> QED
    BY <1>1, <1>2, <1>3, <2>1, RisingFurther
<1>7. /\ UNCHANGED <<log, flushing, tradeTable, bookTable>> /\ position' = n
      /\ pc = "poll" /\ pc' = "commit"
  BY <1>1 DEF PollBatch, tables
<1>8. /\ flushing.trades = <<>> /\ flushing.books = <<>> /\ DOMAIN flushing = Rows
      /\ tradeTable \in Seq(1..Len(log)) /\ bookTable \in Seq(1..Len(log))
  BY <1>7, KindByKind DEF Flushes
<1>9. Buffers'
  <2>1. \A k \in Rows : flushing'[k] = <<>> /\ flushing'[k] \in Seq(1..n)
    <3>1. <<>> \in Seq(1..n)
      OBVIOUS
    <3>2. \A k \in Rows : flushing[k] = <<>>
      BY <1>8 DEF Rows
    <3> QED
      BY <1>7, <3>1, <3>2
  <2>2. \A k \in Rows : /\ Table(k)' \in Seq(1..Len(log'))
                        /\ Buffer(k)' \in Seq(1..n) /\ Rising(Buffer(k)')
    BY <1>6, <1>7, <1>8 DEF Table, Buffer
  <2>3. pc' \notin Flushes \cup {"close"}
    BY <1>7 DEF Flushes
  <2> HIDE DEF Flushes
  <2> QED
    BY <1>7, <1>8, <2>1, <2>2, <2>3, NothingIsRising DEF Buffers
<1> QED
  BY <1>5, <1>9

\* A step that moves no row.
LEMMA NoRowMoves ==
    ASSUME Kept, Typed', UNCHANGED <<position, buffers, tables>>, Len(log') >= Len(log),
           pc' \in Flushes \cup {"close"} => pc \in Flushes \cup {"close"},
           pc' \notin Flushes \cup {"down"} =>
               pc \notin Flushes \cup {"down"} \/ flushing = Nothing
    PROVE  Kept'
<1> USE DEF buffers, tables
<1>1. Len(log) \in Nat /\ Len(log') \in Nat
  BY DEF Kept, Typed
<1>2. \A table \in Seq(1..Len(log)) : table \in Seq(1..Len(log'))
  BY <1>1
<1>3. flushing = Nothing => flushing.trades = <<>> /\ flushing.books = <<>>
  BY DEF Nothing
<1>4. Buffers
  BY DEF Kept
<1> HIDE DEF Flushes
<1>5. /\ tradeTable' \in Seq(1..Len(log')) /\ bookTable' \in Seq(1..Len(log'))
      /\ trades' \in Seq(1..position') /\ Rising(trades')
      /\ books' \in Seq(1..position') /\ Rising(books')
      /\ flushing'.trades \in Seq(1..position') /\ Rising(flushing'.trades)
      /\ flushing'.books \in Seq(1..position') /\ Rising(flushing'.books)
      /\ DOMAIN flushing' = Rows
  BY <1>2, <1>4, KindByKind
<1>6. /\ pc' \in Flushes \cup {"close"} => trades' = <<>> /\ books' = <<>>
      /\ pc' \notin Flushes \cup {"down"} =>
             flushing'.trades = <<>> /\ flushing'.books = <<>>
  BY <1>3, <1>4, KindByKind
<1>7. Buffers'
  BY ONLY <1>5, <1>6 DEF Buffers, Rows, Buffer, Table
<1> QED
  BY <1>7 DEF Kept

LEMMA NextKept == ASSUME Kept, [Next]_vars PROVE Kept'
<1> USE DEF Kept, Typed, offsets, buffers, tables, history, process
<1>1. MaxCrashes \in Nat /\ MaxWriteFailures \in Nat /\ MaxCommitFailures \in Nat
  BY StorageAssumption DEF StorageAssumption
<1>2. CASE Publish
  <2>1. PICK k \in Kinds : log' = Append(log, k)
    BY <1>2 DEF Publish
  <2>2. Typed' /\ Len(log') >= Len(log)
    BY <1>2, <2>1 DEF Publish
  <2> QED
    BY <1>2, <2>2, NoRowMoves DEF Publish
<1>3. CASE PollBatch
  BY <1>3, PollKeepsKept
<1>4. CASE PollNothing
  <2>1. Typed' /\ Len(log') >= Len(log)
    BY <1>4 DEF PollNothing
  <2> QED
    BY <1>4, <2>1, NoRowMoves DEF PollNothing, Flushes
<1>5. CASE SkipFlush
  <2>1. Typed' /\ Len(log') >= Len(log)
    BY <1>5 DEF SkipFlush
  <2> QED
    BY <1>5, <2>1, NoRowMoves DEF SkipFlush, Flushes
<1>6. CASE Flushed
  <2>1. Typed' /\ Len(log') >= Len(log)
    BY <1>6 DEF Flushed
  <2> QED
    BY <1>6, <2>1, NoRowMoves DEF Flushed, Flushes
<1>7. CASE Signal
  <2>1. Typed' /\ Len(log') >= Len(log)
    BY <1>7 DEF Signal
  <2> QED
    BY <1>7, <2>1, NoRowMoves DEF Signal, Flushes
<1>8. CASE Commit
  <2>1. Typed' /\ Len(log') >= Len(log)
    BY <1>8 DEF Commit, NoOffset
  <2> QED
    BY <1>8, <2>1, NoRowMoves DEF Commit, Flushes
<1>9. CASE CommitFails
  <2>1. Typed' /\ Len(log') >= Len(log)
    BY <1>1, <1>9 DEF CommitFails
  <2> QED
    BY <1>9, <2>1, NoRowMoves DEF CommitFails, Flushes
<1>10. CASE AutoCommit
  <2>1. Typed' /\ Len(log') >= Len(log)
    BY <1>10 DEF AutoCommit, NoOffset
  <2> QED
    BY <1>10, <2>1, NoRowMoves DEF AutoCommit, Flushes
<1>11. CASE Crash
  <2>1. Typed' /\ Len(log') >= Len(log)
    BY <1>1, <1>11 DEF Crash
  <2> QED
    BY <1>11, <2>1, NoRowMoves DEF Crash, Flushes
<1>12. CASE Close
  <2>1. Typed' /\ Len(log') >= Len(log)
    BY <1>12 DEF Close, NoOffset
  <2> QED
    BY <1>12, <2>1, NoRowMoves DEF Close, Flushes
<1>13. CASE Flush \/ FinalFlush
  <2>1. Typed'
    BY <1>13 DEF Flush, FinalFlush, TakeBuffers
  <2>2. /\ flushing' = [trades |-> trades, books |-> books]
        /\ trades' = <<>> /\ books' = <<>> /\ pc' \in Flushes
        /\ UNCHANGED <<log, position, tradeTable, bookTable>>
    BY <1>13 DEF Flush, FinalFlush, TakeBuffers, Flushes
  <2>3. Buffers'
    BY <2>2, NothingIsRising, KindByKind DEF Buffers, Rows, Buffer, Table
  <2> QED
    BY <2>1, <2>3
<1>14. CASE WriteTrades
  <2>1. Typed'
    BY <1>14 DEF WriteTrades
  <2>2. /\ tradeTable' = tradeTable \o flushing.trades /\ flushing'.trades = <<>>
        /\ flushing'.books = flushing.books /\ DOMAIN flushing' = Rows
        /\ UNCHANGED <<log, position, trades, books, bookTable, pc>> /\ pc \in Flushes
    BY <1>14 DEF WriteTrades, Buffers, Rows, Flushes
  <2>3. tradeTable' \in Seq(1..Len(log'))
    <3>1. tradeTable \in Seq(1..Len(log)) /\ flushing.trades \in Seq(1..Len(log))
      BY KindByKind
    <3> QED
      BY ONLY <2>2, <3>1
  <2>4. Buffers'
    BY <2>2, <2>3, NothingIsRising, KindByKind DEF Buffers, Rows, Buffer, Table
  <2> QED
    BY <2>1, <2>4
<1>15. CASE WriteBooks
  <2>1. Typed'
    BY <1>15 DEF WriteBooks
  <2>2. /\ bookTable' = bookTable \o flushing.books /\ flushing' = Nothing
        /\ UNCHANGED <<log, position, trades, books, tradeTable, pc>> /\ pc \in Flushes
    BY <1>15 DEF WriteBooks, Flushes
  <2>3. bookTable' \in Seq(1..Len(log'))
    <3>1. bookTable \in Seq(1..Len(log)) /\ flushing.books \in Seq(1..Len(log))
      BY KindByKind
    <3> QED
      BY ONLY <2>2, <3>1
  <2>4. Buffers'
    BY <2>2, <2>3, NothingIsRising, KindByKind DEF Buffers, Rows, Buffer, Table, Nothing
  <2> QED
    BY <2>1, <2>4
<1>16. CASE WriteFails
  <2>1. Typed'
    BY <1>1, <1>16 DEF WriteFails
  <2>2. /\ flushing' = Nothing /\ pc \in Flushes /\ pc' \in {"final", "down"}
        /\ UNCHANGED <<log, position, trades, books, tradeTable, bookTable>>
    BY <1>16 DEF WriteFails, Flushes
  <2>3. Buffers'
    BY <2>2, NothingIsRising, KindByKind
       DEF Buffers, Rows, Buffer, Table, Nothing, Flushes
  <2> QED
    BY <2>1, <2>3
<1>17. CASE Start
  <2>1. Typed'
    <3>1. 0 \in 0..SnapshotInterval - 1
      BY StorageAssumption DEF StorageAssumption
    <3>2. /\ Len(log) \in Nat /\ position \in 0..Len(log)
          /\ committed \in {NoOffset} \cup 1..position
      BY DEF Typed
    <3>3. /\ position' = (IF committed = NoOffset THEN Len(log) ELSE committed)
          /\ taken' = 0 /\ pc' = "poll" /\ depthCount' = 0
          /\ UNCHANGED <<log, committed, handed, crashes, writeFailures, commitFailures>>
      BY <1>17 DEF Start, history
    <3>4. position' \in 0..Len(log) /\ taken' \in 0..position'
          /\ committed' \in {NoOffset} \cup 1..position'
      BY ONLY <3>2, <3>3 DEF NoOffset
    <3> QED
      BY <3>1, <3>3, <3>4
  <2>2. Buffers'
    BY <1>17, NothingIsRising DEF Start, Buffers, Buffer, Table, Rows, Flushes, Nothing
  <2> QED
    BY <2>1, <2>2
<1>18. CASE UNCHANGED vars
  <2>1. Typed' /\ Len(log') >= Len(log)
    BY <1>18 DEF vars
  <2> QED
    BY <1>18, <2>1, NoRowMoves DEF vars
<1> QED
  BY <1>2, <1>3, <1>4, <1>5, <1>6, <1>7, <1>8, <1>9, <1>10, <1>11, <1>12, <1>13, <1>14,
     <1>15, <1>16, <1>17, <1>18 DEF Next, Step

(* The variables have their types, buffers and flush hold rows in order.   *)
LEMMA AlwaysKept == Spec => []Kept
<1>1. Kept /\ [Next]_vars => Kept'
  BY NextKept
<1> QED
  BY <1>1, InitKept, PTL DEF Spec

-----------------------------------------------------------------------------
(* What a step does to the rows of a kind.                                 *)

\* The rows that the process may still write.
InHand(k) == IF pc = "down" THEN {} ELSE ToSet(Buffer(k)) \cup ToSet(flushing[k])

LEMMA Members ==
    ASSUME NEW S, NEW rows \in Seq(S) PROVE ToSet(rows) \subseteq S
<1>1. \A i \in DOMAIN rows : rows[i] \in S
  OBVIOUS
<1> QED
  BY <1>1 DEF ToSet

LEMMA MembersJoined ==
    ASSUME NEW a \in Seq(Nat), NEW b \in Seq(Nat)
    PROVE  ToSet(a \o b) = ToSet(a) \cup ToSet(b)
<1> DEFINE all == a \o b
           n == Len(a)
<1>1. \A i \in DOMAIN all : IF i <= n THEN i \in DOMAIN a /\ all[i] = a[i]
                            ELSE i - n \in DOMAIN b /\ all[i] = b[i - n]
  OBVIOUS
<1>2. \A i \in DOMAIN a : i \in DOMAIN all /\ all[i] = a[i]
  OBVIOUS
<1>3. \A i \in DOMAIN b : n + i \in DOMAIN all /\ all[n + i] = b[i]
  OBVIOUS
<1> HIDE DEF all, n
<1>4. ToSet(all) = ToSet(a) \cup ToSet(b)
  BY <1>1, <1>2, <1>3 DEF ToSet
<1> QED
  BY <1>4 DEF all

LEMMA HandIsPast ==
    ASSUME Kept, NEW k \in Rows
    PROVE  /\ InHand(k) \subseteq 1..position /\ Table(k) \in Seq(Nat)
           /\ position \in Nat /\ committed \in Int /\ committed <= position
<1>1. Buffer(k) \in Seq(1..position) /\ flushing[k] \in Seq(1..position)
      /\ Table(k) \in Seq(1..Len(log))
  BY DEF Kept, Buffers
<1>2. InHand(k) \subseteq 1..position
  <2>1. ToSet(Buffer(k)) \subseteq 1..position /\ ToSet(flushing[k]) \subseteq 1..position
    BY <1>1, Members
  <2> QED
    BY <2>1 DEF InHand
<1>3. Table(k) \in Seq(Nat)
  BY <1>1
<1> QED
  BY <1>2, <1>3 DEF Kept, Typed, NoOffset

Still(k) ==
    /\ Table(k)' = Table(k) /\ InHand(k)' \subseteq InHand(k)
    /\ committed' \in Int /\ committed' >= committed /\ commitFailures' = commitFailures
    /\ pc' = "commit" => pc = "commit"
    /\ pc = "commit" /\ pc' # "commit" => InHand(k)' = {}

Polls(k) ==
    /\ Table(k)' = Table(k) /\ InHand(k)' \subseteq InHand(k) \cup (position + 1 .. position')
    /\ committed' = committed /\ commitFailures' = commitFailures
    /\ pc = "poll" /\ pc' = "commit"

Commits(k) ==
    /\ Table(k)' = Table(k) /\ InHand(k)' = InHand(k)
    /\ committed' = position /\ commitFailures' = commitFailures
    /\ pc = "commit" /\ pc' # "commit"

FailsToCommit(k) ==
    /\ Table(k)' = Table(k) /\ InHand(k)' = InHand(k)
    /\ committed' = committed /\ commitFailures' = commitFailures + 1
    /\ pc = "commit" /\ pc' # "commit"

Writes(k) ==
    /\ Table(k)' = Table(k) \o flushing[k]
    /\ InHand(k) = ToSet(flushing[k]) /\ InHand(k)' = {}
    /\ committed' = committed /\ commitFailures' = commitFailures
    /\ pc # "commit" /\ pc' # "commit"

Moves(k) == Still(k) \/ Polls(k) \/ Commits(k) \/ FailsToCommit(k) \/ Writes(k)

\* Rows that stay where they are are still in hand, unless the process ends.
LEMMA SameHand ==
    ASSUME UNCHANGED <<buffers, tables>>, NEW k \in Rows, pc = "down" => pc' = "down"
    PROVE  /\ Table(k)' = Table(k)
           /\ InHand(k)' = IF pc' = "down" THEN {} ELSE InHand(k)
BY DEF buffers, tables, Table, InHand, Buffer

LEMMA StepMoves == ASSUME Kept, [Next]_vars, NEW k \in Rows PROVE Moves(k)
<1> USE DEF offsets, tables, history, process
<1>1. committed \in Int /\ position \in Int
  BY HandIsPast
<1>2. CASE Publish
  BY <1>1, <1>2, SameHand DEF Publish, Moves, Still
<1>3. CASE PollNothing
  BY <1>1, <1>3, SameHand DEF PollNothing, Moves, Still
<1>4. CASE SkipFlush \/ Signal
  BY <1>1, <1>4, SameHand DEF SkipFlush, Signal, Moves, Still
<1>5. CASE Flushed
  BY <1>1, <1>5, SameHand DEF Flushed, Moves, Still
<1>6. CASE AutoCommit
  <2>1. committed' \in Int /\ committed' >= committed
    <3>1. taken \in Int
      BY DEF Kept, Typed
    <3> QED
      BY <1>1, <1>6, <3>1 DEF AutoCommit
  <2> QED
    BY <1>6, <2>1, SameHand DEF AutoCommit, Moves, Still
<1>7. CASE Close
  <2>1. committed' \in Int /\ committed' >= committed
    BY <1>7, HandIsPast DEF Close
  <2> QED
    BY <1>7, <2>1, SameHand DEF Close, Moves, Still
<1>8. CASE Crash
  BY <1>1, <1>8, SameHand DEF Crash, Moves, Still
<1>9. CASE Commit
  BY <1>9, SameHand DEF Commit, Moves, Commits
<1>10. CASE CommitFails
  BY <1>10, SameHand DEF CommitFails, Moves, FailsToCommit
<1>11. CASE UNCHANGED vars
  BY <1>1, <1>11, SameHand DEF vars, Moves, Still
<1>12. CASE PollBatch
  <2>1. PICK n \in position + 1 .. Len(log) :
            /\ trades' = trades \o TradeRows(position, n)
            /\ books' = books \o BookRows(position, n)
            /\ position' = n
    BY <1>12 DEF PollBatch
  <2>2. /\ Batch(TradeRows(position, n), position, n)
        /\ Batch(BookRows(position, n), position, n)
    BY <2>1, RowsOfABatch DEF Kept, Typed
  <2>3. PICK new \in Seq(position + 1 .. n) : Buffer(k)' = Buffer(k) \o new
    BY <2>1, <2>2 DEF Batch, Buffer
  <2>4. Buffer(k) \in Seq(1..position)
    BY DEF Kept, Buffers
  <2>5. ToSet(Buffer(k)') \subseteq ToSet(Buffer(k)) \cup (position + 1 .. n)
    <3>1. Buffer(k) \in Seq(Nat) /\ new \in Seq(Nat) /\ n \in Int /\ position \in Nat
      BY <2>3, <2>4, HandIsPast
    <3>2. ToSet(new) \subseteq position + 1 .. n
      BY <2>3, Members
    <3> QED
      BY <2>3, <3>1, <3>2, MembersJoined
  <2>6. /\ pc = "poll" /\ pc' = "commit" /\ Table(k)' = Table(k) /\ flushing' = flushing
        /\ committed' = committed /\ commitFailures' = commitFailures
    BY <1>12 DEF PollBatch, Table
  <2> QED
    BY <2>1, <2>5, <2>6 DEF InHand, Moves, Polls
<1>13. CASE Flush \/ FinalFlush
  <2>1. /\ flushing' = [trades |-> trades, books |-> books] /\ trades' = <<>> /\ books' = <<>>
        /\ pc' \in Flushes /\ pc \notin {"commit", "down"}
        /\ UNCHANGED <<committed, commitFailures, tradeTable, bookTable>>
    BY <1>13 DEF Flush, FinalFlush, TakeBuffers, Flushes
  <2>2. Buffer(k)' = <<>> /\ flushing'[k] = Buffer(k) /\ Table(k)' = Table(k)
    BY <2>1 DEF Buffer, Rows, Table
  <2>3. InHand(k)' \subseteq InHand(k)
    BY <2>1, <2>2 DEF InHand, ToSet
  <2> QED
    BY <1>1, <2>1, <2>2, <2>3 DEF Moves, Still, Flushes
<1>14. CASE WriteTrades \/ WriteBooks
  <2>1. /\ pc \in Flushes /\ pc' = pc /\ trades' = trades /\ books' = books
        /\ UNCHANGED <<committed, commitFailures>>
    BY <1>14 DEF WriteTrades, WriteBooks, Flushes
  <2>2. Buffer(k) = <<>> /\ Buffer(k)' = <<>> /\ ToSet(<<>>) = {}
    BY <2>1 DEF Kept, Buffers, Buffer, ToSet
  <2>3. DOMAIN flushing = Rows
    BY DEF Kept, Buffers
  <2>4. \/ Table(k)' = Table(k) /\ flushing'[k] = flushing[k]
        \/ Table(k)' = Table(k) \o flushing[k] /\ flushing'[k] = <<>>
    <3>1. CASE WriteTrades
      BY <2>3, <3>1 DEF WriteTrades, Table, Rows
    <3>2. CASE WriteBooks
      <4>1. /\ bookTable' = bookTable \o flushing["books"] /\ tradeTable' = tradeTable
            /\ flushing["trades"] = <<>> /\ flushing' = Nothing
        BY <3>2 DEF WriteBooks
      <4>2. Nothing["trades"] = <<>> /\ Nothing["books"] = <<>>
        BY DEF Nothing
      <4>3. k = "trades" \/ k = "books"
        BY DEF Rows
      <4> QED
        BY <4>1, <4>2, <4>3 DEF Table
    <3> QED
      BY <1>14, <3>1, <3>2
  <2>5. pc \notin {"commit", "down"}
    BY <2>1 DEF Flushes
  <2>6. CASE Table(k)' = Table(k) /\ flushing'[k] = flushing[k]
    BY <1>1, <2>1, <2>2, <2>5, <2>6 DEF InHand, Moves, Still
  <2>7. CASE Table(k)' = Table(k) \o flushing[k] /\ flushing'[k] = <<>>
    BY <2>1, <2>2, <2>5, <2>7 DEF InHand, Moves, Writes
  <2> QED
    BY <2>4, <2>6, <2>7
<1>15. CASE WriteFails
  <2>1. /\ flushing' = Nothing /\ pc \in Flushes /\ pc' # "commit"
        /\ UNCHANGED <<committed, commitFailures, trades, books, tradeTable, bookTable>>
    BY <1>15 DEF WriteFails, Flushes
  <2>2. flushing'[k] = <<>> /\ ToSet(<<>>) = {} /\ Buffer(k)' = Buffer(k)
        /\ Table(k)' = Table(k)
    BY <2>1 DEF Nothing, Rows, ToSet, Buffer, Table
  <2> QED
    BY <1>1, <2>1, <2>2 DEF InHand, Moves, Still, Flushes
<1>16. CASE Start
  <2>1. /\ flushing' = Nothing /\ trades' = <<>> /\ books' = <<>> /\ pc = "down"
        /\ pc' = "poll" /\ UNCHANGED <<committed, commitFailures, tradeTable, bookTable>>
    BY <1>16 DEF Start
  <2>2. flushing'[k] = <<>> /\ ToSet(<<>>) = {} /\ Buffer(k)' = <<>>
        /\ Table(k)' = Table(k)
    BY <2>1 DEF Nothing, Rows, ToSet, Buffer, Table
  <2> QED
    BY <1>1, <2>1, <2>2 DEF InHand, Moves, Still
<1> QED
  BY <1>2, <1>3, <1>4, <1>5, <1>6, <1>7, <1>8, <1>9, <1>10, <1>11, <1>12, <1>13, <1>14,
     <1>15, <1>16 DEF Next, Step

-----------------------------------------------------------------------------
(* How often a message is written.  A row in hand was never written since  *)
(* the last failed commit but one: the offset committed behind it, or the  *)
(* commit about to be tried, pays for the next time.                       *)

Past(o) == IF o <= committed THEN 1 ELSE 0

Once(k) ==
    \A o \in Nat :
        /\ Occurrences(o, Table(k)) <= commitFailures + Past(o)
        /\ o \in InHand(k) =>
              Occurrences(o, Table(k)) + 1
                  <= commitFailures + (IF pc = "commit" THEN 1 ELSE Past(o))

LEMMA MovingKeepsOnce ==
    ASSUME Kept, NEW k \in Rows, Once(k), Moves(k) PROVE Once(k)'
<1> SUFFICES ASSUME NEW o \in Nat
             PROVE  /\ Occurrences(o, Table(k)') <= commitFailures' + Past(o)'
                    /\ o \in InHand(k)' =>
                          Occurrences(o, Table(k)') + 1
                              <= commitFailures' + (IF pc' = "commit" THEN 1 ELSE Past(o)')
  BY DEF Once, Occurrences, Table
<1> DEFINE n == Occurrences(o, Table(k))
<1>1. /\ Table(k) \in Seq(Nat) /\ flushing[k] \in Seq(Nat) /\ Rising(flushing[k])
      /\ committed \in Int /\ position \in Nat /\ committed <= position
      /\ InHand(k) \subseteq 1..position /\ commitFailures \in Nat
  BY HandIsPast DEF Kept, Typed, Buffers
<1>2. n \in Nat /\ Occurrences(o, Table(k) \o flushing[k])
                       = n + (IF o \in ToSet(flushing[k]) THEN 1 ELSE 0)
  BY <1>1, OccurrencesAfter
<1>3. /\ n <= commitFailures + Past(o)
      /\ o \in InHand(k) => n + 1 <= commitFailures + (IF pc = "commit" THEN 1 ELSE Past(o))
  BY DEF Once
<1> HIDE DEF n
<1>4. CASE Still(k)
  BY <1>1, <1>2, <1>3, <1>4 DEF Still, Past, n
<1>5. CASE Polls(k)
  <2>1. o \in InHand(k)' => o \in InHand(k) \/ ~ (o <= committed)
    BY <1>1, <1>5 DEF Polls
  <2> QED
    BY <1>1, <1>2, <1>3, <1>5, <2>1 DEF Polls, Past, n
<1>6. CASE Commits(k)
  <2>1. o \in InHand(k) => o <= position
    BY <1>1
  <2> QED
    BY <1>1, <1>2, <1>3, <1>6, <2>1 DEF Commits, Past, n
<1>7. CASE FailsToCommit(k)
  BY <1>1, <1>2, <1>3, <1>7 DEF FailsToCommit, Past, n
<1>8. CASE Writes(k)
  BY <1>1, <1>2, <1>3, <1>8 DEF Writes, Past
<1> QED
  BY <1>4, <1>5, <1>6, <1>7, <1>8 DEF Moves

LEMMA NeverWritten ==
    ASSUME NEW o \in Nat PROVE Occurrences(o, <<>>) = 0
<1>1. {i \in DOMAIN <<>> : <<>>[i] = o} = {}
  OBVIOUS
<1> QED
  BY <1>1, FS_EmptySet DEF Occurrences

(* DuplicatesNeedFailedCommits: however often the process is killed and    *)
(* restarted, each row is written once, and once more at most for each     *)
(* commit that failed, because the offset is committed before the buffers  *)
(* are written.                                                            *)
THEOREM RowsAreWrittenOnce == Spec => []DuplicatesNeedFailedCommits
<1> DEFINE Inv == \A k \in Rows : Once(k)
<1>1. Init => Inv
  <2> SUFFICES ASSUME Init, NEW k \in Rows PROVE Once(k)
    OBVIOUS
  <2>1. Table(k) = <<>> /\ Buffer(k) = <<>> /\ flushing[k] = <<>> /\ commitFailures = 0
        /\ committed \in Int
    BY DEF Init, Table, Buffer, Nothing, Rows, NoOffset
  <2>2. InHand(k) = {}
    BY <2>1 DEF InHand, ToSet
  <2> QED
    BY <2>1, <2>2, NeverWritten DEF Once, Past
<1>2. Kept /\ Inv /\ [Next]_vars => Inv'
  BY StepMoves, MovingKeepsOnce
<1>3. Kept /\ Inv => DuplicatesNeedFailedCommits
  <2> SUFFICES ASSUME Kept, Inv, NEW o \in handed
               PROVE  /\ Occurrences(o, tradeTable) <= 1 + commitFailures
                      /\ Occurrences(o, bookTable) <= 1 + commitFailures
    BY DEF DuplicatesNeedFailedCommits
  <2>1. o \in Nat /\ commitFailures \in Nat /\ "trades" \in Rows /\ "books" \in Rows
    BY DEF Kept, Typed, Rows
  <2>2. Table("trades") = tradeTable /\ Table("books") = bookTable
    BY DEF Table
  <2>3. ASSUME NEW k \in Rows PROVE Occurrences(o, Table(k)) <= 1 + commitFailures
    <3>1. Occurrences(o, Table(k)) \in Nat
      <4>1. Table(k) \in Seq(Nat) /\ <<>> \in Seq(Nat)
        BY <2>1, HandIsPast
      <4> QED
        BY <2>1, <4>1, OccurrencesAfter, NothingIsRising
    <3>2. Occurrences(o, Table(k)) <= commitFailures + Past(o)
      BY <2>1 DEF Once
    <3> QED
      BY <2>1, <3>1, <3>2 DEF Past
  <2> QED
    BY <2>1, <2>2, <2>3
<1> QED
  BY <1>1, <1>2, <1>3, AlwaysKept, PTL DEF Spec

-----------------------------------------------------------------------------
(* In which order.  While commits succeed, what is in hand comes after     *)
(* what is in the table, and is committed before it is written.            *)

Ahead(k) ==
    commitFailures = 0 =>
        /\ Rising(Table(k))
        /\ \A i \in DOMAIN Table(k) : Table(k)[i] <= committed
        /\ \A o \in InHand(k) :
              /\ \A i \in DOMAIN Table(k) : Table(k)[i] < o
              /\ pc # "commit" => o <= committed

LEMMA MovingKeepsAhead ==
    ASSUME Kept, NEW k \in Rows, Ahead(k), Moves(k) PROVE Ahead(k)'
<1> SUFFICES ASSUME commitFailures' = 0
             PROVE  /\ Rising(Table(k)')
                    /\ \A i \in DOMAIN Table(k)' : Table(k)'[i] <= committed'
                    /\ \A o \in InHand(k)' :
                          /\ \A i \in DOMAIN Table(k)' : Table(k)'[i] < o
                          /\ pc' # "commit" => o <= committed'
  BY DEF Ahead, Rising, Table
<1>1. /\ Table(k) \in Seq(Nat) /\ flushing[k] \in Seq(Nat) /\ Rising(flushing[k])
      /\ committed \in Int /\ position \in Nat /\ committed <= position
      /\ InHand(k) \subseteq 1..position /\ commitFailures \in Nat
  BY HandIsPast DEF Kept, Typed, Buffers
<1>2. \A i \in DOMAIN Table(k) : Table(k)[i] \in Nat
  BY <1>1
<1>3. CASE Still(k)
  <2>1. commitFailures = 0
    BY <1>3 DEF Still
  <2> QED
    BY <1>1, <1>2, <1>3, <2>1 DEF Still, Ahead
<1>4. CASE Polls(k)
  <2>1. commitFailures = 0 /\ pc = "poll" /\ pc' = "commit" /\ committed' = committed
        /\ Table(k)' = Table(k)
    BY <1>4 DEF Polls
  <2>2. \A o \in InHand(k)' : o \in InHand(k) \/ (o \in Int /\ committed < o)
    BY <1>1, <1>4 DEF Polls
  <2> QED
    BY <1>1, <1>2, <2>1, <2>2 DEF Ahead
<1>5. CASE Commits(k)
  <2>1. commitFailures = 0
    BY <1>5 DEF Commits
  <2> QED
    BY <1>1, <1>2, <1>5, <2>1 DEF Commits, Ahead
<1>6. CASE FailsToCommit(k)
  BY <1>1, <1>6 DEF FailsToCommit
<1>7. CASE Writes(k)
  <2> DEFINE a == Table(k)
             b == flushing[k]
             all == a \o b
  <2>1. commitFailures = 0 /\ pc # "commit" /\ Table(k)' = all /\ committed' = committed
        /\ InHand(k) = ToSet(b) /\ InHand(k)' = {}
    BY <1>7 DEF Writes
  <2>2. \A j \in DOMAIN b : b[j] \in InHand(k)
    BY <2>1 DEF ToSet
  <2>3. \A j \in DOMAIN b : b[j] <= committed /\ \A i \in DOMAIN a : a[i] < b[j]
    BY <2>1, <2>2 DEF Ahead
  <2>4. Rising(a) /\ \A i \in DOMAIN a : a[i] <= committed
    BY <2>1 DEF Ahead
  <2>5. Rising(all)
    BY <1>1, <2>3, <2>4, RisingJoined
  <2>6. \A i \in DOMAIN all : \/ i \in DOMAIN a /\ all[i] = a[i]
                              \/ i - Len(a) \in DOMAIN b /\ all[i] = b[i - Len(a)]
    BY <1>1
  <2> HIDE DEF all
  <2>7. \A i \in DOMAIN all : all[i] <= committed
    BY <2>3, <2>4, <2>6
  <2> QED
    BY <2>1, <2>5, <2>7
<1> QED
  BY <1>3, <1>4, <1>5, <1>6, <1>7 DEF Moves

(* TablesAreInOrder: as long as no commit fails, also through crashes and  *)
(* restarts, a table has its rows in the order in which their messages     *)
(* were published, so no row twice.                                        *)
THEOREM RowsAreInOrder == Spec => []TablesAreInOrder
<1> DEFINE Inv == \A k \in Rows : Ahead(k)
<1>1. Init => Inv
  <2> SUFFICES ASSUME Init, NEW k \in Rows PROVE Ahead(k)
    OBVIOUS
  <2>1. Table(k) = <<>> /\ Buffer(k) = <<>> /\ flushing[k] = <<>>
    BY DEF Init, Table, Buffer, Nothing, Rows
  <2>2. InHand(k) = {}
    BY <2>1 DEF InHand, ToSet
  <2> QED
    BY <2>1, <2>2 DEF Ahead, Rising
<1>2. Kept /\ Inv /\ [Next]_vars => Inv'
  BY StepMoves, MovingKeepsAhead
<1>3. Inv => TablesAreInOrder
  <2> SUFFICES ASSUME Inv, commitFailures = 0
               PROVE  Rising(tradeTable) /\ Rising(bookTable)
    BY DEF TablesAreInOrder, Rising
  <2>1. "trades" \in Rows /\ "books" \in Rows
    BY DEF Rows
  <2>2. Table("trades") = tradeTable /\ Table("books") = bookTable
    BY DEF Table
  <2>3. Rising(Table("trades")) /\ Rising(Table("books"))
    BY <2>1 DEF Ahead
  <2> QED
    BY <2>2, <2>3
<1> QED
  BY <1>1, <1>2, <1>3, AlwaysKept, PTL DEF Spec

-----------------------------------------------------------------------------
(* What is lost.                                                           *)

\* What one stop of the process can cost: a buffer not yet full and a poll.
Cost == BatchSize - 1 + PollMax

Short ==
    /\ pc = "poll" => Len(trades) <= BatchSize - 1
    /\ pc \in {"commit", "check", "final"} => Len(trades) <= Cost
    /\ pc \in Flushes => Len(flushing.trades) <= Cost

\* Without a committed offset the consumer has not gone back either.
NeverBack == committed = NoOffset => handed \subseteq 1..position

Careful == Kept /\ Short /\ NeverBack

LEMMA Sizes == BatchSize \in Nat \ {0} /\ PollMax \in Nat \ {0} /\ Cost \in Nat
BY StorageAssumption DEF StorageAssumption, Cost

LEMMA InitCareful == Init => Careful
BY InitKept, Sizes DEF Init, Careful, Short, NeverBack, Nothing, Flushes

LEMMA NextShort == ASSUME Kept, Short, [Next]_vars PROVE Short'
<1> USE Sizes DEF buffers, process, Short, Flushes
<1>1. Len(trades) \in Nat /\ Len(flushing.trades) \in Nat
  BY KindByKind DEF Kept
<1>2. CASE UNCHANGED <<trades, flushing, pc>>
  BY <1>2
<1>3. CASE PollBatch
  <2>1. PICK n \in position + 1 .. Len(log) :
            n - position <= PollMax /\ trades' = trades \o TradeRows(position, n)
    BY <1>3 DEF PollBatch
  <2>2. position \in Nat /\ n \in Nat /\ position <= n
    BY <2>1 DEF Kept, Typed
  <2>3. Batch(TradeRows(position, n), position, n)
    BY <2>2, RowsOfABatch
  <2>4. Len(trades') = Len(trades) + Len(TradeRows(position, n))
        /\ Len(TradeRows(position, n)) \in Nat /\ Len(TradeRows(position, n)) <= PollMax
    <3>1. trades \in Seq(1..position)
      BY KindByKind DEF Kept
    <3> QED
      BY <2>1, <2>2, <2>3, <3>1 DEF Batch
  <2>5. pc = "poll" /\ pc' = "commit"
    BY <1>3 DEF PollBatch
  <2> HIDE DEF Flushes
  <2> QED
    BY <1>1, <2>4, <2>5 DEF Cost, Flushes
<1>4. CASE PollNothing
  BY <1>1, <1>4 DEF PollNothing, Cost
<1>5. CASE Commit \/ CommitFails
  BY <1>5 DEF Commit, CommitFails
<1>6. CASE Flush \/ FinalFlush
  BY <1>1, <1>6 DEF Flush, FinalFlush, TakeBuffers, Cost
<1>7. CASE SkipFlush
  BY <1>1, <1>7 DEF SkipFlush, Full
<1>8. CASE WriteTrades
  <2>1. DOMAIN flushing = Rows
    BY DEF Kept, Buffers
  <2> QED
    BY <1>8, <2>1 DEF WriteTrades, Rows
<1>9. CASE WriteBooks
  BY <1>9 DEF WriteBooks, Nothing
<1>10. CASE Flushed
  <2>1. trades = <<>>
    BY <1>10, KindByKind DEF Kept, Flushed
  <2> QED
    BY <1>10, <2>1 DEF Flushed
<1>11. CASE WriteFails
  <2>1. trades = <<>>
    BY <1>11, KindByKind DEF Kept, WriteFails
  <2> QED
    BY <1>11, <2>1 DEF WriteFails
<1>12. CASE Close \/ Crash
  BY <1>12 DEF Close, Crash
<1>13. CASE Start
  BY <1>13 DEF Start
<1>14. CASE Publish \/ AutoCommit \/ Signal \/ UNCHANGED vars
  BY <1>14, <1>2 DEF Publish, AutoCommit, Signal, vars
<1> QED
  BY <1>3, <1>4, <1>5, <1>6, <1>7, <1>8, <1>9, <1>10, <1>11, <1>12, <1>13, <1>14
     DEF Next, Step

LEMMA NextNeverBack == ASSUME Kept, NeverBack, [Next]_vars PROVE NeverBack'
<1> USE DEF offsets, process, history, NeverBack, NoOffset
<1>1. position \in 0..Len(log) /\ handed \subseteq 1..Len(log) /\ committed \in Int
      /\ Len(log) \in Nat /\ taken \in 0..position
  BY HandIsPast DEF Kept, Typed
<1>2. CASE UNCHANGED <<committed, handed, position>>
  BY <1>2
<1>3. CASE PollBatch
  <2>1. PICK n \in position + 1 .. Len(log) :
            position' = n /\ handed' = handed \cup (position + 1 .. n)
    BY <1>3 DEF PollBatch
  <2>2. committed' = committed
    BY <1>3 DEF PollBatch
  <2> QED
    BY <1>1, <2>1, <2>2
<1>4. CASE Commit
  BY <1>1, <1>4 DEF Commit
<1>5. CASE Close
  BY <1>1, <1>5 DEF Close
<1>6. CASE AutoCommit
  BY <1>1, <1>6 DEF AutoCommit
<1>7. CASE Start
  BY <1>1, <1>7 DEF Start
<1>8. CASE \/ Publish \/ PollNothing \/ CommitFails \/ Flush \/ SkipFlush
           \/ WriteTrades \/ WriteBooks \/ Flushed \/ WriteFails \/ FinalFlush
           \/ Signal \/ Crash \/ UNCHANGED vars
  <2>1. UNCHANGED <<committed, handed, position>>
    BY <1>8 DEF Publish, PollNothing, CommitFails, Flush, SkipFlush, WriteTrades,
                WriteBooks, Flushed, WriteFails, FinalFlush, Signal, Crash, vars
  <2> QED
    BY <1>2, <2>1
<1> QED
  BY <1>3, <1>4, <1>5, <1>6, <1>7, <1>8 DEF Next, Step

LEMMA AlwaysCareful == Spec => []Careful
<1>1. Careful /\ [Next]_vars => Careful'
  BY NextKept, NextShort, NextNeverBack DEF Careful
<1> QED
  BY <1>1, InitCareful, PTL DEF Spec

\* Trades handed out that are not stored, and not in memory either.
Missing == {o \in handed : o <= position /\ log[o] = "trade"} \ ToSet(tradeTable)

Held == IF pc = "down" THEN {} ELSE Buffered

Gone == Missing \ Held

Accidents == crashes + writeFailures

\* A step loses nothing, or is an accident and loses what was held.
Loses ==
    \/ Gone' \subseteq Gone /\ Accidents' = Accidents
    \/ Gone' \subseteq Gone \cup Held /\ Accidents' = Accidents + 1

\* A step that moves no trade.
LEMMA NoTradeMoves ==
    ASSUME UNCHANGED <<log, handed, position, tradeTable, trades, flushing, crashes,
                       writeFailures>>,
           pc' = "down" => pc = "down" \/ Buffered = {}
    PROVE  Loses
BY DEF Loses, Gone, Missing, Held, Buffered, Accidents

LEMMA StepLoses == ASSUME Careful, [Next]_vars PROVE Loses
<1> USE DEF offsets, process, tables, history, buffers, Accidents
<1>1. /\ position \in 0..Len(log) /\ handed \subseteq 1..Len(log) /\ Len(log) \in Nat
      /\ crashes \in Nat /\ writeFailures \in Nat
      /\ trades \in Seq(Nat) /\ flushing.trades \in Seq(Nat) /\ tradeTable \in Seq(Nat)
  <2>1. /\ Typed /\ trades \in Seq(1..position) /\ flushing.trades \in Seq(1..position)
        /\ tradeTable \in Seq(1..Len(log))
    BY KindByKind DEF Careful, Kept
  <2> QED
    BY <2>1 DEF Typed
<1>2. ToSet(<<>>) = {}
  BY DEF ToSet
<1>3. CASE Publish
  <2>1. PICK kind \in Kinds : log' = Append(log, kind)
    BY <1>3 DEF Publish
  <2>2. \A o \in handed : log'[o] = log[o]
    <3>1. log \in Seq(Kinds)
      BY DEF Careful, Kept, Typed
    <3> QED
      BY <1>1, <2>1, <3>1
  <2>3. Missing' = Missing
    BY <1>3, <2>2 DEF Publish, Missing
  <2>4. Held' = Held
    BY <1>3 DEF Publish, Held, Buffered
  <2> QED
    BY <1>3, <2>3, <2>4 DEF Publish, Loses, Gone
<1>4. CASE PollBatch
  <2>1. PICK n \in position + 1 .. Len(log) :
            /\ trades' = trades \o TradeRows(position, n) /\ position' = n
            /\ handed' = handed \cup (position + 1 .. n)
    BY <1>4 DEF PollBatch
  <2>2. /\ Batch(TradeRows(position, n), position, n)
        /\ {o \in position + 1 .. n : log[o] = "trade"} \subseteq ToSet(TradeRows(position, n))
    BY <1>1, <2>1, RowsOfABatch
  <2>3. ToSet(trades') = ToSet(trades) \cup ToSet(TradeRows(position, n))
    <3>1. TradeRows(position, n) \in Seq(Nat)
      <4>1. TradeRows(position, n) \in Seq(position + 1 .. n)
        BY <2>2 DEF Batch
      <4> QED
        BY <1>1, <4>1
    <3> QED
      BY <1>1, <2>1, <3>1, MembersJoined
  <2>4. /\ UNCHANGED <<log, tradeTable, flushing, crashes, writeFailures>>
        /\ pc = "poll" /\ pc' = "commit"
    BY <1>4 DEF PollBatch
  <2>5. Gone' \subseteq Gone
    <3> SUFFICES ASSUME NEW o \in Gone' PROVE o \in Gone
      OBVIOUS
    <3>1. /\ o \in handed' /\ o <= n /\ log[o] = "trade" /\ o \notin ToSet(tradeTable)
          /\ o \notin ToSet(trades') /\ o \notin ToSet(flushing.trades)
      BY <2>1, <2>4 DEF Gone, Missing, Held, Buffered
    <3>2. o \notin position + 1 .. n
      BY <2>2, <2>3, <3>1
    <3>3. o \in handed /\ o <= position
      BY <1>1, <2>1, <3>1, <3>2
    <3> QED
      BY <2>3, <2>4, <3>1, <3>3 DEF Gone, Missing, Held, Buffered
  <2> QED
    BY <2>4, <2>5 DEF Loses
<1>5. CASE PollNothing \/ Commit \/ CommitFails \/ SkipFlush \/ AutoCommit \/ Signal
  <2>1. UNCHANGED <<log, handed, position, tradeTable, trades, flushing, crashes, writeFailures>>
    BY <1>5 DEF PollNothing, Commit, CommitFails, SkipFlush, AutoCommit, Signal
  <2>2. pc' = "down" => pc = "down"
    BY <1>5 DEF PollNothing, Commit, CommitFails, SkipFlush, AutoCommit, Signal
  <2> QED
    BY <2>1, <2>2, NoTradeMoves
<1>6. CASE Flushed
  BY <1>6, NoTradeMoves DEF Flushed
<1>7. CASE Close
  <2>1. Buffered = {}
    BY <1>2, <1>7, KindByKind DEF Close, Careful, Kept, Buffered, Flushes
  <2> QED
    BY <1>7, <2>1, NoTradeMoves DEF Close
<1>8. CASE UNCHANGED vars
  BY <1>8, NoTradeMoves DEF vars
<1>9. CASE Flush \/ FinalFlush
  <2>1. /\ flushing'.trades = trades /\ trades' = <<>> /\ pc' # "down" /\ pc # "down"
        /\ flushing.trades = <<>>
        /\ UNCHANGED <<log, handed, position, tradeTable, crashes, writeFailures>>
    BY <1>9, KindByKind DEF Flush, FinalFlush, TakeBuffers, Careful, Kept, Flushes
  <2> QED
    BY <1>2, <2>1 DEF Loses, Gone, Missing, Held, Buffered
<1>10. CASE WriteTrades
  <2>1. DOMAIN flushing = Rows
    BY DEF Careful, Kept, Buffers
  <2>2. /\ tradeTable' = tradeTable \o flushing.trades /\ flushing'.trades = <<>>
        /\ pc # "down" /\ pc' # "down"
        /\ UNCHANGED <<log, handed, position, trades, crashes, writeFailures>>
    BY <1>10, <2>1 DEF WriteTrades, Rows
  <2>3. ToSet(tradeTable') = ToSet(tradeTable) \cup ToSet(flushing.trades)
    BY <1>1, <2>2, MembersJoined
  <2> QED
    BY <1>2, <2>2, <2>3 DEF Loses, Gone, Missing, Held, Buffered
<1>11. CASE WriteBooks
  <2>1. /\ flushing.trades = <<>> /\ flushing'.trades = <<>> /\ pc' = pc
        /\ UNCHANGED <<log, handed, position, trades, tradeTable, crashes, writeFailures>>
    BY <1>11 DEF WriteBooks, Nothing
  <2> QED
    BY <2>1 DEF Loses, Gone, Missing, Held, Buffered
<1>12. CASE WriteFails
  <2>1. /\ pc # "down" /\ writeFailures' = writeFailures + 1
        /\ UNCHANGED <<log, handed, position, trades, tradeTable, crashes>>
    BY <1>12 DEF WriteFails
  <2>2. Accidents' = Accidents + 1
    BY <1>1, <2>1
  <2>3. Gone' \subseteq Gone \cup Held
    BY <2>1 DEF Gone, Missing, Held, Buffered
  <2> QED
    BY <2>2, <2>3 DEF Loses
<1>13. CASE Crash
  <2>1. /\ pc # "down" /\ crashes' = crashes + 1
        /\ UNCHANGED <<log, handed, position, trades, tradeTable, writeFailures>>
    BY <1>13 DEF Crash
  <2>2. Accidents' = Accidents + 1
    BY <1>1, <2>1
  <2>3. Gone' \subseteq Gone \cup Held
    BY <2>1 DEF Gone, Missing, Held, Buffered
  <2> QED
    BY <2>2, <2>3 DEF Loses
<1>14. CASE Start
  <2>1. /\ pc = "down" /\ position' = IF committed = NoOffset THEN Len(log) ELSE committed
        /\ UNCHANGED <<log, handed, tradeTable, crashes, writeFailures>>
    BY <1>14 DEF Start
  <2>2. \A o \in handed : o <= position' => o <= position
    <3>1. committed \in Int /\ committed <= position
      BY HandIsPast DEF Careful, Rows
    <3> QED
      BY <1>1, <2>1, <3>1 DEF Careful, NeverBack
  <2>3. Missing' \subseteq Missing
    BY <2>1, <2>2 DEF Missing
  <2> QED
    BY <2>1, <2>3 DEF Loses, Gone, Held
<1> QED
  BY <1>3, <1>4, <1>5, <1>6, <1>7, <1>8, <1>9, <1>10, <1>11, <1>12, <1>13, <1>14
     DEF Next, Step

-----------------------------------------------------------------------------
(* How much is lost.                                                       *)

LEMMA CountOfRows ==
    ASSUME NEW rows \in Seq(Nat)
    PROVE  /\ IsFiniteSet(ToSet(rows)) /\ Cardinality(ToSet(rows)) \in Nat
           /\ Cardinality(ToSet(rows)) <= Len(rows)
<1>1. Len(rows) \in Nat /\ DOMAIN rows = 1..Len(rows) /\ rows \in [1..Len(rows) -> Nat]
  OBVIOUS
<1>2. rows \in [1..Len(rows) -> ToSet(rows)]
  BY <1>1 DEF ToSet
<1>3. \A o \in ToSet(rows) : \E i \in 1..Len(rows) : rows[i] = o
  BY <1>1 DEF ToSet
<1>4. rows \in Surjection(1..Len(rows), ToSet(rows))
  BY <1>2, <1>3 DEF Surjection
<1>5. IsFiniteSet(1..Len(rows)) /\ Cardinality(1..Len(rows)) = Len(rows)
  <2>1. 1 \in Int /\ Len(rows) \in Int
    BY <1>1
  <2>2. /\ IsFiniteSet(1..Len(rows))
        /\ Cardinality(1..Len(rows)) = IF 1 > Len(rows) THEN 0 ELSE Len(rows) - 1 + 1
    BY ONLY <2>1, FS_Interval
  <2> QED
    BY <1>1, <2>2
<1>6. IsFiniteSet(ToSet(rows)) /\ Cardinality(ToSet(rows)) <= Cardinality(1..Len(rows))
  BY ONLY <1>4, <1>5, FS_Surjection
<1> QED
  BY <1>5, <1>6, FS_CardinalityType

LEMMA CountOfTwo ==
    ASSUME NEW S, IsFiniteSet(S), NEW T, IsFiniteSet(T)
    PROVE  Cardinality(S \cup T) <= Cardinality(S) + Cardinality(T)
<1>1. Cardinality(S) \in Nat /\ Cardinality(T) \in Nat /\ Cardinality(S \cap T) \in Nat
  <2>1. S \cap T \in SUBSET S
    OBVIOUS
  <2>2. IsFiniteSet(S \cap T)
    BY ONLY <2>1, FS_Subset, IsFiniteSet(S)
  <2> QED
    BY <2>2, FS_CardinalityType
<1>2. Cardinality(S \cup T) = Cardinality(S) + Cardinality(T) - Cardinality(S \cap T)
  BY FS_Union
<1> QED
  BY <1>1, <1>2

\* What is held is at most what one accident may cost.
LEMMA HeldIsSmall ==
    ASSUME Careful
    PROVE  IsFiniteSet(Held) /\ Cardinality(Held) \in Nat /\ Cardinality(Held) <= Cost
<1>1. /\ trades \in Seq(Nat) /\ flushing.trades \in Seq(Nat)
      /\ pc \in {"poll", "commit", "check", "flush", "final", "finalFlush", "close", "down"}
  <2>1. trades \in Seq(1..position) /\ flushing.trades \in Seq(1..position) /\ Typed
    BY KindByKind DEF Careful, Kept
  <2> QED
    BY <2>1 DEF Typed
<1>2. ToSet(<<>>) = {} /\ IsFiniteSet({}) /\ Cardinality({}) = 0 /\ Cost \in Nat
  BY FS_EmptySet, Sizes DEF ToSet
<1>3. CASE pc \in {"close", "down"}
  <2>1. Held = {}
    BY <1>2, <1>3, KindByKind DEF Held, Buffered, Careful, Kept, Flushes
  <2> QED
    BY <1>2, <2>1
<1>4. CASE pc \in Flushes
  <2>1. Held = ToSet(flushing.trades) /\ Len(flushing.trades) <= Cost
    BY <1>2, <1>4, KindByKind DEF Held, Buffered, Careful, Kept, Short, Flushes
  <2> QED
    BY <1>1, <1>2, <2>1, CountOfRows
<1>5. CASE pc \in {"poll", "commit", "check", "final"}
  <2>1. Held = ToSet(trades)
    BY <1>2, <1>5, KindByKind DEF Held, Buffered, Careful, Kept, Flushes
  <2>2. Len(trades) <= Cost
    BY <1>1, <1>5, Sizes DEF Careful, Short, Cost
  <2> QED
    BY <1>1, <1>2, <2>1, <2>2, CountOfRows
<1> QED
  BY <1>1, <1>3, <1>4, <1>5 DEF Flushes

Bounded == Cardinality(Gone) <= Accidents * Cost

Counted == IsFiniteSet(Gone) /\ Cardinality(Gone) \in Nat

LEMMA GoneIsCounted == Careful => Counted
<1> SUFFICES ASSUME Careful PROVE Counted
  OBVIOUS
<1>1. position \in Int /\ \A o \in handed : o \in Int /\ 1 <= o
  <2>1. position \in 0..Len(log) /\ handed \subseteq 1..Len(log)
    BY DEF Careful, Kept, Typed
  <2> QED
    BY <2>1
<1>2. Gone \in SUBSET (1..position)
  <2>1. \A o \in Gone : o \in handed /\ o <= position
    BY DEF Gone, Missing
  <2>2. \A o \in Gone : o \in 1..position
    BY <1>1, <2>1
  <2> QED
    BY <2>2
<1>3. IsFiniteSet(1..position)
  BY <1>1, FS_Interval
<1>4. IsFiniteSet(Gone)
  BY ONLY <1>2, <1>3, FS_Subset
<1> QED
  BY <1>4, FS_CardinalityType DEF Counted

LEMMA OneMoreTime == ASSUME NEW a \in Nat, NEW k \in Nat PROVE (a + 1) * k = a * k + k
OBVIOUS

LEMMA NextBounded == ASSUME Careful, Counted, Counted', Bounded, Loses PROVE Bounded'
<1>1. /\ IsFiniteSet(Gone) /\ Cardinality(Gone) \in Nat
      /\ IsFiniteSet(Gone') /\ Cardinality(Gone') \in Nat
  BY DEF Counted
<1>2. Accidents \in Nat /\ Cost \in Nat
  BY Sizes DEF Careful, Kept, Typed, Accidents
<1>3. Accidents * Cost \in Nat /\ (Accidents + 1) * Cost = Accidents * Cost + Cost
  BY <1>2, OneMoreTime
<1>4. Cardinality(Gone) <= Accidents * Cost
  BY DEF Bounded
<1>5. CASE Gone' \subseteq Gone /\ Accidents' = Accidents
  <2>1. Cardinality(Gone') <= Cardinality(Gone)
    BY <1>1, <1>5, FS_Subset
  <2> QED
    BY <1>1, <1>3, <1>4, <1>5, <2>1 DEF Bounded, Cost
<1>6. CASE Gone' \subseteq Gone \cup Held /\ Accidents' = Accidents + 1
  <2>1. IsFiniteSet(Held) /\ Cardinality(Held) \in Nat /\ Cardinality(Held) <= Cost
    BY HeldIsSmall
  <2>2. IsFiniteSet(Gone \cup Held)
    BY <1>1, <2>1, FS_Union
  <2>3. Cardinality(Gone') <= Cardinality(Gone \cup Held)
        /\ Cardinality(Gone \cup Held) \in Nat
    BY <1>6, <2>2, FS_Subset, FS_CardinalityType
  <2>4. Cardinality(Gone \cup Held) <= Cardinality(Gone) + Cardinality(Held)
    BY <1>1, <2>1, CountOfTwo
  <2>5. Cardinality(Gone') <= (Accidents + 1) * Cost
    BY <1>1, <1>2, <1>3, <1>4, <2>1, <2>3, <2>4
  <2> QED
    BY <1>6, <2>5 DEF Bounded, Cost
<1> QED
  BY <1>5, <1>6 DEF Loses

(* LossIsBounded: the commit runs ahead of the insert, so a crash or a     *)
(* failed insert loses the trades in memory, which are never more than a   *)
(* buffer short of BATCH_SIZE and one poll; no other step loses any.       *)
THEOREM LossStaysBounded == Spec => []LossIsBounded
<1>1. Init => Bounded
  <2> SUFFICES ASSUME Init PROVE Bounded
    OBVIOUS
  <2>1. Gone = {} /\ Accidents = 0
    BY DEF Init, Gone, Missing, Accidents
  <2> QED
    BY <2>1, FS_EmptySet, Sizes DEF Bounded
<1>2. Careful /\ Counted /\ Counted' /\ Bounded /\ [Next]_vars => Bounded'
  BY StepLoses, NextBounded
<1>3. Bounded => LossIsBounded
  BY DEF Bounded, LossIsBounded, Gone, Missing, Held, LostTrades, Accidents, Cost
<1> QED
  BY <1>1, <1>2, <1>3, AlwaysCareful, GoneIsCounted, PTL DEF Spec

-----------------------------------------------------------------------------
(* The types.                                                              *)

\* The flush under way is a record whatever it holds.
Formed == flushing \in [trades : Seq(Nat), books : Seq(Nat)]

LEMMA NextFormed == ASSUME Kept, Formed, [Next]_vars PROVE Formed'
<1> USE DEF process, buffers
<1>1. CASE UNCHANGED flushing
  BY <1>1 DEF Formed
<1>2. CASE flushing' = Nothing
  BY <1>2 DEF Formed, Nothing
<1>3. CASE Flush \/ FinalFlush
  <2>1. trades \in Seq(Nat) /\ books \in Seq(Nat)
    <3>1. trades \in Seq(1..position) /\ books \in Seq(1..position) /\ position \in Nat
      BY KindByKind, HandIsPast DEF Kept, Typed
    <3> QED
      BY <3>1
  <2>2. flushing' = [trades |-> trades, books |-> books]
    BY <1>3 DEF Flush, FinalFlush, TakeBuffers
  <2> QED
    BY <2>1, <2>2 DEF Formed
<1>4. CASE WriteTrades
  <2>1. flushing' = [flushing EXCEPT !.trades = <<>>]
    BY <1>4 DEF WriteTrades
  <2>2. <<>> \in Seq(Nat)
    OBVIOUS
  <2>3. flushing' = [trades |-> <<>>, books |-> flushing.books]
        /\ flushing.books \in Seq(Nat)
    BY <2>1 DEF Formed
  <2> QED
    BY <2>2, <2>3 DEF Formed
<1>5. CASE \/ Publish \/ PollBatch \/ PollNothing \/ Commit \/ CommitFails \/ SkipFlush
           \/ Flushed \/ Close \/ AutoCommit \/ Signal \/ Crash \/ UNCHANGED vars
  <2>1. UNCHANGED flushing
    BY <1>5 DEF Publish, PollBatch, PollNothing, Commit, CommitFails, SkipFlush, Flushed,
                Close, AutoCommit, Signal, Crash, vars
  <2> QED
    BY <1>1, <2>1
<1>6. CASE WriteBooks \/ WriteFails \/ Start
  <2>1. flushing' = Nothing
    BY <1>6 DEF WriteBooks, WriteFails, Start
  <2> QED
    BY <1>2, <2>1
<1> QED
  BY <1>3, <1>4, <1>5, <1>6 DEF Next, Step

Runs == running \in BOOLEAN

LEMMA NextRuns == ASSUME Runs, [Next]_vars PROVE Runs'
<1>1. running' = running \/ running' = TRUE \/ running' = FALSE
  BY DEF Next, Step, Publish, PollBatch, PollNothing, Commit, CommitFails, Flush, SkipFlush,
         WriteTrades, WriteBooks, Flushed, WriteFails, FinalFlush, Close, Start, AutoCommit,
         Signal, Crash, vars, process
<1> QED
  BY <1>1, Zenon DEF Runs

(* TypeOK: whatever the process, Kafka and the database do, offsets stay   *)
(* within the log and the buffers hold offsets that were handed out.       *)
THEOREM TypesHold == Spec => []TypeOK
<1>1. Init => Formed /\ Runs
  <2>1. Init => Formed
    BY DEF Init, Formed, Nothing
  <2>2. Init => Runs
    BY Zenon DEF Init, Runs
  <2> QED
    BY <2>1, <2>2
<1>2. Kept /\ Formed /\ [Next]_vars => Formed'
  BY NextFormed
<1>4. Runs /\ [Next]_vars => Runs'
  BY NextRuns
<1>3. Kept /\ Formed /\ Runs => TypeOK
  <2> SUFFICES ASSUME Kept, Formed, Runs PROVE TypeOK
    OBVIOUS
  <2>1. /\ trades \in Seq(1..position) /\ books \in Seq(1..position)
        /\ flushing.trades \in Seq(1..position) /\ flushing.books \in Seq(1..position)
        /\ tradeTable \in Seq(1..Len(log)) /\ bookTable \in Seq(1..Len(log))
    BY KindByKind DEF Kept
  <2>2. flushing \in [trades : Seq(1..position), books : Seq(1..position)]
    BY <2>1 DEF Formed
  <2>3. committed \in {NoOffset} \cup 1..Len(log)
    BY DEF Kept, Typed
  <2> QED
    BY <2>1, <2>2, <2>3 DEF Kept, Typed, Runs, TypeOK
<1> QED
  BY <1>1, <1>2, <1>3, <1>4, AlwaysKept, PTL DEF Spec

=============================================================================
