---------------------------- MODULE IngestProofs ----------------------------
(***************************************************************************)
(* Proofs about Ingest for every vector size, every number of retained     *)
(* chunks and every bound on rows, batches and appenders.                  *)
(*                                                                         *)
(* The invariant says which errors stick (Sticky), how far a call is       *)
(* (Calling), that the staging chunks hold the rows of the batch being     *)
(* appended (Staging), and that the rows the engine has taken are the      *)
(* accepted ones and the first rows of the batch in progress (Balance).    *)
(***************************************************************************)
EXTENDS Ingest, SequenceTheorems, TLAPS

-----------------------------------------------------------------------------
(* The inductive invariant.                                                 *)

\* A failure of an appender has poisoned its transaction; a status that is not ok is a
\* failure, or will be one when the call in progress settles.
Sticky(t, a, c) ==
    /\ a.failed => t.poisoned
    /\ a.status # "ok" => a.failed \/ c.pc \in {"chunks", "settle", "flushed"}
    /\ c.pc \in {"chunks", "slices"} => ~a.failed

\* What a call knows of its batch, its appender and the transaction.
Calling(t, a, c) ==
    /\ t.state # "open" => c.pc = "body" /\ a.state = "none"
    /\ t.state = "committed" => ~t.poisoned
    /\ a.state = "none" => c.pc \in {"body", "open"} /\ a.status = "ok" /\ ~a.failed
    /\ c.pc = "open" => a.state = "none"
    /\ c.pc \notin {"chunks", "slices", "settle"} => c.batch = <<>>
    /\ c.batch # <<>> => t.batches >= 1
    /\ c.pc = "chunks" => c.at >= 1 /\ \A i \in 1..Len(c.batch) : c.batch[i] \in {"value", "null"}
    /\ c.pc = "slices" => c.at <= Len(c.batch)
    /\ c.pc = "slices" => \A i \in 1..Len(c.batch) : c.batch[i] \in {"value", "null", "invalid"}

\* What the engine reads from row j of chunk k.
Cell(pool, k, j) == IF pool[k][j].valid THEN pool[k][j].row ELSE NullRow

\* The chunks hold n rows of the batch, from the row after [from].
Holds(pool, b, batch, from, n) ==
    /\ Chunks(n) <= Len(pool)
    /\ \A k \in 1..Chunks(n), j \in 1..VectorSize :
          (k - 1) * VectorSize + j <= n =>
              Cell(pool, k, j) = Stored(b, batch, from + ((k - 1) * VectorSize + j))

\* The rows of a batch are staged before the first chunk is appended.  Between slices
\* the chunks are already cut back.
Staging(t, c, s) ==
    /\ c.pc = "chunks" => s.rows = Len(c.batch) /\ Holds(s.pool, t.batches, c.batch, 0, s.rows)
    /\ c.pc = "slices" /\ c.at > 0 => Len(s.pool) <= Retained

\* The first n rows of a batch, as the table holds them.
Taken(b, batch, n) == [i \in 1..n |-> Stored(b, batch, i)]

\* The rows of the chunks before [at].
Sent(at, rows) == IF at <= Chunks(rows) THEN (at - 1) * VectorSize ELSE rows

\* While nothing has failed, the engine holds what was accepted and what the call in
\* progress has appended; without an appender nothing is buffered.
Balance(t, a, e, c, dead, done) ==
    LET has(rows) == e.stored \o e.buffer = done \o rows IN
    /\ a.state = "none" => e.buffer = <<>>
    /\ t.state # "rolled_back" /\ ~t.poisoned =>
        /\ c.pc \in {"body", "open", "select", "types"} => e.stored \o e.buffer = done
        /\ c.pc = "flushed" /\ a.status = "ok" => e.stored = done /\ e.buffer = <<>>
        /\ c.pc = "destroy" => e.stored = done /\ e.buffer = <<>>
        /\ c.pc = "chunks" /\ a.status = "ok" => has(Taken(t.batches, c.batch, Sent(c.at, Len(c.batch))))
        /\ c.pc = "slices" => has(Taken(t.batches, c.batch, c.at))
        /\ c.pc = "settle" /\ a.status = "ok" /\ ~dead => has(Taken(t.batches, c.batch, Len(c.batch)))

IInv ==
    /\ TypeOK
    /\ Sticky(tx, app, call)
    /\ Calling(tx, app, call)
    /\ Staging(tx, call, stage)
    /\ Balance(tx, app, engine, call, cancelled, accepted)

-----------------------------------------------------------------------------
(* Arithmetic of chunks.                                                    *)

\* A product grows with its first factor.
LEMMA ProductGrows ==
    ASSUME NEW a \in Int, NEW b \in Int, NEW v \in Nat, a <= b
    PROVE  a * v \in Int /\ b * v \in Int /\ a * v <= b * v
<1>1. b - a \in Nat /\ (b - a) * v \in Nat
  OBVIOUS
<1>2. b * v = a * v + (b - a) * v
  OBVIOUS
<1>. QED
  BY <1>1, <1>2

\* The chunks of n rows hold them, and all but the last are full.
LEMMA ChunksAre ==
    ASSUME NEW n \in Nat
    PROVE  /\ VectorSize \in Nat /\ VectorSize >= 1
           /\ Chunks(n) \in Nat
           /\ n <= Chunks(n) * VectorSize
           /\ (Chunks(n) - 1) * VectorSize < n \/ (n = 0 /\ Chunks(n) = 0)
<1>. DEFINE v == VectorSize
            a == n + v - 1
            c == a \div v
            d == a % v
<1>1. v \in Nat /\ v >= 1
  BY BoundsAssumption
<1>2. a \in Nat
  BY <1>1
<1>. HIDE DEF v, a
<1>3. c \in Int /\ d \in Int /\ 0 <= d /\ d < v /\ a = v * c + d
  BY <1>1, <1>2
<1>. HIDE DEF c, d
<1>4. v * c = c * v /\ c * v \in Int
  BY <1>1, <1>3
<1>5. c >= 0
  <2>1. SUFFICES ASSUME c <= -1 PROVE FALSE
    BY <1>3
  <2>2. c * v <= (-1) * v
    BY <1>1, <1>3, <2>1, ProductGrows
  <2>. QED
    BY <1>1, <1>2, <1>3, <1>4, <2>2
<1>6. a = n + v - 1 /\ Chunks(n) = c /\ v = VectorSize
  BY DEF a, c, Chunks, v
<1>7. (c - 1) * v = c * v - v
  BY <1>1, <1>3
<1>8. n <= c * v /\ (c - 1) * v <= n - 1
  BY <1>1, <1>3, <1>4, <1>6, <1>7
<1>9. (c - 1) * v < n
  BY <1>1, <1>3, <1>7, <1>8
<1>. QED
  BY <1>1, <1>3, <1>5, <1>6, <1>8, <1>9

\* No rows, no chunks.
LEMMA NoRowsNoChunks == Chunks(0) = 0
<1>1. Chunks(0) \in Nat /\ VectorSize \in Nat /\ VectorSize >= 1
      /\ ((Chunks(0) - 1) * VectorSize < 0 \/ Chunks(0) = 0)
  BY ChunksAre
<1>2. CASE Chunks(0) >= 1
  BY <1>1, <1>2, ProductGrows
<1>. QED
  BY <1>1, <1>2

\* More rows take at least as many chunks.
LEMMA ChunksGrow ==
    ASSUME NEW n \in Nat, NEW m \in Nat, n <= m
    PROVE  Chunks(n) <= Chunks(m)
<1>1. Chunks(n) \in Nat /\ Chunks(m) \in Nat /\ VectorSize \in Nat
      /\ m <= Chunks(m) * VectorSize
      /\ ((Chunks(n) - 1) * VectorSize < n \/ Chunks(n) = 0)
  BY ChunksAre
<1>2. SUFFICES ASSUME Chunks(m) <= Chunks(n) - 1, Chunks(n) # 0 PROVE FALSE
  BY <1>1
<1>3. Chunks(m) * VectorSize <= (Chunks(n) - 1) * VectorSize
      /\ Chunks(m) * VectorSize \in Int /\ (Chunks(n) - 1) * VectorSize \in Int
  BY <1>1, <1>2, ProductGrows
<1>. QED
  BY <1>1, <1>2, <1>3

\* The size that append_staged gives to chunk k.
SizeOf(rows, k) == IF k < Chunks(rows) THEN VectorSize ELSE rows - (k - 1) * VectorSize

\* Chunk k ends where the next one begins, and the last one at the end of the rows.
LEMMA ChunkEnds ==
    ASSUME NEW rows \in Nat, NEW k \in Nat, 1 <= k, k <= Chunks(rows)
    PROVE  /\ SizeOf(rows, k) \in 1..VectorSize
           /\ (k - 1) * VectorSize \in Nat
           /\ Sent(k, rows) = (k - 1) * VectorSize
           /\ Sent(k + 1, rows) = Sent(k, rows) + SizeOf(rows, k)
           /\ Sent(k + 1, rows) \in 0..rows
<1>. DEFINE v == VectorSize
            c == Chunks(rows)
            p == (k - 1) * v
<1>1. /\ v \in Nat /\ v >= 1 /\ c \in Nat
      /\ rows <= c * v /\ (c - 1) * v < rows
  BY ChunksAre
<1>2. p \in Nat
  BY <1>1, ProductGrows
<1>3. k * v = p + v /\ c * v = (c - 1) * v + v /\ (c - 1) * v \in Int
  BY <1>1
<1>4. ((k + 1) - 1) * v = k * v
  BY <1>1
<1>5. p = (k - 1) * VectorSize /\ v = VectorSize /\ c = Chunks(rows)
      /\ ((k + 1) - 1) * VectorSize = k * v
  BY <1>4
<1>6. CASE k < c
  <2>1. k * v <= (c - 1) * v
    BY <1>1, <1>6, ProductGrows
  <2>2. k + 1 <= c
    BY <1>1, <1>6
  <2>. HIDE DEF v, c, p
  <2>3. SizeOf(rows, k) = v /\ Sent(k, rows) = p /\ Sent(k + 1, rows) = k * v
    BY <1>1, <1>5, <1>6, <2>2 DEF SizeOf, Sent
  <2>4. k * v \in Nat /\ k * v <= rows
    BY <1>1, <1>2, <1>3, <2>1
  <2>. QED
    BY <1>1, <1>2, <1>3, <1>5, <2>3, <2>4
<1>7. CASE k = c
  <2>1. c * v = p + v
    BY <1>3, <1>7
  <2>2. p < rows /\ rows <= p + v
    BY <1>1, <1>7, <2>1
  <2>3. ~(k < c) /\ ~(k + 1 <= c) /\ k <= c
    BY <1>1, <1>7
  <2>. HIDE DEF v, c, p
  <2>4. SizeOf(rows, k) = rows - p /\ Sent(k, rows) = p /\ Sent(k + 1, rows) = rows
    BY <1>5, <2>3 DEF SizeOf, Sent
  <2>. QED
    BY <1>1, <1>2, <1>5, <2>2, <2>4
<1>. QED
  BY <1>1, <1>6, <1>7

\* Nothing is sent before the first chunk.
LEMMA NothingSent ==
    ASSUME NEW rows \in Nat
    PROVE  Sent(1, rows) = 0
<1>1. Chunks(rows) \in Nat /\ VectorSize \in Nat /\ rows <= Chunks(rows) * VectorSize
  BY ChunksAre
<1>2. CASE Chunks(rows) = 0
  <2>1. rows <= 0 * VectorSize
    BY <1>1, <1>2
  <2>2. rows = 0 /\ ~(1 <= Chunks(rows))
    BY <1>1, <1>2, <2>1
  <2>. QED
    BY <2>2 DEF Sent
<1>3. CASE 1 <= Chunks(rows)
  BY <1>1, <1>3 DEF Sent
<1>. QED
  BY <1>1, <1>2, <1>3

\* At most one vector of rows makes one chunk.
LEMMA OneChunk ==
    ASSUME NEW n \in Nat, 1 <= n, n <= VectorSize
    PROVE  Chunks(n) = 1
<1>1. Chunks(n) \in Nat /\ VectorSize \in Nat /\ n <= Chunks(n) * VectorSize
      /\ (Chunks(n) - 1) * VectorSize < n
  BY ChunksAre
<1>2. CASE Chunks(n) = 0
  BY <1>1, <1>2
<1>3. CASE Chunks(n) >= 2
  <2>1. 1 * VectorSize <= (Chunks(n) - 1) * VectorSize /\ (Chunks(n) - 1) * VectorSize \in Int
    BY <1>1, <1>3, ProductGrows
  <2>. QED
    BY <1>1, <2>1
<1>. QED
  BY <1>1, <1>2, <1>3

-----------------------------------------------------------------------------
(* Batches, staging and the engine.                                         *)

\* A function on 1..n is a sequence of length n.
LEMMA SequenceIs ==
    ASSUME NEW S, NEW n \in Nat, NEW f \in [1..n -> S]
    PROVE  f \in Seq(S) /\ Len(f) = n
OBVIOUS

\* A batch is a sequence of at most MaxRows kinds.
LEMMA BatchIs ==
    ASSUME NEW batch \in Batches
    PROVE  /\ batch \in Seq(Kinds) /\ Len(batch) \in 0..MaxRows /\ MaxRows \in Nat
           /\ \A i \in 1..Len(batch) : batch[i] \in Kinds
           /\ DOMAIN batch = 1..Len(batch)
           /\ Len(batch) = 0 <=> batch = <<>>
<1>1. MaxRows \in Nat
  BY BoundsAssumption
<1>2. PICK n \in 0..MaxRows : batch \in [1..n -> Kinds]
  BY DEF Batches
<1>3. batch \in Seq(Kinds) /\ Len(batch) = n
  BY <1>1, <1>2, SequenceIs
<1>. QED
  BY <1>1, <1>2, <1>3, LenProperties, EmptySeq

\* The batch of no rows is a batch.
LEMMA EmptyBatch == <<>> \in Batches
<1>1. 0 \in 0..MaxRows
  BY BoundsAssumption
<1>2. <<>> \in [1..0 -> Kinds]
  OBVIOUS
<1>. QED
  BY <1>1, <1>2 DEF Batches

\* What the table holds of a row is a row.
LEMMA StoredIs ==
    ASSUME NEW b \in 1..MaxBatches, NEW batch \in Batches, NEW i \in 1..Len(batch)
    PROVE  Stored(b, batch, i) \in Rows /\ <<b, i>> \in Rows
<1>1. i \in 1..MaxRows
  BY BatchIs
<1>. QED
  BY <1>1 DEF Stored, Rows

\* The first n rows of a batch.
LEMMA TakenIs ==
    ASSUME NEW b \in 1..MaxBatches, NEW batch \in Batches, NEW n \in 0..Len(batch)
    PROVE  /\ Taken(b, batch, n) \in Seq(Rows) /\ Len(Taken(b, batch, n)) = n
           /\ \A i \in 1..n : Taken(b, batch, n)[i] = Stored(b, batch, i)
<1>1. n \in Nat /\ \A i \in 1..n : i \in 1..Len(batch)
  BY BatchIs
<1>2. Taken(b, batch, n) \in [1..n -> Rows]
  BY <1>1, StoredIs DEF Taken
<1>. QED
  BY <1>1, <1>2, SequenceIs DEF Taken

\* Of no rows nothing is taken, whatever the batch.
LEMMA NothingTaken ==
    ASSUME NEW b, NEW batch
    PROVE  Taken(b, batch, 0) = <<>>
BY DEF Taken

\* The m rows of a batch after the first n.
Slice(b, batch, n, m) == [j \in 1..m |-> Stored(b, batch, n + j)]

\* The next m rows follow the first n.
LEMMA TakenMore ==
    ASSUME NEW b \in 1..MaxBatches, NEW batch \in Batches, NEW n \in Nat, NEW m \in Nat,
           NEW to \in Nat, to = n + m, to <= Len(batch)
    PROVE  /\ Slice(b, batch, n, m) \in Seq(Rows) /\ Len(Slice(b, batch, n, m)) = m
           /\ Taken(b, batch, n) \o Slice(b, batch, n, m) = Taken(b, batch, to)
<1>. DEFINE rows == Slice(b, batch, n, m)
            s == Taken(b, batch, n)
            t == Taken(b, batch, n + m)
<1>1. Len(batch) \in Nat /\ n \in 0..Len(batch) /\ n + m \in 0..Len(batch)
  BY BatchIs
<1>2. \A j \in 1..m : n + j \in 1..Len(batch)
  BY <1>1
<1>3. rows \in [1..m -> Rows]
  BY <1>2, StoredIs DEF Slice
<1>4. rows \in Seq(Rows) /\ Len(rows) = m /\ \A j \in 1..m : rows[j] = Stored(b, batch, n + j)
  BY <1>3, SequenceIs DEF Slice
<1>5. /\ s \in Seq(Rows) /\ Len(s) = n /\ \A i \in 1..n : s[i] = Stored(b, batch, i)
      /\ t \in Seq(Rows) /\ Len(t) = n + m /\ \A i \in 1..(n + m) : t[i] = Stored(b, batch, i)
  BY <1>1, TakenIs
<1>. HIDE DEF s, t, rows
<1>6. /\ s \o rows \in Seq(Rows) /\ Len(s \o rows) = n + m
      /\ \A i \in 1..(n + m) : (s \o rows)[i] = IF i <= n THEN s[i] ELSE rows[i - n]
  <2>1. s \in Seq(Rows) /\ rows \in Seq(Rows)
    BY <1>4, <1>5
  <2>2. /\ s \o rows \in Seq(Rows) /\ Len(s \o rows) = Len(s) + Len(rows)
        /\ \A i \in 1..Len(s) + Len(rows) : (s \o rows)[i] =
               IF i <= Len(s) THEN s[i] ELSE rows[i - Len(s)]
    BY <2>1, ConcatProperties
  <2>3. Len(s) = n /\ Len(rows) = m
    BY <1>4, <1>5
  <2>. QED
    BY <2>2, <2>3
<1>7. ASSUME NEW i \in 1..(n + m) PROVE (s \o rows)[i] = t[i]
  <2>1. CASE i <= n
    BY <1>5, <1>6, <2>1
  <2>2. CASE ~(i <= n)
    <3>1. i - n \in 1..m /\ n + (i - n) = i
      BY <2>2
    <3>2. rows[i - n] = Stored(b, batch, i)
      BY <1>4, <3>1
    <3>. QED
      BY <1>5, <1>6, <2>2, <3>2
  <2>. QED
    BY <2>1, <2>2
<1>8. s \o rows = t
  BY <1>5, <1>6, <1>7, SeqEqual
<1>. QED
  BY <1>4, <1>8 DEF s, t, rows

\* Fresh and reset chunks mark every row as valid.
LEMMA BegunIs ==
    ASSUME NEW pool \in Seq(Chunk), NEW n \in Nat
    PROVE  /\ StageBegin(pool, n) \in Seq(Chunk)
           /\ Len(StageBegin(pool, n)) = IF Chunks(n) > Len(pool) THEN Chunks(n) ELSE Len(pool)
           /\ \A k \in 1..Chunks(n), j \in 1..VectorSize : StageBegin(pool, n)[k][j].valid
<1>. DEFINE m == IF Chunks(n) > Len(pool) THEN Chunks(n) ELSE Len(pool)
            of(k) == CASE k > Len(pool) -> EmptyChunk
                       [] k <= Len(pool) /\ k <= Chunks(n) -> ChunkReset(pool[k])
                       [] OTHER -> pool[k]
<1>1. Chunks(n) \in Nat /\ Len(pool) \in Nat /\ m \in Nat
  BY ChunksAre, LenProperties
<1>2. EmptyChunk \in Chunk /\ \A j \in 1..VectorSize : EmptyChunk[j].valid
  BY DEF EmptyChunk, EmptyCell, Chunk, Rows
<1>3. ASSUME NEW c \in Chunk
      PROVE  ChunkReset(c) \in Chunk /\ \A j \in 1..VectorSize : ChunkReset(c)[j].valid
  BY DEF ChunkReset, Chunk
<1>4. \A k \in 1..Len(pool) : pool[k] \in Chunk
  BY ElementOfSeq
<1>. HIDE DEF Chunk
<1>5. \A k \in 1..m : of(k) \in Chunk
  <2>. SUFFICES ASSUME NEW k \in 1..m PROVE of(k) \in Chunk
    OBVIOUS
  <2>1. CASE k > Len(pool)
    BY <1>2, <2>1
  <2>2. CASE k <= Len(pool)
    BY <1>1, <1>3, <1>4, <2>2
  <2>. QED
    BY <1>1, <2>1, <2>2
<1>6. \A k \in 1..Chunks(n) : k \in 1..m /\ \A j \in 1..VectorSize : of(k)[j].valid
  <2>. SUFFICES ASSUME NEW k \in 1..Chunks(n)
                PROVE  k \in 1..m /\ \A j \in 1..VectorSize : of(k)[j].valid
    OBVIOUS
  <2>1. CASE k > Len(pool)
    BY <1>1, <1>2, <2>1
  <2>2. CASE k <= Len(pool)
    <3>1. of(k) = ChunkReset(pool[k]) /\ pool[k] \in Chunk
      BY <1>1, <1>4, <2>2
    <3>. QED
      BY <1>1, <1>3, <2>2, <3>1
  <2>. QED
    BY <1>1, <2>1, <2>2
<1>7. StageBegin(pool, n) = [k \in 1..m |-> of(k)]
  BY DEF StageBegin
<1>. HIDE DEF of, m
<1>8. StageBegin(pool, n) \in [1..m -> Chunk]
  BY <1>5, <1>7
<1>9. StageBegin(pool, n) \in Seq(Chunk) /\ Len(StageBegin(pool, n)) = m
  BY <1>1, <1>8, SequenceIs
<1>10. \A k \in 1..Chunks(n), j \in 1..VectorSize : StageBegin(pool, n)[k][j].valid
  BY <1>6, <1>7
<1>. QED
  BY <1>9, <1>10 DEF m

\* The rows from + 1 .. from + n of a batch staged by row or by column.
IsStaged(s, pool, b, batch, from, n) ==
    \/ s = Staged(pool, b, batch, from, n, TRUE)
    \/ s = Staged(pool, b, batch, from, n, FALSE)

\* Staged changes only the staging: it stays within its type and within the largest batch.
\* What it has written of rows that hold values and allowed NULLs is those rows, whatever
\* an earlier batch had left in the chunks.
LEMMA StagedIs ==
    ASSUME NEW pool \in Seq(Chunk), Len(pool) <= Chunks(MaxRows),
           NEW b \in 1..MaxBatches, NEW batch \in Batches,
           NEW from \in Nat, NEW n \in Nat, from + n <= Len(batch), NEW s,
           IsStaged(s, pool, b, batch, from, n)
    PROVE  /\ s \in Stage /\ Len(s.pool) <= Chunks(MaxRows)
           /\ s.failed <=> \E i \in 1..n : batch[from + i] = "invalid"
           /\ ~s.failed => s.rows = n
           /\ (\A i \in 1..n : batch[from + i] \in {"value", "null"})
                => Holds(s.pool, b, batch, from, n)
<1>0. PICK columnar \in BOOLEAN : s = Staged(pool, b, batch, from, n, columnar)
  BY DEF IsStaged
<1>. DEFINE begun == StageBegin(pool, n)
            Write(cell, row, kind) ==
                IF columnar THEN BlitCell(cell, row, kind) ELSE StageCell(cell, row, kind)
            written(i) == i <= n /\ \A h \in 1..i : batch[from + h] \notin {"invalid", "rejected"}
            place(k, j) == (k - 1) * VectorSize + j
            cell(k, j) == IF written(place(k, j))
                          THEN Write(begun[k][j], <<b, from + place(k, j)>>, batch[from + place(k, j)])
                          ELSE begun[k][j]
            chunk(k) == [j \in 1..VectorSize |-> cell(k, j)]
            invalid == \E i \in 1..n : batch[from + i] = "invalid"
<1>1. /\ begun \in Seq(Chunk)
      /\ Len(begun) = IF Chunks(n) > Len(pool) THEN Chunks(n) ELSE Len(pool)
      /\ \A k \in 1..Chunks(n), j \in 1..VectorSize : begun[k][j].valid
  BY BegunIs
<1>2. /\ Len(batch) \in 0..MaxRows /\ MaxRows \in Nat /\ VectorSize \in Nat
      /\ Len(pool) \in Nat /\ Chunks(n) \in Nat /\ Chunks(MaxRows) \in Nat
  BY BatchIs, ChunksAre, LenProperties
<1>3. n \in 0..MaxRows /\ Chunks(n) <= Chunks(MaxRows)
  BY <1>2, ChunksGrow
<1>4. /\ s.pool = [k \in 1..Len(begun) |-> chunk(k)]
      /\ s.rows = IF invalid THEN 0 ELSE n
      /\ s.failed = invalid
      /\ s = [pool |-> s.pool, rows |-> s.rows, failed |-> s.failed]
  BY <1>0 DEF Staged
<1>5. ASSUME NEW k \in 1..Len(begun), NEW j \in 1..VectorSize
      PROVE  begun[k][j] \in [row : Rows, valid : BOOLEAN] /\ place(k, j) \in Nat /\ place(k, j) >= 1
  <2>1. begun[k] \in Chunk
    BY <1>1, ElementOfSeq
  <2>2. k \in Nat /\ k >= 1 /\ (k - 1) * VectorSize \in Nat
    BY <1>2, ProductGrows
  <2>3. begun[k][j] \in [row : Rows, valid : BOOLEAN]
    BY <2>1 DEF Chunk
  <2>. DEFINE p == (k - 1) * VectorSize
  <2>. HIDE DEF p
  <2>4. p + j \in Nat /\ p + j >= 1
    BY <1>2, <2>2 DEF p
  <2>. QED
    BY <2>3, <2>4 DEF p
<1>6. ASSUME NEW k \in 1..Len(begun), NEW j \in 1..VectorSize, written(place(k, j))
      PROVE  /\ from + place(k, j) \in 1..Len(batch)
             /\ <<b, from + place(k, j)>> \in Rows /\ batch[from + place(k, j)] \in Kinds
  <2>1. place(k, j) \in Nat /\ place(k, j) >= 1 /\ place(k, j) <= n
    BY <1>5, <1>6
  <2>. HIDE DEF place, written
  <2>2. from + place(k, j) \in 1..Len(batch)
    BY <1>2, <2>1
  <2>. QED
    BY <2>2, StoredIs, BatchIs
<1>7. ASSUME NEW c \in [row : Rows, valid : BOOLEAN], NEW row \in Rows, NEW kind
      PROVE  /\ Write(c, row, kind) \in [row : Rows, valid : BOOLEAN]
             /\ c.valid /\ kind = "value" => Write(c, row, kind).valid /\ Write(c, row, kind).row = row
             /\ kind = "null" => ~Write(c, row, kind).valid
  BY DEF BlitCell, StageCell
<1>. HIDE DEF Write, written, place, begun
<1>8. ASSUME NEW k \in 1..Len(begun) PROVE chunk(k) \in Chunk
  <2>1. \A j \in 1..VectorSize : cell(k, j) \in [row : Rows, valid : BOOLEAN]
    <3>. SUFFICES ASSUME NEW j \in 1..VectorSize
                  PROVE  cell(k, j) \in [row : Rows, valid : BOOLEAN]
      OBVIOUS
    <3>1. CASE written(place(k, j))
      BY <1>5, <1>6, <1>7, <3>1
    <3>2. CASE ~written(place(k, j))
      BY <1>5, <3>2
    <3>. QED
      BY <3>1, <3>2
  <2>. HIDE DEF cell
  <2>. QED
    BY <2>1 DEF Chunk
<1>. HIDE DEF cell
<1>9. s.pool \in Seq(Chunk) /\ Len(s.pool) = Len(begun)
  <2>1. Len(begun) \in Nat
    BY <1>1, LenProperties
  <2>. HIDE DEF chunk
  <2>2. s.pool \in [1..Len(begun) -> Chunk]
    BY <1>4, <1>8
  <2>. QED
    BY <2>1, <2>2, SequenceIs
<1>10. s \in Stage
  <2>1. s.rows \in 0..MaxRows /\ s.failed \in BOOLEAN
    <3>1. invalid \in BOOLEAN /\ 0 \in 0..MaxRows
      BY <1>2
    <3>. HIDE DEF invalid
    <3>. QED
      BY <1>3, <1>4, <3>1
  <2>. QED
    BY <1>4, <1>9, <2>1 DEF Stage
<1>11. Len(s.pool) <= Chunks(MaxRows) /\ Chunks(n) <= Len(s.pool)
  BY <1>1, <1>2, <1>3, <1>9
<1>12. ASSUME \A i \in 1..n : batch[from + i] \in {"value", "null"}
       PROVE  Holds(s.pool, b, batch, from, n)
  <2>. SUFFICES ASSUME NEW k \in 1..Chunks(n), NEW j \in 1..VectorSize,
                       (k - 1) * VectorSize + j <= n
                PROVE  Cell(s.pool, k, j) = Stored(b, batch, from + ((k - 1) * VectorSize + j))
    BY <1>11 DEF Holds
  <2>1. k \in 1..Len(begun) /\ place(k, j) <= n
    BY <1>2, <1>9, <1>11 DEF place
  <2>2. place(k, j) \in Nat /\ place(k, j) >= 1 /\ begun[k][j] \in [row : Rows, valid : BOOLEAN]
    BY <1>5, <2>1
  <2>3. written(place(k, j))
    <3>1. \A h \in 1..place(k, j) : h \in 1..n
      BY <2>1, <2>2
    <3>. QED
      BY <1>12, <2>1, <3>1 DEF written
  <2>4. batch[from + place(k, j)] \in {"value", "null"}
    <3>1. place(k, j) \in 1..n
      BY <2>1, <2>2
    <3>. QED
      BY <1>12, <3>1
  <2>5. s.pool[k][j] = Write(begun[k][j], <<b, from + place(k, j)>>, batch[from + place(k, j)])
    BY <1>4, <2>1, <2>3 DEF cell
  <2>6. begun[k][j].valid /\ <<b, from + place(k, j)>> \in Rows
    BY <1>1, <1>6, <2>1, <2>3
  <2>7. Cell(s.pool, k, j) = Stored(b, batch, from + place(k, j))
    <3>1. CASE batch[from + place(k, j)] = "value"
      <4>1. s.pool[k][j].valid /\ s.pool[k][j].row = <<b, from + place(k, j)>>
        <5>. DEFINE c == begun[k][j]
                    row == <<b, from + place(k, j)>>
                    kind == batch[from + place(k, j)]
        <5>1. /\ c \in [row : Rows, valid : BOOLEAN] /\ c.valid /\ row \in Rows /\ kind = "value"
              /\ s.pool[k][j] = Write(c, row, kind)
          BY <2>2, <2>5, <2>6, <3>1
        <5>. HIDE DEF c, row, kind
        <5>2. Write(c, row, kind).valid /\ Write(c, row, kind).row = row
          BY <1>7, <5>1
        <5>3. s.pool[k][j].valid /\ s.pool[k][j].row = row
          BY <5>1, <5>2
        <5>. QED
          BY <5>3 DEF row
      <4>. QED
        BY <3>1, <4>1 DEF Cell, Stored
    <3>2. CASE batch[from + place(k, j)] = "null"
      <4>1. ~s.pool[k][j].valid
        BY <1>7, <2>2, <2>5, <2>6, <3>2
      <4>. QED
        BY <3>2, <4>1 DEF Cell, Stored
    <3>. QED
      BY <2>4, <3>1, <3>2
  <2>. QED
    BY <2>7 DEF place
<1>. QED
  BY <1>4, <1>10, <1>11, <1>12

\* Clearing the staging keeps the chunks, and cutting it back keeps at most Retained.
LEMMA ClearedIs ==
    ASSUME NEW s \in Stage
    PROVE  /\ ClearStage(s) \in Stage /\ ClearStage(s).pool = s.pool
           /\ CutBack(s) \in Stage
           /\ Len(CutBack(s).pool) <= Retained /\ Len(CutBack(s).pool) <= Len(s.pool)
<1>. DEFINE m == IF Len(s.pool) < Retained THEN Len(s.pool) ELSE Retained
            cut == SubSeq(s.pool, 1, m)
<1>1. s.pool \in Seq(Chunk) /\ s.rows \in 0..MaxRows /\ s.failed \in BOOLEAN
      /\ 0 \in 0..MaxRows /\ Retained \in Nat
  BY BoundsAssumption DEF Stage
<1>2. Len(s.pool) \in Nat /\ m \in Nat /\ m <= Len(s.pool) /\ m <= Retained
  BY <1>1, LenProperties
<1>3. \A i \in 1..m : s.pool[i] \in Chunk
  BY <1>1, <1>2, ElementOfSeq
<1>4. cut \in Seq(Chunk) /\ Len(cut) = m
  <2>. HIDE DEF m
  <2>1. cut \in Seq(Chunk) /\ Len(cut) = IF 1 <= m THEN m - 1 + 1 ELSE 0
    BY <1>2, <1>3, SubSeqProperties
  <2>. QED
    BY <1>2, <2>1
<1>5. ClearStage(s) \in Stage /\ ClearStage(s).pool = s.pool
  BY <1>1 DEF ClearStage, Stage
<1>6. CutBack(s) = [ClearStage(s) EXCEPT !.pool = cut]
  BY <1>5 DEF CutBack
<1>. HIDE DEF cut, m
<1>7. CutBack(s) \in Stage /\ CutBack(s).pool = cut
  BY <1>4, <1>5, <1>6 DEF Stage
<1>. QED
  BY <1>2, <1>4, <1>5, <1>7

\* What the engine reads from a staged chunk is the rows it was staged for.
LEMMA ChunkRowsAre ==
    ASSUME NEW s \in Stage, NEW b \in 1..MaxBatches, NEW batch \in Batches, NEW from \in Nat,
           NEW n \in Nat, s.rows = n, Holds(s.pool, b, batch, from, n), NEW k \in 1..Chunks(n)
    PROVE  ChunkRows(s, k) = Slice(b, batch, from + (k - 1) * VectorSize, SizeOf(n, k))
<1>1. /\ SizeOf(n, k) \in 1..VectorSize /\ (k - 1) * VectorSize \in Nat
      /\ Sent(k + 1, n) = (k - 1) * VectorSize + SizeOf(n, k) /\ Sent(k + 1, n) \in 0..n
      /\ VectorSize \in Nat
  <2>1. k \in Nat /\ 1 <= k /\ k <= Chunks(n) /\ VectorSize \in Nat
    BY ChunksAre
  <2>. QED
    BY <2>1, ChunkEnds
<1>2. \A j \in 1..SizeOf(n, k) : j \in 1..VectorSize /\ (k - 1) * VectorSize + j <= n
  BY <1>1
<1>3. \A j \in 1..SizeOf(n, k) :
        Cell(s.pool, k, j) = Stored(b, batch, from + ((k - 1) * VectorSize + j))
  BY <1>2 DEF Holds
<1>4. ChunkRows(s, k) = [j \in 1..SizeOf(n, k) |-> Cell(s.pool, k, j)]
  BY DEF ChunkRows, SizeOf, Cell
<1>5. \A j \in 1..SizeOf(n, k) :
         from + ((k - 1) * VectorSize + j) = (from + (k - 1) * VectorSize) + j
  <2>. DEFINE before == (k - 1) * VectorSize
  <2>1. before \in Nat /\ SizeOf(n, k) \in Nat
    BY <1>1
  <2>. HIDE DEF before
  <2>2. \A j \in 1..SizeOf(n, k) : from + (before + j) = (from + before) + j
    BY <2>1
  <2>. QED
    BY <2>2 DEF before
<1>. QED
  BY <1>3, <1>4, <1>5 DEF Slice

\* An engine, and its flush: the same rows, with none in the buffer.
Engine == [buffer : Seq(Rows), stored : Seq(Rows)]

\* A flush moves the buffered rows to the table, after those that are there.
LEMMA FlushedIs ==
    ASSUME NEW e \in Engine
    PROVE  /\ Flushed(e) \in Engine /\ Flushed(e).buffer = <<>>
           /\ Flushed(e).stored = e.stored \o e.buffer
           /\ Flushed(e).stored \o Flushed(e).buffer = e.stored \o e.buffer
<1>1. e.stored \in Seq(Rows) /\ e.buffer \in Seq(Rows)
  BY DEF Engine
<1>2. e.stored \o e.buffer \in Seq(Rows) /\ <<>> \in Seq(Rows)
  BY <1>1, ConcatProperties, EmptySeq
<1>3. (e.stored \o e.buffer) \o <<>> = e.stored \o e.buffer
  BY <1>2, ConcatEmptySeq
<1>. QED
  BY <1>2, <1>3 DEF Flushed, Engine

\* An appended chunk follows what the engine had, in the buffer or in the table.
LEMMA AppendedIs ==
    ASSUME NEW rows \in Seq(Rows), engine \in Engine, NEW e \in Appended(rows)
    PROVE  /\ e \in Engine
           /\ e.stored \o e.buffer = (engine.stored \o engine.buffer) \o rows
<1>. DEFINE f == [engine EXCEPT !.buffer = @ \o rows]
<1>1. engine.stored \in Seq(Rows) /\ engine.buffer \in Seq(Rows)
  BY DEF Engine
<1>2. engine.buffer \o rows \in Seq(Rows)
  BY <1>1, ConcatProperties
<1>3. f \in Engine /\ f.stored = engine.stored /\ f.buffer = engine.buffer \o rows
  BY <1>1, <1>2 DEF Engine
<1>4. f.stored \o f.buffer = (engine.stored \o engine.buffer) \o rows
  <2>. DEFINE t == engine.stored
              u == engine.buffer
  <2>1. t \in Seq(Rows) /\ u \in Seq(Rows) /\ f.stored = t /\ f.buffer = u \o rows
    BY <1>1, <1>3
  <2>. HIDE DEF t, u, f
  <2>2. t \o (u \o rows) = (t \o u) \o rows
    BY <2>1, ConcatAssociative
  <2>. QED
    BY <2>1, <2>2 DEF t, u
<1>5. e = f \/ e = Flushed(f)
  BY DEF Appended
<1>. HIDE DEF f
<1>. QED
  BY <1>3, <1>4, <1>5, FlushedIs

-----------------------------------------------------------------------------
(* The initial state, and the steps that only move the call along.          *)

\* No staging, and the staging of no chunks.
LEMMA NoStageIs ==
    /\ NoStage \in Stage /\ Len(NoStage.pool) = 0
    /\ 0 <= Chunks(MaxRows) /\ 0 <= Retained
<1>1. MaxRows \in Nat /\ Retained \in Nat /\ 0 \in 0..MaxRows
  BY BoundsAssumption
<1>2. <<>> \in Seq(Chunk) /\ Len(<<>>) = 0
  BY EmptySeq
<1>3. Chunks(MaxRows) \in Nat
  BY <1>1, ChunksAre
<1>. QED
  BY <1>1, <1>2, <1>3 DEF NoStage, Stage

\* The invariant holds before the body begins.
LEMMA InitEstablishes == Init => IInv
<1>. SUFFICES ASSUME Init PROVE IInv
  OBVIOUS
<1>1. <<>> \in Seq(Rows) /\ <<>> \o <<>> = <<>> /\ <<>> \in Batches
  BY EmptySeq, ConcatEmptySeq, EmptyBatch
<1>2. 0 \in 0..MaxBatches /\ 0 \in 0..MaxAppenders
  BY BoundsAssumption
<1>3. TypeOK
  BY <1>1, <1>2, NoStageIs DEF Init, TypeOK, NoAppender, Idle, Pcs
<1>4. Sticky(tx, app, call) /\ Calling(tx, app, call)
  BY DEF Init, NoAppender, Idle, Sticky, Calling
<1>5. Staging(tx, call, stage)
  BY DEF Init, Idle, Staging
<1>6. Balance(tx, app, engine, call, cancelled, accepted)
  BY <1>1 DEF Init, Idle, Balance
<1>. QED
  BY <1>3, <1>4, <1>5, <1>6 DEF IInv

\* The values the variables have in a state of the invariant.
LEMMA ValuesAre ==
    ASSUME TypeOK
    PROVE  /\ tx.state \in {"open", "committed", "rolled_back"} /\ tx.poisoned \in BOOLEAN
           /\ tx.batches \in 0..MaxBatches /\ tx.appenders \in 0..MaxAppenders
           /\ app.state \in {"none", "open"} /\ app.status \in {"ok", "error", "cancelled"}
           /\ app.failed \in BOOLEAN
           /\ stage \in Stage /\ Len(stage.pool) <= Chunks(MaxRows)
           /\ engine \in Engine /\ accepted \in Seq(Rows) /\ cancelled \in BOOLEAN
           /\ call.pc \in Pcs /\ call.batch \in Batches /\ call.at \in Nat
BY DEF TypeOK, Engine

\* Fields after poison.
LEMMA PoisonIs ==
    ASSUME TypeOK, Poison
    PROVE  /\ tx' \in [state : {"open", "committed", "rolled_back"}, poisoned : BOOLEAN,
                       batches : 0..MaxBatches, appenders : 0..MaxAppenders]
           /\ tx'.poisoned = TRUE /\ tx'.state = tx.state /\ tx'.batches = tx.batches
           /\ app' \in [state : {"none", "open"}, status : {"ok", "error", "cancelled"},
                        failed : BOOLEAN]
           /\ app'.failed = TRUE /\ app'.state = app.state /\ app'.status = app.status
BY DEF TypeOK, Poison

\* Fields of the call after Goto and Return.
LEMMA GotoIs ==
    ASSUME TypeOK, NEW pc \in Pcs, Goto(pc)
    PROVE  /\ call' \in [pc : Pcs, batch : Batches, at : Nat]
           /\ call'.pc = pc /\ call'.batch = call.batch /\ call'.at = call.at
BY DEF TypeOK, Goto

\* Fields of a body that goes on.
LEMMA ReturnIs ==
    ASSUME Return
    PROVE  /\ call' \in [pc : Pcs, batch : Batches, at : Nat]
           /\ call'.pc = "body" /\ call'.batch = <<>>
<1>1. "body" \in Pcs /\ <<>> \in Batches /\ 0 \in Nat
  BY EmptyBatch DEF Pcs
<1>. QED
  BY <1>1 DEF Return, Idle

\* The declaration is compared with the catalog.
LEMMA OpenTypedKeeps ==
    ASSUME IInv, OpenTyped
    PROVE  IInv'
<1>1. /\ tx.state = "open" /\ call.pc = "body" /\ app.state = "none"
      /\ UNCHANGED <<app, stage, engine, cancelled, accepted>>
      /\ call.batch = <<>> /\ TypeOK /\ tx.appenders < MaxAppenders
  BY DEF OpenTyped, InBody, IInv, TypeOK, Calling
<1>2. /\ tx' \in [state : {"open", "committed", "rolled_back"}, poisoned : BOOLEAN,
                  batches : 0..MaxBatches, appenders : 0..MaxAppenders]
      /\ tx'.state = "open" /\ (tx.poisoned => tx'.poisoned) /\ tx'.batches = tx.batches
  <2>1. tx.appenders + 1 \in 0..MaxAppenders
    BY <1>1, BoundsAssumption, ValuesAre
  <2>. QED
    BY <1>1, <2>1 DEF OpenTyped, TypeOK
<1>3. /\ call' \in [pc : Pcs, batch : Batches, at : Nat]
      /\ call'.pc \in {"body", "open"} /\ call'.batch = <<>>
  <2>1. CASE UNCHANGED call
    BY <1>1, <2>1 DEF TypeOK
  <2>2. CASE Goto("open")
    BY <1>1, <2>2, GotoIs DEF Pcs
  <2>. QED
    BY <2>1, <2>2 DEF OpenTyped
<1>4. TypeOK'
  BY <1>1, <1>2, <1>3 DEF TypeOK
<1>5. Sticky(tx', app', call')
  BY <1>1, <1>2, <1>3 DEF IInv, Sticky
<1>6. Calling(tx', app', call')
  BY <1>1, <1>2, <1>3 DEF IInv, Calling
<1>7. Staging(tx', call', stage')
  BY <1>3 DEF Staging
<1>8. Balance(tx', app', engine', call', cancelled', accepted')
  BY <1>1, <1>2, <1>3 DEF IInv, Balance
<1>. QED
  BY <1>1, <1>4, <1>5, <1>6, <1>7, <1>8 DEF IInv

\* The appender is created, or the call fails.
LEMMA OpenAppenderKeeps ==
    ASSUME IInv, OpenAppender
    PROVE  IInv'
<1>1. /\ call.pc = "open" /\ app.state = "none" /\ app.status = "ok" /\ ~app.failed
      /\ call.batch = <<>> /\ tx.state = "open" /\ engine.buffer = <<>> /\ stage' = NoStage
      /\ UNCHANGED <<engine, cancelled, accepted>> /\ TypeOK
  BY DEF OpenAppender, IInv, Calling, Balance
<1>2. /\ tx' \in [state : {"open", "committed", "rolled_back"}, poisoned : BOOLEAN,
                  batches : 0..MaxBatches, appenders : 0..MaxAppenders]
      /\ tx'.state = "open" /\ (tx.poisoned => tx'.poisoned) /\ tx'.batches = tx.batches
  BY <1>1 DEF OpenAppender, TypeOK
<1>3. \/ /\ app' = [NoAppender EXCEPT !.state = "open"]
         /\ call' \in {[call EXCEPT !.pc = pc] : pc \in {"select", "types"}}
      \/ app' = app /\ Return
  BY DEF OpenAppender, CreateAppender
<1>4. /\ app' \in [state : {"none", "open"}, status : {"ok", "error", "cancelled"},
                   failed : BOOLEAN]
      /\ app'.status = "ok" /\ ~app'.failed
      /\ app'.state = "none" => app'= app
  BY <1>1, <1>3 DEF TypeOK, NoAppender
<1>5. /\ call' \in [pc : Pcs, batch : Batches, at : Nat]
      /\ call'.batch = <<>> /\ call'.pc \in {"body", "select", "types"}
      /\ app'.state = "none" => call'.pc = "body"
  <2>1. CASE /\ app' = [NoAppender EXCEPT !.state = "open"]
             /\ call' \in {[call EXCEPT !.pc = pc] : pc \in {"select", "types"}}
    BY <1>1, <2>1 DEF TypeOK, Pcs, NoAppender
  <2>2. CASE app' = app /\ Return
    BY <2>2, ReturnIs
  <2>. QED
    BY <1>3, <2>1, <2>2
<1>6. TypeOK'
  BY <1>1, <1>2, <1>4, <1>5, NoStageIs DEF TypeOK
<1>7. Sticky(tx', app', call')
  BY <1>4, <1>5 DEF Sticky
<1>8. Calling(tx', app', call')
  BY <1>2, <1>4, <1>5 DEF Calling
<1>9. Staging(tx', call', stage')
  BY <1>5 DEF Staging
<1>10. Balance(tx', app', engine', call', cancelled', accepted')
  BY <1>1, <1>2, <1>5 DEF IInv, Balance
<1>. QED
  BY <1>1, <1>6, <1>7, <1>8, <1>9, <1>10 DEF IInv

\* An operation fails and the appender is about to be discarded.
LEMMA PoisonKeeps ==
    ASSUME IInv, Poison, Goto("destroy"), UNCHANGED <<engine, cancelled, accepted>>,
           stage' = NoStage \/ stage' = stage,
           app.state = "open", call.batch = <<>>, tx.state = "open",
           app.status # "ok" => app.failed \/ call.pc \in {"chunks", "settle", "flushed"}
    PROVE  IInv'
<1>1. TypeOK /\ "destroy" \in Pcs
  BY DEF IInv, Pcs
<1>2. /\ tx' \in [state : {"open", "committed", "rolled_back"}, poisoned : BOOLEAN,
                  batches : 0..MaxBatches, appenders : 0..MaxAppenders]
      /\ tx'.poisoned = TRUE /\ tx'.state = "open"
      /\ app' \in [state : {"none", "open"}, status : {"ok", "error", "cancelled"},
                   failed : BOOLEAN]
      /\ app'.failed = TRUE /\ app'.state = "open"
  BY <1>1, PoisonIs
<1>3. call' \in [pc : Pcs, batch : Batches, at : Nat] /\ call'.pc = "destroy" /\ call'.batch = <<>>
  BY <1>1, GotoIs
<1>4. TypeOK'
  BY <1>1, <1>2, <1>3, NoStageIs DEF TypeOK
<1>5. Sticky(tx', app', call')
  BY <1>2, <1>3 DEF Sticky
<1>6. Calling(tx', app', call')
  BY <1>2, <1>3 DEF Calling
<1>7. Staging(tx', call', stage')
  BY <1>3 DEF Staging
<1>8. Balance(tx', app', engine', call', cancelled', accepted')
  BY <1>2, <1>3 DEF Balance
<1>. QED
  BY <1>4, <1>5, <1>6, <1>7, <1>8 DEF IInv

\* A step of the call that changes neither the appender nor the engine.
LEMMA MovesKeeps ==
    ASSUME IInv, UNCHANGED <<tx, app, engine, cancelled, accepted>>,
           stage' = NoStage \/ stage' = stage,
           call' \in [pc : Pcs, batch : Batches, at : Nat],
           call'.pc \in {"body", "types"}, call'.batch = <<>>,
           call.pc \in {"select", "types"}, app.state = "open"
    PROVE  IInv'
<1>1. TypeOK'
  BY NoStageIs DEF IInv, TypeOK
<1>2. Sticky(tx', app', call') /\ Calling(tx', app', call')
  BY DEF IInv, Sticky, Calling
<1>3. Staging(tx', call', stage')
  BY DEF Staging
<1>4. Balance(tx', app', engine', call', cancelled', accepted')
  BY DEF IInv, Balance
<1>. QED
  BY <1>1, <1>2, <1>3, <1>4 DEF IInv

\* Columns are selected.
LEMMA SelectColumnsKeeps ==
    ASSUME IInv, SelectColumns
    PROVE  IInv'
<1>1. /\ call.pc = "select" /\ stage' = NoStage /\ UNCHANGED <<engine, cancelled, accepted>>
      /\ TypeOK /\ app.state = "open" /\ call.batch = <<>> /\ tx.state = "open"
      /\ app.status # "ok" => app.failed \/ call.pc \in {"chunks", "settle", "flushed"}
  BY ValuesAre DEF SelectColumns, IInv, Calling, Sticky
<1>2. CASE Goto("types") /\ UNCHANGED <<tx, app>>
  <2>1. call' \in [pc : Pcs, batch : Batches, at : Nat] /\ call'.pc = "types" /\ call'.batch = <<>>
    BY <1>1, <1>2, GotoIs DEF Pcs
  <2>. QED
    BY <1>1, <1>2, <2>1, MovesKeeps
<1>3. CASE Poison /\ Goto("destroy")
  BY <1>1, <1>3, PoisonKeeps
<1>. QED
  BY <1>2, <1>3 DEF SelectColumns

\* The column types are compared with the declaration.
LEMMA CheckTypesKeeps ==
    ASSUME IInv, CheckTypes
    PROVE  IInv'
<1>1. /\ call.pc = "types" /\ UNCHANGED <<stage, engine, cancelled, accepted>>
      /\ TypeOK /\ app.state = "open" /\ call.batch = <<>> /\ tx.state = "open"
      /\ app.status # "ok" => app.failed \/ call.pc \in {"chunks", "settle", "flushed"}
  BY ValuesAre DEF CheckTypes, IInv, Calling, Sticky
<1>2. CASE Return /\ UNCHANGED <<tx, app>>
  <2>1. call' \in [pc : Pcs, batch : Batches, at : Nat] /\ call'.pc = "body" /\ call'.batch = <<>>
    BY <1>2, ReturnIs
  <2>. QED
    BY <1>1, <1>2, <2>1, MovesKeeps
<1>3. CASE Poison /\ Goto("destroy")
  BY <1>1, <1>3, PoisonKeeps
<1>. QED
  BY <1>2, <1>3 DEF CheckTypes

\* The callback of with_appender fails.
LEMMA CallbackFailsKeeps ==
    ASSUME IInv, CallbackFails
    PROVE  IInv'
<1>1. /\ app.state = "open" /\ call.batch = <<>> /\ tx.state = "open" /\ Poison /\ Goto("destroy")
      /\ UNCHANGED <<stage, engine, cancelled, accepted>>
      /\ app.status # "ok" => app.failed \/ call.pc \in {"chunks", "settle", "flushed"}
  BY DEF CallbackFails, InBody, IInv, Calling, Sticky
<1>. QED
  BY <1>1, PoisonKeeps

\* One call of the engine, as the appender and the engine see it.
LEMMA EngineCallIs ==
    ASSUME TypeOK, NEW done, NEW partly, done \subseteq Engine, partly \subseteq Engine,
           EngineCall(done, partly)
    PROVE  /\ app' \in [state : {"none", "open"}, status : {"ok", "error", "cancelled"},
                        failed : BOOLEAN]
           /\ app'.state = app.state /\ app'.failed = app.failed /\ engine' \in Engine
           /\ \/ ~cancelled /\ app' = app /\ engine' \in done
              \/ app'.status # "ok" /\ engine' \in partly
              \/ app'.status # "ok" /\ cancelled /\ engine' = engine
<1>1. engine \in Engine
  BY ValuesAre
<1>2. CASE cancelled /\ app' = [app EXCEPT !.status = "cancelled"] /\ UNCHANGED engine
  BY <1>1, <1>2 DEF TypeOK
<1>3. CASE ~cancelled /\ app' = app /\ engine' \in done
  BY <1>3 DEF TypeOK
<1>4. CASE ~cancelled /\ app' = [app EXCEPT !.status = "error"] /\ engine' \in partly
  BY <1>4 DEF TypeOK
<1>. QED
  BY <1>2, <1>3, <1>4 DEF EngineCall

\* A flush leaves the buffer empty, or fails and is settled.
LEMMA CloseAppenderKeeps ==
    ASSUME IInv, CloseAppender
    PROVE  IInv'
<1>1. /\ app.state = "open" /\ call.pc = "body" /\ call.batch = <<>> /\ tx.state = "open"
      /\ UNCHANGED <<stage, cancelled, accepted>> /\ TypeOK /\ engine \in Engine
      /\ app.status # "ok" => app.failed \/ call.pc \in {"chunks", "settle", "flushed"}
  BY ValuesAre DEF CloseAppender, InBody, IInv, Calling, Sticky
<1>2. CASE cancelled /\ Poison /\ Goto("destroy") /\ UNCHANGED engine
  BY <1>1, <1>2, PoisonKeeps
<1>3. CASE /\ Goto("flushed") /\ UNCHANGED tx
           /\ \/ FlushesOnClose /\ EngineCall({Flushed(engine)}, {engine, Flushed(engine)})
              \/ ~FlushesOnClose /\ UNCHANGED <<app, engine>>
  <2>1. /\ call' \in [pc : Pcs, batch : Batches, at : Nat]
        /\ call'.pc = "flushed" /\ call'.batch = <<>>
    BY <1>1, <1>3, GotoIs DEF Pcs
  <2>2. Flushed(engine) \in Engine /\ Flushed(engine).buffer = <<>>
        /\ Flushed(engine).stored = engine.stored \o engine.buffer
    BY <1>1, FlushedIs
  <2>3. /\ app' \in [state : {"none", "open"}, status : {"ok", "error", "cancelled"},
                     failed : BOOLEAN]
        /\ app'.state = "open" /\ app'.failed = app.failed /\ engine' \in Engine
        /\ app.failed \/ app'.status # "ok" \/ engine' = Flushed(engine)
    <3>1. CASE FlushesOnClose /\ EngineCall({Flushed(engine)}, {engine, Flushed(engine)})
      <4>1. {Flushed(engine)} \subseteq Engine /\ {engine, Flushed(engine)} \subseteq Engine
        BY <1>1, <2>2
      <4>. QED
        BY <1>1, <3>1, <4>1, EngineCallIs
    <3>2. CASE ~FlushesOnClose /\ UNCHANGED <<app, engine>>
      BY <1>1, <3>2 DEF FlushesOnClose, TypeOK
    <3>. QED
      BY <1>3, <3>1, <3>2
  <2>4. TypeOK'
    BY <1>1, <1>3, <2>1, <2>3 DEF TypeOK, Engine
  <2>5. Sticky(tx', app', call')
    BY <1>3, <2>1, <2>3 DEF IInv, Sticky
  <2>6. Calling(tx', app', call')
    BY <1>1, <1>3, <2>1, <2>3 DEF Calling
  <2>7. Staging(tx', call', stage')
    BY <2>1 DEF Staging
  <2>8. Balance(tx', app', engine', call', cancelled', accepted')
    BY <1>1, <1>3, <2>1, <2>2, <2>3 DEF IInv, Balance, Sticky
  <2>. QED
    BY <2>4, <2>5, <2>6, <2>7, <2>8 DEF IInv
<1>. QED
  BY <1>2, <1>3 DEF CloseAppender

\* The outcome of the close.
LEMMA CloseFlushedKeeps ==
    ASSUME IInv, CloseFlushed
    PROVE  IInv'
<1>1. /\ call.pc = "flushed" /\ call.batch = <<>> /\ app.state = "open" /\ tx.state = "open"
      /\ Goto("destroy") /\ UNCHANGED <<stage, engine, cancelled, accepted>> /\ TypeOK
      /\ app.status # "ok" => app.failed \/ call.pc \in {"chunks", "settle", "flushed"}
  BY ValuesAre DEF CloseFlushed, IInv, Calling, Sticky
<1>2. CASE Poison
  BY <1>1, <1>2, PoisonKeeps
<1>3. CASE app.status = "ok" /\ ~app.failed /\ ~cancelled /\ UNCHANGED <<tx, app>>
  <2>1. /\ call' \in [pc : Pcs, batch : Batches, at : Nat]
        /\ call'.pc = "destroy" /\ call'.batch = <<>>
    BY <1>1, GotoIs DEF Pcs
  <2>2. TypeOK'
    BY <1>1, <1>3, <2>1 DEF TypeOK
  <2>3. Sticky(tx', app', call') /\ Calling(tx', app', call')
    BY <1>1, <1>3, <2>1 DEF Sticky, Calling
  <2>4. Staging(tx', call', stage')
    BY <2>1 DEF Staging
  <2>5. Balance(tx', app', engine', call', cancelled', accepted')
    BY <1>1, <1>3, <2>1 DEF IInv, Balance
  <2>. QED
    BY <1>1, <1>3, <2>2, <2>3, <2>4, <2>5 DEF IInv
<1>. QED
  BY <1>2, <1>3 DEF CloseFlushed

\* The appender is gone, with what it had buffered.
LEMMA DestroyKeeps ==
    ASSUME IInv, Destroy
    PROVE  IInv'
<1>1. /\ call.pc = "destroy" /\ app' = NoAppender /\ stage' = NoStage
      /\ UNCHANGED <<tx, cancelled, accepted>> /\ TypeOK /\ engine \in Engine /\ tx.state = "open"
  BY ValuesAre DEF Destroy, ClearAndDestroy, IInv, Calling
<1>2. /\ call' \in [pc : Pcs, batch : Batches, at : Nat]
      /\ call'.pc = "body" /\ call'.batch = <<>>
  BY ReturnIs DEF Destroy, ClearAndDestroy
<1>3. engine' \in Engine /\ engine'.buffer = <<>> /\ engine'.stored = engine.stored
      /\ engine.stored \in Seq(Rows)
  BY <1>1, EmptySeq DEF Destroy, ClearAndDestroy, Engine
<1>4. engine.stored \o <<>> = engine.stored
  BY <1>3, ConcatEmptySeq
<1>5. TypeOK'
  BY <1>1, <1>2, <1>3, NoStageIs DEF TypeOK, NoAppender, Engine
<1>6. Sticky(tx', app', call') /\ Calling(tx', app', call')
  BY <1>1, <1>2 DEF Sticky, Calling, NoAppender
<1>7. Staging(tx', call', stage')
  BY <1>2 DEF Staging
<1>8. Balance(tx', app', engine', call', cancelled', accepted')
  BY <1>1, <1>2, <1>3, <1>4 DEF IInv, Balance
<1>. QED
  BY <1>5, <1>6, <1>7, <1>8 DEF IInv

\* The transaction ends without an appender.
LEMMA CommitKeeps ==
    ASSUME IInv, Commit
    PROVE  IInv'
<1>1. /\ tx.state = "open" /\ call.pc = "body" /\ app.state = "none" /\ ~tx.poisoned
      /\ tx' = [tx EXCEPT !.state = "committed"]
      /\ UNCHANGED <<app, stage, engine, call, cancelled, accepted>> /\ TypeOK
  BY DEF Commit, InBody, IInv, TypeOK
<1>2. /\ tx' \in [state : {"open", "committed", "rolled_back"}, poisoned : BOOLEAN,
                  batches : 0..MaxBatches, appenders : 0..MaxAppenders]
      /\ tx'.state = "committed" /\ tx'.poisoned = tx.poisoned /\ tx'.batches = tx.batches
  BY <1>1 DEF TypeOK
<1>3. TypeOK'
  BY <1>1, <1>2 DEF TypeOK
<1>4. Sticky(tx', app', call') /\ Calling(tx', app', call') /\ Staging(tx', call', stage')
  BY <1>1, <1>2 DEF IInv, Sticky, Calling, Staging
<1>5. Balance(tx', app', engine', call', cancelled', accepted')
  BY <1>1, <1>2 DEF IInv, Balance
<1>. QED
  BY <1>3, <1>4, <1>5 DEF IInv

\* A rollback empties the table of the transaction's rows.
LEMMA RollbackKeeps ==
    ASSUME IInv, Rollback
    PROVE  IInv'
<1>1. /\ tx.state = "open" /\ call.pc = "body" /\ app.state = "none"
      /\ tx' = [tx EXCEPT !.state = "rolled_back"]
      /\ engine' = [engine EXCEPT !.stored = <<>>]
      /\ UNCHANGED <<app, stage, call, cancelled, accepted>> /\ TypeOK /\ engine \in Engine
  BY ValuesAre DEF Rollback, InBody, IInv, TypeOK
<1>2. /\ tx' \in [state : {"open", "committed", "rolled_back"}, poisoned : BOOLEAN,
                  batches : 0..MaxBatches, appenders : 0..MaxAppenders]
      /\ tx'.state = "rolled_back" /\ tx'.poisoned = tx.poisoned /\ tx'.batches = tx.batches
  BY <1>1 DEF TypeOK
<1>3. engine' \in Engine /\ engine'.buffer = engine.buffer
  BY <1>1, EmptySeq DEF Engine
<1>4. TypeOK'
  BY <1>1, <1>2, <1>3 DEF TypeOK, Engine
<1>5. Sticky(tx', app', call') /\ Calling(tx', app', call') /\ Staging(tx', call', stage')
  BY <1>1, <1>2 DEF IInv, Sticky, Calling, Staging
<1>6. Balance(tx', app', engine', call', cancelled', accepted')
  BY <1>1, <1>2, <1>3 DEF IInv, Balance
<1>. QED
  BY <1>4, <1>5, <1>6 DEF IInv

\* A cancellation changes what the next engine call says, and nothing yet.
LEMMA CancelKeeps ==
    ASSUME IInv, Cancel
    PROVE  IInv'
<1>1. cancelled' = TRUE /\ UNCHANGED <<tx, app, stage, engine, call, accepted>>
  BY DEF Cancel
<1>2. TypeOK'
  BY <1>1 DEF IInv, TypeOK
<1>3. Sticky(tx', app', call') /\ Calling(tx', app', call') /\ Staging(tx', call', stage')
  BY <1>1 DEF IInv, Sticky, Calling, Staging
<1>4. Balance(tx', app', engine', call', cancelled', accepted')
  BY <1>1 DEF IInv, Balance
<1>. QED
  BY <1>2, <1>3, <1>4 DEF IInv

-----------------------------------------------------------------------------
(* The operations that append.                                              *)

\* A flush is an operation of no rows.
LEMMA FlushKeeps ==
    ASSUME IInv, Flush
    PROVE  IInv'
<1>1. /\ app.state = "open" /\ call.pc = "body" /\ call.batch = <<>> /\ tx.state = "open"
      /\ ~app.failed /\ app.status = "ok" /\ TypeOK /\ engine \in Engine /\ accepted \in Seq(Rows)
      /\ UNCHANGED <<tx, stage, cancelled, accepted>> /\ Goto("settle")
      /\ EngineCall({Flushed(engine)}, {engine, Flushed(engine)})
  BY ValuesAre DEF Flush, InBody, IInv, Calling, Sticky
<1>2. /\ call' \in [pc : Pcs, batch : Batches, at : Nat]
      /\ call'.pc = "settle" /\ call'.batch = <<>>
  BY <1>1, GotoIs DEF Pcs
<1>3. /\ Flushed(engine) \in Engine
      /\ Flushed(engine).stored \o Flushed(engine).buffer = engine.stored \o engine.buffer
  BY <1>1, FlushedIs
<1>4. /\ app' \in [state : {"none", "open"}, status : {"ok", "error", "cancelled"},
                   failed : BOOLEAN]
      /\ app'.state = "open" /\ ~app'.failed /\ engine' \in Engine
      /\ engine'.stored \o engine'.buffer = engine.stored \o engine.buffer
  <2>1. {Flushed(engine)} \subseteq Engine /\ {engine, Flushed(engine)} \subseteq Engine
    BY <1>1, <1>3
  <2>2. /\ app' \in [state : {"none", "open"}, status : {"ok", "error", "cancelled"},
                     failed : BOOLEAN]
        /\ app'.state = app.state /\ app'.failed = app.failed
        /\ engine' \in {engine, Flushed(engine)}
    BY <1>1, <2>1, EngineCallIs
  <2>. QED
    BY <1>1, <1>3, <2>2
<1>5. TypeOK'
  BY <1>1, <1>2, <1>4 DEF TypeOK, Engine
<1>6. Sticky(tx', app', call')
  BY <1>2, <1>4 DEF Sticky
<1>7. Calling(tx', app', call')
  BY <1>1, <1>2, <1>4 DEF Calling
<1>8. Staging(tx', call', stage')
  BY <1>2 DEF Staging
<1>9. Balance(tx', app', engine', call', cancelled', accepted')
  <2>1. Taken(tx.batches, <<>>, Len(<<>>)) = <<>> /\ accepted \o <<>> = accepted
    BY <1>1, NothingTaken, EmptySeq, ConcatEmptySeq
  <2>. QED
    BY <1>1, <1>2, <1>4, <2>1 DEF IInv, Balance
<1>. QED
  BY <1>5, <1>6, <1>7, <1>8, <1>9 DEF IInv

\* The rows of a batch, of no batch or of one that was begun.
LEMMA BatchTaken ==
    ASSUME IInv
    PROVE  /\ Taken(tx.batches, call.batch, Len(call.batch)) \in Seq(Rows)
           /\ Taken(tx.batches, call.batch, Len(call.batch)) =
                [i \in 1..Len(call.batch) |-> Stored(tx.batches, call.batch, i)]
<1>1. call.batch \in Batches /\ tx.batches \in 0..MaxBatches /\ Len(call.batch) \in Nat
  BY ValuesAre, BatchIs DEF IInv
<1>2. CASE call.batch = <<>>
  BY <1>2, NothingTaken, EmptySeq DEF Taken
<1>3. CASE call.batch # <<>>
  <2>1. tx.batches \in 1..MaxBatches /\ Len(call.batch) \in 0..Len(call.batch)
    BY <1>1, <1>3 DEF IInv, Calling
  <2>. QED
    BY <1>1, <2>1, TakenIs DEF Taken
<1>. QED
  BY <1>2, <1>3

\* The operation is accepted as a whole, or poisons.
LEMMA SettleKeeps ==
    ASSUME IInv, Settle
    PROVE  IInv'
<1>1. /\ call.pc = "settle" /\ tx.state = "open" /\ app.state = "open" /\ TypeOK
      /\ UNCHANGED <<stage, engine, cancelled>> /\ Return /\ accepted \in Seq(Rows)
  BY ValuesAre DEF Settle, IInv, Calling
<1>2. /\ call' \in [pc : Pcs, batch : Batches, at : Nat]
      /\ call'.pc = "body" /\ call'.batch = <<>>
  BY <1>1, ReturnIs
<1>3. Staging(tx', call', stage')
  BY <1>2 DEF Staging
<1>4. CASE Poison /\ UNCHANGED accepted
  <2>1. /\ tx' \in [state : {"open", "committed", "rolled_back"}, poisoned : BOOLEAN,
                    batches : 0..MaxBatches, appenders : 0..MaxAppenders]
        /\ tx'.poisoned = TRUE /\ tx'.state = "open"
        /\ app' \in [state : {"none", "open"}, status : {"ok", "error", "cancelled"},
                     failed : BOOLEAN]
        /\ app'.failed = TRUE /\ app'.state = "open"
    BY <1>1, <1>4, PoisonIs
  <2>2. TypeOK'
    BY <1>1, <1>2, <1>4, <2>1 DEF TypeOK
  <2>3. Sticky(tx', app', call') /\ Calling(tx', app', call')
    BY <1>2, <2>1 DEF Sticky, Calling
  <2>4. Balance(tx', app', engine', call', cancelled', accepted')
    BY <1>2, <2>1 DEF Balance
  <2>. QED
    BY <1>3, <2>2, <2>3, <2>4 DEF IInv
<1>5. CASE /\ app.status = "ok" /\ ~cancelled
           /\ accepted' = accepted \o [i \in 1..Len(call.batch) |-> Stored(tx.batches, call.batch, i)]
           /\ UNCHANGED <<tx, app>>
  <2>. DEFINE rows == Taken(tx.batches, call.batch, Len(call.batch))
  <2>1. rows \in Seq(Rows) /\ accepted' = accepted \o rows
    BY <1>5, BatchTaken
  <2>. HIDE DEF rows
  <2>2. accepted' \in Seq(Rows)
    BY <1>1, <2>1, ConcatProperties
  <2>3. TypeOK'
    BY <1>1, <1>2, <1>5, <2>2 DEF TypeOK
  <2>4. Sticky(tx', app', call') /\ Calling(tx', app', call')
    BY <1>1, <1>2, <1>5 DEF IInv, Sticky, Calling
  <2>5. Balance(tx', app', engine', call', cancelled', accepted')
    BY <1>1, <1>2, <1>5, <2>1 DEF IInv, Balance, rows
  <2>. QED
    BY <1>3, <2>3, <2>4, <2>5 DEF IInv
<1>. QED
  BY <1>4, <1>5 DEF Settle

\* Staging a whole batch by row.
LEMMA StagedRowsAre ==
    ASSUME NEW pool \in Seq(Chunk), Len(pool) <= Chunks(MaxRows),
           NEW b \in 1..MaxBatches, NEW batch \in Batches,
           NEW n \in Nat, n <= Len(batch), NEW s, IsStaged(s, pool, b, batch, 0, n)
    PROVE  /\ s \in Stage /\ Len(s.pool) <= Chunks(MaxRows)
           /\ s.failed <=> \E i \in 1..n : batch[i] = "invalid"
           /\ ~s.failed => s.rows = n
           /\ (\A i \in 1..n : batch[i] \in {"value", "null"})
                => Holds(s.pool, b, batch, 0, n)
<1>1. PICK z \in Nat : z = 0
  OBVIOUS
<1>2. z + n <= Len(batch) /\ IsStaged(s, pool, b, batch, z, n)
  BY <1>1, BatchIs
<1>3. /\ s \in Stage /\ Len(s.pool) <= Chunks(MaxRows)
      /\ s.failed <=> \E i \in 1..n : batch[z + i] = "invalid"
      /\ ~s.failed => s.rows = n
      /\ (\A i \in 1..n : batch[z + i] \in {"value", "null"})
           => Holds(s.pool, b, batch, z, n)
  BY <1>2, StagedIs
<1>4. \A i \in 1..n : z + i = i
  BY <1>1
<1>. QED
  BY <1>1, <1>3, <1>4

\* A batch is staged, and dropped, failed or about to be appended.
LEMMA AppendRowsKeeps ==
    ASSUME IInv, NEW batch \in Batches, AppendRows(batch)
    PROVE  IInv'
<1>. DEFINE b == tx.batches + 1
            n == Len(batch)
            staged == Staged(stage.pool, b, batch, 0, n, FALSE)
            counted == [tx EXCEPT !.batches = b]
<1>1. /\ tx.state = "open" /\ call.pc = "body" /\ call.batch = <<>> /\ app.state = "open"
      /\ UNCHANGED <<engine, cancelled, accepted>> /\ TypeOK /\ stage \in Stage
      /\ stage.pool \in Seq(Chunk) /\ Len(stage.pool) <= Chunks(MaxRows)
      /\ tx.batches \in 0..MaxBatches /\ b \in 1..MaxBatches
  <2>1. tx.batches \in 0..MaxBatches /\ tx.batches < MaxBatches /\ MaxBatches \in Nat /\ TypeOK
    BY BoundsAssumption, ValuesAre DEF AppendRows, IInv
  <2>2. b \in 1..MaxBatches
    BY <2>1
  <2>. QED
    BY <2>1, <2>2, ValuesAre DEF AppendRows, InBody, IInv, Calling, Stage
<1>2. n \in 0..MaxRows /\ n \in Nat /\ 0 + n <= n /\ \A i \in 1..n : 0 + i = i /\ batch[i] \in Kinds
      /\ DOMAIN batch = 1..n /\ (n = 0 <=> batch = <<>>)
  <2>1. n \in 0..MaxRows /\ MaxRows \in Nat
    BY BatchIs
  <2>. QED
    BY <2>1, BatchIs
<1>3. /\ staged \in Stage /\ Len(staged.pool) <= Chunks(MaxRows)
      /\ staged.failed <=> \E i \in 1..n : batch[i] = "invalid"
      /\ ~staged.failed => staged.rows = n
      /\ (\A i \in 1..n : batch[i] \in {"value", "null"})
           => Holds(staged.pool, b, batch, 0, n)
  <2>1. IsStaged(staged, stage.pool, b, batch, 0, n)
    BY DEF IsStaged
  <2>2. /\ stage.pool \in Seq(Chunk) /\ Len(stage.pool) <= Chunks(MaxRows)
        /\ n \in Nat /\ n <= Len(batch)
    BY <1>1, <1>2
  <2>. HIDE DEF staged, n, b
  <2>3. PICK d \in 1..MaxBatches : d = b
    BY <1>1
  <2>4. IsStaged(staged, stage.pool, d, batch, 0, n)
    BY <2>1, <2>3
  <2>. QED
    BY <2>2, <2>3, <2>4, StagedRowsAre
<1>. HIDE DEF staged
<1>4. /\ counted \in [state : {"open", "committed", "rolled_back"}, poisoned : BOOLEAN,
                      batches : 0..MaxBatches, appenders : 0..MaxAppenders]
      /\ counted.state = "open" /\ counted.poisoned = tx.poisoned /\ counted.batches = b
  <2>1. /\ tx \in [state : {"open", "committed", "rolled_back"}, poisoned : BOOLEAN,
                   batches : 0..MaxBatches, appenders : 0..MaxAppenders]
        /\ b \in 0..MaxBatches /\ tx.state = "open"
    BY <1>1 DEF TypeOK
  <2>. HIDE DEF b
  <2>. QED
    BY <2>1
<1>. HIDE DEF counted, b, n
<1>5. CASE /\ stage' = ClearStage(IF app.status = "ok" THEN staged ELSE stage)
           /\ tx' = counted /\ UNCHANGED <<app, call>>
  <2>1. stage' \in Stage /\ Len(stage'.pool) <= Chunks(MaxRows)
    BY <1>1, <1>3, <1>5, ClearedIs
  <2>2. TypeOK'
    BY <1>1, <1>4, <1>5, <2>1 DEF TypeOK
  <2>3. Sticky(tx', app', call') /\ Calling(tx', app', call') /\ Staging(tx', call', stage')
    BY <1>1, <1>4, <1>5 DEF IInv, Sticky, Calling, Staging
  <2>4. Balance(tx', app', engine', call', cancelled', accepted')
    BY <1>1, <1>4, <1>5 DEF IInv, Balance
  <2>. QED
    BY <2>2, <2>3, <2>4 DEF IInv
<1>6. CASE /\ stage' = ClearStage(staged)
           /\ tx' = [counted EXCEPT !.poisoned = TRUE]
           /\ app' = [app EXCEPT !.failed = TRUE,
                                 !.status = IF AppendStaged(batch, staged) = "error" THEN "error" ELSE @]
           /\ UNCHANGED call
  <2>1. stage' \in Stage /\ Len(stage'.pool) <= Chunks(MaxRows)
    BY <1>3, <1>6, ClearedIs
  <2>2. /\ tx' \in [state : {"open", "committed", "rolled_back"}, poisoned : BOOLEAN,
                    batches : 0..MaxBatches, appenders : 0..MaxAppenders]
        /\ tx'.state = "open" /\ tx'.poisoned = TRUE
    BY <1>4, <1>6
  <2>3. /\ app' \in [state : {"none", "open"}, status : {"ok", "error", "cancelled"},
                     failed : BOOLEAN]
        /\ app'.state = "open" /\ app'.failed = TRUE
    BY <1>1, <1>6 DEF TypeOK
  <2>4. TypeOK'
    BY <1>1, <1>6, <2>1, <2>2, <2>3 DEF TypeOK
  <2>5. Sticky(tx', app', call') /\ Calling(tx', app', call') /\ Staging(tx', call', stage')
    BY <1>1, <1>6, <2>2, <2>3 DEF IInv, Sticky, Calling, Staging
  <2>6. Balance(tx', app', engine', call', cancelled', accepted')
    BY <1>1, <2>2, <2>3 DEF IInv, Balance
  <2>. QED
    BY <2>4, <2>5, <2>6 DEF IInv
<1>7. CASE /\ ~Has(batch, "rejected") /\ ~app.failed
           /\ AppendStaged(batch, staged) = "ok"
           /\ stage' = staged /\ tx' = counted
           /\ call' = [pc |-> "chunks", batch |-> batch, at |-> 1]
           /\ UNCHANGED app
  <2>1. ~staged.failed /\ ~Has(batch, "forbidden") /\ ~cancelled
    BY <1>7 DEF AppendStaged
  <2>2. \A i \in 1..n : batch[i] \in {"value", "null"}
    BY <1>2, <1>3, <1>7, <2>1 DEF Has, Kinds
  <2>3. stage'.rows = n /\ Holds(stage'.pool, b, batch, 0, stage'.rows)
    BY <1>3, <1>7, <2>1, <2>2
  <2>4. /\ call' \in [pc : Pcs, batch : Batches, at : Nat]
        /\ call'.pc = "chunks" /\ call'.batch = batch /\ call'.at = 1
    BY <1>7 DEF Pcs
  <2>5. app.status = "ok"
    BY <1>1, <1>7 DEF IInv, Sticky
  <2>6. TypeOK'
    BY <1>1, <1>3, <1>4, <1>7, <2>4 DEF TypeOK
  <2>7. Sticky(tx', app', call')
    BY <1>7, <2>4, <2>5 DEF Sticky
  <2>8. Calling(tx', app', call')
    <3>1. b >= 1
      BY <1>1
    <3>. QED
      BY <1>1, <1>4, <1>7, <2>2, <2>4, <3>1 DEF Calling, n
  <2>9. Staging(tx', call', stage')
    BY <1>4, <1>7, <2>3, <2>4 DEF Staging, n
  <2>10. Balance(tx', app', engine', call', cancelled', accepted')
    <3>1. Sent(1, Len(batch)) = 0
      BY <1>2, NothingSent DEF n
    <3>2. Taken(b, batch, 0) = <<>> /\ accepted \o <<>> = accepted
      BY <1>1, NothingTaken, ConcatEmptySeq, ValuesAre
    <3>. QED
      BY <1>1, <1>4, <1>7, <2>4, <3>1, <3>2 DEF IInv, Balance
  <2>. QED
    BY <2>6, <2>7, <2>8, <2>9, <2>10 DEF IInv
<1>. QED
  BY <1>5, <1>6, <1>7 DEF AppendRows, staged, counted, b, n

\* One chunk of the staged batch is appended.
LEMMA AppendChunkKeeps ==
    ASSUME IInv, AppendChunk
    PROVE  IInv'
<1>. DEFINE k == call.at
            n == Len(call.batch)
            b == tx.batches
            rows == ChunkRows(stage, k)
<1>1. /\ call.pc = "chunks" /\ app.status = "ok" /\ ~app.failed /\ app.state = "open"
      /\ tx.state = "open" /\ UNCHANGED <<tx, stage, cancelled, accepted>> /\ TypeOK
      /\ stage \in Stage /\ engine \in Engine /\ accepted \in Seq(Rows)
      /\ call.batch \in Batches /\ n \in Nat
      /\ stage.rows = n /\ Holds(stage.pool, b, call.batch, 0, n)
      /\ EngineCall(Appended(rows), Appended(rows) \cup {engine})
      /\ call' = [call EXCEPT !.at = @ + 1]
  BY ValuesAre, BatchIs DEF AppendChunk, IInv, Sticky, Calling, Staging
<1>2. k \in Nat /\ 1 <= k /\ k <= Chunks(n) /\ Chunks(n) \in Nat /\ k \in 1..Chunks(n)
  <2>1. k \in Nat /\ 1 <= k /\ k <= Chunks(stage.rows) /\ Chunks(n) \in Nat
    BY <1>1, ValuesAre, ChunksAre DEF AppendChunk, IInv, Calling
  <2>. QED
    BY <1>1, <2>1
<1>3. /\ SizeOf(n, k) \in Nat /\ Sent(k, n) \in Nat /\ Sent(k, n) = (k - 1) * VectorSize
      /\ Sent(k + 1, n) = Sent(k, n) + SizeOf(n, k) /\ Sent(k, n) + SizeOf(n, k) <= n
      /\ 1 <= n
  <2>. HIDE DEF k, n
  <2>1. /\ SizeOf(n, k) \in 1..VectorSize /\ (k - 1) * VectorSize \in Nat
        /\ Sent(k, n) = (k - 1) * VectorSize
        /\ Sent(k + 1, n) = Sent(k, n) + SizeOf(n, k) /\ Sent(k + 1, n) \in 0..n
    BY <1>1, <1>2, ChunkEnds
  <2>. QED
    BY <1>1, <2>1
<1>4. b \in 1..MaxBatches
  <2>1. call.batch # <<>>
    BY <1>1, <1>3, BatchIs
  <2>. QED
    BY <1>1, <2>1, ValuesAre DEF IInv, Calling
<1>5. rows = Slice(b, call.batch, Sent(k, n), SizeOf(n, k))
  <2>1. /\ stage \in Stage /\ stage.rows = n /\ Holds(stage.pool, b, call.batch, 0, n)
        /\ call.batch \in Batches /\ n \in Nat /\ 0 \in Nat
    BY <1>1
  <2>2. k \in 1..Chunks(n)
    BY <1>2
  <2>3. Sent(k, n) = 0 + (k - 1) * VectorSize
    BY <1>3
  <2>. HIDE DEF k, n, b
  <2>4. ChunkRows(stage, k) =
          Slice(b, call.batch, 0 + (k - 1) * VectorSize, SizeOf(n, k))
    BY <1>4, <2>1, <2>2, ChunkRowsAre
  <2>. QED
    BY <2>3, <2>4 DEF rows
<1>. HIDE DEF rows
<1>6. /\ rows \in Seq(Rows)
      /\ Taken(b, call.batch, Sent(k, n)) \o rows = Taken(b, call.batch, Sent(k + 1, n))
      /\ Taken(b, call.batch, Sent(k, n)) \in Seq(Rows)
  <2>1. /\ rows \in Seq(Rows)
        /\ Taken(b, call.batch, Sent(k, n)) \o rows =
             Taken(b, call.batch, Sent(k, n) + SizeOf(n, k))
    <3>. HIDE DEF k, n, b
    <3>1. PICK x \in Nat, y \in Nat, z \in Nat :
             x = Sent(k, n) /\ y = SizeOf(n, k) /\ z = Sent(k, n) + SizeOf(n, k)
      BY <1>3
    <3>2. z = x + y /\ z <= Len(call.batch) /\ call.batch \in Batches
      BY <1>1, <1>3, <3>1 DEF n
    <3>3. /\ Slice(b, call.batch, x, y) \in Seq(Rows)
          /\ Taken(b, call.batch, x) \o Slice(b, call.batch, x, y) = Taken(b, call.batch, z)
      <4>1. PICK d \in 1..MaxBatches, batch \in Batches : d = b /\ batch = call.batch
        BY <1>4, <3>2
      <4>2. z = x + y /\ z <= Len(batch)
        BY <3>2, <4>1
      <4>3. /\ Slice(d, batch, x, y) \in Seq(Rows)
            /\ Taken(d, batch, x) \o Slice(d, batch, x, y) = Taken(d, batch, z)
        BY <4>2, TakenMore
      <4>. QED
        BY <4>1, <4>3
    <3>. QED
      BY <1>5, <3>1, <3>3
  <2>2. Sent(k, n) \in 0..n
    BY <1>1, <1>3
  <2>. QED
    BY <1>1, <1>3, <1>4, <2>1, <2>2, TakenIs
<1>7. \A e \in Appended(rows) :
         e \in Engine /\ e.stored \o e.buffer = (engine.stored \o engine.buffer) \o rows
  BY <1>1, <1>6, AppendedIs
<1>8. /\ app' \in [state : {"none", "open"}, status : {"ok", "error", "cancelled"},
                   failed : BOOLEAN]
      /\ app'.state = "open" /\ ~app'.failed /\ engine' \in Engine
      /\ app'.status = "ok" => engine' \in Appended(rows)
  <2>1. Appended(rows) \subseteq Engine /\ Appended(rows) \cup {engine} \subseteq Engine
    BY <1>1, <1>7
  <2>. QED
    BY <1>1, <2>1, EngineCallIs
<1>9. /\ call' \in [pc : Pcs, batch : Batches, at : Nat]
      /\ call'.pc = "chunks" /\ call'.batch = call.batch /\ call'.at = k + 1 /\ call'.at >= 1
  <2>1. call \in [pc : Pcs, batch : Batches, at : Nat] /\ call.pc = "chunks"
    BY <1>1 DEF TypeOK
  <2>2. call' = [call EXCEPT !.at = k + 1] /\ k + 1 \in Nat /\ k + 1 >= 1
    BY <1>1, <1>2
  <2>. HIDE DEF k
  <2>. QED
    BY <2>1, <2>2
<1>10. TypeOK'
  BY <1>1, <1>8, <1>9 DEF TypeOK, Engine
<1>11. Sticky(tx', app', call')
  BY <1>8, <1>9 DEF Sticky
<1>12. Calling(tx', app', call')
  BY <1>1, <1>8, <1>9 DEF IInv, Calling
<1>13. Staging(tx', call', stage')
  BY <1>1, <1>9 DEF IInv, Staging
<1>14. Balance(tx', app', engine', call', cancelled', accepted')
  <2>1. ASSUME ~tx.poisoned, app'.status = "ok"
        PROVE  engine'.stored \o engine'.buffer = accepted \o Taken(b, call.batch, Sent(k + 1, n))
    <3>1. engine.stored \o engine.buffer = accepted \o Taken(b, call.batch, Sent(k, n))
      BY <1>1, <2>1 DEF IInv, Balance
    <3>2. engine'.stored \o engine'.buffer = (engine.stored \o engine.buffer) \o rows
      BY <1>7, <1>8, <2>1
    <3>3. (accepted \o Taken(b, call.batch, Sent(k, n))) \o rows =
            accepted \o (Taken(b, call.batch, Sent(k, n)) \o rows)
      <4>. DEFINE taken == Taken(b, call.batch, Sent(k, n))
      <4>1. taken \in Seq(Rows) /\ rows \in Seq(Rows) /\ accepted \in Seq(Rows)
        BY <1>1, <1>6
      <4>. HIDE DEF taken
      <4>2. (accepted \o taken) \o rows = accepted \o (taken \o rows)
        BY <4>1, ConcatAssociative
      <4>. QED
        BY <4>2 DEF taken
    <3>. QED
      BY <1>6, <3>1, <3>2, <3>3
  <2>. QED
    BY <1>1, <1>8, <1>9, <2>1 DEF Balance
<1>. QED
  BY <1>10, <1>11, <1>12, <1>13, <1>14 DEF IInv

\* The last chunk was appended, or one failed.
LEMMA AppendChunksEndKeeps ==
    ASSUME IInv, AppendChunksEnd
    PROVE  IInv'
<1>1. /\ call.pc = "chunks" /\ (call.at > Chunks(stage.rows) \/ app.status # "ok")
      /\ stage' = CutBack(stage) /\ Goto("settle")
      /\ UNCHANGED <<tx, app, engine, cancelled, accepted>> /\ TypeOK
      /\ stage \in Stage /\ Len(stage.pool) <= Chunks(MaxRows) /\ stage.rows = Len(call.batch)
      /\ app.state = "open" /\ tx.state = "open" /\ ~app.failed
      /\ call.at \in Nat /\ Chunks(stage.rows) \in Nat
  <2>1. call.batch \in Batches /\ Len(call.batch) \in Nat
    BY ValuesAre, BatchIs DEF IInv
  <2>2. stage.rows = Len(call.batch)
    BY DEF AppendChunksEnd, IInv, Staging
  <2>. QED
    BY <2>1, <2>2, ValuesAre, ChunksAre DEF AppendChunksEnd, IInv, Calling, Sticky
<1>2. /\ call' \in [pc : Pcs, batch : Batches, at : Nat]
      /\ call'.pc = "settle" /\ call'.batch = call.batch
  BY <1>1, GotoIs DEF Pcs
<1>3. stage' \in Stage /\ Len(stage'.pool) <= Chunks(MaxRows) /\ Len(stage'.pool) <= Retained
  <2>1. /\ CutBack(stage) \in Stage /\ Len(CutBack(stage).pool) <= Retained
        /\ Len(CutBack(stage).pool) <= Len(stage.pool)
    BY <1>1, ClearedIs
  <2>2. Len(CutBack(stage).pool) \in Nat /\ Len(stage.pool) \in Nat /\ Chunks(MaxRows) \in Nat
    BY <1>1, <2>1, LenProperties, ChunksAre, BoundsAssumption DEF Stage
  <2>. QED
    BY <1>1, <2>1, <2>2
<1>4. TypeOK'
  BY <1>1, <1>2, <1>3 DEF TypeOK
<1>5. Sticky(tx', app', call') /\ Calling(tx', app', call')
  BY <1>1, <1>2 DEF IInv, Sticky, Calling
<1>6. Staging(tx', call', stage')
  BY <1>2 DEF Staging
<1>7. Balance(tx', app', engine', call', cancelled', accepted')
  <2>1. ASSUME ~tx.poisoned, app.status = "ok"
        PROVE  engine.stored \o engine.buffer =
                 accepted \o Taken(tx.batches, call.batch, Len(call.batch))
    <3>1. Sent(call.at, Len(call.batch)) = Len(call.batch)
      BY <1>1, <2>1 DEF Sent
    <3>. QED
      BY <1>1, <2>1, <3>1 DEF IInv, Balance
  <2>. QED
    BY <1>1, <1>2, <2>1 DEF Balance
<1>. QED
  BY <1>4, <1>5, <1>6, <1>7 DEF IInv

-----------------------------------------------------------------------------
(* append_columns.                                                          *)

\* The columns are accepted, and the first slice comes next.
LEMMA AppendColumnsKeeps ==
    ASSUME IInv, NEW batch \in Batches, AppendColumns(batch)
    PROVE  IInv'
<1>1. /\ tx.state = "open" /\ call.pc = "body" /\ call.batch = <<>> /\ app.state = "open"
      /\ UNCHANGED <<app, stage, engine, cancelled, accepted>> /\ TypeOK
      /\ tx' = [tx EXCEPT !.batches = @ + 1]
      /\ accepted \in Seq(Rows)
  BY ValuesAre DEF AppendColumns, InBody, IInv, Calling
<1>2. /\ tx' \in [state : {"open", "committed", "rolled_back"}, poisoned : BOOLEAN,
                  batches : 0..MaxBatches, appenders : 0..MaxAppenders]
      /\ tx'.state = "open" /\ tx'.poisoned = tx.poisoned /\ tx'.batches >= 1
  <2>1. tx.batches \in 0..MaxBatches /\ tx.batches < MaxBatches /\ MaxBatches \in Nat
    BY <1>1, BoundsAssumption, ValuesAre DEF AppendColumns
  <2>2. tx.batches + 1 \in 0..MaxBatches /\ tx.batches + 1 >= 1
    BY <2>1
  <2>. QED
    BY <1>1, <2>2 DEF TypeOK
<1>3. CASE UNCHANGED call
  <2>1. TypeOK'
    BY <1>1, <1>2, <1>3 DEF TypeOK
  <2>2. Sticky(tx', app', call') /\ Calling(tx', app', call') /\ Staging(tx', call', stage')
    BY <1>1, <1>2, <1>3 DEF IInv, Sticky, Calling, Staging
  <2>3. Balance(tx', app', engine', call', cancelled', accepted')
    BY <1>1, <1>2, <1>3 DEF IInv, Balance
  <2>. QED
    BY <2>1, <2>2, <2>3 DEF IInv
<1>4. CASE /\ CheckColumnsBulk(batch) /\ ~app.failed
           /\ call' = [pc |-> "slices", batch |-> batch, at |-> 0]
  <2>1. /\ call' \in [pc : Pcs, batch : Batches, at : Nat]
        /\ call'.pc = "slices" /\ call'.batch = batch /\ call'.at = 0
    BY <1>4 DEF Pcs
  <2>2. \A i \in 1..Len(batch) : batch[i] \in {"value", "null", "invalid"}
    BY <1>4, BatchIs DEF CheckColumnsBulk, Has, Kinds
  <2>3. app.status = "ok"
    BY <1>1, <1>4 DEF IInv, Sticky
  <2>4. TypeOK'
    BY <1>1, <1>2, <2>1 DEF TypeOK
  <2>5. Sticky(tx', app', call')
    BY <1>1, <1>4, <2>1, <2>3 DEF Sticky
  <2>6. Calling(tx', app', call')
    <3>1. 0 <= Len(batch)
      BY BatchIs
    <3>. QED
      BY <1>1, <1>2, <2>1, <2>2, <3>1 DEF Calling
  <2>7. Staging(tx', call', stage')
    BY <2>1 DEF Staging
  <2>8. Balance(tx', app', engine', call', cancelled', accepted')
    <3>1. accepted \o Taken(tx'.batches, batch, 0) = accepted
      BY <1>1, NothingTaken, ConcatEmptySeq
    <3>2. ~tx.poisoned => engine.stored \o engine.buffer = accepted
      BY <1>1 DEF IInv, Balance
    <3>. QED
      BY <1>1, <1>2, <2>1, <3>1, <3>2 DEF Balance
  <2>. QED
    BY <2>4, <2>5, <2>6, <2>7, <2>8 DEF IInv
<1>. QED
  BY <1>3, <1>4 DEF AppendColumns

\* A slice is left out when the request is cancelled.
LEMMA SliceCancelledKeeps ==
    ASSUME IInv, SliceCancelled
    PROVE  IInv'
<1>1. /\ call.pc = "slices" /\ cancelled /\ stage' = ClearStage(stage) /\ Goto("settle")
      /\ UNCHANGED <<tx, app, engine, cancelled, accepted>> /\ TypeOK
      /\ stage \in Stage /\ Len(stage.pool) <= Chunks(MaxRows)
      /\ app.state = "open" /\ tx.state = "open" /\ ~app.failed
  BY ValuesAre DEF SliceCancelled, IInv, Sticky, Calling
<1>2. /\ call' \in [pc : Pcs, batch : Batches, at : Nat]
      /\ call'.pc = "settle" /\ call'.batch = call.batch
  BY <1>1, GotoIs DEF Pcs
<1>3. stage' \in Stage /\ Len(stage'.pool) <= Chunks(MaxRows)
  BY <1>1, ClearedIs
<1>4. TypeOK'
  BY <1>1, <1>2, <1>3 DEF TypeOK
<1>5. Sticky(tx', app', call') /\ Calling(tx', app', call')
  BY <1>1, <1>2 DEF IInv, Sticky, Calling
<1>6. Staging(tx', call', stage')
  BY <1>2 DEF Staging
<1>7. Balance(tx', app', engine', call', cancelled', accepted')
  BY <1>1, <1>2 DEF IInv, Balance
<1>. QED
  BY <1>4, <1>5, <1>6, <1>7 DEF IInv

\* Every slice was appended.
LEMMA AppendSlicesEndKeeps ==
    ASSUME IInv, AppendSlicesEnd
    PROVE  IInv'
<1>1. /\ call.pc = "slices" /\ stage' = ClearStage(stage) /\ Goto("settle")
      /\ UNCHANGED <<tx, app, engine, cancelled, accepted>> /\ TypeOK
      /\ stage \in Stage /\ Len(stage.pool) <= Chunks(MaxRows)
      /\ app.state = "open" /\ tx.state = "open" /\ ~app.failed
  BY ValuesAre DEF AppendSlicesEnd, IInv, Sticky, Calling
<1>2. /\ call' \in [pc : Pcs, batch : Batches, at : Nat]
      /\ call'.pc = "settle" /\ call'.batch = call.batch
  BY <1>1, GotoIs DEF Pcs
<1>3. stage' \in Stage /\ stage'.pool = stage.pool
  BY <1>1, ClearedIs
<1>4. call.at = Len(call.batch) /\ (call.batch # <<>> => call.at > 0)
  <2>1. call.batch \in Batches /\ call.at \in Nat
    BY <1>1, ValuesAre
  <2>2. /\ call.at >= Len(call.batch) /\ call.at <= Len(call.batch) /\ Len(call.batch) \in Nat
        /\ (Len(call.batch) = 0 <=> call.batch = <<>>)
    BY <1>1, <2>1, BatchIs DEF AppendSlicesEnd, IInv, Calling
  <2>. QED
    BY <2>1, <2>2
<1>5. TypeOK'
  <2>1. call.batch # <<>> => Len(stage.pool) <= Retained
    BY <1>1, <1>4 DEF IInv, Staging
  <2>. QED
    BY <1>1, <1>2, <1>3, <2>1 DEF TypeOK
<1>6. Sticky(tx', app', call') /\ Calling(tx', app', call')
  BY <1>1, <1>2 DEF IInv, Sticky, Calling
<1>7. Staging(tx', call', stage')
  BY <1>2 DEF Staging
<1>8. Balance(tx', app', engine', call', cancelled', accepted')
  BY <1>1, <1>2, <1>4 DEF IInv, Balance
<1>. QED
  BY <1>5, <1>6, <1>7, <1>8 DEF IInv

\* One slice staged in one chunk: when every value was staged, the engine reads exactly
\* its rows.
LEMMA SliceStaged ==
    ASSUME NEW pool \in Seq(Chunk), Len(pool) <= Chunks(MaxRows),
           NEW b \in 1..MaxBatches, NEW batch \in Batches, NEW at \in Nat, NEW n \in Nat,
           1 <= n, n <= VectorSize, at + n <= Len(batch),
           \A i \in 1..Len(batch) : batch[i] \in {"value", "null", "invalid"},
           NEW s, IsStaged(s, pool, b, batch, at, n)
    PROVE  /\ s \in Stage /\ Len(s.pool) <= Chunks(MaxRows)
           /\ ~s.failed => ChunkRows(s, 1) = Slice(b, batch, at, n)
<1>1. /\ s \in Stage /\ Len(s.pool) <= Chunks(MaxRows)
      /\ s.failed <=> \E i \in 1..n : batch[at + i] = "invalid"
      /\ ~s.failed => s.rows = n
      /\ (\A i \in 1..n : batch[at + i] \in {"value", "null"})
           => Holds(s.pool, b, batch, at, n)
  BY StagedIs
<1>2. ASSUME ~s.failed PROVE ChunkRows(s, 1) = Slice(b, batch, at, n)
  <2>1. \A i \in 1..n : at + i \in 1..Len(batch)
    <3>1. Len(batch) \in Nat
      BY BatchIs
    <3>. QED
      BY <3>1
  <2>2. \A i \in 1..n : batch[at + i] \in {"value", "null"}
    BY <1>1, <1>2, <2>1
  <2>3. s \in Stage /\ s.rows = n /\ Holds(s.pool, b, batch, at, n)
    BY <1>1, <1>2, <2>2
  <2>4. PICK k \in 1..Chunks(n) : k = 1
    BY OneChunk
  <2>5. ChunkRows(s, k) = Slice(b, batch, at + (k - 1) * VectorSize, SizeOf(n, k))
    BY <2>3, ChunkRowsAre
  <2>6. (k - 1) * VectorSize = 0 /\ at + (k - 1) * VectorSize = at
    <3>1. VectorSize \in Nat
      BY BoundsAssumption
    <3>. QED
      BY <2>4, <3>1
  <2>7. SizeOf(n, k) = n
    BY <2>4, <2>6, OneChunk DEF SizeOf
  <2>. QED
    BY <2>4, <2>5, <2>6, <2>7
<1>. QED
  BY <1>1, <1>2

\* One slice is staged and appended.
LEMMA AppendSliceKeeps ==
    ASSUME IInv, AppendSlice
    PROVE  IInv'
<1>. DEFINE b == tx.batches
            at == call.at
            batch == call.batch
            left == Len(batch) - at
            n == IF left < VectorSize THEN left ELSE VectorSize
            staged == Staged(stage.pool, b, batch, at, n, TRUE)
            rows == ChunkRows(staged, 1)
<1>1. /\ call.pc = "slices" /\ app.status = "ok" /\ ~app.failed /\ app.state = "open"
      /\ tx.state = "open" /\ UNCHANGED <<tx, cancelled, accepted>> /\ TypeOK
      /\ stage \in Stage /\ Len(stage.pool) <= Chunks(MaxRows) /\ stage.pool \in Seq(Chunk)
      /\ engine \in Engine /\ accepted \in Seq(Rows)
      /\ batch \in Batches /\ at \in Nat /\ at < Len(batch) /\ Len(batch) \in Nat
      /\ \A i \in 1..Len(batch) : batch[i] \in {"value", "null", "invalid"}
  <2>1. call.batch \in Batches /\ Len(call.batch) \in Nat
    BY ValuesAre, BatchIs DEF IInv
  <2>2. /\ call.pc = "slices" /\ ~app.failed /\ UNCHANGED <<tx, cancelled, accepted>>
        /\ call.at < Len(call.batch)
    BY DEF AppendSlice, IInv, Sticky
  <2>. QED
    BY <2>1, <2>2, ValuesAre DEF IInv, Sticky, Calling, Stage
<1>2. b \in 1..MaxBatches
  <2>1. call.batch # <<>>
    BY <1>1, BatchIs
  <2>. QED
    BY <1>1, <2>1, ValuesAre DEF IInv, Calling
<1>3. n \in Nat /\ 1 <= n /\ n <= VectorSize /\ at + n <= Len(batch) /\ at + n \in Nat /\ at + n > 0
  <2>1. VectorSize \in Nat /\ VectorSize >= 1
    BY BoundsAssumption
  <2>. HIDE DEF batch, at
  <2>. QED
    BY <1>1, <2>1
<1>4. /\ call' = [call EXCEPT !.at = @ + n, !.pc = IF app'.status = "ok" THEN @ ELSE "settle"]
      /\ \/ /\ ~staged.failed /\ stage' = CutBack(staged)
            /\ EngineCall(Appended(rows), Appended(rows) \cup {engine})
         \/ /\ staged.failed /\ stage' = ClearStage(staged)
            /\ app' = [app EXCEPT !.status = "error"] /\ UNCHANGED engine
  BY DEF AppendSlice
<1>5. IsStaged(staged, stage.pool, b, batch, at, n)
  BY DEF IsStaged
<1>. HIDE DEF b, at, batch, left, n, staged, rows
<1>6. /\ staged \in Stage /\ Len(staged.pool) <= Chunks(MaxRows)
      /\ ~staged.failed => rows = Slice(b, batch, at, n)
  <2>1. PICK d \in 1..MaxBatches, ba \in Batches, x \in Nat, y \in Nat :
           d = b /\ ba = batch /\ x = at /\ y = n
    BY <1>1, <1>2, <1>3
  <2>2. /\ 1 <= y /\ y <= VectorSize /\ x + y <= Len(ba)
        /\ \A i \in 1..Len(ba) : ba[i] \in {"value", "null", "invalid"}
        /\ stage.pool \in Seq(Chunk) /\ Len(stage.pool) <= Chunks(MaxRows)
        /\ IsStaged(staged, stage.pool, d, ba, x, y)
    BY <1>1, <1>3, <1>5, <2>1
  <2>3. /\ staged \in Stage /\ Len(staged.pool) <= Chunks(MaxRows)
        /\ ~staged.failed => ChunkRows(staged, 1) = Slice(d, ba, x, y)
    BY <2>2, SliceStaged
  <2>. QED
    BY <2>1, <2>3 DEF rows
<1>7. /\ Slice(b, batch, at, n) \in Seq(Rows) /\ Taken(b, batch, at) \in Seq(Rows)
      /\ Taken(b, batch, at) \o Slice(b, batch, at, n) = Taken(b, batch, at + n)
  <2>1. PICK d \in 1..MaxBatches, ba \in Batches, x \in Nat, y \in Nat, z \in Nat :
           d = b /\ ba = batch /\ x = at /\ y = n /\ z = at + n
    BY <1>1, <1>2, <1>3
  <2>2. z = x + y /\ z <= Len(ba) /\ x \in 0..Len(ba)
    BY <1>1, <1>3, <2>1
  <2>3. /\ Slice(d, ba, x, y) \in Seq(Rows)
        /\ Taken(d, ba, x) \o Slice(d, ba, x, y) = Taken(d, ba, z)
    BY <2>2, TakenMore
  <2>4. Taken(d, ba, x) \in Seq(Rows)
    BY <2>2, TakenIs
  <2>. QED
    BY <2>1, <2>3, <2>4
<1>8. CASE ~staged.failed /\ stage' = CutBack(staged)
           /\ EngineCall(Appended(rows), Appended(rows) \cup {engine})
  <2>1. stage' \in Stage /\ Len(stage'.pool) <= Chunks(MaxRows) /\ Len(stage'.pool) <= Retained
    <3>1. /\ CutBack(staged) \in Stage /\ Len(CutBack(staged).pool) <= Retained
          /\ Len(CutBack(staged).pool) <= Len(staged.pool)
      BY <1>6, ClearedIs
    <3>2. /\ Len(CutBack(staged).pool) \in Nat /\ Len(staged.pool) \in Nat
          /\ Chunks(MaxRows) \in Nat
      BY <1>6, <3>1, LenProperties, ChunksAre, BoundsAssumption DEF Stage
    <3>. QED
      BY <1>6, <1>8, <3>1, <3>2
  <2>2. rows \in Seq(Rows) /\ rows = Slice(b, batch, at, n)
    BY <1>6, <1>7, <1>8
  <2>3. \A e \in Appended(rows) :
           e \in Engine /\ e.stored \o e.buffer = (engine.stored \o engine.buffer) \o rows
    BY <1>1, <2>2, AppendedIs
  <2>4. /\ app' \in [state : {"none", "open"}, status : {"ok", "error", "cancelled"},
                     failed : BOOLEAN]
        /\ app'.state = "open" /\ ~app'.failed /\ engine' \in Engine
        /\ app'.status = "ok" => engine' \in Appended(rows)
    <3>1. Appended(rows) \subseteq Engine /\ Appended(rows) \cup {engine} \subseteq Engine
      BY <1>1, <2>3
    <3>. QED
      BY <1>1, <1>8, <3>1, EngineCallIs
  <2>5. /\ call' \in [pc : Pcs, batch : Batches, at : Nat]
        /\ call'.pc = (IF app'.status = "ok" THEN "slices" ELSE "settle")
        /\ call'.batch = batch /\ call'.at = at + n
    <3>1. call \in [pc : Pcs, batch : Batches, at : Nat] /\ "settle" \in Pcs
      BY <1>1 DEF TypeOK, Pcs
    <3>2. call.at = at /\ call.batch = batch
      BY DEF at, batch
    <3>. QED
      BY <1>1, <1>3, <1>4, <3>1, <3>2
  <2>6. TypeOK'
    BY <1>1, <2>1, <2>4, <2>5 DEF TypeOK, Engine
  <2>7. Sticky(tx', app', call')
    BY <2>4, <2>5 DEF Sticky
  <2>8. Calling(tx', app', call')
    <3>1. b >= 1 /\ tx'.batches = b /\ tx'.state = "open"
      BY <1>1, <1>2 DEF b
    <3>. QED
      BY <1>1, <1>3, <2>4, <2>5, <3>1 DEF Calling
  <2>9. Staging(tx', call', stage')
    BY <2>1, <2>5 DEF Staging
  <2>10. Balance(tx', app', engine', call', cancelled', accepted')
    <3>1. ASSUME ~tx.poisoned, app'.status = "ok"
          PROVE  engine'.stored \o engine'.buffer = accepted \o Taken(b, batch, at + n)
      <4>1. engine.stored \o engine.buffer = accepted \o Taken(b, batch, at)
        BY <1>1, <3>1 DEF IInv, Balance, b, batch, at
      <4>2. engine'.stored \o engine'.buffer = (engine.stored \o engine.buffer) \o rows
        BY <2>3, <2>4, <3>1
      <4>3. (accepted \o Taken(b, batch, at)) \o rows = accepted \o (Taken(b, batch, at) \o rows)
        <5>. DEFINE taken == Taken(b, batch, at)
        <5>1. taken \in Seq(Rows) /\ rows \in Seq(Rows) /\ accepted \in Seq(Rows)
          BY <1>1, <1>7, <2>2
        <5>. HIDE DEF taken
        <5>2. (accepted \o taken) \o rows = accepted \o (taken \o rows)
          BY <5>1, ConcatAssociative
        <5>. QED
          BY <5>2 DEF taken
      <4>. QED
        BY <1>7, <2>2, <4>1, <4>2, <4>3
    <3>2. tx'.batches = b /\ tx'.poisoned = tx.poisoned /\ accepted' = accepted
      BY <1>1 DEF b
    <3>. QED
      BY <2>4, <2>5, <3>1, <3>2 DEF Balance
  <2>. QED
    BY <2>6, <2>7, <2>8, <2>9, <2>10 DEF IInv
<1>9. CASE /\ staged.failed /\ stage' = ClearStage(staged)
           /\ app' = [app EXCEPT !.status = "error"] /\ UNCHANGED engine
  <2>1. stage' \in Stage /\ Len(stage'.pool) <= Chunks(MaxRows)
    BY <1>6, <1>9, ClearedIs
  <2>2. /\ app' \in [state : {"none", "open"}, status : {"ok", "error", "cancelled"},
                     failed : BOOLEAN]
        /\ app'.state = "open" /\ ~app'.failed /\ app'.status = "error"
    BY <1>1, <1>9 DEF TypeOK
  <2>3. /\ call' \in [pc : Pcs, batch : Batches, at : Nat]
        /\ call'.pc = "settle" /\ call'.batch = batch
    <3>1. call \in [pc : Pcs, batch : Batches, at : Nat] /\ "settle" \in Pcs
      BY <1>1 DEF TypeOK, Pcs
    <3>2. call.at = at /\ call.batch = batch
      BY DEF at, batch
    <3>. QED
      BY <1>1, <1>3, <1>4, <2>2, <3>1, <3>2
  <2>4. TypeOK'
    BY <1>1, <1>9, <2>1, <2>2, <2>3 DEF TypeOK
  <2>5. Sticky(tx', app', call')
    BY <2>2, <2>3 DEF Sticky
  <2>6. Calling(tx', app', call')
    <3>1. b >= 1 /\ tx'.batches = b /\ tx'.state = "open"
      BY <1>1, <1>2 DEF b
    <3>. QED
      BY <2>2, <2>3, <3>1 DEF Calling
  <2>7. Staging(tx', call', stage')
    BY <2>3 DEF Staging
  <2>8. Balance(tx', app', engine', call', cancelled', accepted')
    BY <2>2, <2>3 DEF Balance
  <2>. QED
    BY <2>4, <2>5, <2>6, <2>7, <2>8 DEF IInv
<1>. QED
  BY <1>4, <1>8, <1>9

-----------------------------------------------------------------------------
(* The theorems.                                                            *)

\* Every step keeps the invariant.
LEMMA InvariantKept == IInv /\ [Next]_vars => IInv'
<1>. SUFFICES ASSUME IInv, [Next]_vars PROVE IInv'
  OBVIOUS
<1>1. CASE OpenTyped \/ OpenAppender \/ SelectColumns \/ CheckTypes
  BY <1>1, OpenTypedKeeps, OpenAppenderKeeps, SelectColumnsKeeps, CheckTypesKeeps
<1>2. CASE \E batch \in Batches : AppendRows(batch) \/ AppendColumns(batch)
  BY <1>2, AppendRowsKeeps, AppendColumnsKeeps
<1>3. CASE AppendChunk \/ AppendChunksEnd
  BY <1>3, AppendChunkKeeps, AppendChunksEndKeeps
<1>4. CASE AppendSlice \/ SliceCancelled \/ AppendSlicesEnd
  BY <1>4, AppendSliceKeeps, SliceCancelledKeeps, AppendSlicesEndKeeps
<1>5. CASE Settle \/ Flush
  BY <1>5, SettleKeeps, FlushKeeps
<1>6. CASE CallbackFails \/ CloseAppender \/ CloseFlushed \/ Destroy
  BY <1>6, CallbackFailsKeeps, CloseAppenderKeeps, CloseFlushedKeeps, DestroyKeeps
<1>7. CASE Commit \/ Rollback \/ Cancel
  BY <1>7, CommitKeeps, RollbackKeeps, CancelKeeps
<1>8. CASE UNCHANGED vars
  <2>1. UNCHANGED <<tx, app, stage, engine, call, cancelled, accepted>>
    BY <1>8 DEF vars
  <2>2. TypeOK'
    BY <2>1 DEF IInv, TypeOK
  <2>3. Sticky(tx', app', call') /\ Calling(tx', app', call') /\ Staging(tx', call', stage')
    BY <2>1 DEF IInv, Sticky, Calling, Staging
  <2>4. Balance(tx', app', engine', call', cancelled', accepted')
    BY <2>1 DEF IInv, Balance
  <2>. QED
    BY <2>2, <2>3, <2>4 DEF IInv
<1>. QED
  BY <1>1, <1>2, <1>3, <1>4, <1>5, <1>6, <1>7, <1>8 DEF Next

\* The invariant always holds.
LEMMA IInvAlways == Spec => []IInv
<1>1. Init => IInv
  BY InitEstablishes
<1>2. IInv /\ [Next]_vars => IInv'
  BY InvariantKept
<1>. QED
  BY <1>1, <1>2, PTL DEF Spec

\* Every variable has its type, and between two batches an appender keeps no more staging
\* chunks than append_staged retains.
THEOREM TypeCorrect == Spec => []TypeOK
<1>1. IInv => TypeOK
  BY DEF IInv
<1>. QED
  BY <1>1, IInvAlways, PTL

\* A committed transaction holds exactly the rows that append reported as appended, in
\* order, whatever errors the body ignored and however the engine flushed.
THEOREM CommittedIsAccepted == Spec => []CommittedExactly
<1>1. IInv => CommittedExactly
  <2>. SUFFICES ASSUME IInv, tx.state = "committed"
                PROVE  engine.stored = accepted /\ engine.buffer = <<>>
    BY DEF CommittedExactly
  <2>1. call.pc = "body" /\ app.state = "none" /\ ~tx.poisoned
    BY DEF IInv, Calling
  <2>2. engine.buffer = <<>> /\ engine.stored \o engine.buffer = accepted
    BY <2>1 DEF IInv, Balance
  <2>3. engine.stored \in Seq(Rows)
    BY DEF IInv, TypeOK
  <2>4. engine.stored \o <<>> = engine.stored
    BY <2>3, ConcatEmptySeq
  <2>. QED
    BY <2>2, <2>4
<1>. QED
  BY <1>1, IInvAlways, PTL

\* A failed appender, or one whose last engine call failed, is given nothing more and none of
\* what it has buffered is flushed.
LEMMA FailedIsQuiet ==
    ASSUME IInv, [Next]_vars, app.state = "open", app.failed \/ app.status # "ok"
    PROVE  engine' = engine \/ engine' = [engine EXCEPT !.buffer = <<>>]
<1>1. call.pc \notin {"chunks", "slices"} \/ app.status # "ok"
  BY DEF IInv, Sticky
<1>2. call.pc = "slices" => app.status = "ok" /\ ~app.failed
  BY DEF IInv, Sticky
<1>3. call.pc = "body" => app.failed
  BY DEF IInv, Sticky
<1>4. CASE AppendChunk \/ AppendSlice
  BY <1>1, <1>2, <1>4 DEF AppendChunk, AppendSlice
<1>5. CASE Flush
  BY <1>3, <1>5 DEF Flush, InBody
<1>6. CASE CloseAppender
  BY <1>6 DEF CloseAppender, FlushesOnClose
<1>7. CASE Destroy
  BY <1>7 DEF Destroy, ClearAndDestroy
<1>8. CASE Rollback
  BY <1>8 DEF Rollback
<1>9. CASE OpenTyped \/ OpenAppender \/ SelectColumns \/ CheckTypes
  BY <1>9 DEF OpenTyped, OpenAppender, SelectColumns, CheckTypes
<1>10. CASE \E batch \in Batches : AppendRows(batch) \/ AppendColumns(batch)
  BY <1>10 DEF AppendRows, AppendColumns
<1>11. CASE AppendChunksEnd \/ SliceCancelled \/ AppendSlicesEnd \/ Settle
  BY <1>11 DEF AppendChunksEnd, SliceCancelled, AppendSlicesEnd, Settle
<1>12. CASE CallbackFails \/ CloseFlushed \/ Commit \/ Cancel
  BY <1>12 DEF CallbackFails, CloseFlushed, Commit, Cancel
<1>13. CASE UNCHANGED vars
  BY <1>13 DEF vars
<1>. QED
  BY <1>4, <1>5, <1>6, <1>7, <1>8, <1>9, <1>10, <1>11, <1>12, <1>13 DEF Next

\* Once an engine call or an operation of an appender has failed, nothing it still holds or
\* is given reaches the table: neither by a later append, nor by the flush of its close, nor
\* by the one of the engine's destructor, before which the buffer is cleared.
THEOREM FailuresTakeNothing == Spec => FailedTakesNothing
<1>1. IInv /\ [Next]_vars =>
        (app.state = "open" /\ (app.failed \/ app.status # "ok")
           => Held(engine') <= Held(engine) /\ Len(engine'.stored) <= Len(engine.stored))
  <2>. SUFFICES ASSUME IInv, [Next]_vars, app.state = "open",
                       app.failed \/ app.status # "ok"
                PROVE  Held(engine') <= Held(engine) /\ Len(engine'.stored) <= Len(engine.stored)
    OBVIOUS
  <2>1. engine' = engine \/ engine' = [engine EXCEPT !.buffer = <<>>]
    BY FailedIsQuiet
  <2>2. engine \in [buffer : Seq(Rows), stored : Seq(Rows)]
    BY DEF IInv, TypeOK
  <2>. DEFINE x == Len(engine.buffer)
              y == Len(engine.stored)
  <2>3. x \in Nat /\ y \in Nat
    BY <2>2, LenProperties
  <2>4. Held(engine) = x + y
    BY DEF Held
  <2>5. Len(engine'.stored) = y /\ (Held(engine') = x + y \/ Held(engine') = y)
    <3>1. CASE engine' = engine
      BY <3>1, <2>4
    <3>2. CASE engine' = [engine EXCEPT !.buffer = <<>>]
      <4>1. engine'.buffer = <<>> /\ engine'.stored = engine.stored
        BY <2>2, <3>2
      <4>2. Held(engine') = 0 + y
        BY <4>1, Len(<<>>) = 0 DEF Held
      <4>. QED
        BY <2>3, <4>1, <4>2
    <3>. QED
      BY <2>1, <3>1, <3>2
  <2>. HIDE DEF x, y
  <2>6. y <= y /\ x + y <= x + y /\ y <= x + y
    BY <2>3
  <2>7. Len(engine.stored) = y
    BY DEF y
  <2>. QED
    BY <2>4, <2>5, <2>6, <2>7
<1>. QED
  BY <1>1, IInvAlways, PTL DEF Spec, FailedTakesNothing
=============================================================================
