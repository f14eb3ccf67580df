------------------------- MODULE CopyBatching_proofs -------------------------
(***************************************************************************)
(* Every row of the source is inserted once and in order, bound as what it *)
(* is: for every size of a chunk and a batch, every limit and every        *)
(* pattern of values.                                                      *)
(***************************************************************************)
EXTENDS CopyBatching, SequenceTheorems, TLAPS

-----------------------------------------------------------------------------
(* The invariant.                                                           *)

ReaderRec == [from : Nat, size : Nat, row : Nat, count : Nat,
              at : Nat, end : Nat, offset : Nat, exhausted : BOOLEAN]

(* The chunks a reader has delivered are the rows up to at; those of a      *)
(* result before the last one are full, which is why LastResult can tell    *)
(* the last result from size and count alone.                               *)
ReaderOK(r) ==
  /\ r \in ReaderRec
  /\ r.at <= r.end /\ r.end <= total
  /\ r.from + r.size = r.at
  /\ r.size <= VectorSize
  /\ opts.limit = 0 => r.end = total
  /\ opts.limit > 0 => r.end = Least(r.offset, total)
  /\ r.exhausted => r.at = total
  /\ ~r.exhausted => r.size > 0 /\ r.count > 0
  /\ opts.limit > 0 /\ ~r.exhausted =>
       /\ r.at + opts.limit = r.offset + VectorSize * (r.count - 1) + r.size
       /\ r.at < r.end => r.size = VectorSize

(* The rows of a chunk that were handed out and are not inserted yet.       *)
Base == reader.from + reader.row - filled

(* Where the rows are while the calls of Copy run.                          *)
ChunkOK ==
  /\ ReaderOK(reader)
  /\ reader.row <= reader.size
  /\ last = 0 => reader.size = 0
  /\ last <= opts.batch
  /\ pc = "call" => reader.row = 0 /\ Len(arrived) = reader.from
  /\ pc \in {"fill", "end"} => Len(arrived) = reader.from + reader.row
  /\ pc = "fill" => Len(flat) = last \/ reader.row = reader.size
  /\ pc = "end" => reader.row = reader.size

BatchOK ==
  pc \in {"bind", "execute"} =>
    /\ 0 < filled /\ filled <= reader.row /\ filled <= Len(flat)
    /\ \/ Len(flat) = last
       \/ Len(flat) = filled /\ reader.row = reader.size
    /\ filled < last => reader.row = reader.size
    /\ \A i \in 1..filled : flat[i] = Base + i
    /\ useBatch => Len(arrived) = Base /\ next = 0
    /\ ~useBatch => Len(flat) = filled /\ ~Incomplete

SingleOK ==
  ~useBatch =>
    /\ pc = "bind" => Len(arrived) = Base + next /\ next < Len(flat)
    /\ pc = "execute" =>
         /\ Len(arrived) + 1 = Base + next
         /\ 0 < next /\ next <= Len(flat)
         /\ single = flat[next]

(* The bindings the driver has are those a bind cache was filled with.      *)
BoundBy(buf, cache) ==
  /\ DOMAIN bound = DOMAIN cache
  /\ \A i \in DOMAIN bound :
       bound[i].buf = buf /\ bound[i].slot = i /\ bound[i].kind = cache[i]

CacheOK ==
  /\ useBatch /\ Len(flat) > 0 /\ Len(caches.batch) = Len(flat) => BoundBy("batch", caches.batch)
  /\ ~useBatch => caches.batch = << >>
  /\ ~useBatch /\ Len(caches.single) = 1 => BoundBy("single", caches.single)

Full == pc = "execute" /\ useBatch => filled = Len(flat)

(* The buffer and the counter of the rows in it.                            *)
SlotsOK ==
  /\ Len(flat) <= VectorSize
  /\ pc \in {"open", "call", "fill", "end"} => filled = 0

OverOK == pc = "over" <=> status # "running"

Begins == pc = "open" => arrived = << >>

IInv ==
  /\ TypeOK
  /\ pc \notin {"open", "over"} => ChunkOK
  /\ BatchOK /\ SingleOK /\ CacheOK /\ Full /\ SlotsOK /\ OverOK /\ Begins /\ BoundToRows

-----------------------------------------------------------------------------
(* The options and the bounds.                                              *)
LEMMA OptionFacts ==
  ASSUME TypeOK
  PROVE  /\ VectorSize \in Nat /\ VectorSize > 0 /\ MaxRows \in Nat
         /\ opts.batch \in Nat /\ 0 < opts.batch /\ opts.batch <= VectorSize
         /\ opts.dest \in {"table", "query", "both"}
         /\ opts.limit \in Nat /\ \E k \in Nat : opts.limit = k * VectorSize
         /\ opts.kinds \in [1..MaxRows -> Kinds]
         /\ total \in Nat /\ total <= MaxRows
<1>1. /\ VectorSize \in Nat /\ VectorSize > 0 /\ MaxRows \in Nat
      /\ total \in Nat /\ total <= MaxRows
  BY BatchingAssumption DEF TypeOK, Rows
<1>2. opts.batch \in BatchSizes /\ opts.limit \in Limits /\ opts.kinds \in Patterns
      /\ opts.dest \in {"table", "query", "both"}
  BY DEF TypeOK, Options
<1>3. opts.batch \in 1..VectorSize
  BY <1>2, BatchingAssumption
<1>4. opts.limit \in Nat /\ \E k \in 0..opts.limit : opts.limit = k * VectorSize
  BY <1>2, BatchingAssumption
<1>5. opts.kinds \in [1..MaxRows -> Kinds]
  BY <1>2, BatchingAssumption
<1> QED
  BY <1>1, <1>2, <1>3, <1>4, <1>5

(* A statement is prepared for at least one row, if there is one, and for   *)
(* no more than a batch or than there are.                                  *)
LEMMA BatchSizeFacts ==
  ASSUME TypeOK, NEW r \in ReaderRec, NEW rows \in Nat
  PROVE  /\ BatchSizeForChunk(r, rows) \in Nat
         /\ BatchSizeForChunk(r, rows) <= opts.batch
         /\ BatchSizeForChunk(r, rows) = 0 => r.size = 0
         /\ 0 < rows => 0 < BatchSizeForChunk(r, rows) /\ BatchSizeForChunk(r, rows) <= rows
<1> DEFINE avail == IF rows > 0 THEN rows ELSE r.size
<1>1. /\ opts.batch \in Nat /\ 0 < opts.batch
      /\ avail \in Nat /\ (0 < rows => avail = rows) /\ (avail = 0 => r.size = 0)
  BY OptionFacts DEF ReaderRec
<1>2. CASE opts.batch <= avail
  <2>1. BatchSizeForChunk(r, rows) = opts.batch
    BY <1>1, <1>2 DEF BatchSizeForChunk
  <2> HIDE DEF avail
  <2> QED
    BY <1>1, <1>2, <2>1
<1>3. CASE opts.batch > avail /\ opts.dest = "both"
  <2>1. BatchSizeForChunk(r, rows) = 1
    BY <1>1, <1>3 DEF BatchSizeForChunk
  <2> HIDE DEF avail
  <2> QED
    BY <1>1, <1>3, <2>1
<1>4. CASE opts.batch > avail /\ opts.dest # "both"
  <2>1. BatchSizeForChunk(r, rows) = avail
    BY <1>1, <1>4 DEF BatchSizeForChunk
  <2> HIDE DEF avail
  <2> QED
    BY <1>1, <1>4, <2>1
<1> QED
  BY <1>1, <1>2, <1>3, <1>4

(* No statement prepared has more rows than a chunk.                        *)
LEMMA InsertQueryFacts ==
  ASSUME TypeOK, NEW n \in Nat, n <= opts.batch
  PROVE  InsertQuery(n) \in 0..VectorSize /\ n \in 0..VectorSize
<1>1. InsertQuery(n) = n \/ InsertQuery(n) = 1 \/ InsertQuery(n) = opts.batch
  BY DEF InsertQuery
<1> QED
  BY <1>1, OptionFacts

-----------------------------------------------------------------------------
(* SourceReader.                                                            *)
LEMMA ExecutedFields ==
  ASSUME TypeOK, NEW r \in ReaderRec
  PROVE  /\ Executed(r) \in ReaderRec
         /\ Executed(r).from = r.from /\ Executed(r).size = r.size /\ Executed(r).row = r.row
         /\ Executed(r).count = r.count /\ Executed(r).exhausted = r.exhausted
         /\ opts.limit = 0 => /\ Executed(r).at = 0 /\ Executed(r).end = total
         /\ opts.limit > 0 => /\ Executed(r).at = Least(r.offset, total)
                              /\ Executed(r).end = Least(r.offset + opts.limit, total)
                              /\ Executed(r).offset = r.offset + opts.limit
<1>1. opts.limit \in Nat /\ total \in Nat
  BY OptionFacts
<1>2. r.offset \in Nat
  BY DEF ReaderRec
<1>3. CASE opts.limit = 0
  <2> DEFINE a == 0
             e == total
  <2>1. Executed(r) = [r EXCEPT !.at = a, !.end = e]
    BY <1>3 DEF Executed
  <2>2. a \in Nat /\ e \in Nat
    BY <1>1
  <2> HIDE DEF a, e
  <2>3. /\ Executed(r) \in ReaderRec
        /\ Executed(r).from = r.from /\ Executed(r).size = r.size /\ Executed(r).row = r.row
        /\ Executed(r).count = r.count /\ Executed(r).exhausted = r.exhausted
        /\ Executed(r).at = a /\ Executed(r).end = e
    BY <2>1, <2>2 DEF ReaderRec
  <2> QED
    BY <1>3, <2>3 DEF a, e
<1>4. CASE opts.limit > 0
  <2> DEFINE a == Least(r.offset, total)
             e == Least(r.offset + opts.limit, total)
             o == r.offset + opts.limit
  <2>1. Executed(r) = [r EXCEPT !.at = a, !.end = e, !.offset = o]
    BY <1>1, <1>4 DEF Executed
  <2>2. a \in Nat /\ e \in Nat /\ o \in Nat
    BY <1>1, <1>2 DEF Least
  <2> HIDE DEF a, e, o
  <2>3. /\ Executed(r) \in ReaderRec
        /\ Executed(r).from = r.from /\ Executed(r).size = r.size /\ Executed(r).row = r.row
        /\ Executed(r).count = r.count /\ Executed(r).exhausted = r.exhausted
        /\ Executed(r).at = a /\ Executed(r).end = e /\ Executed(r).offset = o
    BY <2>1, <2>2 DEF ReaderRec
  <2> QED
    BY <1>1, <1>4, <2>3 DEF a, e, o
<1> QED
  BY <1>1, <1>3, <1>4

(* A chunk fetched follows the last one and is full unless it ends a result.*)
LEMMA FetchedFields ==
  ASSUME TypeOK, NEW r \in ReaderRec, r.at < r.end, NEW q \in Fetched(r)
  PROVE  /\ q \in ReaderRec
         /\ q.from = r.at /\ q.at = r.at + q.size
         /\ 0 < q.size /\ q.size <= VectorSize /\ q.at <= r.end
         /\ q.count = r.count + 1 /\ q.row = r.row
         /\ q.end = r.end /\ q.offset = r.offset /\ q.exhausted = r.exhausted
         /\ opts.limit > 0 => q.size = VectorSize \/ q.at = r.end
<1>1. PICK n \in ChunkSizes(r) :
        q = [r EXCEPT !.from = r.at, !.at = r.at + n, !.size = n, !.count = r.count + 1]
  BY DEF Fetched, ReaderRec
<1>2. /\ r.at \in Nat /\ r.end \in Nat /\ r.count \in Nat
      /\ VectorSize \in Nat /\ VectorSize > 0
  BY OptionFacts DEF ReaderRec
<1>3. /\ n \in Nat /\ 0 < n /\ n <= VectorSize /\ r.at + n <= r.end
      /\ opts.limit > 0 => n = VectorSize \/ r.at + n = r.end
  <2>1. opts.limit \in Nat
    BY OptionFacts
  <2> QED
    BY <1>1, <1>2, <2>1 DEF ChunkSizes, Least
<1>4. r.at + n \in Nat /\ r.count + 1 \in Nat
  BY <1>2, <1>3
<1>5. /\ q \in ReaderRec
      /\ q.from = r.at /\ q.at = r.at + n /\ q.size = n
      /\ q.count = r.count + 1 /\ q.row = r.row
      /\ q.end = r.end /\ q.offset = r.offset /\ q.exhausted = r.exhausted
  BY <1>1, <1>2, <1>3, <1>4 DEF ReaderRec
<1> QED
  BY <1>3, <1>5

(* LastResult is right: when a result is read to its end and it says that   *)
(* there is no other, no row of the source is left, and when it says that   *)
(* there is one, the next result goes on where this one ended.              *)
LEMMA LastResultRight ==
  ASSUME TypeOK, NEW r, ReaderOK(r), ~r.exhausted, r.at = r.end
  PROVE  /\ LastResult(r) => r.at = total
         /\ ~LastResult(r) => opts.limit > 0 /\ r.at = r.offset
<1> DEFINE V == VectorSize
           L == opts.limit
           c == r.count - 1
<1>1. /\ V \in Nat /\ V > 0 /\ L \in Nat /\ total \in Nat
      /\ \E k \in Nat : L = k * V
  BY OptionFacts
<1>2. /\ r.size \in Nat /\ 0 < r.size /\ r.size <= V /\ r.count = c + 1 /\ c \in Nat
      /\ r.at \in Nat /\ r.offset \in Nat
      /\ L = 0 => r.at = total
      /\ L > 0 => r.at = Least(r.offset, total) /\ r.at + L = r.offset + V * c + r.size
  BY <1>1 DEF ReaderOK, ReaderRec
<1>3. LastResult(r) <=> L = 0 \/ r.size * (c + 1) < L
  BY <1>2 DEF LastResult
<1>4. r.size * (c + 1) = r.size * c + r.size /\ r.size * c \in Nat /\ V * c \in Nat
  BY <1>1, <1>2
<1> HIDE DEF c
<1>5. r.size * c <= V * c
  BY <1>1, <1>2
<1> HIDE DEF V, L
<1>6. CASE L = 0
  BY <1>2, <1>3, <1>6
<1>7. CASE L > 0 /\ ~(r.size * (c + 1) < L)
  <2>1. r.at <= r.offset
    BY <1>1, <1>2, <1>7 DEF Least
  <2>2. V * c + r.size >= L
    BY <1>1, <1>2, <1>4, <1>5, <1>7
  <2>3. r.at = r.offset
    BY <1>1, <1>2, <1>4, <1>7, <2>1, <2>2
  <2> QED
    BY <1>3, <1>7, <2>3 DEF L
<1>8. CASE L > 0 /\ r.size * (c + 1) < L
  <2>1. SUFFICES ASSUME r.at = r.offset PROVE FALSE
    BY <1>1, <1>2, <1>3, <1>8 DEF Least
  <2>2. L = V * c + r.size
    BY <1>1, <1>2, <1>4, <1>8, <2>1
  <2>3. r.size < V
    <3>1. SUFFICES ASSUME r.size = V PROVE FALSE
      BY <1>1, <1>2
    <3> QED
      BY <1>1, <1>2, <1>4, <1>8, <2>2, <3>1
  <2>4. PICK k \in Nat : L = k * V
    BY <1>1
  <2>5. (k - c) * V = r.size
    BY <1>1, <1>2, <2>2, <2>4
  <2>6. CASE k - c >= 1
    <3>1. (k - c) * V >= V
      BY <1>1, <1>2, <2>6
    <3> QED
      BY <1>1, <1>2, <2>3, <2>5, <3>1
  <2>7. CASE k - c <= 0
    <3>1. (k - c) * V <= 0
      BY <1>1, <1>2, <2>7
    <3> QED
      BY <1>1, <1>2, <2>5, <3>1
  <2> QED
    BY <1>2, <2>6, <2>7
<1> QED
  BY <1>1, <1>6, <1>7, <1>8

(* The reader is in step after its next chunk, and exhausted after the last.*)
LEMMA NextChunkOK ==
  ASSUME TypeOK, NEW r, ReaderOK(r), NEW q \in NextChunk(r)
  PROVE  /\ ReaderOK(q) /\ q.row = r.row
         /\ q.exhausted => r.at = total /\ q.size = r.size
         /\ ~q.exhausted => q.from = r.at /\ q.size > 0
<1>1. /\ r \in ReaderRec /\ VectorSize \in Nat /\ opts.limit \in Nat /\ total \in Nat
      /\ VectorSize > 0
  BY OptionFacts DEF ReaderOK
<1>2. CASE r.exhausted
  <2>1. q = r
    BY <1>2 DEF NextChunk
  <2> QED
    BY <1>2, <2>1 DEF ReaderOK
<1>3. CASE ~r.exhausted /\ r.at < r.end
  <2>1. q \in Fetched(r)
    BY <1>3 DEF NextChunk
  <2>2. /\ q \in ReaderRec
        /\ q.from = r.at /\ q.at = r.at + q.size
        /\ 0 < q.size /\ q.size <= VectorSize /\ q.at <= r.end
        /\ q.count = r.count + 1 /\ q.row = r.row
        /\ q.end = r.end /\ q.offset = r.offset /\ q.exhausted = r.exhausted
        /\ opts.limit > 0 => q.size = VectorSize \/ q.at = r.end
    BY <1>1, <1>3, <2>1, FetchedFields
  <2>3. opts.limit > 0 =>
          /\ q.at + opts.limit = q.offset + VectorSize * (q.count - 1) + q.size
          /\ q.at < q.end => q.size = VectorSize
    <3>1. SUFFICES ASSUME opts.limit > 0
                   PROVE  q.at + opts.limit = q.offset + VectorSize * (q.count - 1) + q.size
      BY <2>2 DEF ReaderRec
    <3>2. /\ r.at + opts.limit = r.offset + VectorSize * (r.count - 1) + r.size
          /\ r.size = VectorSize /\ r.count > 0
      BY <1>3, <3>1 DEF ReaderOK
    <3>3. VectorSize * (r.count - 1) + VectorSize = VectorSize * r.count
      BY <1>1 DEF ReaderRec
    <3>4. q.count - 1 = r.count
      BY <1>1, <2>2 DEF ReaderRec
    <3>5. q.at \in Nat /\ q.size \in Nat /\ r.at \in Nat /\ r.offset \in Nat
          /\ VectorSize * r.count \in Nat /\ VectorSize * (r.count - 1) \in Int
      BY <1>1, <2>2 DEF ReaderRec
    <3> QED
      BY <1>1, <2>2, <3>2, <3>3, <3>4, <3>5
  <2>4. q.count > 0
    BY <1>1, <2>2 DEF ReaderRec
  <2> QED
    BY <1>1, <1>3, <2>2, <2>3, <2>4 DEF ReaderOK
<1>4. CASE ~r.exhausted /\ ~(r.at < r.end) /\ LastResult(r)
  <2>1. q = [r EXCEPT !.exhausted = TRUE]
    BY <1>4 DEF NextChunk
  <2>2. /\ q \in ReaderRec
        /\ q.from = r.from /\ q.size = r.size /\ q.row = r.row /\ q.at = r.at
        /\ q.end = r.end /\ q.offset = r.offset /\ q.exhausted
    BY <1>1, <2>1 DEF ReaderRec
  <2>3. r.at = total
    <3>1. r.at = r.end
      BY <1>1, <1>4 DEF ReaderOK, ReaderRec
    <3> QED
      BY <1>4, <3>1, LastResultRight
  <2> QED
    BY <2>2, <2>3 DEF ReaderOK
<1>5. CASE ~r.exhausted /\ ~(r.at < r.end) /\ ~LastResult(r)
  <2> DEFINE m == [Executed(r) EXCEPT !.count = 0]
  <2>1. r.at = r.end /\ opts.limit > 0 /\ r.at = r.offset /\ r.at <= total /\ r.at \in Nat
    <3>1. r.at = r.end
      BY <1>1, <1>5 DEF ReaderOK, ReaderRec
    <3>2. r.at <= total /\ r.at \in Nat
      BY <1>1, <3>1 DEF ReaderOK, ReaderRec
    <3> QED
      BY <1>5, <3>1, <3>2, LastResultRight
  <2>2. /\ m \in ReaderRec
        /\ m.from = r.from /\ m.size = r.size /\ m.row = r.row
        /\ m.count = 0 /\ m.exhausted = r.exhausted
        /\ m.at = Least(r.offset, total)
        /\ m.end = Least(r.offset + opts.limit, total)
        /\ m.offset = r.offset + opts.limit
    BY <1>1, <2>1, ExecutedFields DEF ReaderRec
  <2>3. IF m.at < m.end THEN q \in Fetched(m) ELSE q = [m EXCEPT !.exhausted = TRUE]
    BY <1>5 DEF NextChunk
  <2> HIDE DEF m
  <2>4. m.at = r.at /\ m.at <= m.end /\ m.end <= total /\ m.end \in Nat
    BY <1>1, <2>1, <2>2 DEF Least
  <2>5. CASE m.at < m.end
    <3>1. /\ q \in ReaderRec
          /\ q.from = m.at /\ q.at = m.at + q.size
          /\ 0 < q.size /\ q.size <= VectorSize /\ q.at <= m.end
          /\ q.count = m.count + 1 /\ q.row = m.row
          /\ q.end = m.end /\ q.offset = m.offset /\ q.exhausted = m.exhausted
          /\ opts.limit > 0 => q.size = VectorSize \/ q.at = m.end
      BY <2>2, <2>3, <2>5, FetchedFields
    <3>2. q.count = 1 /\ VectorSize * (q.count - 1) = 0
      BY <1>1, <2>2, <3>1
    <3>3. /\ q.at + opts.limit = q.offset + VectorSize * (q.count - 1) + q.size
          /\ q.at < q.end => q.size = VectorSize
      <4>1. q.at \in Nat /\ q.size \in Nat /\ q.end \in Nat
        BY <3>1 DEF ReaderRec
      <4> QED
        BY <1>1, <2>1, <2>2, <2>4, <3>1, <3>2, <4>1
    <3>4. q.end = Least(q.offset, total) /\ opts.limit # 0
      BY <1>1, <2>1, <2>2, <3>1
    <3> QED
      BY <1>1, <1>5, <2>2, <2>4, <3>1, <3>2, <3>3, <3>4 DEF ReaderOK
  <2>6. CASE ~(m.at < m.end)
    <3>1. q = [m EXCEPT !.exhausted = TRUE]
      BY <2>3, <2>6
    <3>2. /\ q \in ReaderRec
          /\ q.from = m.from /\ q.size = m.size /\ q.row = m.row /\ q.at = m.at
          /\ q.end = m.end /\ q.offset = m.offset /\ q.exhausted
      BY <2>2, <3>1 DEF ReaderRec
    <3>3. m.at = total /\ m.end = total
      BY <1>1, <2>1, <2>2, <2>4, <2>6 DEF Least
    <3>4. r.from + r.size = r.at /\ r.size <= VectorSize
      BY DEF ReaderOK
    <3>5. q.end = Least(q.offset, total) /\ opts.limit # 0
      BY <1>1, <2>1, <2>2, <3>2
    <3> QED
      BY <1>1, <2>2, <2>4, <3>2, <3>3, <3>4, <3>5 DEF ReaderOK
  <2> QED
    BY <2>5, <2>6
<1> QED
  BY <1>2, <1>3, <1>4, <1>5

(* The first chunk.                                                         *)
LEMMA FirstChunkOK ==
  ASSUME TypeOK, NEW q \in NextChunk(Executed(ClosedReader))
  PROVE  ReaderOK(q) /\ q.from = 0 /\ q.row = 0
<1>1. /\ VectorSize \in Nat /\ opts.limit \in Nat /\ total \in Nat /\ VectorSize > 0
  BY OptionFacts
<1> DEFINE r == Executed(ClosedReader)
<1>2. /\ ClosedReader \in ReaderRec
      /\ ClosedReader.from = 0 /\ ClosedReader.size = 0 /\ ClosedReader.row = 0
      /\ ClosedReader.count = 0 /\ ClosedReader.offset = 0 /\ ~ClosedReader.exhausted
  BY DEF ClosedReader, ReaderRec
<1>3. /\ r \in ReaderRec /\ r.from = 0 /\ r.size = 0 /\ r.row = 0 /\ r.count = 0
      /\ ~r.exhausted
      /\ opts.limit = 0 => r.at = 0 /\ r.end = total
      /\ opts.limit > 0 => /\ r.at = Least(0, total) /\ r.end = Least(0 + opts.limit, total)
                           /\ r.offset = 0 + opts.limit
  BY <1>2, ExecutedFields
<1> HIDE DEF r
<1>4. /\ r.at = 0 /\ r.end <= total /\ r.end \in Nat
      /\ opts.limit > 0 => r.end = Least(r.offset, total) /\ r.offset = opts.limit
  BY <1>1, <1>3 DEF Least
<1>5. CASE r.at < r.end
  <2>1. q \in Fetched(r)
    BY <1>3, <1>5 DEF NextChunk, r
  <2>2. /\ q \in ReaderRec
        /\ q.from = r.at /\ q.at = r.at + q.size
        /\ 0 < q.size /\ q.size <= VectorSize /\ q.at <= r.end
        /\ q.count = r.count + 1 /\ q.row = r.row
        /\ q.end = r.end /\ q.offset = r.offset /\ q.exhausted = r.exhausted
        /\ opts.limit > 0 => q.size = VectorSize \/ q.at = r.end
    BY <1>3, <1>5, <2>1, FetchedFields
  <2>3. q.count = 1 /\ VectorSize * (q.count - 1) = 0 /\ q.at \in Nat /\ q.size \in Nat
    BY <1>1, <1>3, <2>2 DEF ReaderRec
  <2>4. opts.limit > 0 =>
          /\ q.at + opts.limit = q.offset + VectorSize * (q.count - 1) + q.size
          /\ q.at < q.end => q.size = VectorSize
    BY <1>1, <1>4, <2>2, <2>3
  <2> QED
    BY <1>1, <1>3, <1>4, <2>2, <2>3, <2>4 DEF ReaderOK
<1>6. CASE ~(r.at < r.end)
  <2>1. r.end = 0 /\ total = 0
    BY <1>1, <1>3, <1>4, <1>6 DEF Least
  <2>2. LastResult(r)
    <3>1. r.size * r.count = 0
      BY <1>3
    <3> QED
      BY <1>1, <3>1 DEF LastResult
  <2>3. q = [r EXCEPT !.exhausted = TRUE]
    BY <1>3, <1>6, <2>2 DEF NextChunk, r
  <2>4. /\ q \in ReaderRec
        /\ q.from = 0 /\ q.size = 0 /\ q.row = 0 /\ q.at = 0
        /\ q.end = 0 /\ q.offset = r.offset /\ q.exhausted
    BY <1>3, <1>4, <2>1, <2>3 DEF ReaderRec
  <2>5. opts.limit > 0 => q.end = Least(q.offset, total)
    BY <1>4, <2>1, <2>4
  <2> QED
    BY <1>1, <2>1, <2>4, <2>5 DEF ReaderOK
<1> QED
  BY <1>5, <1>6

(* What ReaderOK says, in the types of the variable.                        *)
LEMMA ReaderTypes ==
  ASSUME TypeOK, NEW r, ReaderOK(r)
  PROVE  r \in [from : Rows, size : 0..VectorSize, row : Nat, count : Nat,
                at : Rows, end : Rows, offset : Nat, exhausted : BOOLEAN]
<1>1. /\ VectorSize \in Nat /\ MaxRows \in Nat /\ total \in Nat /\ total <= MaxRows
  BY OptionFacts
<1>2. r \in ReaderRec /\ r.at <= r.end /\ r.end <= total /\ r.from + r.size = r.at
      /\ r.size <= VectorSize
  BY DEF ReaderOK
<1>3. /\ r.from \in Rows /\ r.size \in 0..VectorSize /\ r.at \in Rows /\ r.end \in Rows
  BY <1>1, <1>2 DEF ReaderRec, Rows
<1> QED
  BY <1>2, <1>3 DEF ReaderRec

-----------------------------------------------------------------------------
(* Helpers on sequences and bindings.                                       *)

(* A function on 1..n is a sequence of n elements.                          *)
LEMMA FunctionSeq ==
  ASSUME NEW S, NEW n \in Nat, NEW f \in [1..n -> S]
  PROVE  f \in Seq(S) /\ Len(f) = n
<1>1. f \in Seq(S)
  BY SeqDef
<1>2. DOMAIN f = 1..n /\ Len(f) \in Nat /\ DOMAIN f = 1..Len(f)
  BY <1>1, LenProperties
<1> QED
  BY <1>1, <1>2

BindingRec == [buf : {"batch", "single", "freed"}, slot : 1..VectorSize,
               kind : Kinds, of : Rows]

(* Freeing the batch buffers changes the bindings to them and no others.    *)
LEMMA FreedFields ==
  ASSUME TypeOK, NEW n
  PROVE  /\ DOMAIN Freed(n) = DOMAIN bound
         /\ \A i \in DOMAIN bound : /\ Freed(n)[i] \in BindingRec
                                    /\ bound[i].buf # "batch" => Freed(n)[i] = bound[i]
<1>1. \A i \in DOMAIN bound : bound[i] \in BindingRec
  BY DEF TypeOK, BindingRec
<1>2. DOMAIN Freed(n) = DOMAIN bound
  BY DEF Freed
<1>3. ASSUME NEW i \in DOMAIN bound
      PROVE  Freed(n)[i] \in BindingRec /\ (bound[i].buf # "batch" => Freed(n)[i] = bound[i])
  <2>1. Freed(n)[i] = IF bound[i].buf = "batch" /\ bound[i].slot > n
                        THEN [bound[i] EXCEPT !.buf = "freed"] ELSE bound[i]
    BY DEF Freed
  <2>2. [bound[i] EXCEPT !.buf = "freed"] \in BindingRec
    BY <1>1 DEF BindingRec
  <2> QED
    BY <1>1, <2>1, <2>2
<1> QED
  BY <1>2, <1>3

(* What is bound after BindToOdbcWithCache, when the cache is that of the   *)
(* bindings.                                                                *)
LEMMA BindingsFields ==
  ASSUME TypeOK, NEW buf \in {"batch", "single"}, NEW n \in 1..VectorSize,
         NEW rows \in [1..n -> 1..MaxRows], NEW cache \in Seq(Kinds),
         Len(cache) = n => BoundBy(buf, cache)
  PROVE  /\ DOMAIN Bindings(buf, cache, rows) = 1..n
         /\ \A i \in 1..n : LET b == Bindings(buf, cache, rows)[i] IN
              /\ b \in BindingRec
              /\ b.buf = buf /\ b.slot = i /\ b.kind = opts.kinds[rows[i]]
              /\ opts.kinds[rows[i]] = "var" => b.of = rows[i]
         /\ Shapes(rows) \in Seq(Kinds) /\ Len(Shapes(rows)) = n
         /\ \A i \in 1..n : Shapes(rows)[i] = opts.kinds[rows[i]]
<1> DEFINE B == Bindings(buf, cache, rows)
<1>1. /\ VectorSize \in Nat /\ MaxRows \in Nat /\ n \in Nat
      /\ opts.kinds \in [1..MaxRows -> Kinds]
  BY OptionFacts
<1>2. rows \in Seq(1..MaxRows) /\ Len(rows) = n /\ DOMAIN rows = 1..n
  BY <1>1, FunctionSeq
<1>3. Len(cache) = n => DOMAIN bound = 1..n
  BY <1>1, LenProperties DEF BoundBy
<1>4. DOMAIN B = 1..n
  BY <1>2, <1>3 DEF Bindings
<1>5. ASSUME NEW i \in 1..n
      PROVE  /\ B[i] \in BindingRec
             /\ B[i].buf = buf /\ B[i].slot = i /\ B[i].kind = opts.kinds[rows[i]]
             /\ opts.kinds[rows[i]] = "var" => B[i].of = rows[i]
  <2>1. B[i] = IF i \in Rebind(cache, rows) THEN Binding(buf, i, rows[i]) ELSE bound[i]
    BY <1>2 DEF Bindings
  <2>2. rows[i] \in 1..MaxRows /\ rows[i] \in Rows /\ opts.kinds[rows[i]] \in Kinds
        /\ i \in 1..VectorSize
    BY <1>1 DEF Rows
  <2>3. CASE i \in Rebind(cache, rows)
    <3>1. B[i] = Binding(buf, i, rows[i])
      BY <2>1, <2>3
    <3> QED
      BY <2>2, <3>1 DEF Binding, BindingRec
  <2>4. CASE i \notin Rebind(cache, rows)
    <3>1. /\ Len(cache) = n /\ cache[i] = opts.kinds[rows[i]] /\ opts.kinds[rows[i]] # "var"
      BY <1>2, <2>4 DEF Rebind
    <3>2. B[i] = bound[i] /\ i \in DOMAIN bound
      BY <1>3, <2>1, <2>4, <3>1
    <3>3. bound[i] \in BindingRec
      BY <3>2 DEF TypeOK, BindingRec
    <3>4. bound[i].buf = buf /\ bound[i].slot = i /\ bound[i].kind = cache[i]
      BY <3>1, <3>2 DEF BoundBy
    <3> QED
      BY <3>1, <3>2, <3>3, <3>4
  <2> QED
    BY <2>3, <2>4
<1>6. /\ Shapes(rows) \in [1..n -> Kinds]
      /\ \A i \in 1..n : Shapes(rows)[i] = opts.kinds[rows[i]]
  BY <1>1, <1>2 DEF Shapes
<1>7. Shapes(rows) \in Seq(Kinds) /\ Len(Shapes(rows)) = n
  BY <1>1, <1>6, FunctionSeq
<1> QED
  BY <1>4, <1>5, <1>6, <1>7

-----------------------------------------------------------------------------
(* Every step preserves the invariant.                                      *)

(* Beyond binding and execution, nothing is said of the buffers.            *)
LEMMA Outside ==
  ASSUME pc' \notin {"bind", "execute"}
  PROVE  BatchOK' /\ SingleOK' /\ Full' /\ BoundToRows'
BY DEF BatchOK, SingleOK, Full, BoundToRows

(* A failure leaves everything as it is.                                    *)
LEMMA FailsStep ==
  ASSUME IInv, pc # "over", Fails,
         UNCHANGED <<opts, total, reader, statement, buffers, caches, bound, arrived>>
  PROVE  IInv'
<1>1. BatchOK' /\ SingleOK' /\ Full' /\ BoundToRows'
  BY Outside DEF Fails
<1>2. TypeOK'
  BY DEF IInv, TypeOK, Fails, buffers, statement, Rows
<1>3. CacheOK'
  BY DEF IInv, CacheOK, BoundBy, buffers
<1>4. SlotsOK' /\ OverOK' /\ Begins' /\ pc' = "over"
  BY DEF IInv, SlotsOK, OverOK, Begins, Fails, buffers
<1> QED
  BY <1>1, <1>2, <1>3, <1>4 DEF IInv

(* The first chunk is there, or the source is empty, and no row is          *)
(* inserted yet.                                                            *)
LEMMA OpenStep ==
  ASSUME IInv, Open
  PROVE  IInv'
<1>1. PICK r \in NextChunk(Executed(ClosedReader)) :
        /\ reader' = r
        /\ last' = BatchSizeForChunk(r, 0)
        /\ prepared' = InsertQuery(BatchSizeForChunk(r, 0))
        /\ types' = prepared'
        /\ pc' = "call"
  BY DEF Open
<1>2. TypeOK /\ UNCHANGED <<opts, total, buffers, caches, bound, arrived, status>> /\ pc = "open"
  BY DEF IInv, Open
<1>3. ReaderOK(r) /\ r.from = 0 /\ r.row = 0
  BY <1>2, FirstChunkOK
<1> DEFINE n == BatchSizeForChunk(r, 0)
<1>4. n \in Nat /\ n <= opts.batch /\ (n = 0 => r.size = 0)
  BY <1>2, <1>3, BatchSizeFacts DEF ReaderOK
<1>5. InsertQuery(n) \in 0..VectorSize /\ n \in 0..VectorSize
  BY <1>2, <1>4, InsertQueryFacts
<1>6. r.row <= r.size
  BY <1>3 DEF ReaderOK, ReaderRec
<1>7. TypeOK'
  <2>1. r \in [from : Rows, size : 0..VectorSize, row : Nat, count : Nat,
               at : Rows, end : Rows, offset : Nat, exhausted : BOOLEAN]
    BY <1>2, <1>3, ReaderTypes
  <2> QED
    BY <1>1, <1>2, <1>5, <1>6, <2>1 DEF TypeOK, buffers, Rows
<1>8. ChunkOK'
  <2>1. ReaderOK(reader)'
    BY <1>1, <1>2, <1>3 DEF ReaderOK
  <2>2. Len(arrived') = 0
    BY <1>2 DEF IInv, Begins
  <2> QED
    BY <1>1, <1>2, <1>3, <1>4, <1>6, <2>1, <2>2 DEF ChunkOK
<1>9. BatchOK' /\ SingleOK' /\ Full' /\ BoundToRows'
  BY <1>1, Outside
<1>10. CacheOK' /\ SlotsOK' /\ OverOK' /\ Begins'
  BY <1>1, <1>2 DEF IInv, CacheOK, BoundBy, SlotsOK, OverOK, Begins, buffers
<1> QED
  BY <1>7, <1>8, <1>9, <1>10 DEF IInv

(* flat_batch gets a slot for each row of the statement's parameters.       *)
LEMMA BeginCallStep ==
  ASSUME IInv, BeginCall
  PROVE  IInv'
<1>1. /\ TypeOK /\ ChunkOK /\ CacheOK /\ SlotsOK /\ OverOK /\ pc = "call" /\ pc' = "fill"
      /\ UNCHANGED <<opts, total, reader, statement, single, next, useBatch, filled, arrived, status>>
  BY DEF IInv, BeginCall
<1>2. filled = 0 /\ last \in 0..VectorSize /\ VectorSize \in Nat /\ flat \in Seq(Rows) /\ 0 \in Rows
  BY <1>1, OptionFacts DEF SlotsOK, TypeOK, Rows
<1>3. /\ flat' \in Seq(Rows) /\ Len(flat') = last
      /\ CacheOK'
      /\ DOMAIN bound' = DOMAIN bound
      /\ \A i \in DOMAIN bound' : bound'[i] \in BindingRec
      /\ caches' \in [batch : Seq(Kinds), single : Seq(Kinds)]
  <2>1. CASE Len(flat) # last
    <3>1. /\ flat' = [i \in 1..last |-> 0] /\ bound' = Freed(0)
          /\ caches' = [caches EXCEPT !.batch = << >>]
      BY <2>1 DEF BeginCall
    <3>2. flat' \in [1..last -> Rows]
      BY <1>2, <3>1
    <3>3. flat' \in Seq(Rows) /\ Len(flat') = last
      BY <1>2, <3>2, FunctionSeq
    <3>4. /\ caches' \in [batch : Seq(Kinds), single : Seq(Kinds)]
          /\ caches'.batch = << >> /\ caches'.single = caches.single
      BY <1>1, <3>1, EmptySeq DEF TypeOK
    <3>5. /\ DOMAIN bound' = DOMAIN bound
          /\ \A i \in DOMAIN bound : /\ bound'[i] \in BindingRec
                                     /\ bound[i].buf # "batch" => bound'[i] = bound[i]
      BY <1>1, <3>1, FreedFields
    <3>6. Len(caches'.batch) = 0
      BY <3>4, EmptySeq
    <3>7. ~useBatch /\ Len(caches.single) = 1 => BoundBy("single", caches.single)'
      <4>1. SUFFICES ASSUME BoundBy("single", caches.single)
                     PROVE  BoundBy("single", caches.single)'
        BY <1>1 DEF CacheOK
      <4> QED
        BY <3>4, <3>5, <4>1 DEF BoundBy
    <3> QED
      BY <1>1, <3>3, <3>4, <3>5, <3>6, <3>7 DEF CacheOK
  <2>2. CASE Len(flat) = last
    <3>1. UNCHANGED <<flat, bound, caches>>
      BY <2>2 DEF BeginCall
    <3>2. CacheOK'
      BY <1>1, <3>1 DEF CacheOK, BoundBy
    <3> QED
      BY <1>1, <1>2, <2>2, <3>1, <3>2 DEF TypeOK, BindingRec
  <2> QED
    BY <2>1, <2>2
<1>4. TypeOK'
  <2>1. filled' <= Len(flat')
    BY <1>1, <1>2, <1>3
  <2> QED
    BY <1>1, <1>2, <1>3, <2>1 DEF TypeOK, BindingRec, statement, Rows
<1>5. ChunkOK'
  <2>1. ReaderOK(reader)'
    BY <1>1 DEF ChunkOK, ReaderOK
  <2>2. Len(arrived) = reader.from + reader.row
    BY <1>1 DEF ChunkOK, ReaderOK, ReaderRec
  <2> QED
    BY <1>1, <1>3, <2>1, <2>2 DEF ChunkOK, statement
<1>6. BatchOK' /\ SingleOK' /\ Full' /\ BoundToRows'
  BY <1>1, Outside
<1>7. SlotsOK' /\ OverOK' /\ Begins'
  BY <1>1, <1>2, <1>3 DEF SlotsOK, OverOK, Begins
<1> QED
  BY <1>3, <1>4, <1>5, <1>6, <1>7 DEF IInv

(* The rows of the batch are the next ones of the chunk.                    *)
LEMMA ReadRowsStep ==
  ASSUME IInv, ReadRows
  PROVE  IInv'
<1> DEFINE A == Available
<1>1. /\ TypeOK /\ ChunkOK /\ CacheOK /\ SlotsOK /\ OverOK /\ pc = "fill" /\ pc' = "bind"
      /\ A > 0 /\ filled' = A /\ next' = 0 /\ useBatch' = TRUE
      /\ flat' = [i \in DOMAIN flat |-> IF i <= A THEN reader.from + reader.row + i ELSE flat[i]]
      /\ reader' = [reader EXCEPT !.row = @ + A]
      /\ UNCHANGED <<opts, total, statement, single, caches, bound, arrived, status>>
  BY DEF IInv, ReadRows
<1>2. /\ VectorSize \in Nat /\ MaxRows \in Nat /\ total \in Nat /\ total <= MaxRows
  BY <1>1, OptionFacts
<1>3. /\ ReaderOK(reader) /\ reader \in ReaderRec
      /\ reader.row <= reader.size /\ reader.from + reader.size = reader.at
      /\ reader.at <= reader.end /\ reader.end <= total /\ reader.size <= VectorSize
      /\ reader.from \in Nat /\ reader.row \in Nat /\ reader.size \in Nat
      /\ reader.at \in Nat /\ reader.end \in Nat
  BY <1>1 DEF ChunkOK, ReaderOK, ReaderRec
<1>4. /\ last \in Nat /\ last <= VectorSize /\ A \in Nat
      /\ A <= last /\ A <= reader.size - reader.row
      /\ A < last => A = reader.size - reader.row
  <2>1. last \in Nat /\ last <= VectorSize
    BY <1>1, <1>2 DEF TypeOK
  <2>2. A = last \/ A = reader.size - reader.row
    BY DEF Available, Least
  <2>3. A <= last /\ A <= reader.size - reader.row
    BY <1>3, <2>1 DEF Available, Least
  <2> HIDE DEF A
  <2> QED
    BY <1>1, <1>3, <2>1, <2>2, <2>3
<1> HIDE DEF A
<1>5. Len(flat) = last /\ flat \in [1..last -> Rows] /\ DOMAIN flat = 1..last
  <2>1. Len(flat) = last
    BY <1>1, <1>3, <1>4 DEF ChunkOK
  <2> QED
    BY <1>1, <2>1, LenProperties DEF TypeOK
<1>6. /\ flat' \in [1..last -> Rows]
      /\ \A i \in 1..A : flat'[i] = reader.from + reader.row + i
  <2>1. ASSUME NEW i \in 1..A
        PROVE  i \in 1..last /\ reader.from + reader.row + i \in Rows
    BY <1>2, <1>3, <1>4 DEF Rows
  <2>2. ASSUME NEW i \in 1..last
        PROVE  flat'[i] \in Rows
    BY <1>1, <1>4, <1>5, <2>1
  <2> QED
    BY <1>1, <1>4, <1>5, <2>1, <2>2
<1>7. flat' \in Seq(Rows) /\ Len(flat') = last
  BY <1>4, <1>6, FunctionSeq
<1>8. /\ reader' \in ReaderRec /\ reader'.row = reader.row + A
      /\ reader'.from = reader.from /\ reader'.size = reader.size /\ reader'.count = reader.count
      /\ reader'.at = reader.at /\ reader'.end = reader.end /\ reader'.offset = reader.offset
      /\ reader'.exhausted = reader.exhausted
  <2>1. reader.row + A \in Nat
    BY <1>3, <1>4
  <2> QED
    BY <1>1, <1>3, <2>1 DEF ReaderRec
<1>9. ReaderOK(reader)' /\ (reader.row <= reader.size)'
  <2>1. ReaderOK(reader)'
    BY <1>1, <1>3, <1>8 DEF ReaderOK
  <2> QED
    BY <1>3, <1>4, <1>8, <2>1
<1>10. TypeOK'
  <2>1. reader' \in [from : Rows, size : 0..VectorSize, row : Nat, count : Nat,
                     at : Rows, end : Rows, offset : Nat, exhausted : BOOLEAN]
    <3>1. /\ reader'.from \in Rows /\ reader'.size \in 0..VectorSize
          /\ reader'.at \in Rows /\ reader'.end \in Rows
      BY <1>2, <1>3, <1>8 DEF Rows
    <3> QED
      BY <1>8, <3>1 DEF ReaderRec
  <2>2. /\ filled' <= Len(flat') /\ {next', filled'} \subseteq 0..VectorSize
        /\ useBatch' \in BOOLEAN
    BY <1>1, <1>2, <1>4, <1>7
  <2> QED
    BY <1>1, <1>7, <1>9, <2>1, <2>2 DEF TypeOK, statement, Rows
<1>11. ChunkOK'
  BY <1>1, <1>8, <1>9 DEF ChunkOK, statement
<1>12. Len(arrived) = reader.from + reader.row /\ Base' = reader.from + reader.row
  BY <1>1, <1>3, <1>4, <1>8 DEF ChunkOK, Base
<1>13. BatchOK'
  <2>1. last' = last
    BY <1>1 DEF statement
  <2>2. 0 < filled' /\ filled' <= reader'.row /\ filled' <= Len(flat')
    BY <1>1, <1>3, <1>4, <1>7, <1>8
  <2>3. filled' < last' => reader'.row = reader'.size
    BY <1>1, <1>3, <1>4, <1>8, <2>1
  <2>4. \A i \in 1..filled' : flat'[i] = Base' + i
    BY <1>1, <1>6, <1>12
  <2> QED
    BY <1>1, <1>7, <1>12, <2>1, <2>2, <2>3, <2>4 DEF BatchOK
<1>14. SingleOK' /\ Full' /\ BoundToRows'
  BY <1>1 DEF SingleOK, Full, BoundToRows
<1>15. CacheOK'
  <2>1. SUFFICES ASSUME Len(flat) > 0, Len(caches.batch) = Len(flat)
                 PROVE  BoundBy("batch", caches.batch)
    BY <1>1, <1>5, <1>7 DEF CacheOK, BoundBy
  <2>2. useBatch
    <3>1. SUFFICES ASSUME caches.batch = << >> PROVE FALSE
      BY <1>1 DEF CacheOK
    <3> QED
      BY <2>1, <3>1, EmptySeq
  <2> QED
    BY <1>1, <2>1, <2>2 DEF CacheOK
<1>16. SlotsOK' /\ OverOK' /\ Begins'
  BY <1>1, <1>4, <1>7 DEF SlotsOK, OverOK, Begins
<1> QED
  BY <1>10, <1>11, <1>13, <1>14, <1>15, <1>16 DEF IInv

(* A call has read its chunk when no row is left of it, or it has none.     *)
LEMMA ChunkReadStep ==
  ASSUME IInv, ChunkRead
  PROVE  IInv'
<1>1. /\ TypeOK /\ ChunkOK /\ CacheOK /\ SlotsOK /\ OverOK /\ pc = "fill" /\ pc' = "end"
      /\ Available = 0
      /\ UNCHANGED <<opts, total, reader, statement, buffers, caches, bound, arrived, status>>
  BY DEF IInv, ChunkRead
<1>2. reader.row = reader.size
  <2>1. reader.row \in Nat /\ reader.size \in Nat /\ last \in Nat /\ reader.row <= reader.size
        /\ (last = 0 => reader.size = 0)
    BY <1>1, OptionFacts DEF TypeOK, ChunkOK
  <2>2. last = 0 \/ reader.size - reader.row = 0
    BY <1>1, <2>1 DEF Available, Least
  <2> QED
    BY <2>1, <2>2
<1>3. TypeOK'
  BY <1>1 DEF TypeOK, buffers, statement, Rows
<1>4. ChunkOK'
  BY <1>1, <1>2 DEF ChunkOK, ReaderOK, statement, buffers
<1>5. BatchOK' /\ SingleOK' /\ Full' /\ BoundToRows'
  BY <1>1, Outside
<1>6. CacheOK' /\ SlotsOK' /\ OverOK' /\ Begins'
  BY <1>1 DEF CacheOK, BoundBy, SlotsOK, OverOK, Begins, buffers
<1> QED
  BY <1>3, <1>4, <1>5, <1>6 DEF IInv

(* The rows of a batch that is bound or executed: the next of the source.   *)
LEMMA BatchRows ==
  ASSUME TypeOK, ChunkOK, BatchOK, pc \in {"bind", "execute"}
  PROVE  /\ filled \in Nat /\ 0 < filled /\ filled <= Len(flat)
         /\ Base \in Nat /\ Base + filled = reader.from + reader.row /\ Base + filled <= total
         /\ \A i \in 1..filled : flat[i] = Base + i /\ flat[i] \in 1..MaxRows
         /\ flat \in Seq(Rows) /\ Len(flat) \in Nat /\ DOMAIN flat = 1..Len(flat)
         /\ ~Incomplete => filled = Len(flat)
<1>1. /\ VectorSize \in Nat /\ MaxRows \in Nat /\ total \in Nat /\ total <= MaxRows
  BY OptionFacts
<1>2. /\ reader.row <= reader.size /\ reader.from + reader.size = reader.at
      /\ reader.at <= reader.end /\ reader.end <= total
      /\ reader.from \in Nat /\ reader.row \in Nat /\ reader.size \in Nat
      /\ reader.at \in Nat /\ reader.end \in Nat
  BY DEF ChunkOK, ReaderOK, ReaderRec
<1>3. /\ 0 < filled /\ filled <= reader.row /\ filled <= Len(flat)
      /\ Len(flat) = last \/ Len(flat) = filled
  BY DEF BatchOK
<1>4. flat \in Seq(Rows) /\ Len(flat) \in Nat /\ DOMAIN flat = 1..Len(flat) /\ last \in Nat
  BY <1>1, LenProperties DEF TypeOK
<1>5. filled \in Nat
  BY <1>1 DEF TypeOK
<1>6. Base \in Nat /\ Base + filled = reader.from + reader.row /\ Base + filled <= total
  BY <1>1, <1>2, <1>3, <1>5 DEF Base
<1>7. ASSUME NEW i \in 1..filled
      PROVE  flat[i] = Base + i /\ flat[i] \in 1..MaxRows
  <2>1. flat[i] = Base + i
    BY DEF BatchOK
  <2> QED
    BY <1>1, <1>5, <1>6, <2>1
<1>8. ~Incomplete => filled = Len(flat)
  <2> DEFINE n == Len(flat)
  <2>1. SUFFICES ASSUME ~(filled < last) PROVE filled = n
    BY DEF Incomplete
  <2>2. n \in Nat /\ filled <= n /\ (n = last \/ n = filled)
    BY <1>3, <1>4
  <2> HIDE DEF n
  <2> QED
    BY <1>4, <1>5, <2>1, <2>2
<1> QED
  BY <1>3, <1>4, <1>5, <1>6, <1>7, <1>8

(* The statement for the tail has no more rows than there are, and it is    *)
(* one or as many.                                                          *)
LEMMA PrepareTailStep ==
  ASSUME IInv, PrepareTail
  PROVE  IInv'
<1> DEFINE n == BatchSizeForChunk(reader, filled)
<1>1. /\ TypeOK /\ ChunkOK /\ BatchOK /\ CacheOK /\ SlotsOK /\ OverOK /\ pc = "bind" /\ Incomplete
      /\ last' = n /\ prepared' = InsertQuery(n) /\ types' = n /\ useBatch' = (n > 1)
      /\ flat' = SubSeq(flat, 1, filled) /\ bound' = Freed(filled) /\ caches' = Empty
      /\ UNCHANGED <<opts, total, pc, reader, single, next, filled, arrived, status>>
  BY DEF IInv, PrepareTail
<1>2. /\ filled \in Nat /\ 0 < filled /\ filled <= Len(flat)
      /\ \A i \in 1..filled : flat[i] = Base + i
      /\ flat \in Seq(Rows) /\ Len(flat) \in Nat
  BY <1>1, BatchRows
<1>3. /\ useBatch /\ Len(arrived) = Base /\ next = 0 /\ reader.row = reader.size /\ filled <= reader.row
  BY <1>1 DEF BatchOK, Incomplete
<1>4. reader \in ReaderRec
  BY <1>1 DEF ChunkOK, ReaderOK
<1>5. n \in Nat /\ n <= opts.batch /\ 0 < n /\ n <= filled
  BY <1>1, <1>2, <1>4, BatchSizeFacts
<1>6. InsertQuery(n) \in 0..VectorSize /\ n \in 0..VectorSize
  BY <1>1, <1>5, InsertQueryFacts
<1> HIDE DEF n
<1>7. /\ flat' \in Seq(Rows) /\ Len(flat') = filled
      /\ \A i \in 1..filled : flat'[i] = flat[i]
  <2>1. \A i \in 1..filled : flat[i] \in Rows
    <3>1. SUFFICES ASSUME NEW i \in 1..filled PROVE flat[i] \in Rows
      OBVIOUS
    <3>2. i \in 1..Len(flat)
      BY <1>2
    <3> QED
      BY <1>2, <3>2, ElementOfSeq
  <2>2. /\ SubSeq(flat, 1, filled) \in Seq(Rows)
        /\ Len(SubSeq(flat, 1, filled)) = IF 1 <= filled THEN filled - 1 + 1 ELSE 0
        /\ \A i \in 1..(filled - 1 + 1) : SubSeq(flat, 1, filled)[i] = flat[1 + i - 1]
    BY <1>2, <2>1, SubSeqProperties
  <2>3. \A i \in 1..filled : flat[1 + i - 1] = flat[i] /\ i \in 1..(filled - 1 + 1)
    BY <1>2
  <2> QED
    BY <1>1, <1>2, <2>2, <2>3
<1>8. /\ DOMAIN bound' = DOMAIN bound
      /\ \A i \in DOMAIN bound : bound'[i] \in BindingRec
  BY <1>1, FreedFields
<1>9. /\ caches' \in [batch : Seq(Kinds), single : Seq(Kinds)]
      /\ caches'.batch = << >> /\ Len(caches'.batch) = 0
      /\ caches'.single = << >> /\ Len(caches'.single) = 0
  BY <1>1, EmptySeq DEF Empty
<1>10. TypeOK'
  <2>1. filled' <= Len(flat') /\ useBatch' \in BOOLEAN
    BY <1>1, <1>2, <1>7
  <2>2. {prepared', last', types', next', filled'} \subseteq 0..VectorSize
    BY <1>1, <1>6 DEF TypeOK
  <2> QED
    BY <1>1, <1>7, <1>8, <1>9, <2>1, <2>2 DEF TypeOK, BindingRec, Rows
<1>11. ChunkOK'
  BY <1>1, <1>5 DEF ChunkOK, ReaderOK
<1>12. BatchOK'
  <2>1. Base' = Base
    BY <1>1 DEF Base
  <2>2. ~Incomplete'
    BY <1>1, <1>2, <1>5 DEF Incomplete
  <2>3. ~(filled' < last')
    BY <1>1, <1>2, <1>5
  <2>4. filled' <= Len(flat')
    BY <1>1, <1>2, <1>7
  <2> QED
    BY <1>1, <1>2, <1>3, <1>7, <2>1, <2>2, <2>3, <2>4 DEF BatchOK
<1>13. SingleOK'
  <2>1. Base' = Base /\ Base \in Nat
    BY <1>1, BatchRows DEF Base
  <2>2. Len(arrived') = Base' + next' /\ next' < Len(flat')
    BY <1>1, <1>2, <1>3, <1>7, <2>1
  <2> QED
    BY <1>1, <2>2 DEF SingleOK
<1>14. CacheOK' /\ Full' /\ BoundToRows'
  <2>1. CacheOK'
    BY <1>2, <1>7, <1>9 DEF CacheOK
  <2> QED
    BY <1>1, <2>1 DEF Full, BoundToRows
<1>15. SlotsOK' /\ OverOK' /\ Begins'
  <2>1. Len(flat) <= VectorSize /\ VectorSize \in Nat
    BY <1>1, OptionFacts DEF SlotsOK
  <2> QED
    BY <1>1, <1>2, <1>7, <2>1 DEF SlotsOK, OverOK, Begins
<1> QED
  BY <1>10, <1>11, <1>12, <1>13, <1>14, <1>15 DEF IInv

(* A batch is bound to the values that its slots have now.                  *)
LEMMA BindBatchStep ==
  ASSUME IInv, BindBatch
  PROVE  IInv'
<1>1. /\ TypeOK /\ ChunkOK /\ BatchOK /\ CacheOK /\ SlotsOK /\ OverOK /\ pc = "bind"
      /\ ~Incomplete /\ useBatch /\ pc' = "execute"
      /\ bound' = Bindings("batch", caches.batch, flat)
      /\ caches' = [caches EXCEPT !.batch = Shapes(flat)]
      /\ UNCHANGED <<opts, total, reader, statement, buffers, arrived, status>>
  BY DEF IInv, BindBatch
<1> DEFINE n == Len(flat)
<1>2. /\ n \in 1..VectorSize /\ filled = n
      /\ flat \in [1..n -> 1..MaxRows] /\ DOMAIN flat = 1..n
  <2>1. /\ filled \in Nat /\ 0 < filled /\ filled = n /\ DOMAIN flat = 1..n
        /\ \A i \in 1..filled : flat[i] \in 1..MaxRows
        /\ flat \in Seq(Rows)
    BY <1>1, BatchRows
  <2>2. flat \in [1..n -> Rows]
    BY <2>1, LenProperties
  <2>3. n <= VectorSize
    BY <1>1 DEF SlotsOK
  <2>4. VectorSize \in Nat
    BY <1>1, OptionFacts
  <2> QED
    BY <2>1, <2>2, <2>3, <2>4
<1>3. Len(caches.batch) = n => BoundBy("batch", caches.batch)
  BY <1>1, <1>2 DEF CacheOK
<1>4. caches.batch \in Seq(Kinds) /\ caches.single \in Seq(Kinds)
      /\ caches \in [batch : Seq(Kinds), single : Seq(Kinds)]
  BY <1>1 DEF TypeOK
<1> HIDE DEF n
<1>5. /\ DOMAIN bound' = 1..n
      /\ \A i \in 1..n :
           /\ bound'[i] \in BindingRec
           /\ bound'[i].buf = "batch" /\ bound'[i].slot = i /\ bound'[i].kind = opts.kinds[flat[i]]
           /\ opts.kinds[flat[i]] = "var" => bound'[i].of = flat[i]
      /\ Shapes(flat) \in Seq(Kinds) /\ Len(Shapes(flat)) = n
      /\ \A i \in 1..n : Shapes(flat)[i] = opts.kinds[flat[i]]
  BY <1>1, <1>2, <1>3, <1>4, BindingsFields
<1>6. /\ caches' \in [batch : Seq(Kinds), single : Seq(Kinds)]
      /\ caches'.batch = Shapes(flat) /\ caches'.single = caches.single
  BY <1>1, <1>4, <1>5
<1>7. UNCHANGED <<flat, single, next, useBatch, filled>> /\ UNCHANGED <<prepared, last, types>>
  BY <1>1 DEF buffers, statement
<1>8. TypeOK'
  <2>1. DOMAIN bound' \subseteq 1..VectorSize
    BY <1>1, <1>2, <1>5, OptionFacts
  <2> QED
    BY <1>1, <1>5, <1>6, <1>7, <2>1 DEF TypeOK, BindingRec, Rows
<1>9. ChunkOK'
  BY <1>1, <1>7 DEF ChunkOK, ReaderOK
<1>10. BatchOK'
  BY <1>1, <1>7 DEF BatchOK, Base, Incomplete
<1>11. SingleOK' /\ Full'
  BY <1>1, <1>2, <1>7 DEF SingleOK, Full, n
<1>12. CacheOK'
  <2>1. BoundBy("batch", caches.batch)'
    <3>1. DOMAIN caches'.batch = 1..n
      BY <1>5, <1>6, LenProperties
    <3> QED
      BY <1>5, <1>6, <3>1 DEF BoundBy
  <2> QED
    BY <1>1, <1>7, <2>1 DEF CacheOK
<1>13. BoundToRows'
  <2>1. ToInsert' = flat
    BY <1>1, <1>7 DEF ToInsert
  <2> QED
    BY <1>1, <1>2, <1>5, <1>7, <2>1 DEF BoundToRows
<1>14. SlotsOK' /\ OverOK' /\ Begins'
  BY <1>1, <1>7 DEF SlotsOK, OverOK, Begins
<1> QED
  BY <1>8, <1>9, <1>10, <1>11, <1>12, <1>13, <1>14 DEF IInv

(* A single row is bound to the value it has now.                           *)
LEMMA BindSingleStep ==
  ASSUME IInv, BindSingle
  PROVE  IInv'
<1>1. /\ TypeOK /\ ChunkOK /\ BatchOK /\ SingleOK /\ CacheOK /\ SlotsOK /\ OverOK /\ pc = "bind"
      /\ ~useBatch /\ pc' = "execute"
      /\ single' = flat[next + 1] /\ next' = next + 1
      /\ bound' = Bindings("single", caches.single, <<single'>>)
      /\ caches' = [caches EXCEPT !.single = Shapes(<<single'>>)]
      /\ UNCHANGED <<opts, total, reader, statement, flat, useBatch, filled, arrived, status>>
  BY DEF IInv, BindSingle
<1> DEFINE rows == <<single'>>
<1>2. /\ Len(flat) = filled /\ ~Incomplete /\ Len(arrived) = Base + next /\ next < Len(flat)
      /\ next \in Nat /\ VectorSize \in Nat /\ Len(flat) <= VectorSize /\ VectorSize > 0
      /\ Len(flat) \in Nat
  BY <1>1, OptionFacts, BatchRows DEF BatchOK, SingleOK, SlotsOK, TypeOK
<1>3. single' \in 1..MaxRows
  <2>1. next + 1 \in 1..filled
    BY <1>2
  <2>2. \A i \in 1..filled : flat[i] \in 1..MaxRows
    BY <1>1, BatchRows
  <2> QED
    BY <1>1, <2>1, <2>2
<1>4. rows \in [1..1 -> 1..MaxRows] /\ rows[1] = single' /\ 1 \in 1..VectorSize /\ 1..1 = {1}
      /\ DOMAIN rows = 1..1
  BY <1>2, <1>3
<1>5. Len(caches.single) = 1 => BoundBy("single", caches.single)
  BY <1>1 DEF CacheOK
<1>6. caches.batch = << >> /\ caches.single \in Seq(Kinds)
      /\ caches \in [batch : Seq(Kinds), single : Seq(Kinds)]
  BY <1>1 DEF TypeOK, CacheOK
<1> HIDE DEF rows
<1>7. /\ DOMAIN bound' = 1..1
      /\ \A i \in 1..1 :
           /\ bound'[i] \in BindingRec
           /\ bound'[i].buf = "single" /\ bound'[i].slot = i /\ bound'[i].kind = opts.kinds[rows[i]]
           /\ opts.kinds[rows[i]] = "var" => bound'[i].of = rows[i]
      /\ Shapes(rows) \in Seq(Kinds) /\ Len(Shapes(rows)) = 1
      /\ \A i \in 1..1 : Shapes(rows)[i] = opts.kinds[rows[i]]
  <2> DEFINE one == 1
  <2>1. bound' = Bindings("single", caches.single, rows)
    BY <1>1 DEF rows
  <2>2. /\ one \in 1..VectorSize /\ rows \in [1..one -> 1..MaxRows]
        /\ Len(caches.single) = one => BoundBy("single", caches.single)
    BY <1>4, <1>5
  <2> HIDE DEF one
  <2>3. /\ DOMAIN bound' = 1..one
        /\ \A i \in 1..one :
             /\ bound'[i] \in BindingRec
             /\ bound'[i].buf = "single" /\ bound'[i].slot = i
             /\ bound'[i].kind = opts.kinds[rows[i]]
             /\ opts.kinds[rows[i]] = "var" => bound'[i].of = rows[i]
        /\ Shapes(rows) \in Seq(Kinds) /\ Len(Shapes(rows)) = one
        /\ \A i \in 1..one : Shapes(rows)[i] = opts.kinds[rows[i]]
    BY <1>1, <1>6, <2>1, <2>2, BindingsFields
  <2> QED
    BY <2>3 DEF one
<1>8. /\ caches' \in [batch : Seq(Kinds), single : Seq(Kinds)]
      /\ caches'.batch = << >> /\ caches'.single = Shapes(rows)
  <2>1. caches' = [caches EXCEPT !.single = Shapes(rows)]
    BY <1>1 DEF rows
  <2> QED
    BY <1>6, <1>7, <2>1
<1>9. UNCHANGED <<prepared, last, types>>
  BY <1>1 DEF statement
<1>10. TypeOK'
  <2>1. DOMAIN bound' \subseteq 1..VectorSize
    BY <1>4, <1>7
  <2>2. single' \in Rows
    BY <1>1, <1>3, OptionFacts DEF Rows
  <2>3. {prepared', last', types', next', filled'} \subseteq 0..VectorSize /\ filled' <= Len(flat')
    BY <1>1, <1>2, <1>9 DEF TypeOK
  <2> QED
    BY <1>1, <1>7, <1>8, <2>1, <2>2, <2>3 DEF TypeOK, BindingRec, Rows
<1>11. ChunkOK'
  BY <1>1, <1>9 DEF ChunkOK, ReaderOK
<1>12. BatchOK'
  BY <1>1, <1>9 DEF BatchOK, Base, Incomplete
<1>13. SingleOK'
  <2>1. Base' = Base /\ Base \in Nat
    BY <1>1, BatchRows DEF Base
  <2>2. Len(arrived') + 1 = Base' + next' /\ 0 < next' /\ next' <= Len(flat') /\ single' = flat'[next']
    BY <1>1, <1>2, <2>1
  <2> QED
    BY <1>1, <2>2 DEF SingleOK
<1>14. CacheOK'
  <2>1. BoundBy("single", caches.single)'
    <3>1. DOMAIN caches'.single = 1..1
      BY <1>7, <1>8, LenProperties
    <3> QED
      BY <1>7, <1>8, <3>1 DEF BoundBy
  <2> QED
    BY <1>1, <1>8, <2>1 DEF CacheOK
<1>15. BoundToRows'
  <2>1. ToInsert' = rows
    BY <1>1 DEF ToInsert, rows
  <2> QED
    BY <1>1, <1>4, <1>7, <2>1 DEF BoundToRows
<1>16. SlotsOK' /\ OverOK' /\ Begins' /\ Full'
  BY <1>1 DEF SlotsOK, OverOK, Begins, Full
<1> QED
  BY <1>10, <1>11, <1>12, <1>13, <1>14, <1>15, <1>16 DEF IInv

(* What the driver reads where its parameters are bound are the next rows   *)
(* of the source, as many as the statement takes.                           *)
LEMMA NextRowsInserted ==
  ASSUME IInv, Execute
  PROVE  /\ prepared \in 1..(total - Len(arrived))
         /\ prepared = IF useBatch THEN filled ELSE 1
         /\ arrived' = arrived \o [i \in 1..prepared |-> Len(arrived) + i]
         /\ arrived' \in Seq(Rows) /\ Len(arrived') = Len(arrived) + prepared
         /\ Len(arrived) \in Nat
<1>1. /\ TypeOK /\ ChunkOK /\ BatchOK /\ SingleOK /\ Full /\ BoundToRows /\ pc = "execute"
      /\ DOMAIN bound = 1..prepared
      /\ arrived' = arrived \o [i \in 1..prepared |-> ReadAt(bound[i])]
  BY DEF IInv, Execute
<1>2. /\ filled \in Nat /\ 0 < filled /\ filled <= Len(flat)
      /\ Base \in Nat /\ Base + filled <= total
      /\ \A i \in 1..filled : flat[i] = Base + i /\ flat[i] \in 1..MaxRows
      /\ DOMAIN flat = 1..Len(flat)
  BY <1>1, BatchRows
<1>3. /\ prepared \in Nat /\ next \in Nat /\ total \in Nat /\ total <= MaxRows /\ MaxRows \in Nat
      /\ arrived \in Seq(Rows) /\ Len(arrived) \in Nat
  BY <1>1, OptionFacts, LenProperties DEF TypeOK
<1> DEFINE m == IF useBatch THEN filled ELSE 1
<1>4. m \in Nat /\ 0 < m /\ DOMAIN ToInsert = 1..m
  <2>1. useBatch => filled = Len(flat)
    BY <1>1 DEF Full
  <2>2. CASE useBatch
    <3>1. ToInsert = flat /\ m = filled
      BY <2>2 DEF ToInsert
    <3> QED
      BY <1>2, <2>1, <2>2, <3>1
  <2>3. CASE ~useBatch
    <3>1. ToInsert = <<single>> /\ m = 1
      BY <2>3 DEF ToInsert
    <3> QED
      BY <3>1
  <2> QED
    BY <2>2, <2>3
<1> HIDE DEF m
<1>5. prepared = m
  <2>1. 1..prepared = 1..m
    BY <1>1, <1>4 DEF BoundToRows
  <2>2. m \in Nat /\ 0 < m
    BY <1>4
  <2>3. m \in 1..prepared
    <3>1. m \in 1..m
      BY <2>2
    <3> QED
      BY <2>1, <3>1
  <2>4. prepared \in 1..m
    <3>1. prepared \in 1..prepared
      BY <1>3, <2>2, <2>3
    <3> QED
      BY <2>1, <3>1
  <2> QED
    BY <1>3, <2>2, <2>3, <2>4
<1>6. /\ m <= total - Len(arrived)
      /\ \A i \in 1..m : ReadAt(bound[i]) = Len(arrived) + i
  <2>1. CASE useBatch
    <3>1. m = filled /\ filled = Len(flat) /\ Len(arrived) = Base /\ ToInsert = flat
      BY <1>1, <2>1 DEF Full, BatchOK, ToInsert, m
    <3>2. ASSUME NEW i \in 1..filled
          PROVE  ReadAt(bound[i]) = Base + i
      <4>1. i \in DOMAIN bound
        BY <1>1, <1>5, <3>1
      <4>2. bound[i].buf = "batch" /\ bound[i].slot = i
        BY <1>1, <2>1, <4>1 DEF BoundToRows
      <4>3. ReadAt(bound[i]) = flat[i]
        BY <4>2 DEF ReadAt
      <4> QED
        BY <1>2, <4>3
    <3> QED
      BY <1>2, <1>3, <3>1, <3>2
  <2>2. CASE ~useBatch
    <3>1. /\ m = 1 /\ Len(flat) = filled /\ ToInsert = <<single>>
          /\ Len(arrived) + 1 = Base + next /\ 0 < next /\ next <= Len(flat)
          /\ single = flat[next]
      BY <1>1, <2>2 DEF BatchOK, SingleOK, ToInsert, m
    <3>2. flat[next] = Base + next
      <4>1. next \in 1..filled
        BY <1>2, <1>3, <3>1
      <4> QED
        BY <1>2, <4>1
    <3>3. 1 \in DOMAIN bound
      BY <1>1, <1>5, <3>1
    <3>4. bound[1].buf = "single"
      BY <1>1, <2>2, <3>3 DEF BoundToRows
    <3>5. ReadAt(bound[1]) = Len(arrived) + 1
      BY <3>1, <3>2, <3>4 DEF ReadAt
    <3>6. 1..m = {1}
      BY <3>1
    <3>7. m <= total - Len(arrived)
      BY <1>2, <1>3, <3>1
    <3> QED
      BY <3>5, <3>6, <3>7
  <2> QED
    BY <2>1, <2>2
<1>7. prepared \in 1..(total - Len(arrived))
  BY <1>3, <1>4, <1>5, <1>6
<1> DEFINE new == [i \in 1..prepared |-> Len(arrived) + i]
<1>8. arrived' = arrived \o new
  BY <1>1, <1>5, <1>6
<1>9. new \in Seq(Rows) /\ Len(new) = prepared
  <2>1. new \in [1..prepared -> Rows]
    BY <1>3, <1>7 DEF Rows
  <2> HIDE DEF new
  <2> QED
    BY <1>3, <2>1, FunctionSeq
<1> HIDE DEF new
<1>10. arrived' \in Seq(Rows) /\ Len(arrived') = Len(arrived) + prepared
  BY <1>3, <1>8, <1>9, ConcatProperties
<1> QED
  BY <1>3, <1>5, <1>7, <1>8, <1>10 DEF new, m

(* The rows that were executed have arrived, and the single rows that are   *)
(* left are bound next.                                                     *)
LEMMA ExecuteStep ==
  ASSUME IInv, Execute
  PROVE  IInv'
<1>1. /\ TypeOK /\ ChunkOK /\ BatchOK /\ SingleOK /\ CacheOK /\ SlotsOK /\ OverOK /\ pc = "execute"
      /\ UNCHANGED <<opts, total, reader, statement, flat, single, next, useBatch, caches, bound,
                     status>>
      /\ pc' \in {"fill", "bind"}
      /\ pc' = "fill" => filled' = 0 /\ (useBatch \/ next >= Len(flat))
      /\ pc' = "bind" => filled' = filled /\ ~useBatch /\ ~(next >= Len(flat))
  BY DEF IInv, Execute
<1>2. /\ arrived' \in Seq(Rows) /\ Len(arrived') = Len(arrived) + prepared /\ Len(arrived) \in Nat
      /\ prepared = IF useBatch THEN filled ELSE 1
  BY NextRowsInserted
<1>3. /\ filled \in Nat /\ 0 < filled /\ filled <= Len(flat) /\ Len(flat) \in Nat
      /\ Base \in Nat /\ Base + filled = reader.from + reader.row
  BY <1>1, BatchRows
<1>4. /\ useBatch => Len(arrived) = Base
      /\ ~useBatch => /\ Len(flat) = filled /\ Len(arrived) + 1 = Base + next
                      /\ 0 < next /\ next <= Len(flat)
      /\ Len(flat) = last \/ reader.row = reader.size
      /\ next \in Nat
  <2>1. next \in Nat
    BY <1>1, OptionFacts DEF TypeOK
  <2>2. /\ useBatch => Len(arrived) = Base
        /\ ~useBatch => Len(flat) = filled
        /\ Len(flat) = last \/ reader.row = reader.size
    BY <1>1 DEF BatchOK
  <2>3. ~useBatch => Len(arrived) + 1 = Base + next /\ 0 < next /\ next <= Len(flat)
    BY <1>1 DEF SingleOK
  <2> QED
    BY <2>1, <2>2, <2>3
<1>5. TypeOK'
  <2>1. filled' \in 0..VectorSize /\ filled' <= Len(flat')
    <3>1. filled' = 0 \/ filled' = filled
      BY <1>1
    <3>2. filled \in 0..VectorSize /\ VectorSize \in Nat /\ flat' = flat
      BY <1>1, OptionFacts DEF TypeOK
    <3> QED
      BY <1>3, <3>1, <3>2
  <2>2. /\ opts' \in Options /\ total' \in Rows
        /\ pc' \in {"open", "call", "fill", "bind", "execute", "end", "over"}
        /\ {prepared', last', types', next', filled'} \subseteq 0..VectorSize
        /\ status' \in {"running", "completed", "failed"}
        /\ arrived' \in Seq(Rows)
    BY <1>1, <1>2, <2>1 DEF TypeOK, statement, Rows
  <2> QED
    BY <1>1, <2>1, <2>2 DEF TypeOK, Rows
<1>6. ChunkOK'
  <2>1. CASE pc' = "fill"
    <3>1. Len(arrived') = Base + filled
      BY <1>1, <1>2, <1>3, <1>4, <2>1
    <3> QED
      BY <1>1, <1>3, <1>4, <2>1, <3>1 DEF ChunkOK, ReaderOK, statement
  <2>2. CASE pc' = "bind"
    BY <1>1, <2>2 DEF ChunkOK, ReaderOK, statement
  <2> QED
    BY <1>1, <2>1, <2>2
<1>7. BatchOK' /\ SingleOK'
  <2>1. CASE pc' = "fill"
    BY <2>1, Outside
  <2>2. CASE pc' = "bind"
    <3>1. Base' = Base
      BY <1>1, <2>2 DEF Base
    <3>2. Len(arrived') = Base + next /\ next < Len(flat)
      BY <1>1, <1>2, <1>3, <1>4, <2>2
    <3>3. BatchOK'
      BY <1>1, <2>2, <3>1 DEF BatchOK, Incomplete, statement
    <3> QED
      BY <1>1, <2>2, <3>1, <3>2, <3>3 DEF SingleOK
  <2> QED
    BY <1>1, <2>1, <2>2
<1>8. CacheOK' /\ Full' /\ BoundToRows'
  BY <1>1 DEF CacheOK, BoundBy, Full, BoundToRows
<1>9. SlotsOK' /\ OverOK' /\ Begins'
  BY <1>1 DEF SlotsOK, OverOK, Begins
<1> QED
  BY <1>5, <1>6, <1>7, <1>8, <1>9 DEF IInv

(* The next chunk begins behind the rows that have arrived.                 *)
LEMMA EndCallStep ==
  ASSUME IInv, EndCall
  PROVE  IInv'
<1>1. PICK r \in NextChunk(reader) :
        /\ ~r.exhausted
        /\ reader' = [r EXCEPT !.row = 0]
        /\ IF BatchSizeForChunk(r, 0) # last
             THEN /\ last' = BatchSizeForChunk(r, 0)
                  /\ prepared' = InsertQuery(BatchSizeForChunk(r, 0))
                  /\ types' = prepared'
                  /\ caches' = Empty
             ELSE UNCHANGED <<statement, caches>>
  BY DEF EndCall
<1>2. /\ TypeOK /\ ChunkOK /\ CacheOK /\ SlotsOK /\ OverOK /\ pc = "end" /\ pc' = "call"
      /\ UNCHANGED <<opts, total, buffers, bound, arrived, status>>
  BY DEF IInv, EndCall
<1>3. /\ ReaderOK(reader) /\ reader.from + reader.size = reader.at
      /\ Len(arrived) = reader.from + reader.row /\ reader.row = reader.size
  BY <1>2 DEF ChunkOK, ReaderOK
<1>4. ReaderOK(r) /\ r.from = reader.at
  BY <1>1, <1>2, <1>3, NextChunkOK
<1> DEFINE n == BatchSizeForChunk(r, 0)
<1>5. n \in Nat /\ n <= opts.batch /\ (n = 0 => r.size = 0)
  BY <1>2, <1>4, BatchSizeFacts DEF ReaderOK
<1>6. InsertQuery(n) \in 0..VectorSize /\ n \in 0..VectorSize
  BY <1>2, <1>5, InsertQueryFacts
<1>7. /\ last' = n /\ {prepared', last', types'} \subseteq 0..VectorSize
      /\ caches' = Empty \/ caches' = caches
  BY <1>1, <1>2, <1>6 DEF TypeOK, statement
<1> HIDE DEF n
<1>8. /\ reader' \in ReaderRec /\ reader'.row = 0
      /\ reader'.from = r.from /\ reader'.size = r.size /\ reader'.count = r.count
      /\ reader'.at = r.at /\ reader'.end = r.end /\ reader'.offset = r.offset
      /\ reader'.exhausted = r.exhausted
  <2> DEFINE zero == 0
  <2>1. r \in ReaderRec /\ reader' = [r EXCEPT !.row = zero] /\ zero \in Nat
    BY <1>1, <1>4 DEF ReaderOK
  <2> HIDE DEF zero
  <2>2. /\ reader' \in ReaderRec /\ reader'.row = zero
        /\ reader'.from = r.from /\ reader'.size = r.size /\ reader'.count = r.count
        /\ reader'.at = r.at /\ reader'.end = r.end /\ reader'.offset = r.offset
        /\ reader'.exhausted = r.exhausted
    BY <2>1 DEF ReaderRec
  <2> QED
    BY <2>2 DEF zero
<1>9. ReaderOK(reader)' /\ (reader.row <= reader.size)'
  <2>1. ReaderOK(reader)'
    BY <1>2, <1>4, <1>8 DEF ReaderOK
  <2> QED
    BY <1>8, <2>1 DEF ReaderRec
<1>10. TypeOK'
  <2>1. /\ r \in [from : Rows, size : 0..VectorSize, row : Nat, count : Nat,
                  at : Rows, end : Rows, offset : Nat, exhausted : BOOLEAN]
    BY <1>2, <1>4, ReaderTypes
  <2>2. reader' \in [from : Rows, size : 0..VectorSize, row : Nat, count : Nat,
                     at : Rows, end : Rows, offset : Nat, exhausted : BOOLEAN]
    <3>1. /\ r.from \in Rows /\ r.size \in 0..VectorSize
          /\ r.at \in Rows /\ r.end \in Rows
      BY <2>1
    <3>2. /\ reader'.from \in Rows /\ reader'.size \in 0..VectorSize
          /\ reader'.at \in Rows /\ reader'.end \in Rows
      BY <1>8, <3>1
    <3> QED
      BY <1>8, <3>2 DEF ReaderRec
  <2>3. caches' \in [batch : Seq(Kinds), single : Seq(Kinds)]
    <3>1. << >> \in Seq(Kinds)
      BY EmptySeq
    <3>2. Empty \in [batch : Seq(Kinds), single : Seq(Kinds)]
      BY <3>1 DEF Empty
    <3>3. caches \in [batch : Seq(Kinds), single : Seq(Kinds)]
      BY <1>2 DEF TypeOK
    <3> QED
      BY <1>7, <3>2, <3>3
  <2>4. /\ UNCHANGED <<flat, single, next, useBatch, filled, bound, arrived, status, opts, total>>
        /\ pc' = "call"
    BY <1>2 DEF buffers
  <2>5. {prepared', last', types', next', filled'} \subseteq 0..VectorSize
    BY <1>2, <1>7, <2>4 DEF TypeOK
  <2> QED
    BY <1>2, <1>9, <2>2, <2>3, <2>4, <2>5 DEF TypeOK, Rows
<1>11. ChunkOK'
  BY <1>2, <1>3, <1>4, <1>5, <1>7, <1>8, <1>9 DEF ChunkOK
<1>12. BatchOK' /\ SingleOK' /\ Full' /\ BoundToRows'
  BY <1>2, Outside
<1>13. CacheOK'
  <2>1. CASE caches' = caches
    BY <1>2, <2>1 DEF CacheOK, BoundBy, buffers
  <2>2. CASE caches' = Empty
    BY <2>2, EmptySeq DEF CacheOK, Empty
  <2> QED
    BY <1>7, <2>1, <2>2
<1>14. SlotsOK' /\ OverOK' /\ Begins'
  BY <1>2 DEF SlotsOK, OverOK, Begins, buffers
<1> QED
  BY <1>10, <1>11, <1>12, <1>13, <1>14 DEF IInv

(* At the end of the source every row has arrived.                          *)
LEMMA CompleteStep ==
  ASSUME IInv, Complete
  PROVE  IInv' /\ Len(arrived) = total
<1>1. PICK r \in NextChunk(reader) : r.exhausted /\ reader' = r
  BY DEF Complete
<1>2. /\ TypeOK /\ ChunkOK /\ CacheOK /\ SlotsOK /\ OverOK /\ pc = "end" /\ pc' = "over"
      /\ status' = "completed"
      /\ UNCHANGED <<opts, total, statement, buffers, caches, bound, arrived>>
  BY DEF IInv, Complete
<1>3. /\ ReaderOK(reader) /\ reader.from + reader.size = reader.at
      /\ Len(arrived) = reader.from + reader.row /\ reader.row = reader.size
  BY <1>2 DEF ChunkOK, ReaderOK
<1>4. ReaderOK(r) /\ r.row = reader.row /\ reader.at = total /\ r.size = reader.size
  BY <1>1, <1>2, <1>3, NextChunkOK
<1>5. TypeOK'
  <2>1. r \in [from : Rows, size : 0..VectorSize, row : Nat, count : Nat,
               at : Rows, end : Rows, offset : Nat, exhausted : BOOLEAN]
    BY <1>2, <1>4, ReaderTypes
  <2>2. r.row <= r.size
    BY <1>3, <1>4 DEF ReaderOK, ReaderRec
  <2> QED
    BY <1>1, <1>2, <2>1, <2>2 DEF TypeOK, buffers, statement, Rows
<1>6. BatchOK' /\ SingleOK' /\ Full' /\ BoundToRows'
  BY <1>2, Outside
<1>7. CacheOK' /\ SlotsOK' /\ OverOK' /\ Begins'
  BY <1>2 DEF CacheOK, BoundBy, SlotsOK, OverOK, Begins, buffers
<1> QED
  BY <1>2, <1>3, <1>4, <1>5, <1>6, <1>7 DEF IInv

-----------------------------------------------------------------------------
(* The theorems.                                                            *)

(* A copy begins with nothing read, bound or inserted.                      *)
THEOREM InitIInv == Init => IInv
<1> SUFFICES ASSUME Init PROVE IInv
  OBVIOUS
<1> USE DEF Init
<1>1. VectorSize \in Nat /\ MaxRows \in Nat
  BY BatchingAssumption
<1>2. /\ << >> \in Seq(Rows) /\ Len(<< >>) = 0 /\ << >> \in Seq(Kinds)
      /\ DOMAIN << >> = {}
  BY EmptySeq, LenProperties
<1>3. 0 \in Rows /\ 0 \in 0..VectorSize /\ 0 \in Nat
  BY <1>1 DEF Rows
<1>4. TypeOK
  <2> DEFINE zero == 0
  <2>1. zero \in Rows /\ zero \in 0..VectorSize /\ zero \in Nat /\ zero <= zero
    BY <1>3
  <2>2. reader = [from |-> zero, size |-> zero, row |-> zero, count |-> zero,
                  at |-> zero, end |-> zero, offset |-> zero, exhausted |-> FALSE]
    BY DEF ClosedReader
  <2>3. {prepared, last, types, next, filled} \subseteq 0..VectorSize
    BY <1>3
  <2> HIDE DEF zero
  <2>4. /\ reader \in [from : Rows, size : 0..VectorSize, row : Nat, count : Nat,
                       at : Rows, end : Rows, offset : Nat, exhausted : BOOLEAN]
        /\ reader.row <= reader.size
    BY <2>1, <2>2
  <2>5. caches \in [batch : Seq(Kinds), single : Seq(Kinds)]
    BY <1>2 DEF Empty
  <2> QED
    BY <1>1, <1>2, <1>3, <2>3, <2>4, <2>5 DEF TypeOK
<1>5. CacheOK
  BY <1>2 DEF CacheOK
<1>6. BatchOK /\ SingleOK /\ Full /\ SlotsOK /\ OverOK /\ Begins /\ BoundToRows
  BY <1>1, <1>2 DEF BatchOK, SingleOK, Full, SlotsOK, OverOK, Begins, BoundToRows
<1> QED
  BY <1>4, <1>5, <1>6 DEF IInv

(* Each step of the calls of Copy keeps reader, buffers, bindings and rows  *)
(* in step.                                                                 *)
THEOREM StepIInv == IInv /\ [Next]_vars => IInv'
<1> SUFFICES ASSUME IInv, [Next]_vars PROVE IInv'
  OBVIOUS
<1>1. CASE Open
  BY <1>1, OpenStep
<1>2. CASE OpenEmpty
  BY <1>2, FailsStep DEF OpenEmpty
<1>3. CASE BeginCall
  BY <1>3, BeginCallStep
<1>4. CASE ReadRows
  BY <1>4, ReadRowsStep
<1>5. CASE ChunkRead
  BY <1>5, ChunkReadStep
<1>6. CASE PrepareTail
  BY <1>6, PrepareTailStep
<1>7. CASE BindBatch
  BY <1>7, BindBatchStep
<1>8. CASE BindRefused
  BY <1>8, FailsStep DEF BindRefused
<1>9. CASE BindSingle
  BY <1>9, BindSingleStep
<1>10. CASE Execute
  BY <1>10, ExecuteStep
<1>11. CASE ExecuteRefused
  BY <1>11, FailsStep DEF ExecuteRefused
<1>12. CASE EndCall
  BY <1>12, EndCallStep
<1>13. CASE Complete
  BY <1>13, CompleteStep
<1>14. CASE UNCHANGED vars
  <2> USE <1>14 DEF vars, buffers, statement
  <2>1. TypeOK'
    BY DEF IInv, TypeOK, Rows
  <2>2. (pc \notin {"open", "over"} => ChunkOK)'
    BY DEF IInv, ChunkOK, ReaderOK
  <2>3. BatchOK' /\ SingleOK'
    BY DEF IInv, BatchOK, SingleOK, Base, Incomplete
  <2>4. CacheOK'
    BY DEF IInv, CacheOK, BoundBy
  <2>5. BoundToRows'
    BY DEF IInv, BoundToRows, ToInsert
  <2>6. Full' /\ SlotsOK' /\ OverOK' /\ Begins'
    BY DEF IInv, Full, SlotsOK, OverOK, Begins
  <2> QED
    BY <2>1, <2>2, <2>3, <2>4, <2>5, <2>6 DEF IInv
<1> QED
  BY <1>1, <1>2, <1>3, <1>4, <1>5, <1>6, <1>7, <1>8, <1>9, <1>10, <1>11, <1>12, <1>13, <1>14
     DEF Next

(* The invariant holds throughout.                                          *)
THEOREM AlwaysIInv == Spec => []IInv
BY InitIInv, StepIInv, PTL DEF Spec

(* The variables keep their types: no chunk, batch or statement is larger   *)
(* than a chunk of the source, and no reader is beyond its chunk.           *)
THEOREM TypeCorrect == Spec => []TypeOK
<1>1. IInv => TypeOK
  BY DEF IInv
<1> QED
  BY <1>1, AlwaysIInv, PTL

(* When SQLExecute runs, the parameters bound are those of the rows to      *)
(* insert, whatever bindings the caches of the copy have kept.              *)
THEOREM BindingsAreFresh == Spec => []BoundToRows
<1>1. IInv => BoundToRows
  BY DEF IInv
<1> QED
  BY <1>1, AlwaysIInv, PTL

(* The copy implements a transfer of rows: SQLExecute makes the next rows   *)
(* arrive, the row with completed = TRUE comes when all have, and all other *)
(* steps are stutters or end in failure.                                    *)
THEOREM TransferImplemented == Spec => ImplementsTransfer
<1>1. Init => Abstract!TransferInit
  BY BatchingAssumption DEF Init, Rows, Abstract!TransferInit
<1> DEFINE Steps == Abstract!Arrive \/ Abstract!Finish \/ Abstract!Fail
<1>2. IInv /\ [Next]_vars => [Steps]_(Abstract!transferVars)
  <2> SUFFICES ASSUME IInv, [Next]_vars PROVE [Steps]_(Abstract!transferVars)
    OBVIOUS
  <2>1. ASSUME UNCHANGED <<total, arrived, status>>
        PROVE  [Steps]_(Abstract!transferVars)
    BY <2>1 DEF Abstract!transferVars
  <2>2. ASSUME pc # "over", Fails, UNCHANGED <<total, arrived>>
        PROVE  Steps
    BY <2>2 DEF IInv, OverOK, TypeOK, Fails, Abstract!Fail
  <2>3. CASE Open
    BY <2>1, <2>3 DEF Open
  <2>4. CASE OpenEmpty
    BY <2>2, <2>4 DEF OpenEmpty
  <2>5. CASE BeginCall
    BY <2>1, <2>5 DEF BeginCall
  <2>6. CASE ReadRows
    BY <2>1, <2>6 DEF ReadRows
  <2>7. CASE ChunkRead
    BY <2>1, <2>7 DEF ChunkRead
  <2>8. CASE PrepareTail
    BY <2>1, <2>8 DEF PrepareTail
  <2>9. CASE BindBatch
    BY <2>1, <2>9 DEF BindBatch
  <2>10. CASE BindRefused
    BY <2>2, <2>10 DEF BindRefused
  <2>11. CASE BindSingle
    BY <2>1, <2>11 DEF BindSingle
  <2>12. CASE Execute
    <3>1. /\ prepared \in 1..(total - Len(arrived))
          /\ arrived' = arrived \o [i \in 1..prepared |-> Len(arrived) + i]
      BY <2>12, NextRowsInserted
    <3>2. status = "running" /\ UNCHANGED <<total, status>>
      BY <2>12 DEF Execute, IInv, OverOK
    <3>3. Abstract!Arrive
      BY <3>1, <3>2 DEF Abstract!Arrive
    <3> QED
      BY <3>3
  <2>13. CASE ExecuteRefused
    BY <2>2, <2>13 DEF ExecuteRefused
  <2>14. CASE EndCall
    BY <2>1, <2>14 DEF EndCall
  <2>15. CASE Complete
    <3>1. Len(arrived) = total
      BY <2>15, CompleteStep
    <3>2. status = "running" /\ status' = "completed" /\ UNCHANGED <<total, arrived>>
      BY <2>15 DEF Complete, IInv, OverOK
    <3> QED
      BY <3>1, <3>2 DEF Abstract!Finish
  <2>16. CASE UNCHANGED vars
    BY <2>1, <2>16 DEF vars
  <2> QED
    BY <2>3, <2>4, <2>5, <2>6, <2>7, <2>8, <2>9, <2>10, <2>11, <2>12, <2>13, <2>14, <2>15, <2>16
       DEF Next
<1> QED
  BY <1>1, <1>2, AlwaysIInv, PTL DEF Spec, ImplementsTransfer, Abstract!TransferSpec

=============================================================================
