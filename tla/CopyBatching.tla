--------------------------- MODULE CopyBatching ---------------------------
(***************************************************************************)
(* The way of the rows through odbc_copy (odbc_copy.cpp): the source is    *)
(* read in chunks, possibly from a series of LIMIT/OFFSET queries, chunks  *)
(* are cut into batches, a batch is bound to a prepared INSERT with as     *)
(* many rows of parameters, and the remainder of a chunk to another one,   *)
(* or row by row to the user's dest_query_single.                          *)
(*                                                                         *)
(* Rows have one column.  Calls of the driver or the source that fail for  *)
(* a reason of their own are in CopyTransaction; here a call fails because *)
(* the statement does not fit the rows.                                    *)
(***************************************************************************)
EXTENDS Naturals, Sequences

CONSTANTS
  VectorSize,  (* rows of a full chunk: 2048 in the program                 *)
  MaxRows,     (* bound: rows of a source                                   *)
  BatchSizes,  (* values of batch_size                                      *)
  Limits,      (* values of source_limit; 0: no limit                       *)
  Patterns     (* for each row the kind of its value: how it is bound       *)

Kinds == {"null", "fixed", "var"}

(* ExtractInsertOptions and ExtractReaderOptions refuse other values.       *)
ASSUME BatchingAssumption ==
  /\ VectorSize \in Nat \ {0}
  /\ MaxRows \in Nat
  /\ BatchSizes \subseteq {b \in 1..VectorSize : VectorSize % b = 0}
  /\ \A l \in Limits : l \in Nat /\ \E k \in 0..l : l = k * VectorSize
  /\ Patterns \subseteq [1..MaxRows -> Kinds]

(* The destination: a generated INSERT (dest_table), the user's dest_query  *)
(* for a full batch, or that with a dest_query_single for one row.          *)
Options == [dest : {"table", "query", "both"}, batch : BatchSizes,
            limit : Limits, kinds : Patterns]

VARIABLES
  opts,      (* the options in BindData                                     *)
  total,     (* rows of the source                                          *)
  pc,        (* where the calls of Copy stand                               *)
  reader,    (* SourceReader: from (row before the chunk), size (0: none),  *)
             (* row (row_idx), count (chunks_count), at and end (what of the *)
             (* current result is fetched, and its end), offset, exhausted  *)
  prepared,  (* rows the prepared statement has parameters for              *)
  last,      (* last_prepared_batch_size                                    *)
  types,     (* rows that param_types covers                                *)
  flat,      (* flat_batch: the row in each slot, 0: none                   *)
  single,    (* single_row_buf                                              *)
  next,      (* flat_batch_idx, in rows                                     *)
  useBatch,  (* use_batch_insert                                            *)
  filled,    (* row_idx: rows of the batch that is assembled or executed    *)
  caches,    (* the shapes in batch_bind_cache and single_row_bind_cache    *)
  bound,     (* the driver's bindings: parameter -> buffer, slot, kind, row *)
  arrived,   (* the rows inserted at the destination, in order              *)
  status     (* "running", "completed" or "failed"                          *)

buffers == <<flat, single, next, useBatch, filled>>
statement == <<prepared, last, types>>
vars == <<opts, total, pc, reader, statement, buffers, caches, bound, arrived, status>>

Rows == 0..MaxRows
Least(m, n) == IF m =< n THEN m ELSE n

(* Every variable has its type; the reader is never beyond its chunk, nor a *)
(* batch beyond its buffer.                                                 *)
TypeOK ==
  /\ opts \in Options
  /\ total \in Rows
  /\ pc \in {"open", "call", "fill", "bind", "execute", "end", "over"}
  /\ reader \in [from : Rows, size : 0..VectorSize, row : Nat, count : Nat,
                 at : Rows, end : Rows, offset : Nat, exhausted : BOOLEAN]
  /\ reader.row =< reader.size
  /\ {prepared, last, types, next, filled} \subseteq 0..VectorSize
  /\ flat \in Seq(Rows)
  /\ filled =< Len(flat)
  /\ single \in Rows
  /\ useBatch \in BOOLEAN
  /\ caches \in [batch : Seq(Kinds), single : Seq(Kinds)]
  /\ DOMAIN bound \subseteq 1..VectorSize
  /\ \A i \in DOMAIN bound :
       bound[i] \in [buf : {"batch", "single", "freed"}, slot : 1..VectorSize,
                     kind : Kinds, of : Rows]
  /\ arrived \in Seq(Rows)
  /\ status \in {"running", "completed", "failed"}

-----------------------------------------------------------------------------
(* SourceReader.                                                            *)

(* ExecuteSelect: the result is rows at + 1 .. end.                         *)
Executed(r) ==
  IF opts.limit = 0
    THEN [r EXCEPT !.at = 0, !.end = total]
    ELSE [r EXCEPT !.at = Least(r.offset, total),
                   !.end = Least(r.offset + opts.limit, total),
                   !.offset = @ + opts.limit]

(* duckdb_fetch_chunk.  The source database runs with threads = 1: chunks   *)
(* of its results are full, but for the last one.  A prep query among the   *)
(* source_queries can set it otherwise.                                     *)
ChunkSizes(r) ==
  LET most == Least(VectorSize, r.end - r.at)
  IN  IF opts.limit = 0 THEN 1..most ELSE {most}

Fetched(r) ==
  {[r EXCEPT !.from = r.at, !.at = @ + n, !.size = n, !.count = @ + 1] : n \in ChunkSizes(r)}

(* faulty variant: a full result is taken for the last one *)
LastResult_Full(r) == opts.limit = 0 \/ r.size * r.count =< opts.limit

(* A result with fewer rows than the limit is the last one.                 *)
LastResult(r) == opts.limit = 0 \/ r.size * r.count < opts.limit

(* NextChunkInternal.                                                       *)
NextChunk(r) ==
  LET more == [Executed(r) EXCEPT !.count = 0]
  IN  IF r.exhausted THEN {r}
      ELSE IF r.at < r.end THEN Fetched(r)
      ELSE IF LastResult(r) THEN {[r EXCEPT !.exhausted = TRUE]}
      ELSE IF more.at < more.end THEN Fetched(more)
      ELSE {[more EXCEPT !.exhausted = TRUE]}

ClosedReader == [from |-> 0, size |-> 0, row |-> 0, count |-> 0,
                 at |-> 0, end |-> 0, offset |-> 0, exhausted |-> FALSE]

-----------------------------------------------------------------------------
(* Statements.                                                              *)

BatchSizeForChunk(r, rows) ==
  LET avail == IF rows > 0 THEN rows ELSE r.size
  IN  CASE opts.batch =< avail -> opts.batch
        [] opts.batch > avail /\ opts.dest = "both" -> 1
        [] OTHER -> avail

(* faulty variant: dest_query_single is never used *)
InsertQuery_NoSingle(n) == IF opts.dest = "table" THEN n ELSE opts.batch

(* BuildInsertQuery: rows of parameters of the statement for n rows.        *)
InsertQuery(n) ==
  CASE opts.dest = "table" -> n
    [] opts.dest = "both" /\ n = 1 -> 1
    [] OTHER -> opts.batch

Empty == [batch |-> << >>, single |-> << >>]

(* The driver's bindings into flat_batch beyond its first n slots dangle.   *)
Freed(n) ==
  [i \in DOMAIN bound |->
     IF bound[i].buf = "batch" /\ bound[i].slot > n
       THEN [bound[i] EXCEPT !.buf = "freed"] ELSE bound[i]]

-----------------------------------------------------------------------------
Init ==
  /\ opts \in Options
  /\ total \in Rows
  /\ pc = "open"
  /\ reader = ClosedReader
  /\ prepared = 0 /\ last = 0 /\ types = 0
  /\ flat = << >> /\ single = 0 /\ next = 0 /\ useBatch = TRUE /\ filled = 0
  /\ caches = Empty
  /\ bound = << >>
  /\ arrived = << >>
  /\ status = "running"

Fails == pc' = "over" /\ status' = "failed"

(* The first call: OpenReader and the first PrepareInsert; param_types are  *)
(* as many as the statement has.                                            *)
Open ==
  /\ pc = "open"
  /\ \E r \in NextChunk(Executed(ClosedReader)) :
       LET n == BatchSizeForChunk(r, 0) IN
       /\ reader' = r
       /\ last' = n
       /\ prepared' = InsertQuery(n)
       /\ types' = prepared'
       /\ pc' = "call"
  /\ UNCHANGED <<opts, total, buffers, caches, bound, arrived, status>>

(* An empty source has no columns: the CREATE TABLE or INSERT generated for *)
(* it is not SQL, which the driver may find out now, or at no time.         *)
OpenEmpty ==
  /\ pc = "open" /\ total = 0 /\ opts.dest = "table"
  /\ Fails
  /\ UNCHANGED <<opts, total, reader, statement, buffers, caches, bound, arrived>>

(* Every call of CopyInTransaction adapts flat_batch to the statement.      *)
BeginCall ==
  /\ pc = "call"
  /\ pc' = "fill"
  /\ IF Len(flat) # last
       THEN /\ flat' = [i \in 1..last |-> 0]
            /\ bound' = Freed(0)
            /\ caches' = [caches EXCEPT !.batch = << >>]
       ELSE UNCHANGED <<flat, bound, caches>>
  /\ UNCHANGED <<opts, total, reader, statement, single, next, useBatch, filled, arrived, status>>

Available == Least(last, reader.size - reader.row)

(* Rows go from the chunk to flat_batch until it is full or the chunk ends. *)
ReadRows ==
  /\ pc = "fill" /\ Available > 0
  /\ pc' = "bind"
  /\ filled' = Available
  /\ flat' = [i \in DOMAIN flat |->
                IF i =< Available THEN reader.from + reader.row + i ELSE flat[i]]
  /\ reader' = [reader EXCEPT !.row = @ + Available]
  /\ next' = 0
  /\ useBatch' = TRUE
  /\ UNCHANGED <<opts, total, statement, single, caches, bound, arrived, status>>

ChunkRead ==
  /\ pc = "fill" /\ Available = 0
  /\ pc' = "end"
  /\ UNCHANGED <<opts, total, reader, statement, buffers, caches, bound, arrived, status>>

Incomplete == filled < last

(* An incomplete batch gets a statement of its own.  param_types are cut to *)
(* the size that is asked for, not collected from it.                       *)
PrepareTail ==
  /\ pc = "bind" /\ Incomplete
  /\ LET n == BatchSizeForChunk(reader, filled) IN
       /\ last' = n
       /\ prepared' = InsertQuery(n)
       /\ types' = n
       /\ useBatch' = (n > 1)
  /\ flat' = SubSeq(flat, 1, filled)
  /\ bound' = Freed(filled)
  /\ caches' = Empty
  /\ UNCHANGED <<opts, total, pc, reader, single, next, filled, arrived, status>>

-----------------------------------------------------------------------------
(* BindToOdbcWithCache.                                                     *)

Binding(buf, slot, row) ==
  [buf |-> buf, slot |-> slot, kind |-> opts.kinds[row], of |-> row]

(* faulty variant: a value of variable width keeps its binding *)
Rebind_SameShape(cache, rows) ==
  LET old == IF Len(cache) = Len(rows) THEN cache ELSE [i \in DOMAIN rows |-> "unbound"]
  IN  {i \in DOMAIN rows : old[i] # opts.kinds[rows[i]]}

(* The slots to bind: those whose shape has changed (all, when the cache is *)
(* of another size), and those of variable width.                           *)
Rebind(cache, rows) ==
  {i \in DOMAIN rows :
     \/ Len(cache) # Len(rows)
     \/ cache[i] # opts.kinds[rows[i]]
     \/ opts.kinds[rows[i]] = "var"}

(* A cache of another size means SQL_RESET_PARAMS first.                    *)
Bindings(buf, cache, rows) ==
  LET kept == IF Len(cache) = Len(rows) THEN DOMAIN bound ELSE {}
  IN  [i \in kept \cup DOMAIN rows |->
         IF i \in Rebind(cache, rows) THEN Binding(buf, i, rows[i]) ELSE bound[i]]

Shapes(rows) == [i \in DOMAIN rows |-> opts.kinds[rows[i]]]

(* SetExpectedTypes: as many types as values.                               *)
BindBatch ==
  /\ pc = "bind" /\ ~Incomplete /\ useBatch /\ types = Len(flat)
  /\ pc' = "execute"
  /\ bound' = Bindings("batch", caches.batch, flat)
  /\ caches' = [caches EXCEPT !.batch = Shapes(flat)]
  /\ UNCHANGED <<opts, total, reader, statement, buffers, arrived, status>>

BindRefused ==
  /\ pc = "bind" /\ ~Incomplete /\ useBatch /\ types # Len(flat)
  /\ Fails
  /\ UNCHANGED <<opts, total, reader, statement, buffers, caches, bound, arrived>>

BindSingle ==
  /\ pc = "bind" /\ ~useBatch
  /\ pc' = "execute"
  /\ single' = flat[next + 1]
  /\ next' = next + 1
  /\ bound' = Bindings("single", caches.single, <<single'>>)
  /\ caches' = [caches EXCEPT !.single = Shapes(<<single'>>)]
  /\ UNCHANGED <<opts, total, reader, statement, flat, useBatch, filled, arrived, status>>

-----------------------------------------------------------------------------
(* SQLExecute (the driver is external): the values are read where the       *)
(* parameters are bound.                                                    *)
ReadAt(b) ==
  CASE b.buf = "batch" -> flat[b.slot]
    [] b.buf = "single" -> single
    [] OTHER -> 0

Execute ==
  /\ pc = "execute" /\ DOMAIN bound = 1..prepared
  /\ arrived' = arrived \o [i \in 1..prepared |-> ReadAt(bound[i])]
  /\ IF useBatch \/ next >= Len(flat)
       THEN pc' = "fill" /\ filled' = 0
       ELSE pc' = "bind" /\ UNCHANGED filled
  /\ UNCHANGED <<opts, total, reader, statement, flat, single, next, useBatch, caches, bound, status>>

(* The driver refuses a statement with parameters that are not bound.       *)
ExecuteRefused ==
  /\ pc = "execute" /\ DOMAIN bound # 1..prepared
  /\ Fails
  /\ UNCHANGED <<opts, total, reader, statement, buffers, caches, bound, arrived>>

(* faulty variant: the position in the chunk is kept *)
EndCall_RowKept ==
  /\ pc = "end"
  /\ \E r \in NextChunk(reader) : ~r.exhausted /\ reader' = r /\ pc' = "call"
  /\ UNCHANGED <<opts, total, statement, buffers, caches, bound, arrived, status>>

(* The end of a call: the next chunk, if there is one, and a statement that *)
(* fits it, if the last one does not.                                       *)
EndCall ==
  /\ pc = "end"
  /\ \E r \in NextChunk(reader) :
       /\ ~r.exhausted
       /\ reader' = [r EXCEPT !.row = 0]
       /\ LET n == BatchSizeForChunk(r, 0) IN
            IF n # last
              THEN /\ last' = n
                   /\ prepared' = InsertQuery(n)
                   /\ types' = prepared'
                   /\ caches' = Empty
              ELSE UNCHANGED <<statement, caches>>
  /\ pc' = "call"
  /\ UNCHANGED <<opts, total, buffers, bound, arrived, status>>

(* No more chunks: the row with completed = TRUE.                           *)
Complete ==
  /\ pc = "end"
  /\ \E r \in NextChunk(reader) : r.exhausted /\ reader' = r
  /\ pc' = "over"
  /\ status' = "completed"
  /\ UNCHANGED <<opts, total, statement, buffers, caches, bound, arrived>>

Next ==
  \/ Open \/ OpenEmpty \/ BeginCall \/ ReadRows \/ ChunkRead \/ PrepareTail
  \/ BindBatch \/ BindRefused \/ BindSingle \/ Execute \/ ExecuteRefused
  \/ EndCall \/ Complete

Spec == Init /\ [][Next]_vars

(* DuckDB calls the function as long as it returns rows.                    *)
FairSpec == Spec /\ WF_vars(Next)

-----------------------------------------------------------------------------
(* Every row of the source is inserted once and in order, however results,  *)
(* chunks, batches and tails fall, and completed = TRUE is reported only    *)
(* when none is missing.                                                    *)
Abstract == INSTANCE RowTransfer
ImplementsTransfer == Abstract!TransferSpec

(* When the driver executes, the parameters it has bound are those of the   *)
(* rows to insert, no more and no less, each at the present place and of    *)
(* the present kind of its value: whatever bindings were kept from earlier  *)
(* batches, statements and buffers.                                         *)
ToInsert == IF useBatch THEN flat ELSE <<single>>

BoundToRows ==
  pc = "execute" =>
    /\ DOMAIN bound = DOMAIN ToInsert
    /\ \A i \in DOMAIN bound :
         LET row == ToInsert[i] IN
         /\ bound[i].buf = IF useBatch THEN "batch" ELSE "single"
         /\ bound[i].slot = i
         /\ bound[i].kind = opts.kinds[row]
         /\ opts.kinds[row] = "var" => bound[i].of = row

(* A source with rows is copied to its end, whatever the sizes of its       *)
(* chunks: with a generated INSERT, and with a dest_query as long as there  *)
(* is a dest_query_single for what does not fill a batch.                   *)
Completes ==
  (total > 0 /\ opts.dest \in {"table", "both"}) ~> status = "completed"

=============================================================================
