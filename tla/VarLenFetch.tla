---------------------------- MODULE VarLenFetch ----------------------------
(***************************************************************************)
(* How one value of variable length, VARCHAR or BLOB, is read out of a     *)
(* result column: a first SQLGetData into a buffer of fixed size and, when *)
(* the driver says it cut the value (diagnostic 01004), the rest in one    *)
(* tail read, the whole again in one part, or read after read into a       *)
(* buffer that doubles.                                                    *)
(*                                                                         *)
(* Lengths are in units: an SQLWCHAR of a VARCHAR, a byte of a BLOB.  A    *)
(* value is its units numbered 1 .. n, so that a lost, repeated or moved   *)
(* unit shows; its text is WideChar::Narrow of them.  The driver is        *)
(* external: what the code asks of SQLGetData and what it is ready for in  *)
(* the answers.                                                            *)
(***************************************************************************)
EXTENDS Integers, Sequences

CONSTANTS
  HeadSize,  (* units of the first buffer: 4096 SQLWCHARs, 8192 bytes       *)
  MaxLen     (* bound: units of a value                                     *)

(* A head of one character could not be told from a report that counts the  *)
(* terminator.                                                              *)
ASSUME HeadAssumption == HeadSize \in Nat \ 0 .. 2 /\ MaxLen \in Nat

Nul == -1          (* the terminator a driver writes after characters       *)
Blank == 0         (* a unit of the buffer nothing was written to           *)
NullData == -1     (* SQL_NULL_DATA                                         *)
NoTotal == -4      (* SQL_NO_TOTAL                                          *)

VARIABLES
  datum,     (* [null, n]: the value in the column                          *)
  wide,      (* the column is read as SQL_C_WCHAR, not as SQL_C_BINARY      *)
  quirk,     (* DbmsQuirks::var_len_data_single_part                        *)
  driver,    (* [total, whole, odd, skew]: it knows the length that is left *)
             (* when it cuts; each read starts over; it reports an odd      *)
             (* number of bytes; it counts the terminator in the length it  *)
             (* reports when it cuts                                        *)
  pos,       (* units of the value the driver has delivered                 *)
  buf,       (* the buffer                                                  *)
  ask,       (* [start, cap] of the SQLGetData that is running              *)
  answer,    (* [ret, len]: its return code and the length, in bytes        *)
  pc,        (* the read that is running or was answered, "done", "thrown"  *)
  result     (* [null, units]: what is set in the vector                    *)

inputVars == <<datum, wide, quirk, driver>>
vars == <<inputVars, pos, buf, ask, answer, pc, result>>

Reads == {"head", "tail", "single", "multi"}
Value == [i \in 1 .. datum.n |-> i]
UnitBytes == IF wide THEN 2 ELSE 1
Terminator == IF wide THEN 1 ELSE 0
Pending == [ret |-> "pending", len |-> 0]
Blanks(n) == [i \in 1 .. n |-> Blank]

(* The variables have their types.                                          *)
TypeOK ==
  /\ datum \in [null : BOOLEAN, n : 0 .. MaxLen]
  /\ wide \in BOOLEAN
  /\ quirk \in BOOLEAN
  /\ driver \in [total : BOOLEAN, whole : BOOLEAN, odd : 0 .. 1, skew : 0 .. 1]
  /\ pos \in 0 .. MaxLen
  /\ buf \in Seq({Nul, Blank} \cup 1 .. MaxLen)
  /\ ask \in [start : Nat, cap : Nat]
  /\ answer \in [ret : {"pending", "ok", "info", "cut", "failed"}, len : Int]
  /\ pc \in Reads \cup {"done", "thrown"}
  /\ result \in [null : BOOLEAN, units : Seq({Nul, Blank} \cup 1 .. MaxLen)]

(* The first read is already asked for: FetchInternal begins with it.       *)
Init ==
  /\ datum \in [null : BOOLEAN, n : 0 .. MaxLen]
  /\ datum.null => datum.n = 0
  /\ wide \in BOOLEAN
  /\ quirk \in BOOLEAN
  /\ driver \in [total : BOOLEAN, whole : BOOLEAN, odd : 0 .. 1, skew : 0 .. 1]
  /\ ~wide => driver.odd = 0
  /\ pos = 0
  /\ buf = Blanks(HeadSize)
  /\ ask = [start |-> 0, cap |-> HeadSize]
  /\ answer = Pending
  /\ pc = "head"
  /\ result = [null |-> FALSE, units |-> <<>>]

-----------------------------------------------------------------------------
(* SQLGetData, external.  Characters are terminated, in the space given.    *)
From == IF driver.whole THEN 0 ELSE pos
Rest == datum.n - From
Room == ask.cap - Terminator
Fits == Rest <= Room
Delivered == IF Fits THEN Rest ELSE Room

Written ==
  [i \in 1 .. Len(buf) |->
     CASE i - ask.start \in 1 .. Delivered -> From + i - ask.start
       [] i - ask.start = Delivered + 1 /\ wide -> Nul
       [] OTHER -> buf[i]]

(* It writes what fits after ask.start and reports the bytes there were to  *)
(* deliver; when they do not fit, in full if it knows.                      *)
Deliver ==
  /\ buf' = Written
  /\ pos' = From + Delivered
  /\ answer' \in
       IF datum.null
       THEN [ret : {"ok", "info"}, len : {NullData}]
       ELSE IF Fits
       THEN [ret : {"ok", "info"}, len : {UnitBytes * Rest + driver.odd}]
       ELSE [ret : {"cut"},
             len : {IF driver.total
                    THEN UnitBytes * (Rest + driver.skew) + driver.odd
                    ELSE NoTotal}]

GetData ==
  /\ pc \in Reads
  /\ answer = Pending
  /\ \/ Deliver
     \/ /\ answer' = [ret |-> "failed", len |-> 0]
        /\ UNCHANGED <<buf, pos>>
  /\ UNCHANGED <<inputVars, ask, pc, result>>

-----------------------------------------------------------------------------
(* FetchInternal and the functions it calls, after an answer.               *)
Answered(read, rets) ==
  /\ pc = read
  /\ answer.ret \in rets

(* An odd number of bytes of an SQLWCHAR text is rounded down.              *)
Units(bytes) == bytes \div UnitBytes

Ask(read, newBuf, start, cap) ==
  /\ pc' = read
  /\ buf' = newBuf
  /\ ask' = [start |-> start, cap |-> cap]
  /\ answer' = Pending
  /\ UNCHANGED <<inputVars, pos, result>>

Finish(null, units) ==
  /\ pc' = "done"
  /\ result' = [null |-> null, units |-> units]
  /\ UNCHANGED <<inputVars, pos, buf, ask, answer>>

Throw ==
  /\ pc' = "thrown"
  /\ UNCHANGED <<inputVars, pos, buf, ask, answer, result>>

Resized(n) ==
  IF n <= Len(buf) THEN SubSeq(buf, 1, n) ELSE buf \o Blanks(n - Len(buf))

ReadFails ==
  /\ \E read \in Reads : Answered(read, {"failed"})
  /\ Throw

(* The value, or the NULL, came in the first read.                          *)
SingleRead ==
  /\ Answered("head", {"ok", "info"})
  /\ IF answer.len = NullData
     THEN Finish(TRUE, <<>>)
     ELSE Finish(FALSE, Resized(Units(answer.len)))

(* FetchSinglePart: a buffer for the whole, read from its start.  A length  *)
(* that is not known makes the resize throw.                                *)
AskSinglePart ==
  /\ Answered("head", {"cut"})
  /\ quirk
  /\ IF answer.len = NoTotal
     THEN Throw
     ELSE LET size == Units(answer.len) + Terminator
          IN  Ask("single", Resized(size), 0, size)

(* faulty variant: the head is taken to fill the buffer, terminator and all *)
AskTail_OverTerminator ==
  /\ Answered("head", {"cut"})
  /\ ~quirk
  /\ answer.len # NoTotal
  /\ LET size == Units(answer.len) + Terminator
     IN  Ask("tail", Resized(size), Len(buf), size - Len(buf))

(* faulty variant: units and bytes of the head are mixed up                 *)
AskTail_Bytes ==
  /\ Answered("head", {"cut"})
  /\ ~quirk
  /\ answer.len # NoTotal
  /\ LET head == UnitBytes * Len(buf) - Terminator
         size == Units(answer.len) + Terminator
     IN  Ask("tail", Resized(size), head, size - head)

(* FetchTail: the rest in one read, over the terminator of the head.        *)
AskTail ==
  /\ Answered("head", {"cut"})
  /\ ~quirk
  /\ answer.len # NoTotal
  /\ LET head == Len(buf) - Terminator
         size == Units(answer.len) + Terminator
     IN  Ask("tail", Resized(size), head, size - head)

(* faulty variant: the buffer is not doubled                                *)
AskMore_NoGrowth ==
  /\ \/ Answered("head", {"cut"}) /\ ~quirk /\ answer.len = NoTotal
     \/ Answered("multi", {"cut"})
  /\ LET head == Len(buf) - Terminator
     IN  Ask("multi", buf, head, Len(buf) - head)

(* A turn of FetchMultiReads: the buffer doubles, the next part goes into   *)
(* the new half.                                                            *)
AskMore ==
  /\ \/ Answered("head", {"cut"}) /\ ~quirk /\ answer.len = NoTotal
     \/ Answered("multi", {"cut"})
  /\ LET head == Len(buf) - Terminator
         size == 2 * Len(buf)
     IN  Ask("multi", Resized(size), head, size - head)

(* faulty variant: the length of the tail is not compared                   *)
EndTail_Trusted ==
  /\ Answered("tail", {"ok", "info", "cut"})
  /\ Finish(FALSE, Resized(Len(buf) - Terminator))

(* faulty variant: the tail is compared with the length of the whole        *)
EndTail_Whole ==
  /\ Answered("tail", {"ok", "info", "cut"})
  /\ IF Units(answer.len) = Len(buf) - Terminator
     THEN Finish(FALSE, Resized(Len(buf) - Terminator))
     ELSE Throw

(* The length of the tail must be what the first read announced, cut or not.*)
EndTail ==
  /\ Answered("tail", {"ok", "info", "cut"})
  /\ IF Units(answer.len) = Len(buf) - Terminator - ask.start
     THEN Finish(FALSE, Resized(Len(buf) - Terminator))
     ELSE Throw

EndSinglePart ==
  /\ Answered("single", {"ok", "info", "cut"})
  /\ IF Units(answer.len) = Len(buf) - Terminator
     THEN Finish(FALSE, Resized(Len(buf) - Terminator))
     ELSE Throw

EndMore ==
  /\ Answered("multi", {"ok", "info"})
  /\ Finish(FALSE, Resized(ask.start + Units(answer.len)))

Step ==
  \/ GetData
  \/ ReadFails
  \/ SingleRead
  \/ AskSinglePart
  \/ AskTail
  \/ AskMore
  \/ EndTail
  \/ EndSinglePart
  \/ EndMore

Over == pc \in {"done", "thrown"} /\ UNCHANGED vars

Next == Step \/ Over

(* The code is sequential: a call of the driver returns, the next follows.  *)
Spec == Init /\ [][Next]_vars /\ WF_vars(Step)

-----------------------------------------------------------------------------
(* The quirk is set for exactly the drivers that start over.                *)
Matched == quirk = driver.whole

(* The one mismatch the lengths cannot give away: a driver that starts      *)
(* over and reports no length, read part after part.                        *)
Undetectable == driver.whole /\ ~quirk /\ ~driver.total

(* A value that is set in the vector is the value of the column, unit by    *)
(* unit: whatever the buffer size cuts, whoever of the quirk and the driver *)
(* is wrong, the row has the value or the query throws.                     *)
ExactOrThrown ==
  pc = "done" /\ ~Undetectable =>
    /\ result.null = datum.null
    /\ result.units = Value

(* When the next part is asked of a driver that goes on where it stopped,   *)
(* the buffer holds all that was delivered and nothing else before the      *)
(* place the part is written to, and the space announced to the driver is   *)
(* the space there is.                                                      *)
PartsMeet ==
  pc \in Reads /\ answer = Pending =>
    /\ ask.start + ask.cap = Len(buf)
    /\ Matched => SubSeq(buf, 1, ask.start) = SubSeq(Value, 1, pos) \/ pc = "single"

(* With the right quirk and truthful lengths the reading throws only when   *)
(* the driver fails, or when it has to be given the length and has none.    *)
ThrowsForAReason ==
  pc = "thrown" /\ Matched /\ driver.skew = 0 =>
    answer.ret = "failed" \/ (quirk /\ ~driver.total)

(* Every read of a value comes to an end: the loop of FetchMultiReads has   *)
(* no exit but the last part.                                               *)
Ends == <>(pc \in {"done", "thrown"})
=============================================================================
