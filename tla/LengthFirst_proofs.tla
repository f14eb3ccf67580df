------------------------- MODULE LengthFirst_proofs -------------------------
(***************************************************************************)
(* Texts whose length is read before them.                                 *)
(*                                                                         *)
(* VarLenFetch: a value of variable length is read exactly or not at all,  *)
(* for every size of the first buffer and every length of the value.       *)
(*                                                                         *)
(* EnvLists: the lists of drivers and data sources are returned whole, for *)
(* lists and chunks of every size, when nobody changes them between the    *)
(* pass over the lengths and the end of the one over the texts.            *)
(***************************************************************************)
EXTENDS VarLenFetch, EnvLists, SequenceTheorems, TLAPS

-----------------------------------------------------------------------------
(* VarLenFetch: the invariant.                                              *)

BufferUnits == {Nul, Blank} \cup 1 .. MaxLen

(* The units of a value that the first buffer holds.                        *)
Head0 == HeadSize - Terminator

(* The buffer begins with the first k units of the value.                   *)
Holds(k) == \A i \in 1 .. k : buf[i] = i

(* What FetchInternal starts from.                                          *)
InputsOK ==
  /\ datum.null => datum.n = 0
  /\ ~wide => driver.odd = 0
  /\ pos <= datum.n

(* The space that is announced for a read is the end of the buffer.         *)
SpaceOK ==
  pc \in Reads =>
    /\ ask.start + ask.cap = Len(buf)
    /\ ask.cap >= Terminator
    /\ Len(buf) >= HeadSize
    /\ pc = "head" => ask.start = 0 /\ Len(buf) = HeadSize
    /\ pc = "tail" => /\ ~quirk /\ driver.total
                      /\ ask.start = Head0 /\ Len(buf) = datum.n + driver.skew + Terminator
    /\ pc = "single" => /\ quirk /\ driver.total
                        /\ ask.start = 0 /\ Len(buf) = datum.n + driver.skew + Terminator
    /\ pc = "multi" => ~quirk /\ ~driver.total
    /\ pc # "head" => ~datum.null /\ datum.n > Head0

(* Before a read: what the reads before it have put into the buffer.        *)
AskedOK ==
  pc \in Reads /\ answer = Pending =>
    /\ pc = "head" => pos = 0
    /\ pc = "tail" => pos = Head0 /\ Holds(Head0)
    /\ pc = "single" => pos = Head0
    /\ pc = "multi" /\ ~driver.whole => pos = ask.start /\ Holds(pos)

Complete == answer.ret \in {"ok", "info"}
Cut == answer.ret = "cut"

(* After a read: what the answer says of the buffer.                        *)
AnsweredOK ==
  /\ pc = "head" /\ Complete =>
       IF datum.null THEN answer.len = NullData
       ELSE answer.len \in Nat /\ Units(answer.len) = datum.n /\ datum.n <= Head0 /\ Holds(datum.n)
  /\ pc = "head" /\ Cut =>
       /\ ~datum.null /\ datum.n > Head0 /\ pos = Head0 /\ Holds(Head0)
       /\ driver.total => answer.len \in Nat /\ Units(answer.len) = datum.n + driver.skew
       /\ ~driver.total => answer.len = NoTotal
  /\ pc \in {"tail", "single"} /\ (Complete \/ Cut) =>
       LET expected == Len(buf) - Terminator - ask.start IN
       /\ Units(answer.len) = expected => driver.skew = 0 /\ Holds(datum.n)
       /\ Matched /\ driver.skew = 0 => Units(answer.len) = expected
  /\ pc = "multi" /\ Complete =>
       /\ answer.len \in Nat
       /\ ~driver.whole => ask.start + Units(answer.len) = datum.n /\ Holds(datum.n)
                           /\ datum.n <= Len(buf)
  /\ pc = "multi" /\ Cut /\ ~driver.whole => pos = Len(buf) - Terminator /\ Holds(pos)

IInv ==
  /\ TypeOK /\ InputsOK /\ SpaceOK /\ AskedOK /\ AnsweredOK
  /\ ExactOrThrown /\ ThrowsForAReason

-----------------------------------------------------------------------------
(* The numbers of units are numbers, and the buffer is a sequence of units. *)
LEMMA Sizes ==
  ASSUME TypeOK
  PROVE  /\ HeadSize \in Nat /\ HeadSize > 2 /\ MaxLen \in Nat
         /\ Terminator \in 0 .. 1 /\ Terminator \in Nat /\ Head0 \in Nat /\ Head0 > 1
         /\ Head0 = HeadSize - Terminator
         /\ datum.n \in Nat /\ datum.n <= MaxLen /\ datum.null \in BOOLEAN
         /\ pos \in Nat /\ pos <= MaxLen
         /\ driver.skew \in 0 .. 1 /\ driver.odd \in 0 .. 1
         /\ driver.total \in BOOLEAN /\ driver.whole \in BOOLEAN
         /\ ask.start \in Nat /\ ask.cap \in Nat
         /\ buf \in Seq(BufferUnits) /\ Len(buf) \in Nat
BY HeadAssumption, LenProperties DEF TypeOK, Terminator, Head0, BufferUnits

(* A report of k units, odd byte or not, is read as k units.                *)
LEMMA UnitsRead ==
  ASSUME TypeOK, InputsOK, NEW k \in Nat
  PROVE  /\ UnitBytes * k + driver.odd \in Nat
         /\ Units(UnitBytes * k + driver.odd) = k
<1>1. driver.odd \in 0 .. 1
  BY Sizes
<1>2. CASE wide
  <2>1. UnitBytes = 2
    BY <1>2 DEF UnitBytes
  <2>2. (2 * k + driver.odd) \div 2 = k /\ 2 * k + driver.odd \in Nat
    BY <1>1
  <2> QED
    BY <2>1, <2>2 DEF Units
<1>3. CASE ~wide
  <2>1. UnitBytes = 1 /\ driver.odd = 0
    BY <1>3 DEF UnitBytes, InputsOK
  <2>2. (1 * k + 0) \div 1 = k /\ 1 * k + 0 \in Nat
    OBVIOUS
  <2> QED
    BY <2>1, <2>2 DEF Units
<1> QED
  BY <1>2, <1>3

(* A function on 1 .. n is a sequence of n elements.                        *)
LEMMA FunctionSeq ==
  ASSUME NEW S, NEW n \in Nat, NEW f \in [1 .. n -> S]
  PROVE  f \in Seq(S) /\ Len(f) = n
<1>1. f \in Seq(S)
  BY SeqDef
<1>2. DOMAIN f = 1 .. n /\ Len(f) \in Nat /\ DOMAIN f = 1 .. Len(f)
  BY <1>1, LenProperties
<1> QED
  BY <1>1, <1>2

(* A blank buffer is a sequence of its length.                              *)
LEMMA BlanksSeq ==
  ASSUME NEW n \in Nat
  PROVE  Blanks(n) \in Seq(BufferUnits) /\ Len(Blanks(n)) = n
<1>1. Blanks(n) \in [1 .. n -> BufferUnits]
  BY DEF Blanks, BufferUnits
<1> QED
  BY <1>1, FunctionSeq

(* std::vector::resize keeps what the smaller of the two holds.             *)
LEMMA ResizedKeeps ==
  ASSUME TypeOK, NEW n \in Nat
  PROVE  /\ Resized(n) \in Seq(BufferUnits) /\ Len(Resized(n)) = n
         /\ \A i \in 1 .. n : i <= Len(buf) => Resized(n)[i] = buf[i]
<1>1. buf \in Seq(BufferUnits) /\ Len(buf) \in Nat
  BY Sizes
<1>2. CASE n <= Len(buf)
  <2>1. Resized(n) = SubSeq(buf, 1, n)
    BY <1>2 DEF Resized
  <2>2. \A i \in 1 .. n : buf[i] \in BufferUnits
    BY <1>1, <1>2, ElementOfSeq
  <2>3. /\ SubSeq(buf, 1, n) \in Seq(BufferUnits)
        /\ Len(SubSeq(buf, 1, n)) = IF 1 <= n THEN n - 1 + 1 ELSE 0
        /\ \A i \in 1 .. (n - 1 + 1) : SubSeq(buf, 1, n)[i] = buf[1 + i - 1]
    BY <2>2, SubSeqProperties
  <2>4. \A i \in 1 .. n : i \in 1 .. (n - 1 + 1) /\ buf[1 + i - 1] = buf[i]
    OBVIOUS
  <2> QED
    BY <2>1, <2>3, <2>4
<1>3. CASE n > Len(buf)
  <2> DEFINE d == n - Len(buf)
             more == Blanks(d)
  <2>1. Resized(n) = buf \o more
    BY <1>1, <1>3 DEF Resized
  <2>2. more \in Seq(BufferUnits) /\ Len(more) = n - Len(buf)
    <3>1. d \in Nat
      BY <1>1, <1>3
    <3> HIDE DEF d
    <3>2. Blanks(d) \in Seq(BufferUnits) /\ Len(Blanks(d)) = d
      BY <3>1, BlanksSeq
    <3> QED
      BY <3>2 DEF d
  <2> HIDE DEF more
  <2>3. /\ buf \o more \in Seq(BufferUnits)
        /\ Len(buf \o more) = Len(buf) + Len(more)
        /\ \A i \in 1 .. Len(buf) + Len(more) :
             (buf \o more)[i] = IF i <= Len(buf) THEN buf[i] ELSE more[i - Len(buf)]
    BY <1>1, <2>2, ConcatProperties
  <2> QED
    BY <1>1, <1>3, <2>1, <2>2, <2>3
<1> QED
  BY <1>1, <1>2, <1>3

(* The value itself, and a buffer cut to it.                                *)
LEMMA ResizedIsValue ==
  ASSUME TypeOK, Holds(datum.n), datum.n <= Len(buf)
  PROVE  Resized(datum.n) = Value
<1>1. datum.n \in Nat /\ datum.n <= MaxLen /\ MaxLen \in Nat
  BY Sizes
<1>2. Value \in [1 .. datum.n -> BufferUnits] /\ \A i \in 1 .. datum.n : Value[i] = i
  BY <1>1 DEF Value, BufferUnits
<1>3. Value \in Seq(BufferUnits) /\ Len(Value) = datum.n
  BY <1>1, <1>2, FunctionSeq
<1>4. /\ Resized(datum.n) \in Seq(BufferUnits) /\ Len(Resized(datum.n)) = datum.n
      /\ \A i \in 1 .. datum.n : i <= Len(buf) => Resized(datum.n)[i] = buf[i]
  BY <1>1, ResizedKeeps
<1>5. \A i \in 1 .. datum.n : Resized(datum.n)[i] = Value[i]
  <2>1. SUFFICES ASSUME NEW i \in 1 .. datum.n PROVE Resized(datum.n)[i] = i
    BY <1>2
  <2>2. i <= Len(buf)
    BY <1>1, Sizes
  <2> QED
    BY <1>4, <2>2 DEF Holds
<1> QED
  BY <1>3, <1>4, <1>5, SeqEqual

-----------------------------------------------------------------------------
(* The driver.                                                              *)

(* What SQLGetData delivers fits behind ask.start, with its terminator, and *)
(* is the next part of the value, or all of it again.                       *)
LEMMA DeliverFacts ==
  ASSUME TypeOK, InputsOK, SpaceOK, pc \in Reads, Deliver
  PROVE  /\ From \in Nat /\ From <= datum.n /\ Rest = datum.n - From
         /\ Delivered \in Nat /\ Delivered <= Rest
         /\ Room = ask.cap - Terminator /\ Room \in Nat
         /\ Delivered = IF Rest <= Room THEN Rest ELSE Room
         /\ pos' = From + Delivered
         /\ buf' \in Seq(BufferUnits) /\ Len(buf') = Len(buf)
         /\ \A i \in 1 .. ask.start : buf'[i] = buf[i]
         /\ \A i \in 1 .. Delivered : buf'[ask.start + i] = From + i
<1>1. /\ MaxLen \in Nat /\ Terminator \in Nat /\ datum.n \in Nat /\ datum.n <= MaxLen
      /\ pos \in Nat /\ ask.start \in Nat /\ ask.cap \in Nat
      /\ buf \in Seq(BufferUnits) /\ Len(buf) \in Nat
  BY Sizes
<1>2. ask.start + ask.cap = Len(buf) /\ ask.cap >= Terminator /\ pos <= datum.n
  BY DEF SpaceOK, InputsOK
<1>3. From \in Nat /\ From <= datum.n /\ Rest = datum.n - From
  BY <1>1, <1>2 DEF From, Rest
<1>4. Room = ask.cap - Terminator /\ Room \in Nat
  BY <1>1, <1>2 DEF Room
<1>5. Delivered = IF Rest <= Room THEN Rest ELSE Room
  BY DEF Delivered, Fits
<1>6. /\ Delivered \in Nat /\ Delivered <= Rest /\ Delivered <= Room
      /\ From + Delivered <= MaxLen /\ ask.start + Delivered <= Len(buf)
  <2>1. Delivered \in Nat /\ Delivered <= Rest /\ Delivered <= Room
    BY <1>1, <1>3, <1>4, <1>5
  <2> QED
    BY <1>1, <1>2, <1>3, <1>4, <2>1
<1>7. buf' = Written /\ pos' = From + Delivered
  BY DEF Deliver
<1>8. ASSUME NEW i \in 1 .. Len(buf)
      PROVE  /\ Written[i] \in BufferUnits
             /\ i <= ask.start => Written[i] = buf[i]
             /\ i - ask.start \in 1 .. Delivered => Written[i] = From + i - ask.start
  <2>1. Written[i] = CASE i - ask.start \in 1 .. Delivered -> From + i - ask.start
                       [] i - ask.start = Delivered + 1 /\ wide -> Nul
                       [] OTHER -> buf[i]
    BY DEF Written
  <2>2. buf[i] \in BufferUnits
    BY <1>1, ElementOfSeq
  <2>3. CASE i - ask.start \in 1 .. Delivered
    <3>1. Written[i] = From + i - ask.start
      BY <1>1, <1>6, <2>1, <2>3
    <3>2. From + i - ask.start \in 1 .. MaxLen /\ ~(i <= ask.start)
      <4> DEFINE k == i - ask.start
      <4>1. k \in 1 .. Delivered /\ From + i - ask.start = From + k /\ i = ask.start + k
        BY <1>1, <1>3, <2>3
      <4> HIDE DEF k
      <4>2. From + k \in 1 .. MaxLen
        BY <1>1, <1>3, <1>6, <4>1
      <4> QED
        BY <1>1, <1>6, <4>1, <4>2
    <3> QED
      BY <3>1, <3>2 DEF BufferUnits
  <2>4. CASE i - ask.start = Delivered + 1 /\ wide
    <3>1. i - ask.start \notin 1 .. Delivered /\ ~(i <= ask.start)
      BY <1>1, <1>6, <2>4
    <3>2. Written[i] = Nul
      BY <2>1, <2>4, <3>1
    <3> QED
      BY <3>1, <3>2 DEF BufferUnits
  <2>5. CASE ~(i - ask.start \in 1 .. Delivered) /\ ~(i - ask.start = Delivered + 1 /\ wide)
    <3>1. Written[i] = buf[i]
      BY <2>1, <2>5
    <3> QED
      BY <2>2, <2>5, <3>1
  <2> QED
    BY <2>3, <2>4, <2>5
<1>9. Written \in Seq(BufferUnits) /\ Len(Written) = Len(buf)
  <2>1. Written \in [1 .. Len(buf) -> BufferUnits]
    <3>1. DOMAIN Written = 1 .. Len(buf) /\ Written = [i \in 1 .. Len(buf) |-> Written[i]]
      BY DEF Written
    <3> QED
      BY <1>8, <3>1
  <2> QED
    BY <1>1, <2>1, FunctionSeq
<1>10. \A i \in 1 .. ask.start : Written[i] = buf[i]
  <2>1. SUFFICES ASSUME NEW i \in 1 .. ask.start PROVE Written[i] = buf[i]
    OBVIOUS
  <2>2. i \in 1 .. Len(buf) /\ i <= ask.start
    BY <1>1, <1>2
  <2> QED
    BY <1>8, <2>2
<1>11. \A i \in 1 .. Delivered : Written[ask.start + i] = From + i
  <2>1. SUFFICES ASSUME NEW i \in 1 .. Delivered PROVE Written[ask.start + i] = From + i
    OBVIOUS
  <2> DEFINE j == ask.start + i
  <2>2. j \in 1 .. Len(buf) /\ j - ask.start = i /\ From + j - ask.start = From + i
    <3>1. i \in Nat /\ 1 <= i /\ i <= Delivered
      BY <1>6
    <3> QED
      BY <1>1, <1>3, <1>6, <3>1
  <2> HIDE DEF j
  <2>3. Written[j] = From + j - ask.start
    BY <1>8, <2>2
  <2> QED
    BY <2>2, <2>3 DEF j
<1> QED
  BY <1>3, <1>4, <1>5, <1>6, <1>7, <1>9, <1>10, <1>11

(* What the driver reports of it.                                           *)
LEMMA AnswerFacts ==
  ASSUME TypeOK, InputsOK, SpaceOK, pc \in Reads, Deliver, UNCHANGED inputVars
  PROVE  /\ answer' \in [ret : {"pending", "ok", "info", "cut", "failed"}, len : Int]
         /\ answer' # Pending /\ answer'.ret # "failed"
         /\ datum.null => Complete' /\ ~Cut' /\ answer'.len = NullData
         /\ ~datum.null /\ Rest <= Room =>
              Complete' /\ ~Cut' /\ answer'.len \in Nat /\ Units(answer.len)' = Rest
         /\ ~datum.null /\ ~(Rest <= Room) =>
              /\ ~Complete' /\ Cut'
              /\ driver.total => answer'.len \in Nat /\ Units(answer.len)' = Rest + driver.skew
              /\ ~driver.total => answer'.len = NoTotal
<1> DEFINE U(k) == UnitBytes * k + driver.odd
<1>1. Rest \in Nat /\ Rest + driver.skew \in Nat
  <2>1. From \in Nat /\ From <= datum.n /\ Rest = datum.n - From
    BY DeliverFacts
  <2>2. datum.n \in Nat /\ driver.skew \in Nat
    BY Sizes
  <2> QED
    BY <2>1, <2>2
<1>2. \A k \in Nat : U(k) \in Nat /\ U(k) \in Int /\ Units(U(k)) = k
  <2>1. SUFFICES ASSUME NEW k \in Nat PROVE U(k) \in Nat /\ U(k) \in Int /\ Units(U(k)) = k
    OBVIOUS
  <2>2. UnitBytes * k + driver.odd \in Nat /\ Units(UnitBytes * k + driver.odd) = k
    BY UnitsRead
  <2> QED
    BY <2>2
<1>3. answer' \in
        IF datum.null
        THEN [ret : {"ok", "info"}, len : {NullData}]
        ELSE IF Fits
        THEN [ret : {"ok", "info"}, len : {U(Rest)}]
        ELSE [ret : {"cut"},
              len : {IF driver.total THEN U(Rest + driver.skew) ELSE NoTotal}]
  BY DEF Deliver
<1> HIDE DEF U
<1>4. Units(answer.len)' = Units(answer'.len)
  BY DEF Units, UnitBytes, inputVars
<1>5. NullData \in Int /\ NoTotal \in Int /\ Pending.ret = "pending"
  BY DEF NullData, NoTotal, Pending
<1> HIDE DEF NullData, NoTotal
<1>6. CASE datum.null
  <2>1. answer' \in [ret : {"ok", "info"}, len : {NullData}]
    BY <1>3, <1>6
  <2> QED
    BY <1>5, <1>6, <2>1 DEF Complete, Cut
<1>7. CASE ~datum.null /\ Rest <= Room
  <2>1. answer' \in [ret : {"ok", "info"}, len : {U(Rest)}]
    BY <1>3, <1>7 DEF Fits
  <2>2. answer'.len = U(Rest)
    BY <2>1
  <2>3. answer'.len \in Nat /\ answer'.len \in Int /\ Units(answer.len)' = Rest
    BY <1>1, <1>2, <1>4, <2>2
  <2> QED
    BY <1>5, <1>7, <2>1, <2>3 DEF Complete, Cut
<1>8. CASE ~datum.null /\ ~(Rest <= Room)
  <2> DEFINE l == IF driver.total THEN U(Rest + driver.skew) ELSE NoTotal
  <2>1. answer' \in [ret : {"cut"}, len : {l}]
    BY <1>3, <1>8 DEF Fits
  <2>2. l \in Int
    BY <1>1, <1>2, <1>5
  <2> HIDE DEF l
  <2>3. answer'.ret = "cut" /\ answer'.len = l /\ answer'.len \in Int
        /\ answer' \in [ret : {"pending", "ok", "info", "cut", "failed"}, len : Int]
    BY <2>1, <2>2
  <2>4. driver.total => answer'.len \in Nat /\ Units(answer.len)' = Rest + driver.skew
    BY <1>1, <1>2, <1>4, <2>3 DEF l
  <2>5. ~driver.total => answer'.len = NoTotal
    BY <2>3 DEF l
  <2> QED
    BY <1>5, <1>8, <2>3, <2>4, <2>5 DEF Complete, Cut
<1> QED
  BY <1>6, <1>7, <1>8

(* A part that goes on where the buffer ends leaves no gap.                 *)
LEMMA PartHolds ==
  ASSUME TypeOK, InputsOK, SpaceOK, pc \in Reads, Deliver, From = ask.start, Holds(ask.start)
  PROVE  \A i \in 1 .. From + Delivered : buf'[i] = i
<1>1. /\ From \in Nat /\ Delivered \in Nat /\ ask.start \in Nat
      /\ \A i \in 1 .. ask.start : buf'[i] = buf[i]
      /\ \A i \in 1 .. Delivered : buf'[ask.start + i] = From + i
  BY DeliverFacts, Sizes
<1>2. SUFFICES ASSUME NEW i \in 1 .. From + Delivered PROVE buf'[i] = i
  OBVIOUS
<1>3. CASE i <= From
  <2>1. i \in 1 .. ask.start
    BY <1>1, <1>3
  <2> QED
    BY <1>1, <2>1 DEF Holds
<1>4. CASE i > From
  <2> DEFINE k == i - From
  <2>1. k \in 1 .. Delivered /\ ask.start + k = i /\ From + k = i
    BY <1>1, <1>4
  <2> HIDE DEF k
  <2> QED
    BY <1>1, <2>1
<1> QED
  BY <1>1, <1>3, <1>4

(* The answer to the first read says what it has left in the buffer,        *)
LEMMA AnsweredHead ==
  ASSUME IInv, GetData, Deliver, pc = "head"
  PROVE  AnsweredOK'
<1>1. /\ TypeOK /\ InputsOK /\ SpaceOK /\ pc \in Reads /\ answer = Pending
      /\ UNCHANGED <<inputVars, ask, pc, result>>
  BY DEF IInv, GetData, Reads
<1>2. UNCHANGED <<datum, wide, quirk, driver>>
  BY <1>1 DEF inputVars
<1>3. /\ Head0 \in Nat /\ Head0 = HeadSize - Terminator /\ HeadSize \in Nat /\ Terminator \in Nat
      /\ datum.n \in Nat /\ ask.cap \in Nat
      /\ ask.start = 0 /\ ask.cap = HeadSize /\ pos = 0
  BY <1>1, Sizes DEF SpaceOK, IInv, AskedOK
<1>4. /\ From = 0 /\ Rest = datum.n /\ Room = Head0
      /\ Delivered = IF Rest <= Room THEN Rest ELSE Room
      /\ pos' = From + Delivered
  <2>1. From = 0
    BY <1>3 DEF From
  <2> QED
    BY <1>1, <1>3, <2>1, DeliverFacts
<1>5. \A i \in 1 .. Delivered : buf'[i] = i
  <2>1. Holds(ask.start)
    BY <1>3 DEF Holds
  <2>2. \A i \in 1 .. From + Delivered : buf'[i] = i
    BY <1>1, <1>3, <1>4, <2>1, PartHolds
  <2>3. From + Delivered = Delivered
    BY <1>3, <1>4
  <2> QED
    BY <2>2, <2>3
<1>6. Head0' = Head0
  BY <1>2 DEF Head0, Terminator
<1>7. CASE datum.null
  <2>1. Complete' /\ ~Cut' /\ answer'.len = NullData
    BY <1>1, <1>7, AnswerFacts
  <2> QED
    BY <1>1, <1>2, <1>7, <2>1 DEF AnsweredOK
<1>8. CASE ~datum.null /\ datum.n <= Head0
  <2>1. Complete' /\ ~Cut' /\ answer'.len \in Nat /\ Units(answer.len)' = datum.n
    BY <1>1, <1>4, <1>8, AnswerFacts
  <2>2. Holds(datum.n)'
    BY <1>2, <1>4, <1>5, <1>8 DEF Holds
  <2> QED
    BY <1>1, <1>2, <1>6, <1>8, <2>1, <2>2 DEF AnsweredOK
<1>9. CASE ~datum.null /\ ~(datum.n <= Head0)
  <2>1. /\ ~Complete' /\ Cut'
        /\ driver.total => answer'.len \in Nat /\ Units(answer.len)' = datum.n + driver.skew
        /\ ~driver.total => answer'.len = NoTotal
    BY <1>1, <1>4, <1>9, AnswerFacts
  <2>2. Holds(Head0)' /\ pos' = Head0 /\ datum.n > Head0
    BY <1>3, <1>4, <1>5, <1>6, <1>9 DEF Holds
  <2> QED
    BY <1>1, <1>2, <1>6, <1>9, <2>1, <2>2 DEF AnsweredOK
<1> QED
  BY <1>7, <1>8, <1>9

(* and so does that to a tail read,                                         *)
LEMMA AnsweredTail ==
  ASSUME IInv, GetData, Deliver, pc = "tail"
  PROVE  AnsweredOK'
<1>1. /\ TypeOK /\ InputsOK /\ SpaceOK /\ pc \in Reads /\ answer = Pending
      /\ UNCHANGED <<inputVars, ask, pc, result>>
  BY DEF IInv, GetData, Reads
<1>2. UNCHANGED <<datum, wide, quirk, driver>>
  BY <1>1 DEF inputVars
<1>3. /\ Head0 \in Nat /\ Head0 > 1 /\ Terminator \in Nat /\ datum.n \in Nat /\ ask.cap \in Nat
      /\ driver.skew \in 0 .. 1 /\ driver.whole \in BOOLEAN
      /\ ask.start = Head0 /\ Len(buf) = datum.n + driver.skew + Terminator
      /\ ask.start + ask.cap = Len(buf) /\ pos = Head0 /\ Holds(Head0)
      /\ ~quirk /\ driver.total /\ ~datum.null /\ datum.n > Head0
  BY <1>1, Sizes DEF SpaceOK, IInv, AskedOK
<1>4. /\ Len(buf') = Len(buf) /\ Rest = datum.n - From /\ Room = ask.cap - Terminator
      /\ Delivered = IF Rest <= Room THEN Rest ELSE Room
  BY <1>1, DeliverFacts
<1>5. Room = datum.n + driver.skew - Head0
  BY <1>3, <1>4
<1> DEFINE expected == Len(buf) - Terminator - ask.start
<1>6. expected = datum.n + driver.skew - Head0
  BY <1>3
<1>7. (Len(buf) - Terminator - ask.start)' = expected
  BY <1>1, <1>2, <1>4 DEF Terminator
<1> HIDE DEF expected
<1>8. /\ Units(answer.len)' = expected => driver.skew = 0 /\ Holds(datum.n)'
      /\ ~driver.whole /\ driver.skew = 0 => Units(answer.len)' = expected
  <2>1. CASE driver.whole
    <3>1. From = 0 /\ Rest = datum.n
      BY <1>3, <1>4, <2>1 DEF From
    <3>2. ~(Rest <= Room)
      BY <1>3, <1>5, <3>1
    <3>3. Units(answer.len)' = Rest + driver.skew
      BY <1>1, <1>3, <3>2, AnswerFacts
    <3> QED
      BY <1>3, <1>6, <2>1, <3>1, <3>3
  <2>2. CASE ~driver.whole
    <3>1. From = Head0 /\ Rest = datum.n - Head0
      BY <1>3, <1>4, <2>2 DEF From
    <3>2. Rest <= Room
      BY <1>3, <1>5, <3>1
    <3>3. Units(answer.len)' = Rest
      BY <1>1, <1>3, <3>2, AnswerFacts
    <3>4. Holds(datum.n)'
      <4>1. From + Delivered = datum.n
        BY <1>3, <1>4, <3>1, <3>2
      <4>2. \A i \in 1 .. From + Delivered : buf'[i] = i
        BY <1>1, <1>3, <3>1, PartHolds
      <4> QED
        BY <1>2, <4>1, <4>2 DEF Holds
    <3> QED
      BY <1>3, <1>6, <3>1, <3>3, <3>4
  <2> QED
    BY <1>3, <2>1, <2>2
<1>9. Matched' => ~driver.whole
  BY <1>2, <1>3 DEF Matched
<1> QED
  BY <1>1, <1>2, <1>7, <1>8, <1>9 DEF AnsweredOK

(* to a read in one part,                                                   *)
LEMMA AnsweredSingle ==
  ASSUME IInv, GetData, Deliver, pc = "single"
  PROVE  AnsweredOK'
<1>1. /\ TypeOK /\ InputsOK /\ SpaceOK /\ pc \in Reads /\ answer = Pending
      /\ UNCHANGED <<inputVars, ask, pc, result>>
  BY DEF IInv, GetData, Reads
<1>2. UNCHANGED <<datum, wide, quirk, driver>>
  BY <1>1 DEF inputVars
<1>3. /\ Head0 \in Nat /\ Head0 > 1 /\ Terminator \in Nat /\ datum.n \in Nat /\ ask.cap \in Nat
      /\ driver.skew \in 0 .. 1 /\ driver.whole \in BOOLEAN
      /\ ask.start = 0 /\ Len(buf) = datum.n + driver.skew + Terminator
      /\ ask.start + ask.cap = Len(buf) /\ pos = Head0
      /\ quirk /\ driver.total /\ ~datum.null /\ datum.n > Head0
  BY <1>1, Sizes DEF SpaceOK, IInv, AskedOK
<1>4. /\ Len(buf') = Len(buf) /\ Rest = datum.n - From /\ Room = ask.cap - Terminator
      /\ Delivered = IF Rest <= Room THEN Rest ELSE Room
  BY <1>1, DeliverFacts
<1>5. Room = datum.n + driver.skew
  BY <1>3, <1>4
<1> DEFINE expected == Len(buf) - Terminator - ask.start
<1>6. expected = datum.n + driver.skew
  BY <1>3
<1>7. (Len(buf) - Terminator - ask.start)' = expected
  BY <1>1, <1>2, <1>4 DEF Terminator
<1> HIDE DEF expected
<1>8. /\ Units(answer.len)' = expected => driver.skew = 0 /\ Holds(datum.n)'
      /\ driver.whole /\ driver.skew = 0 => Units(answer.len)' = expected
  <2>1. CASE driver.whole
    <3>1. From = 0 /\ Rest = datum.n
      BY <1>3, <1>4, <2>1 DEF From
    <3>2. Rest <= Room
      BY <1>3, <1>5, <3>1
    <3>3. Units(answer.len)' = Rest
      BY <1>1, <1>3, <3>2, AnswerFacts
    <3>4. Holds(datum.n)'
      <4>1. From + Delivered = datum.n
        BY <1>3, <1>4, <3>1, <3>2
      <4>2. Holds(ask.start)
        BY <1>3 DEF Holds
      <4>3. \A i \in 1 .. From + Delivered : buf'[i] = i
        BY <1>1, <1>3, <3>1, <4>2, PartHolds
      <4> QED
        BY <1>2, <4>1, <4>3 DEF Holds
    <3> QED
      BY <1>3, <1>6, <3>1, <3>3, <3>4
  <2>2. CASE ~driver.whole
    <3>1. From = Head0 /\ Rest = datum.n - Head0
      BY <1>3, <1>4, <2>2 DEF From
    <3>2. Rest <= Room
      BY <1>3, <1>5, <3>1
    <3>3. Units(answer.len)' = Rest
      BY <1>1, <1>3, <3>2, AnswerFacts
    <3> QED
      BY <1>3, <1>6, <2>2, <3>1, <3>3
  <2> QED
    BY <1>3, <2>1, <2>2
<1>9. Matched' => driver.whole
  BY <1>2, <1>3 DEF Matched
<1> QED
  BY <1>1, <1>2, <1>7, <1>8, <1>9 DEF AnsweredOK

(* and to a read of one more part.                                          *)
LEMMA AnsweredMulti ==
  ASSUME IInv, GetData, Deliver, pc = "multi"
  PROVE  AnsweredOK'
<1>1. /\ TypeOK /\ InputsOK /\ SpaceOK /\ pc \in Reads /\ answer = Pending
      /\ UNCHANGED <<inputVars, ask, pc, result>>
  BY DEF IInv, GetData, Reads
<1>2. UNCHANGED <<datum, wide, quirk, driver>>
  BY <1>1 DEF inputVars
<1>3. /\ Terminator \in Nat /\ datum.n \in Nat /\ ask.cap \in Nat /\ ask.start \in Nat
      /\ ask.start + ask.cap = Len(buf) /\ Len(buf) \in Nat
  BY <1>1, Sizes DEF SpaceOK
<1>4. /\ ~datum.null
      /\ ~driver.whole => pos = ask.start /\ Holds(pos)
  BY <1>1 DEF SpaceOK, IInv, AskedOK
<1>5. /\ Len(buf') = Len(buf) /\ From \in Nat /\ From <= datum.n
      /\ Rest = datum.n - From /\ Room = ask.cap - Terminator /\ Room \in Nat
      /\ Delivered = IF Rest <= Room THEN Rest ELSE Room
      /\ pos' = From + Delivered
  BY <1>1, DeliverFacts
<1>6. ~driver.whole => /\ From = ask.start
                       /\ \A i \in 1 .. From + Delivered : buf'[i] = i
  <2>1. SUFFICES ASSUME ~driver.whole
                 PROVE  From = ask.start /\ \A i \in 1 .. From + Delivered : buf'[i] = i
    OBVIOUS
  <2>2. From = ask.start /\ Holds(ask.start)
    BY <1>4, <2>1 DEF From
  <2> QED
    BY <1>1, <2>2, PartHolds
<1>7. CASE Rest <= Room
  <2>1. Complete' /\ ~Cut' /\ answer'.len \in Nat /\ Units(answer.len)' = Rest
    BY <1>1, <1>4, <1>7, AnswerFacts
  <2>2. ~driver.whole => /\ ask.start + Rest = datum.n /\ datum.n <= Len(buf)
                         /\ Holds(datum.n)'
    <3>1. SUFFICES ASSUME ~driver.whole
                   PROVE  ask.start + Rest = datum.n /\ datum.n <= Len(buf) /\ Holds(datum.n)'
      OBVIOUS
    <3>2. ask.start + Rest = datum.n /\ datum.n <= Len(buf) /\ From + Delivered = datum.n
      <4> DEFINE n == datum.n
                 start == ask.start
                 cap == ask.cap
                 length == Len(buf)
      <4>1. From = start /\ Delivered = Rest
        BY <1>5, <1>6, <1>7, <3>1
      <4>2. /\ n \in Nat /\ start \in Nat /\ cap \in Nat /\ length \in Nat /\ Terminator \in Nat
            /\ start + cap = length /\ Rest = n - From /\ Rest <= cap - Terminator /\ From \in Nat
            /\ From <= n
        BY <1>3, <1>5, <1>7
      <4> HIDE DEF n, start, cap, length
      <4>3. start + Rest = n /\ n <= length /\ From + Delivered = n
        BY <4>1, <4>2
      <4> QED
        BY <4>3 DEF n, start, length
    <3> QED
      BY <1>2, <1>6, <3>1, <3>2 DEF Holds
  <2> QED
    BY <1>1, <1>2, <1>5, <2>1, <2>2 DEF AnsweredOK
<1>8. CASE ~(Rest <= Room)
  <2>1. ~Complete' /\ Cut'
    BY <1>1, <1>4, <1>8, AnswerFacts
  <2>2. ~driver.whole => pos' = Len(buf) - Terminator /\ Holds(pos)'
    <3>1. SUFFICES ASSUME ~driver.whole PROVE pos' = Len(buf) - Terminator /\ Holds(pos)'
      OBVIOUS
    <3>2. From + Delivered = Len(buf) - Terminator
      <4> DEFINE start == ask.start
                 cap == ask.cap
                 length == Len(buf)
      <4>1. /\ From = start /\ Delivered = cap - Terminator /\ start + cap = length
            /\ start \in Nat /\ cap \in Nat /\ length \in Nat /\ Terminator \in Nat
        BY <1>3, <1>5, <1>6, <1>8, <3>1
      <4> HIDE DEF start, cap, length
      <4>2. From + Delivered = length - Terminator
        BY <4>1
      <4> QED
        BY <4>2 DEF length
    <3> QED
      BY <1>5, <1>6, <3>1, <3>2 DEF Holds
  <2>3. Terminator' = Terminator
    BY <1>2 DEF Terminator
  <2> QED
    BY <1>1, <1>2, <1>5, <2>1, <2>2, <2>3 DEF AnsweredOK
<1> QED
  BY <1>7, <1>8

-----------------------------------------------------------------------------
(* Every step preserves the invariant.                                      *)

(* SQLGetData.                                                              *)
LEMMA GetDataStep ==
  ASSUME IInv, GetData
  PROVE  IInv'
<1>1. /\ TypeOK /\ InputsOK /\ SpaceOK /\ pc \in Reads /\ answer = Pending
      /\ UNCHANGED <<inputVars, ask, pc, result>>
  BY DEF IInv, GetData
<1>2. UNCHANGED <<datum, wide, quirk, driver>>
  BY <1>1 DEF inputVars
<1>3. pc' \in Reads /\ pc' \notin {"done", "thrown"} /\ Terminator' = Terminator /\ Head0' = Head0
  BY <1>1, <1>2 DEF Reads, Terminator, Head0
<1>4. ExactOrThrown' /\ ThrowsForAReason'
  BY <1>3 DEF ExactOrThrown, ThrowsForAReason
<1>5. CASE Deliver
  <2>1. /\ answer' \in [ret : {"pending", "ok", "info", "cut", "failed"}, len : Int]
        /\ answer' # Pending
    BY <1>1, <1>5, AnswerFacts
  <2>2. /\ buf' \in Seq(BufferUnits) /\ Len(buf') = Len(buf)
        /\ pos' \in 0 .. MaxLen /\ pos' <= datum.n
    <3>1. /\ buf' \in Seq(BufferUnits) /\ Len(buf') = Len(buf)
          /\ From \in Nat /\ Delivered \in Nat /\ Delivered <= Rest /\ Rest = datum.n - From
          /\ pos' = From + Delivered
      BY <1>1, <1>5, DeliverFacts
    <3>2. datum.n \in Nat /\ datum.n <= MaxLen /\ MaxLen \in Nat
      BY <1>1, Sizes
    <3> QED
      BY <3>1, <3>2
  <2>3. TypeOK'
    BY <1>1, <1>2, <2>1, <2>2 DEF TypeOK, BufferUnits
  <2>4. InputsOK' /\ SpaceOK' /\ AskedOK'
    BY <1>1, <1>2, <1>3, <2>1, <2>2 DEF InputsOK, SpaceOK, AskedOK, Pending
  <2>5. AnsweredOK'
    BY <1>1, <1>5, AnsweredHead, AnsweredTail, AnsweredSingle, AnsweredMulti DEF Reads
  <2> QED
    BY <1>4, <2>3, <2>4, <2>5 DEF IInv
<1>6. CASE answer' = [ret |-> "failed", len |-> 0] /\ UNCHANGED <<buf, pos>>
  <2>1. /\ answer' \in [ret : {"pending", "ok", "info", "cut", "failed"}, len : Int]
        /\ answer'.ret = "failed" /\ Pending.ret = "pending" /\ answer' # Pending
    BY <1>6 DEF Pending
  <2>2. TypeOK'
    BY <1>1, <1>2, <1>6, <2>1 DEF TypeOK
  <2>3. InputsOK' /\ SpaceOK' /\ AskedOK'
    BY <1>1, <1>2, <1>3, <1>6, <2>1 DEF InputsOK, SpaceOK, AskedOK, Pending
  <2>4. AnsweredOK'
    BY <2>1 DEF AnsweredOK, Complete, Cut
  <2> QED
    BY <1>4, <2>2, <2>3, <2>4 DEF IInv
<1> QED
  BY <1>5, <1>6 DEF GetData

(* A read is asked for: its buffer is that of the reads before it, resized. *)
LEMMA AskFacts ==
  ASSUME IInv, NEW read \in Reads, NEW size \in Nat, NEW start \in Nat, start <= size,
         Ask(read, Resized(size), start, size - start)
  PROVE  /\ TypeOK' /\ InputsOK' /\ AnsweredOK' /\ ExactOrThrown' /\ ThrowsForAReason'
         /\ pc' = read /\ answer' = Pending /\ pos' = pos
         /\ ask'.start = start /\ ask'.cap = size - start /\ Len(buf') = size
         /\ UNCHANGED <<datum, wide, quirk, driver>>
         /\ \A i \in 1 .. size : i <= Len(buf) => buf'[i] = buf[i]
<1>1. /\ TypeOK /\ InputsOK
      /\ pc' = read /\ answer' = Pending /\ buf' = Resized(size)
      /\ ask' = [start |-> start, cap |-> size - start]
      /\ UNCHANGED <<inputVars, pos, result>>
  BY DEF IInv, Ask
<1>2. UNCHANGED <<datum, wide, quirk, driver>>
  BY <1>1 DEF inputVars
<1>3. /\ buf' \in Seq(BufferUnits) /\ Len(buf') = size
      /\ \A i \in 1 .. size : i <= Len(buf) => buf'[i] = buf[i]
  BY <1>1, ResizedKeeps
<1>4. Pending \in [ret : {"pending", "ok", "info", "cut", "failed"}, len : Int]
      /\ Pending.ret = "pending"
  BY DEF Pending
<1>5. size - start \in Nat
  OBVIOUS
<1>6. TypeOK'
  BY <1>1, <1>2, <1>3, <1>4, <1>5 DEF TypeOK, BufferUnits
<1>7. InputsOK'
  BY <1>1, <1>2 DEF InputsOK
<1>8. AnsweredOK'
  <2>1. ~Complete' /\ ~Cut'
    BY <1>1, <1>4 DEF Complete, Cut
  <2> QED
    BY <2>1 DEF AnsweredOK
<1>9. ExactOrThrown' /\ ThrowsForAReason'
  BY <1>1 DEF ExactOrThrown, ThrowsForAReason, Reads
<1> QED
  BY <1>1, <1>2, <1>3, <1>6, <1>7, <1>8, <1>9

(* The end of the reading.                                                  *)
LEMMA OverStep ==
  ASSUME IInv, pc' \in {"done", "thrown"}, UNCHANGED <<inputVars, pos, buf, ask, answer>>,
         result' \in [null : BOOLEAN, units : Seq(BufferUnits)],
         ExactOrThrown', ThrowsForAReason'
  PROVE  IInv'
<1>1. UNCHANGED <<datum, wide, quirk, driver>>
  BY DEF inputVars
<1>2. TypeOK'
  BY <1>1 DEF IInv, TypeOK, BufferUnits
<1>3. InputsOK' /\ SpaceOK' /\ AskedOK' /\ AnsweredOK'
  BY <1>1 DEF IInv, InputsOK, SpaceOK, AskedOK, AnsweredOK, Reads
<1> QED
  BY <1>2, <1>3 DEF IInv

(* A throw that has its reason keeps the invariant.                         *)
LEMMA ThrowStep ==
  ASSUME IInv, Throw,
         Matched /\ driver.skew = 0 => answer.ret = "failed" \/ (quirk /\ ~driver.total)
  PROVE  IInv'
<1>1. /\ pc' = "thrown" /\ UNCHANGED <<inputVars, pos, buf, ask, answer>> /\ result' = result
  BY DEF Throw
<1>2. UNCHANGED <<datum, wide, quirk, driver>>
  BY <1>1 DEF inputVars
<1>3. ThrowsForAReason'
  BY <1>1, <1>2 DEF ThrowsForAReason, Matched
<1>4. ExactOrThrown'
  BY <1>1 DEF ExactOrThrown
<1>5. result \in [null : BOOLEAN, units : Seq(BufferUnits)]
  BY DEF IInv, TypeOK, BufferUnits
<1> QED
  BY <1>1, <1>3, <1>4, <1>5, OverStep

(* So does setting the value, if it is the value of the column.             *)
LEMMA FinishStep ==
  ASSUME IInv, NEW null \in BOOLEAN, NEW units \in Seq(BufferUnits), Finish(null, units),
         ~Undetectable => null = datum.null /\ units = Value
  PROVE  IInv'
<1>1. /\ pc' = "done" /\ UNCHANGED <<inputVars, pos, buf, ask, answer>>
      /\ result' = [null |-> null, units |-> units]
  BY DEF Finish
<1>2. UNCHANGED <<datum, wide, quirk, driver>>
  BY <1>1 DEF inputVars
<1>3. ExactOrThrown'
  <2>1. Value' = Value /\ Undetectable' = Undetectable
    BY <1>2 DEF Value, Undetectable
  <2> QED
    BY <1>1, <1>2, <2>1 DEF ExactOrThrown
<1>4. ThrowsForAReason'
  BY <1>1 DEF ThrowsForAReason
<1>5. result' \in [null : BOOLEAN, units : Seq(BufferUnits)]
  BY <1>1
<1> QED
  BY <1>1, <1>3, <1>4, <1>5, OverStep

(* A read that fails keeps the invariant,                                   *)
LEMMA ReadFailsStep ==
  ASSUME IInv, ReadFails
  PROVE  IInv'
<1>1. answer.ret = "failed" /\ Throw
  BY DEF ReadFails, Answered
<1> QED
  BY <1>1, ThrowStep

(* a value that came in the first read,                                     *)
LEMMA SingleReadStep ==
  ASSUME IInv, SingleRead
  PROVE  IInv'
<1>1. /\ TypeOK /\ pc = "head" /\ Complete
      /\ IF answer.len = NullData
         THEN Finish(TRUE, <<>>)
         ELSE Finish(FALSE, Resized(Units(answer.len)))
  BY DEF IInv, SingleRead, Answered, Complete
<1>2. IF datum.null THEN answer.len = NullData
      ELSE answer.len \in Nat /\ Units(answer.len) = datum.n /\ datum.n <= Head0 /\ Holds(datum.n)
  BY <1>1 DEF IInv, AnsweredOK
<1>3. /\ datum.n \in Nat /\ datum.null \in BOOLEAN /\ Head0 <= Len(buf)
      /\ Len(buf) \in Nat /\ Head0 \in Nat
  BY <1>1, Sizes DEF IInv, SpaceOK, Reads
<1>4. CASE datum.null
  <2>1. Finish(TRUE, <<>>) /\ <<>> \in Seq(BufferUnits)
    BY <1>1, <1>2, <1>4, EmptySeq
  <2>2. Value = <<>>
    <3>1. datum.n = 0
      BY <1>4 DEF IInv, InputsOK
    <3>2. Value \in [1 .. 0 -> {0}]
      BY <3>1 DEF Value
    <3>3. Value \in Seq({0}) /\ Len(Value) = 0
      BY <3>2, FunctionSeq
    <3> QED
      BY <3>3, EmptySeq
  <2> QED
    BY <1>4, <2>1, <2>2, FinishStep
<1>5. CASE ~datum.null
  <2>1. answer.len # NullData
    BY <1>2, <1>5 DEF NullData
  <2>2. Finish(FALSE, Resized(datum.n))
    BY <1>1, <1>2, <1>5, <2>1
  <2>3. Resized(datum.n) = Value /\ Resized(datum.n) \in Seq(BufferUnits)
    BY <1>1, <1>2, <1>3, <1>5, ResizedIsValue, ResizedKeeps
  <2> QED
    BY <1>3, <1>5, <2>2, <2>3, FinishStep
<1> QED
  BY <1>3, <1>4, <1>5

(* What is known when the first read has cut the value.                     *)
LEMMA HeadCut ==
  ASSUME IInv, Answered("head", {"cut"})
  PROVE  /\ TypeOK /\ pc = "head" /\ ~datum.null
         /\ datum.n \in Nat /\ driver.skew \in Nat /\ Terminator \in Nat /\ Terminator <= 1
         /\ Head0 \in Nat /\ Head0 > 1 /\ datum.n > Head0 /\ pos = Head0 /\ Holds(Head0)
         /\ HeadSize \in Nat /\ Len(buf) = HeadSize /\ Head0 = HeadSize - Terminator
         /\ answer.len # NoTotal <=> driver.total
         /\ driver.total => Units(answer.len) = datum.n + driver.skew
<1>1. /\ TypeOK /\ pc = "head" /\ Cut /\ AnsweredOK /\ SpaceOK
  BY DEF IInv, Answered, Cut
<1>2. /\ ~datum.null /\ datum.n > Head0 /\ pos = Head0 /\ Holds(Head0)
      /\ driver.total => answer.len \in Nat /\ Units(answer.len) = datum.n + driver.skew
      /\ ~driver.total => answer.len = NoTotal
  BY <1>1 DEF AnsweredOK
<1>3. Len(buf) = HeadSize
  BY <1>1 DEF SpaceOK, Reads
<1>4. NoTotal \notin Nat
  BY DEF NoTotal
<1>5. /\ datum.n \in Nat /\ driver.skew \in Nat /\ Terminator \in Nat /\ Terminator <= 1
      /\ Head0 \in Nat /\ Head0 > 1 /\ HeadSize \in Nat /\ Head0 = HeadSize - Terminator
      /\ driver.total \in BOOLEAN
  BY <1>1, Sizes
<1>6. answer.len # NoTotal <=> driver.total
  BY <1>2, <1>4, <1>5
<1> QED
  BY <1>1, <1>2, <1>3, <1>5, <1>6

(* the call for the whole in one part,                                      *)
LEMMA AskSinglePartStep ==
  ASSUME IInv, AskSinglePart
  PROVE  IInv'
<1>1. Answered("head", {"cut"}) /\ quirk
  BY DEF AskSinglePart
<1>2. CASE answer.len = NoTotal
  <2>1. Throw
    BY <1>2 DEF AskSinglePart
  <2>2. quirk /\ ~driver.total
    BY <1>1, <1>2, HeadCut
  <2> QED
    BY <2>1, <2>2, ThrowStep
<1>3. CASE answer.len # NoTotal
  <2> DEFINE size == Units(answer.len) + Terminator
             zero == 0
  <2>1. Ask("single", Resized(size), zero, size)
    BY <1>3 DEF AskSinglePart
  <2>2. /\ size = datum.n + driver.skew + Terminator /\ driver.total
    BY <1>1, <1>3, HeadCut
  <2>3. /\ size \in Nat /\ zero \in Nat /\ zero <= size /\ size - zero = size
        /\ size >= Terminator /\ size >= HeadSize
    <3>1. size \in Nat /\ size >= Terminator /\ size >= HeadSize
      BY <1>1, <2>2, HeadCut
    <3> HIDE DEF size
    <3> QED
      BY <3>1
  <2> HIDE DEF size, zero
  <2>4. "single" \in Reads /\ Ask("single", Resized(size), zero, size - zero)
    BY <2>1, <2>3 DEF Reads
  <2>5. /\ TypeOK' /\ InputsOK' /\ AnsweredOK' /\ ExactOrThrown' /\ ThrowsForAReason'
        /\ pc' = "single" /\ answer' = Pending /\ pos' = pos
        /\ ask'.start = zero /\ ask'.cap = size - zero /\ Len(buf') = size
        /\ UNCHANGED <<datum, wide, quirk, driver>>
    BY <2>3, <2>4, AskFacts
  <2>6. Terminator' = Terminator /\ Head0' = Head0 /\ zero = 0 /\ zero + (size - zero) = size
    BY <2>3, <2>5 DEF Terminator, Head0, zero
  <2>7. SpaceOK'
    BY <1>1, <2>2, <2>3, <2>5, <2>6, HeadCut DEF SpaceOK
  <2>8. AskedOK'
    BY <1>1, <2>5, <2>6, HeadCut DEF AskedOK
  <2> QED
    BY <2>5, <2>7, <2>8 DEF IInv
<1> QED
  BY <1>2, <1>3

(* the call for the rest,                                                   *)
LEMMA AskTailStep ==
  ASSUME IInv, AskTail
  PROVE  IInv'
<1> DEFINE size == Units(answer.len) + Terminator
           head == Len(buf) - Terminator
<1>1. /\ Answered("head", {"cut"}) /\ ~quirk /\ answer.len # NoTotal
      /\ Ask("tail", Resized(size), head, size - head)
  BY DEF AskTail
<1>2. /\ size = datum.n + driver.skew + Terminator /\ driver.total
      /\ head = Head0 /\ head \in Nat /\ head <= Len(buf)
  BY <1>1, HeadCut
<1>3. /\ size \in Nat /\ head <= size /\ size - head >= Terminator /\ size >= HeadSize
  BY <1>1, <1>2, HeadCut
<1> HIDE DEF size, head
<1>4. "tail" \in Reads
  BY DEF Reads
<1>5. /\ TypeOK' /\ InputsOK' /\ AnsweredOK' /\ ExactOrThrown' /\ ThrowsForAReason'
      /\ pc' = "tail" /\ answer' = Pending /\ pos' = pos
      /\ ask'.start = head /\ ask'.cap = size - head /\ Len(buf') = size
      /\ UNCHANGED <<datum, wide, quirk, driver>>
      /\ \A i \in 1 .. size : i <= Len(buf) => buf'[i] = buf[i]
  BY <1>1, <1>2, <1>3, <1>4, AskFacts
<1>6. Terminator' = Terminator /\ Head0' = Head0 /\ head + (size - head) = size
  BY <1>2, <1>3, <1>5 DEF Terminator, Head0
<1>7. SpaceOK'
  BY <1>1, <1>2, <1>3, <1>5, <1>6, HeadCut DEF SpaceOK
<1>8. Holds(Head0)'
  <2>1. SUFFICES ASSUME NEW i \in 1 .. head PROVE buf'[i] = i
    BY <1>2, <1>6 DEF Holds
  <2>2. i \in 1 .. size /\ i <= Len(buf)
    BY <1>2, <1>3, HeadCut, <1>1
  <2>3. buf[i] = i
    BY <1>1, <1>2, HeadCut DEF Holds
  <2> QED
    BY <1>5, <2>2, <2>3
<1>9. AskedOK'
  BY <1>1, <1>5, <1>6, <1>8, HeadCut DEF AskedOK
<1> QED
  BY <1>5, <1>7, <1>9 DEF IInv

(* the call for one more part,                                              *)
LEMMA AskMoreStep ==
  ASSUME IInv, AskMore
  PROVE  IInv'
<1> DEFINE length == Len(buf)
           size == 2 * length
           head == length - Terminator
<1>1. /\ \/ Answered("head", {"cut"}) /\ ~quirk /\ answer.len = NoTotal
         \/ Answered("multi", {"cut"})
      /\ Ask("multi", Resized(size), head, size - head)
  BY DEF AskMore
<1>2. /\ ~quirk /\ ~driver.total /\ ~datum.null /\ datum.n > Head0 /\ length >= HeadSize
      /\ ~driver.whole => pos = head /\ Holds(head)
  <2>1. CASE Answered("head", {"cut"}) /\ ~quirk /\ answer.len = NoTotal
    <3>1. head = Head0 /\ length >= HeadSize
      BY <2>1, HeadCut
    <3> QED
      BY <2>1, <3>1, HeadCut
  <2>2. CASE Answered("multi", {"cut"})
    <3>1. pc = "multi" /\ Cut /\ pc \in Reads /\ SpaceOK /\ AnsweredOK
      BY <2>2 DEF IInv, Answered, Cut, Reads
    <3>2. ~driver.whole => pos = head /\ Holds(head)
      BY <3>1 DEF AnsweredOK
    <3> QED
      BY <3>1, <3>2 DEF SpaceOK
  <2> QED
    BY <1>1, <2>1, <2>2
<1>3. /\ length \in Nat /\ HeadSize \in Nat /\ HeadSize > 2 /\ Terminator \in Nat /\ Terminator <= 1
  BY Sizes DEF IInv
<1> HIDE DEF length
<1>4. /\ size \in Nat /\ head \in Nat /\ head <= size /\ size - head >= Terminator
      /\ size >= HeadSize /\ head <= length /\ head + (size - head) = size
  BY <1>2, <1>3
<1> HIDE DEF size, head
<1>5. "multi" \in Reads
  BY DEF Reads
<1>6. /\ TypeOK' /\ InputsOK' /\ AnsweredOK' /\ ExactOrThrown' /\ ThrowsForAReason'
      /\ pc' = "multi" /\ answer' = Pending /\ pos' = pos
      /\ ask'.start = head /\ ask'.cap = size - head /\ Len(buf') = size
      /\ UNCHANGED <<datum, wide, quirk, driver>>
      /\ \A i \in 1 .. size : i <= Len(buf) => buf'[i] = buf[i]
  BY <1>1, <1>4, <1>5, AskFacts
<1>7. Terminator' = Terminator /\ Head0' = Head0
  BY <1>6 DEF Terminator, Head0
<1>8. SpaceOK'
  BY <1>2, <1>4, <1>6, <1>7 DEF SpaceOK
<1>9. ~driver.whole => pos' = head /\ Holds(pos)'
  <2>1. SUFFICES ASSUME ~driver.whole, NEW i \in 1 .. head PROVE buf'[i] = i
    BY <1>2, <1>6 DEF Holds
  <2>2. i \in 1 .. size /\ i <= Len(buf)
    BY <1>3, <1>4 DEF length
  <2>3. buf[i] = i
    BY <1>2, <2>1 DEF Holds
  <2> QED
    BY <1>6, <2>2, <2>3
<1>10. AskedOK'
  BY <1>6, <1>9 DEF AskedOK
<1> QED
  BY <1>6, <1>8, <1>10 DEF IInv

(* The value is complete: the lengths of the two reads agree.               *)
LEMMA EndOfTwo ==
  ASSUME IInv, NEW read \in {"tail", "single"}, Answered(read, {"ok", "info", "cut"}),
         IF Units(answer.len) = Len(buf) - Terminator - ask.start
         THEN Finish(FALSE, Resized(Len(buf) - Terminator))
         ELSE Throw
  PROVE  IInv'
<1> DEFINE expected == Len(buf) - Terminator - ask.start
<1>1. /\ TypeOK /\ pc = read /\ pc \in Reads /\ (Complete \/ Cut) /\ SpaceOK /\ AnsweredOK
  BY DEF IInv, Answered, Complete, Cut, Reads
<1>2. /\ Units(answer.len) = expected => driver.skew = 0 /\ Holds(datum.n)
      /\ Matched /\ driver.skew = 0 => Units(answer.len) = expected
  BY <1>1 DEF AnsweredOK
<1>3. Len(buf) = datum.n + driver.skew + Terminator /\ ~datum.null
  BY <1>1 DEF SpaceOK
<1>4. datum.n \in Nat /\ Terminator \in Nat /\ datum.null \in BOOLEAN
  BY <1>1, Sizes
<1>5. CASE Units(answer.len) = expected
  <2>1. Len(buf) - Terminator = datum.n /\ datum.n <= Len(buf)
    BY <1>2, <1>3, <1>4, <1>5
  <2>2. Finish(FALSE, Resized(datum.n))
    BY <1>5, <2>1
  <2>3. Resized(datum.n) = Value /\ Resized(datum.n) \in Seq(BufferUnits)
    BY <1>1, <1>2, <1>4, <1>5, <2>1, ResizedIsValue, ResizedKeeps
  <2> QED
    BY <1>3, <1>4, <2>2, <2>3, FinishStep
<1>6. CASE Units(answer.len) # expected
  <2>1. Throw
    BY <1>6
  <2> QED
    BY <1>2, <1>6, <2>1, ThrowStep
<1> QED
  BY <1>5, <1>6

(* the end of a tail read,                                                  *)
LEMMA EndTailStep ==
  ASSUME IInv, EndTail
  PROVE  IInv'
BY EndOfTwo DEF EndTail

(* of a read in one part,                                                   *)
LEMMA EndSinglePartStep ==
  ASSUME IInv, EndSinglePart
  PROVE  IInv'
<1>1. /\ Answered("single", {"ok", "info", "cut"})
      /\ IF Units(answer.len) = Len(buf) - Terminator
         THEN Finish(FALSE, Resized(Len(buf) - Terminator))
         ELSE Throw
  BY DEF EndSinglePart
<1>2. Len(buf) - Terminator = Len(buf) - Terminator - ask.start
  <2>1. ask.start = 0 /\ TypeOK
    BY <1>1 DEF IInv, SpaceOK, Answered, Reads
  <2>2. Len(buf) \in Nat /\ Terminator \in Nat
    BY <2>1, Sizes
  <2> QED
    BY <2>1, <2>2
<1>3. IF Units(answer.len) = Len(buf) - Terminator - ask.start
      THEN Finish(FALSE, Resized(Len(buf) - Terminator))
      ELSE Throw
  BY <1>1, <1>2
<1> QED
  BY <1>1, <1>3, EndOfTwo

(* and of the last part.                                                    *)
LEMMA EndMoreStep ==
  ASSUME IInv, EndMore
  PROVE  IInv'
<1> DEFINE end == ask.start + Units(answer.len)
<1>1. /\ TypeOK /\ pc = "multi" /\ pc \in Reads /\ Complete /\ SpaceOK /\ AnsweredOK
      /\ Finish(FALSE, Resized(end))
  BY DEF IInv, EndMore, Answered, Complete, Reads
<1>2. /\ answer.len \in Nat
      /\ ~driver.whole => end = datum.n /\ Holds(datum.n) /\ datum.n <= Len(buf)
  BY <1>1 DEF AnsweredOK
<1>3. ~quirk /\ ~driver.total /\ ~datum.null
  BY <1>1 DEF SpaceOK
<1>4. end \in Nat
  <2>1. ask.start \in Nat
    BY <1>1, Sizes
  <2>2. Units(answer.len) \in Nat
    <3>1. UnitBytes = 1 \/ UnitBytes = 2
      BY DEF UnitBytes
    <3>2. answer.len \div 1 \in Nat /\ answer.len \div 2 \in Nat
      BY <1>2
    <3> QED
      BY <3>1, <3>2 DEF Units
  <2> QED
    BY <2>1, <2>2
<1>5. datum.null \in BOOLEAN
  BY <1>1, Sizes
<1> HIDE DEF end
<1>6. Resized(end) \in Seq(BufferUnits)
  BY <1>1, <1>4, ResizedKeeps
<1>7. ~Undetectable => datum.null = FALSE /\ Resized(end) = Value
  BY <1>1, <1>2, <1>3, <1>5, ResizedIsValue DEF Undetectable
<1> QED
  BY <1>1, <1>5, <1>6, <1>7, FinishStep

-----------------------------------------------------------------------------
(* The theorems.                                                            *)

(* The first read is asked for with an empty buffer.                        *)
THEOREM InitIInv == Init => IInv
<1> SUFFICES ASSUME Init PROVE IInv
  OBVIOUS
<1>1. HeadSize \in Nat /\ HeadSize > 2 /\ MaxLen \in Nat
  BY HeadAssumption
<1>2. /\ datum \in [null : BOOLEAN, n : 0 .. MaxLen] /\ (datum.null => datum.n = 0)
      /\ wide \in BOOLEAN /\ quirk \in BOOLEAN
      /\ driver \in [total : BOOLEAN, whole : BOOLEAN, odd : 0 .. 1, skew : 0 .. 1]
      /\ ~wide => driver.odd = 0
      /\ pos = 0 /\ buf = Blanks(HeadSize) /\ answer = Pending /\ pc = "head"
  BY DEF Init
<1>3. buf \in Seq(BufferUnits) /\ Len(buf) = HeadSize
  BY <1>1, <1>2, BlanksSeq
<1>4. result \in [null : BOOLEAN, units : Seq(BufferUnits)]
  <2>1. <<>> \in Seq(BufferUnits)
    BY EmptySeq
  <2> QED
    BY <2>1 DEF Init
<1>5. /\ ask \in [start : Nat, cap : Nat] /\ ask.start = 0 /\ ask.cap = HeadSize
  <2> DEFINE zero == 0
  <2>1. zero \in Nat /\ ask = [start |-> zero, cap |-> HeadSize]
    BY DEF Init
  <2> HIDE DEF zero
  <2>2. ask \in [start : Nat, cap : Nat] /\ ask.start = zero /\ ask.cap = HeadSize
    BY <1>1, <2>1
  <2> QED
    BY <2>2 DEF zero
<1>6. /\ Pending \in [ret : {"pending", "ok", "info", "cut", "failed"}, len : Int]
      /\ Pending.ret = "pending"
  BY DEF Pending
<1>7. TypeOK
  <2>1. pos \in 0 .. MaxLen
    BY <1>1, <1>2
  <2> QED
    BY <1>2, <1>3, <1>4, <1>5, <1>6, <2>1 DEF TypeOK, BufferUnits, Reads
<1>8. InputsOK /\ SpaceOK /\ AskedOK
  <2>1. datum.n \in Nat /\ Terminator \in Nat /\ Terminator <= 1
    BY <1>7, Sizes
  <2> QED
    BY <1>1, <1>2, <1>3, <1>5, <2>1 DEF InputsOK, SpaceOK, AskedOK
<1>9. AnsweredOK
  <2>1. ~Complete /\ ~Cut
    BY <1>2, <1>6 DEF Complete, Cut
  <2> QED
    BY <2>1 DEF AnsweredOK
<1>10. ExactOrThrown /\ ThrowsForAReason
  BY <1>2 DEF ExactOrThrown, ThrowsForAReason
<1> QED
  BY <1>7, <1>8, <1>9, <1>10 DEF IInv

(* Each call of the driver and each step between two of them keeps buffer,  *)
(* position and lengths in step.                                            *)
THEOREM StepIInv == IInv /\ [Next]_vars => IInv'
<1> SUFFICES ASSUME IInv, [Next]_vars PROVE IInv'
  OBVIOUS
<1>1. CASE GetData
  BY <1>1, GetDataStep
<1>2. CASE ReadFails
  BY <1>2, ReadFailsStep
<1>3. CASE SingleRead
  BY <1>3, SingleReadStep
<1>4. CASE AskSinglePart
  BY <1>4, AskSinglePartStep
<1>5. CASE AskTail
  BY <1>5, AskTailStep
<1>6. CASE AskMore
  BY <1>6, AskMoreStep
<1>7. CASE EndTail
  BY <1>7, EndTailStep
<1>8. CASE EndSinglePart
  BY <1>8, EndSinglePartStep
<1>9. CASE EndMore
  BY <1>9, EndMoreStep
<1>10. CASE UNCHANGED vars
  <2> USE <1>10 DEF vars, inputVars
  <2>1. TypeOK' /\ InputsOK' /\ ExactOrThrown' /\ ThrowsForAReason'
    BY DEF IInv, TypeOK, InputsOK, ExactOrThrown, ThrowsForAReason, Value, Undetectable, Matched
  <2>2. SpaceOK' /\ AskedOK'
    BY DEF IInv, SpaceOK, AskedOK, Holds, Head0, Terminator
  <2>3. AnsweredOK'
    BY DEF IInv, AnsweredOK, Complete, Cut, Holds, Head0, Terminator, Units, UnitBytes, Matched
  <2> QED
    BY <2>1, <2>2, <2>3 DEF IInv
<1> QED
  BY <1>1, <1>2, <1>3, <1>4, <1>5, <1>6, <1>7, <1>8, <1>9, <1>10 DEF Next, Step, Over

(* The invariant holds throughout.                                          *)
THEOREM AlwaysIInv == Spec => []IInv
BY InitIInv, StepIInv, PTL DEF Spec

(* The variables keep their types: nothing but units of the value, blanks   *)
(* and terminators gets into the buffer, and no length is negative.         *)
THEOREM TypeCorrect == Spec => []TypeOK
<1>1. IInv => TypeOK
  BY DEF IInv
<1> QED
  BY <1>1, AlwaysIInv, PTL

(* FetchInternal returns the value unit by unit or throws, for every size   *)
(* of its first buffer above two and every length of the value.             *)
THEOREM FetchIsExact == Spec => []ExactOrThrown
<1>1. IInv => ExactOrThrown
  BY DEF IInv
<1> QED
  BY <1>1, AlwaysIInv, PTL

(* With the right quirk and truthful lengths FetchInternal throws only for  *)
(* a failure of the driver or a length that it must have and has not.       *)
THEOREM FetchGivesNoValueUp == Spec => []ThrowsForAReason
<1>1. IInv => ThrowsForAReason
  BY DEF IInv
<1> QED
  BY <1>1, AlwaysIInv, PTL

(* The parts meet in the buffer, and the space announced is the space there *)
(* is.                                                                      *)
THEOREM FetchPartsMeet == Spec => []PartsMeet
<1>1. IInv => PartsMeet
  <2> SUFFICES ASSUME IInv, pc \in Reads, answer = Pending
               PROVE  /\ ask.start + ask.cap = Len(buf)
                      /\ Matched => \/ SubSeq(buf, 1, ask.start) = SubSeq(Value, 1, pos)
                                    \/ pc = "single"
    BY DEF PartsMeet
  <2>1. TypeOK /\ SpaceOK /\ AskedOK /\ InputsOK
    BY DEF IInv
  <2>2. ask.start + ask.cap = Len(buf)
    BY <2>1 DEF SpaceOK
  <2>3. ASSUME Matched, pc # "single"
        PROVE  SubSeq(buf, 1, ask.start) = SubSeq(Value, 1, pos)
    <3>1. /\ pos = ask.start /\ Holds(pos)
      <4>1. CASE pc = "head"
        BY <2>1, <4>1 DEF SpaceOK, AskedOK, Holds
      <4>2. CASE pc = "tail"
        BY <2>1, <4>2 DEF SpaceOK, AskedOK
      <4>3. CASE pc = "multi"
        BY <2>1, <2>3, <4>3 DEF SpaceOK, AskedOK, Matched
      <4> QED
        BY <2>3, <4>1, <4>2, <4>3 DEF Reads
    <3>2. /\ pos \in Nat /\ pos <= datum.n /\ datum.n \in Nat /\ datum.n <= MaxLen /\ MaxLen \in Nat
          /\ buf \in Seq(BufferUnits) /\ ask.start \in Nat /\ ask.cap \in Nat /\ Len(buf) \in Nat
      BY <2>1, Sizes DEF InputsOK
    <3>3. \A i \in 1 .. pos : buf[i] = i /\ Value[i] = i /\ i \in BufferUnits
      BY <3>1, <3>2 DEF Holds, Value, BufferUnits
    <3>4. /\ SubSeq(buf, 1, pos) \in Seq(BufferUnits)
          /\ Len(SubSeq(buf, 1, pos)) = IF 1 <= pos THEN pos - 1 + 1 ELSE 0
          /\ \A i \in 1 .. pos - 1 + 1 : SubSeq(buf, 1, pos)[i] = buf[1 + i - 1]
      <4>1. \A i \in 1 .. pos : buf[i] \in BufferUnits
        BY <3>3
      <4> QED
        BY <3>2, <4>1, SubSeqProperties
    <3>5. /\ SubSeq(Value, 1, pos) \in Seq(BufferUnits)
          /\ Len(SubSeq(Value, 1, pos)) = IF 1 <= pos THEN pos - 1 + 1 ELSE 0
          /\ \A i \in 1 .. pos - 1 + 1 : SubSeq(Value, 1, pos)[i] = Value[1 + i - 1]
      <4>1. \A i \in 1 .. pos : Value[i] \in BufferUnits
        BY <3>3
      <4> QED
        BY <3>2, <4>1, SubSeqProperties
    <3>6. \A i \in 1 .. Len(SubSeq(buf, 1, pos)) : SubSeq(buf, 1, pos)[i] = SubSeq(Value, 1, pos)[i]
      <4>1. SUFFICES ASSUME NEW i \in 1 .. Len(SubSeq(buf, 1, pos))
                     PROVE  SubSeq(buf, 1, pos)[i] = SubSeq(Value, 1, pos)[i]
        OBVIOUS
      <4>2. i \in 1 .. pos /\ i \in 1 .. pos - 1 + 1 /\ 1 + i - 1 = i
        BY <3>2, <3>4
      <4> QED
        BY <3>3, <3>4, <3>5, <4>2
    <3> QED
      BY <3>1, <3>4, <3>5, <3>6, SeqEqual
  <2> QED
    BY <2>2, <2>3
<1> QED
  BY <1>1, AlwaysIInv, PTL

-----------------------------------------------------------------------------
(* EnvLists: the invariant.                                                 *)

Row == [kind : Kinds, text : Texts]
Reading == stage \in {"lengths", "entries"}
Begun == begun[Kind]
Current == Begun.list

(* Nobody has changed the list since the attempt began ...                  *)
Steady == Begun.from = changes

(* ... and the attempt began where the list does.                           *)
FromStart == ~Resumed(Kind)

KindsInv ==
  /\ kinds \in {<<"driver">>, <<"user", "system">>, <<"system">>, <<>>}
  /\ stage \in {"lengths", "entries", "return", "exhausted", "thrown"}
  /\ Reading => kinds # <<>>
  /\ stage \in {"return", "exhausted"} => kinds = <<>>

ReadTypes ==
  /\ registered \in [Kinds -> Seq(Texts)]
  /\ changes \in Nat /\ cursor \in Nat
  /\ lengths \in Seq({Length(t) : t \in Texts})
  /\ entries \in Seq(Texts)
  /\ attempt \in Nat

RowTypes == listed \in Seq(Row) /\ rows \in Seq(Row)

BegunTypes == begun \in [Kinds -> [list : Seq(Texts), pos : Nat, from : Nat, to : Nat]]

LengthsMatch ==
  /\ Len(lengths) <= Len(Current)
  /\ \A i \in 1 .. Len(lengths) : lengths[i] = Length(Current[i])
  /\ stage = "lengths" /\ (Kind = "driver" \/ lengths # <<>>) => cursor = Len(lengths)
  /\ stage = "entries" => Len(lengths) = Len(Current)

EntriesMatch ==
  /\ Len(entries) <= Len(Current)
  /\ \A i \in 1 .. Len(entries) : entries[i] = Current[i]
  /\ entries # <<>> => cursor = Len(entries)

(* What the two passes know of the list that is read.                       *)
AttemptInv ==
  Reading =>
    /\ Begun.from <= changes
    /\ Steady => registered[Kind] = Current
    /\ stage = "lengths" => entries = <<>>
    /\ Steady /\ FromStart => LengthsMatch /\ EntriesMatch

In(k, list) == \E i \in DOMAIN list : list[i] = k
ToRead(k) == In(k, kinds)

(* The kinds still to read have no rows, the others all of theirs.          *)
ListedInv ==
  \A k \in Kinds :
    IF ToRead(k)
    THEN \A i \in DOMAIN listed : listed[i].kind # k
    ELSE ~Undisturbed(k) \/ Resumed(k) \/ AreWhole(listed, k, begun[k].list)

(* The rows returned are the first of the rows listed.                      *)
RowsInv ==
  /\ Len(rows) <= Len(listed)
  /\ \A i \in 1 .. Len(rows) : rows[i] = listed[i]
  /\ stage = "exhausted" => Len(rows) = Len(listed)

ListInv ==
  KindsInv /\ ReadTypes /\ RowTypes /\ BegunTypes /\ AttemptInv /\ ListedInv /\ RowsInv

(* The first of the kinds still to read, and what is left after it.         *)
LEMMA CurrentKind ==
  ASSUME KindsInv, Reading
  PROVE  /\ Kind \in Kinds /\ ToRead(Kind)
         /\ Tail(kinds) \in {<<"driver">>, <<"user", "system">>, <<"system">>, <<>>}
         /\ \A k \in Kinds : ToRead(k) <=> k = Kind \/ In(k, Tail(kinds))
         /\ ~In(Kind, Tail(kinds))
         /\ Tail(kinds) # <<>> =>
              /\ Head(Tail(kinds)) \in Kinds \ {"driver"}
              /\ In(Head(Tail(kinds)), Tail(kinds))
<1>1. CASE kinds = <<"driver">>
  <2>1. Kind = "driver" /\ Tail(kinds) = <<>> /\ DOMAIN kinds = {1} /\ DOMAIN Tail(kinds) = {}
    BY <1>1 DEF Kind
  <2> QED
    BY <1>1, <2>1 DEF Kinds, ToRead, In
<1>2. CASE kinds = <<"system">>
  <2>1. Kind = "system" /\ Tail(kinds) = <<>> /\ DOMAIN kinds = {1} /\ DOMAIN Tail(kinds) = {}
    BY <1>2 DEF Kind
  <2> QED
    BY <1>2, <2>1 DEF Kinds, ToRead, In
<1>3. CASE kinds = <<"user", "system">>
  <2>1. /\ Kind = "user" /\ Tail(kinds) = <<"system">>
        /\ DOMAIN kinds = {1, 2} /\ DOMAIN Tail(kinds) = {1}
    BY <1>3 DEF Kind
  <2>2. /\ kinds[1] = "user" /\ kinds[2] = "system"
        /\ Tail(kinds)[1] = "system" /\ Head(Tail(kinds)) = "system"
    BY <1>3, <2>1
  <2> QED
    BY <1>3, <2>1, <2>2 DEF Kinds, ToRead, In
<1> QED
  BY <1>1, <1>2, <1>3 DEF KindsInv

(* A list the driver manager may have is a list of texts.                   *)
LEMMA ListsTyped == Lists \subseteq Seq(Texts)
<1>1. \A n \in 0 .. MaxEntries : [1 .. n -> Texts] \subseteq Seq(Texts)
  BY SeqDef, ListAssumption
<1> QED
  BY <1>1 DEF Lists

(* What the invariant says of the kinds and of their rows depends only on   *)
(* what was listed and on the last attempts at the kinds that are listed.   *)
LEMMA ListedFrame ==
  ASSUME ListedInv, UNCHANGED <<kinds, listed>>,
         \A k \in Kinds : ToRead(k) \/ begun'[k] = begun[k]
  PROVE  ListedInv'
<1>1. \A k : ToRead(k)' <=> ToRead(k)
  BY DEF ToRead, In
<1>2. ASSUME NEW k \in Kinds, ~ToRead(k),
             ~Undisturbed(k) \/ Resumed(k) \/ AreWhole(listed, k, begun[k].list)
      PROVE  (~Undisturbed(k) \/ Resumed(k) \/ AreWhole(listed, k, begun[k].list))'
  <2>1. begun'[k] = begun[k] /\ listed' = listed
    BY <1>2
  <2>2. Undisturbed(k)' = Undisturbed(k) /\ Resumed(k)' = Resumed(k)
    BY <2>1 DEF Undisturbed, Resumed
  <2>3. AreWhole(listed', k, begun'[k].list) = AreWhole(listed, k, begun[k].list)
    BY <2>1
  <2> QED
    BY <1>2, <2>2, <2>3
<1>3. ASSUME NEW k \in Kinds, ToRead(k), \A i \in DOMAIN listed : listed[i].kind # k
      PROVE  (\A i \in DOMAIN listed : listed[i].kind # k)'
  BY <1>3
<1> QED
  BY <1>1, <1>2, <1>3 DEF ListedInv

(* The invariant holds before anything is read.                             *)
LEMMA ListInitInv == ListInit => ListInv
<1> SUFFICES ASSUME ListInit PROVE ListInv
  OBVIOUS
<1>1. KindsInv /\ Reading
  <2>1. kinds = <<"driver">> \/ kinds = <<"user", "system">>
    BY DEF ListInit
  <2>2. kinds # <<>>
    <3>1. CASE kinds = <<"driver">>
      BY <3>1
    <3>2. CASE kinds = <<"user", "system">>
      BY <3>2
    <3> QED
      BY <2>1, <3>1, <3>2
  <2>3. stage = "lengths"
    BY DEF ListInit
  <2> QED
    BY <2>1, <2>2, <2>3 DEF KindsInv, Reading
<1>2. Kind \in Kinds /\ ToRead(Kind)
  BY <1>1, CurrentKind
<1>3. registered \in [Kinds -> Seq(Texts)]
  BY ListsTyped DEF ListInit
<1>4. ReadTypes /\ RowTypes
  BY <1>3 DEF ListInit, ReadTypes, RowTypes
<1>5. /\ BegunTypes
      /\ \A k \in Kinds : begun[k] = [list |-> registered[k], pos |-> 0, from |-> 0, to |-> 0]
  BY <1>3 DEF ListInit, BegunTypes, Begin
<1>6. AttemptInv
  <2>1. Begun = [list |-> registered[Kind], pos |-> 0, from |-> 0, to |-> 0]
    BY <1>2, <1>5 DEF Begun
  <2>2. registered[Kind] \in Seq(Texts)
    BY <1>2, <1>3
  <2>3. /\ changes = 0 /\ cursor = 0 /\ lengths = <<>> /\ entries = <<>> /\ stage = "lengths"
        /\ Len(lengths) = 0 /\ Len(entries) = 0
    BY DEF ListInit
  <2>4. LengthsMatch /\ EntriesMatch
    BY <2>1, <2>2, <2>3 DEF LengthsMatch, EntriesMatch, Current
  <2> QED
    BY <2>1, <2>3, <2>4 DEF AttemptInv, Current, Steady
<1>7. ListedInv
  <2>1. ASSUME NEW k \in Kinds, ~ToRead(k) PROVE AreWhole(listed, k, begun[k].list)
    <3>1. registered[k] = <<>>
      BY <2>1 DEF ListInit, ToRead, In
    <3>2. begun[k].list = <<>> /\ listed = <<>>
      BY <1>5, <3>1 DEF ListInit
    <3>3. /\ Len(listed) = 0 /\ Len(begun[k].list) = 0
          /\ DOMAIN listed = {} /\ DOMAIN begun[k].list = {}
      BY <3>2
    <3>4. 0 \in 0 .. Len(listed) /\ 0 + 1 .. 0 + Len(begun[k].list) = {}
      BY <3>3
    <3>5. {i \in DOMAIN listed : listed[i].kind = k} = {}
      BY <3>3
    <3>6. \A i \in DOMAIN begun[k].list : listed[0 + i].text = begun[k].list[i]
      BY <3>3
    <3> QED
      BY <3>4, <3>5, <3>6 DEF AreWhole
  <2>2. DOMAIN listed = {}
    BY DEF ListInit
  <2> QED
    BY <2>1, <2>2 DEF ListedInv
<1>8. RowsInv
  BY DEF ListInit, RowsInv
<1> QED
  BY <1>1, <1>4, <1>5, <1>6, <1>7, <1>8 DEF ListInv

(* A change by others leaves the invariant: the attempt is not steady any   *)
(* more.                                                                    *)
LEMMA ListChangeStep == ListInv /\ Change => ListInv'
<1> SUFFICES ASSUME ListInv, Change PROVE ListInv'
  OBVIOUS
<1>1. KindsInv /\ Reading /\ Kind \in Kinds
  BY CurrentKind DEF ListInv, Change, Reading
<1>2. PICK list \in Lists : registered' = [registered EXCEPT ![Kind] = list]
  BY DEF Change
<1>3. /\ UNCHANGED <<lengths, entries, attempt, kinds, cursor, listed, rows, stage, begun>>
      /\ changes' = changes + 1
  BY DEF Change, attemptVars
<1>4. KindsInv' /\ Kind' = Kind
  BY <1>1, <1>3 DEF KindsInv, Reading, Kind
<1>5. ReadTypes' /\ RowTypes' /\ BegunTypes'
  <2>1. registered' \in [Kinds -> Seq(Texts)]
    BY <1>2, ListsTyped DEF ListInv, ReadTypes
  <2> QED
    BY <1>3, <2>1 DEF ListInv, ReadTypes, RowTypes, BegunTypes
<1>6. AttemptInv'
  <2>1. /\ Begun.from <= changes /\ Begun.from \in Nat /\ changes \in Nat
        /\ stage = "lengths" => entries = <<>>
    BY <1>1 DEF ListInv, AttemptInv, BegunTypes, ReadTypes, Begun
  <2>2. Begun' = Begun
    BY <1>3, <1>4 DEF Begun
  <2>3. Begun.from <= changes' /\ Begun.from # changes'
    BY <1>3, <2>1
  <2> QED
    BY <1>3, <2>1, <2>2, <2>3 DEF AttemptInv, Steady
<1>7. ListedInv' /\ RowsInv'
  BY <1>3, ListedFrame DEF ListInv, RowsInv
<1> QED
  BY <1>4, <1>5, <1>6, <1>7 DEF ListInv

(* Where the enumeration comes to is a number, and an entry of a list is a  *)
(* text.                                                                    *)
LEMMA EntryTyped ==
  ASSUME ReadTypes, Kind \in Kinds, NEW first \in BOOLEAN
  PROVE  /\ At(first) \in Nat /\ At(first) >= 1
         /\ registered[Kind] \in Seq(Texts) /\ Len(registered[Kind]) \in Nat
         /\ ~NoData(first) => Enumerated(first) \in Texts
         /\ Moved(first) => cursor' \in Nat
<1>1. registered[Kind] \in Seq(Texts) /\ cursor \in Nat
  BY DEF ReadTypes
<1>2. At(first) \in Nat /\ At(first) >= 1
  BY <1>1 DEF At
<1>3. Len(registered[Kind]) \in Nat
  BY <1>1
<1>4. ASSUME ~NoData(first) PROVE Enumerated(first) \in Texts
  <2>1. At(first) \in 1 .. Len(registered[Kind])
    BY <1>2, <1>3, <1>4 DEF NoData
  <2> QED
    BY <1>1, <2>1, ElementOfSeq DEF Enumerated
<1>5. Moved(first) => cursor' \in Nat
  BY <1>2 DEF Moved
<1> QED
  BY <1>1, <1>2, <1>3, <1>4, <1>5

(* In an attempt begun at the start of a list that nobody changed since,    *)
(* the first pass comes to the entry after those it has the lengths of ...  *)
LEMMA LengthExpected ==
  ASSUME ListInv, stage = "lengths", Steady, FromStart
  PROVE  /\ At(LengthsFromFirst) = Len(lengths) + 1
         /\ registered[Kind] = Current
         /\ LengthsMatch /\ entries = <<>>
<1>1. KindsInv /\ ReadTypes /\ Reading
  BY DEF ListInv, Reading
<1>2. /\ LengthsMatch /\ entries = <<>> /\ registered[Kind] = Current
  BY <1>1 DEF ListInv, AttemptInv
<1>3. lengths = <<>> => Len(lengths) = 0
  OBVIOUS
<1>4. CASE LengthsFromFirst
  BY <1>2, <1>3, <1>4 DEF At, LengthsFromFirst
<1>5. CASE ~LengthsFromFirst
  <2>1. cursor = Len(lengths)
    BY <1>2, <1>5 DEF LengthsFromFirst, LengthsMatch
  <2> QED
    BY <1>2, <1>5, <2>1 DEF At
<1> QED
  BY <1>4, <1>5

(* ... and the second to the entry it expects, with the length it expects.  *)
LEMMA EntryExpected ==
  ASSUME ListInv, stage = "entries", Len(entries) < Len(lengths), Steady, FromStart
  PROVE  LET first == entries = <<>>
         IN  /\ At(first) = Len(entries) + 1 /\ ~NoData(first)
             /\ Enumerated(first) = Current[Len(entries) + 1]
             /\ Length(Enumerated(first)) = lengths[Len(entries) + 1]
<1> DEFINE first == entries = <<>>
<1>1. KindsInv /\ ReadTypes /\ Reading
  BY DEF ListInv, Reading
<1>2. LengthsMatch /\ EntriesMatch /\ registered[Kind] = Current
  BY <1>1 DEF ListInv, AttemptInv
<1>3. /\ Len(entries) \in Nat /\ Len(lengths) \in Nat /\ Len(lengths) = Len(Current)
      /\ (entries = <<>> => Len(entries) = 0)
  BY <1>1, <1>2 DEF ReadTypes, LengthsMatch
<1>4. At(first) = Len(entries) + 1
  <2>1. CASE entries = <<>>
    BY <1>3, <2>1 DEF At
  <2>2. CASE entries # <<>>
    BY <1>2, <2>2 DEF At, EntriesMatch
  <2> QED
    BY <2>1, <2>2
<1>5. Len(entries) + 1 \in 1 .. Len(lengths) /\ Len(entries) + 1 <= Len(Current)
  BY <1>3
<1>6. ~NoData(first) /\ Enumerated(first) = Current[Len(entries) + 1]
  BY <1>2, <1>3, <1>4, <1>5 DEF NoData, Enumerated
<1> QED
  BY <1>2, <1>4, <1>5, <1>6 DEF LengthsMatch

(* A step of the first pass leaves the invariant.                           *)
LEMMA ListReadLengthStep == ListInv /\ ReadLength => ListInv'
<1> SUFFICES ASSUME ListInv, ReadLength PROVE ListInv'
  OBVIOUS
<1> DEFINE first == LengthsFromFirst
<1>1. /\ KindsInv /\ Reading /\ Kind \in Kinds /\ stage = "lengths" /\ ReadTypes
      /\ first \in BOOLEAN
  BY CurrentKind DEF ListInv, ReadLength, Reading, LengthsFromFirst
<1>2. UNCHANGED <<kinds, registered, changes, entries, attempt, listed, rows, begun>>
  BY DEF ReadLength
<1>3. /\ Kind' = Kind /\ Begun' = Begun /\ Current' = Current
      /\ Steady' = Steady /\ FromStart' = FromStart
  BY <1>2 DEF Kind, Begun, Current, Steady, Resumed, FromStart
<1>4. /\ cursor' \in Nat
      /\ cursor' = IF NoData(first) THEN 0 ELSE At(first)
      /\ IF NoData(first)
         THEN stage' = "entries" /\ lengths' = lengths
         ELSE lengths' = Append(lengths, Length(Enumerated(first))) /\ stage' = stage
  BY <1>1, EntryTyped DEF ReadLength, Moved
<1>5. KindsInv'
  BY <1>1, <1>2, <1>4 DEF KindsInv, Reading
<1>6. ReadTypes' /\ RowTypes' /\ BegunTypes'
  <2> DEFINE T == {Length(t) : t \in Texts}
  <2>1. lengths \in Seq(T)
    BY <1>1 DEF ReadTypes
  <2>2. lengths' \in Seq(T)
    <3>1. CASE NoData(first)
      BY <1>4, <2>1, <3>1
    <3>2. CASE ~NoData(first)
      <4>1. Length(Enumerated(first)) \in T
        BY <1>1, <3>2, EntryTyped
      <4> HIDE DEF T
      <4> QED
        BY <1>4, <2>1, <3>2, <4>1, AppendProperties
    <3> QED
      BY <3>1, <3>2
  <2>3. RowTypes /\ BegunTypes
    BY DEF ListInv
  <2> QED
    BY <1>1, <1>2, <1>4, <2>2, <2>3 DEF ReadTypes, RowTypes, BegunTypes
<1>7. AttemptInv'
  <2>1. /\ Begun.from <= changes /\ (Steady => registered[Kind] = Current) /\ entries = <<>>
    BY <1>1 DEF ListInv, AttemptInv
  <2>2. ASSUME Steady, FromStart PROVE LengthsMatch' /\ EntriesMatch'
    <3>1. /\ At(first) = Len(lengths) + 1 /\ registered[Kind] = Current
          /\ LengthsMatch /\ entries = <<>>
      BY <1>1, <2>2, LengthExpected
    <3>2. /\ Current \in Seq(Texts) /\ Len(Current) \in Nat /\ Len(lengths) \in Nat
          /\ Len(lengths) <= Len(Current)
      BY <1>1, <3>1 DEF ReadTypes, LengthsMatch
    <3>3. EntriesMatch'
      <4>1. entries' = <<>> /\ Len(entries') = 0
        BY <1>2, <3>1
      <4> QED
        BY <1>3, <3>2, <4>1 DEF EntriesMatch
    <3>4. CASE NoData(first)
      <4>1. Len(lengths) = Len(Current)
        BY <3>1, <3>2, <3>4 DEF NoData
      <4> QED
        BY <1>3, <1>4, <3>1, <3>3, <3>4, <4>1 DEF LengthsMatch
    <3>5. CASE ~NoData(first)
      <4> DEFINE l == Len(lengths) + 1
                 x == Length(Current[l])
      <4>1. Len(lengths) < Len(Current) /\ lengths' = Append(lengths, x) /\ cursor' = l
        BY <1>4, <3>1, <3>2, <3>5 DEF NoData, Enumerated
      <4>2. lengths \in Seq({Length(t) : t \in Texts})
        BY <1>1 DEF ReadTypes
      <4> HIDE DEF x
      <4>3. Len(lengths') = l /\ \A i \in 1 .. l : lengths'[i] = IF i = l THEN x ELSE lengths[i]
        BY <4>1, <4>2
      <4>4. \A i \in 1 .. l : lengths'[i] = Length(Current[i])
        BY <3>1, <4>3 DEF LengthsMatch, x
      <4>5. stage' = "lengths"
        BY <1>1, <1>4, <3>5
      <4> QED
        BY <1>3, <3>2, <3>3, <4>1, <4>3, <4>4, <4>5 DEF LengthsMatch
    <3> QED
      BY <3>4, <3>5
  <2>3. (Begun.from <= changes)' /\ (Steady => registered[Kind] = Current)' /\ entries' = <<>>
    BY <1>2, <1>3, <2>1
  <2> QED
    BY <1>3, <2>2, <2>3 DEF AttemptInv
<1>8. ListedInv' /\ RowsInv'
  <2>1. stage' # "exhausted"
    BY <1>1, <1>4
  <2> QED
    BY <1>2, <2>1, ListedFrame DEF ListInv, RowsInv
<1> QED
  BY <1>5, <1>6, <1>7, <1>8 DEF ListInv

(* An entry that is as long as it was is taken over.                        *)
LEMMA ListAdvanceStep ==
  ASSUME ListInv, ReadEntry, NEW first \in BOOLEAN, first <=> entries = <<>>,
         ~NoData(first), entries' = Append(entries, Enumerated(first)),
         UNCHANGED <<lengths, attempt, stage, begun>>
  PROVE  ListInv'
<1>1. /\ KindsInv /\ Reading /\ Kind \in Kinds /\ stage = "entries" /\ ReadTypes
      /\ Len(entries) < Len(lengths)
  BY CurrentKind DEF ListInv, ReadEntry, Reading
<1>2. UNCHANGED <<kinds, registered, changes, listed, rows, lengths, attempt, stage, begun>>
  BY DEF ReadEntry
<1>3. /\ Kind' = Kind /\ Begun' = Begun /\ Current' = Current
      /\ Steady' = Steady /\ FromStart' = FromStart
  BY <1>2 DEF Kind, Begun, Current, Steady, Resumed, FromStart
<1>4. /\ Enumerated(first) \in Texts
      /\ Moved(first) => cursor' \in Nat /\ cursor' = At(first)
  BY <1>1, EntryTyped DEF Moved
<1>5. Moved(first)
  <2>1. first = (entries = <<>>)
    BY Zenon
  <2> QED
    BY <2>1 DEF ReadEntry
<1>6. KindsInv'
  BY <1>1, <1>2 DEF KindsInv, Reading
<1>7. ReadTypes' /\ RowTypes' /\ BegunTypes'
  <2>1. entries' \in Seq(Texts)
    BY <1>1, <1>4, AppendProperties DEF ReadTypes
  <2> QED
    BY <1>1, <1>2, <1>4, <1>5, <2>1 DEF ReadTypes, RowTypes, BegunTypes, ListInv
<1>8. AttemptInv'
  <2>1. Begun.from <= changes /\ (Steady => registered[Kind] = Current)
    BY <1>1 DEF ListInv, AttemptInv
  <2>2. ASSUME Steady, FromStart PROVE LengthsMatch' /\ EntriesMatch'
    <3> DEFINE l == Len(entries) + 1
    <3>1. At(first) = l /\ Enumerated(first) = Current[l]
      <4>1. first = (entries = <<>>)
        BY Zenon
      <4> QED
        BY <1>1, <2>2, <4>1, EntryExpected
    <3>2. LengthsMatch /\ EntriesMatch
      BY <1>1, <2>2 DEF ListInv, AttemptInv
    <3>3. entries \in Seq(Texts) /\ Len(entries) \in Nat /\ Len(lengths) \in Nat
      BY <1>1 DEF ReadTypes
    <3>4. /\ Len(entries') = l
          /\ \A i \in 1 .. l : entries'[i] = IF i = l THEN Current[l] ELSE entries[i]
      BY <3>1, <3>3
    <3>5. l <= Len(Current) /\ cursor' = l
      BY <1>1, <1>4, <1>5, <3>1, <3>2, <3>3 DEF LengthsMatch
    <3>6. EntriesMatch'
      BY <1>3, <3>2, <3>3, <3>4, <3>5 DEF EntriesMatch
    <3>7. LengthsMatch'
      BY <1>1, <1>2, <1>3, <3>2 DEF LengthsMatch
    <3> QED
      BY <3>6, <3>7
  <2> QED
    BY <1>1, <1>2, <1>3, <2>1, <2>2 DEF AttemptInv
<1>9. ListedInv' /\ RowsInv'
  BY <1>2, ListedFrame DEF ListInv, RowsInv
<1> QED
  BY <1>6, <1>7, <1>8, <1>9 DEF ListInv

(* One that is not makes the function begin with the lengths again, or give *)
(* up.                                                                      *)
LEMMA ListMismatchStep ==
  ASSUME ListInv, ReadEntry, Mismatch
  PROVE  ListInv'
<1>1. /\ KindsInv /\ Reading /\ Kind \in Kinds /\ ToRead(Kind) /\ ReadTypes /\ BegunTypes
  BY CurrentKind DEF ListInv, ReadEntry, Reading
<1>2. UNCHANGED <<kinds, registered, changes, listed, rows>>
  BY DEF ReadEntry
<1>3. /\ Kind' = Kind /\ lengths' = <<>> /\ entries' = <<>> /\ Len(lengths') = 0
      /\ Len(entries') = 0 /\ attempt' \in Nat
  BY <1>1, <1>2 DEF Mismatch, Kind, ReadTypes
<1>4. cursor' \in Nat
  BY <1>1, EntryTyped DEF ReadEntry
<1>5. ReadTypes' /\ RowTypes'
  BY <1>1, <1>2, <1>3, <1>4 DEF ReadTypes, RowTypes, ListInv
<1>6. /\ registered[Kind] \in Seq(Texts) /\ Len(registered[Kind]) \in Nat
  BY <1>1 DEF ReadTypes
<1> DEFINE b == [list |-> registered[Kind], pos |-> cursor', from |-> changes, to |-> changes]
<1>7. CASE stage' = "lengths" /\ begun' = [begun EXCEPT ![Kind] = b]
  <2>1. /\ begun'[Kind] = b /\ \A k \in Kinds : k # Kind => begun'[k] = begun[k]
    BY <1>1, <1>7 DEF BegunTypes
  <2>2. /\ Begun'.list = registered[Kind] /\ Begun'.pos = cursor' /\ Begun'.from = changes
        /\ Current' = registered[Kind]
    BY <1>3, <2>1 DEF Begun, Current
  <2>3. BegunTypes'
    BY <1>1, <1>4, <1>6, <1>7 DEF BegunTypes, ReadTypes
  <2>4. KindsInv'
    BY <1>1, <1>2, <1>7 DEF KindsInv, Reading
  <2>5. LengthsMatch' \/ ~FromStart'
    <3>1. SUFFICES ASSUME FromStart' PROVE LengthsMatch'
      OBVIOUS
    <3>2. Kind = "driver" => cursor' = 0
      BY <1>3, <2>2, <3>1 DEF FromStart, Resumed, Begun
    <3> QED
      BY <1>3, <1>6, <1>7, <2>2, <3>2 DEF LengthsMatch
  <2>6. EntriesMatch'
    BY <1>3, <1>6, <2>2 DEF EntriesMatch
  <2>7. AttemptInv'
    <3>1. /\ Begun'.from <= changes' /\ registered'[Kind'] = Current'
      BY <1>1, <1>2, <1>3, <2>2 DEF ReadTypes
    <3> QED
      BY <1>3, <2>5, <2>6, <3>1 DEF AttemptInv
  <2>8. ListedInv' /\ RowsInv'
    <3>1. \A k \in Kinds : ToRead(k) \/ begun'[k] = begun[k]
      BY <1>1, <2>1
    <3> QED
      BY <1>2, <1>7, <3>1, ListedFrame DEF ListInv, RowsInv
  <2> QED
    BY <1>5, <2>3, <2>4, <2>7, <2>8 DEF ListInv
<1>8. CASE stage' = "thrown" /\ begun' = begun
  <2>1. KindsInv' /\ BegunTypes'
    BY <1>1, <1>2, <1>8 DEF KindsInv, Reading, BegunTypes
  <2>2. AttemptInv'
    BY <1>8 DEF AttemptInv, Reading
  <2>3. ListedInv' /\ RowsInv'
    BY <1>2, <1>8, ListedFrame DEF ListInv, RowsInv
  <2> QED
    BY <1>5, <2>1, <2>2, <2>3 DEF ListInv
<1> QED
  BY <1>7, <1>8 DEF Mismatch, Begin, GiveUp

(* A step of the second pass leaves the invariant, whichever way the texts  *)
(* compare.                                                                 *)
LEMMA ListReadEntryStep == ListInv /\ ReadEntry => ListInv'
<1> SUFFICES ASSUME ListInv, ReadEntry PROVE ListInv'
  OBVIOUS
<1> DEFINE first == entries = <<>>
<1>1. first \in BOOLEAN
  OBVIOUS
<1>2. CASE Mismatch
  BY <1>2, ListMismatchStep
<1>3. CASE ~NoData(first) /\ entries' = Append(entries, Enumerated(first))
           /\ UNCHANGED <<lengths, attempt, stage, begun>>
  BY <1>1, <1>3, ListAdvanceStep
<1> QED
  BY <1>2, <1>3 DEF ReadEntry

(* The rows of s after those of r.                                          *)
JoinedAs(t, r, s) ==
  /\ Len(r) \in Nat /\ Len(s) \in Nat
  /\ DOMAIN r = 1 .. Len(r) /\ DOMAIN s = 1 .. Len(s)
  /\ Len(t) = Len(r) + Len(s)
  /\ DOMAIN t = 1 .. Len(r) + Len(s)
  /\ \A i \in 1 .. Len(r) : t[i] = r[i]
  /\ \A i \in Len(r) + 1 .. Len(r) + Len(s) : t[i] = s[i - Len(r)]

(* One sequence joined to another is its elements behind those of the other.*)
LEMMA Joined ==
  ASSUME NEW S, NEW r \in Seq(S), NEW s \in Seq(S)
  PROVE  r \o s \in Seq(S) /\ JoinedAs(r \o s, r, s)
<1>1. /\ r \o s \in Seq(S) /\ Len(r \o s) = Len(r) + Len(s)
      /\ \A i \in 1 .. Len(r) + Len(s) :
           (r \o s)[i] = IF i <= Len(r) THEN r[i] ELSE s[i - Len(r)]
  BY ConcatProperties
<1>2. /\ Len(r) \in Nat /\ Len(s) \in Nat
      /\ DOMAIN r = 1 .. Len(r) /\ DOMAIN s = 1 .. Len(s)
  OBVIOUS
<1>3. DOMAIN (r \o s) = 1 .. Len(r \o s)
  BY <1>1
<1> DEFINE t == r \o s
<1> HIDE DEF t
<1>4. /\ \A i \in 1 .. Len(r) + Len(s) : t[i] = IF i <= Len(r) THEN r[i] ELSE s[i - Len(r)]
  BY <1>1 DEF t
<1>5. \A i \in 1 .. Len(r) : t[i] = r[i]
  BY <1>2, <1>4
<1>6. \A i \in Len(r) + 1 .. Len(r) + Len(s) : t[i] = s[i - Len(r)]
  BY <1>2, <1>4
<1> QED
  BY <1>1, <1>2, <1>3, <1>5, <1>6 DEF t, JoinedAs

(* Rows of another kind do not make the rows of a kind less whole ...       *)
LEMMA WholeBeforeMore ==
  ASSUME NEW r \in Seq(Row), NEW s \in Seq(Row), NEW k, NEW l \in Seq(Texts),
         AreWhole(r, k, l), \A i \in 1 .. Len(s) : s[i].kind # k
  PROVE  AreWhole(r \o s, k, l)
<1>1. PICK before \in 0 .. Len(r) :
         /\ {i \in DOMAIN r : r[i].kind = k} = before + 1 .. before + Len(l)
         /\ \A i \in DOMAIN l : r[before + i].text = l[i]
  BY DEF AreWhole
<1> DEFINE t == r \o s
<1>2. Len(l) \in Nat /\ DOMAIN l = 1 .. Len(l)
  OBVIOUS
<1>3. /\ Len(r) \in Nat /\ Len(s) \in Nat /\ DOMAIN r = 1 .. Len(r)
      /\ Len(t) = Len(r) + Len(s) /\ DOMAIN t = 1 .. Len(r) + Len(s)
      /\ \A i \in 1 .. Len(r) : t[i] = r[i]
      /\ \A i \in Len(r) + 1 .. Len(r) + Len(s) : t[i] = s[i - Len(r)]
  <2>1. JoinedAs(t, r, s)
    BY Joined
  <2> HIDE DEF t
  <2> QED
    BY <2>1 DEF JoinedAs
<1> HIDE DEF t
<1>4. {i \in DOMAIN t : t[i].kind = k} = {i \in DOMAIN r : r[i].kind = k}
  <2>1. ASSUME NEW i \in Len(r) + 1 .. Len(r) + Len(s) PROVE t[i].kind # k
    <3>1. i - Len(r) \in 1 .. Len(s) /\ t[i] = s[i - Len(r)]
      BY <1>3
    <3> QED
      BY <3>1
  <2>2. ASSUME NEW i \in 1 .. Len(r) PROVE t[i].kind = k <=> r[i].kind = k
    BY <1>3
  <2>3. 1 .. Len(r) + Len(s) = (1 .. Len(r)) \cup (Len(r) + 1 .. Len(r) + Len(s))
    BY <1>3
  <2> QED
    BY <1>3, <2>1, <2>2, <2>3
<1>5. \A i \in DOMAIN l : t[before + i].text = l[i]
  <2>1. ASSUME NEW i \in DOMAIN l PROVE before + i \in 1 .. Len(r)
    <3>1. before + i \in before + 1 .. before + Len(l)
      BY <1>2
    <3> QED
      BY <1>1, <1>2, <3>1
  <2> QED
    BY <1>1, <1>2, <1>3, <2>1
<1>6. before \in 0 .. Len(t)
  BY <1>2, <1>3
<1> QED
  BY <1>1, <1>4, <1>5, <1>6 DEF AreWhole, t

(* ... and the rows of a list that are added to those of other kinds are    *)
(* whole.                                                                   *)
LEMMA WholeWhenAdded ==
  ASSUME NEW r \in Seq(Row), NEW s \in Seq(Row), NEW k, NEW l \in Seq(Texts),
         \A i \in 1 .. Len(r) : r[i].kind # k, Len(s) = Len(l),
         \A i \in 1 .. Len(s) : s[i].kind = k /\ s[i].text = l[i]
  PROVE  AreWhole(r \o s, k, l)
<1> DEFINE t == r \o s
<1>1. Len(l) \in Nat /\ DOMAIN l = 1 .. Len(l)
  OBVIOUS
<1>2. /\ Len(r) \in Nat /\ Len(s) \in Nat /\ DOMAIN r = 1 .. Len(r)
      /\ Len(t) = Len(r) + Len(s) /\ DOMAIN t = 1 .. Len(r) + Len(s)
      /\ \A i \in 1 .. Len(r) : t[i] = r[i]
      /\ \A i \in Len(r) + 1 .. Len(r) + Len(s) : t[i] = s[i - Len(r)]
  <2>1. JoinedAs(t, r, s)
    BY Joined
  <2> HIDE DEF t
  <2> QED
    BY <2>1 DEF JoinedAs
<1> HIDE DEF t
<1>3. {i \in DOMAIN t : t[i].kind = k} = Len(r) + 1 .. Len(r) + Len(l)
  <2>1. ASSUME NEW i \in 1 .. Len(r) PROVE t[i].kind # k
    BY <1>1, <1>2
  <2>2. ASSUME NEW i \in Len(r) + 1 .. Len(r) + Len(l) PROVE t[i].kind = k
    <3>1. i - Len(r) \in 1 .. Len(s) /\ t[i] = s[i - Len(r)]
      BY <1>1, <1>2
    <3> QED
      BY <3>1
  <2> QED
    BY <1>1, <1>2, <2>1, <2>2
<1>4. ASSUME NEW i \in DOMAIN l PROVE t[Len(r) + i].text = l[i]
  <2>1. Len(r) + i \in Len(r) + 1 .. Len(r) + Len(s) /\ (Len(r) + i) - Len(r) = i
    BY <1>1, <1>2
  <2>2. t[Len(r) + i] = s[i]
    BY <1>2, <2>1
  <2> QED
    BY <1>1, <2>2
<1>5. Len(r) \in 0 .. Len(t)
  BY <1>1, <1>2
<1> QED
  BY <1>3, <1>4, <1>5 DEF AreWhole, t

(* The end of a list leaves the invariant: its rows are added, whole if the *)
(* attempt was steady.                                                      *)
LEMMA ListEndStep == ListInv /\ EndList => ListInv'
<1> SUFFICES ASSUME ListInv, EndList PROVE ListInv'
  OBVIOUS
<1> DEFINE block == [i \in DOMAIN entries |-> [kind |-> Kind, text |-> entries[i]]]
           next == Head(kinds')
           b == [list |-> registered[next], pos |-> cursor, from |-> changes, to |-> changes]
<1>1. /\ KindsInv /\ Reading /\ Kind \in Kinds /\ ToRead(Kind) /\ ReadTypes /\ RowTypes
      /\ BegunTypes /\ stage = "entries" /\ Len(entries) = Len(lengths)
  BY CurrentKind DEF ListInv, EndList, Reading
<1>2. /\ listed' = listed \o block
      /\ kinds' = Tail(kinds)
      /\ lengths' = <<>> /\ entries' = <<>> /\ attempt' = 0
      /\ stage' = IF kinds' = <<>> THEN "return" ELSE "lengths"
      /\ UNCHANGED <<registered, changes, cursor, rows>>
  BY DEF EndList
<1>3. /\ kinds' \in {<<"driver">>, <<"user", "system">>, <<"system">>, <<>>}
      /\ \A k \in Kinds : ToRead(k) <=> k = Kind \/ In(k, kinds')
      /\ ~In(Kind, kinds')
      /\ kinds' # <<>> => next \in Kinds /\ next # "driver" /\ In(next, kinds')
  BY <1>1, <1>2, CurrentKind
<1>4. KindsInv'
  BY <1>2, <1>3 DEF KindsInv, Reading
<1>5. /\ block \in Seq(Row) /\ Len(block) = Len(entries) /\ Len(entries) \in Nat
      /\ \A i \in 1 .. Len(entries) : block[i].kind = Kind /\ block[i].text = entries[i]
  <2>1. entries \in Seq(Texts) /\ Len(entries) \in Nat /\ DOMAIN entries = 1 .. Len(entries)
    BY <1>1 DEF ReadTypes
  <2>2. \A i \in 1 .. Len(entries) : entries[i] \in Texts
    BY <2>1, ElementOfSeq
  <2>3. block \in [1 .. Len(entries) -> Row]
    BY <1>1, <2>1, <2>2 DEF Row
  <2>4. block \in Seq(Row) /\ Len(block) = Len(entries)
    BY <2>1, <2>3, SeqDef
  <2> QED
    BY <2>1, <2>4
<1> HIDE DEF block
<1>6. /\ begun'[Kind] = [Begun EXCEPT !.to = changes]
      /\ kinds' # <<>> => begun'[next] = b
      /\ \A k \in Kinds : k # Kind /\ (kinds' = <<>> \/ k # next) => begun'[k] = begun[k]
      /\ begun' \in [Kinds -> [list : Seq(Texts), pos : Nat, from : Nat, to : Nat]]
  <2> DEFINE ended == [begun EXCEPT ![Kind].to = changes]
  <2>1. begun' = IF kinds' = <<>> THEN ended ELSE [ended EXCEPT ![next] = b]
    BY DEF EndList, Begin
  <2>2. /\ ended[Kind] = [Begun EXCEPT !.to = changes]
        /\ \A k \in Kinds : k # Kind => ended[k] = begun[k]
        /\ DOMAIN ended = Kinds
    BY <1>1 DEF BegunTypes, Begun
  <2>3. ended \in [Kinds -> [list : Seq(Texts), pos : Nat, from : Nat, to : Nat]]
    BY <1>1 DEF BegunTypes, ReadTypes
  <2>4. kinds' # <<>> => b \in [list : Seq(Texts), pos : Nat, from : Nat, to : Nat]
    BY <1>1, <1>3 DEF ReadTypes
  <2> HIDE DEF ended, b, next
  <2>5. kinds' # <<>> => next # Kind
    BY <1>3
  <2>6. CASE kinds' = <<>>
    BY <2>1, <2>2, <2>3, <2>6
  <2>7. CASE kinds' # <<>>
    <3>1. begun' = [ended EXCEPT ![next] = b] /\ next \in Kinds
      BY <1>3, <2>1, <2>7
    <3>2. begun'[next] = b /\ \A k \in Kinds : k # next => begun'[k] = ended[k]
      BY <2>2, <3>1
    <3>3. begun' \in [Kinds -> [list : Seq(Texts), pos : Nat, from : Nat, to : Nat]]
      BY <2>3, <2>4, <2>7, <3>1
    <3> QED
      BY <1>1, <2>2, <2>5, <2>7, <3>2, <3>3
  <2> QED
    BY <2>6, <2>7
<1>7. ReadTypes' /\ RowTypes' /\ BegunTypes'
  <2> HIDE DEF next, b
  <2>1. listed' \in Seq(Row)
    BY <1>1, <1>2, <1>5, Joined DEF RowTypes
  <2> QED
    BY <1>1, <1>2, <1>6, <2>1 DEF ReadTypes, RowTypes, BegunTypes
<1>8. AttemptInv'
  <2>1. CASE kinds' = <<>>
    BY <1>2, <2>1 DEF AttemptInv, Reading
  <2>2. CASE kinds' # <<>>
    <3>1. /\ Kind' = next /\ Begun' = b /\ Current' = registered[next]
          /\ registered[next] \in Seq(Texts) /\ next # "driver"
      BY <1>1, <1>3, <1>6, <2>2 DEF Kind, Begun, Current, ReadTypes
    <3>2. /\ stage' = "lengths" /\ Len(lengths') = 0 /\ Len(entries') = 0
          /\ Len(registered[next]) \in Nat /\ changes \in Nat
      BY <1>1, <1>2, <2>2, <3>1 DEF ReadTypes
    <3> HIDE DEF next
    <3>3. LengthsMatch' /\ EntriesMatch'
      BY <1>2, <3>1, <3>2 DEF LengthsMatch, EntriesMatch
    <3> QED
      BY <1>2, <3>1, <3>2, <3>3 DEF AttemptInv
  <2> QED
    BY <2>1, <2>2
<1>9. ListedInv'
  <2>1. /\ listed \in Seq(Row) /\ DOMAIN listed = 1 .. Len(listed) /\ Len(listed) \in Nat
        /\ Len(listed') = Len(listed) + Len(entries)
        /\ DOMAIN listed' = 1 .. Len(listed) + Len(entries)
        /\ \A i \in 1 .. Len(listed) : listed'[i] = listed[i]
        /\ \A i \in Len(listed) + 1 .. Len(listed) + Len(entries) :
             listed'[i] = block[i - Len(listed)]
    <3>1. listed \in Seq(Row)
      BY <1>1 DEF RowTypes
    <3>2. JoinedAs(listed', listed, block)
      BY <1>2, <1>5, <3>1, Joined
    <3> QED
      BY <1>5, <3>1, <3>2 DEF JoinedAs
  <2> HIDE DEF next, b
  <2>2. ASSUME NEW k \in Kinds, In(k, kinds') PROVE \A i \in DOMAIN listed' : listed'[i].kind # k
    <3>1. ToRead(k) /\ k # Kind
      BY <1>3, <2>2
    <3>2. \A i \in 1 .. Len(listed) : listed[i].kind # k
      BY <2>1, <3>1 DEF ListInv, ListedInv
    <3>3. \A i \in 1 .. Len(entries) : block[i].kind # k
      BY <1>5, <3>1
    <3>4. ASSUME NEW i \in Len(listed) + 1 .. Len(listed) + Len(entries)
          PROVE  listed'[i].kind # k
      <4>1. i - Len(listed) \in 1 .. Len(entries) /\ listed'[i] = block[i - Len(listed)]
        BY <1>5, <2>1
      <4> QED
        BY <3>3, <4>1
    <3>5. ASSUME NEW i \in 1 .. Len(listed) PROVE listed'[i].kind # k
      BY <2>1, <3>2
    <3> QED
      BY <1>5, <2>1, <3>4, <3>5
  <2>3. ASSUME NEW k \in Kinds, ~In(k, kinds'), k # Kind
        PROVE  (~Undisturbed(k) \/ Resumed(k) \/ AreWhole(listed, k, begun[k].list))'
    <3>1. ~ToRead(k) /\ begun'[k] = begun[k]
      <4>1. kinds' = <<>> \/ k # next
        BY <1>3, <2>3
      <4> QED
        BY <1>3, <1>6, <2>3, <4>1
    <3>2. ~Undisturbed(k) \/ Resumed(k) \/ AreWhole(listed, k, begun[k].list)
      BY <3>1 DEF ListInv, ListedInv
    <3>3. Undisturbed(k)' = Undisturbed(k) /\ Resumed(k)' = Resumed(k)
      BY <3>1 DEF Undisturbed, Resumed
    <3>4. begun[k].list \in Seq(Texts)
      BY <1>1 DEF BegunTypes
    <3>5. \A i \in 1 .. Len(block) : block[i].kind # k
      BY <1>5, <2>3
    <3>6. AreWhole(listed, k, begun[k].list) => AreWhole(listed', k, begun'[k].list)
      BY <1>2, <1>5, <2>1, <3>1, <3>4, <3>5, WholeBeforeMore
    <3> QED
      BY <3>2, <3>3, <3>6
  <2>5. ASSUME Steady, FromStart PROVE AreWhole(listed', Kind, Current)
    <3>1. /\ LengthsMatch /\ EntriesMatch /\ Current \in Seq(Texts)
      BY <1>1, <2>5 DEF ListInv, AttemptInv, BegunTypes, Current, Begun
    <3>2. Len(entries) = Len(Current)
      BY <1>1, <3>1 DEF LengthsMatch
    <3>3. \A i \in 1 .. Len(listed) : listed[i].kind # Kind
      BY <1>1, <2>1 DEF ListInv, ListedInv
    <3>4. \A i \in 1 .. Len(block) : block[i].kind = Kind /\ block[i].text = Current[i]
      BY <1>5, <3>1 DEF EntriesMatch
    <3> QED
      BY <1>2, <1>5, <2>1, <3>1, <3>2, <3>3, <3>4, WholeWhenAdded
  <2>6. /\ begun'[Kind].list = Current /\ begun'[Kind].pos = Begun.pos
        /\ begun'[Kind].from = Begun.from /\ begun'[Kind].to = changes
    BY <1>1, <1>6 DEF BegunTypes, Current, Begun
  <2>7. ASSUME NEW k \in Kinds, k = Kind
        PROVE  (~Undisturbed(k) \/ Resumed(k) \/ AreWhole(listed, k, begun[k].list))'
    <3>1. Undisturbed(k)' => Steady
      BY <2>6, <2>7 DEF Undisturbed, Steady
    <3>2. ~Resumed(k)' => FromStart
      BY <2>6, <2>7 DEF Resumed, FromStart, Begun
    <3> QED
      BY <2>5, <2>6, <2>7, <3>1, <3>2
  <2> QED
    BY <2>2, <2>3, <2>7 DEF ListedInv, ToRead
<1>10. RowsInv'
  <2>1. /\ listed \in Seq(Row) /\ Len(listed) \in Nat /\ rows \in Seq(Row) /\ Len(rows) \in Nat
        /\ Len(rows) <= Len(listed) /\ \A i \in 1 .. Len(rows) : rows[i] = listed[i]
    BY <1>1 DEF RowTypes, ListInv, RowsInv
  <2>2. /\ Len(listed') = Len(listed) + Len(entries)
        /\ \A i \in 1 .. Len(listed) : listed'[i] = listed[i]
    <3>1. JoinedAs(listed', listed, block)
      BY <1>2, <1>5, <2>1, Joined
    <3> QED
      BY <1>5, <3>1 DEF JoinedAs
  <2>3. stage' # "exhausted"
    BY <1>2
  <2> QED
    BY <1>2, <1>5, <2>1, <2>2, <2>3 DEF RowsInv
<1> QED
  BY <1>4, <1>7, <1>8, <1>9, <1>10 DEF ListInv

(* What the reading knows is the same when nothing it reads has changed.    *)
LEMMA AttemptFrame ==
  ASSUME AttemptInv, UNCHANGED <<kinds, registered, changes, cursor, lengths, entries, begun>>,
         stage' = stage \/ ~Reading'
  PROVE  AttemptInv'
<1>1. CASE ~Reading'
  BY <1>1 DEF AttemptInv
<1>2. CASE stage' = stage
  <2>1. Kind' = Kind /\ Begun' = Begun /\ Current' = Current
    BY DEF Kind, Begun, Current
  <2>2. Steady' = Steady /\ FromStart' = FromStart /\ Reading' = Reading
    BY <1>2, <2>1 DEF Steady, FromStart, Resumed, Reading
  <2>3. LengthsMatch' = LengthsMatch /\ EntriesMatch' = EntriesMatch
    BY <1>2, <2>1 DEF LengthsMatch, EntriesMatch
  <2> QED
    BY <1>2, <2>1, <2>2, <2>3 DEF AttemptInv
<1> QED
  BY <1>1, <1>2

(* A call of the driver manager that fails leaves the invariant.            *)
LEMMA ListFailsStep == ListInv /\ ListFails => ListInv'
<1> SUFFICES ASSUME ListInv, ListFails PROVE ListInv'
  OBVIOUS
<1>1. /\ UNCHANGED <<lengths, entries, attempt, kinds, registered, changes, cursor, listed, rows,
                     begun>>
      /\ stage' = "thrown"
  BY DEF ListFails, GiveUp, attemptVars
<1>2. KindsInv' /\ ~Reading'
  BY <1>1 DEF ListInv, KindsInv, Reading
<1>3. ReadTypes' /\ RowTypes' /\ BegunTypes'
  BY <1>1 DEF ListInv, ReadTypes, RowTypes, BegunTypes
<1>4. AttemptInv'
  BY <1>1, <1>2, AttemptFrame DEF ListInv
<1>5. ListedInv' /\ RowsInv'
  BY <1>1, ListedFrame DEF ListInv, RowsInv
<1> QED
  BY <1>2, <1>3, <1>4, <1>5 DEF ListInv

(* A chunk leaves the invariant, and one that is not full is the last.      *)
LEMMA ListReturnStep == ListInv /\ Return => ListInv'
<1> SUFFICES ASSUME ListInv, Return PROVE ListInv'
  OBVIOUS
<1> DEFINE left == Len(listed) - Len(rows)
           n == IF left < VectorSize THEN left ELSE VectorSize
           more == SubSeq(listed, Len(rows) + 1, Len(rows) + n)
<1>1. /\ UNCHANGED <<lengths, entries, attempt, kinds, registered, changes, cursor, listed, begun>>
      /\ stage = "return" /\ rows' = rows \o more
      /\ stage' = IF n < VectorSize THEN "exhausted" ELSE stage
  BY DEF Return, attemptVars
<1>2. KindsInv' /\ ~Reading'
  BY <1>1 DEF ListInv, KindsInv, Reading
<1>3. /\ listed \in Seq(Row) /\ rows \in Seq(Row) /\ Len(rows) \in Nat /\ Len(listed) \in Nat
      /\ Len(rows) <= Len(listed) /\ \A i \in 1 .. Len(rows) : rows[i] = listed[i]
  BY DEF ListInv, RowTypes, RowsInv
<1>4. /\ n \in Nat /\ Len(rows) + n <= Len(listed)
      /\ n < VectorSize => Len(rows) + n = Len(listed)
  BY <1>3, ListAssumption
<1> HIDE DEF n
<1>5. /\ more \in Seq(Row) /\ Len(more) = n
      /\ \A i \in 1 .. n : more[i] = listed[Len(rows) + i]
  <2>1. \A i \in Len(rows) + 1 .. Len(rows) + n : listed[i] \in Row
    BY <1>3, <1>4, ElementOfSeq
  <2>2. /\ more \in Seq(Row)
        /\ Len(more) = IF Len(rows) + 1 <= Len(rows) + n
                       THEN Len(rows) + n - (Len(rows) + 1) + 1 ELSE 0
        /\ \A i \in 1 .. Len(rows) + n - (Len(rows) + 1) + 1 :
             more[i] = listed[Len(rows) + 1 + i - 1]
    BY <1>3, <1>4, <2>1, SubSeqProperties
  <2> HIDE DEF more
  <2> QED
    BY <1>3, <1>4, <2>2
<1> HIDE DEF more
<1>6. rows' \in Seq(Row) /\ JoinedAs(rows', rows, more)
  BY <1>1, <1>3, <1>5, Joined
<1>7. ReadTypes' /\ RowTypes' /\ BegunTypes'
  BY <1>1, <1>6 DEF ListInv, ReadTypes, RowTypes, BegunTypes
<1>8. AttemptInv' /\ ListedInv'
  BY <1>1, <1>2, AttemptFrame, ListedFrame DEF ListInv
<1>9. RowsInv'
  <2>1. Len(rows') = Len(rows) + n
    BY <1>5, <1>6 DEF JoinedAs
  <2>2. ASSUME NEW i \in 1 .. Len(rows) + n PROVE rows'[i] = listed[i]
    <3>1. CASE i \in 1 .. Len(rows)
      BY <1>3, <1>6, <3>1 DEF JoinedAs
    <3>2. CASE i \in Len(rows) + 1 .. Len(rows) + n
      <4>1. i - Len(rows) \in 1 .. n /\ Len(rows) + (i - Len(rows)) = i
        BY <1>3, <1>4, <3>2
      <4> QED
        BY <1>5, <1>6, <3>2, <4>1 DEF JoinedAs
    <3> QED
      BY <1>3, <1>4, <3>1, <3>2
  <2> QED
    BY <1>1, <1>4, <2>1, <2>2 DEF RowsInv
<1> QED
  BY <1>2, <1>7, <1>8, <1>9 DEF ListInv

(* Every step leaves the invariant: it is inductive.                        *)
LEMMA ListNextInv == ListInv /\ [ListNext]_listVars => ListInv'
<1>1. ASSUME ListInv, UNCHANGED listVars PROVE ListInv'
  <2>1. UNCHANGED <<kinds, registered, changes, cursor, lengths, entries, attempt, listed,
                    rows, stage, begun>>
    BY <1>1 DEF listVars
  <2>2. KindsInv' /\ ReadTypes' /\ RowTypes' /\ BegunTypes' /\ RowsInv'
    BY <1>1, <2>1 DEF ListInv, KindsInv, Reading, ReadTypes, RowTypes, BegunTypes, RowsInv
  <2>3. AttemptInv' /\ ListedInv'
    BY <1>1, <2>1, AttemptFrame, ListedFrame DEF ListInv
  <2> QED
    BY <2>2, <2>3 DEF ListInv
<1> QED
  BY <1>1, ListChangeStep, ListReadLengthStep, ListReadEntryStep, ListEndStep, ListFailsStep,
     ListReturnStep DEF ListNext

(* The invariant of the two passes holds in every state of                  *)
(* odbc_list_drivers and odbc_list_data_sources, for lists and vectors of   *)
(* any size.                                                                *)
THEOREM ListInvariant == ListSpec => []ListInv
BY ListInitInv, ListNextInv, PTL DEF ListSpec

(* What odbc_list_drivers and odbc_list_data_sources return in all their    *)
(* chunks is the list as it was registered, in order and each entry once,   *)
(* unless somebody changed it during the last attempt or, for drivers, that *)
(* attempt began elsewhere than at the start.                               *)
THEOREM ListsAreWhole == ListSpec => []ListedWhole
<1>1. ASSUME ListInv PROVE ListedWhole
  <2> SUFFICES ASSUME stage = "exhausted", NEW k \in Kinds, Undisturbed(k), ~Resumed(k)
               PROVE  AreWhole(rows, k, begun[k].list)
    BY DEF ListedWhole
  <2>1. kinds = <<>>
    BY <1>1 DEF ListInv, KindsInv
  <2>2. ~ToRead(k)
    BY <2>1 DEF ToRead, In
  <2>3. AreWhole(listed, k, begun[k].list)
    BY <1>1, <2>2 DEF ListInv, ListedInv
  <2>4. rows = listed
    BY <1>1, SeqEqual DEF ListInv, RowTypes, RowsInv
  <2> QED
    BY <2>3, <2>4
<1> QED
  BY <1>1, ListInvariant, PTL

(* The functions begin again, and give up after max_attempts, only when     *)
(* somebody has changed the list since the attempt began or when the        *)
(* attempt itself was begun in the middle of the drivers: two passes over a *)
(* list that stays the same always agree.                                   *)
THEOREM RetriesHaveACause ==
  ListSpec => [][attempt' > attempt => ~Steady \/ ~FromStart]_listVars
<1>1. ASSUME ListInv, [ListNext]_listVars, attempt' > attempt PROVE ~Steady \/ ~FromStart
  <2>1. attempt \in Nat
    BY <1>1 DEF ListInv, ReadTypes
  <2>2. ReadEntry /\ Mismatch
    <3>1. attempt' # attempt /\ attempt' # 0
      BY <1>1, <2>1
    <3> QED
      BY <1>1, <3>1 DEF ListNext, listVars, attemptVars, Change, ReadLength, ReadEntry, EndList,
         ListFails, Return
  <2>3. entries' = <<>> /\ stage = "entries" /\ Len(entries) < Len(lengths)
    BY <2>2 DEF ReadEntry, Mismatch
  <2> SUFFICES ASSUME Steady, FromStart PROVE FALSE
    OBVIOUS
  <2>4. LET first == entries = <<>>
        IN  ~NoData(first) /\ Length(Enumerated(first)) = lengths[Len(entries) + 1]
    BY <1>1, <2>3, EntryExpected
  <2>5. attempt' = attempt
    BY <2>2, <2>4 DEF ReadEntry
  <2> QED
    BY <1>1, <2>1, <2>5
<1> QED
  BY <1>1, ListInvariant, PTL DEF ListSpec

=============================================================================
