------------------------------ MODULE EnvLists ------------------------------
(***************************************************************************)
(* odbc_list_drivers and odbc_list_data_sources.  Both read what the       *)
(* driver manager enumerates in two passes, the lengths first and then the *)
(* texts into buffers of these lengths, while drivers and data sources are *)
(* installed and removed by others; when a text is not as long as it was   *)
(* they begin again, up to max_attempts times.  The rows then go to DuckDB *)
(* chunk by chunk.                                                         *)
(*                                                                         *)
(* An entry of a list is its text, which stands for the two texts the      *)
(* functions read and compare alike.  The driver manager is external: it   *)
(* keeps one position per environment handle, and one that has reported    *)
(* the end of the list starts over.                                        *)
(***************************************************************************)
EXTENDS Integers, Sequences

CONSTANTS
  Texts,        (* the texts of drivers and data sources                    *)
  Length(_),    (* the length of a text                                     *)
  MaxEntries,   (* bound: entries of a list                                 *)
  MaxChanges,   (* bound: changes by others while a function runs           *)
  VectorSize    (* rows of a chunk                                          *)

(* STANDARD_VECTOR_SIZE is positive.                                        *)
ASSUME ListAssumption == VectorSize \in Nat \ {0} /\ MaxEntries \in Nat

max_attempts == 4

VARIABLES
  kinds,      (* the kinds of lists still to read, the current one first    *)
  registered, (* what the driver manager has of each kind                   *)
  changes,    (* changes made so far                                        *)
  cursor,     (* the entry of the list it has enumerated last               *)
  lengths,    (* the lengths read in this attempt                           *)
  entries,    (* the entries read in this attempt                           *)
  attempt,    (* the attempts before this one                               *)
  listed,     (* the rows to return: [kind, text]                           *)
  rows,       (* the rows returned                                          *)
  stage,      (* what the function does next                                *)
  begun       (* of the attempt at each kind: [list, pos, changes] at its   *)
              (* start, and the changes at its end (history)                *)

attemptVars == <<lengths, entries, attempt, kinds>>
listVars == <<kinds, registered, changes, cursor, lengths, entries, attempt, listed,
              rows, stage, begun>>

Kinds == {"driver", "user", "system"}
Lists == UNION {[1 .. n -> Texts] : n \in 0 .. MaxEntries}
Kind == Head(kinds)
Begin(kind, at) == [list |-> registered[kind], pos |-> at, from |-> changes, to |-> changes]

ListInit ==
  /\ kinds \in {<<"driver">>, <<"user", "system">>}
  /\ registered \in [Kinds -> Lists]
  /\ \A k \in Kinds : k \in {kinds[i] : i \in DOMAIN kinds} \/ registered[k] = <<>>
  /\ changes = 0
  /\ cursor = 0
  /\ lengths = <<>> /\ entries = <<>> /\ attempt = 0
  /\ listed = <<>> /\ rows = <<>>
  /\ stage = "lengths"
  /\ begun = [k \in Kinds |-> Begin(k, 0)]

-----------------------------------------------------------------------------
(* Someone installs, removes or renames an entry of the list being read.    *)
Changed(list, to) ==
  \/ \E i \in DOMAIN list : to = SubSeq(list, 1, i - 1) \o SubSeq(list, i + 1, Len(list))
  \/ \E i \in 0 .. Len(list), t \in Texts :
       to = SubSeq(list, 1, i) \o <<t>> \o SubSeq(list, i + 1, Len(list))
  \/ \E i \in DOMAIN list, t \in Texts : to = [list EXCEPT ![i] = t]

Change ==
  /\ stage \in {"lengths", "entries"}
  /\ changes < MaxChanges
  /\ changes' = changes + 1
  /\ \E list \in Lists :
       /\ Changed(registered[Kind], list)
       /\ registered' = [registered EXCEPT ![Kind] = list]
  /\ UNCHANGED <<attemptVars, cursor, listed, rows, stage, begun>>

(* SQLDriversW, SQLDataSourcesW: the entry they come to, with               *)
(* SQL_FETCH_FIRST... or SQL_FETCH_NEXT; none is SQL_NO_DATA.               *)
At(first) == IF first THEN 1 ELSE cursor + 1
NoData(first) == At(first) > Len(registered[Kind])
Enumerated(first) == registered[Kind][At(first)]
Moved(first) == cursor' = IF NoData(first) THEN 0 ELSE At(first)

-----------------------------------------------------------------------------
(* faulty variant: as for drivers, so for data sources                      *)
LengthsFromFirst_Never == FALSE

(* ReadDataSourceLengths begins with the first data source of its kind,     *)
(* ReadDriverLengths where the enumeration stands.                          *)
LengthsFromFirst == Kind # "driver" /\ lengths = <<>>

ReadLength ==
  /\ stage = "lengths"
  /\ Moved(LengthsFromFirst)
  /\ IF NoData(LengthsFromFirst)
     THEN stage' = "entries" /\ UNCHANGED lengths
     ELSE lengths' = Append(lengths, Length(Enumerated(LengthsFromFirst))) /\ UNCHANGED stage
  /\ UNCHANGED <<kinds, registered, changes, entries, attempt, listed, rows, begun>>

GiveUp == stage' = "thrown"

(* The list is read once more, from its lengths on, or given up.            *)
Mismatch ==
  /\ attempt' = attempt + 1
  /\ lengths' = <<>> /\ entries' = <<>>
  /\ IF attempt + 1 < max_attempts
     THEN stage' = "lengths" /\ begun' = [begun EXCEPT ![Kind] = Begin(Kind, cursor')]
     ELSE GiveUp /\ UNCHANGED begun

(* The second pass begins with the first entry and stops at an end or a     *)
(* length that was not expected.                                            *)
ReadEntry ==
  /\ stage = "entries"
  /\ Len(entries) < Len(lengths)
  /\ LET first == entries = <<>>
     IN  /\ Moved(first)
         /\ IF NoData(first) \/ Length(Enumerated(first)) # lengths[Len(entries) + 1]
            THEN Mismatch
            ELSE /\ entries' = Append(entries, Enumerated(first))
                 /\ UNCHANGED <<lengths, attempt, stage, begun>>
  /\ UNCHANGED <<kinds, registered, changes, listed, rows>>

(* The list is complete; ReadDataSources reads those of the user, then      *)
(* those of the system.                                                     *)
EndList ==
  /\ stage = "entries"
  /\ Len(entries) = Len(lengths)
  /\ listed' = listed \o [i \in DOMAIN entries |-> [kind |-> Kind, text |-> entries[i]]]
  /\ kinds' = Tail(kinds)
  /\ lengths' = <<>> /\ entries' = <<>> /\ attempt' = 0
  /\ stage' = IF kinds' = <<>> THEN "return" ELSE "lengths"
  /\ begun' = LET ended == [begun EXCEPT ![Kind].to = changes]
              IN  IF kinds' = <<>> THEN ended
                  ELSE [ended EXCEPT ![Head(kinds')] = Begin(Head(kinds'), cursor)]
  /\ UNCHANGED <<registered, changes, cursor, rows>>

(* Any call of the driver manager may fail.                                 *)
ListFails ==
  /\ \/ stage = "lengths"
     \/ stage = "entries" /\ Len(entries) < Len(lengths)
  /\ GiveUp
  /\ UNCHANGED <<attemptVars, registered, changes, cursor, listed, rows, begun>>

(* faulty variant: a chunk that is just filled is taken for the last one    *)
Return_FullIsLast ==
  /\ stage = "return"
  /\ LET left == Len(listed) - Len(rows)
         n == IF left < VectorSize THEN left ELSE VectorSize
     IN  /\ rows' = rows \o SubSeq(listed, Len(rows) + 1, Len(rows) + n)
         /\ stage' = "exhausted"
  /\ UNCHANGED <<attemptVars, registered, changes, cursor, listed, begun>>

(* A call of ListDrivers or ListDataSources after the lists were read.      *)
Return ==
  /\ stage = "return"
  /\ LET left == Len(listed) - Len(rows)
         n == IF left < VectorSize THEN left ELSE VectorSize
     IN  /\ rows' = rows \o SubSeq(listed, Len(rows) + 1, Len(rows) + n)
         /\ stage' = IF n < VectorSize THEN "exhausted" ELSE stage
  /\ UNCHANGED <<attemptVars, registered, changes, cursor, listed, begun>>

ListNext ==
  \/ Change \/ ReadLength \/ ReadEntry \/ EndList \/ ListFails \/ Return

ListSpec == ListInit /\ [][ListNext]_listVars

-----------------------------------------------------------------------------
(* The rows of a kind are the texts of the list, one after the other.       *)
AreWhole(given, kind, list) ==
  \E before \in 0 .. Len(given) :
    /\ {i \in DOMAIN given : given[i].kind = kind} = before + 1 .. before + Len(list)
    /\ \A i \in DOMAIN list : given[before + i].text = list[i]

(* Nobody changed the list while it was read for the last time.             *)
Undisturbed(kind) == begun[kind].from = begun[kind].to

(* A second attempt at the drivers begins where the first one stopped: the  *)
(* lengths of the entries before are missing from it, and so are as many    *)
(* drivers from the result, all of them when the last one had changed.      *)
Resumed(kind) == begun[kind].pos # 0 /\ kind = "driver"

(* What the function returns in all its chunks is the list as it was        *)
(* registered, in order and each entry once, unless somebody changed it     *)
(* during the last attempt or that attempt was not begun at the start of    *)
(* the list.                                                                *)
ListedWhole ==
  stage = "exhausted" =>
    \A k \in Kinds :
      \/ ~Undisturbed(k) \/ Resumed(k)
      \/ AreWhole(rows, k, begun[k].list)
=============================================================================
