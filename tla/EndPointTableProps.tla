------------------------- MODULE EndPointTableProps -------------------------
(***************************************************************************)
(* The containers, with the end point tables and the lists of mails that   *)
(* are built on a vector, and their properties.                            *)
(***************************************************************************)
EXTENDS EndPointTable, Pop3UidList

Init ==
  /\ kind \in {"vector", "sorted", "pairs", "links", "buffer", "table", "config", "uids"}
  /\ ListInit /\ TableInit /\ UidInit

Next ==
  \/ ListNext /\ UNCHANGED <<tableVars, uidVars>>
  \/ TableNext /\ UNCHANGED uidVars
  \/ UidNext /\ UNCHANGED tableVars

Spec == Init /\ [][Next]_<<listVars, tableVars, uidVars>>

(* A vector has room for what it counts, a buffer for its end too; a list  *)
(* is the same walked from either end; a table is sorted.                  *)
TypeOK ==
  /\ \A i \in {1, 2} : LET v == <<vec, vals>>[i] IN
       v.count \in 0..v.max /\ DOMAIN v.first = 0 .. v.max - 1
  /\ buf.size \in 0..buf.max /\ (buf.mem = <<>> \/ DOMAIN buf.mem = 0..buf.max)
  /\ Reverse(Walk(links.prev, links.tail)) = Walk(links.next, links.head)
  /\ tableKeyMax # NULL => IsSorted(Buckets, LAMBDA b, c : KeyMin(b) <= KeyMin(c))

(* The sequence that a container stands for.                               *)
AsList ==
  CASE kind \in {"vector", "sorted"} -> InUse(vec)
    [] kind = "pairs" -> [i \in 1..vec.count |-> <<vec.first[i - 1], vals.first[i - 1]>>]
    [] kind = "links" -> Walk(links.next, links.head)
    [] kind = "buffer" -> Text(buf)
    [] kind \in {"table", "config", "uids"} -> <<>>

ListPromise == INSTANCE ListSpec WITH list <- AsList

(* Every container implements its promise, call by call: growing, moving   *)
(* and shifting the block loses, doubles or reorders nothing; a name goes  *)
(* with its own value; the array stays sorted and its search finds         *)
(* (SP_NKVector, SP_NKSortedArray, SP_NKNameValueList, SP_NKDoubleLinkList *)
(* and SP_NKStringBuffer).                                                 *)
KeepsPromise == []TypeOK /\ ListPromise!Spec

(* Buckets that do not overlap: the binary search of getList() finds the   *)
(* bucket of a key if there is one, wherever and in whatever order the     *)
(* buckets were added, and none for a key in a gap.                        *)
Disjoint ==
  \A i, j \in DOMAIN Buckets :
    /\ KeyMin(Buckets[i]) <= KeyMax(Buckets[i])
    /\ i # j => \/ KeyMax(Buckets[i]) < KeyMin(Buckets[j])
                \/ KeyMax(Buckets[j]) < KeyMin(Buckets[i])

RightBucket ==
  tableKeyMax # NULL /\ Disjoint =>
    \A key \in TableKeys :
      LET i == Place(vec, key) IN
      IF i >= 0 THEN KeyMin(vec.first[i]) <= key /\ key <= KeyMax(vec.first[i])
      ELSE \A b \in ToSet(Buckets) : key < KeyMin(b) \/ KeyMax(b) < key

(* getRandomEndPoint(): of the draws, each end point that is not paused    *)
(* gets as many as its weight, and a paused one none, whatever is paused,  *)
(* started again, or paused twice.                                         *)
FairShare ==
  kind = "table" =>
    \A b \in ToSet(Buckets) :
      LET list == EndPoints(b)  total == TotalWeight(list, now) IN
      total > 0 =>
        \A i \in DOMAIN list :
          Cardinality({draw \in 0 .. total - 1 : Drawn(list, now, draw) = i})
            = IF now > list[i].enableTime THEN list[i].weight ELSE 0

(* A program that lists the keys of a section and asks for their values    *)
(* gets one for each (testini.cpp:39-52), but for a key without "=" that   *)
(* ends the file (spnkini.cpp:218); and no limit that has a default is     *)
(* ever left at 0 or below it by a file, whatever it lacks.                *)
LastLineBare == file # <<>> /\ ~Last(file).eq /\ ~Last(file).nl

FileIsRead ==
  /\ LastLineBare \/
       \A section \in Ini!SectionNames(file) : \A key \in Ini!KeyNames(file, section) :
         Ini!Value(file, section, key) # NULL
  /\ \A s \in DOMAIN Settings : conf[s] # NULL =>
       \A key \in DOMAIN Settings[s] : Settings[s][key] > 0 => conf[s][key] > 0

(* A key goes to the end points of its bucket, by their weights.           *)
ChoiceIsRight == RightBucket /\ FairShare

(* After fillMailSize() every mail in the list has its own size, in every  *)
(* order of reading, deleting and listing, but for those that are deleted, *)
(* and for the last of a list, if the mailbox has later mails that are not *)
(* in it: find() hands that one out for them (spnkpop3cli.cpp:99-108,      *)
(* spnklist.cpp:73).  A list of new mails has, of the mails of the box     *)
(* that are not deleted, exactly those that no session had read when it    *)
(* was asked for (spnkpop3cli.cpp:185).                                    *)
InList == {Item(vec, i - 1)[1] : i \in 1..vec.count}

SizesAreOwn ==
  /\ filled => \A i \in 1..vec.count :
       LET u == Item(vec, i - 1) IN
       \/ u[1] \in deleted \/ u[3] = Mail[u[2]]
       \/ i = vec.count /\ u[1] < Len(box)
  /\ stage = "new" =>
       /\ \A i \in DOMAIN box : i \in InList \/ i \in deleted \/ box[i] \in known
       /\ \A i \in 1..vec.count : Item(vec, i - 1)[2] \notin known
=============================================================================
