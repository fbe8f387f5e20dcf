------------------------------- MODULE NKList -------------------------------
(***************************************************************************)
(* The containers of spnklist.cpp and the buffer of spnkbuffer.cpp, as     *)
(* they keep their items in memory: a vector is a block of max places of   *)
(* which the first count are in use, the rest holding whatever is there.   *)
(* kind says which one a behaviour is about.                               *)
(***************************************************************************)
EXTENDS Integers, SequencesExt

CONSTANTS
  NULL, Junk,   \* no item; what is in memory that nobody has written
  Items,        \* the items: <<key or name, what tells it from another>>
  Bytes,        \* how many bytes a call appends to a buffer
  MaxLen, MaxBuf

VARIABLES
  kind,         \* "vector", "sorted", "pairs", "links", "buffer", or what is built on one
  vec, vals,    \* a vector; "pairs" keeps the names in one, the values in the other
  links,        \* head, tail and the next and prev of each node
  buf,          \* mem, size and max of a buffer
  call, ret     \* the last call and what it returned

listVars == <<kind, vec, vals, links, buf, call, ret>>

LAST_INDEX == -1
Keys == {x[1] : x \in Items}

Called(op, x, i) == call' = [op |-> op, item |-> x, at |-> i]
Returns(x, n) == ret' = [item |-> x, code |-> n]

-----------------------------------------------------------------------------
(* SP_NKVector.                                                            *)

NewVector(n) ==
  LET max == IF n <= 0 THEN 2 ELSE n IN
  [first |-> [j \in 0 .. max - 1 |-> Junk], count |-> 0, max |-> max]

Grown(v) ==
  LET max == (v.max * 3) \div 2 + 1 IN
  IF v.count < v.max THEN v
  ELSE [v EXCEPT !.max = max,
                 !.first = [j \in 0 .. max - 1 |-> IF j < v.count THEN v.first[j] ELSE NULL]]

Appended(v, x) ==
  LET g == Grown(v) IN [g EXCEPT !.first[g.count] = x, !.count = @ + 1]

Index(v, i) == IF i = LAST_INDEX THEN v.count - 1 ELSE i
Holds(v, i) == Index(v, i) \in 0 .. v.count - 1
Item(v, i) == IF Holds(v, i) THEN v.first[Index(v, i)] ELSE NULL

(* A slip the code could make: one of the items stays.                     *)
MovedUsed(v, i) ==
  [j \in 0 .. v.max - 1 |-> IF j \in i .. v.count - 3 THEN v.first[j + 1] ELSE v.first[j]]

(* All that follows the item in the block moves down one place.            *)
Moved(v, i) ==
  [j \in 0 .. v.max - 1 |->
     CASE j < i -> v.first[j]
       [] j >= i /\ j < v.max - 1 -> v.first[j + 1]
       [] j = v.max - 1 -> IF i = j THEN NULL ELSE v.first[j]]

Taken(v, i) ==
  IF Holds(v, i) THEN [v EXCEPT !.count = @ - 1, !.first = Moved(v, Index(v, i))] ELSE v

(* Selection sort: the first of the least of what is left changes places   *)
(* with the item at i, for each i but the last.                            *)
Least(v, i) ==
  CHOOSE m \in i .. v.count - 1 : \A j \in i .. v.count - 1 :
    \/ v.first[m][1] < v.first[j][1]
    \/ (v.first[m][1] = v.first[j][1] /\ m <= j)
SortStep(v, i) ==
  LET m == Least(v, i) IN [v EXCEPT !.first[i] = v.first[m], !.first[m] = v.first[i]]

Sorted(v) ==
  LET sort[n \in 0..v.count] == IF n = 0 THEN v ELSE SortStep(sort[n - 1], n - 1) IN
  IF v.count = 0 THEN v ELSE sort[v.count - 1]

InUse(v) == [i \in 1..v.count |-> v.first[i - 1]]

(* SP_NKSortedArray: binarySearch() halves until it meets the key or has   *)
(* the place for it.                                                       *)
BinarySearch(v, k) ==
  LET mid(first, size) == first + (size - 1) \div 2
      search[first \in 0..v.count, size \in 0..v.count] ==
        IF size = 0 THEN [index |-> -1, insertPoint |-> first]
        ELSE LET m == mid(first, size) IN
             IF k < v.first[m][1] THEN search[first, (size - 1) \div 2]
             ELSE IF k > v.first[m][1] THEN search[m + 1, size - (size - 1) \div 2 - 1]
             ELSE [index |-> m, insertPoint |-> -1]
  IN search[0, v.count]

Shifted(v, p) ==
  [v EXCEPT !.first = [j \in 0 .. v.max - 1 |->
                         IF j \in p + 1 .. v.count THEN v.first[j - 1] ELSE v.first[j]],
            !.count = @ + 1]

Inserted(v, x) ==
  LET found == BinarySearch(v, x[1]) IN
  IF found.index >= 0 THEN [v EXCEPT !.first[found.index] = x]
  ELSE [Shifted(Grown(v), found.insertPoint) EXCEPT !.first[found.insertPoint] = x]

(* SP_NKNameValueList::seek(): the first that has the name.                *)
Seek(v, name) == SelectInSeq(InUse(v), LAMBDA y : y = name) - 1
-----------------------------------------------------------------------------
(* SP_NKDoubleLinkList.                                                    *)

NoLinks == [head |-> NULL, tail |-> NULL,
            next |-> [n \in Items |-> NULL], prev |-> [n \in Items |-> NULL]]

Linked(l, n) ==
  IF l.tail = NULL
  THEN [head |-> n, tail |-> n,
        next |-> [l.next EXCEPT ![n] = NULL], prev |-> [l.prev EXCEPT ![n] = NULL]]
  ELSE [head |-> l.head, tail |-> n,
        next |-> [l.next EXCEPT ![n] = NULL, ![l.tail] = n],
        prev |-> [l.prev EXCEPT ![n] = l.tail]]

Unlinked(l, n) ==
  LET prev == l.prev[n]  next == l.next[n]
      over(f, from, to) == IF from = NULL THEN f ELSE [f EXCEPT ![from] = to] IN
  [head |-> IF prev = NULL THEN next ELSE l.head,
   tail |-> IF next = NULL THEN prev ELSE l.tail,
   next |-> [over(l.next, prev, next) EXCEPT ![n] = NULL],
   prev |-> [over(l.prev, next, prev) EXCEPT ![n] = NULL]]

(* What one meets who walks from a node.                                   *)
Walk(step, from) ==
  LET walk[k \in 0 .. Cardinality(Items) + 1] ==
        IF k = 0 THEN <<from>>
        ELSE LET w == walk[k - 1] IN IF Last(w) = NULL THEN w ELSE Append(w, step[Last(w)])
  IN SelectSeq(walk[Cardinality(Items) + 1], LAMBDA n : n # NULL)
-----------------------------------------------------------------------------
(* SP_NKStringBuffer: max bytes and one for the end of the string.         *)

NoBuffer == [mem |-> <<>>, size |-> 0, max |-> 0]
More(b, max) ==
  [b EXCEPT !.max = max, !.mem = [j \in 0..max |-> IF j \in DOMAIN b.mem THEN b.mem[j] ELSE Junk]]

EnsureSpace(b, space) ==
  LET half == (b.max * 3) \div 2 + 1 IN
  IF b.size + space <= b.max THEN b
  ELSE IF b.mem = <<>> THEN More(b, ((space + 7) \div 8) * 8)
  ELSE More(b, IF half < b.size + space THEN b.size + space ELSE half)

Filled(b, x, n) ==
  LET e == EnsureSpace(b, n)  size == b.size + n IN
  [e EXCEPT !.size = size,
            !.mem = [j \in DOMAIN e.mem |-> IF j = size THEN NULL
                                            ELSE IF j \in b.size .. size - 1 THEN x ELSE e.mem[j]]]

Emptied(b) == [b EXCEPT !.size = 0, !.mem = [j \in DOMAIN b.mem |-> IF j < b.max THEN NULL ELSE b.mem[j]]]

(* getBuffer(): the bytes before the first end.                            *)
Text(b) ==
  LET ends == {j \in DOMAIN b.mem : b.mem[j] = NULL}
      size == IF b.mem = <<>> THEN 0 ELSE IF ends = {} THEN b.max + 1 ELSE Min(ends) IN
  [i \in 1..size |-> b.mem[i - 1]]
-----------------------------------------------------------------------------
VectorCalls == UNCHANGED <<kind, vals, links, buf>>

AppendItem(x) ==
  /\ kind = "vector" /\ vec.count < MaxLen
  /\ Called("append", x, 0) /\ VectorCalls
  /\ IF x = NULL THEN Returns(NULL, -1) /\ UNCHANGED vec
     ELSE Returns(NULL, 0) /\ vec' = Appended(vec, x)

TakeItem(i) ==
  /\ kind \in {"vector", "sorted"}
  /\ Called("take", NULL, i) /\ VectorCalls
  /\ Returns(Item(vec, i), IF Holds(vec, i) THEN 0 ELSE -1) /\ vec' = Taken(vec, i)

GetItem(i) ==
  /\ kind = "vector"
  /\ Called("get", NULL, i) /\ VectorCalls
  /\ Returns(Item(vec, i), 0) /\ UNCHANGED vec

SortItems ==
  /\ kind = "vector"
  /\ Called("sort", NULL, 0) /\ VectorCalls
  /\ Returns(NULL, 0) /\ vec' = Sorted(vec)

Insert(x) ==
  /\ kind = "sorted" /\ vec.count < MaxLen
  /\ Called("insert", x, 0) /\ VectorCalls
  /\ LET i == BinarySearch(vec, x[1]).index IN
     IF i >= 0 THEN Returns(vec.first[i], 1) ELSE Returns(NULL, 0)
  /\ vec' = Inserted(vec, x)

Find(x) ==
  /\ kind = "sorted"
  /\ Called("find", x, 0) /\ VectorCalls
  /\ Returns(NULL, BinarySearch(vec, x[1]).index) /\ UNCHANGED vec
-----------------------------------------------------------------------------
(* SP_NKNameValueList: the names in vec, the values in vals.               *)
PairCalls == UNCHANGED <<kind, links, buf>>

Add(x) ==
  /\ kind = "pairs" /\ vec.count < MaxLen
  /\ Called("append", x, 0) /\ Returns(NULL, 0) /\ PairCalls
  /\ vec' = Appended(vec, x[1]) /\ vals' = Appended(vals, x[2])

GetValue(x) ==
  /\ kind = "pairs"
  /\ Called("lookup", x, 0) /\ PairCalls /\ UNCHANGED <<vec, vals>>
  /\ LET i == Seek(vec, x[1]) IN Returns(IF i >= 0 THEN <<x[1], Item(vals, i)>> ELSE NULL, 0)

RemoveName(x) ==
  /\ kind = "pairs"
  /\ Called("removeName", x, 0) /\ PairCalls
  /\ LET i == Seek(vec, x[1]) IN
     IF i >= 0 THEN vals' = Taken(vals, i) /\ vec' = Taken(vec, i) /\ Returns(NULL, 0)
     ELSE UNCHANGED <<vec, vals>> /\ Returns(NULL, -1)

RemoveAt_(i) ==
  /\ kind = "pairs"
  /\ Called("removeAt", NULL, i) /\ PairCalls
  /\ vals' = Taken(vals, i) /\ vec' = Taken(vec, i)
  /\ Returns(NULL, IF Holds(vec, i) THEN 0 ELSE -1)
-----------------------------------------------------------------------------
Link(n) ==
  /\ kind = "links" /\ n \notin Range(Walk(links.next, links.head))
  /\ Called("append", n, 0) /\ Returns(NULL, 0)
  /\ links' = Linked(links, n) /\ UNCHANGED <<kind, vec, vals, buf>>

Unlink(n) ==
  /\ kind = "links" /\ n \in Range(Walk(links.next, links.head))
  /\ Called("unlink", n, 0) /\ Returns(NULL, 0)
  /\ links' = Unlinked(links, n) /\ UNCHANGED <<kind, vec, vals, buf>>

Put(x, n) ==
  /\ kind = "buffer" /\ buf.size + n <= MaxBuf
  /\ Called("put", x, n) /\ Returns(NULL, 0)
  /\ buf' = Filled(buf, x, n) /\ UNCHANGED <<kind, vec, vals, links>>

Detach ==
  /\ kind = "buffer"
  /\ Called("detach", NULL, 0) /\ Returns(NULL, buf.size)
  /\ buf' = NoBuffer /\ UNCHANGED <<kind, vec, vals, links>>

(* clean() of every one of them but the links, which have none.            *)
CleanAll ==
  /\ kind \in {"vector", "sorted", "pairs", "buffer"}
  /\ Called("clean", NULL, 0) /\ Returns(NULL, 0) /\ UNCHANGED <<kind, links>>
  /\ vec' = [vec EXCEPT !.count = 0] /\ vals' = [vals EXCEPT !.count = 0]
  /\ buf' = Emptied(buf)

(* A list of strings takes the default; the others may be asked for a size. *)
ListInit ==
  /\ \E n \in IF kind = "pairs" THEN {0} ELSE {0, 1} : vec = NewVector(n)
  /\ vals = NewVector(0) /\ links = NoLinks /\ buf = NoBuffer
  /\ call = [op |-> "new", item |-> NULL, at |-> 0] /\ ret = [item |-> NULL, code |-> 0]

Indices == LAST_INDEX - 1 .. MaxLen

ListNext ==
  \/ \E x \in Items : \/ Insert(x) \/ Find(x)
                      \/ Add(x) \/ GetValue(x) \/ RemoveName(x)
                      \/ Link(x) \/ Unlink(x)
  \/ \E x \in Items \cup {NULL} : AppendItem(x)
  \/ \E i \in Indices : TakeItem(i) \/ GetItem(i) \/ RemoveAt_(i)
  \/ \E x \in Keys, n \in Bytes : Put(x, n)
  \/ SortItems \/ Detach \/ CleanAll
=============================================================================
