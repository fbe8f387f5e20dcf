------------------------------ MODULE ListSpec ------------------------------
(***************************************************************************)
(* What the containers of spnklist.hpp and the buffer of spnkbuffer.hpp    *)
(* promise: each is a sequence, call says what was asked of it last and    *)
(* ret what the call returned.  Nothing is said of memory.                 *)
(***************************************************************************)
EXTENDS Integers, SequencesExt

CONSTANTS NULL, LAST_INDEX

VARIABLES kind, list, call, ret

Positions(Test(_)) == {p \in DOMAIN list : Test(list[p])}

Returned(x, n) == ret' = [item |-> x, code |-> n]

(* Where index i is: -1 is the last item.                                  *)
Pos(i) == IF i = LAST_INDEX THEN Len(list) ELSE i + 1

Append_(x) ==
  /\ IF x = NULL THEN Returned(NULL, -1) /\ UNCHANGED list
     ELSE Returned(NULL, 0) /\ list' = Append(list, x)

(* The item at i goes, and the others keep their order.                    *)
Take(i) ==
  /\ IF Pos(i) \in DOMAIN list
     THEN Returned(list[Pos(i)], 0) /\ list' = RemoveAt(list, Pos(i))
     ELSE Returned(NULL, -1) /\ UNCHANGED list

Get(i) ==
  /\ Returned(IF Pos(i) \in DOMAIN list THEN list[Pos(i)] ELSE NULL, 0)
  /\ UNCHANGED list

Clean == Returned(NULL, 0) /\ list' = <<>>

(* The same items, in the order of their keys.                             *)
Sort ==
  /\ Returned(NULL, 0) /\ IsSorted(list', LAMBDA a, b : a[1] <= b[1])
  /\ \A x \in ToSet(list) \cup ToSet(list') :
       Len(SelectSeq(list, LAMBDA y : y = x)) = Len(SelectSeq(list', LAMBDA y : y = x))

(* A sorted array has one item of a key: it keeps the newest, and hands    *)
(* the one that had its place back.                                        *)
Insert(x) ==
  LET same == Positions(LAMBDA y : y[1] = x[1])
      less == Positions(LAMBDA y : y[1] < x[1]) IN
  /\ IF same = {} THEN Returned(NULL, 0) /\ list' = InsertAt(list, Cardinality(less) + 1, x)
     ELSE \E p \in same : Returned(list[p], 1) /\ list' = [list EXCEPT ![p] = x]

Find(x) ==
  /\ UNCHANGED list
  /\ \/ \E p \in Positions(LAMBDA y : y[1] = x[1]) : Returned(NULL, p - 1)
     \/ Positions(LAMBDA y : y[1] = x[1]) = {} /\ Returned(NULL, -1)

(* Of several pairs with a name the first counts.                          *)
First(x) == SelectInSeq(list, LAMBDA y : y[1] = x[1])

Lookup(x) ==
  /\ UNCHANGED list
  /\ Returned(IF First(x) = 0 THEN NULL ELSE list[First(x)], 0)

RemoveName(x) ==
  /\ IF First(x) = 0 THEN Returned(NULL, -1) /\ UNCHANGED list
     ELSE Returned(NULL, 0) /\ list' = RemoveAt(list, First(x))

RemoveAt_(i) ==
  /\ IF Pos(i) \in DOMAIN list THEN Returned(NULL, 0) /\ list' = RemoveAt(list, Pos(i))
     ELSE Returned(NULL, -1) /\ UNCHANGED list

Unlink(x) ==
  /\ Returned(NULL, 0) /\ list' = SelectSeq(list, LAMBDA y : y # x)

(* n times the byte x at the end.                                          *)
Put(x, n) ==
  /\ Returned(NULL, 0) /\ list' = list \o [i \in 1..n |-> x]

Detach == Returned(NULL, Len(list)) /\ list' = <<>>

Init ==
  /\ list = <<>>
  /\ call = [op |-> "new", item |-> NULL, at |-> 0] /\ ret = [item |-> NULL, code |-> 0]

(* What was asked says which of the promises is to be kept.                *)
Next ==
  /\ kind' = kind
  /\ LET op == call'.op  x == call'.item  i == call'.at IN
     CASE op = "new" -> UNCHANGED <<list, ret>>
       [] op = "append" -> Append_(x)
       [] op = "take" -> Take(i)
       [] op = "get" -> Get(i)
       [] op = "clean" -> Clean
       [] op = "sort" -> Sort
       [] op = "insert" -> Insert(x)
       [] op = "find" -> Find(x)
       [] op = "lookup" -> Lookup(x)
       [] op = "removeName" -> RemoveName(x)
       [] op = "removeAt" -> RemoveAt_(i)
       [] op = "unlink" -> Unlink(x)
       [] op = "put" -> Put(x, i)
       [] op = "detach" -> Detach

Spec == Init /\ [][Next]_<<kind, list, call, ret>>
=============================================================================
