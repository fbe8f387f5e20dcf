-------------------------- MODULE EndPointTableProofs --------------------------
(***************************************************************************)
(* Theorems about the table of end points, the ini file and its settings,  *)
(* and the list of mails, over the containers they are built on: for any   *)
(* files, buckets, lists, weights and keys, any mails and mailboxes, and   *)
(* any number of calls in any order.                                       *)
(*                                                                         *)
(* The search, the sort and the reading loops are recursive functions.     *)
(* That each has the values its equation says is proved here by induction  *)
(* over a set of numbers, and what it computes by another one.             *)
(***************************************************************************)
EXTENDS EndPointTableProps, FiniteSetTheorems, SequenceTheorems, WellFoundedInduction, TLAPS

(* Induction, and the least and the greatest of a set of numbers.          *)
LEMMA Smallest ==
  ASSUME NEW T, T \subseteq Nat, T # {}
  PROVE  \E n \in T : \A m \in T : n <= m
<1> DEFINE less == OpToRel(<, Nat)
<1>1. PICK n \in T : \A m \in T : <<m, n>> \notin less
  BY NatLessThanWellFounded, WFMin
<1>2. \A m \in T : ~(m < n)
  BY <1>1 DEF OpToRel
<1>3. \A m \in T : n <= m
  BY <1>2
<1> QED
  BY <1>3

LEMMA NatInd ==
  ASSUME NEW T, 0 \in T, \A n \in Nat : n \in T => n + 1 \in T
  PROVE  \A n \in Nat : n \in T
<1> SUFFICES ASSUME Nat \ T # {} PROVE FALSE
  OBVIOUS
<1>1. PICK n \in Nat \ T : \A m \in Nat \ T : n <= m
  BY Smallest
<1>2. n # 0
  BY <1>1
<1>3. n - 1 \in Nat /\ n = (n - 1) + 1 /\ ~(n <= n - 1)
  BY <1>1, <1>2
<1>4. n - 1 \in T
  BY <1>1, <1>3
<1> QED
  BY <1>1, <1>3, <1>4

LEMMA MinIs == ASSUME NEW T, T \subseteq Nat, T # {} PROVE Min(T) \in T /\ \A k \in T : Min(T) <= k
BY Smallest DEF Min

LEMMA MaxIs ==
  ASSUME NEW n \in Nat, NEW T, T \subseteq 0..n, T # {}
  PROVE  Max(T) \in T /\ \A k \in T : k <= Max(T)
<1> DEFINE U == {i \in Nat : i \in 0..n /\ n - i \in T}
<1>1. U \subseteq Nat /\ U # {}
  <2>1. PICK k \in T : TRUE
    OBVIOUS
  <2>2. n - k \in Nat /\ n - k \in 0..n /\ n - (n - k) = k
    BY <2>1
  <2> QED
    BY <2>1, <2>2
<1>2. PICK i \in U : \A j \in U : i <= j
  BY <1>1, Smallest
<1>3. \A k \in T : k <= n - i
  <2> SUFFICES ASSUME NEW k \in T PROVE k <= n - i
    OBVIOUS
  <2>1. n - k \in Nat /\ n - k \in 0..n /\ n - (n - k) = k
    OBVIOUS
  <2>2. i <= n - k
    BY <1>2, <2>1
  <2> QED
    BY <1>2, <2>2
<1>4. n - i \in T
  BY <1>2
<1> QED
  BY <1>3, <1>4 DEF Max

(* What each of the first so many numbers does not change.                 *)
LEMMA UpTo ==
  ASSUME NEW m \in Nat, NEW T, 0 \in T, \A n \in 0..m - 1 : n \in T => n + 1 \in T
  PROVE  \A n \in 0..m : n \in T
<1> DEFINE U == {n \in Nat : n \in 0..m => n \in T}
<1>1. 0 \in U
  OBVIOUS
<1>2. ASSUME NEW n \in Nat, n \in U PROVE n + 1 \in U
  <2>1. n + 1 \in 0..m => n \in 0..m - 1 /\ n \in 0..m
    OBVIOUS
  <2> QED
    BY <1>2, <2>1
<1> HIDE DEF U
<1>3. \A n \in Nat : n \in U
  BY <1>1, <1>2, NatInd
<1> QED
  BY <1>3 DEF U
-----------------------------------------------------------------------------
(* SP_NKVector.                                                            *)
IsVector(v) ==
  /\ v = [first |-> v.first, count |-> v.count, max |-> v.max]
  /\ v.max \in Nat /\ v.max # 0 /\ v.count \in 0..v.max
  /\ v.first = [j \in 0 .. v.max - 1 |-> v.first[j]]

LEMMA NewVectorIs == ASSUME NEW n \in Int PROVE IsVector(NewVector(n)) /\ NewVector(n).count = 0
<1> DEFINE max == IF n <= 0 THEN 2 ELSE n
           v == NewVector(n)
<1>1. v.first = [j \in 0 .. max - 1 |-> Junk] /\ v.count = 0 /\ v.max = max
  BY DEF NewVector
<1>2. v = [first |-> v.first, count |-> v.count, max |-> v.max]
  BY DEF NewVector
<1>3. max \in Nat /\ max # 0 /\ 0 \in 0..max
  OBVIOUS
<1> HIDE DEF v, max
<1>4. v.first = [j \in 0 .. v.max - 1 |-> v.first[j]]
  BY <1>1
<1> QED
  BY <1>1, <1>2, <1>3, <1>4 DEF IsVector, v

LEMMA GrownIs ==
  ASSUME NEW v, IsVector(v)
  PROVE  /\ IsVector(Grown(v)) /\ Grown(v).count = v.count /\ v.count < Grown(v).max
         /\ \A j \in 0 .. v.count - 1 : Grown(v).first[j] = v.first[j]
<1>1. CASE v.count < v.max
  BY <1>1 DEF Grown, IsVector
<1>2. CASE ~(v.count < v.max)
  <2> DEFINE max == (v.max * 3) \div 2 + 1
             first == [j \in 0 .. max - 1 |-> IF j < v.count THEN v.first[j] ELSE NULL]
             g == [first |-> first, count |-> v.count, max |-> max]
  <2>1. v.count \in Nat /\ v.max \in Nat /\ v.max # 0 /\ v.count = v.max
    BY <1>2 DEF IsVector
  <2>2. max \in Nat /\ v.count < max
    BY <2>1
  <2>3. Grown(v) = g
    BY <1>2 DEF Grown, IsVector
  <2>4. \A j \in 0 .. v.count - 1 : j \in 0 .. max - 1 /\ j < v.count
    BY <2>1, <2>2
  <2> HIDE DEF max
  <2>5. \A j \in 0 .. v.count - 1 : first[j] = v.first[j]
    BY <2>4
  <2>6. first = [j \in 0 .. max - 1 |-> first[j]]
    OBVIOUS
  <2> HIDE DEF first
  <2>7. g.first = first /\ g.count = v.count /\ g.max = max /\ v.count \in 0..max
    BY <2>1, <2>2
  <2>8. IsVector(g)
    BY <2>1, <2>2, <2>6, <2>7 DEF IsVector
  <2> QED
    BY <2>2, <2>3, <2>5, <2>7, <2>8
<1> QED
  BY <1>1, <1>2

LEMMA AppendedIs ==
  ASSUME NEW v, IsVector(v), NEW x
  PROVE  /\ IsVector(Appended(v, x)) /\ Appended(v, x).count = v.count + 1
         /\ Appended(v, x).first[v.count] = x
         /\ \A j \in 0 .. v.count - 1 : Appended(v, x).first[j] = v.first[j]
<1> DEFINE g == Grown(v)
           first == [g.first EXCEPT ![g.count] = x]
           a == [first |-> first, count |-> g.count + 1, max |-> g.max]
<1>1. /\ IsVector(g) /\ g.count = v.count /\ v.count < g.max
      /\ \A j \in 0 .. v.count - 1 : g.first[j] = v.first[j]
  BY GrownIs
<1> HIDE DEF g
<1>2. Appended(v, x) = a
  <2>1. Appended(v, x) = [g EXCEPT !.first[g.count] = x, !.count = @ + 1]
    BY DEF Appended, g
  <2> QED
    BY <1>1, <2>1 DEF IsVector
<1>3. g.max \in Nat /\ g.max # 0 /\ g.count \in 0 .. g.max - 1 /\ g.count \in Nat /\ g.count + 1 \in 0 .. g.max
  BY <1>1 DEF IsVector
<1>4. /\ first = [j \in 0 .. g.max - 1 |-> first[j]]
      /\ first[g.count] = x
      /\ \A j \in 0 .. g.max - 1 : j # g.count => first[j] = g.first[j]
  <2>1. g.first = [j \in 0 .. g.max - 1 |-> g.first[j]]
    BY <1>1 DEF IsVector
  <2> QED
    BY <1>3, <2>1
<1> HIDE DEF first
<1>5. a.first = first /\ a.count = g.count + 1 /\ a.max = g.max
  OBVIOUS
<1>6. IsVector(a)
  BY <1>3, <1>4, <1>5 DEF IsVector
<1>7. \A j \in 0 .. v.count - 1 : j \in 0 .. g.max - 1 /\ j # g.count
  BY <1>1, <1>3
<1> QED
  BY <1>1, <1>2, <1>4, <1>5, <1>6, <1>7

-----------------------------------------------------------------------------
(* The keys by which the vector is sorted.                                 *)
IntKeys(v) == \A j \in 0 .. v.count - 1 : v.first[j][1] \in Int
Ascending(v) == \A i, j \in 0 .. v.count - 1 : i < j => v.first[i][1] <= v.first[j][1]

(* The first of the least: there is one, by induction on how many are      *)
(* looked at.                                                              *)
LeastOf(v, i, n, m) ==
  /\ m \in i..n
  /\ \A j \in i..n : \/ v.first[m][1] < v.first[j][1]
                     \/ (v.first[m][1] = v.first[j][1] /\ m <= j)

LEMMA LeastExists ==
  ASSUME NEW v, IsVector(v), IntKeys(v), NEW i \in 0 .. v.count - 1
  PROVE  \A n \in i .. v.count - 1 : \E m : LeastOf(v, i, n, m)
<1> DEFINE T == {d \in Nat : i + d <= v.count - 1 => \E m : LeastOf(v, i, i + d, m)}
<1>1. v.count \in Nat /\ i \in Nat
  BY DEF IsVector
<1>2. 0 \in T
  <2>1. LeastOf(v, i, i + 0, i)
    BY <1>1 DEF LeastOf, IntKeys
  <2> QED
    BY <2>1
<1>3. ASSUME NEW d \in Nat, d \in T PROVE d + 1 \in T
  <2> SUFFICES ASSUME i + (d + 1) <= v.count - 1 PROVE \E m : LeastOf(v, i, i + (d + 1), m)
    BY <1>1
  <2>1. PICK m : LeastOf(v, i, i + d, m)
    BY <1>1, <1>3
  <2> DEFINE e == i + (d + 1)
  <2>2. m \in i .. i + d /\ m \in 0 .. v.count - 1 /\ e \in 0 .. v.count - 1 /\ e = (i + d) + 1
    BY <1>1, <2>1 DEF LeastOf
  <2>3. v.first[m][1] \in Int /\ v.first[e][1] \in Int
    BY <2>2 DEF IntKeys
  <2>4. \A j \in i..e : v.first[j][1] \in Int /\ (j \in i .. i + d \/ j = e)
    BY <1>1, <2>2 DEF IntKeys
  <2> HIDE DEF e
  <2>5. CASE v.first[m][1] <= v.first[e][1]
    <3>1. LeastOf(v, i, e, m)
      BY <1>1, <2>1, <2>2, <2>3, <2>4, <2>5 DEF LeastOf
    <3> QED
      BY <3>1 DEF e
  <2>6. CASE v.first[e][1] < v.first[m][1]
    <3>1. LeastOf(v, i, e, e)
      BY <1>1, <2>1, <2>2, <2>3, <2>4, <2>6 DEF LeastOf
    <3> QED
      BY <3>1 DEF e
  <2> QED
    BY <2>3, <2>5, <2>6
<1> HIDE DEF T
<1>4. \A d \in Nat : d \in T
  BY <1>2, <1>3, NatInd
<1> SUFFICES ASSUME NEW n \in i .. v.count - 1 PROVE \E m : LeastOf(v, i, n, m)
  OBVIOUS
<1>5. n - i \in Nat /\ i + (n - i) = n
  BY <1>1
<1> QED
  BY <1>1, <1>4, <1>5 DEF T

LEMMA LeastIs ==
  ASSUME NEW v, IsVector(v), IntKeys(v), NEW i \in 0 .. v.count - 1
  PROVE  /\ Least(v, i) \in i .. v.count - 1
         /\ \A j \in i .. v.count - 1 : v.first[Least(v, i)][1] <= v.first[j][1]
<1> DEFINE n == v.count - 1
<1>1. v.count \in Nat /\ i \in Nat /\ n \in i .. n /\ n \in Int
  BY DEF IsVector
<1>2. Least(v, i) = CHOOSE m \in i..n : \A j \in i..n :
         \/ v.first[m][1] < v.first[j][1]
         \/ (v.first[m][1] = v.first[j][1] /\ m <= j)
  BY DEF Least
<1>3. \E m : LeastOf(v, i, n, m)
  BY <1>1, LeastExists
<1>4. LeastOf(v, i, n, Least(v, i))
  <2>1. \E m \in i..n : \A j \in i..n :
         \/ v.first[m][1] < v.first[j][1]
         \/ (v.first[m][1] = v.first[j][1] /\ m <= j)
    BY <1>3, Zenon DEF LeastOf
  <2> DEFINE P(m) == \A j \in i..n :
                       \/ v.first[m][1] < v.first[j][1]
                       \/ (v.first[m][1] = v.first[j][1] /\ m <= j)
             l == Least(v, i)
  <2>2. l = CHOOSE m \in i..n : P(m)
    BY <1>2, Zenon
  <2>3. \E m \in i..n : P(m)
    BY <2>1, Zenon
  <2> HIDE DEF P, l
  <2>4. l \in i..n /\ P(l)
    BY <2>2, <2>3, Zenon
  <2> QED
    BY <2>4, Zenon DEF P, LeastOf, l
<1>5. Least(v, i) \in 0..n /\ \A j \in i..n : j \in 0..n
  BY <1>1, <1>4 DEF LeastOf
<1>6. \A j \in 0..n : v.first[j][1] \in Int
  BY DEF IntKeys
<1> HIDE DEF n
<1> QED
  BY <1>1, <1>4, <1>5, <1>6 DEF LeastOf, n

(* A step of the sort: the two change places.                              *)
LEMMA SortStepIs ==
  ASSUME NEW v, IsVector(v), IntKeys(v), NEW i \in 0 .. v.count - 1
  PROVE  \E m \in i .. v.count - 1 :
           /\ IsVector(SortStep(v, i)) /\ SortStep(v, i).count = v.count
           /\ SortStep(v, i).first[i] = v.first[m]
           /\ m # i => SortStep(v, i).first[m] = v.first[i]
           /\ \A j \in 0 .. v.count - 1 : j # i /\ j # m => SortStep(v, i).first[j] = v.first[j]
           /\ \A j \in i .. v.count - 1 : v.first[m][1] <= v.first[j][1]
<1> DEFINE m == Least(v, i)
           first == [[v.first EXCEPT ![i] = v.first[m]] EXCEPT ![m] = v.first[i]]
           s == [first |-> first, count |-> v.count, max |-> v.max]
<1>1. m \in i .. v.count - 1 /\ \A j \in i .. v.count - 1 : v.first[m][1] <= v.first[j][1]
  BY LeastIs
<1> HIDE DEF m
<1>2. SortStep(v, i) = s
  <2>1. SortStep(v, i) = [v EXCEPT !.first[i] = v.first[m], !.first[m] = v.first[i]]
    BY DEF SortStep, m
  <2> QED
    BY <2>1 DEF IsVector
<1>3. v.count \in Nat /\ v.max \in Nat /\ i \in 0 .. v.max - 1 /\ m \in 0 .. v.max - 1
      /\ \A j \in 0 .. v.count - 1 : j \in 0 .. v.max - 1
  BY <1>1 DEF IsVector
<1>4. /\ first = [j \in 0 .. v.max - 1 |-> first[j]]
      /\ \A j \in 0 .. v.max - 1 : first[j] = IF j = m THEN v.first[i] ELSE IF j = i THEN v.first[m] ELSE v.first[j]
  <2>1. v.first = [j \in 0 .. v.max - 1 |-> v.first[j]]
    BY DEF IsVector
  <2> QED
    BY <1>3, <2>1
<1> HIDE DEF first
<1>5. s.first = first /\ s.count = v.count /\ s.max = v.max
  OBVIOUS
<1>6. IsVector(s)
  BY <1>4, <1>5 DEF IsVector
<1>7. first[i] = v.first[m] /\ (m # i => first[m] = v.first[i])
  BY <1>3, <1>4
<1>8. \A j \in 0 .. v.count - 1 : j # i /\ j # m => first[j] = v.first[j]
  BY <1>3, <1>4
<1> QED
  BY <1>1, <1>2, <1>5, <1>6, <1>7, <1>8

(* Sorted() as a recursion over the places.                                *)
SortTurn(v, f, n) == IF n = 0 THEN v ELSE SortStep(f[n - 1], n - 1)

LEMMA SortExists ==
  ASSUME NEW v, NEW m \in Nat
  PROVE  \E f : f = [n \in 0..m |-> SortTurn(v, f, n)]
<1> DEFINE T == {k \in Nat : \E f : f = [n \in 0..k |-> SortTurn(v, f, n)]}
<1>1. 0 \in T
  <2> DEFINE f == [n \in 0..0 |-> v]
  <2>1. f = [n \in 0..0 |-> SortTurn(v, f, n)]
    BY DEF SortTurn
  <2> HIDE DEF f
  <2> QED
    BY <2>1
<1>2. ASSUME NEW k \in Nat, k \in T PROVE k + 1 \in T
  <2>1. PICK f : f = [n \in 0..k |-> SortTurn(v, f, n)]
    BY <1>2
  <2> DEFINE g == [n \in 0..k+1 |-> SortTurn(v, f, n)]
  <2>2. \A n \in 0..k : g[n] = f[n]
    <3>1. \A n \in 0..k : f[n] = SortTurn(v, f, n)
      BY <2>1, Zenon
    <3>2. \A n \in 0..k : n \in 0..k+1
      OBVIOUS
    <3> QED
      BY <3>1, <3>2, Zenon
  <2>3. \A n \in 0..k+1 : n # 0 => n - 1 \in 0..k
    OBVIOUS
  <2>4. \A n \in 0..k+1 : SortTurn(v, g, n) = SortTurn(v, f, n)
    <3> HIDE DEF g
    <3> QED
      BY <2>2, <2>3, Zenon DEF SortTurn
  <2>5. g = [n \in 0..k+1 |-> SortTurn(v, g, n)]
    BY <2>4, Zenon
  <2>6. k + 1 \in Nat
    OBVIOUS
  <2> HIDE DEF g
  <2> QED
    BY <2>5, <2>6, Zenon
<1> HIDE DEF T
<1>3. \A k \in Nat : k \in T
  BY <1>1, <1>2, NatInd
<1> QED
  BY <1>3 DEF T

(* After n steps the first n are in their places.                          *)
SortedTo(v, s, n) ==
  /\ IsVector(s) /\ s.count = v.count /\ IntKeys(s)
  /\ \A j \in 0 .. v.count - 1 : \E k \in 0 .. v.count - 1 : s.first[j] = v.first[k]
  /\ \A i, j \in 0 .. v.count - 1 : i < n /\ i < j => s.first[i][1] <= s.first[j][1]

LEMMA SortedToStep ==
  ASSUME NEW v, NEW s, NEW n \in 0 .. v.count - 1, SortedTo(v, s, n)
  PROVE  SortedTo(v, SortStep(s, n), n + 1)
<1> DEFINE t == SortStep(s, n)
           c == v.count
<1>1. /\ IsVector(s) /\ s.count = c /\ IntKeys(s) /\ c \in Nat
      /\ \A j \in 0 .. c - 1 : \E k \in 0 .. c - 1 : s.first[j] = v.first[k]
      /\ \A i, j \in 0 .. c - 1 : i < n /\ i < j => s.first[i][1] <= s.first[j][1]
  <2>1. IsVector(s) /\ s.count = c
    BY DEF SortedTo
  <2>2. c \in Nat
    BY <2>1 DEF IsVector
  <2> QED
    BY <2>1, <2>2, Zenon DEF SortedTo
<1>2. PICK m \in n .. c - 1 :
        /\ IsVector(t) /\ t.count = c
        /\ t.first[n] = s.first[m]
        /\ m # n => t.first[m] = s.first[n]
        /\ \A j \in 0 .. c - 1 : j # n /\ j # m => t.first[j] = s.first[j]
        /\ \A j \in n .. c - 1 : s.first[m][1] <= s.first[j][1]
  <2>1. n \in 0 .. s.count - 1
    BY <1>1
  <2> HIDE DEF t
  <2>2. \E m \in n .. s.count - 1 :
           /\ IsVector(t) /\ t.count = s.count
           /\ t.first[n] = s.first[m]
           /\ m # n => t.first[m] = s.first[n]
           /\ \A j \in 0 .. s.count - 1 : j # n /\ j # m => t.first[j] = s.first[j]
           /\ \A j \in n .. s.count - 1 : s.first[m][1] <= s.first[j][1]
    BY <1>1, <2>1, SortStepIs, Zenon DEF t
  <2> QED
    BY <1>1, <2>2, Zenon
<1> HIDE DEF t, c
<1>3. n \in 0 .. c - 1 /\ m \in 0 .. c - 1 /\ n \in Nat /\ n <= m
  BY <1>1, <1>2 DEF c
<1>4. \A j \in 0 .. c - 1 : s.first[j][1] \in Int
  BY <1>1 DEF IntKeys
<1>5. \A j \in 0 .. c - 1 : \E k \in 0 .. c - 1 : t.first[j] = s.first[k] /\ (j < n => k = j) /\ (j >= n => k >= n)
  <2> SUFFICES ASSUME NEW j \in 0 .. c - 1
               PROVE \E k \in 0 .. c - 1 : t.first[j] = s.first[k] /\ (j < n => k = j) /\ (j >= n => k >= n)
    OBVIOUS
  <2>1. CASE j = n
    BY <1>2, <1>3, <2>1
  <2>2. CASE j # n /\ j = m
    BY <1>2, <1>3, <2>2
  <2>3. CASE j # n /\ j # m
    BY <1>2, <1>3, <2>3
  <2> QED
    BY <2>1, <2>2, <2>3
<1>6. \A j \in 0 .. c - 1 : \E k \in 0 .. c - 1 : t.first[j] = v.first[k]
  <2> SUFFICES ASSUME NEW j \in 0 .. c - 1 PROVE \E k \in 0 .. c - 1 : t.first[j] = v.first[k]
    OBVIOUS
  <2>1. PICK l \in 0 .. c - 1 : t.first[j] = s.first[l]
    BY <1>5, Zenon
  <2>2. PICK k \in 0 .. c - 1 : s.first[l] = v.first[k]
    BY <1>1, Zenon
  <2> QED
    BY <2>1, <2>2, Zenon
<1>7. \A j \in 0 .. c - 1 : t.first[j][1] \in Int
  BY <1>4, <1>5
<1>8. ASSUME NEW i \in 0 .. c - 1, NEW j \in 0 .. c - 1, i < n + 1, i < j
      PROVE  t.first[i][1] <= t.first[j][1]
  <2>1. PICK k \in 0 .. c - 1 : t.first[j] = s.first[k] /\ (j < n => k = j) /\ (j >= n => k >= n)
    BY <1>5
  <2>2. CASE i = n
    <3>1. k \in n .. c - 1
      BY <1>8, <1>3, <2>1, <2>2
    <3> QED
      BY <1>2, <2>1, <2>2, <3>1
  <2>3. CASE i < n
    <3>1. t.first[i] = s.first[i]
      BY <1>5, <2>3
    <3>2. i < k
      BY <1>8, <1>3, <2>1, <2>3
    <3> QED
      BY <1>1, <2>1, <2>3, <3>1, <3>2
  <2> QED
    BY <1>8, <1>3, <2>2, <2>3
<1> QED
  BY <1>2, <1>6, <1>7, <1>8 DEF SortedTo, IntKeys, t, c

(* sort() puts a vector in the order of its keys, with the items it had.   *)
LEMMA SortedIs ==
  ASSUME NEW v, IsVector(v), IntKeys(v)
  PROVE  /\ IsVector(Sorted(v)) /\ Sorted(v).count = v.count
         /\ IntKeys(Sorted(v)) /\ Ascending(Sorted(v))
         /\ \A j \in 0 .. v.count - 1 : \E k \in 0 .. v.count - 1 : Sorted(v).first[j] = v.first[k]
<1> DEFINE c == v.count
<1>1. c \in Nat
  BY DEF IsVector
<1>2. PICK f : /\ f = [n \in 0..c |-> SortTurn(v, f, n)]
               /\ Sorted(v) = IF c = 0 THEN v ELSE f[c - 1]
  <2>1. \E f : f = [n \in 0..c |-> SortTurn(v, f, n)]
    BY <1>1, SortExists
  <2> QED
    BY <2>1, Zenon DEF Sorted, SortTurn
<1>3. \A n \in 0..c : f[n] = SortTurn(v, f, n)
  BY <1>2, Zenon
<1>4. CASE c = 0
  BY <1>2, <1>4 DEF Ascending, c
<1>5. CASE c # 0
  <2> DEFINE T == {n \in 0 .. c - 1 : SortedTo(v, f[n], n)}
  <2>1. c - 1 \in Nat /\ 0 \in 0 .. c - 1
    BY <1>1, <1>5
  <2>2. 0 \in T
    <3>1. f[0] = v
      BY <1>1, <1>3 DEF SortTurn
    <3>2. SortedTo(v, v, 0)
      BY DEF SortedTo, c
    <3> QED
      BY <2>1, <3>1, <3>2
  <2>3. ASSUME NEW n \in 0 .. (c - 1) - 1, n \in T PROVE n + 1 \in T
    <3>1. n \in 0 .. c - 1 /\ n + 1 \in 0 .. c - 1 /\ n + 1 \in 0..c /\ n + 1 # 0 /\ (n + 1) - 1 = n
      BY <1>1, <2>1
    <3>2. f[n + 1] = SortStep(f[n], n)
      BY <1>3, <3>1 DEF SortTurn
    <3>3. SortedTo(v, SortStep(f[n], n), n + 1)
      BY <2>3, <3>1, SortedToStep DEF c
    <3> QED
      BY <3>1, <3>2, <3>3
  <2> HIDE DEF T
  <2>4. \A n \in 0 .. c - 1 : n \in T
    BY <2>1, <2>2, <2>3, UpTo
  <2>5. SortedTo(v, Sorted(v), c - 1)
    <3>1. c - 1 \in 0 .. c - 1
      BY <2>1
    <3>2. Sorted(v) = f[c - 1]
      BY <1>2, <1>5, Zenon
    <3> QED
      BY <2>4, <3>1, <3>2, Zenon DEF T
  <2>6. \A i, j \in 0 .. c - 1 : i < j => i < c - 1
    BY <1>1
  <2> QED
    BY <2>5, <2>6 DEF SortedTo, Ascending, c
<1> QED
  BY <1>4, <1>5

-----------------------------------------------------------------------------
(* getList() of the table.                                                 *)
TableKeysOf(v) == \A j \in 0 .. v.count - 1 : KeyMin(v.first[j]) \in Int /\ KeyMax(v.first[j]) \in Int

Apart(v) ==
  \A i, j \in 0 .. v.count - 1 :
    /\ KeyMin(v.first[i]) <= KeyMax(v.first[i])
    /\ i # j => \/ KeyMax(v.first[i]) < KeyMin(v.first[j])
                \/ KeyMax(v.first[j]) < KeyMin(v.first[i])

(* What the search has left, after n steps: a part of the vector.          *)
IsPart(v, r) ==
  /\ r = [begin |-> r.begin, end |-> r.end]
  /\ r.begin \in 0..v.count /\ r.end \in 0..v.count /\ r.begin <= r.end

Closing(v, k, n, r) ==
  IF r.begin < r.end /\ HasKey(v.first[Middle(r)], k) THEN TRUE ELSE r.end - r.begin <= v.count - n

(* No bucket before it has the key, and none after it.                     *)
Outside(v, k, r) ==
  /\ \A j \in 0 .. v.count - 1 : j < r.begin => KeyMax(v.first[j]) < k
  /\ \A j \in 0 .. v.count - 1 : r.end <= j => k < KeyMin(v.first[j])

LEMMA MiddleIs ==
  ASSUME NEW v, IsVector(v), NEW r, IsPart(v, r), r.begin < r.end
  PROVE  Middle(r) \in 0 .. v.count - 1 /\ r.begin <= Middle(r) /\ Middle(r) < r.end
BY DEF IsPart, IsVector, Middle

LEMMA NarrowedIs ==
  ASSUME NEW v, IsVector(v), NEW k, NEW r, IsPart(v, r)
  PROVE  /\ IsPart(v, Narrowed(v, k, r))
         /\ \/ Narrowed(v, k, r) = r /\ (r.begin >= r.end \/ HasKey(v.first[Middle(r)], k))
            \/ /\ r.begin < r.end /\ ~HasKey(v.first[Middle(r)], k)
               /\ IF k < KeyMin(v.first[Middle(r)])
                  THEN Narrowed(v, k, r) = [begin |-> r.begin, end |-> Middle(r)]
                  ELSE Narrowed(v, k, r) = [begin |-> Middle(r) + 1, end |-> r.end]
<1>1. CASE r.begin >= r.end \/ HasKey(v.first[Middle(r)], k)
  BY <1>1 DEF Narrowed
<1>2. CASE ~(r.begin >= r.end \/ HasKey(v.first[Middle(r)], k))
  <2>1. r.begin \in Nat /\ r.end \in Nat /\ v.count \in Nat /\ r.begin < r.end
    BY <1>2 DEF IsPart, IsVector
  <2>2. Middle(r) \in 0 .. v.count - 1 /\ r.begin <= Middle(r) /\ Middle(r) < r.end
    BY <2>1, MiddleIs
  <2>3. r = [begin |-> r.begin, end |-> r.end] /\ r.begin \in 0..v.count /\ r.end \in 0..v.count
    BY DEF IsPart
  <2>4. CASE k < KeyMin(v.first[Middle(r)])
    <3>1. Narrowed(v, k, r) = [r EXCEPT !.end = Middle(r)]
      BY <1>2, <2>4, Zenon DEF Narrowed
    <3>2. Narrowed(v, k, r) = [begin |-> r.begin, end |-> Middle(r)]
      BY <2>3, <3>1
    <3>3. IsPart(v, [begin |-> r.begin, end |-> Middle(r)])
      BY <2>1, <2>2, <2>3 DEF IsPart
    <3> QED
      BY <1>2, <2>1, <2>4, <3>2, <3>3, Zenon
  <2>5. CASE ~(k < KeyMin(v.first[Middle(r)]))
    <3>1. Narrowed(v, k, r) = [r EXCEPT !.begin = Middle(r) + 1]
      BY <1>2, <2>5, Zenon DEF Narrowed
    <3>2. Narrowed(v, k, r) = [begin |-> Middle(r) + 1, end |-> r.end]
      BY <2>3, <3>1
    <3>3. IsPart(v, [begin |-> Middle(r) + 1, end |-> r.end])
      BY <2>1, <2>2, <2>3 DEF IsPart
    <3> QED
      BY <1>2, <2>1, <2>5, <3>2, <3>3, Zenon
  <2> QED
    BY <2>4, <2>5
<1> QED
  BY <1>1, <1>2

(* Each step leaves less, until the bucket in the middle has the key.      *)
LEMMA ClosingStep ==
  ASSUME NEW v, IsVector(v), NEW k, NEW n \in Int, NEW r, IsPart(v, r), Closing(v, k, n, r),
         n < v.count
  PROVE  Closing(v, k, n + 1, Narrowed(v, k, r))
<1> DEFINE s == Narrowed(v, k, r)
           m == Middle(r)
<1>1. v.count \in Nat /\ r.begin \in Nat /\ r.end \in Nat /\ r.begin <= r.end
  BY DEF IsVector, IsPart
<1>2. r.begin < r.end => r.begin <= m /\ m < r.end /\ m \in Int
  BY MiddleIs
<1>3. CASE r.begin >= r.end
  <2>1. s = r
    BY <1>3, Zenon DEF Narrowed
  <2>2. r.end - r.begin <= v.count - (n + 1)
    BY <1>1, <1>3
  <2> QED
    BY <2>1, <2>2, Zenon DEF Closing
<1>4. CASE r.begin < r.end /\ HasKey(v.first[m], k)
  <2>1. s = r
    BY <1>4, Zenon DEF Narrowed
  <2> QED
    BY <1>4, <2>1 DEF Closing
<1>5. CASE r.begin < r.end /\ ~HasKey(v.first[m], k)
  <2>1. r.end - r.begin <= v.count - n
    BY <1>5 DEF Closing
  <2>2. s = [begin |-> r.begin, end |-> m] \/ s = [begin |-> m + 1, end |-> r.end]
    BY <1>1, <1>5, NarrowedIs
  <2> HIDE DEF s, m
  <2>3. s.end - s.begin <= v.count - (n + 1)
    BY <1>1, <1>2, <1>5, <2>1, <2>2
  <2> QED
    BY <2>3 DEF Closing, s
<1> QED
  BY <1>1, <1>3, <1>4, <1>5

LEMMA OutsideStep ==
  ASSUME NEW v, IsVector(v), TableKeysOf(v), Ascending(v), Apart(v), NEW k \in Int,
         NEW r, IsPart(v, r), Outside(v, k, r)
  PROVE  Outside(v, k, Narrowed(v, k, r))
<1> DEFINE s == Narrowed(v, k, r)
           m == Middle(r)
           lo(j) == KeyMin(v.first[j])
           hi(j) == KeyMax(v.first[j])
           J == 0 .. v.count - 1
<1>1. v.count \in Nat /\ r.begin \in Nat /\ r.end \in Nat
  BY DEF IsVector, IsPart
<1>2. \A j \in J : lo(j) \in Int /\ hi(j) \in Int /\ lo(j) <= hi(j) /\ j \in Int
  BY DEF TableKeysOf, Apart
<1>3. \A i, j \in J : i < j => lo(i) <= lo(j)
  BY DEF Ascending, KeyMin
<1>4. \A i, j \in J : i # j => hi(i) < lo(j) \/ hi(j) < lo(i)
  BY DEF Apart
<1>5. \A j \in J : (j < r.begin => hi(j) < k) /\ (r.end <= j => k < lo(j))
  BY DEF Outside
<1>6. CASE s = r
  BY <1>6
<1>7. CASE s # r
  <2>1. r.begin < r.end /\ ~HasKey(v.first[m], k)
        /\ IF k < lo(m) THEN s = [begin |-> r.begin, end |-> m] ELSE s = [begin |-> m + 1, end |-> r.end]
    BY <1>7, NarrowedIs
  <2>2. m \in J
    BY <2>1, MiddleIs
  <2>3. ~(lo(m) <= k /\ k <= hi(m))
    BY <2>1 DEF HasKey
  <2> HIDE DEF s, m, lo, hi
  <2>4. CASE k < lo(m)
    <3>1. s.begin = r.begin /\ s.end = m
      BY <2>1, <2>4
    <3>2. \A j \in J : m <= j => k < lo(j)
      <4> SUFFICES ASSUME NEW j \in J, m <= j PROVE k < lo(j)
        OBVIOUS
      <4>1. j = m \/ m < j
        BY <1>2, <2>2
      <4> QED
        BY <1>2, <1>3, <2>2, <2>4, <4>1
    <3> QED
      BY <1>5, <3>1, <3>2 DEF Outside, s, lo, hi
  <2>5. CASE ~(k < lo(m))
    <3>1. s.begin = m + 1 /\ s.end = r.end
      BY <2>1, <2>5
    <3>2. hi(m) < k
      BY <1>2, <2>2, <2>3, <2>5
    <3>3. \A j \in J : j < m + 1 => hi(j) < k
      <4> SUFFICES ASSUME NEW j \in J, j < m + 1 PROVE hi(j) < k
        OBVIOUS
      <4>1. j = m \/ j < m
        BY <1>2, <2>2
      <4>2. CASE j < m
        <5>1. lo(j) <= lo(m) /\ (hi(j) < lo(m) \/ hi(m) < lo(j))
          BY <1>2, <1>3, <1>4, <2>2, <4>2
        <5> QED
          BY <1>2, <2>2, <3>2, <5>1
      <4> QED
        BY <3>2, <4>1, <4>2
    <3> QED
      BY <1>5, <3>1, <3>3 DEF Outside, s, lo, hi
  <2> QED
    BY <2>4, <2>5
<1> QED
  BY <1>6, <1>7

(* Place() as a recursion over the steps.                                  *)
PlaceTurn(v, k, f, n) == IF n = 0 THEN [begin |-> 0, end |-> v.count] ELSE Narrowed(v, k, f[n - 1])

LEMMA PlaceExists ==
  ASSUME NEW v, NEW k, NEW m \in Nat
  PROVE  \E f : f = [n \in 0..m |-> PlaceTurn(v, k, f, n)]
<1> DEFINE T == {l \in Nat : \E f : f = [n \in 0..l |-> PlaceTurn(v, k, f, n)]}
<1>1. 0 \in T
  <2> DEFINE f == [n \in 0..0 |-> [begin |-> 0, end |-> v.count]]
  <2>1. f = [n \in 0..0 |-> PlaceTurn(v, k, f, n)]
    BY DEF PlaceTurn
  <2> HIDE DEF f
  <2> QED
    BY <2>1
<1>2. ASSUME NEW l \in Nat, l \in T PROVE l + 1 \in T
  <2>1. PICK f : f = [n \in 0..l |-> PlaceTurn(v, k, f, n)]
    BY <1>2
  <2> DEFINE g == [n \in 0..l+1 |-> PlaceTurn(v, k, f, n)]
  <2>2. \A n \in 0..l : g[n] = f[n]
    <3>1. \A n \in 0..l : f[n] = PlaceTurn(v, k, f, n)
      BY <2>1, Zenon
    <3>2. \A n \in 0..l : n \in 0..l+1
      OBVIOUS
    <3> QED
      BY <3>1, <3>2, Zenon
  <2>3. \A n \in 0..l+1 : n # 0 => n - 1 \in 0..l
    OBVIOUS
  <2>4. \A n \in 0..l+1 : PlaceTurn(v, k, g, n) = PlaceTurn(v, k, f, n)
    <3> HIDE DEF g
    <3> QED
      BY <2>2, <2>3, Zenon DEF PlaceTurn
  <2>5. g = [n \in 0..l+1 |-> PlaceTurn(v, k, g, n)]
    BY <2>4, Zenon
  <2>6. l + 1 \in Nat
    OBVIOUS
  <2> HIDE DEF g
  <2> QED
    BY <2>5, <2>6, Zenon
<1> HIDE DEF T
<1>3. \A l \in Nat : l \in T
  BY <1>1, <1>2, NatInd
<1> QED
  BY <1>3 DEF T

(* What is left in the end: nothing, or a part whose middle has the key.   *)
LEMMA PlaceEnds ==
  ASSUME NEW v, IsVector(v), NEW k
  PROVE  \E r : /\ IsPart(v, r) /\ Closing(v, k, v.count, r)
                /\ Place(v, k) = IF r.begin >= r.end THEN LAST_INDEX ELSE Middle(r)
                /\ TableKeysOf(v) /\ Ascending(v) /\ Apart(v) /\ k \in Int => Outside(v, k, r)
<1> DEFINE c == v.count
           Good == TableKeysOf(v) /\ Ascending(v) /\ Apart(v) /\ k \in Int
<1>1. c \in Nat
  BY DEF IsVector
<1>2. PICK f : /\ f = [n \in 0..c |-> PlaceTurn(v, k, f, n)]
               /\ Place(v, k) = IF f[c].begin >= f[c].end THEN LAST_INDEX ELSE Middle(f[c])
  <2>1. \E f : f = [n \in 0..c |-> PlaceTurn(v, k, f, n)]
    BY <1>1, PlaceExists
  <2> QED
    BY <2>1, Zenon DEF Place, PlaceTurn
<1>3. \A n \in 0..c : f[n] = PlaceTurn(v, k, f, n)
  BY <1>2, Zenon
<1> DEFINE T == {n \in 0..c : IsPart(v, f[n]) /\ Closing(v, k, n, f[n]) /\ (Good => Outside(v, k, f[n]))}
<1>4. 0 \in T
  <2> DEFINE all == [begin |-> 0, end |-> c]
  <2>1. f[0] = all /\ 0 \in 0..c
    BY <1>1, <1>3 DEF PlaceTurn
  <2>2. all.begin = 0 /\ all.end = c
    OBVIOUS
  <2>3. IsPart(v, all)
    BY <1>1 DEF IsPart
  <2>4. Closing(v, k, 0, all)
    <3>1. c - 0 <= c - 0
      BY <1>1
    <3> QED
      BY <2>2, <3>1 DEF Closing
  <2>5. Outside(v, k, all)
    <3>1. \A j \in 0 .. v.count - 1 : ~(j < 0) /\ ~(c <= j)
      BY <1>1
    <3> QED
      BY <2>2, <3>1, Zenon DEF Outside
  <2> QED
    BY <2>1, <2>3, <2>4, <2>5
<1>5. ASSUME NEW n \in 0 .. c - 1, n \in T PROVE n + 1 \in T
  <2>1. n \in 0..c /\ n \in Int /\ n < c /\ n + 1 \in 0..c /\ n + 1 # 0 /\ (n + 1) - 1 = n
    BY <1>1
  <2>2. f[n + 1] = Narrowed(v, k, f[n])
    BY <1>3, <2>1 DEF PlaceTurn
  <2>3. IsPart(v, f[n]) /\ Closing(v, k, n, f[n]) /\ (Good => Outside(v, k, f[n]))
    BY <1>5
  <2>4. IsPart(v, f[n + 1])
    BY <2>2, <2>3, NarrowedIs
  <2>5. Closing(v, k, n + 1, f[n + 1])
    BY <2>1, <2>2, <2>3, ClosingStep
  <2>6. Good => Outside(v, k, f[n + 1])
    BY <2>2, <2>3, OutsideStep
  <2> QED
    BY <2>1, <2>4, <2>5, <2>6
<1> HIDE DEF T
<1>6. c \in T
  <2>1. \A n \in 0..c : n \in T
    BY <1>1, <1>4, <1>5, UpTo
  <2> QED
    BY <1>1, <2>1
<1>7. IsPart(v, f[c]) /\ Closing(v, k, c, f[c]) /\ (Good => Outside(v, k, f[c]))
  BY <1>6 DEF T
<1> QED
  BY <1>2, <1>7, Zenon

LEMMA PlaceIn ==
  ASSUME NEW v, IsVector(v), NEW k
  PROVE  /\ Place(v, k) \in -1 .. v.count - 1
         /\ Place(v, k) >= 0 => HasKey(v.first[Place(v, k)], k)
<1>1. PICK r : /\ IsPart(v, r) /\ Closing(v, k, v.count, r)
               /\ Place(v, k) = IF r.begin >= r.end THEN LAST_INDEX ELSE Middle(r)
  BY PlaceEnds, Zenon
<1>2. v.count \in Nat /\ r.begin \in Nat /\ r.end \in Nat
  BY <1>1 DEF IsVector, IsPart
<1>3. CASE r.begin >= r.end
  BY <1>1, <1>2, <1>3 DEF LAST_INDEX
<1>4. CASE r.begin < r.end
  <2>1. Middle(r) \in 0 .. v.count - 1
    BY <1>1, <1>4, MiddleIs
  <2>2. ~(r.end - r.begin <= v.count - v.count)
    BY <1>2, <1>4
  <2>3. HasKey(v.first[Middle(r)], k)
    BY <1>1, <2>2, Zenon DEF Closing
  <2>4. Place(v, k) = Middle(r)
    BY <1>1, <1>2, <1>4
  <2> QED
    BY <1>2, <2>1, <2>3, <2>4
<1> QED
  BY <1>2, <1>3, <1>4

(* The search finds the bucket of the key, if there is one.                *)
LEMMA PlaceFinds ==
  ASSUME NEW v, IsVector(v), TableKeysOf(v), Ascending(v), Apart(v), NEW k \in Int,
         ~(Place(v, k) >= 0)
  PROVE  \A j \in 0 .. v.count - 1 : k < KeyMin(v.first[j]) \/ KeyMax(v.first[j]) < k
<1>1. PICK r : /\ IsPart(v, r) /\ Outside(v, k, r)
               /\ Place(v, k) = IF r.begin >= r.end THEN LAST_INDEX ELSE Middle(r)
  BY PlaceEnds, Zenon
<1>2. v.count \in Nat /\ r.begin \in Nat /\ r.end \in Nat
  BY <1>1 DEF IsVector, IsPart
<1>3. r.begin >= r.end
  <2> SUFFICES ASSUME r.begin < r.end PROVE FALSE
    BY <1>2
  <2>1. Middle(r) \in 0 .. v.count - 1
    BY <1>1, MiddleIs
  <2> QED
    BY <1>1, <1>2, <2>1
<1>4. \A j \in 0 .. v.count - 1 : j < r.begin \/ r.end <= j
  BY <1>2, <1>3
<1> QED
  BY <1>1, <1>4, Zenon DEF Outside

-----------------------------------------------------------------------------
(* getRandomEndPoint() of a list.                                          *)
IsEndPoints(l) ==
  /\ Len(l) \in Nat /\ l = [i \in 1..Len(l) |-> l[i]]
  /\ \A i \in 1..Len(l) :
       /\ l[i] = [ip |-> l[i].ip, weight |-> l[i].weight, enableTime |-> l[i].enableTime]
       /\ l[i].weight \in Nat /\ l[i].enableTime \in Int

LEMMA LenIs ==
  ASSUME NEW n \in Nat, NEW f, f = [i \in 1..n |-> f[i]]
  PROVE  Len(f) = n /\ DOMAIN f = 1..n
<1> DEFINE S == {f[i] : i \in 1..n}
<1>1. f \in [1..n -> S]
  OBVIOUS
<1>2. f \in Seq(S)
  <2> HIDE DEF S
  <2> QED
    BY <1>1, IsASeq
<1>3. Len(f) \in Nat /\ DOMAIN f = 1..Len(f)
  BY <1>2, LenProperties
<1>4. DOMAIN f = 1..n
  BY <1>1
<1>5. 1..n = 1..Len(f)
  BY <1>3, <1>4
<1>6. n = Len(f)
  <2>1. \A k \in Nat : k \in 1..n <=> k \in 1..Len(f)
    BY <1>5
  <2> QED
    BY <1>3, <2>1
<1> QED
  BY <1>4, <1>6

Part(l, t, i) == IF IsOn(l[i], t) THEN l[i].weight ELSE 0
WeightTurn(l, t, f, n) == IF n = 0 THEN 0 ELSE f[n - 1] + Part(l, t, n)

LEMMA WeightsExist ==
  ASSUME NEW l, NEW t, NEW m \in Nat
  PROVE  \E f : f = [n \in 0..m |-> WeightTurn(l, t, f, n)]
<1> DEFINE T == {k \in Nat : \E f : f = [n \in 0..k |-> WeightTurn(l, t, f, n)]}
<1>1. 0 \in T
  <2> DEFINE f == [n \in 0..0 |-> 0]
  <2>1. f = [n \in 0..0 |-> WeightTurn(l, t, f, n)]
    BY DEF WeightTurn
  <2> HIDE DEF f
  <2> QED
    BY <2>1
<1>2. ASSUME NEW k \in Nat, k \in T PROVE k + 1 \in T
  <2>1. PICK f : f = [n \in 0..k |-> WeightTurn(l, t, f, n)]
    BY <1>2
  <2> DEFINE g == [n \in 0..k+1 |-> WeightTurn(l, t, f, n)]
  <2>2. \A n \in 0..k : g[n] = f[n]
    <3>1. \A n \in 0..k : f[n] = WeightTurn(l, t, f, n)
      BY <2>1, Zenon
    <3>2. \A n \in 0..k : n \in 0..k+1
      OBVIOUS
    <3> QED
      BY <3>1, <3>2, Zenon
  <2>3. \A n \in 0..k+1 : n # 0 => n - 1 \in 0..k
    OBVIOUS
  <2>4. \A n \in 0..k+1 : WeightTurn(l, t, g, n) = WeightTurn(l, t, f, n)
    <3> HIDE DEF g
    <3> QED
      BY <2>2, <2>3, Zenon DEF WeightTurn
  <2>5. g = [n \in 0..k+1 |-> WeightTurn(l, t, g, n)]
    BY <2>4, Zenon
  <2>6. k + 1 \in Nat
    OBVIOUS
  <2> HIDE DEF g
  <2> QED
    BY <2>5, <2>6, Zenon
<1> HIDE DEF T
<1>3. \A k \in Nat : k \in T
  BY <1>1, <1>2, NatInd
<1> QED
  BY <1>3 DEF T

(* The weights, added up: numbers that never decrease.                     *)
LEMMA WeightsIs ==
  ASSUME NEW l, IsEndPoints(l), NEW t \in Int
  PROVE  /\ Weights(l, t)[0] = 0
         /\ \A n \in 1..Len(l) : /\ Weights(l, t)[n] = Weights(l, t)[n - 1] + Part(l, t, n)
                                 /\ Part(l, t, n) \in Nat
         /\ \A n \in 0..Len(l) : Weights(l, t)[n] \in Nat
         /\ \A n \in 0..Len(l) : \A i \in 0..n : Weights(l, t)[i] <= Weights(l, t)[n]
<1> DEFINE m == Len(l)
           w == Weights(l, t)
<1>1. m \in Nat
  BY DEF IsEndPoints
<1>2. w = [n \in 0..m |-> WeightTurn(l, t, w, n)]
  <2>1. \E f : f = [n \in 0..m |-> WeightTurn(l, t, f, n)]
    BY <1>1, WeightsExist
  <2> QED
    BY <2>1, Zenon DEF Weights, WeightTurn, Part
<1> HIDE DEF w
<1>3. \A n \in 0..m : w[n] = WeightTurn(l, t, w, n)
  BY <1>2, Zenon
<1>4. w[0] = 0
  BY <1>1, <1>3 DEF WeightTurn
<1>5. \A n \in 1..m : Part(l, t, n) \in Nat
  BY DEF Part, IsEndPoints
<1>6. \A n \in 1..m : w[n] = w[n - 1] + Part(l, t, n)
  <2>1. \A n \in 1..m : n \in 0..m /\ n # 0
    BY <1>1
  <2> QED
    BY <1>3, <2>1, Zenon DEF WeightTurn
<1> DEFINE T == {n \in 0..m : w[n] \in Nat /\ \A i \in 0..n : w[i] \in Nat /\ w[i] <= w[n]}
<1>7. 0 \in T
  BY <1>1, <1>4
<1>8. ASSUME NEW n \in 0 .. m - 1, n \in T PROVE n + 1 \in T
  <2>1. n + 1 \in 1..m /\ n + 1 \in 0..m /\ (n + 1) - 1 = n /\ n \in Nat
    BY <1>1
  <2>2. w[n + 1] = w[n] + Part(l, t, n + 1) /\ Part(l, t, n + 1) \in Nat
    BY <1>5, <1>6, <2>1
  <2>3. w[n] \in Nat /\ \A i \in 0..n : w[i] \in Nat /\ w[i] <= w[n]
    BY <1>8
  <2>4. \A i \in 0..n+1 : i \in 0..n \/ i = n + 1
    BY <2>1
  <2>5. w[n + 1] \in Nat /\ w[n] <= w[n + 1]
    BY <2>2, <2>3
  <2>6. \A i \in 0..n+1 : w[i] \in Nat /\ w[i] <= w[n + 1]
    BY <2>3, <2>4, <2>5
  <2> QED
    BY <2>1, <2>5, <2>6
<1> HIDE DEF T
<1>9. \A n \in 0..m : n \in T
  BY <1>1, <1>7, <1>8, UpTo
<1> QED
  BY <1>4, <1>5, <1>6, <1>9, Zenon DEF T, w

LEMMA SmallMod == ASSUME NEW a \in Nat, NEW b \in Nat, a < b PROVE a % b = a
OBVIOUS

(* A draw is for the first with which the weights exceed it.               *)
LEMMA DrawnIs ==
  ASSUME NEW l, IsEndPoints(l), NEW t \in Int, TotalWeight(l, t) > 0,
         NEW draw \in 0 .. TotalWeight(l, t) - 1, NEW i \in 1..Len(l)
  PROVE  Drawn(l, t, draw) = i <=> Weights(l, t)[i - 1] <= draw /\ draw < Weights(l, t)[i]
<1> DEFINE m == Len(l)
           w == Weights(l, t)
           total == TotalWeight(l, t)
           on == {j \in DOMAIN l : IsOn(l[j], t)}
           enough == {j \in on : w[j] > draw % total}
           E == {j \in 0..m : w[j] > draw}
<1>1. /\ m \in Nat /\ DOMAIN l = 1..m
      /\ w[0] = 0 /\ total = w[m]
      /\ \A n \in 1..m : w[n] = w[n - 1] + Part(l, t, n)
      /\ \A n \in 0..m : w[n] \in Nat
      /\ \A n \in 0..m : \A k \in 0..n : w[k] <= w[n]
  BY WeightsIs, LenIs DEF IsEndPoints, TotalWeight
<1>2. total \in Nat /\ draw \in Nat /\ draw < total /\ draw % total = draw
  <2>1. total \in Nat
    BY <1>1
  <2> HIDE DEF total
  <2>2. draw \in Nat /\ draw < total
    BY <2>1 DEF total
  <2> QED
    BY <2>1, <2>2, SmallMod
<1>3. Drawn(l, t, draw) = IF enough = {} THEN Max(on) ELSE Min(enough)
  BY DEF Drawn
<1>4. enough = {j \in on : w[j] > draw}
  BY <1>2
<1> HIDE DEF enough, total, w, m
<1>5. m \in E /\ E \subseteq Nat
  BY <1>1, <1>2
<1>6. PICK j \in E : \A k \in E : j <= k
  BY <1>5, Smallest
<1>7. j \in 0..m /\ w[j] > draw /\ j # 0
  BY <1>1, <1>2, <1>6
<1>8. j \in 1..m /\ j - 1 \in 0..m /\ ~(j <= j - 1)
  BY <1>1, <1>7
<1>9. ~(w[j - 1] > draw)
  BY <1>6, <1>8
<1>10. IsOn(l[j], t)
  <2> SUFFICES ASSUME ~IsOn(l[j], t) PROVE FALSE
    OBVIOUS
  <2>1. w[j] = w[j - 1] + 0
    BY <1>1, <1>8 DEF Part
  <2> QED
    BY <1>1, <1>2, <1>7, <1>8, <1>9, <2>1
<1>11. j \in enough /\ \A k \in enough : k \in E
  BY <1>1, <1>4, <1>7, <1>8, <1>10
<1>12. Min(enough) \in enough /\ \A k \in enough : Min(enough) <= k
  <2>1. enough \subseteq Nat
    BY <1>1, <1>4
  <2> QED
    BY <1>11, <2>1, MinIs
<1>13. Min(enough) = j
  <2>1. Min(enough) \in Nat /\ j \in Nat
    BY <1>1, <1>4, <1>8, <1>12
  <2>2. j <= Min(enough) /\ Min(enough) <= j
    BY <1>6, <1>11, <1>12
  <2> QED
    BY <2>1, <2>2
<1>14. Drawn(l, t, draw) = j
  BY <1>3, <1>11, <1>13
<1>15. i \in 0..m /\ i - 1 \in 0..m /\ i \in Nat
  BY <1>1 DEF m
<1>16. CASE i = j
  BY <1>1, <1>2, <1>7, <1>8, <1>9, <1>14, <1>16 DEF w
<1>17. CASE i < j
  <2>1. ~(w[i] > draw)
    BY <1>6, <1>8, <1>15, <1>17
  <2> QED
    BY <1>1, <1>2, <1>8, <1>14, <1>15, <1>17, <2>1 DEF w
<1>18. CASE j < i
  <2>1. j \in 0 .. i - 1
    BY <1>8, <1>15, <1>18
  <2>2. w[j] <= w[i - 1]
    BY <1>1, <1>15, <2>1
  <2> QED
    BY <1>1, <1>2, <1>7, <1>8, <1>14, <1>15, <1>18, <2>2 DEF w
<1> QED
  BY <1>8, <1>15, <1>16, <1>17, <1>18

(* Each gets as many of the draws as its weight, a paused one none.        *)
LEMMA SharesAre ==
  ASSUME NEW l, IsEndPoints(l), NEW t \in Int, TotalWeight(l, t) > 0, NEW i \in 1..Len(l)
  PROVE  Cardinality({draw \in 0 .. TotalWeight(l, t) - 1 : Drawn(l, t, draw) = i}) = Part(l, t, i)
<1> DEFINE m == Len(l)
           w == Weights(l, t)
           total == TotalWeight(l, t)
           D == {draw \in 0 .. total - 1 : Drawn(l, t, draw) = i}
<1>1. /\ m \in Nat /\ total = w[m]
      /\ w[i] = w[i - 1] + Part(l, t, i) /\ Part(l, t, i) \in Nat
      /\ \A n \in 0..m : w[n] \in Nat
      /\ \A n \in 0..m : \A k \in 0..n : w[k] <= w[n]
  BY WeightsIs DEF IsEndPoints, TotalWeight
<1>2. i \in 0..m /\ i - 1 \in 0..m /\ m \in 0..m
  BY <1>1
<1>3. \A draw \in 0 .. total - 1 : Drawn(l, t, draw) = i <=> w[i - 1] <= draw /\ draw < w[i]
  BY DrawnIs
<1> HIDE DEF w, total
<1>4. w[i] \in Nat /\ w[i - 1] \in Nat /\ total \in Nat /\ w[i] <= total
  BY <1>1, <1>2
<1>5. D = w[i - 1] .. w[i] - 1
  BY <1>3, <1>4
<1> HIDE DEF D
<1>6. Cardinality(D) = IF w[i - 1] > w[i] - 1 THEN 0 ELSE (w[i] - 1) - w[i - 1] + 1
  <2>1. w[i - 1] \in Int /\ w[i] - 1 \in Int
    BY <1>4
  <2> QED
    BY <1>5, <2>1, FS_Interval
<1>7. Cardinality(D) = Part(l, t, i)
  BY <1>1, <1>4, <1>6
<1> QED
  BY <1>7 DEF D, total

(* markPause() and markStart().                                            *)
LEMMA MarkedIs ==
  ASSUME NEW l, IsEndPoints(l), NEW ip, NEW t \in Int
  PROVE  IsEndPoints(Marked(l, ip, t))
<1> DEFINE m == Len(l)
           k == Marked(l, ip, t)
<1>1. m \in Nat /\ DOMAIN l = 1..m
  BY LenIs DEF IsEndPoints
<1>2. k = [i \in 1..m |-> IF l[i].ip = ip THEN [l[i] EXCEPT !.enableTime = t] ELSE l[i]]
  BY <1>1 DEF Marked
<1>3. \A i \in 1..m : k[i] = l[i] \/ k[i] = [l[i] EXCEPT !.enableTime = t]
  BY <1>2
<1>4. k = [i \in 1..m |-> k[i]]
  BY <1>2
<1> HIDE DEF k
<1>5. Len(k) = m
  BY <1>1, <1>4, LenIs
<1>6. ASSUME NEW i \in 1..m
      PROVE  /\ k[i] = [ip |-> k[i].ip, weight |-> k[i].weight, enableTime |-> k[i].enableTime]
             /\ k[i].weight \in Nat /\ k[i].enableTime \in Int
  <2> DEFINE e == l[i]
  <2>1. /\ e = [ip |-> e.ip, weight |-> e.weight, enableTime |-> e.enableTime]
        /\ e.weight \in Nat /\ e.enableTime \in Int
    BY DEF IsEndPoints
  <2>2. k[i] = e \/ k[i] = [e EXCEPT !.enableTime = t]
    BY <1>3
  <2> HIDE DEF e
  <2>3. [e EXCEPT !.enableTime = t] = [ip |-> e.ip, weight |-> e.weight, enableTime |-> t]
    BY <2>1
  <2> QED
    BY <2>1, <2>2, <2>3
<1> HIDE DEF m
<1> QED
  BY <1>1, <1>4, <1>5, <1>6 DEF IsEndPoints, k

-----------------------------------------------------------------------------
(* The list of mails.  Its items are mails of the mailbox, in the order of *)
(* their numbers.                                                          *)
IsUids(v, b) ==
  /\ IsVector(v)
  /\ \A j \in 0 .. v.count - 1 :
       /\ v.first[j] = <<v.first[j][1], v.first[j][2], v.first[j][3]>>
       /\ v.first[j][1] \in 1..Len(b) /\ v.first[j][2] = b[v.first[j][1]]
  /\ \A i, j \in 0 .. v.count - 1 : i < j => v.first[i][1] < v.first[j][1]

HasNumber(v, n) == \E j \in 0 .. v.count - 1 : v.first[j][1] = n

(* getAllUidList() and getNewUidList().                                    *)
UidTurn(v, b, seqs, f, n) ==
  IF n = 0 THEN v
  ELSE IF n \in seqs THEN Appended(f[n - 1], <<n, b[n], 0>>) ELSE f[n - 1]

UidsRead(v, b, seqs, m, f) == f = [n \in 0..m |-> UidTurn(v, b, seqs, f, n)]

LEMMA UidsExist ==
  ASSUME NEW v, NEW b, NEW seqs, NEW m \in Nat
  PROVE  \E f : UidsRead(v, b, seqs, m, f)
<1> DEFINE T == {k \in Nat : \E f : UidsRead(v, b, seqs, k, f)}
<1>1. 0 \in T
  <2> DEFINE f == [n \in 0..0 |-> v]
  <2>1. f = [n \in 0..0 |-> UidTurn(v, b, seqs, f, n)]
    BY DEF UidTurn
  <2> HIDE DEF f
  <2>2. UidsRead(v, b, seqs, 0, f)
    BY <2>1, Zenon DEF UidsRead
  <2> QED
    BY <2>2
<1>2. ASSUME NEW k \in Nat, k \in T PROVE k + 1 \in T
  <2>1. PICK f : f = [n \in 0..k |-> UidTurn(v, b, seqs, f, n)]
    BY <1>2, Zenon DEF UidsRead
  <2> DEFINE g == [n \in 0..k+1 |-> UidTurn(v, b, seqs, f, n)]
  <2>2. \A n \in 0..k : g[n] = f[n]
    <3>1. \A n \in 0..k : f[n] = UidTurn(v, b, seqs, f, n)
      BY <2>1, Zenon
    <3>2. \A n \in 0..k : n \in 0..k+1
      OBVIOUS
    <3> QED
      BY <3>1, <3>2, Zenon
  <2>3. \A n \in 0..k+1 : n # 0 => n - 1 \in 0..k
    OBVIOUS
  <2>4. \A n \in 0..k+1 : UidTurn(v, b, seqs, g, n) = UidTurn(v, b, seqs, f, n)
    <3> HIDE DEF g
    <3> QED
      BY <2>2, <2>3, Zenon DEF UidTurn
  <2>5. g = [n \in 0..k+1 |-> UidTurn(v, b, seqs, g, n)]
    BY <2>4, Zenon
  <2>6. k + 1 \in Nat
    OBVIOUS
  <2> HIDE DEF g
  <2>7. UidsRead(v, b, seqs, k + 1, g)
    BY <2>5, Zenon DEF UidsRead
  <2> QED
    BY <2>6, <2>7, Zenon
<1> HIDE DEF T
<1>3. \A k \in Nat : k \in T
  BY <1>1, <1>2, NatInd
<1> QED
  BY <1>3 DEF T

(* After the first n lines.                                                *)
UidsTo(v, b, seqs, n) ==
  /\ IsUids(v, b)
  /\ \A j \in 0 .. v.count - 1 : v.first[j][1] <= n /\ v.first[j][1] \in seqs
  /\ \A i \in 1..n : i \in seqs => HasNumber(v, i)

LEMMA UidsToStep ==
  ASSUME NEW b, Len(b) \in Nat, NEW seqs, NEW v, NEW n \in 0 .. Len(b) - 1, UidsTo(v, b, seqs, n)
  PROVE  UidsTo(IF n + 1 \in seqs THEN Appended(v, <<n + 1, b[n + 1], 0>>) ELSE v, b, seqs, n + 1)
<1> DEFINE x == <<n + 1, b[n + 1], 0>>
           a == Appended(v, x)
           c == v.count
<1>1. IsVector(v) /\ c \in Nat
  BY DEF UidsTo, IsUids, IsVector
<1>2. /\ IsVector(a) /\ a.count = c + 1 /\ a.first[c] = x
      /\ \A j \in 0 .. c - 1 : a.first[j] = v.first[j]
  BY <1>1, AppendedIs
<1>3. /\ \A j \in 0 .. c - 1 :
           /\ v.first[j] = <<v.first[j][1], v.first[j][2], v.first[j][3]>>
           /\ v.first[j][1] \in 1..Len(b) /\ v.first[j][2] = b[v.first[j][1]]
           /\ v.first[j][1] <= n /\ v.first[j][1] \in seqs
      /\ \A i, j \in 0 .. c - 1 : i < j => v.first[i][1] < v.first[j][1]
      /\ \A i \in 1..n : i \in seqs => HasNumber(v, i)
  BY DEF UidsTo, IsUids
<1>4. n + 1 \in 1..Len(b) /\ n \in Nat
  OBVIOUS
<1>5. CASE n + 1 \notin seqs
  <2>1. \A i \in 1..n+1 : i \in seqs => i \in 1..n
    BY <1>5
  <2>2. \A j \in 0 .. c - 1 : v.first[j][1] <= n + 1 /\ v.first[j][1] \in seqs
    BY <1>3
  <2>3. UidsTo(v, b, seqs, n + 1)
    <3>1. IsUids(v, b)
      BY DEF UidsTo
    <3> QED
      BY <1>3, <2>1, <2>2, <3>1, Zenon DEF UidsTo
  <2> QED
    BY <1>5, <2>3
<1>6. CASE n + 1 \in seqs
  <2>1. x = <<x[1], x[2], x[3]>> /\ x[1] = n + 1 /\ x[2] = b[x[1]]
    OBVIOUS
  <2> HIDE DEF x, a
  <2>2. \A j \in 0 .. a.count - 1 : (j \in 0 .. c - 1 /\ a.first[j] = v.first[j]) \/ (j = c /\ a.first[j] = x)
    BY <1>1, <1>2
  <2>3. \A j \in 0 .. a.count - 1 :
           /\ a.first[j] = <<a.first[j][1], a.first[j][2], a.first[j][3]>>
           /\ a.first[j][1] \in 1..Len(b) /\ a.first[j][2] = b[a.first[j][1]]
           /\ a.first[j][1] <= n + 1 /\ a.first[j][1] \in seqs
    <3> SUFFICES ASSUME NEW j \in 0 .. a.count - 1
                 PROVE /\ a.first[j] = <<a.first[j][1], a.first[j][2], a.first[j][3]>>
                       /\ a.first[j][1] \in 1..Len(b) /\ a.first[j][2] = b[a.first[j][1]]
                       /\ a.first[j][1] <= n + 1 /\ a.first[j][1] \in seqs
      OBVIOUS
    <3> DEFINE e == a.first[j]
    <3>1. /\ e = <<e[1], e[2], e[3]>>
          /\ e[1] \in 1..Len(b) /\ e[2] = b[e[1]]
          /\ e[1] <= n + 1 /\ e[1] \in seqs
      <4>1. CASE j \in 0 .. c - 1 /\ e = v.first[j]
        BY <1>3, <4>1
      <4>2. CASE e = x
        BY <1>4, <1>6, <2>1, <4>2
      <4> QED
        BY <2>2, <4>1, <4>2
    <3> QED
      BY <3>1, Zenon
  <2>4. \A i, j \in 0 .. a.count - 1 : i < j => a.first[i][1] < a.first[j][1]
    <3> SUFFICES ASSUME NEW i \in 0 .. a.count - 1, NEW j \in 0 .. a.count - 1, i < j
                 PROVE  a.first[i][1] < a.first[j][1]
      OBVIOUS
    <3>1. i \in 0 .. c - 1 /\ a.first[i] = v.first[i]
      BY <1>1, <1>2, <2>2
    <3>2. CASE j \in 0 .. c - 1 /\ a.first[j] = v.first[j]
      BY <1>3, <3>1, <3>2
    <3>3. CASE a.first[j] = x
      BY <1>3, <1>4, <2>1, <3>1, <3>3
    <3> QED
      BY <2>2, <3>2, <3>3
  <2>5. \A i \in 1..n+1 : i \in seqs => HasNumber(a, i)
    <3> SUFFICES ASSUME NEW i \in 1..n+1, i \in seqs PROVE HasNumber(a, i)
      OBVIOUS
    <3>1. CASE i = n + 1
      <4>1. c \in 0 .. a.count - 1 /\ a.first[c][1] = i
        BY <1>1, <1>2, <2>1, <3>1
      <4> QED
        BY <4>1, Zenon DEF HasNumber
    <3>2. CASE i # n + 1
      <4>1. i \in 1..n
        BY <3>2
      <4>2. PICK j \in 0 .. c - 1 : v.first[j][1] = i
        BY <1>3, <4>1, Zenon DEF HasNumber
      <4>3. j \in 0 .. a.count - 1 /\ a.first[j][1] = i
        BY <1>1, <1>2, <4>2
      <4> QED
        BY <4>3, Zenon DEF HasNumber
    <3> QED
      BY <3>1, <3>2
  <2>6. IsUids(a, b)
    BY <1>2, <2>3, <2>4, Zenon DEF IsUids
  <2>7. UidsTo(a, b, seqs, n + 1)
    BY <2>3, <2>5, <2>6, Zenon DEF UidsTo
  <2> QED
    BY <1>6, <2>7, Zenon DEF a, x
<1> QED
  BY <1>5, <1>6

LEMMA WithUidsIs ==
  ASSUME NEW v, IsVector(v), v.count = 0, NEW seqs, Len(box) \in Nat
  PROVE  /\ IsUids(WithUids(v, seqs), box)
         /\ \A i \in 1..Len(box) : i \in seqs => HasNumber(WithUids(v, seqs), i)
         /\ \A j \in 0 .. WithUids(v, seqs).count - 1 : WithUids(v, seqs).first[j][1] \in seqs
<1> DEFINE m == Len(box)
<1>1. PICK f : /\ f = [n \in 0..m |-> UidTurn(v, box, seqs, f, n)]
               /\ WithUids(v, seqs) = f[m]
  <2>1. \E f : UidsRead(v, box, seqs, m, f)
    BY UidsExist
  <2> QED
    BY <2>1, Zenon DEF WithUids, UidTurn, UidsRead
<1>2. \A n \in 0..m : f[n] = UidTurn(v, box, seqs, f, n)
  BY <1>1, Zenon
<1> DEFINE T == {n \in 0..m : UidsTo(f[n], box, seqs, n)}
<1>3. 0 \in T
  <2>1. f[0] = v /\ 0 \in 0..m
    <3>1. 0 \in 0..m
      OBVIOUS
    <3> QED
      BY <1>2, <3>1, Zenon DEF UidTurn
  <2>2. UidsTo(v, box, seqs, 0)
    <3>1. 0 .. v.count - 1 = {} /\ 1..0 = {}
      OBVIOUS
    <3> QED
      BY <3>1, Zenon DEF UidsTo, IsUids
  <2> QED
    BY <2>1, <2>2
<1>4. ASSUME NEW n \in 0 .. m - 1, n \in T PROVE n + 1 \in T
  <2>1. n \in 0..m /\ n + 1 \in 0..m /\ n + 1 # 0 /\ (n + 1) - 1 = n
    OBVIOUS
  <2>2. f[n + 1] = IF n + 1 \in seqs THEN Appended(f[n], <<n + 1, box[n + 1], 0>>) ELSE f[n]
    BY <1>2, <2>1 DEF UidTurn
  <2>3. UidsTo(f[n], box, seqs, n)
    BY <1>4
  <2>4. UidsTo(f[n + 1], box, seqs, n + 1)
    BY <2>2, <2>3, UidsToStep
  <2> QED
    BY <2>1, <2>4
<1> HIDE DEF T
<1>5. m \in T
  <2>1. \A n \in 0..m : n \in T
    BY <1>3, <1>4, UpTo
  <2>2. m \in 0..m
    OBVIOUS
  <2> QED
    BY <2>1, <2>2
<1>6. UidsTo(f[m], box, seqs, m)
  BY <1>5 DEF T
<1> QED
  BY <1>1, <1>6, Zenon DEF UidsTo

-----------------------------------------------------------------------------
(* find(): the place of the mail with the number, the last one's if there  *)
(* is none.                                                                *)
LEMMA FoundAtIs ==
  ASSUME NEW v, IsVector(v), v.count # 0, NEW n
  PROVE  /\ FoundAt(v, n) \in 0 .. v.count - 1
         /\ v.first[FoundAt(v, n)][1] = n \/ (FoundAt(v, n) = v.count - 1 /\ ~HasNumber(v, n))
<1> DEFINE c == v.count
           s == InUse(v)
           I == {i \in 1..Len(s) : s[i][1] = n}
<1>1. c \in Nat /\ c # 0
  BY DEF IsVector
<1>2. s = [i \in 1..c |-> s[i]] /\ \A i \in 1..c : s[i] = v.first[i - 1]
  BY DEF InUse
<1> HIDE DEF s
<1>3. Len(s) = c
  BY <1>1, <1>2, LenIs
<1>4. FirstWith(v, n) = (IF I # {} THEN Min(I) ELSE 0) - 1
  BY DEF FirstWith, SelectInSeq, s
<1>5. I \subseteq Nat /\ \A i \in I : i \in 1..c /\ v.first[i - 1][1] = n
  <2>1. \A i \in I : i \in 1..c /\ s[i][1] = n
    BY <1>3
  <2>2. \A i \in I : v.first[i - 1][1] = n
    <3> HIDE DEF I
    <3> QED
      BY <1>2, <2>1, Zenon
  <2>3. I \subseteq Nat
    BY <1>1, <1>3
  <2> QED
    BY <2>1, <2>2, <2>3, Zenon
<1>6. CASE I # {}
  <2>1. Min(I) \in I
    BY <1>5, <1>6, MinIs
  <2> DEFINE i == Min(I)
  <2> HIDE DEF I, i
  <2>2. FirstWith(v, n) = i - 1
    BY <1>4, <1>6 DEF i
  <2>3. i \in 1..c /\ v.first[i - 1][1] = n
    BY <1>5, <2>1 DEF i
  <2>4. FoundAt(v, n) = i - 1
    <3>1. i - 1 # LAST_INDEX
      BY <1>1, <2>3 DEF LAST_INDEX
    <3> QED
      BY <2>2, <3>1 DEF FoundAt, Index
  <2> QED
    BY <1>1, <2>3, <2>4
<1>7. CASE I = {}
  <2>1. FirstWith(v, n) = LAST_INDEX
    <3>1. FirstWith(v, n) = 0 - 1
      BY <1>4, <1>7
    <3> QED
      BY <3>1 DEF LAST_INDEX
  <2>2. FoundAt(v, n) = c - 1
    BY <2>1 DEF FoundAt, Index
  <2>3. ~HasNumber(v, n)
    <3> SUFFICES ASSUME NEW j \in 0 .. c - 1, v.first[j][1] = n PROVE FALSE
      BY DEF HasNumber
    <3>1. j + 1 \in 1..c /\ (j + 1) - 1 = j
      BY <1>1
    <3>2. s[j + 1][1] = n
      BY <1>2, <3>1
    <3> QED
      BY <1>3, <1>7, <3>1, <3>2
  <2> QED
    BY <1>1, <2>2, <2>3
<1> QED
  BY <1>6, <1>7

(* One size goes to one item, whose number and uid stay.                   *)
LEMMA WithSizeIs ==
  ASSUME NEW v, IsUids(v, box), v.count # 0, NEW n
  PROVE  /\ IsUids(WithSize(v, n), box) /\ WithSize(v, n).count = v.count
         /\ WithSize(v, n).first[FoundAt(v, n)][3] = Mail[box[n]]
         /\ \A j \in 0 .. v.count - 1 :
              /\ WithSize(v, n).first[j][1] = v.first[j][1]
              /\ j # FoundAt(v, n) => WithSize(v, n).first[j] = v.first[j]
<1> DEFINE c == v.count
           p == FoundAt(v, n)
           x == Mail[box[n]]
           first == [v.first EXCEPT ![p] = [v.first[p] EXCEPT ![3] = x]]
           w == [first |-> first, count |-> c, max |-> v.max]
<1>1. IsVector(v)
  BY DEF IsUids
<1>2. /\ v = [first |-> v.first, count |-> c, max |-> v.max]
      /\ v.max \in Nat /\ v.max # 0 /\ c \in 0..v.max
      /\ v.first = [j \in 0 .. v.max - 1 |-> v.first[j]]
  BY <1>1 DEF IsVector
<1>3. p \in 0 .. c - 1
  BY <1>1, FoundAtIs
<1> HIDE DEF p, x
<1>4. WithSize(v, n) = w
  <2>1. WithSize(v, n) = [v EXCEPT !.first[p][3] = x]
    BY DEF WithSize, p, x
  <2> QED
    BY <1>2, <2>1
<1>5. /\ \A j \in 0 .. c - 1 :
           /\ v.first[j] = <<v.first[j][1], v.first[j][2], v.first[j][3]>>
           /\ v.first[j][1] \in 1..Len(box) /\ v.first[j][2] = box[v.first[j][1]]
      /\ \A i, j \in 0 .. c - 1 : i < j => v.first[i][1] < v.first[j][1]
  BY DEF IsUids
<1>6. [v.first[p] EXCEPT ![3] = x] = <<v.first[p][1], v.first[p][2], x>>
  <2> DEFINE u == v.first[p]
  <2>1. u = <<u[1], u[2], u[3]>>
    BY <1>3, <1>5
  <2> HIDE DEF u
  <2>2. [u EXCEPT ![3] = x] = <<u[1], u[2], x>>
    BY <2>1
  <2> QED
    BY <2>2 DEF u
<1>7. /\ first = [j \in 0 .. v.max - 1 |-> first[j]]
      /\ first[p] = <<v.first[p][1], v.first[p][2], x>>
      /\ \A j \in 0 .. c - 1 : j # p => first[j] = v.first[j]
  <2> DEFINE y == <<v.first[p][1], v.first[p][2], x>>
  <2>1. p \in 0 .. v.max - 1 /\ \A j \in 0 .. c - 1 : j \in 0 .. v.max - 1
    BY <1>2, <1>3
  <2>2. first = [v.first EXCEPT ![p] = y]
    BY <1>6, Zenon
  <2> HIDE DEF first, y
  <2>3. first = [j \in 0 .. v.max - 1 |-> IF j = p THEN y ELSE v.first[j]]
    BY <1>2, <2>2, Zenon
  <2> QED
    BY <2>1, <2>3 DEF y
<1> HIDE DEF first
<1>8. w.first = first /\ w.count = c /\ w.max = v.max
  OBVIOUS
<1>9. IsVector(w)
  BY <1>2, <1>7, <1>8 DEF IsVector
<1>10. \A j \in 0 .. c - 1 :
         /\ first[j] = <<first[j][1], first[j][2], first[j][3]>>
         /\ first[j][1] = v.first[j][1] /\ first[j][2] = v.first[j][2]
  <2> SUFFICES ASSUME NEW j \in 0 .. c - 1
               PROVE  /\ first[j] = <<first[j][1], first[j][2], first[j][3]>>
                      /\ first[j][1] = v.first[j][1] /\ first[j][2] = v.first[j][2]
    OBVIOUS
  <2>1. CASE j = p
    <3> DEFINE y == <<v.first[p][1], v.first[p][2], x>>
    <3>1. y = <<y[1], y[2], y[3]>> /\ y[1] = v.first[p][1] /\ y[2] = v.first[p][2]
      OBVIOUS
    <3> HIDE DEF y
    <3>2. first[j] = y
      BY <1>7, <2>1 DEF y
    <3> QED
      BY <2>1, <3>1, <3>2, Zenon
  <2>2. CASE j # p
    <3>1. first[j] = v.first[j]
      BY <1>7, <2>2
    <3> QED
      BY <1>5, <3>1
  <2> QED
    BY <2>1, <2>2
<1>11. /\ \A j \in 0 .. c - 1 :
            /\ first[j] = <<first[j][1], first[j][2], first[j][3]>>
            /\ first[j][1] \in 1..Len(box) /\ first[j][2] = box[first[j][1]]
       /\ \A i, j \in 0 .. c - 1 : i < j => first[i][1] < first[j][1]
  <2>1. ASSUME NEW j \in 0 .. c - 1
        PROVE  /\ first[j] = <<first[j][1], first[j][2], first[j][3]>>
               /\ first[j][1] \in 1..Len(box) /\ first[j][2] = box[first[j][1]]
    BY <1>5, <1>10, Zenon
  <2>2. ASSUME NEW i \in 0 .. c - 1, NEW j \in 0 .. c - 1, i < j PROVE first[i][1] < first[j][1]
    BY <1>5, <1>10, <2>2
  <2> QED
    BY <2>1, <2>2
<1>12. IsUids(w, box)
  BY <1>8, <1>9, <1>11, Zenon DEF IsUids
<1>13. first[p][3] = x
  <2> DEFINE y == <<v.first[p][1], v.first[p][2], x>>
  <2>1. y[3] = x
    OBVIOUS
  <2> HIDE DEF y
  <2>2. first[p] = y
    BY <1>7, Zenon DEF y
  <2> QED
    BY <2>1, <2>2, Zenon
<1> QED
  BY <1>4, <1>7, <1>8, <1>10, <1>12, <1>13 DEF p, x

SizeTurn(v, seqs, f, n) ==
  IF n = 0 THEN v ELSE IF n \in seqs THEN WithSize(f[n - 1], n) ELSE f[n - 1]

SizesRead(v, seqs, m, f) == f = [n \in 0..m |-> SizeTurn(v, seqs, f, n)]

LEMMA SizesExist ==
  ASSUME NEW v, NEW seqs, NEW m \in Nat
  PROVE  \E f : SizesRead(v, seqs, m, f)
<1> DEFINE T == {k \in Nat : \E f : SizesRead(v, seqs, k, f)}
<1>1. 0 \in T
  <2> DEFINE f == [n \in 0..0 |-> v]
  <2>1. f = [n \in 0..0 |-> SizeTurn(v, seqs, f, n)]
    BY DEF SizeTurn
  <2> HIDE DEF f
  <2>2. SizesRead(v, seqs, 0, f)
    BY <2>1, Zenon DEF SizesRead
  <2> QED
    BY <2>2
<1>2. ASSUME NEW k \in Nat, k \in T PROVE k + 1 \in T
  <2>1. PICK f : f = [n \in 0..k |-> SizeTurn(v, seqs, f, n)]
    BY <1>2, Zenon DEF SizesRead
  <2> DEFINE g == [n \in 0..k+1 |-> SizeTurn(v, seqs, f, n)]
  <2>2. \A n \in 0..k : g[n] = f[n]
    <3>1. \A n \in 0..k : f[n] = SizeTurn(v, seqs, f, n)
      BY <2>1, Zenon
    <3>2. \A n \in 0..k : n \in 0..k+1
      OBVIOUS
    <3> QED
      BY <3>1, <3>2, Zenon
  <2>3. \A n \in 0..k+1 : n # 0 => n - 1 \in 0..k
    OBVIOUS
  <2>4. \A n \in 0..k+1 : SizeTurn(v, seqs, g, n) = SizeTurn(v, seqs, f, n)
    <3> HIDE DEF g
    <3> QED
      BY <2>2, <2>3, Zenon DEF SizeTurn
  <2>5. g = [n \in 0..k+1 |-> SizeTurn(v, seqs, g, n)]
    BY <2>4, Zenon
  <2>6. k + 1 \in Nat
    OBVIOUS
  <2> HIDE DEF g
  <2>7. SizesRead(v, seqs, k + 1, g)
    BY <2>5, Zenon DEF SizesRead
  <2> QED
    BY <2>6, <2>7, Zenon
<1> HIDE DEF T
<1>3. \A k \in Nat : k \in T
  BY <1>1, <1>2, NatInd
<1> QED
  BY <1>3 DEF T

(* After the first n lines: each mail up to there has its size, but for    *)
(* the deleted ones, and for the last, which may have got a later one's.   *)
SizesTo(v, w, del, n) ==
  /\ IsUids(w, box) /\ w.count = v.count
  /\ \A j \in 0 .. v.count - 1 : w.first[j][1] = v.first[j][1]
  /\ \A j \in 0 .. v.count - 1 :
       w.first[j][1] <= n /\ w.first[j][1] \notin del =>
         w.first[j][3] = Mail[w.first[j][2]] \/ (j = v.count - 1 /\ w.first[j][1] < n)

LEMMA SizesToStep ==
  ASSUME NEW v, v.count \in Nat, NEW w, NEW del, Len(box) \in Nat, NEW n \in 0 .. Len(box) - 1,
         SizesTo(v, w, del, n)
  PROVE  SizesTo(v, IF n + 1 \notin del THEN WithSize(w, n + 1) ELSE w, del, n + 1)
<1> DEFINE c == v.count
           s == WithSize(w, n + 1)
           p == FoundAt(w, n + 1)
           J == 0 .. c - 1
<1>1. /\ IsUids(w, box) /\ w.count = c /\ c \in Nat
      /\ \A j \in J : w.first[j][1] = v.first[j][1]
      /\ \A j \in J : w.first[j][1] <= n /\ w.first[j][1] \notin del =>
           w.first[j][3] = Mail[w.first[j][2]] \/ (j = c - 1 /\ w.first[j][1] < n)
  BY DEF SizesTo
<1>2. /\ IsVector(w)
      /\ \A j \in J : /\ w.first[j][1] \in 1..Len(box) /\ w.first[j][2] = box[w.first[j][1]]
                      /\ w.first[j][1] \in Int
      /\ \A i, j \in J : i < j => w.first[i][1] < w.first[j][1]
  BY <1>1 DEF IsUids
<1>3. n \in Int /\ c - 1 \in Int
  BY <1>1
<1>4. CASE n + 1 \in del
  <2>1. \A j \in J : w.first[j][1] <= n + 1 /\ w.first[j][1] \notin del =>
          w.first[j][3] = Mail[w.first[j][2]] \/ (j = c - 1 /\ w.first[j][1] < n + 1)
    <3> SUFFICES ASSUME NEW j \in J, w.first[j][1] <= n + 1, w.first[j][1] \notin del
                 PROVE  w.first[j][3] = Mail[w.first[j][2]] \/ (j = c - 1 /\ w.first[j][1] < n + 1)
      OBVIOUS
    <3>1. w.first[j][1] # n + 1
      BY <1>4
    <3>2. w.first[j][1] <= n
      BY <1>2, <1>3, <3>1
    <3> QED
      BY <1>1, <1>2, <1>3, <3>2
  <2>2. SizesTo(v, w, del, n + 1)
    BY <1>1, <2>1, Zenon DEF SizesTo
  <2> QED
    BY <1>4, <2>2, Zenon
<1>5. CASE n + 1 \notin del /\ c = 0
  <2>1. s = w
    BY <1>1, <1>5 DEF WithSize
  <2>2. J = {}
    BY <1>5
  <2>3. SizesTo(v, w, del, n + 1)
    BY <1>1, <2>2, Zenon DEF SizesTo
  <2> QED
    BY <1>5, <2>1, <2>3, Zenon
<1>6. CASE n + 1 \notin del /\ c # 0
  <2>1. /\ IsUids(s, box) /\ s.count = c
        /\ s.first[p][3] = Mail[box[n + 1]]
        /\ \A j \in J : /\ s.first[j][1] = w.first[j][1]
                        /\ j # p => s.first[j] = w.first[j]
    BY <1>1, <1>6, WithSizeIs
  <2>2. p \in J /\ (w.first[p][1] = n + 1 \/ (p = c - 1 /\ ~HasNumber(w, n + 1)))
    BY <1>1, <1>2, <1>6, FoundAtIs
  <2> HIDE DEF s, p
  <2>3. \A j \in J : s.first[j][1] \in 1..Len(box) /\ s.first[j][2] = box[s.first[j][1]]
    BY <2>1 DEF IsUids
  <2>4. \A j \in J : s.first[j][1] = v.first[j][1]
    BY <1>1, <2>1
  <2>5. ASSUME NEW j \in J, s.first[j][1] <= n + 1, s.first[j][1] \notin del
        PROVE  s.first[j][3] = Mail[s.first[j][2]] \/ (j = c - 1 /\ s.first[j][1] < n + 1)
    <3>1. s.first[j][1] = w.first[j][1] /\ w.first[j][1] \in Int
      BY <1>2, <2>1
    <3>2. CASE j = p /\ w.first[p][1] = n + 1
      <4>1. s.first[j][2] = box[n + 1]
        BY <2>3, <3>1, <3>2
      <4> QED
        BY <2>1, <3>2, <4>1
    <3>3. CASE w.first[j][1] = n + 1 /\ j # p
      <4>1. HasNumber(w, n + 1)
        BY <1>1, <3>3, Zenon DEF HasNumber
      <4>2. w.first[p][1] = w.first[j][1]
        BY <2>2, <3>3, <4>1
      <4>3. j < p \/ p < j
        BY <1>1, <2>2, <3>3
      <4>4. w.first[p][1] \in Int
        BY <1>2, <2>2
      <4> QED
        BY <1>2, <2>2, <3>1, <4>2, <4>3, <4>4
    <3>4. CASE w.first[j][1] # n + 1 /\ j = p
      <4>1. j = c - 1
        BY <2>2, <3>4
      <4> QED
        BY <1>3, <2>5, <3>1, <3>4, <4>1
    <3>5. CASE w.first[j][1] # n + 1 /\ j # p
      <4>1. s.first[j] = w.first[j]
        BY <2>1, <3>5
      <4>2. w.first[j][1] <= n /\ w.first[j][1] \notin del
        BY <1>3, <2>5, <3>1, <3>5
      <4>3. w.first[j][3] = Mail[w.first[j][2]] \/ (j = c - 1 /\ w.first[j][1] < n)
        BY <1>1, <4>2
      <4>4. w.first[j][1] < n => w.first[j][1] < n + 1
        BY <1>3, <3>1
      <4> QED
        BY <4>1, <4>3, <4>4, Zenon
    <3> QED
      BY <3>2, <3>3, <3>4, <3>5
  <2>6. SizesTo(v, s, del, n + 1)
    BY <2>1, <2>4, <2>5, Zenon DEF SizesTo
  <2> QED
    BY <1>6, <2>6, Zenon DEF s
<1> QED
  BY <1>4, <1>5, <1>6

LEMMA WithSizesIs ==
  ASSUME NEW v, IsUids(v, box), Len(box) \in Nat, NEW del
  PROVE  SizesTo(v, WithSizes(v, 1..Len(box) \ del), del, Len(box))
<1> DEFINE m == Len(box)
           seqs == 1..m \ del
<1>1. PICK f : /\ f = [n \in 0..m |-> SizeTurn(v, seqs, f, n)]
               /\ WithSizes(v, seqs) = f[m]
  <2>1. \E f : SizesRead(v, seqs, m, f)
    BY SizesExist
  <2> HIDE DEF seqs
  <2> QED
    BY <2>1, Zenon DEF WithSizes, SizeTurn, SizesRead
<1>2. \A n \in 0..m : f[n] = SizeTurn(v, seqs, f, n)
  BY <1>1, Zenon
<1>3. v.count \in Nat /\ \A j \in 0 .. v.count - 1 : v.first[j][1] \in 1..m
  <2>1. IsVector(v)
    BY DEF IsUids
  <2> QED
    <3>1. v.count \in Nat
      BY <2>1 DEF IsVector
    <3> QED
      BY <3>1, Zenon DEF IsUids
<1> DEFINE T == {n \in 0..m : SizesTo(v, f[n], del, n)}
<1>4. 0 \in T
  <2>1. 0 \in 0..m
    OBVIOUS
  <2>2. f[0] = v
    BY <1>2, <2>1, Zenon DEF SizeTurn
  <2>3. \A j \in 0 .. v.count - 1 : ~(v.first[j][1] <= 0)
    BY <1>3
  <2>4. SizesTo(v, v, del, 0)
    BY <2>3, Zenon DEF SizesTo
  <2> QED
    BY <2>1, <2>2, <2>4
<1>5. ASSUME NEW n \in 0 .. m - 1, n \in T PROVE n + 1 \in T
  <2>1. n \in 0..m /\ n + 1 \in 0..m /\ n + 1 # 0 /\ (n + 1) - 1 = n /\ (n + 1 \in seqs <=> n + 1 \notin del)
    OBVIOUS
  <2> HIDE DEF seqs
  <2>2. f[n + 1] = IF n + 1 \notin del THEN WithSize(f[n], n + 1) ELSE f[n]
    BY <1>2, <2>1 DEF SizeTurn
  <2>3. SizesTo(v, f[n], del, n)
    BY <1>5
  <2>4. SizesTo(v, f[n + 1], del, n + 1)
    BY <1>3, <2>2, <2>3, SizesToStep
  <2> QED
    BY <2>1, <2>4
<1> HIDE DEF T
<1>6. m \in T
  <2>1. \A n \in 0..m : n \in T
    BY <1>4, <1>5, UpTo
  <2>2. m \in 0..m
    OBVIOUS
  <2> QED
    BY <2>1, <2>2
<1>7. SizesTo(v, f[m], del, m)
  BY <1>6 DEF T
<1> QED
  BY <1>1, <1>7, Zenon

-----------------------------------------------------------------------------
(* The file.                                                               *)
IsText(s) == s \in Seq(ToSet(s)) /\ NULL \notin Seq(ToSet(s))

IsFile(f) ==
  /\ Len(f) \in Nat
  /\ \A i \in 1..Len(f) :
       Len(f[i].name) \in Nat /\ IsText(f[i].text) /\ (i < Len(f) => f[i].nl)

(* The helpers of the file's module are the same as the table's.           *)
LEMMA IniMinIs ==
  ASSUME NEW T, T \subseteq Nat, T # {}
  PROVE  Ini!Min(T) \in T /\ \A k \in T : Ini!Min(T) <= k
BY Smallest DEF Ini!Min

LEMMA IniMaxIs ==
  ASSUME NEW n \in Nat, NEW T, T \subseteq 0..n, T # {}
  PROVE  Ini!Max(T) \in T /\ \A k \in T : k <= Ini!Max(T)
<1>1. Ini!Max(T) = Max(T)
  BY DEF Ini!Max, Max
<1> QED
  BY <1>1, MaxIs

LEMMA PartIn ==
  ASSUME NEW S, NEW s \in Seq(S), NEW a \in Nat, a >= 1, NEW b \in Int, b <= Len(s)
  PROVE  SubSeq(s, a, b) \in Seq(S)
<1>1. Len(s) \in Nat
  BY LenProperties
<1>2. \A k \in a..b : s[k] \in S
  <2>1. \A k \in a..b : k \in 1..Len(s)
    BY <1>1
  <2> QED
    BY <2>1, ElementOfSeq
<1> QED
  BY <1>2, SubSeqProperties

LEMMA KeptIs ==
  ASSUME NEW S, NEW s \in Seq(S), Ini!Kept(s) # {}
  PROVE  Ini!Min(Ini!Kept(s)) \in 1..Len(s) /\ Ini!Max(Ini!Kept(s)) \in 1..Len(s)
<1> DEFINE K == Ini!Kept(s)
<1>1. Len(s) \in Nat /\ K \subseteq 1..Len(s)
  BY LenProperties DEF Ini!Kept
<1> HIDE DEF K
<1>2. K \subseteq Nat /\ K \subseteq 0..Len(s)
  BY <1>1
<1>3. K # {}
  BY DEF K
<1>4. Ini!Min(K) \in K /\ Ini!Max(K) \in K
  BY <1>1, <1>2, <1>3, IniMinIs, IniMaxIs
<1> QED
  BY <1>1, <1>4 DEF K

LEMMA TrimIn == ASSUME NEW S, NEW s \in Seq(S) PROVE Ini!Trim(s) \in Seq(S)
<1>1. <<>> \in Seq(S) /\ Len(s) \in Nat
  BY EmptySeq, LenProperties
<1>2. CASE Ini!Kept(s) = {}
  BY <1>1, <1>2 DEF Ini!Trim
<1>3. CASE Ini!Kept(s) # {}
  <2> DEFINE a == Ini!Min(Ini!Kept(s))
             b == Ini!Max(Ini!Kept(s))
  <2>1. a \in 1..Len(s) /\ b \in 1..Len(s)
    BY <1>3, KeptIs
  <2>2. Ini!Trim(s) = SubSeq(s, a, b)
    BY <1>3, Zenon DEF Ini!Trim
  <2> HIDE DEF a, b
  <2>3. a \in Nat /\ a >= 1 /\ b \in Int /\ b <= Len(s)
    BY <1>1, <2>1
  <2>4. SubSeq(s, a, b) \in Seq(S)
    BY <2>3, PartIn
  <2> QED
    BY <2>2, <2>4
<1> QED
  BY <1>2, <1>3

(* A value is a part of the text of a line.                                *)
LEMMA ValueIn ==
  ASSUME NEW f, NEW section, NEW key, NEW S,
         Ini!RawValue(f, section, key) \in Seq(S), NULL \notin Seq(S)
  PROVE  Ini!Value(f, section, key) # NULL
<1> DEFINE raw == Ini!RawValue(f, section, key)
           T == Ini!Told(raw)
<1>1. raw \in Seq(S) /\ raw # NULL /\ Len(raw) \in Nat /\ <<>> \in Seq(S)
  BY LenProperties, EmptySeq
<1>2. Ini!Value(f, section, key) = IF T = {} THEN <<>> ELSE SubSeq(raw, 1, Ini!Max(T))
  BY <1>1, Zenon DEF Ini!Value
<1> HIDE DEF raw
<1>3. CASE T = {}
  BY <1>1, <1>2, <1>3
<1>4. CASE T # {}
  <2>1. T \subseteq 0..Len(raw)
    <3>1. DOMAIN raw = 1..Len(raw)
      BY <1>1, LenProperties
    <3>2. T \subseteq DOMAIN raw
      BY Zenon DEF Ini!Told, Ini!Kept
    <3> HIDE DEF T
    <3>3. 1..Len(raw) \subseteq 0..Len(raw)
      BY <1>1
    <3> QED
      BY <3>1, <3>2, <3>3, Zenon
  <2> HIDE DEF T
  <2>2. Ini!Max(T) \in 0..Len(raw)
    BY <1>1, <1>4, <2>1, IniMaxIs
  <2>3. 1 \in Nat /\ 1 >= 1 /\ Ini!Max(T) \in Int /\ Ini!Max(T) <= Len(raw)
    BY <1>1, <2>2
  <2>4. SubSeq(raw, 1, Ini!Max(T)) \in Seq(S)
    BY <1>1, <2>3, PartIn
  <2> QED
    BY <1>2, <1>4, <2>4
<1> QED
  BY <1>3, <1>4

(* The lines of a section are lines of the file.                           *)
LEMMA ItemsIn ==
  ASSUME NEW f, Len(f) \in Nat, NEW section
  PROVE  Ini!Items_(f, section) \subseteq 1..Len(f)
<1> DEFINE I == {i \in 1..Len(f) : f[i].kind = "section" /\ f[i].name = section}
           s == Ini!SectionIndex(f, section)
           J == {i \in s + 1 .. Len(f) : f[i].kind = "section"}
           next == IF J # {} THEN Ini!Min(J) ELSE 0
           end == Ini!SectionEnd(f, s)
<1>1. s = IF I # {} THEN Ini!Min(I) ELSE 0
  BY DEF Ini!SectionIndex, Ini!SelectInSeq
<1>2. s \in 0..Len(f)
  <2>1. I \subseteq Nat /\ I \subseteq 0..Len(f)
    OBVIOUS
  <2>2. I # {} => Ini!Min(I) \in I
    BY <2>1, IniMinIs
  <2> HIDE DEF I, s
  <2>3. CASE I = {}
    BY <1>1, <2>3
  <2>4. CASE I # {}
    <3>1. s = Ini!Min(I)
      BY <1>1, <2>4, Zenon
    <3> QED
      BY <2>1, <2>2, <2>4, <3>1, Zenon
  <2> QED
    BY <2>3, <2>4
<1>3. end = IF next = 0 THEN Len(f) ELSE next - 1
  BY DEF Ini!SectionEnd, Ini!SelectInSubSeq
<1>4. Ini!Items_(f, section) = IF s = 0 THEN {} ELSE {j \in s + 1 .. end : f[j].kind = "item"}
  BY DEF Ini!Items_
<1> HIDE DEF s, end
<1>5. next \in 0..Len(f)
  <2>1. J \subseteq Nat /\ J \subseteq 0..Len(f)
    BY <1>2
  <2>2. J # {} => Ini!Min(J) \in J
    BY <2>1, IniMinIs
  <2> HIDE DEF J
  <2>3. CASE J = {}
    BY <2>3
  <2>4. CASE J # {}
    <3>1. next = Ini!Min(J)
      BY <2>4, Zenon
    <3> QED
      BY <2>1, <2>2, <2>4, <3>1, Zenon
  <2> QED
    BY <2>3, <2>4
<1>6. end \in Int /\ end <= Len(f)
  <2> HIDE DEF next
  <2> QED
    BY <1>3, <1>5
<1> QED
  BY <1>2, <1>4, <1>6

(* Each key of a section has a value, unless the file ends with it.        *)
LEMMA KeysHaveValues ==
  ASSUME NEW f, IsFile(f), f # <<>> => f[Len(f)].eq \/ f[Len(f)].nl,
         NEW section, NEW key \in Ini!KeyNames(f, section)
  PROVE  Ini!Value(f, section, key) # NULL
<1> DEFINE I == Ini!Items_(f, section)
           with == {j \in I : Ini!HasKey(f[j], key)}
           line == f[Ini!Max(with)]
<1>1. Len(f) \in Nat /\ I \subseteq 1..Len(f)
  BY ItemsIn DEF IsFile
<1>2. PICK j \in I : f[j].name = key
  BY DEF Ini!KeyNames
<1>3. f # <<>>
  <2>1. j \in 1..Len(f)
    BY <1>1, <1>2
  <2>2. Len(<<>>) = 0
    OBVIOUS
  <2> QED
    BY <1>1, <2>1, <2>2
<1>4. f[j].eq \/ f[j].nl
  <2>1. CASE j = Len(f)
    BY <1>3, <2>1, Zenon
  <2>2. CASE j # Len(f)
    <3>1. j \in 1..Len(f) /\ j < Len(f)
      BY <1>1, <1>2, <2>2
    <3> QED
      BY <3>1, Zenon DEF IsFile
  <2> QED
    BY <2>1, <2>2
<1>5. Ini!HasKey(f[j], key)
  <2>1. Len(key) \in Nat
    BY <1>1, <1>2 DEF IsFile
  <2>2. Ini!IsPrefix(key, f[j].name)
    BY <1>2, <2>1 DEF Ini!IsPrefix
  <2> QED
    BY <1>4, <2>2, Zenon DEF Ini!HasKey
<1>6. with # {} /\ with \subseteq 0..Len(f)
  BY <1>1, <1>2, <1>5
<1> HIDE DEF with
<1>7. Ini!Max(with) \in with
  BY <1>1, <1>6, IniMaxIs
<1>8. Ini!Max(with) \in 1..Len(f)
  BY <1>1, <1>7 DEF with
<1>9. Ini!RawValue(f, section, key) = IF line.eq THEN Ini!Trim(line.text) ELSE <<>>
  BY <1>6, Zenon DEF Ini!RawValue, with
<1>10. IsText(line.text)
  BY <1>8 DEF IsFile
<1> DEFINE S == ToSet(line.text)
<1> HIDE DEF line
<1>11. Ini!RawValue(f, section, key) \in Seq(S)
  <2>1. line.text \in Seq(S)
    BY <1>10 DEF IsText
  <2> HIDE DEF S
  <2>2. Ini!Trim(line.text) \in Seq(S) /\ <<>> \in Seq(S)
    BY <2>1, TrimIn, EmptySeq
  <2> QED
    BY <1>9, <2>2, Zenon
<1>12. NULL \notin Seq(S)
  BY <1>10 DEF IsText
<1> QED
  BY <1>11, <1>12, ValueIn

LEMMA IntValueIs ==
  ASSUME TableAssumption, NEW f, NEW section, NEW key
  PROVE  Ini!IntValue(f, section, key) \in Int
BY DEF TableAssumption, Ini!IntValue

(* A limit that has a default is never left at 0 or below.                 *)
LEMMA ConfIs ==
  ASSUME TableAssumption, NEW f, NEW section \in DOMAIN Settings,
         NEW key \in DOMAIN Settings[section], Settings[section][key] > 0
  PROVE  ConfOf(f, section)[key] > 0
<1> DEFINE n == Ini!IntValue(f, section, <<key>>)
<1>1. n \in Int
  BY IntValueIs
<1>2. ConfOf(f, section)[key] =
        IF n <= 0 /\ Settings[section][key] > 0 THEN Settings[section][key] ELSE n
  BY DEF ConfOf
<1> HIDE DEF n
<1> QED
  BY <1>1, <1>2

-----------------------------------------------------------------------------
(* The table of buckets.                                                   *)
IsBucket(b) ==
  /\ b = <<b[1], b[2], b[3]>>
  /\ b[1] \in Int /\ b[2] \in Int /\ IsEndPoints(b[3])

IsTable(v) ==
  /\ IsVector(v) /\ Ascending(v)
  /\ \A j \in 0 .. v.count - 1 : IsBucket(v.first[j])

LEMMA TableKeysAre ==
  ASSUME NEW v, IsTable(v)
  PROVE  TableKeysOf(v) /\ IntKeys(v)
BY DEF IsTable, IsBucket, TableKeysOf, IntKeys, KeyMin, KeyMax

LEMMA WithBucketIs ==
  ASSUME NEW v, IsTable(v), NEW b, IsBucket(b)
  PROVE  IsTable(WithBucket(v, b))
<1> DEFINE a == Appended(v, b)
           s == Sorted(a)
<1>1. IsVector(v) /\ \A j \in 0 .. v.count - 1 : IsBucket(v.first[j])
  BY DEF IsTable
<1>2. /\ IsVector(a) /\ a.count = v.count + 1 /\ a.first[v.count] = b
      /\ \A j \in 0 .. v.count - 1 : a.first[j] = v.first[j]
  BY <1>1, AppendedIs
<1> HIDE DEF a
<1>3. \A j \in 0 .. a.count - 1 : IsBucket(a.first[j])
  <2>1. v.count \in Nat
    BY <1>1 DEF IsVector
  <2>2. \A j \in 0 .. a.count - 1 : j \in 0 .. v.count - 1 \/ j = v.count
    BY <1>2, <2>1
  <2>3. \A j \in 0 .. v.count - 1 : IsBucket(a.first[j])
    BY <1>1, <1>2, Zenon
  <2>4. IsBucket(a.first[v.count])
    BY <1>2, Zenon
  <2> QED
    BY <2>2, <2>3, <2>4, Zenon
<1>4. IntKeys(a)
  BY <1>3 DEF IntKeys, IsBucket
<1>5. /\ IsVector(s) /\ s.count = a.count /\ Ascending(s)
      /\ \A j \in 0 .. a.count - 1 : \E k \in 0 .. a.count - 1 : s.first[j] = a.first[k]
  BY <1>2, <1>4, SortedIs
<1> HIDE DEF s
<1>6. \A j \in 0 .. s.count - 1 : IsBucket(s.first[j])
  <2> SUFFICES ASSUME NEW j \in 0 .. a.count - 1 PROVE IsBucket(s.first[j])
    BY <1>5
  <2>1. PICK k \in 0 .. a.count - 1 : s.first[j] = a.first[k]
    BY <1>5, Zenon
  <2> QED
    BY <1>3, <2>1, Zenon
<1> QED
  BY <1>5, <1>6, Zenon DEF IsTable, WithBucket, s, a

(* A bucket that a program adds, and one that is read from a file.         *)
LEMMA AddedIs ==
  ASSUME TableAssumption, NEW r \in Ranges, NEW list \in Lists
  PROVE  IsBucket(<<r[1], r[2], [i \in DOMAIN list |-> EndPoint(list[i][1], list[i][2])]>>)
<1> DEFINE m == Len(list)
           l == [i \in 1..m |-> EndPoint(list[i][1], list[i][2])]
           b == <<r[1], r[2], l>>
<1>1. m \in Nat /\ DOMAIN list = 1..m /\ \A i \in 1..m : list[i][2] \in Nat
  BY DEF TableAssumption
<1>2. r[1] \in Int /\ r[2] \in Int
  BY DEF TableAssumption
<1>3. \A i \in 1..m : l[i] = EndPoint(list[i][1], list[i][2])
  OBVIOUS
<1>4. l = [i \in 1..m |-> l[i]]
  OBVIOUS
<1> HIDE DEF l, m
<1>5. Len(l) = m
  BY <1>1, <1>4, LenIs
<1>6. \A i \in 1..m :
        /\ l[i] = [ip |-> l[i].ip, weight |-> l[i].weight, enableTime |-> l[i].enableTime]
        /\ l[i].weight \in Nat /\ l[i].enableTime \in Int
  <2> SUFFICES ASSUME NEW i \in 1..m
               PROVE  /\ l[i] = [ip |-> l[i].ip, weight |-> l[i].weight, enableTime |-> l[i].enableTime]
                      /\ l[i].weight \in Nat /\ l[i].enableTime \in Int
    OBVIOUS
  <2>1. l[i] = [ip |-> list[i][1], weight |-> list[i][2], enableTime |-> 0] /\ list[i][2] \in Nat
    BY <1>1, <1>3 DEF EndPoint
  <2> QED
    BY <2>1
<1>7. IsEndPoints(l)
  BY <1>1, <1>4, <1>5, <1>6 DEF IsEndPoints
<1>8. b[1] = r[1] /\ b[2] = r[2] /\ b[3] = l /\ b = <<b[1], b[2], b[3]>>
  OBVIOUS
<1> HIDE DEF b
<1>9. IsBucket(b)
  BY <1>2, <1>7, <1>8 DEF IsBucket
<1> QED
  BY <1>1, <1>9 DEF b, l

LEMMA BucketOfIs ==
  ASSUME TableAssumption, NEW f, NEW section
  PROVE  IsBucket(BucketOf(f, section))
<1> DEFINE e == EndPoint(Ini!StrValue(f, section, <<"ServerIP">>), 10)
           lo == Unsigned(Ini!IntValue(f, section, <<"KeyMin">>))
           hi == Unsigned(Ini!IntValue(f, section, <<"KeyMax">>))
           l == <<e>>
           b == <<lo, hi, l>>
<1>1. lo \in Int /\ hi \in Int
  <2>1. \A n \in Int : Unsigned(n) \in Int
    BY DEF TableAssumption, Unsigned
  <2> QED
    BY <2>1, IntValueIs
<1>2. /\ e = [ip |-> e.ip, weight |-> e.weight, enableTime |-> e.enableTime]
      /\ e.weight \in Nat /\ e.enableTime \in Int
  BY DEF EndPoint
<1>3. BucketOf(f, section) = b
  BY DEF BucketOf
<1> HIDE DEF e, lo, hi
<1>4. Len(l) = 1 /\ l = [i \in 1..1 |-> l[i]] /\ l[1] = e
  OBVIOUS
<1> HIDE DEF l
<1>5. IsEndPoints(l)
  <2>1. \A i \in 1..Len(l) : l[i] = e
    BY <1>4
  <2>2. Len(l) \in Nat /\ l = [i \in 1..Len(l) |-> l[i]]
    BY <1>4
  <2> QED
    BY <1>2, <2>1, <2>2 DEF IsEndPoints
<1>6. b[1] = lo /\ b[2] = hi /\ b[3] = l /\ b = <<b[1], b[2], b[3]>>
  OBVIOUS
<1> HIDE DEF b
<1>7. IsBucket(b)
  BY <1>1, <1>5, <1>6 DEF IsBucket
<1> QED
  BY <1>3, <1>7

LEMMA NewTableIs == ASSUME NEW n \in Int PROVE IsTable(NewVector(n))
<1>1. IsVector(NewVector(n)) /\ NewVector(n).count = 0
  BY NewVectorIs
<1>2. 0 .. NewVector(n).count - 1 = {}
  BY <1>1
<1> QED
  BY <1>1, <1>2, Zenon DEF IsTable, Ascending

(* readTable() as a recursion over the sections.                           *)
TableTurn(f, count, g, n) ==
  IF n = 0 THEN NewVector(0)
  ELSE IF n > count THEN g[n - 1]
  ELSE WithBucket(g[n - 1], BucketOf(f, EndPointSection[n]))

TableRead(f, count, m, g) == g = [n \in 0..m |-> TableTurn(f, count, g, n)]

LEMMA TableExists ==
  ASSUME NEW f, NEW count, NEW m \in Nat
  PROVE  \E g : TableRead(f, count, m, g)
<1> DEFINE T == {k \in Nat : \E g : TableRead(f, count, k, g)}
<1>1. 0 \in T
  <2> DEFINE g == [n \in 0..0 |-> NewVector(0)]
  <2>1. g = [n \in 0..0 |-> TableTurn(f, count, g, n)]
    BY DEF TableTurn
  <2> HIDE DEF g
  <2>2. TableRead(f, count, 0, g)
    BY <2>1, Zenon DEF TableRead
  <2> QED
    BY <2>2
<1>2. ASSUME NEW k \in Nat, k \in T PROVE k + 1 \in T
  <2>1. PICK g : g = [n \in 0..k |-> TableTurn(f, count, g, n)]
    BY <1>2, Zenon DEF TableRead
  <2> DEFINE h == [n \in 0..k+1 |-> TableTurn(f, count, g, n)]
  <2>2. \A n \in 0..k : h[n] = g[n]
    <3>1. \A n \in 0..k : g[n] = TableTurn(f, count, g, n)
      BY <2>1, Zenon
    <3>2. \A n \in 0..k : n \in 0..k+1
      OBVIOUS
    <3> QED
      BY <3>1, <3>2, Zenon
  <2>3. \A n \in 0..k+1 : n # 0 => n - 1 \in 0..k
    OBVIOUS
  <2>4. \A n \in 0..k+1 : TableTurn(f, count, h, n) = TableTurn(f, count, g, n)
    <3> HIDE DEF h
    <3> QED
      BY <2>2, <2>3, Zenon DEF TableTurn
  <2>5. h = [n \in 0..k+1 |-> TableTurn(f, count, h, n)]
    BY <2>4, Zenon
  <2>6. k + 1 \in Nat
    OBVIOUS
  <2> HIDE DEF h
  <2>7. TableRead(f, count, k + 1, h)
    BY <2>5, Zenon DEF TableRead
  <2> QED
    BY <2>6, <2>7, Zenon
<1> HIDE DEF T
<1>3. \A k \in Nat : k \in T
  BY <1>1, <1>2, NatInd
<1> QED
  BY <1>3 DEF T

LEMMA TableOfIs ==
  ASSUME TableAssumption, NEW f
  PROVE  IsTable(TableOf(f))
<1> DEFINE m == Len(EndPointSection)
           count == Ini!IntValue(f, "EndPointTable", <<"EndPointCount">>)
<1>1. m \in Nat
  BY DEF EndPointSection
<1>2. count \in Int
  BY IntValueIs
<1>3. PICK g : /\ g = [n \in 0..m |-> TableTurn(f, count, g, n)]
               /\ TableOf(f) = g[m]
  <2>1. \E g : TableRead(f, count, m, g)
    BY <1>1, TableExists
  <2> QED
    BY <2>1, Zenon DEF TableOf, TableTurn, TableRead
<1> HIDE DEF m, count
<1>4. \A n \in 0..m : g[n] = TableTurn(f, count, g, n)
  BY <1>3, Zenon
<1> DEFINE T == {n \in 0..m : IsTable(g[n])}
<1>5. 0 \in T
  <2>1. 0 \in 0..m
    BY <1>1
  <2>2. g[0] = NewVector(0)
    BY <1>4, <2>1, Zenon DEF TableTurn
  <2> QED
    BY <2>1, <2>2, NewTableIs
<1>6. ASSUME NEW n \in 0 .. m - 1, n \in T PROVE n + 1 \in T
  <2>1. n + 1 \in 0..m /\ n + 1 # 0 /\ (n + 1) - 1 = n
    BY <1>1
  <2>2. g[n + 1] = g[n] \/ g[n + 1] = WithBucket(g[n], BucketOf(f, EndPointSection[n + 1]))
    BY <1>4, <2>1 DEF TableTurn
  <2>3. IsTable(g[n])
    BY <1>6
  <2>4. IsTable(g[n + 1])
    BY <2>2, <2>3, BucketOfIs, WithBucketIs
  <2> QED
    BY <2>1, <2>4
<1> HIDE DEF T
<1>7. m \in T
  <2>1. \A n \in 0..m : n \in T
    BY <1>1, <1>5, <1>6, UpTo
  <2> QED
    BY <1>1, <2>1
<1> QED
  BY <1>3, <1>7 DEF T

(* A mark leaves the keys, and the lists are lists.                        *)
LEMMA MarkIs ==
  ASSUME NEW v, IsTable(v), NEW i \in 0 .. v.count - 1, NEW ip, NEW t \in Int
  PROVE  IsTable([v EXCEPT !.first[i][3] = Marked(@, ip, t)])
<1> DEFINE c == v.count
           b == v.first[i]
           l == Marked(b[3], ip, t)
           y == <<b[1], b[2], l>>
           first == [v.first EXCEPT ![i] = y]
           w == [first |-> first, count |-> c, max |-> v.max]
<1>1. /\ v = [first |-> v.first, count |-> c, max |-> v.max]
      /\ v.max \in Nat /\ v.max # 0 /\ c \in 0..v.max
      /\ v.first = [j \in 0 .. v.max - 1 |-> v.first[j]]
      /\ \A j \in 0 .. c - 1 : IsBucket(v.first[j])
      /\ \A j, k \in 0 .. c - 1 : j < k => v.first[j][1] <= v.first[k][1]
  BY DEF IsTable, IsVector, Ascending
<1>2. b = <<b[1], b[2], b[3]>> /\ b[1] \in Int /\ b[2] \in Int /\ IsEndPoints(b[3])
  BY <1>1 DEF IsBucket
<1>3. IsEndPoints(l)
  BY <1>2, MarkedIs
<1>4. [v EXCEPT !.first[i][3] = Marked(@, ip, t)] = w
  <2> HIDE DEF l
  <2>1. [v EXCEPT !.first[i][3] = Marked(@, ip, t)] = [v EXCEPT !.first = [v.first EXCEPT ![i] = [b EXCEPT ![3] = l]]]
    BY Zenon DEF l
  <2>2. [b EXCEPT ![3] = l] = y
    <3> HIDE DEF b
    <3> QED
      BY <1>2
  <2> HIDE DEF b, y
  <2>3. [v EXCEPT !.first[i][3] = Marked(@, ip, t)] = [v EXCEPT !.first = first]
    BY <2>1, <2>2, Zenon
  <2> HIDE DEF first
  <2> QED
    BY <1>1, <2>3
<1>5. y[1] = b[1] /\ y[2] = b[2] /\ y[3] = l /\ y = <<y[1], y[2], y[3]>>
  OBVIOUS
<1> HIDE DEF y, l, b
<1>6. IsBucket(y)
  BY <1>2, <1>3, <1>5 DEF IsBucket
<1>7. /\ first = [j \in 0 .. v.max - 1 |-> first[j]]
      /\ \A j \in 0 .. c - 1 : first[j] = IF j = i THEN y ELSE v.first[j]
  <2>1. \A j \in 0 .. c - 1 : j \in 0 .. v.max - 1
    BY <1>1
  <2>2. first = [j \in 0 .. v.max - 1 |-> IF j = i THEN y ELSE v.first[j]]
    BY <1>1, Zenon
  <2> HIDE DEF first
  <2> QED
    BY <2>1, <2>2
<1> HIDE DEF first
<1>8. \A j \in 0 .. c - 1 : IsBucket(first[j]) /\ first[j][1] = v.first[j][1]
  BY <1>1, <1>5, <1>6, <1>7, Zenon DEF b
<1>9. w.first = first /\ w.count = c /\ w.max = v.max
  OBVIOUS
<1>10. IsVector(w)
  BY <1>1, <1>7, <1>9 DEF IsVector
<1>11. Ascending(w)
  BY <1>1, <1>8, <1>9 DEF Ascending
<1>12. IsTable(w)
  BY <1>8, <1>9, <1>10, <1>11, Zenon DEF IsTable
<1> QED
  BY <1>4, <1>12

-----------------------------------------------------------------------------
(* The invariants.                                                         *)
ListKinds == {"vector", "sorted", "pairs", "links", "buffer"}
TableKinds == {"table", "config"}

(* There is a table only in a program that has one, and it is sorted.      *)
TableInv ==
  /\ kind \in ListKinds \cup TableKinds \cup {"uids"}
  /\ now \in Int
  /\ kind \notin TableKinds => tableKeyMax = NULL
  /\ kind \in TableKinds => IsTable(vec)

FileInv ==
  /\ IsFile(file)
  /\ conf = [s \in DOMAIN Settings |-> conf[s]]
  /\ \A s \in DOMAIN Settings : conf[s] # NULL =>
       \A key \in DOMAIN Settings[s] : Settings[s][key] > 0 => conf[s][key] > 0

(* The list of mails, and what was promised of it.                         *)
Sized ==
  filled => \A j \in 0 .. vec.count - 1 :
    \/ vec.first[j][1] \in deleted
    \/ vec.first[j][3] = Mail[vec.first[j][2]]
    \/ j = vec.count - 1 /\ vec.first[j][1] < Len(box)

NewOnes ==
  stage = "new" =>
    /\ \A i \in 1..Len(box) : HasNumber(vec, i) \/ i \in deleted \/ box[i] \in known
    /\ \A j \in 0 .. vec.count - 1 : vec.first[j][2] \notin known

UidInv ==
  /\ Len(box) \in Nat /\ DOMAIN box = 1..Len(box)
  /\ stage = "empty" => ~filled
  /\ kind # "uids" => stage = "empty"
  /\ kind = "uids" => /\ IsUids(vec, box)
                      /\ stage = "empty" => vec.count = 0
                      /\ Sized /\ NewOnes

allVars == <<listVars, tableVars, uidVars>>

(* A call of a container leaves the table and the mails alone.             *)
LEMMA ListStep ==
  ASSUME ListNext
  PROVE  kind' = kind /\ kind \in ListKinds
<1> USE DEF ListKinds
<1>1. CASE \E x \in Items : \/ Insert(x) \/ Find(x)
                            \/ Add(x) \/ GetValue(x) \/ RemoveName(x)
                            \/ Link(x) \/ Unlink(x)
  BY <1>1 DEF Insert, Find, Add, GetValue, RemoveName, Link, Unlink, VectorCalls, PairCalls
<1>2. CASE \E x \in Items \cup {NULL} : AppendItem(x)
  BY <1>2 DEF AppendItem, VectorCalls
<1>3. CASE \E i \in Indices : TakeItem(i) \/ GetItem(i) \/ RemoveAt_(i)
  BY <1>3 DEF TakeItem, GetItem, RemoveAt_, VectorCalls, PairCalls
<1>4. CASE \E x \in Keys, n \in Bytes : Put(x, n)
  BY <1>4 DEF Put
<1>5. CASE SortItems \/ Detach \/ CleanAll
  BY <1>5 DEF SortItems, Detach, CleanAll, VectorCalls
<1> QED
  BY <1>1, <1>2, <1>3, <1>4, <1>5 DEF ListNext

LEMMA InitVector ==
  ASSUME ListInit
  PROVE  IsVector(vec) /\ vec.count = 0 /\ IsTable(vec)
<1>1. PICK n \in {0, 1} : vec = NewVector(n)
  BY DEF ListInit
<1> QED
  BY <1>1, NewVectorIs, NewTableIs

-----------------------------------------------------------------------------
LEMMA TableInvInit == ASSUME Init PROVE TableInv
<1>1. IsTable(vec)
  BY InitVector DEF Init
<1> QED
  BY <1>1 DEF Init, TableInit, TableInv, ListKinds, TableKinds

LEMMA MarkStep ==
  ASSUME TableInv, NEW key, NEW ip, NEW t \in Int, Mark(key, ip, t),
         UNCHANGED kind
  PROVE  TableInv'
<1> DEFINE i == Place(vec, key % tableKeyMax)
<1>1. kind \in TableKinds /\ now' = now /\ tableKeyMax' = tableKeyMax
      /\ i >= 0 /\ vec' = [vec EXCEPT !.first[i][3] = Marked(@, ip, t)]
  BY DEF Mark, HasTable, Alive, TableKinds
<1>2. IsTable(vec) /\ IsVector(vec)
  BY <1>1 DEF TableInv, IsTable
<1>3. i \in -1 .. vec.count - 1
  BY <1>2, PlaceIn
<1> HIDE DEF i
<1>4. vec.count \in Nat
  BY <1>2 DEF IsVector
<1>5. i \in 0 .. vec.count - 1
  BY <1>1, <1>3, <1>4
<1>6. IsTable(vec')
  BY <1>1, <1>2, <1>5, MarkIs, Zenon
<1> QED
  BY <1>1, <1>6 DEF TableInv

LEMMA TableInvStep == ASSUME TableAssumption, TableInv, [Next]_allVars PROVE TableInv'
<1>1. CASE ListNext /\ UNCHANGED <<tableVars, uidVars>>
  BY <1>1, ListStep DEF TableInv, ListKinds, TableKinds, tableVars
<1>2. CASE UidNext /\ UNCHANGED tableVars
  <2>1. kind = "uids" /\ kind' = kind
    BY <1>2 DEF UidNext, App, Login, NewList, GetAllUidList, GetNewUidList, Refused,
                FillMailSize, GetMail, DeleteMail
  <2> QED
    BY <1>2, <2>1 DEF TableInv, TableKinds, tableVars
<1>3. CASE TableNext /\ UNCHANGED uidVars
  <2>1. ASSUME NEW f \in Files, Edit(f) PROVE TableInv'
    BY <2>1 DEF Edit, Alive, TableInv
  <2>2. CASE InitTable
    <3>1. IsTable(vec')
      BY <2>2, TableOfIs DEF InitTable
    <3> QED
      BY <2>2, <3>1 DEF InitTable, Alive, TableInv, TableKinds
  <2>3. CASE Tick
    BY <2>3 DEF Tick, Alive, TableInv
  <2>4. ASSUME NEW section \in DOMAIN Settings, InitConf(section) PROVE TableInv'
    BY <2>4 DEF InitConf, Alive, TableInv
  <2>5. ASSUME NEW max \in MaxKeys, NewTable(max) PROVE TableInv'
    <3>1. IsTable(vec')
      BY <2>5, NewTableIs DEF NewTable
    <3> QED
      BY <2>5, <3>1 DEF NewTable, Alive, TableInv, TableKinds
  <2>6. ASSUME NEW r \in Ranges, NEW list \in Lists, AddBucket(r, list) PROVE TableInv'
    <3> DEFINE b == <<r[1], r[2], [i \in DOMAIN list |-> EndPoint(list[i][1], list[i][2])]>>
    <3>1. vec' = WithBucket(vec, b) /\ kind = "table" /\ kind' = kind /\ UNCHANGED <<now, tableKeyMax>>
      BY <2>6 DEF AddBucket, HasTable, Alive
    <3>2. IsBucket(b)
      BY AddedIs
    <3> HIDE DEF b
    <3>3. IsTable(vec')
      BY <3>1, <3>2, WithBucketIs DEF TableInv, TableKinds
    <3> QED
      BY <3>1, <3>3 DEF TableInv, TableKinds
  <2>7. ASSUME NEW key, GetEndPoint(key) PROVE TableInv'
    BY <2>7 DEF GetEndPoint, HasTable, Alive, TableInv
  <2>8. ASSUME NEW key, NEW draw, GetRandomEndPoint(key, draw) PROVE TableInv'
    BY <2>8 DEF GetRandomEndPoint, HasTable, Alive, TableInv
  <2>9. ASSUME NEW key, NEW ip, MarkPause(key, ip) \/ MarkStart(key, ip) PROVE TableInv'
    <3>1. now + Pause \in Int /\ 0 \in Int
      BY DEF TableInv, TableAssumption
    <3>2. kind' = kind
      BY <2>9 DEF MarkPause, MarkStart, Mark, HasTable, Alive
    <3> QED
      BY <2>9, <3>1, <3>2, MarkStep DEF MarkPause, MarkStart
  <2> QED
    BY <1>3, <2>1, <2>2, <2>3, <2>4, <2>5, <2>6, <2>7, <2>8, <2>9 DEF TableNext
<1>4. CASE UNCHANGED allVars
  BY <1>4 DEF allVars, TableInv, listVars, tableVars
<1> QED
  BY <1>1, <1>2, <1>3, <1>4 DEF Next

LEMMA TableInvHolds == ASSUME TableAssumption PROVE Spec => []TableInv
<1>1. Init => TableInv
  BY TableInvInit
<1>2. TableInv /\ [Next]_allVars => TableInv'
  BY TableInvStep
<1> QED
  BY <1>1, <1>2, PTL DEF Spec, allVars

-----------------------------------------------------------------------------
(* Disjoint buckets, by their places in memory.                            *)
LEMMA BucketsAre ==
  ASSUME IsVector(vec)
  PROVE  /\ DOMAIN Buckets = 1..vec.count
         /\ \A j \in 0 .. vec.count - 1 : j + 1 \in 1..vec.count /\ Buckets[j + 1] = vec.first[j]
         /\ \A b \in ToSet(Buckets) : \E j \in 0 .. vec.count - 1 : b = vec.first[j]
<1>1. vec.count \in Nat
  BY DEF IsVector
<1>2. Buckets = [i \in 1..vec.count |-> vec.first[i - 1]]
  BY DEF Buckets, InUse
<1>3. \A j \in 0 .. vec.count - 1 : j + 1 \in 1..vec.count /\ (j + 1) - 1 = j
  BY <1>1
<1>4. \A i \in 1..vec.count : i - 1 \in 0 .. vec.count - 1
  BY <1>1
<1>5. \A b \in ToSet(Buckets) : \E i \in 1..vec.count : b = vec.first[i - 1]
  BY <1>2 DEF ToSet
<1> QED
  BY <1>2, <1>3, <1>4, <1>5

LEMMA RightBucketHolds == ASSUME TableInv PROVE RightBucket
<1> SUFFICES ASSUME tableKeyMax # NULL, Disjoint, NEW key \in TableKeys
    PROVE  LET i == Place(vec, key) IN
           IF i >= 0 THEN KeyMin(vec.first[i]) <= key /\ key <= KeyMax(vec.first[i])
           ELSE \A b \in ToSet(Buckets) : key < KeyMin(b) \/ KeyMax(b) < key
  BY DEF RightBucket
<1> DEFINE i == Place(vec, key)
<1>1. IsTable(vec) /\ IsVector(vec) /\ Ascending(vec) /\ TableKeysOf(vec)
  BY TableKeysAre DEF TableInv, IsTable
<1>2. Apart(vec)
  <2>1. \A j, k \in 0 .. vec.count - 1 :
          /\ KeyMin(Buckets[j + 1]) <= KeyMax(Buckets[j + 1])
          /\ j + 1 # k + 1 => \/ KeyMax(Buckets[j + 1]) < KeyMin(Buckets[k + 1])
                              \/ KeyMax(Buckets[k + 1]) < KeyMin(Buckets[j + 1])
    BY <1>1, BucketsAre, Zenon DEF Disjoint
  <2>2. \A j, k \in 0 .. vec.count - 1 : j # k => j + 1 # k + 1
    OBVIOUS
  <2> QED
    BY <1>1, <2>1, <2>2, BucketsAre, Zenon DEF Apart
<1>3. key \in Int
  BY DEF TableKeys
<1>4. CASE i >= 0
  BY <1>1, <1>4, PlaceIn DEF HasKey
<1>5. CASE ~(i >= 0)
  <2>1. \A j \in 0 .. vec.count - 1 : key < KeyMin(vec.first[j]) \/ KeyMax(vec.first[j]) < key
    BY <1>1, <1>2, <1>3, <1>5, PlaceFinds
  <2>2. \A b \in ToSet(Buckets) : key < KeyMin(b) \/ KeyMax(b) < key
    BY <1>1, <2>1, BucketsAre, Zenon
  <2> QED
    BY <1>5, <2>2, Zenon
<1> QED
  BY <1>4, <1>5

LEMMA FairShareHolds == ASSUME TableInv PROVE FairShare
<1> SUFFICES ASSUME kind = "table", NEW b \in ToSet(Buckets), TotalWeight(EndPoints(b), now) > 0,
                    NEW i \in DOMAIN EndPoints(b)
    PROVE  Cardinality({draw \in 0 .. TotalWeight(EndPoints(b), now) - 1 :
                          Drawn(EndPoints(b), now, draw) = i})
             = IF now > EndPoints(b)[i].enableTime THEN EndPoints(b)[i].weight ELSE 0
  BY DEF FairShare
<1> DEFINE l == EndPoints(b)
<1>1. IsTable(vec) /\ IsVector(vec) /\ now \in Int
  BY DEF TableInv, TableKinds, IsTable
<1>2. PICK j \in 0 .. vec.count - 1 : b = vec.first[j]
  BY <1>1, BucketsAre, Zenon
<1>3. IsEndPoints(l)
  BY <1>1, <1>2 DEF IsTable, IsBucket, EndPoints
<1> HIDE DEF l
<1>4. DOMAIN l = 1..Len(l) /\ i \in 1..Len(l) /\ l[i].enableTime \in Int
  <2>1. DOMAIN l = 1..Len(l)
    BY <1>3, LenIs DEF IsEndPoints
  <2>2. i \in 1..Len(l)
    BY <2>1 DEF l
  <2> QED
    BY <1>3, <2>1, <2>2 DEF IsEndPoints
<1>5. Cardinality({draw \in 0 .. TotalWeight(l, now) - 1 : Drawn(l, now, draw) = i}) = Part(l, now, i)
  <2>1. TotalWeight(l, now) > 0
    BY DEF l
  <2> QED
    BY <1>1, <1>3, <1>4, <2>1, SharesAre
<1>6. Part(l, now, i) = IF now > l[i].enableTime THEN l[i].weight ELSE 0
  BY <1>1, <1>4 DEF Part, IsOn
<1> QED
  BY <1>5, <1>6 DEF l

(* Whatever buckets are added, in whatever order, and whatever is paused   *)
(* or started: getList() finds the bucket of each key if the buckets do    *)
(* not overlap, and the draws of getRandomEndPoint() go to the end points  *)
(* that are not paused, by their weights (spnkendpoint.cpp:34-67,          *)
(* 138-158, 178-189).                                                      *)
THEOREM ChoiceIsRightHolds == ASSUME TableAssumption PROVE Spec => []ChoiceIsRight
<1>1. TableInv => ChoiceIsRight
  BY RightBucketHolds, FairShareHolds DEF ChoiceIsRight
<1> QED
  BY <1>1, TableInvHolds, PTL

-----------------------------------------------------------------------------
LEMMA FileInvInit == ASSUME Init PROVE FileInv
<1>1. file = <<>> /\ conf = [section \in DOMAIN Settings |-> NULL]
  BY DEF Init, TableInit
<1>2. Len(file) = 0
  BY <1>1
<1> QED
  BY <1>1, <1>2 DEF FileInv, IsFile

LEMMA FileInvStep == ASSUME TableAssumption, FileInv, [Next]_allVars PROVE FileInv'
<1>1. CASE UNCHANGED <<file, conf>>
  BY <1>1 DEF FileInv
<1>2. CASE \E f \in Files : Edit(f)
  <2>1. IsFile(file') /\ conf' = conf
    BY <1>2 DEF Edit, TableAssumption, IsFile, IsText
  <2> QED
    BY <2>1 DEF FileInv
<1>3. CASE \E section \in DOMAIN Settings : InitConf(section)
  <2>1. PICK section \in DOMAIN Settings : InitConf(section)
    BY <1>3
  <2>2. file' = file /\ conf' = [conf EXCEPT ![section] = ConfOf(file, section)]
    BY <2>1 DEF InitConf
  <2>3. /\ conf = [s \in DOMAIN Settings |-> conf[s]]
        /\ \A s \in DOMAIN Settings : conf[s] # NULL =>
             \A key \in DOMAIN Settings[s] : Settings[s][key] > 0 => conf[s][key] > 0
    BY DEF FileInv
  <2>4. /\ conf' = [s \in DOMAIN Settings |-> conf'[s]]
        /\ \A s \in DOMAIN Settings : conf'[s] = IF s = section THEN ConfOf(file, section) ELSE conf[s]
    BY <2>2, <2>3, Zenon
  <2>5. \A s \in DOMAIN Settings : conf'[s] # NULL =>
          \A key \in DOMAIN Settings[s] : Settings[s][key] > 0 => conf'[s][key] > 0
    <3>1. \A key \in DOMAIN Settings[section] : Settings[section][key] > 0 => ConfOf(file, section)[key] > 0
      BY ConfIs
    <3> QED
      BY <2>3, <2>4, <3>1, Zenon
  <2> QED
    BY <2>2, <2>4, <2>5, Zenon DEF FileInv
<1> QED
  BY <1>1, <1>2, <1>3 DEF Next, TableNext, tableVars, allVars, InitTable, Tick, NewTable, AddBucket,
       GetEndPoint, GetRandomEndPoint, Mark, MarkPause, MarkStart

(* Whatever file is read: each key that is listed for a section has a      *)
(* value, but for a bare key that ends the file, and no limit that has a   *)
(* default is left without (spnkini.cpp:101-240, spnkconfig.cpp).          *)
THEOREM FileIsReadHolds == ASSUME TableAssumption PROVE Spec => []FileIsRead
<1>1. Init => FileInv
  BY FileInvInit
<1>2. FileInv /\ [Next]_allVars => FileInv'
  BY FileInvStep
<1>3. FileInv => FileIsRead
  <2> SUFFICES ASSUME FileInv PROVE FileIsRead
    OBVIOUS
  <2>1. ASSUME ~LastLineBare, NEW section \in Ini!SectionNames(file),
               NEW key \in Ini!KeyNames(file, section)
        PROVE  Ini!Value(file, section, key) # NULL
    <3>1. file # <<>> => file[Len(file)].eq \/ file[Len(file)].nl
      BY <2>1 DEF LastLineBare, Last
    <3>2. IsFile(file)
      BY DEF FileInv
    <3> QED
      BY <3>1, <3>2, KeysHaveValues
  <2> QED
    BY <2>1 DEF FileInv, FileIsRead
<1> QED
  BY <1>1, <1>2, <1>3, PTL DEF Spec, allVars

LEMMA NoUids ==
  ASSUME NEW v, IsVector(v), v.count = 0, NEW b
  PROVE  IsUids(v, b)
<1>1. 0 .. v.count - 1 = {}
  OBVIOUS
<1> QED
  BY <1>1, Zenon DEF IsUids

LEMMA BoxIs ==
  ASSUME NEW b \in Boxes
  PROVE  Len(b) \in Nat /\ DOMAIN b = 1..Len(b)
<1>1. CASE b = <<>>
  BY <1>1
<1>2. CASE b # <<>>
  <2>1. PICK n \in 1..Cardinality(DOMAIN Mail) : b \in [1..n -> DOMAIN Mail]
    BY <1>2 DEF Boxes
  <2>2. n \in Nat /\ b = [i \in 1..n |-> b[i]]
    BY <2>1
  <2> QED
    BY <2>2, LenIs
<1> QED
  BY <1>1, <1>2

LEMMA ItemIs ==
  ASSUME NEW v, v.count \in Nat, NEW i \in 1..v.count
  PROVE  Item(v, i - 1) = v.first[i - 1] /\ i - 1 \in 0 .. v.count - 1
<1>1. i - 1 # LAST_INDEX /\ i - 1 \in 0 .. v.count - 1
  BY DEF LAST_INDEX
<1> QED
  BY <1>1 DEF Item, Holds, Index

LEMMA UidInvInit == ASSUME Init PROVE UidInv
<1>1. IsVector(vec) /\ vec.count = 0
  BY InitVector DEF Init
<1>2. box = <<>> /\ stage = "empty" /\ filled = FALSE
  BY DEF Init, UidInit
<1>3. Len(box) = 0 /\ DOMAIN box = 1..0
  BY <1>2
<1>4. IsUids(vec, box)
  BY <1>1, NoUids
<1> QED
  BY <1>1, <1>2, <1>3, <1>4 DEF UidInv, Sized, NewOnes

-----------------------------------------------------------------------------
LEMMA GetStep ==
  ASSUME UidInv, NEW seqs, kind = "uids", stage = "empty", vec' = WithUids(vec, seqs),
         UNCHANGED <<kind, box, deleted, filled>>, stage' # "empty",
         stage' = "new" =>
           /\ \A i \in 1..Len(box) : i \in seqs \/ i \in deleted \/ box[i] \in known'
           /\ \A i \in seqs : box[i] \notin known'
  PROVE  UidInv'
<1>1. Len(box) \in Nat /\ DOMAIN box = 1..Len(box) /\ ~filled
      /\ IsVector(vec) /\ vec.count = 0
  BY DEF UidInv, IsUids
<1>2. /\ IsUids(vec', box)
      /\ \A i \in 1..Len(box) : i \in seqs => HasNumber(vec', i)
      /\ \A j \in 0 .. vec'.count - 1 : vec'.first[j][1] \in seqs
  BY <1>1, WithUidsIs
<1>3. box' = box /\ ~filled' /\ kind' = "uids"
  BY <1>1
<1>4. NewOnes'
  <2>1. \A j \in 0 .. vec'.count - 1 : vec'.first[j][2] = box[vec'.first[j][1]]
    BY <1>2 DEF IsUids
  <2>2. ASSUME stage' = "new"
        PROVE  /\ \A i \in 1..Len(box) : HasNumber(vec', i) \/ i \in deleted \/ box[i] \in known'
               /\ \A j \in 0 .. vec'.count - 1 : vec'.first[j][2] \notin known'
    BY <1>2, <2>1, <2>2
  <2> QED
    BY <1>1, <2>2, Zenon DEF NewOnes, HasNumber
<1>5. Sized'
  BY <1>3 DEF Sized
<1>6. IsUids(vec', box')
  BY <1>2, <1>3
<1> QED
  BY <1>1, <1>3, <1>4, <1>5, <1>6 DEF UidInv, IsUids

LEMMA FillStep == ASSUME UidInv, FillMailSize PROVE UidInv'
<1>1. /\ kind = "uids" /\ kind' = kind /\ stage # "empty"
      /\ vec' = WithSizes(vec, 1..Len(box) \ deleted) /\ filled' = TRUE
      /\ UNCHANGED <<box, deleted, known, stage>>
  BY DEF FillMailSize, App, UidInv, Listed
<1>2. /\ IsUids(vec, box) /\ Len(box) \in Nat /\ DOMAIN box = 1..Len(box) /\ NewOnes
  BY <1>1 DEF UidInv
<1> DEFINE w == WithSizes(vec, 1..Len(box) \ deleted)
<1>3. SizesTo(vec, w, deleted, Len(box))
  BY <1>2, WithSizesIs
<1> HIDE DEF w
<1>4. /\ IsUids(w, box) /\ w.count = vec.count
      /\ \A j \in 0 .. vec.count - 1 : w.first[j][1] = vec.first[j][1]
      /\ \A j \in 0 .. vec.count - 1 :
           w.first[j][1] <= Len(box) /\ w.first[j][1] \notin deleted =>
             w.first[j][3] = Mail[w.first[j][2]] \/ (j = vec.count - 1 /\ w.first[j][1] < Len(box))
  BY <1>3 DEF SizesTo
<1>5. vec' = w
  BY <1>1 DEF w
<1>6. \A j \in 0 .. vec.count - 1 : w.first[j][1] <= Len(box)
  BY <1>2, <1>4 DEF IsUids
<1>7. Sized'
  BY <1>1, <1>4, <1>5, <1>6, Zenon DEF Sized
<1>8. NewOnes'
  <2>1. \A j \in 0 .. vec.count - 1 : w.first[j][2] = vec.first[j][2]
    BY <1>2, <1>4 DEF IsUids
  <2> QED
    BY <1>1, <1>2, <1>4, <1>5, <2>1, Zenon DEF NewOnes, HasNumber
<1>9. IsUids(vec', box')
  BY <1>1, <1>4, <1>5
<1> QED
  BY <1>1, <1>2, <1>7, <1>8, <1>9, Zenon DEF UidInv

(* A mail that is deleted needs no size, and may lack in a list.           *)
LEMMA SeenStep ==
  ASSUME UidInv, kind = "uids", UNCHANGED <<kind, vec, box, known, stage, filled>>,
         deleted \subseteq deleted'
  PROVE  UidInv'
<1>1. Sized /\ NewOnes /\ IsUids(vec, box)
  BY DEF UidInv
<1>2. Sized'
  BY <1>1 DEF Sized
<1>3. NewOnes'
  BY <1>1, Zenon DEF NewOnes, HasNumber
<1>4. IsUids(vec', box')
  BY <1>1
<1> QED
  BY <1>2, <1>3, <1>4 DEF UidInv

LEMMA UidInvStep == ASSUME UidInv, [Next]_allVars PROVE UidInv'
<1>1. ASSUME UNCHANGED uidVars, kind' = kind, kind # "uids" PROVE UidInv'
  BY <1>1 DEF uidVars, UidInv
<1>2. CASE ListNext /\ UNCHANGED uidVars
  BY <1>1, <1>2, ListStep DEF ListKinds
<1>3. CASE TableNext /\ UNCHANGED uidVars
  <2>1. kind' = kind /\ kind # "uids"
    BY <1>3 DEF TableNext, Edit, InitTable, Tick, InitConf, NewTable, AddBucket, GetEndPoint,
                GetRandomEndPoint, Mark, MarkPause, MarkStart, HasTable, Alive
  <2> QED
    BY <1>1, <1>3, <2>1
<1>4. CASE UidNext
  <2>1. kind = "uids" /\ kind' = kind
    BY <1>4 DEF UidNext, App, Login, NewList, GetAllUidList, GetNewUidList, Refused,
                FillMailSize, GetMail, DeleteMail
  <2>2. IsVector(NewVector(0)) /\ NewVector(0).count = 0
    BY NewVectorIs
  <2>3. CASE Login
    <3>1. Len(box') \in Nat /\ DOMAIN box' = 1..Len(box')
      BY <2>3, BoxIs DEF Login
    <3>2. vec' = NewVector(0) /\ stage' = "empty" /\ filled' = FALSE
      BY <2>3 DEF Login
    <3>3. IsUids(vec', box')
      BY <2>2, <3>2, NoUids
    <3> QED
      BY <2>1, <2>2, <3>1, <3>2, <3>3 DEF UidInv, Sized, NewOnes
  <2>4. CASE NewList
    <3>1. vec' = NewVector(0) /\ stage' = "empty" /\ filled' = FALSE /\ box' = box
      BY <2>4 DEF NewList
    <3>2. IsUids(vec', box')
      BY <2>2, <3>1, NoUids
    <3> QED
      BY <2>1, <2>2, <3>1, <3>2 DEF UidInv, Sized, NewOnes
  <2>5. CASE GetAllUidList
    BY <2>1, <2>5, GetStep DEF GetAllUidList
  <2>6. CASE GetNewUidList
    <3>1. /\ \A i \in 1..Len(box) : i \in New(Listed) \/ i \in deleted \/ box[i] \in ignored
          /\ \A i \in New(Listed) : box[i] \notin ignored
      BY DEF UidInv, New, Listed
    <3> QED
      BY <2>1, <2>6, <3>1, GetStep DEF GetNewUidList
  <2>7. CASE Refused
    BY <2>1, <2>7 DEF Refused, UidInv, Sized, NewOnes
  <2>8. CASE FillMailSize
    BY <2>8, FillStep
  <2>9. ASSUME NEW i, GetMail(i) \/ DeleteMail(i) PROVE UidInv'
    <3>1. UNCHANGED <<vec, box, known, stage, filled>> /\ deleted \subseteq deleted'
      BY <2>9 DEF GetMail, DeleteMail
    <3> QED
      BY <2>1, <3>1, SeenStep
  <2> QED
    BY <1>4, <2>3, <2>4, <2>5, <2>6, <2>7, <2>8, <2>9 DEF UidNext
<1>5. CASE UNCHANGED allVars
  BY <1>5 DEF allVars, listVars, uidVars, UidInv, Sized, NewOnes
<1> QED
  BY <1>2, <1>3, <1>4, <1>5 DEF Next

(* Whatever is listed, read and deleted, in whatever order and over        *)
(* whatever sessions: a mail whose size was asked for has its own, but for *)
(* the last of a list that ends before the mailbox does, and a list of new *)
(* mails has those that were not known before, and no others               *)
(* (spnkpop3cli.cpp:60-290).                                               *)
THEOREM SizesAreOwnHolds == Spec => []SizesAreOwn
<1>1. Init => UidInv
  BY UidInvInit
<1>2. UidInv /\ [Next]_allVars => UidInv'
  BY UidInvStep
<1>3. UidInv => SizesAreOwn
  <2> SUFFICES ASSUME UidInv PROVE SizesAreOwn
    OBVIOUS
  <2>1. CASE kind # "uids"
    BY <2>1 DEF UidInv, SizesAreOwn
  <2>2. CASE kind = "uids"
    <3>1. IsUids(vec, box) /\ Sized /\ NewOnes /\ DOMAIN box = 1..Len(box)
      BY <2>2 DEF UidInv
    <3>2. vec.count \in Nat
      BY <3>1 DEF IsUids, IsVector
    <3>3. ASSUME filled, NEW i \in 1..vec.count
          PROVE  LET u == Item(vec, i - 1) IN
                 u[1] \in deleted \/ u[3] = Mail[u[2]] \/ (i = vec.count /\ u[1] < Len(box))
      <4> DEFINE j == i - 1
      <4>1. Item(vec, j) = vec.first[j] /\ j \in 0 .. vec.count - 1
        BY <3>2, ItemIs
      <4>2. j = vec.count - 1 => i = vec.count
        BY <3>2
      <4> HIDE DEF j
      <4>3. vec.first[j][1] \in deleted \/ vec.first[j][3] = Mail[vec.first[j][2]]
            \/ (j = vec.count - 1 /\ vec.first[j][1] < Len(box))
        BY <3>1, <3>3, <4>1, Zenon DEF Sized
      <4>4. Item(vec, j)[1] \in deleted \/ Item(vec, j)[3] = Mail[Item(vec, j)[2]]
            \/ (i = vec.count /\ Item(vec, j)[1] < Len(box))
        BY <4>1, <4>2, <4>3, Zenon
      <4> QED
        BY <4>4, Zenon DEF j
    <3>4. ASSUME stage = "new", NEW i \in DOMAIN box
          PROVE  i \in InList \/ i \in deleted \/ box[i] \in known
      <4>1. HasNumber(vec, i) \/ i \in deleted \/ box[i] \in known
        BY <3>1, <3>4 DEF NewOnes
      <4>2. ASSUME HasNumber(vec, i) PROVE i \in InList
        <5>1. PICK j \in 0 .. vec.count - 1 : vec.first[j][1] = i
          BY <4>2 DEF HasNumber
        <5>2. j + 1 \in 1..vec.count /\ (j + 1) - 1 = j
          BY <3>2
        <5>3. Item(vec, (j + 1) - 1)[1] = i
          BY <3>2, <5>1, <5>2, ItemIs
        <5> QED
          BY <5>2, <5>3, Zenon DEF InList
      <4> QED
        BY <4>1, <4>2
    <3>5. ASSUME stage = "new", NEW i \in 1..vec.count PROVE Item(vec, i - 1)[2] \notin known
      <4>1. Item(vec, i - 1) = vec.first[i - 1] /\ i - 1 \in 0 .. vec.count - 1
        BY <3>2, ItemIs
      <4>2. \A j \in 0 .. vec.count - 1 : vec.first[j][2] \notin known
        BY <3>1, <3>5 DEF NewOnes
      <4> QED
        BY <4>1, <4>2
    <3> QED
      BY <3>3, <3>4, <3>5, Zenon DEF SizesAreOwn
  <2> QED
    BY <2>1, <2>2
<1> QED
  BY <1>1, <1>2, <1>3, PTL DEF Spec, allVars
=============================================================================
