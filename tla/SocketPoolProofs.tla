--------------------------- MODULE SocketPoolProofs ---------------------------
(***************************************************************************)
(* Theorems about SocketPool for any sets of threads, end points and       *)
(* sockets, and any limits.                                                *)
(***************************************************************************)
EXTENDS SocketPoolProps, SequenceTheorems, TLAPS

(* A socket lies in the list of its peer name, which is that of the end    *)
(* point it is connected to, if it is known.                               *)
FiledByPeer ==
  /\ \A e \in Names : \A i \in DOMAIN idle[e] : peer[idle[e][i]] = e
  /\ \A s \in live : peer[s] \in {dest[s], Unknown}

PoolInv ==
  /\ TypeOK
  /\ OneHolder
  /\ FiledByPeer

-----------------------------------------------------------------------------
(* What the lists hold after they are cut, and after an item is added.     *)
LEMMA CutSeq ==
  ASSUME NEW S, NEW q \in Seq(S), NEW j \in 1..Len(q)
  PROVE  /\ SubSeq(q, 1, j - 1) \in Seq(S)
         /\ DOMAIN SubSeq(q, 1, j - 1) = 1..(j - 1)
         /\ \A i \in 1..(j - 1) : SubSeq(q, 1, j - 1)[i] = q[i]
         /\ Items(SubSeq(q, j + 1, Len(q))) = {q[i] : i \in (j + 1)..Len(q)}
<1>1. /\ SubSeq(q, 1, j - 1) \in Seq(S)
      /\ Len(SubSeq(q, 1, j - 1)) = j - 1
      /\ \A i \in 1..(j - 1) : SubSeq(q, 1, j - 1)[i] = q[i]
  BY SMT
<1>2. DOMAIN SubSeq(q, 1, j - 1) = 1..(j - 1)
  BY <1>1, SMT
<1>3. Items(SubSeq(q, j + 1, Len(q))) = {q[i] : i \in (j + 1)..Len(q)}
  <2> DEFINE r == SubSeq(q, j + 1, Len(q))
  <2>1. Len(r) = Len(q) - j /\ \A i \in 1..(Len(q) - j) : r[i] = q[j + i]
    BY SMT
  <2>2. DOMAIN r = 1..(Len(q) - j)
    BY <2>1, SMT
  <2>3. \A i \in (j + 1)..Len(q) : i - j \in DOMAIN r /\ r[i - j] = q[i]
    BY <2>1, <2>2, SMT
  <2>4. \A i \in DOMAIN r : j + i \in (j + 1)..Len(q) /\ r[i] = q[j + i]
    BY <2>1, <2>2, SMT
  <2> HIDE DEF r
  <2>5. Items(r) = {r[i] : i \in DOMAIN r}
    BY DEF Items
  <2>6. \A i \in (j + 1)..Len(q) : q[i] \in Items(r)
    BY <2>3, <2>5
  <2>7. \A x \in Items(r) : x \in {q[i] : i \in (j + 1)..Len(q)}
    BY <2>4, <2>5
  <2> QED
    BY <2>6, <2>7 DEF r
<1> QED
  BY <1>1, <1>2, <1>3

LEMMA AddedSeq ==
  ASSUME NEW S, NEW q \in Seq(S), NEW s \in S
  PROVE  /\ Append(q, s) \in Seq(S)
         /\ DOMAIN Append(q, s) = 1..(Len(q) + 1)
         /\ \A i \in 1..Len(q) : Append(q, s)[i] = q[i]
         /\ Append(q, s)[Len(q) + 1] = s
         /\ DOMAIN q = 1..Len(q) /\ Len(q) \in Nat
BY SMT

LEMMA NoItems == Items(<<>>) = {} /\ DOMAIN <<>> = {}
BY SMT DEF Items

(* An idle socket by its place in its list.                                *)
LEMMA IdlePlace == \A s : s \in Idle <=> \E e \in Names : \E i \in DOMAIN idle[e] : idle[e][i] = s
BY DEF Idle, Items

LEMMA IdlePlaceNext ==
  \A s : s \in Idle' <=> \E e \in Names : \E i \in DOMAIN idle'[e] : idle'[e][i] = s
BY DEF Idle, Items, Names

(* OneHolder, conjunct by conjunct.                                        *)
Held == UNION {held[u] : u \in Users}
HeldApart == \A u, v \in Users : u # v => held[u] \cap held[v] = {}
HeldNotIdle == \A u \in Users : held[u] \cap Idle = {}
OnePlace ==
  \A e, f \in Names : \A i \in DOMAIN idle[e], j \in DOMAIN idle[f] :
    idle[e][i] = idle[f][j] => e = f /\ i = j

LEMMA OneHolderParts ==
  OneHolder <=> HeldApart /\ HeldNotIdle /\ OnePlace /\ live = Idle \cup Held
BY DEF OneHolder, HeldApart, HeldNotIdle, OnePlace, Held

(* Where lists only lose items from their ends, what is left keeps its     *)
(* place.                                                                  *)
LEMMA ListsCut ==
  ASSUME PoolInv, live' \subseteq live, UNCHANGED <<peer, dest>>,
         \A e \in Names : /\ DOMAIN idle'[e] \subseteq DOMAIN idle[e]
                          /\ \A i \in DOMAIN idle'[e] : idle'[e][i] = idle[e][i]
  PROVE  Idle' \subseteq Idle /\ OnePlace' /\ FiledByPeer'
<1>1. Idle' \subseteq Idle
  BY IdlePlace, IdlePlaceNext
<1>2. OnePlace'
  BY OneHolderParts DEF PoolInv, OnePlace, Names
<1>3. FiledByPeer'
  BY DEF PoolInv, FiledByPeer, Names
<1> QED
  BY <1>1, <1>2, <1>3

(* The steps that move no pointer.                                         *)
LEMMA NothingMoves ==
  ASSUME PoolInv, UNCHANGED <<idle, held, live, peer, dest>>
  PROVE  OneHolder' /\ FiledByPeer'
BY DEF PoolInv, OneHolder, FiledByPeer, Idle, Items, Names

(* get() takes one socket out of a list and deletes what lies above it.    *)
LEMMA GetIdleKeeps ==
  ASSUME PoolInv, NEW u \in Users, NEW e \in EndPoints, GetIdle(u, e)
  PROVE  PoolInv'
<1> DEFINE q == idle[e]
<1>1. e \in Names /\ q \in Seq(Sockets)
  BY DEF PoolInv, TypeOK, Names
<1>2. PICK j \in 1..Len(q) :
        /\ idle' = [idle EXCEPT ![e] = SubSeq(@, 1, j - 1)]
        /\ held' = [held EXCEPT ![u] = @ \cup {q[j]}]
        /\ live' = live \ Items(SubSeq(q, j + 1, Len(q)))
  BY DEF GetIdle
<1>3. UNCHANGED <<asked, peer, dest, age, pool>>
  BY DEF GetIdle
<1>4. DOMAIN q = 1..Len(q) /\ Len(q) \in Nat
  BY <1>1, SMT
<1>5. q[j] \in Sockets /\ q[j] \in Idle
  BY <1>1, <1>4, IdlePlace, SMT
<1>6. /\ SubSeq(q, 1, j - 1) \in Seq(Sockets)
      /\ DOMAIN SubSeq(q, 1, j - 1) = 1..(j - 1)
      /\ \A i \in 1..(j - 1) : SubSeq(q, 1, j - 1)[i] = q[i]
      /\ Items(SubSeq(q, j + 1, Len(q))) = {q[i] : i \in (j + 1)..Len(q)}
  BY <1>1, CutSeq
<1>7. idle'[e] = SubSeq(q, 1, j - 1) /\ \A f \in Names : f # e => idle'[f] = idle[f]
  BY <1>1, <1>2 DEF PoolInv, TypeOK
<1>8. TypeOK'
  BY <1>1, <1>2, <1>3, <1>5, <1>6 DEF PoolInv, TypeOK, Names
<1>9. \A f \in Names : /\ DOMAIN idle'[f] \subseteq DOMAIN idle[f]
                       /\ \A i \in DOMAIN idle'[f] : idle'[f][i] = idle[f][i]
  <2> SUFFICES ASSUME NEW f \in Names
               PROVE  /\ DOMAIN idle'[f] \subseteq DOMAIN idle[f]
                      /\ \A i \in DOMAIN idle'[f] : idle'[f][i] = idle[f][i]
    OBVIOUS
  <2>1. CASE f = e
    <3>1. 1..(j - 1) \subseteq 1..Len(q)
      BY <1>4, SMT
    <3> QED
      BY <2>1, <3>1, <1>4, <1>6, <1>7
  <2>2. CASE f # e
    BY <2>2, <1>7
  <2> QED
    BY <2>1, <2>2
<1>10. Idle' \subseteq Idle /\ OnePlace' /\ FiledByPeer'
  BY <1>2, <1>3, <1>9, ListsCut
<1>11. \A s : s \in Idle' <=> s \in Idle /\ \A i \in j..Len(q) : s # q[i]
  <2>1. ASSUME NEW s \in Idle' PROVE s \in Idle /\ \A i \in j..Len(q) : s # q[i]
    <3>0. PICK f \in Names : \E i \in DOMAIN idle'[f] : idle'[f][i] = s
      BY <2>1, IdlePlaceNext
    <3>1. PICK k \in DOMAIN idle'[f] : idle'[f][k] = s
      BY <3>0
    <3>2. k \in DOMAIN idle[f] /\ idle[f][k] = s
      BY <3>1, <1>9
    <3>3. \A i \in j..Len(q) : i \in DOMAIN q
      BY <1>4, SMT
    <3>4. ASSUME NEW i \in j..Len(q), s = q[i] PROVE FALSE
      <4>1. f = e /\ k = i
        BY <1>1, <3>2, <3>3, <3>4, OneHolderParts DEF PoolInv, OnePlace
      <4>2. k \in 1..(j - 1)
        BY <4>1, <3>1, <1>6, <1>7
      <4> QED
        BY <4>1, <4>2, SMT
    <3> QED
      BY <3>4, <1>10
  <2>2. ASSUME NEW s \in Idle, \A i \in j..Len(q) : s # q[i] PROVE s \in Idle'
    <3>0. PICK f \in Names : \E i \in DOMAIN idle[f] : idle[f][i] = s
      BY <2>2, IdlePlace
    <3>1. PICK k \in DOMAIN idle[f] : idle[f][k] = s
      BY <3>0
    <3>2. CASE f = e
      <4>1. k \in 1..(j - 1)
        BY <3>1, <3>2, <2>2, <1>4, SMT
      <4> QED
        BY <4>1, <3>1, <3>2, <1>6, <1>7, IdlePlaceNext
    <3>3. CASE f # e
      BY <3>1, <3>3, <1>7, IdlePlaceNext
    <3> QED
      BY <3>2, <3>3
  <2> QED
    BY <2>1, <2>2
<1>12. held'[u] = held[u] \cup {q[j]} /\ \A v \in Users : v # u => held'[v] = held[v]
  BY <1>2 DEF PoolInv, TypeOK
<1>13. \A v \in Users : q[j] \notin held[v]
  BY <1>5, OneHolderParts DEF PoolInv, HeldNotIdle
<1>14. HeldApart'
  BY <1>12, <1>13, OneHolderParts DEF PoolInv, HeldApart
<1>15. q[j] \notin Idle'
  BY <1>11, SMT
<1>16. HeldNotIdle'
  BY <1>10, <1>12, <1>15, OneHolderParts DEF PoolInv, HeldNotIdle
<1>17. \A s : s \in Held' <=> s \in Held \/ s = q[j]
  BY <1>12 DEF Held
<1>18. \A i \in (j + 1)..Len(q) : q[i] # q[j] /\ q[i] \in Idle
  <2> TAKE i \in (j + 1)..Len(q)
  <2>1. i \in DOMAIN q /\ j \in DOMAIN q /\ i # j
    BY <1>4, SMT
  <2> QED
    BY <2>1, <1>1, IdlePlace, OneHolderParts DEF PoolInv, OnePlace
<1>19. \A s : s \in live' <=> s \in live /\ \A i \in (j + 1)..Len(q) : s # q[i]
  BY <1>2, <1>6
<1>20. \A s : (\A i \in j..Len(q) : s # q[i]) <=> s # q[j] /\ \A i \in (j + 1)..Len(q) : s # q[i]
  <2>1. \A i \in j..Len(q) : i = j \/ i \in (j + 1)..Len(q)
    BY <1>4, SMT
  <2>2. j \in j..Len(q) /\ \A i \in (j + 1)..Len(q) : i \in j..Len(q)
    BY <1>4, SMT
  <2> QED
    BY <2>1, <2>2
<1>21. \A s \in Held : s \notin Idle
  BY OneHolderParts DEF PoolInv, HeldNotIdle, Held
<1>22. live = Idle \cup Held
  BY OneHolderParts DEF PoolInv
<1>23. live' = Idle' \cup Held'
  BY <1>5, <1>11, <1>17, <1>18, <1>19, <1>20, <1>21, <1>22
<1>24. OneHolder'
  BY <1>10, <1>14, <1>16, <1>23 DEF OneHolder, HeldApart, HeldNotIdle, OnePlace, Held
<1> QED
  BY <1>8, <1>10, <1>24 DEF PoolInv

(* A whole list is deleted, by get() or by clean().                        *)
LEMMA ListEmptied ==
  ASSUME PoolInv, NEW e \in EndPoints, UNCHANGED <<held, peer, dest>>,
         idle' = [idle EXCEPT ![e] = <<>>], live' = live \ Items(idle[e])
  PROVE  OneHolder' /\ FiledByPeer' /\ idle' \in [Names -> Seq(Sockets)]
<1> DEFINE q == idle[e]
<1>1. e \in Names /\ idle'[e] = <<>> /\ \A f \in Names : f # e => idle'[f] = idle[f]
  BY DEF PoolInv, TypeOK, Names
<1>2. idle' \in [Names -> Seq(Sockets)]
  BY <1>1, EmptySeq DEF PoolInv, TypeOK
<1>3. \A f \in Names : /\ DOMAIN idle'[f] \subseteq DOMAIN idle[f]
                       /\ \A i \in DOMAIN idle'[f] : idle'[f][i] = idle[f][i]
  BY <1>1, NoItems
<1>4. Idle' \subseteq Idle /\ OnePlace' /\ FiledByPeer'
  BY <1>3, ListsCut
<1>5. \A s : s \in Idle' <=> s \in Idle /\ s \notin Items(q)
  <2>1. ASSUME NEW s \in Idle' PROVE s \notin Items(q)
    <3>1. PICK f \in Names : \E i \in DOMAIN idle'[f] : idle'[f][i] = s
      BY <2>1, IdlePlaceNext
    <3>2. f # e /\ \E i \in DOMAIN idle[f] : idle[f][i] = s
      BY <1>1, <3>1, NoItems
    <3> QED
      BY <1>1, <3>2, OneHolderParts DEF PoolInv, OnePlace, Items
  <2>2. ASSUME NEW s \in Idle, s \notin Items(q) PROVE s \in Idle'
    <3>1. PICK f \in Names : \E i \in DOMAIN idle[f] : idle[f][i] = s
      BY <2>2, IdlePlace
    <3>2. f # e
      BY <2>2, <3>1 DEF Items
    <3> QED
      BY <1>1, <3>1, <3>2, IdlePlaceNext
  <2> QED
    BY <1>4, <2>1, <2>2
<1>6. \A s \in Items(q) : s \in Idle
  BY <1>1, IdlePlace DEF Items
<1>7. Held' = Held
  BY DEF Held
<1>8. live' = Idle' \cup Held'
  <2>1. \A s \in Held : s \notin Idle
    BY OneHolderParts DEF PoolInv, HeldNotIdle, Held
  <2>2. live = Idle \cup Held
    BY OneHolderParts DEF PoolInv
  <2> QED
    BY <1>5, <1>6, <1>7, <2>1, <2>2
<1>9. OneHolder'
  <2>1. HeldApart' /\ HeldNotIdle'
    BY <1>4, OneHolderParts DEF PoolInv, HeldApart, HeldNotIdle
  <2> QED
    BY <1>4, <1>8, <2>1 DEF OneHolder, HeldApart, HeldNotIdle, OnePlace, Held
<1> QED
  BY <1>2, <1>4, <1>9

LEMMA GetNoneKeeps ==
  ASSUME PoolInv, NEW u \in Users, NEW e \in EndPoints, NEW forceNew \in BOOLEAN,
         GetNone(u, e, forceNew)
  PROVE  PoolInv'
<1>1. UNCHANGED <<held, peer, dest, age, pool>> /\ asked' = [asked EXCEPT ![u] = e]
  BY DEF GetNone
<1>2. CASE UNCHANGED <<idle, live>>
  BY <1>1, <1>2, NothingMoves DEF PoolInv, TypeOK
<1>3. CASE idle' = [idle EXCEPT ![e] = <<>>] /\ live' = live \ Items(idle[e])
  <2>1. OneHolder' /\ FiledByPeer' /\ idle' \in [Names -> Seq(Sockets)]
    BY <1>1, <1>3, ListEmptied
  <2> QED
    BY <1>1, <1>3, <2>1 DEF PoolInv, TypeOK
<1> QED
  BY <1>2, <1>3 DEF GetNone

LEMMA CleanKeeps ==
  ASSUME PoolInv, NEW u \in Users, NEW e \in EndPoints, Clean(u, e)
  PROVE  PoolInv'
<1>1. OneHolder' /\ FiledByPeer' /\ idle' \in [Names -> Seq(Sockets)]
  BY ListEmptied DEF Clean
<1> QED
  BY <1>1 DEF Clean, PoolInv, TypeOK

(* The factory makes a socket where no object was.                         *)
LEMMA CreateKeeps ==
  ASSUME PoolInv, PoolAssumption, NEW u \in Users, Create(u)
  PROVE  PoolInv'
<1>1. PICK s \in Sockets \ live, name \in {asked[u], Unknown} :
        /\ live' = live \cup {s}
        /\ held' = [held EXCEPT ![u] = @ \cup {s}]
        /\ peer' = [peer EXCEPT ![s] = name]
        /\ dest' = [dest EXCEPT ![s] = asked[u]]
        /\ age' = [age EXCEPT ![s] = 0]
  BY DEF Create
<1>2. asked[u] \in EndPoints /\ asked' = [asked EXCEPT ![u] = Nil] /\ UNCHANGED <<idle, pool>>
  BY DEF Create, PoolInv, TypeOK
<1>3. TypeOK'
  BY <1>1, <1>2, PoolAssumption DEF PoolInv, TypeOK, Names, PoolAssumption
<1>4. Idle' = Idle /\ OnePlace'
  BY <1>2, OneHolderParts DEF PoolInv, Idle, OnePlace, Items, Names
<1>5. live = Idle \cup Held
  BY OneHolderParts DEF PoolInv
<1>6. s \notin Idle /\ \A v \in Users : s \notin held[v]
  BY <1>5 DEF Held
<1>7. held'[u] = held[u] \cup {s} /\ \A v \in Users : v # u => held'[v] = held[v]
  BY <1>1 DEF PoolInv, TypeOK
<1>8. HeldApart' /\ HeldNotIdle'
  BY <1>4, <1>6, <1>7, OneHolderParts DEF PoolInv, HeldApart, HeldNotIdle
<1>9. live' = Idle' \cup Held'
  BY <1>1, <1>4, <1>5, <1>7 DEF Held
<1>10. OneHolder'
  BY <1>4, <1>8, <1>9 DEF OneHolder, HeldApart, HeldNotIdle, OnePlace, Held
<1>11. FiledByPeer'
  <2>1. \A e \in Names : \A i \in DOMAIN idle[e] : idle[e][i] # s
    BY <1>6, IdlePlace
  <2>2. \A t \in Sockets : t # s => peer'[t] = peer[t] /\ dest'[t] = dest[t]
    BY <1>1 DEF PoolInv, TypeOK
  <2>3. peer'[s] = name /\ dest'[s] = asked[u]
    BY <1>1 DEF PoolInv, TypeOK
  <2>4. \A e \in Names : \A i \in DOMAIN idle[e] : idle[e][i] \in Sockets
    BY <1>5, IdlePlace DEF PoolInv, TypeOK
  <2> QED
    BY <1>1, <1>2, <2>1, <2>2, <2>3, <2>4 DEF PoolInv, FiledByPeer, TypeOK, Names
<1> QED
  BY <1>3, <1>10, <1>11 DEF PoolInv

(* A thread deletes a socket it has.                                       *)
LEMMA DiscardKeeps ==
  ASSUME PoolInv, NEW u \in Users, NEW s \in Sockets,
         s \in held[u], held' = [held EXCEPT ![u] = @ \ {s}], live' = live \ {s},
         UNCHANGED <<idle, asked, peer, dest, age, pool>>
  PROVE  PoolInv'
<1>1. TypeOK'
  BY DEF PoolInv, TypeOK
<1>2. Idle' = Idle /\ OnePlace' /\ FiledByPeer'
  BY OneHolderParts DEF PoolInv, FiledByPeer, Idle, OnePlace, Items, Names
<1>3. held'[u] = held[u] \ {s} /\ \A v \in Users : v # u => held'[v] = held[v]
  BY DEF PoolInv, TypeOK
<1>4. HeldApart' /\ HeldNotIdle'
  BY <1>2, <1>3, OneHolderParts DEF PoolInv, HeldApart, HeldNotIdle
<1>5. s \notin Idle /\ \A v \in Users : v # u => s \notin held[v]
  BY OneHolderParts DEF PoolInv, HeldApart, HeldNotIdle
<1>6. live' = Idle' \cup Held'
  <2>1. live = Idle \cup Held
    BY OneHolderParts DEF PoolInv
  <2>2. \A t : t \in Held' <=> t \in Held /\ t # s
    BY <1>3, <1>5 DEF Held
  <2> QED
    BY <1>2, <1>5, <2>1, <2>2
<1>7. OneHolder'
  BY <1>2, <1>4, <1>6 DEF OneHolder, HeldApart, HeldNotIdle, OnePlace, Held
<1> QED
  BY <1>1, <1>2, <1>7 DEF PoolInv

(* save() adds the socket to the list of its peer name, or deletes it.     *)
LEMMA SaveKeeps ==
  ASSUME PoolInv, NEW u \in Users, NEW s \in Sockets, Save(u, s)
  PROVE  PoolInv'
<1> DEFINE e == peer[s]
           q == idle[e]
<1>1. /\ s \in held[u] /\ held' = [held EXCEPT ![u] = @ \ {s}]
      /\ UNCHANGED <<asked, peer, dest, age, pool>>
  BY DEF Save
<1>2. CASE live' = live \ {s} /\ UNCHANGED idle
  BY <1>1, <1>2, DiscardKeeps
<1>3. CASE idle' = [idle EXCEPT ![e] = Append(@, s)] /\ UNCHANGED live
  <2>1. e \in Names /\ q \in Seq(Sockets)
    BY DEF PoolInv, TypeOK
  <2>2. /\ Append(q, s) \in Seq(Sockets)
        /\ DOMAIN Append(q, s) = 1..(Len(q) + 1)
        /\ \A i \in 1..Len(q) : Append(q, s)[i] = q[i]
        /\ Append(q, s)[Len(q) + 1] = s
        /\ DOMAIN q = 1..Len(q) /\ Len(q) \in Nat
    BY <2>1, AddedSeq
  <2>3. idle'[e] = Append(q, s) /\ \A f \in Names : f # e => idle'[f] = idle[f]
    BY <1>3, <2>1 DEF PoolInv, TypeOK
  <2>4. TypeOK'
    BY <1>1, <1>3, <2>1, <2>2 DEF PoolInv, TypeOK
  <2>5. s \notin Idle
    BY <1>1, OneHolderParts DEF PoolInv, HeldNotIdle
  <2>6. \A f \in Names : \A i \in DOMAIN idle'[f] :
          \/ i \in DOMAIN idle[f] /\ idle'[f][i] = idle[f][i] /\ idle'[f][i] # s
          \/ f = e /\ i = Len(q) + 1 /\ idle'[f][i] = s
    <3>1. \A i \in 1..(Len(q) + 1) : i \in 1..Len(q) \/ i = Len(q) + 1
      BY <2>2, SMT
    <3>2. \A f \in Names : \A i \in DOMAIN idle[f] : idle[f][i] # s
      BY <2>5, IdlePlace
    <3> QED
      BY <2>1, <2>2, <2>3, <3>1, <3>2
  <2>7. \A f \in Names : \A i \in DOMAIN idle[f] : i \in DOMAIN idle'[f] /\ idle'[f][i] = idle[f][i]
    <3>1. \A i \in 1..Len(q) : i \in 1..(Len(q) + 1)
      BY <2>2, SMT
    <3> QED
      BY <2>2, <2>3, <3>1
  <2>8. Len(q) + 1 \in DOMAIN idle'[e] /\ idle'[e][Len(q) + 1] = s
    BY <2>2, <2>3, SMT
  <2>9. \A t : t \in Idle' <=> t \in Idle \/ t = s
    <3>1. \A t \in Idle' : t \in Idle \/ t = s
      BY <2>6, IdlePlace, IdlePlaceNext
    <3>2. \A t \in Idle : t \in Idle'
      BY <2>7, IdlePlace, IdlePlaceNext
    <3>3. s \in Idle'
      BY <2>1, <2>8, IdlePlaceNext
    <3> QED
      BY <3>1, <3>2, <3>3
  <2>10. OnePlace'
    <3>1. \A f, g \in Names : \A i \in DOMAIN idle'[f], j \in DOMAIN idle'[g] :
            idle'[f][i] = idle'[g][j] => f = g /\ i = j
      BY <2>6, OneHolderParts DEF PoolInv, OnePlace
    <3> QED
      BY <3>1 DEF OnePlace, Names
  <2>11. held'[u] = held[u] \ {s} /\ \A v \in Users : v # u => held'[v] = held[v]
    BY <1>1 DEF PoolInv, TypeOK
  <2>12. \A v \in Users : v # u => s \notin held[v]
    BY <1>1, OneHolderParts DEF PoolInv, HeldApart
  <2>13. HeldApart' /\ HeldNotIdle'
    BY <2>9, <2>11, <2>12, OneHolderParts DEF PoolInv, HeldApart, HeldNotIdle
  <2>14. live' = Idle' \cup Held'
    <3>1. live = Idle \cup Held
      BY OneHolderParts DEF PoolInv
    <3>2. \A t : t \in Held' <=> t \in Held /\ t # s
      BY <2>11, <2>12 DEF Held
    <3>3. s \in Held
      BY <1>1 DEF Held
    <3> QED
      BY <1>3, <2>9, <3>1, <3>2, <3>3
  <2>15. OneHolder'
    BY <2>10, <2>13, <2>14 DEF OneHolder, HeldApart, HeldNotIdle, OnePlace, Held
  <2>16. FiledByPeer'
    <3>1. \A f \in Names : \A i \in DOMAIN idle'[f] : peer[idle'[f][i]] = f
      BY <2>6 DEF PoolInv, FiledByPeer
    <3> QED
      BY <1>1, <1>3, <3>1 DEF PoolInv, FiledByPeer, Names
  <2> QED
    BY <2>4, <2>15, <2>16 DEF PoolInv
<1> QED
  BY <1>2, <1>3 DEF Save

LEMMA DestroyKeeps ==
  ASSUME PoolInv, Destroy
  PROVE  PoolInv'
<1>1. /\ idle' = [e \in Names |-> <<>>] /\ live' = live \ Idle /\ pool' = "deleted"
      /\ UNCHANGED <<held, asked, peer, dest, age>>
  BY DEF Destroy
<1>2. \A e \in Names : DOMAIN idle'[e] = {}
  BY <1>1, NoItems
<1>3. Idle' = {} /\ OnePlace' /\ FiledByPeer'
  <2>1. Idle' \subseteq Idle /\ OnePlace' /\ FiledByPeer'
    BY <1>1, <1>2, ListsCut
  <2> QED
    BY <1>2, <2>1, IdlePlaceNext
<1>4. live' = Idle' \cup Held'
  <2>1. \A s \in Held : s \notin Idle
    BY OneHolderParts DEF PoolInv, HeldNotIdle, Held
  <2> QED
    BY <1>1, <1>3, <2>1, OneHolderParts DEF PoolInv, Held
<1>5. HeldApart' /\ HeldNotIdle'
  BY <1>1, <1>3, OneHolderParts DEF PoolInv, HeldApart, HeldNotIdle
<1>6. OneHolder'
  BY <1>3, <1>4, <1>5 DEF OneHolder, HeldApart, HeldNotIdle, OnePlace, Held
<1>7. TypeOK'
  BY <1>1, EmptySeq DEF PoolInv, TypeOK
<1> QED
  BY <1>3, <1>6, <1>7 DEF PoolInv

-----------------------------------------------------------------------------
LEMMA PoolInvInit == PoolAssumption /\ Init => PoolInv
<1> SUFFICES ASSUME PoolAssumption, Init PROVE PoolInv
  OBVIOUS
<1>1. TypeOK
  BY EmptySeq, SMT DEF PoolAssumption, Init, TypeOK, Names
<1>2. Idle = {} /\ \A e \in Names : DOMAIN idle[e] = {}
  BY NoItems, IdlePlace DEF Init
<1>3. OneHolder
  BY <1>2 DEF Init, OneHolder
<1>4. FiledByPeer
  BY <1>2 DEF Init, FiledByPeer
<1> QED
  BY <1>1, <1>3, <1>4 DEF PoolInv

LEMMA PoolInvNext == PoolAssumption /\ PoolInv /\ [Next]_vars => PoolInv'
<1> SUFFICES ASSUME PoolAssumption, PoolInv, [Next]_vars PROVE PoolInv'
  OBVIOUS
<1>1. CASE UNCHANGED vars
  BY <1>1, NothingMoves DEF vars, PoolInv, TypeOK
<1>2. ASSUME NEW u \in Users, NEW e \in EndPoints, GetIdle(u, e) PROVE PoolInv'
  BY <1>2, GetIdleKeeps
<1>3. ASSUME NEW u \in Users, NEW e \in EndPoints, NEW forceNew \in BOOLEAN, GetNone(u, e, forceNew)
      PROVE  PoolInv'
  BY <1>3, GetNoneKeeps
<1>4. ASSUME NEW u \in Users, NEW e \in EndPoints, Clean(u, e) PROVE PoolInv'
  BY <1>4, CleanKeeps
<1>5. ASSUME NEW u \in Users, Create(u) PROVE PoolInv'
  BY <1>5, CreateKeeps
<1>6. ASSUME NEW u \in Users, CreateFails(u) PROVE PoolInv'
  <2>1. OneHolder' /\ FiledByPeer'
    BY <1>6, NothingMoves DEF CreateFails
  <2> QED
    BY <1>6, <2>1 DEF CreateFails, PoolInv, TypeOK
<1>7. ASSUME NEW u \in Users, NEW s \in Sockets, Save(u, s) PROVE PoolInv'
  BY <1>7, SaveKeeps
<1>8. ASSUME NEW u \in Users, NEW s \in Sockets, Use(u, s) PROVE PoolInv'
  <2>1. OneHolder' /\ FiledByPeer'
    BY <1>8, NothingMoves DEF Use
  <2>2. age' \in [Sockets -> 0..(MaxIdleTime + 1)]
    BY <1>8, SMT DEF Use, PoolInv, TypeOK, PoolAssumption
  <2> QED
    BY <1>8, <2>1, <2>2 DEF Use, PoolInv, TypeOK
<1>9. ASSUME NEW u \in Users, NEW s \in Sockets, Discard(u, s) PROVE PoolInv'
  BY <1>9, DiscardKeeps DEF Discard
<1>10. CASE Tick
  <2>1. OneHolder' /\ FiledByPeer'
    BY <1>10, NothingMoves DEF Tick
  <2>2. age' \in [Sockets -> 0..(MaxIdleTime + 1)]
    BY <1>10, SMT DEF Tick, PoolInv, TypeOK, PoolAssumption
  <2> QED
    BY <1>10, <2>1, <2>2 DEF Tick, PoolInv, TypeOK
<1>11. CASE Destroy
  BY <1>11, DestroyKeeps
<1> QED
  BY <1>1, <1>2, <1>3, <1>4, <1>5, <1>6, <1>7, <1>8, <1>9, <1>10, <1>11 DEF Next

(* The inductive invariant holds in every behaviour.                       *)
LEMMA PoolInvHolds == PoolAssumption => (Spec => []PoolInv)
<1> SUFFICES ASSUME PoolAssumption PROVE Spec => []PoolInv
  OBVIOUS
<1>1. Init => PoolInv
  BY PoolInvInit
<1>2. PoolInv /\ [Next]_vars => PoolInv'
  BY PoolInvNext
<1> QED
  BY <1>1, <1>2, PTL DEF Spec

(* However many threads get, save, clean and delete: types are kept.       *)
THEOREM TypeCorrect == Spec => []TypeOK
BY PoolAssumption, PoolInvHolds, PTL DEF PoolInv

(* However many threads get, save, clean and delete, no socket has two     *)
(* holders, none is leaked and none is used after it was deleted.          *)
THEOREM OneHolderHolds == Spec => []OneHolder
BY PoolAssumption, PoolInvHolds, PTL DEF PoolInv

LEMMA FiledRight == PoolAssumption /\ PoolInv => RightEndPoint
<1> SUFFICES ASSUME PoolAssumption, PoolInv,
                    NEW e \in EndPoints, NEW i \in DOMAIN idle[e]
             PROVE  dest[idle[e][i]] = e
  BY DEF RightEndPoint
<1>1. e \in Names /\ e # Unknown
  BY DEF Names, PoolAssumption
<1>2. idle[e][i] \in live
  BY <1>1, IdlePlace, OneHolderParts DEF PoolInv
<1> QED
  BY <1>1, <1>2 DEF PoolInv, FiledByPeer

(* Only get() adds to what a thread holds: a socket that was just made, or *)
(* the one its loop has found to be good.                                  *)
LEMMA HandedOutIsFresh ==
  ASSUME PoolInv, [Next]_vars, NEW u \in Users, NEW s \in held'[u] \ held[u], s \in live
  PROVE  ~Expired(s)
<1>1. ASSUME NEW v \in Users, NEW e \in EndPoints, GetIdle(v, e) PROVE ~Expired(s)
  <2>1. PICK j \in 1..Len(idle[e]) :
          StopsAt(idle[e], j) /\ held' = [held EXCEPT ![v] = @ \cup {idle[e][j]}]
    BY <1>1 DEF GetIdle
  <2>2. j > 0 /\ idle[e] \in Seq(Sockets)
    BY SMT DEF PoolInv, TypeOK, Names
  <2>3. s = idle[e][j]
    BY <2>1 DEF PoolInv, TypeOK
  <2> QED
    BY <2>1, <2>2, <2>3 DEF StopsAt
<1>2. ASSUME NEW v \in Users, Create(v) PROVE FALSE
  <2>1. PICK t \in Sockets \ live : held' = [held EXCEPT ![v] = @ \cup {t}]
    BY <1>2 DEF Create
  <2> QED
    BY <2>1 DEF PoolInv, TypeOK
<1>3. ASSUME NEW v \in Users, NEW t \in Sockets, Save(v, t) \/ Discard(v, t) PROVE FALSE
  BY <1>3 DEF Save, Discard, PoolInv, TypeOK
<1>4. CASE UNCHANGED held
  BY <1>4
<1>5. ASSUME NEW v \in Users, NEW e \in EndPoints, NEW forceNew \in BOOLEAN,
             GetNone(v, e, forceNew) \/ Clean(v, e)
      PROVE  UNCHANGED held
  BY <1>5 DEF GetNone, Clean
<1>6. ASSUME NEW v \in Users, NEW t \in Sockets, Use(v, t) PROVE UNCHANGED held
  BY <1>6 DEF Use
<1>7. Tick \/ Destroy \/ UNCHANGED vars => UNCHANGED held
  BY DEF Tick, Destroy, vars
<1>8. ASSUME NEW v \in Users, CreateFails(v) PROVE UNCHANGED held
  BY <1>8 DEF CreateFails
<1> QED
  BY <1>1, <1>2, <1>3, <1>4, <1>5, <1>6, <1>7, <1>8 DEF Next

(* What get() takes from its lists is connected to the right end point and *)
(* not too old.                                                            *)
THEOREM IdleIsGoodHolds == Spec => IdleIsGood
<1>1. PoolInv => RightEndPoint
  BY PoolAssumption, FiledRight
<1>2. PoolInv /\ [Next]_vars =>
        [\A u \in Users : \A s \in (held'[u] \ held[u]) \cap live : ~Expired(s)]_vars
  BY HandedOutIsFresh
<1>3. Spec => []PoolInv
  BY PoolAssumption, PoolInvHolds
<1> QED
  BY <1>1, <1>2, <1>3, PTL DEF Spec, IdleIsGood, NoExpiredHandedOut
==============================================================================
