------------------------------- MODULE FifoLock -------------------------------
(***************************************************************************)
(* What SP_NKTokenLockManager promises its callers: each token is a lock   *)
(* with at most one owner, handed over strictly in the order of arrival;   *)
(* a waiting thread may give up.                                           *)
(***************************************************************************)
EXTENDS Integers, Sequences

CONSTANTS Threads, Tokens, Nobody

VARIABLES
  owner,   \* the thread that owns each token, or Nobody
  line     \* the threads waiting for each token, in order of arrival

vars == <<owner, line>>

Members(k) == {line[k][i] : i \in DOMAIN line[k]}

Init ==
  /\ owner = [k \in Tokens |-> Nobody]
  /\ line = [k \in Tokens |-> <<>>]

(* A free token nobody waits for is taken at once.                         *)
Take(t, k) ==
  /\ owner[k] = Nobody /\ line[k] = <<>>
  /\ owner' = [owner EXCEPT ![k] = t]
  /\ UNCHANGED line

Enter(t, k) ==
  /\ owner[k] # Nobody \/ line[k] # <<>>
  /\ t \notin Members(k) \cup {owner[k]}
  /\ line' = [line EXCEPT ![k] = Append(@, t)]
  /\ UNCHANGED owner

(* A free token goes to the thread that has waited longest, to no other.   *)
Grant(k) ==
  /\ owner[k] = Nobody /\ line[k] # <<>>
  /\ owner' = [owner EXCEPT ![k] = Head(line[k])]
  /\ line' = [line EXCEPT ![k] = Tail(@)]

(* A waiting thread leaves; the order of the others does not change.       *)
Leave(k, i) ==
  /\ i \in DOMAIN line[k]
  /\ line' = [line EXCEPT ![k] =
                [j \in 1..(Len(@) - 1) |-> IF j < i THEN @[j] ELSE @[j + 1]]]
  /\ UNCHANGED owner

Release(t, k) ==
  /\ owner[k] = t
  /\ owner' = [owner EXCEPT ![k] = Nobody]
  /\ UNCHANGED line

Next == \E k \in Tokens :
  \/ \E t \in Threads : Take(t, k) \/ Enter(t, k) \/ Release(t, k)
  \/ \E i \in DOMAIN line[k] : Leave(k, i)
  \/ Grant(k)

(* No fairness for Grant: waiters whose deadlines keep passing just before *)
(* they are granted may leave and come back for ever.                      *)
Spec == Init /\ [][Next]_vars
===============================================================================
