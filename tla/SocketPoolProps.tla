--------------------------- MODULE SocketPoolProps ---------------------------
(***************************************************************************)
(* The properties of SocketPool.                                           *)
(***************************************************************************)
EXTENDS SocketPool

(* Every variable ranges over what its C++ declaration can hold.           *)
TypeOK ==
  /\ idle \in [Names -> Seq(Sockets)]
  /\ held \in [Users -> SUBSET Sockets]
  /\ asked \in [Users -> EndPoints \cup {Nil}]
  /\ live \subseteq Sockets
  /\ peer \in [Sockets -> Names]
  /\ dest \in [Sockets -> EndPoints \cup {Nil}]
  /\ age \in [Sockets -> 0..(MaxIdleTime + 1)]
  /\ pool \in {"open", "deleted"}

(* No socket is in the hands of two threads, or of a thread and the pool,  *)
(* or twice in the pool: get(), save() and clean() move the one pointer    *)
(* there is.  These pointers are those of the objects that exist: nothing  *)
(* deleted is used or deleted again, nothing is left over that nobody will *)
(* delete.                                                                 *)
OneHolder ==
  /\ \A u, v \in Users : u # v => held[u] \cap held[v] = {}
  /\ \A u \in Users : held[u] \cap Idle = {}
  /\ \A e, f \in Names : \A i \in DOMAIN idle[e], j \in DOMAIN idle[f] :
       idle[e][i] = idle[f][j] => e = f /\ i = j
  /\ live = Idle \cup UNION {held[u] : u \in Users}

(* Whoever gets an idle socket for an endpoint is talking to that one.     *)
RightEndPoint ==
  \A e \in EndPoints : \A i \in DOMAIN idle[e] : dest[idle[e][i]] = e

(* get() hands out no socket that has been idle for too long, also when it *)
(* lies under one that has just been saved.                                *)
NoExpiredHandedOut ==
  [][\A u \in Users : \A s \in (held'[u] \ held[u]) \cap live : ~Expired(s)]_vars

(* What get() takes from its list is a connection to the right place that  *)
(* is not too old to be used.                                              *)
IdleIsGood == []RightEndPoint /\ NoExpiredHandedOut
=============================================================================
