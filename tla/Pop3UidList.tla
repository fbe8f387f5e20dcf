----------------------------- MODULE Pop3UidList -----------------------------
(***************************************************************************)
(* SP_NKPop3UidList over an SP_NKVector, and the calls of SP_NKPop3Client  *)
(* that fill it from the listings of a mailbox (spnkpop3cli.cpp).  An item *)
(* is <<seq, uid, size>>.  Sequence numbers are good for a session, uids   *)
(* for ever.                                                               *)
(***************************************************************************)
EXTENDS NKList

CONSTANTS
  Mail,      \* the mails there may be: a function from uid to size
  MaxSessions

VARIABLES
  box,       \* the mailbox of this session: the uid of each number
  deleted,   \* the numbers that were deleted in this session
  ignored,   \* the uids that the application knows already
  known,     \* and those it knew when it asked for the list (history)
  stage,     \* what is in the list: "empty", "all", "new", "refused"
  filled,    \* fillMailSize() was called for the list, and not refused
  sessions

uidVars == <<box, deleted, ignored, known, stage, filled, sessions>>

Boxes == {<<>>} \cup UNION {{s \in [1..n -> DOMAIN Mail] : IsInjective(s)} :
                              n \in 1..Cardinality(DOMAIN Mail)}

(* The lines of a listing, which come in the order of their numbers.       *)
Listed == DOMAIN box \ deleted

(* A slip the code could make: no look at the list of those to ignore.     *)
NewAndOld(seqs) == {n \in seqs : TRUE}

New(seqs) == {n \in seqs : box[n] \notin ignored}

(* getAllUidList() and getNewUidList() append a line after the other.      *)
WithUids(v, seqs) ==
  LET read[n \in 0..Len(box)] ==
        IF n = 0 THEN v
        ELSE IF n \in seqs THEN Appended(read[n - 1], <<n, box[n], 0>>) ELSE read[n - 1]
  IN read[Len(box)]

(* A slip the code could make: the uid at the place of the number.         *)
FoundAtNumber(v, seq) == IF seq <= v.count THEN seq - 1 ELSE v.count - 1

(* find(): the first with the number; getItem( -1 ), if there is none, is  *)
(* the last item.                                                          *)
FirstWith(v, seq) == SelectInSeq(InUse(v), LAMBDA u : u[1] = seq) - 1
FoundAt(v, seq) == Index(v, FirstWith(v, seq))

WithSize(v, seq) ==
  IF v.count = 0 THEN v ELSE [v EXCEPT !.first[FoundAt(v, seq)][3] = Mail[box[seq]]]

WithSizes(v, seqs) ==
  LET read[n \in 0..Len(box)] ==
        IF n = 0 THEN v ELSE IF n \in seqs THEN WithSize(read[n - 1], n) ELSE read[n - 1]
  IN read[Len(box)]
-----------------------------------------------------------------------------
App == kind = "uids" /\ UNCHANGED <<kind, vals, links, buf, call, ret>>

(* A new session sees mails that have come and not those that were deleted *)
(* or that others have taken away; the application takes a new list.       *)
Login ==
  /\ App /\ sessions < MaxSessions /\ sessions' = sessions + 1
  /\ \E b \in Boxes : box' = b
  /\ deleted' = {} /\ vec' = NewVector(0) /\ stage' = "empty" /\ filled' = FALSE
  /\ UNCHANGED <<ignored, known>>

NewList ==
  /\ App /\ stage # "empty"
  /\ vec' = NewVector(0) /\ stage' = "empty" /\ filled' = FALSE
  /\ UNCHANGED <<box, deleted, ignored, known, sessions>>

GetAllUidList ==
  /\ App /\ stage = "empty"
  /\ vec' = WithUids(vec, Listed) /\ stage' = "all"
  /\ known' = ignored /\ UNCHANGED <<box, deleted, ignored, filled, sessions>>

GetNewUidList ==
  /\ App /\ stage = "empty"
  /\ vec' = WithUids(vec, New(Listed)) /\ stage' = "new"
  /\ known' = ignored /\ UNCHANGED <<box, deleted, ignored, filled, sessions>>

(* uidl() returns 0 for a refusal too: there is no buffer to read then.    *)
Refused ==
  /\ App /\ stage = "empty" /\ stage' = "refused"
  /\ UNCHANGED <<vec, box, deleted, ignored, known, filled, sessions>>

FillMailSize ==
  /\ App /\ stage # "empty"
  /\ vec' = WithSizes(vec, Listed) /\ filled' = TRUE
  /\ UNCHANGED <<box, deleted, ignored, known, stage, sessions>>

(* The application reads a mail of the list, and will ignore it.           *)
GetMail(i) ==
  /\ App /\ i \in 1..vec.count
  /\ ignored' = ignored \cup {Item(vec, i - 1)[2]}
  /\ UNCHANGED <<vec, box, deleted, known, stage, filled, sessions>>

(* deleteMail() of a mail that was read.                                   *)
DeleteMail(i) ==
  /\ App /\ i \in 1..vec.count /\ Item(vec, i - 1)[2] \in ignored
  /\ deleted' = deleted \cup {Item(vec, i - 1)[1]}
  /\ UNCHANGED <<vec, box, ignored, known, stage, filled, sessions>>

UidInit ==
  /\ box = <<>> /\ deleted = {} /\ ignored = {} /\ known = {}
  /\ stage = "empty" /\ filled = FALSE /\ sessions = 0

UidNext ==
  \/ Login \/ NewList \/ GetAllUidList \/ GetNewUidList \/ Refused \/ FillMailSize
  \/ \E i \in 1..Cardinality(DOMAIN Mail) : GetMail(i) \/ DeleteMail(i)
=============================================================================
