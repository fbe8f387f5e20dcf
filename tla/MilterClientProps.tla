-------------------------- MODULE MilterClientProps --------------------------
(***************************************************************************)
(* The properties of MilterClient.                                         *)
(***************************************************************************)
EXTENDS MilterClient

(* The flags that the client tests are those the filter sent, a call that  *)
(* reads its reply's data has a code with data, and nothing is left unread *)
(* of a reply when the call that it answers has returned.                  *)
TypeOK ==
  /\ proto \in FlagSets \cup {{}} /\ asks \in FlagSets \cup {{}}
  /\ call \in Commands \cup {Nil} /\ at \in {"back", "prefix", "data", "undefined"}
  /\ reply.code \in {"0", "O", "c", "a", "y", "h"}
  /\ mails \in 0..MaxMails /\ changes \in 0..MaxChanges /\ cut \in BOOLEAN
  /\ at = "data" => reply.code \in {"O", "y", "h"}

(* The reply a call leaves is the filter's to that very command of that    *)
(* very mail, and a call the filter is not told of leaves "continue",      *)
(* whatever the filter changes, however the mail before ended; and nothing *)
(* of one reply is left for the next read (readReply(), resetReply()).     *)
(* The last does not hold once time has run out amid the data of a reply,  *)
(* which readReply() does not see (spnkmiltercli.cpp:377): then the next   *)
(* read takes the rest of the data for a prefix (ReadNoPrefix).            *)
ReplyIsOwn ==
  at = "back" /\ open /\ call \notin {Nil, "A"} =>
    /\ reply.to = IF call = Last(last) THEN <<call, mails>> ELSE Nil
    /\ reply.to = Nil => reply.code = "c"
    /\ reply.code # "h" /\ ~cut => pipe = <<>> /\ sent = <<>>

(* The filter is sent the commands of a session in their order: none that  *)
(* it has asked not to get, and every other one, save that the end of the  *)
(* body goes when the body does (spnkmiltercli.cpp:303); and macros, only  *)
(* with the command after them, unless that fails and nothing follows.     *)
Between(c, d) ==
  IF Place(c) < Place(d) THEN {Stages[i] : i \in Place(c) + 1 .. Place(d) - 1}
  ELSE {Stages[i] : i \in (Place(c) + 1 .. Len(Stages)) \cup (Place("M") .. Place(d) - 1)}

Unwanted == IF "B" \in asks THEN asks \cup {"E"} ELSE asks
StageOf(c) == IF c = "A" THEN "H" ELSE c

Follows(c, d) ==
  \/ d \in {"A", "Q"} \/ <<c, d>> = <<"R", "R">>
  \/ Between(StageOf(c), d) \subseteq Unwanted

InOrder ==
  last # <<>> =>
    /\ Last(last) = "D" => ~open
    /\ Last(last) \notin {"D", "O"} =>
         Last(last) \notin Unwanted /\ before # Nil /\ Follows(before, Last(last))

(* A call that waits for a reply waits for one that the filter has still   *)
(* to give, or that is on its way; unless the filter has quit.             *)
NotInVain ==
  at \in {"prefix", "data"} /\ pipe = <<>> /\ sent = <<>> /\ owed = Nil => quit

(* Commands and replies stay in step, unless time runs out amid the data   *)
(* of a reply, and the two ends never wait for each other.                 *)
InStep == ReplyIsOwn /\ NotInVain
==============================================================================
