---------------------------- MODULE MilterClient ----------------------------
(***************************************************************************)
(* SP_NKMilterProtocol (src/spnetkit/spnkmiltercli.cpp), the mail server's *)
(* end of a connection to a mail filter, with an application that shows    *)
(* the filter one mail after another and a filter that answers.            *)
(*                                                                         *)
(* A reply is a prefix (its length and its code) and, for some codes, data *)
(* after it; each comes in a piece of its own and is one readn().  Time    *)
(* runs out while nothing has come, or amid the bytes of a piece, and the  *)
(* filter may quit at any time.                                            *)
(***************************************************************************)
EXTENDS Integers, Sequences, SequencesExt

CONSTANTS
  FlagSets,    \* the sets of commands that filters ask not to be sent
  MaxMails,    \* bound: mails on one connection
  MaxChanges,  \* bound: changes the filter makes to one mail
  Nil

(* The commands of a session in their order; A and Q fit in anywhere.      *)
Stages == <<"O", "C", "H", "M", "R", "L", "N", "B", "E">>
Commands == ToSet(Stages) \cup {"A", "Q"}
Place(c) ==
  IF c \in ToSet(Stages) THEN CHOOSE i \in DOMAIN Stages : Stages[i] = c ELSE 0

(* A filter can ask not to be sent these (the SMFIP_NO... flags).          *)
ASSUME MilterAssumption ==
  /\ FlagSets \subseteq SUBSET {"C", "H", "M", "R", "L", "N", "B"}
  /\ MaxMails \in Nat /\ MaxChanges \in Nat
  /\ Nil \notin Commands /\ Nil \notin FlagSets /\ Nil \notin Commands \X Nat

VARIABLES
  asks,     \* the commands the filter has asked not to be sent
  proto,    \* mProtoFlags, as the set of those commands
  call,     \* the application's last call, by its command
  at,       \* where the call is: "back", "prefix", "data", or "undefined"
  reply,    \* mLastReply: its code, and the command of the mail it answers
  mails,    \* mails begun
  pipe,     \* pieces of replies that have come and are unread
  sent,     \* pieces on the way
  open,     \* the client has the connection open
  quit,     \* the filter has quit
  owed,     \* the command the filter has to answer, Nil if none
  changes,  \* changes the filter has made to the mail
  last,     \* the packets of the last call that sent any, macros being "D"
  before,   \* the command that was sent before those
  cut       \* a reply was taken for read with a part of its data unread

clientVars == <<proto, call, at, reply, mails>>
filterVars == <<asks, quit, owed, changes>>
history == <<last, before, cut>>
vars == <<clientVars, filterVars, pipe, sent, open, history>>

Continue == [code |-> "c", to |-> Nil]     \* what resetReply() leaves

Init ==
  /\ asks = {} /\ proto = {} /\ call = Nil /\ at = "back"
  /\ reply = [code |-> "0", to |-> Nil] /\ mails = 0
  /\ pipe = <<>> /\ sent = <<>> /\ open = TRUE /\ quit = FALSE
  /\ owed = Nil /\ changes = 0 /\ last = <<>> /\ before = Nil /\ cut = FALSE

-----------------------------------------------------------------------------
(* The application: it gives up after a failure, goes on with the next     *)
(* command while the filter says to continue, reads on at the end of the   *)
(* body until the filter has decided, and aborts a mail that is decided    *)
(* before.                                                                 *)
Decided == reply.code \in {"a", "y"}
MidMail == call \in {"M", "R", "L", "N", "B"}
MailDone == call = "A" \/ (call = "E" /\ (Decided \/ reply.code = "c"))

MayCall(c) ==
  /\ open /\ at = "back"
  /\ CASE c = "O" -> call = Nil
       [] c = "A" -> MidMail
       [] c = "Q" -> MailDone \/ (call \in {"C", "H"} /\ Decided)
       [] c = "M" -> mails < MaxMails /\ (MailDone \/ (call = "H" /\ reply.code = "c"))
       [] c = "R" -> call \in {"M", "R"} /\ reply.code = "c"
       [] c = "C" -> call = "O"
       [] OTHER -> Place(c) = Place(call) + 1 /\ reply.code = "c"

Mails(c) == IF c = "M" THEN mails + 1 ELSE mails

-----------------------------------------------------------------------------
(* Slips the code could make: endOfHeader() tests the flag of header().    *)
SkippedByHeaders(c) == (IF c = "E" THEN "B" ELSE IF c = "N" THEN "L" ELSE c) \in proto

(* The flags are tested so; endOfBody() tests that of body().              *)
Skipped(c) == (IF c = "E" THEN "B" ELSE c) \in proto

(* A slip the code could make: a skipped call leaves the last reply.       *)
CallSkippedKeeps(c) ==
  /\ MayCall(c) /\ Skipped(c)
  /\ call' = c /\ mails' = Mails(c)
  /\ UNCHANGED <<reply, proto, at, filterVars, pipe, sent, open, history>>

(* A call that the filter has asked not to be told of.                     *)
CallSkipped(c) ==
  /\ MayCall(c) /\ Skipped(c)
  /\ call' = c /\ mails' = Mails(c) /\ reply' = Continue
  /\ UNCHANGED <<proto, at, filterVars, pipe, sent, open, history>>

Answered(c) == c \notin {"A", "Q"}

(* connect(), mail() and rcpt() first send macros, which get no reply.     *)
WithMacros == {"C", "M", "R"}
Packets(c) == IF c \in WithMacros THEN <<"D", c>> ELSE <<c>>
Tell(packets) ==
  /\ last' = packets
  /\ before' = IF last = <<>> THEN Nil ELSE Last(last)
  /\ cut' = cut

(* A call that is sent.                                                    *)
CallSent(c) ==
  /\ MayCall(c) /\ ~Skipped(c)
  /\ call' = c /\ mails' = Mails(c)
  /\ Tell(Packets(c))
  /\ owed' = IF quit \/ c \in {"A", "Q"} THEN Nil ELSE <<c, mails'>>
  /\ changes' = 0
  /\ IF Answered(c) THEN at' = "prefix" /\ reply' = Continue ELSE UNCHANGED <<at, reply>>
  /\ open' = (c # "Q")
  /\ UNCHANGED <<proto, asks, quit, pipe, sent>>

(* The call returns -1, and the application closes the connection.         *)
Fail ==
  /\ at' = "back" /\ open' = FALSE /\ pipe' = <<>> /\ sent' = <<>> /\ owed' = Nil
  /\ UNCHANGED <<proto, call, mails, asks, quit, changes>>

(* sendCmd() may fail in the macros, the prefix or the data.               *)
CallFails(c) ==
  /\ MayCall(c) /\ ~Skipped(c)
  /\ Fail /\ UNCHANGED reply
  /\ \/ UNCHANGED history
     \/ c \in WithMacros /\ Tell(<<"D">>)

-----------------------------------------------------------------------------
(* readReply().                                                            *)

(* A slip the code could make: the length of the reply is not looked at.   *)
ReturnShort(flags) ==
  /\ at' = "back"
  /\ proto' = IF call = "O" THEN flags ELSE proto

(* negotiate() takes over the flags of a reply that has them.              *)
Return(flags) ==
  /\ at' = "back"
  /\ proto' = IF call = "O" /\ flags # Nil THEN flags ELSE proto

(* A piece is a prefix or the data after one.                              *)
CodesWithData == {"O", "y", "h"}
IsData(p) == p.code \in CodesWithData /\ ~p.data

ReadPrefix ==
  /\ at = "prefix" /\ pipe # <<>> /\ ~IsData(Head(pipe))
  /\ reply' = [code |-> Head(pipe).code, to |-> Head(pipe).to]
  /\ pipe' = Tail(pipe)
  /\ IF Head(pipe).data THEN at' = "data" /\ UNCHANGED proto
     ELSE Return(Nil)
  /\ UNCHANGED <<call, mails, filterVars, sent, open, history>>

ReadData ==
  /\ at = "data" /\ pipe # <<>>
  /\ pipe' = Tail(pipe)
  /\ Return(Head(pipe).flags)
  /\ UNCHANGED <<call, mails, reply, filterVars, sent, open, history>>

(* readn() gives a part of the data when time runs out amid its bytes      *)
(* (spnksocket.cpp:380), and readReply() is content with that: the rest    *)
(* stays in the stream.  The flags of negotiate() may be in the part that  *)
(* was read, or are taken from memory that nobody has written.             *)
ReadPartOfData ==
  /\ at = "data" /\ pipe = <<>> /\ sent # <<>>
  /\ cut' = TRUE
  /\ \/ Return(Head(sent).flags)
     \/ call = "O" /\ Head(sent).flags # Nil /\ at' = "undefined" /\ UNCHANGED proto
  /\ UNCHANGED <<call, mails, reply, filterVars, pipe, sent, open, last, before>>

(* readn() gives 0 or -1: the filter has quit, or nothing comes in time.   *)
ReadFails == at \in {"prefix", "data"} /\ pipe = <<>> /\ Fail /\ UNCHANGED <<reply, history>>

(* What readReply() takes for a prefix is none: less than one, when time   *)
(* runs out amid its bytes (its length wraps below 0, or its code is 0),   *)
(* or the rest of the data of the reply before.                            *)
ReadNoPrefix ==
  /\ at = "prefix"
  /\ \/ pipe = <<>> /\ sent # <<>>
     \/ pipe # <<>> /\ IsData(Head(pipe))
  /\ at' = "undefined"
  /\ UNCHANGED <<proto, call, mails, reply, filterVars, pipe, sent, open, history>>

(* The application's own readReply(), for the changes and the verdict.     *)
ReadOn ==
  /\ open /\ at = "back" /\ call = "E" /\ reply.code = "h"
  /\ at' = "prefix" /\ reply' = Continue
  /\ UNCHANGED <<proto, call, mails, filterVars, pipe, sent, open, history>>

-----------------------------------------------------------------------------
(* The filter and the network.                                             *)
Pieces(code, flags) ==
  LET hasData == code \in CodesWithData IN
  <<[code |-> code, to |-> owed, data |-> hasData, flags |-> Nil]>> \o
  (IF hasData THEN <<[code |-> code, to |-> owed, data |-> FALSE, flags |-> flags]>> ELSE <<>>)

(* To the negotiation it answers with its flags, or too short for flags.   *)
Negotiate(flags) ==
  /\ owed # Nil /\ owed[1] = "O"
  /\ \/ sent' = sent \o Pieces("O", flags) /\ asks' = flags
     \/ sent' = sent \o Pieces("O", Nil) /\ UNCHANGED asks
  /\ owed' = Nil
  /\ UNCHANGED <<clientVars, quit, changes, pipe, open, history>>

Answer(code) ==
  /\ owed # Nil /\ owed[1] # "O"
  /\ sent' = sent \o Pieces(code, Nil) /\ owed' = Nil
  /\ UNCHANGED <<clientVars, asks, quit, changes, pipe, open, history>>

Change ==
  /\ owed # Nil /\ owed[1] = "E" /\ changes < MaxChanges
  /\ sent' = sent \o Pieces("h", Nil) /\ changes' = changes + 1
  /\ UNCHANGED <<clientVars, asks, quit, owed, pipe, open, history>>

Arrive ==
  /\ sent # <<>> /\ at # "undefined" /\ open
  /\ pipe' = Append(pipe, Head(sent)) /\ sent' = Tail(sent)
  /\ UNCHANGED <<clientVars, filterVars, open, history>>

(* The filter quits: what it still had to say is never said.               *)
Quit ==
  /\ ~quit /\ open
  /\ quit' = TRUE /\ owed' = Nil
  /\ UNCHANGED <<clientVars, asks, changes, pipe, sent, open, history>>

Next ==
  \/ \E c \in Commands : CallSkipped(c) \/ CallSent(c) \/ CallFails(c)
  \/ ReadPrefix \/ ReadData \/ ReadPartOfData \/ ReadFails \/ ReadNoPrefix \/ ReadOn
  \/ \E flags \in FlagSets : Negotiate(flags)
  \/ \E code \in {"c", "a", "y"} : Answer(code)
  \/ Change \/ Arrive \/ Quit

Spec == Init /\ [][Next]_vars
=============================================================================
