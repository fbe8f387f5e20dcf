---------------------------- MODULE MCMailClients ----------------------------
(* SmtpClient with a few recipients, and Pop3Client with mails of up to    *)
(* two short lines, among them an empty one, one that is a dot, one that   *)
(* begins and one that ends with one.  A program has one client of the     *)
(* two: the other stays as it was made.                                    *)
EXTENDS SmtpClientProps, Pop3Client

Lines == {<<>>, <<"x">>, <<Dot>>, <<Dot, "x">>, <<"x", Dot>>}

TestMails == {<<>>} \cup {<<l>> : l \in Lines} \cup {<<k, l>> : k \in Lines, l \in Lines}

MailInit == Init /\ Pop3Init
MailNext ==
  \/ Next /\ Pop3Init /\ UNCHANGED pop3Vars
  \/ Pop3Next /\ Init /\ UNCHANGED vars

MailSpec == MailInit /\ [][MailNext]_<<vars, pop3Vars>>
=============================================================================
