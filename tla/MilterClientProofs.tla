-------------------------- MODULE MilterClientProofs --------------------------
(***************************************************************************)
(* Proofs about MilterClient, for any sets of flags, mails and changes.    *)
(***************************************************************************)
EXTENDS MilterClientProps, SequenceTheorems, TLAPS

Codes == {"O", "c", "a", "y", "h"}

Piece == [code : Codes, to : {Nil} \cup (Commands \X Nat), data : BOOLEAN,
          flags : FlagSets \cup {Nil}]

(* Pieces come in whole replies: a prefix that announces data has it       *)
(* behind it, and data has its prefix before it or is the first piece, if  *)
(* that prefix has been read.                                              *)
Framed(s, inside) ==
  /\ \A i \in 1..Len(s) : s[i].data =>
       /\ s[i].code \in CodesWithData
       /\ i < Len(s) /\ IsData(s[i + 1]) /\ s[i + 1].code = s[i].code
  /\ \A i \in 1..Len(s) : IsData(s[i]) /\ i > 1 => s[i - 1].data
  /\ inside <=> Len(s) > 0 /\ IsData(s[1])

(* The filter's verdict is its last reply, changes ("h") come before it.   *)
VerdictLast(s) ==
  \A i \in 1..Len(s) : s[i].code # "h" => i = Len(s) \/ (s[i].data /\ i = Len(s) - 1)

Ended(s) == Len(s) > 0 /\ s[Len(s)].code # "h"

(* What the filter has said and the client has not read.                   *)
Stream == pipe \o sent

(* The client has read a change and will read on.                          *)
MidChanges == call = "E" /\ reply.code = "h"

TypeInv ==
  /\ TypeOK
  /\ reply \in [code : {"0"} \cup Codes, to : {Nil} \cup (Commands \X Nat)]
  /\ pipe \in Seq(Piece) /\ sent \in Seq(Piece)
  /\ open \in BOOLEAN /\ quit \in BOOLEAN
  /\ last \in Seq(Commands \cup {"D"})

(* The replies under way are all to the call that waits for them.          *)
OneAtATime ==
  /\ ~open => at = "back" /\ Stream = <<>> /\ owed = Nil
  /\ at = "back" /\ ~MidChanges => Stream = <<>> /\ owed = Nil
  /\ owed # Nil => owed = <<call, mails>> /\ \A i \in 1..Len(Stream) : Stream[i].code = "h"
  /\ \A i \in 1..Len(Stream) :
       Stream[i].to = <<call, mails>> /\ (Stream[i].code = "h" => call = "E")

Whole == at # "undefined" => Framed(Stream, at = "data") /\ VerdictLast(Stream)

(* Until the verdict has been read it is owed or has been given.           *)
WillEnd ==
  at \in {"prefix", "data"} \/ (open /\ at = "back" /\ MidChanges) =>
    owed # Nil \/ quit \/ Ended(Stream)

InData == at = "data" => reply.code = Stream[1].code /\ reply.to = <<call, mails>>

(* The last packet is that of the call that waits, and never one that the  *)
(* filter has asked not to be sent.                                        *)
LastIsCall ==
  /\ at # "back" => call \notin {Nil, "A", "Q"} /\ call = Last(last)
  /\ open /\ call # Nil => last # <<>> /\ ~Skipped(Last(last))
  /\ call = Nil => proto = {}
  /\ proto \subseteq {"C", "H", "M", "R", "L", "N", "B"}

MilterInv ==
  /\ TypeInv
  /\ OneAtATime
  /\ Whole
  /\ WillEnd
  /\ InData
  /\ LastIsCall
  /\ ReplyIsOwn

(* What holds also when time has run out amid the data of a reply.         *)
Steady ==
  /\ TypeInv /\ LastIsCall /\ ReplyIsOwn
  /\ owed # Nil => owed = <<call, mails>> /\ call # Nil
  /\ ~open => at = "back"

(* The rest of the data is the first that the next read will find.         *)
Adrift ==
  /\ cut /\ Steady
  /\ at # "data"
  /\ call # Nil /\ (call = "O" => owed = Nil)
  /\ at = "back" /\ ~MidChanges => owed = Nil
  /\ open /\ at # "undefined" => Stream # <<>> /\ IsData(Stream[1])

Inv == (~cut /\ MilterInv) \/ Adrift

-----------------------------------------------------------------------------
(* Streams of pieces.                                                      *)

LEMMA Popped ==
  ASSUME NEW s \in Seq(Piece), s # <<>>
  PROVE  /\ Len(s) \in Nat /\ Len(s) > 0 /\ s[1] = Head(s) /\ s[1] \in Piece
         /\ Tail(s) \in Seq(Piece) /\ Len(Tail(s)) = Len(s) - 1
         /\ \A i \in 1..Len(Tail(s)) : Tail(s)[i] = s[i + 1]
<1>1. Len(s) \in Nat /\ Len(s) > 0
  BY LenProperties, EmptySeq
<1>2. s[1] \in Piece
  BY <1>1, ElementOfSeq
<1> QED
  BY <1>1, <1>2, HeadTailProperties

(* What is left when the first piece has been read.                        *)
LEMMA Rest ==
  ASSUME NEW s \in Seq(Piece), s # <<>>, NEW inside \in BOOLEAN,
         Framed(s, inside), VerdictLast(s)
  PROVE  /\ Framed(Tail(s), s[1].data)
         /\ VerdictLast(Tail(s))
         /\ Ended(s) /\ Tail(s) # <<>> => Ended(Tail(s))
         /\ Tail(s) = <<>> /\ Ended(s) => s[1].code # "h"
         /\ s[1].data => Tail(s)[1].code = s[1].code
         /\ ~s[1].data /\ s[1].code # "h" => Tail(s) = <<>>
<1> DEFINE t == Tail(s)
           n == Len(s)
<1>1. /\ n \in Nat /\ n > 0 /\ t \in Seq(Piece) /\ Len(t) = n - 1
      /\ \A i \in 1..(n - 1) : t[i] = s[i + 1]
  <2>1. Len(t) = n - 1
    BY Popped
  <2> QED
    BY <2>1, Popped
<1>2. \A i \in 1..n : s[i] \in Piece
  BY ElementOfSeq
<1>3. s[1].data \in BOOLEAN /\ s[1].code \in Codes
  BY <1>1, <1>2 DEF Piece
<1>4. /\ \A i \in 1..n : s[i].data =>
           /\ s[i].code \in CodesWithData
           /\ i < n /\ IsData(s[i + 1]) /\ s[i + 1].code = s[i].code
      /\ \A i \in 1..n : IsData(s[i]) /\ i > 1 => s[i - 1].data
  BY DEF Framed
<1>5. \A i \in 1..n : s[i].code # "h" => i = n \/ (s[i].data /\ i = n - 1)
  BY DEF VerdictLast
<1> HIDE DEF t, n
<1>6. ASSUME NEW i \in 1..(n - 1), t[i].data
      PROVE  /\ t[i].code \in CodesWithData
             /\ i < n - 1 /\ IsData(t[i + 1]) /\ t[i + 1].code = t[i].code
  <2>1. i + 1 \in 1..n /\ t[i] = s[i + 1]
    BY <1>1
  <2>2. /\ s[i + 1].code \in CodesWithData
        /\ i + 1 < n /\ IsData(s[i + 1 + 1]) /\ s[i + 1 + 1].code = s[i + 1].code
    BY <1>4, <1>6, <2>1
  <2>3. i + 1 \in 1..(n - 1) /\ i < n - 1
    BY <1>1, <2>2
  <2>4. t[i + 1] = s[i + 1 + 1]
    BY <1>1, <2>3
  <2> QED
    BY <2>1, <2>2, <2>3, <2>4
<1>7. ASSUME NEW i \in 1..(n - 1), IsData(t[i]), i > 1 PROVE t[i - 1].data
  <2>1. i + 1 \in 1..n /\ i + 1 > 1 /\ i + 1 - 1 = i /\ t[i] = s[i + 1]
    BY <1>1
  <2>2. s[i].data
    BY <1>4, <1>7, <2>1
  <2>3. i - 1 \in 1..(n - 1) /\ i - 1 + 1 = i
    BY <1>1, <1>7
  <2>4. t[i - 1] = s[i]
    BY <1>1, <2>3
  <2> QED
    BY <2>2, <2>4
<1>8. s[1].data <=> n - 1 > 0 /\ IsData(t[1])
  <2>1. ASSUME s[1].data PROVE n - 1 > 0 /\ IsData(t[1])
    <3>1. 1 < n /\ IsData(s[1 + 1])
      BY <1>1, <1>4, <2>1
    <3> QED
      BY <1>1, <3>1
  <2>2. ASSUME n - 1 > 0, IsData(t[1]) PROVE s[1].data
    <3>1. 2 \in 1..n /\ 2 > 1 /\ 2 - 1 = 1 /\ 1 \in 1..(n - 1) /\ 1 + 1 = 2
      BY <1>1, <2>2
    <3>2. t[1] = s[2]
      BY <1>1, <3>1
    <3> QED
      BY <1>4, <2>2, <3>1, <3>2
  <2> QED
    BY <2>1, <2>2
<1>9. Framed(t, s[1].data)
  BY <1>1, <1>6, <1>7, <1>8 DEF Framed
<1>10. ASSUME NEW i \in 1..(n - 1), t[i].code # "h"
       PROVE  i = n - 1 \/ (t[i].data /\ i = n - 1 - 1)
  <2>1. i + 1 \in 1..n /\ t[i] = s[i + 1]
    BY <1>1
  <2>2. i + 1 = n \/ (s[i + 1].data /\ i + 1 = n - 1)
    BY <1>5, <1>10, <2>1
  <2> QED
    BY <1>1, <2>1, <2>2
<1>11. VerdictLast(t)
  BY <1>1, <1>10 DEF VerdictLast
<1>12. t # <<>> <=> n - 1 > 0
  BY <1>1, EmptySeq
<1>13. Ended(s) /\ t # <<>> => Ended(t)
  <2>1. t # <<>> => n - 1 \in 1..(n - 1) /\ t[n - 1] = s[n]
    BY <1>1, <1>12
  <2> QED
    BY <1>1, <1>12, <2>1 DEF Ended, n
<1>14. t = <<>> /\ Ended(s) => s[1].code # "h"
  <2>1. t = <<>> => n = 1
    BY <1>1, <1>12
  <2> QED
    BY <2>1 DEF Ended, n
<1>15. s[1].data => t[1].code = s[1].code
  <2>1. s[1].data => 1 < n /\ s[1 + 1].code = s[1].code
    BY <1>1, <1>4
  <2>2. 1 < n => 1 \in 1..(n - 1) /\ t[1] = s[1 + 1]
    BY <1>1
  <2> QED
    BY <2>1, <2>2
<1>16. ~s[1].data /\ s[1].code # "h" => t = <<>>
  BY <1>1, <1>5, <1>12
<1> QED
  BY <1>9, <1>11, <1>13, <1>14, <1>15, <1>16 DEF t

(* The filter says more, and has said changes only so far.                 *)
LEMMA Said ==
  ASSUME NEW s \in Seq(Piece), NEW x \in Seq(Piece), x # <<>>, NEW inside \in BOOLEAN,
         Framed(s, inside), \A i \in 1..Len(s) : s[i].code = "h",
         Framed(x, FALSE), VerdictLast(x)
  PROVE  /\ Framed(s \o x, inside) /\ VerdictLast(s \o x)
         /\ Ended(x) => Ended(s \o x)
<1> DEFINE m == Len(s)
           n == Len(x)
           r == s \o x
<1>1. /\ m \in Nat /\ n \in Nat /\ n > 0 /\ Len(r) = m + n
      /\ \A i \in 1..(m + n) : r[i] = IF i <= m THEN s[i] ELSE x[i - m]
  <2>1. m \in Nat /\ n \in Nat /\ n > 0
    BY LenProperties, EmptySeq
  <2> QED
    BY <2>1, ConcatProperties
<1>2. /\ \A i \in 1..m : s[i].data =>
           /\ s[i].code \in CodesWithData
           /\ i < m /\ IsData(s[i + 1]) /\ s[i + 1].code = s[i].code
      /\ \A i \in 1..m : IsData(s[i]) /\ i > 1 => s[i - 1].data
      /\ inside <=> m > 0 /\ IsData(s[1])
      /\ \A i \in 1..m : s[i].code = "h"
  BY DEF Framed
<1>3. /\ \A i \in 1..n : x[i].data =>
           /\ x[i].code \in CodesWithData
           /\ i < n /\ IsData(x[i + 1]) /\ x[i + 1].code = x[i].code
      /\ \A i \in 1..n : IsData(x[i]) /\ i > 1 => x[i - 1].data
      /\ ~IsData(x[1])
      /\ \A i \in 1..n : x[i].code # "h" => i = n \/ (x[i].data /\ i = n - 1)
  BY <1>1 DEF Framed, VerdictLast
<1> HIDE DEF m, n, r
<1>4. ASSUME NEW i \in 1..(m + n), r[i].data
      PROVE  /\ r[i].code \in CodesWithData
             /\ i < m + n /\ IsData(r[i + 1]) /\ r[i + 1].code = r[i].code
  <2>1. CASE i <= m
    <3>1. i \in 1..m /\ r[i] = s[i]
      BY <1>1, <2>1
    <3>2. i < m /\ s[i].code \in CodesWithData /\ IsData(s[i + 1]) /\ s[i + 1].code = s[i].code
      BY <1>2, <1>4, <3>1
    <3>3. i < m + n /\ i + 1 \in 1..(m + n) /\ i + 1 <= m
      BY <1>1, <3>1, <3>2
    <3>4. r[i + 1] = s[i + 1]
      BY <1>1, <3>3
    <3> QED
      BY <3>1, <3>2, <3>3, <3>4
  <2>2. CASE ~(i <= m)
    <3>1. i - m \in 1..n /\ r[i] = x[i - m]
      BY <1>1, <2>2
    <3>2. /\ i - m < n /\ x[i - m].code \in CodesWithData
          /\ IsData(x[i - m + 1]) /\ x[i - m + 1].code = x[i - m].code
      BY <1>3, <1>4, <3>1
    <3>3. i < m + n /\ i + 1 \in 1..(m + n) /\ ~(i + 1 <= m) /\ i + 1 - m = i - m + 1
      BY <1>1, <2>2, <3>2
    <3>4. r[i + 1] = x[i - m + 1]
      BY <1>1, <3>3
    <3> QED
      BY <3>1, <3>2, <3>3, <3>4
  <2> QED
    BY <2>1, <2>2
<1>5. ASSUME NEW i \in 1..(m + n), IsData(r[i]), i > 1 PROVE r[i - 1].data
  <2>1. CASE i <= m
    <3>1. i \in 1..m /\ r[i] = s[i] /\ i - 1 \in 1..(m + n) /\ i - 1 <= m
      BY <1>1, <1>5, <2>1
    <3>2. r[i - 1] = s[i - 1]
      BY <1>1, <3>1
    <3> QED
      BY <1>2, <1>5, <3>1, <3>2
  <2>2. CASE ~(i <= m)
    <3>1. i - m \in 1..n /\ r[i] = x[i - m]
      BY <1>1, <2>2
    <3>2. i - m # 1
      BY <1>3, <1>5, <3>1
    <3>3. i - m > 1 /\ i - 1 \in 1..(m + n) /\ ~(i - 1 <= m) /\ i - 1 - m = i - m - 1
      BY <1>1, <2>2, <3>1, <3>2
    <3>4. r[i - 1] = x[i - m - 1]
      BY <1>1, <3>3
    <3> QED
      BY <1>3, <1>5, <3>1, <3>3, <3>4
  <2> QED
    BY <2>1, <2>2
<1>6. inside <=> m + n > 0 /\ IsData(r[1])
  <2>1. m + n > 0 /\ 1 \in 1..(m + n)
    BY <1>1
  <2>2. CASE m > 0
    <3>1. r[1] = s[1]
      BY <1>1, <2>1, <2>2
    <3> QED
      BY <1>2, <2>1, <2>2, <3>1
  <2>3. CASE ~(m > 0)
    <3>1. r[1] = x[1]
      BY <1>1, <2>1, <2>3
    <3> QED
      BY <1>2, <1>3, <2>3, <3>1
  <2> QED
    BY <2>2, <2>3
<1>7. Framed(r, inside)
  BY <1>1, <1>4, <1>5, <1>6 DEF Framed
<1>8. ASSUME NEW i \in 1..(m + n), r[i].code # "h"
      PROVE  i = m + n \/ (r[i].data /\ i = m + n - 1)
  <2>1. ~(i <= m)
    BY <1>1, <1>2, <1>8
  <2>2. i - m \in 1..n /\ r[i] = x[i - m]
    BY <1>1, <2>1
  <2>3. i - m = n \/ (x[i - m].data /\ i - m = n - 1)
    BY <1>3, <1>8, <2>2
  <2> QED
    BY <1>1, <2>2, <2>3
<1>9. VerdictLast(r)
  <2> SUFFICES ASSUME NEW i \in 1..Len(r), r[i].code # "h"
               PROVE  i = Len(r) \/ (r[i].data /\ i = Len(r) - 1)
    BY DEF VerdictLast
  <2>1. i \in 1..(m + n)
    BY <1>1
  <2>2. i = m + n \/ (r[i].data /\ i = m + n - 1)
    BY <1>8, <2>1
  <2> QED
    BY <1>1, <2>2
<1>10. Ended(x) => Ended(r)
  <2>1. m + n \in 1..(m + n) /\ ~(m + n <= m) /\ m + n - m = n /\ m + n > 0
    BY <1>1
  <2>2. r[m + n] = x[n]
    BY <1>1, <2>1
  <2> QED
    BY <1>1, <2>1, <2>2 DEF Ended, n
<1> QED
  BY <1>7, <1>9, <1>10 DEF r

LEMMA TwoPieces == ASSUME NEW p, NEW d PROVE <<p>> \o <<d>> = <<p, d>>
<1> DEFINE S == {p, d}
           r == <<p>> \o <<d>>
<1>1. <<p>> \in Seq(S) /\ <<d>> \in Seq(S) /\ <<p, d>> \in Seq(S)
  OBVIOUS
<1>2. Len(<<p>>) = 1 /\ Len(<<d>>) = 1 /\ Len(<<p, d>>) = 2
  OBVIOUS
<1>3. /\ r \in Seq(S) /\ Len(r) = 2
      /\ \A i \in 1..2 : r[i] = IF i <= 1 THEN <<p>>[i] ELSE <<d>>[i - 1]
  BY <1>1, <1>2, ConcatProperties
<1>4. r[1] = p /\ r[2] = d
  BY <1>3
<1>5. \A i \in 1..Len(r) : r[i] = <<p, d>>[i]
  BY <1>3, <1>4
<1> QED
  BY <1>1, <1>2, <1>3, <1>5, SeqEqual

(* A whole reply is framed.                                                *)
LEMMA OneReply ==
  ASSUME NEW code \in Codes, NEW flags \in FlagSets \cup {Nil},
         owed \in Commands \X Nat
  PROVE  LET x == Pieces(code, flags) IN
         /\ x \in Seq(Piece) /\ x # <<>> /\ Framed(x, FALSE) /\ VerdictLast(x)
         /\ \A i \in 1..Len(x) : x[i].code = code /\ x[i].to = owed
         /\ code # "h" => Ended(x)
<1> DEFINE hasData == code \in {"y", "h", "O"}
           p == [code |-> code, to |-> owed, data |-> hasData, flags |-> Nil]
           d == [code |-> code, to |-> owed, data |-> FALSE, flags |-> flags]
           x == Pieces(code, flags)
<1>1. p \in Piece /\ d \in Piece
  BY DEF Piece
<1>2. CASE hasData
  <2>1. x = <<p, d>>
    <3>1. x = <<p>> \o <<d>>
      BY <1>2, Zenon DEF Pieces, CodesWithData
    <3> HIDE DEF p, d
    <3>2. <<p>> \o <<d>> = <<p, d>>
      BY TwoPieces
    <3> QED
      BY <3>1, <3>2
  <2>2. p.code = code /\ d.code = code /\ p.to = owed /\ d.to = owed
    OBVIOUS
  <2>3. p.data /\ ~d.data
    BY <1>2
  <2> HIDE DEF p, d, x
  <2>4. Len(x) = 2 /\ x[1] = p /\ x[2] = d /\ x \in Seq(Piece) /\ x # <<>>
    BY <1>1, <2>1
  <2>5. code \in CodesWithData
    BY <1>2 DEF CodesWithData
  <2>6. IsData(d) /\ ~IsData(p)
    BY <2>2, <2>3, <2>5 DEF IsData
  <2>7. \A i \in 1..2 : i = 1 \/ i = 2
    OBVIOUS
  <2>8. Framed(x, FALSE)
    BY <2>2, <2>3, <2>4, <2>5, <2>6, <2>7 DEF Framed
  <2>9. VerdictLast(x)
    BY <2>3, <2>4, <2>7 DEF VerdictLast
  <2>10. \A i \in 1..Len(x) : x[i].code = code /\ x[i].to = owed
    BY <2>2, <2>4, <2>7
  <2>11. code # "h" => Ended(x)
    BY <2>2, <2>4 DEF Ended
  <2> QED
    BY <2>4, <2>8, <2>9, <2>10, <2>11 DEF x
<1>3. CASE ~hasData
  <2>1. x = <<p>>
    BY <1>3 DEF Pieces, CodesWithData
  <2>2. p.code = code /\ p.to = owed /\ ~p.data
    BY <1>3
  <2>3. code \notin CodesWithData
    BY <1>3 DEF CodesWithData
  <2> HIDE DEF p, d, x
  <2>4. Len(x) = 1 /\ x[1] = p /\ x \in Seq(Piece) /\ x # <<>>
    BY <1>1, <2>1
  <2>5. ~IsData(p)
    BY <2>2, <2>3 DEF IsData
  <2>6. \A i \in 1..1 : i = 1
    OBVIOUS
  <2>7. Framed(x, FALSE)
    BY <2>2, <2>4, <2>5, <2>6 DEF Framed
  <2>8. VerdictLast(x)
    BY <2>4, <2>6 DEF VerdictLast
  <2>9. \A i \in 1..Len(x) : x[i].code = code /\ x[i].to = owed
    BY <2>2, <2>4, <2>6
  <2>10. code # "h" => Ended(x)
    BY <2>2, <2>4 DEF Ended
  <2> QED
    BY <2>4, <2>7, <2>8, <2>9, <2>10 DEF x
<1> QED
  BY <1>2, <1>3

-----------------------------------------------------------------------------
(* The stream and the packets.                                             *)

LEMMA EmptyConcat == <<>> \o <<>> = <<>>
BY ConcatEmptySeq, EmptySeq

LEMMA StreamIsSeq == TypeInv => Stream \in Seq(Piece)
BY ConcatProperties DEF TypeInv, Stream

LEMMA StreamEmpty ==
  ASSUME TypeInv PROVE Stream = <<>> <=> pipe = <<>> /\ sent = <<>>
<1>1. /\ Len(pipe) \in Nat /\ Len(sent) \in Nat
      /\ Len(Stream) = Len(pipe) + Len(sent)
  BY LenProperties, ConcatProperties DEF TypeInv, Stream
<1>2. /\ Stream = <<>> <=> Len(Stream) = 0
      /\ pipe = <<>> <=> Len(pipe) = 0
      /\ sent = <<>> <=> Len(sent) = 0
  BY StreamIsSeq, EmptySeq DEF TypeInv
<1> QED
  BY <1>1, <1>2

(* A read takes the first piece of the stream.                             *)
LEMMA StreamHead ==
  ASSUME TypeInv, pipe # <<>>
  PROVE  /\ Stream # <<>> /\ Stream[1] = Head(pipe) /\ Head(pipe) \in Piece
         /\ Tail(pipe) \o sent = Tail(Stream)
<1>1. pipe \in Seq(Piece) /\ sent \in Seq(Piece) /\ Stream \in Seq(Piece)
  BY StreamIsSeq DEF TypeInv
<1>2. /\ Len(pipe) \in Nat /\ Len(pipe) > 0 /\ pipe[1] = Head(pipe) /\ pipe[1] \in Piece
      /\ Tail(pipe) \in Seq(Piece) /\ Len(Tail(pipe)) = Len(pipe) - 1
      /\ \A i \in 1..Len(Tail(pipe)) : Tail(pipe)[i] = pipe[i + 1]
  BY <1>1, Popped
<1>3. /\ Len(sent) \in Nat /\ Len(Stream) = Len(pipe) + Len(sent)
      /\ \A i \in 1..(Len(pipe) + Len(sent)) :
           Stream[i] = IF i <= Len(pipe) THEN pipe[i] ELSE sent[i - Len(pipe)]
  BY <1>1, LenProperties, ConcatProperties DEF Stream
<1>4. Stream # <<>>
  BY <1>2, StreamEmpty
<1>5. Stream[1] = pipe[1]
  BY <1>2, <1>3
<1>6. /\ Tail(Stream) \in Seq(Piece) /\ Len(Tail(Stream)) = Len(Stream) - 1
      /\ \A i \in 1..Len(Tail(Stream)) : Tail(Stream)[i] = Stream[i + 1]
  BY <1>1, <1>4, Popped
<1> DEFINE r == Tail(pipe) \o sent
<1>7. /\ r \in Seq(Piece) /\ Len(r) = Len(pipe) - 1 + Len(sent)
      /\ \A i \in 1..(Len(pipe) - 1 + Len(sent)) :
           r[i] = IF i <= Len(pipe) - 1 THEN Tail(pipe)[i] ELSE sent[i - (Len(pipe) - 1)]
  BY <1>1, <1>2, ConcatProperties
<1> HIDE DEF r
<1>8. Len(r) = Len(Tail(Stream))
  BY <1>2, <1>3, <1>6, <1>7
<1>9. ASSUME NEW i \in 1..Len(r) PROVE r[i] = Tail(Stream)[i]
  <2>1. /\ i \in 1..(Len(pipe) - 1 + Len(sent)) /\ i \in 1..Len(Tail(Stream))
        /\ i + 1 \in 1..(Len(pipe) + Len(sent))
        /\ i - (Len(pipe) - 1) = i + 1 - Len(pipe)
        /\ i + 1 <= Len(pipe) <=> i <= Len(pipe) - 1
    BY <1>2, <1>3, <1>7, <1>8
  <2>2. Tail(Stream)[i] = IF i + 1 <= Len(pipe) THEN pipe[i + 1] ELSE sent[i + 1 - Len(pipe)]
    BY <1>3, <1>6, <2>1
  <2>3. i <= Len(pipe) - 1 => Tail(pipe)[i] = pipe[i + 1]
    BY <1>2, <2>1
  <2> QED
    BY <1>7, <2>1, <2>2, <2>3
<1>10. r = Tail(Stream)
  BY <1>6, <1>7, <1>8, <1>9, SeqEqual
<1> QED
  BY <1>2, <1>4, <1>5, <1>10 DEF r

(* What was sent arrives: the stream is the same.                          *)
LEMMA StreamMoves ==
  ASSUME TypeInv, sent # <<>>
  PROVE  /\ Append(pipe, Head(sent)) \in Seq(Piece) /\ Tail(sent) \in Seq(Piece)
         /\ Append(pipe, Head(sent)) \o Tail(sent) = Stream
<1>1. pipe \in Seq(Piece) /\ sent \in Seq(Piece) /\ Stream \in Seq(Piece)
  BY StreamIsSeq DEF TypeInv
<1>2. /\ Len(sent) \in Nat /\ Len(sent) > 0 /\ sent[1] = Head(sent) /\ sent[1] \in Piece
      /\ Tail(sent) \in Seq(Piece) /\ Len(Tail(sent)) = Len(sent) - 1
      /\ \A i \in 1..Len(Tail(sent)) : Tail(sent)[i] = sent[i + 1]
  BY <1>1, Popped
<1>3. /\ Len(pipe) \in Nat /\ Len(Stream) = Len(pipe) + Len(sent)
      /\ \A i \in 1..(Len(pipe) + Len(sent)) :
           Stream[i] = IF i <= Len(pipe) THEN pipe[i] ELSE sent[i - Len(pipe)]
  BY <1>1, LenProperties, ConcatProperties DEF Stream
<1> DEFINE p == Append(pipe, Head(sent))
           r == p \o Tail(sent)
<1>4. /\ p \in Seq(Piece) /\ Len(p) = Len(pipe) + 1
      /\ \A i \in 1..Len(pipe) : p[i] = pipe[i]
      /\ p[Len(pipe) + 1] = sent[1]
  BY <1>1, <1>2, AppendProperties
<1> HIDE DEF p
<1>5. /\ r \in Seq(Piece) /\ Len(r) = Len(p) + (Len(sent) - 1)
      /\ \A i \in 1..(Len(p) + (Len(sent) - 1)) :
           r[i] = IF i <= Len(p) THEN p[i] ELSE Tail(sent)[i - Len(p)]
  BY <1>2, <1>4, ConcatProperties
<1> HIDE DEF r
<1>6. Len(r) = Len(Stream)
  BY <1>2, <1>3, <1>4, <1>5
<1>7. ASSUME NEW i \in 1..Len(r) PROVE r[i] = Stream[i]
  <2>1. i \in 1..(Len(pipe) + Len(sent)) /\ i \in 1..(Len(p) + (Len(sent) - 1))
    BY <1>3, <1>5, <1>6
  <2>2. CASE i <= Len(pipe)
    BY <1>3, <1>4, <1>5, <2>1, <2>2
  <2>3. CASE i = Len(pipe) + 1
    <3>1. i <= Len(p) /\ ~(i <= Len(pipe)) /\ i - Len(pipe) = 1
      BY <1>3, <1>4, <2>3
    <3> QED
      BY <1>3, <1>4, <1>5, <2>1, <2>3, <3>1
  <2>4. CASE i > Len(pipe) + 1
    <3>1. /\ ~(i <= Len(p)) /\ ~(i <= Len(pipe))
          /\ i - Len(p) \in 1..(Len(sent) - 1) /\ i - Len(p) + 1 = i - Len(pipe)
      BY <1>2, <1>3, <1>4, <2>1, <2>4
    <3>2. Tail(sent)[i - Len(p)] = sent[i - Len(pipe)]
      BY <1>2, <3>1
    <3> QED
      BY <1>3, <1>5, <2>1, <3>1, <3>2
  <2> QED
    BY <1>3, <2>1, <2>2, <2>3, <2>4
<1>8. r = Stream
  BY <1>1, <1>5, <1>6, <1>7, SeqEqual
<1> QED
  BY <1>2, <1>4, <1>8 DEF p, r

LEMMA PacketsType ==
  ASSUME NEW c \in Commands
  PROVE  /\ Packets(c) \in Seq(Commands \cup {"D"}) /\ Packets(c) # <<>>
         /\ Last(Packets(c)) = c
<1> DEFINE S == Commands \cup {"D"}
<1>1. <<"D", c>> \in Seq(S) /\ <<"D", c>> # <<>> /\ Last(<<"D", c>>) = c
  BY DEF Last
<1>2. <<c>> \in Seq(S) /\ <<c>> # <<>> /\ Last(<<c>>) = c
  BY DEF Last
<1> QED
  BY <1>1, <1>2 DEF Packets

-----------------------------------------------------------------------------
(* The steps.                                                              *)

LEMMA MilterInvInit == Init => MilterInv
<1> SUFFICES ASSUME Init PROVE MilterInv
  OBVIOUS
<1>1. Stream = <<>>
  BY EmptyConcat DEF Init, Stream
<1>2. TypeInv
  <2>1. TypeOK
    <3>1. cut \in BOOLEAN
      BY DEF Init
    <3> QED
      BY <3>1, MilterAssumption DEF Init, TypeOK
  <2>2. reply \in [code : {"0"} \cup Codes, to : {Nil} \cup (Commands \X Nat)]
    BY DEF Init
  <2>3. /\ pipe \in Seq(Piece) /\ sent \in Seq(Piece)
        /\ last \in Seq(Commands \cup {"D"})
    BY EmptySeq DEF Init
  <2> QED
    BY <2>1, <2>2, <2>3 DEF Init, TypeInv
<1>3. Len(Stream) = 0
  BY <1>1
<1>4. OneAtATime
  BY <1>1, <1>3 DEF Init, OneAtATime
<1>5. Whole
  BY <1>3 DEF Init, Whole, Framed, VerdictLast
<1>6. WillEnd
  BY MilterAssumption DEF Init, WillEnd, MidChanges
<1>7. LastIsCall
  BY DEF Init, LastIsCall
<1> QED
  BY <1>2, <1>4, <1>5, <1>6, <1>7 DEF Init, MilterInv, InData, ReplyIsOwn

LEMMA InCommands == {"O", "C", "H", "M", "R", "L", "N", "B", "E", "A", "Q"} \subseteq Commands
<1>1. DOMAIN Stages = 1..9
  BY DEF Stages
<1>2. /\ Stages[1] = "O" /\ Stages[2] = "C" /\ Stages[3] = "H" /\ Stages[4] = "M"
      /\ Stages[5] = "R" /\ Stages[6] = "L" /\ Stages[7] = "N" /\ Stages[8] = "B"
      /\ Stages[9] = "E"
  BY DEF Stages
<1>3. \A i \in 1..9 : Stages[i] \in Commands
  BY <1>1 DEF Commands, ToSet
<1>4. 1 \in 1..9 /\ 2 \in 1..9 /\ 3 \in 1..9 /\ 4 \in 1..9 /\ 5 \in 1..9
      /\ 6 \in 1..9 /\ 7 \in 1..9 /\ 8 \in 1..9 /\ 9 \in 1..9
  OBVIOUS
<1>5. {"O", "C", "H", "M", "R", "L", "N", "B", "E"} \subseteq Commands
  BY <1>2, <1>3, <1>4
<1>6. "A" \in Commands /\ "Q" \in Commands
  BY DEF Commands
<1> QED
  BY <1>5, <1>6

(* A call begins when the one before is done with.                         *)
LEMMA MayCallQuiet ==
  ASSUME MilterInv, NEW c \in Commands, MayCall(c)
  PROVE  /\ at = "back" /\ open /\ ~MidChanges
         /\ Stream = <<>> /\ owed = Nil /\ pipe = <<>> /\ sent = <<>>
         /\ Mails(c) \in 0..MaxMails
<1>1. at = "back" /\ open
  BY DEF MayCall
<1>2. ~MidChanges
  <2> SUFFICES ASSUME call = "E", reply.code = "h" PROVE FALSE
    BY DEF MidChanges
  <2>1. ~MidMail /\ ~Decided /\ ~MailDone
    BY DEF MidMail, Decided, MailDone
  <2>2. call # Nil
    BY InCommands, MilterAssumption
  <2> QED
    BY <2>1, <2>2 DEF MayCall
<1>3. Stream = <<>> /\ owed = Nil
  BY <1>1, <1>2 DEF MilterInv, OneAtATime
<1>4. Mails(c) \in 0..MaxMails
  <2>1. mails \in 0..MaxMails /\ (c = "M" => mails < MaxMails)
    BY DEF MayCall, MilterInv, TypeInv, TypeOK
  <2> QED
    BY <2>1, MilterAssumption DEF Mails
<1> QED
  BY <1>1, <1>2, <1>3, <1>4, StreamEmpty DEF MilterInv

LEMMA EmptyStreamKeeps ==
  ASSUME Stream' = <<>>, at' \in {"back", "prefix", "undefined"}
  PROVE  /\ Len(Stream') = 0 /\ Whole'
         /\ ~Ended(Stream)'
<1>1. Len(Stream') = 0
  OBVIOUS
<1> QED
  BY <1>1 DEF Whole, Framed, VerdictLast, Ended

LEMMA SkipKeeps ==
  ASSUME MilterInv, NEW c \in Commands, CallSkipped(c) PROVE MilterInv'
<1>1. /\ at = "back" /\ open /\ Stream = <<>> /\ owed = Nil
      /\ Mails(c) \in 0..MaxMails
  BY MayCallQuiet DEF CallSkipped
<1>2. /\ call' = c /\ mails' = Mails(c) /\ reply' = Continue /\ Skipped(c)
      /\ UNCHANGED <<proto, at, asks, quit, owed, changes, pipe, sent, open, last, cut>>
  BY DEF CallSkipped, filterVars, history
<1>3. Stream' = <<>>
  BY <1>1, <1>2 DEF Stream
<1>4. call # Nil
  BY <1>2 DEF CallSkipped, MayCall, MilterInv, LastIsCall, Skipped
<1>5. c # Last(last) /\ c # Nil
  BY <1>1, <1>2, <1>4, MilterAssumption DEF MilterInv, LastIsCall
<1>6. reply'.code = "c" /\ reply'.to = Nil
  BY <1>2 DEF Continue
<1>7. TypeInv'
  <2>1. reply' \in [code : {"0"} \cup Codes, to : {Nil} \cup (Commands \X Nat)]
    BY <1>2 DEF Continue, Codes
  <2>2. TypeOK'
    BY <1>1, <1>2, <1>6 DEF MilterInv, TypeInv, TypeOK
  <2> QED
    BY <1>2, <2>1, <2>2 DEF MilterInv, TypeInv
<1>8. OneAtATime'
  <2>1. Len(Stream') = 0
    BY <1>3
  <2> QED
    BY <1>1, <1>2, <1>3, <2>1 DEF OneAtATime
<1>9. Whole'
  BY <1>1, <1>2, <1>3, EmptyStreamKeeps
<1>10. WillEnd' /\ InData'
  BY <1>1, <1>2, <1>6 DEF WillEnd, InData, MidChanges
<1>11. LastIsCall'
  BY <1>1, <1>2, <1>4, <1>5 DEF MilterInv, LastIsCall, Skipped
<1>12. ReplyIsOwn'
  <2>1. pipe = <<>> /\ sent = <<>>
    BY <1>1, StreamEmpty DEF MilterInv
  <2> QED
    BY <1>2, <1>5, <1>6, <2>1 DEF ReplyIsOwn
<1> QED
  BY <1>7, <1>8, <1>9, <1>10, <1>11, <1>12 DEF MilterInv

LEMMA CallSentKeeps ==
  ASSUME MilterInv, NEW c \in Commands, CallSent(c) PROVE MilterInv'
<1>1. /\ at = "back" /\ open /\ Stream = <<>> /\ owed = Nil
      /\ pipe = <<>> /\ sent = <<>> /\ Mails(c) \in 0..MaxMails
  BY MayCallQuiet DEF CallSent
<1>2. /\ call' = c /\ mails' = Mails(c) /\ ~Skipped(c) /\ changes' = 0
      /\ owed' = (IF quit \/ c \in {"A", "Q"} THEN Nil ELSE <<c, mails'>>)
      /\ c \notin {"A", "Q"} => at' = "prefix" /\ reply' = Continue
      /\ c \in {"A", "Q"} => at' = at /\ reply' = reply
      /\ open' = (c # "Q")
      /\ UNCHANGED <<proto, asks, quit, pipe, sent, cut>>
  BY DEF CallSent, Answered, Tell
<1>3. Stream' = <<>> /\ Len(Stream') = 0
  BY <1>1, <1>2 DEF Stream
<1>4. last' \in Seq(Commands \cup {"D"}) /\ last' # <<>> /\ Last(last') = c
  <2>1. Tell(Packets(c)) /\ last \in Seq(Commands \cup {"D"})
    BY DEF CallSent, MilterInv, TypeInv
  <2> QED
    BY <2>1, PacketsType DEF Tell
<1>5. c # Nil /\ <<c, mails'>> # Nil /\ mails' \in Nat
  BY <1>1, <1>2, MilterAssumption
<1>6. TypeInv'
  <2>1. reply' \in [code : {"0"} \cup Codes, to : {Nil} \cup (Commands \X Nat)]
    BY <1>2 DEF Continue, Codes, MilterInv, TypeInv
  <2>2. at' \in {"back", "prefix"}
    BY <1>1, <1>2
  <2>3. reply'.code \in {"0", "O", "c", "a", "y", "h"}
    BY <1>2 DEF Continue, MilterInv, TypeInv, TypeOK
  <2>4. changes' \in 0..MaxChanges
    BY <1>2, MilterAssumption
  <2>5. TypeOK'
    BY <1>1, <1>2, <2>2, <2>3, <2>4 DEF MilterInv, TypeInv, TypeOK
  <2> QED
    BY <1>2, <1>4, <2>1, <2>5 DEF MilterInv, TypeInv
<1>7. OneAtATime'
  <2>1. /\ ~open' => at' = "back" /\ owed' = Nil
        /\ at' = "back" => owed' = Nil
        /\ owed' # Nil => owed' = <<call', mails'>>
    BY <1>1, <1>2
  <2>2. \A i \in 1..Len(Stream') : FALSE
    BY <1>3
  <2> QED
    BY <1>3, <2>1, <2>2 DEF OneAtATime
<1>8. Whole'
  BY <1>1, <1>2, <1>3, EmptyStreamKeeps
<1>9. WillEnd' /\ InData'
  BY <1>1, <1>2, <1>5 DEF WillEnd, InData, MidChanges
<1>10. LastIsCall'
  BY <1>1, <1>2, <1>4, <1>5 DEF MilterInv, LastIsCall, Skipped
<1>11. ReplyIsOwn'
  BY <1>1, <1>2 DEF ReplyIsOwn
<1> QED
  BY <1>6, <1>7, <1>8, <1>9, <1>10, <1>11 DEF MilterInv

(* The connection is closed.                                               *)
LEMMA Failing ==
  ASSUME MilterInv, Fail, UNCHANGED <<reply, cut>>, last' \in Seq(Commands \cup {"D"})
  PROVE  MilterInv'
<1>1. /\ at' = "back" /\ open' = FALSE /\ pipe' = <<>> /\ sent' = <<>> /\ owed' = Nil
      /\ UNCHANGED <<proto, call, mails, asks, quit, changes>>
  BY DEF Fail
<1>2. Stream' = <<>> /\ Len(Stream') = 0
  BY <1>1, EmptyConcat DEF Stream
<1>3. TypeInv'
  <2>1. TypeOK'
    BY <1>1 DEF MilterInv, TypeInv, TypeOK
  <2>2. pipe' \in Seq(Piece) /\ sent' \in Seq(Piece)
    BY <1>1, EmptySeq
  <2> QED
    BY <1>1, <2>1, <2>2 DEF MilterInv, TypeInv
<1>4. OneAtATime'
  BY <1>1, <1>2 DEF OneAtATime
<1>5. Whole'
  BY <1>1, <1>2, EmptyStreamKeeps
<1>6. WillEnd' /\ InData'
  BY <1>1 DEF WillEnd, InData
<1>7. LastIsCall'
  BY <1>1 DEF MilterInv, LastIsCall
<1> QED
  BY <1>1, <1>3, <1>4, <1>5, <1>6, <1>7 DEF MilterInv, ReplyIsOwn

LEMMA CallFailsKeeps ==
  ASSUME MilterInv, NEW c \in Commands, CallFails(c) PROVE MilterInv'
<1>1. last \in Seq(Commands \cup {"D"})
  BY DEF MilterInv, TypeInv
<1>2. last' \in Seq(Commands \cup {"D"})
  <2>1. <<"D">> \in Seq(Commands \cup {"D"})
    OBVIOUS
  <2> QED
    BY <1>1, <2>1 DEF CallFails, Tell, history
<1> QED
  BY <1>2, Failing DEF CallFails, Tell, history

LEMMA ReadFailsKeeps == ASSUME MilterInv, ReadFails PROVE MilterInv'
BY Failing DEF ReadFails, MilterInv, TypeInv, history

LEMMA NoPieces ==
  ASSUME NEW p \in Seq(Piece), NEW s \in Seq(Piece), p \o s = <<>>
  PROVE  p = <<>> /\ s = <<>>
<1>1. /\ Len(p) \in Nat /\ Len(s) \in Nat
      /\ Len(p \o s) = Len(p) + Len(s)
  BY LenProperties, ConcatProperties
<1>2. Len(p \o s) = 0
  BY EmptySeq
<1>3. Len(p) = 0 /\ Len(s) = 0
  BY <1>1, <1>2
<1> QED
  BY <1>3, EmptySeq

LEMMA ReadPrefixKeeps == ASSUME MilterInv, ReadPrefix PROVE MilterInv'
<1> DEFINE p == Head(pipe)
<1>1. /\ at = "prefix" /\ pipe # <<>> /\ pipe' = Tail(pipe)
      /\ reply' = [code |-> p.code, to |-> p.to]
      /\ p.data => at' = "data" /\ proto' = proto
      /\ ~p.data => at' = "back" /\ proto' = proto
      /\ UNCHANGED <<call, mails, asks, quit, owed, changes, sent, open, last, cut>>
  BY DEF ReadPrefix, Return, filterVars, history
<1>2. /\ Stream \in Seq(Piece) /\ Stream # <<>> /\ Stream[1] = p /\ p \in Piece
      /\ Stream' = Tail(Stream)
  <2>1. /\ Stream # <<>> /\ Stream[1] = p /\ p \in Piece
        /\ Tail(pipe) \o sent = Tail(Stream)
    BY <1>1, StreamHead DEF MilterInv
  <2>2. Stream' = Tail(pipe) \o sent
    BY <1>1 DEF Stream
  <2> QED
    BY <2>1, <2>2, StreamIsSeq DEF MilterInv
<1>3. /\ Len(Stream) \in Nat /\ Len(Stream) > 0
      /\ Tail(Stream) \in Seq(Piece) /\ Len(Tail(Stream)) = Len(Stream) - 1
      /\ \A i \in 1..Len(Tail(Stream)) : Tail(Stream)[i] = Stream[i + 1]
  BY <1>2, Popped
<1>4. Framed(Stream, FALSE) /\ VerdictLast(Stream)
  BY <1>1 DEF MilterInv, Whole
<1>5. /\ Framed(Tail(Stream), p.data) /\ VerdictLast(Tail(Stream))
      /\ Ended(Stream) /\ Tail(Stream) # <<>> => Ended(Tail(Stream))
      /\ p.data => Tail(Stream)[1].code = p.code
      /\ ~p.data /\ p.code # "h" => Tail(Stream) = <<>>
  BY <1>2, <1>4, Rest
<1>6. p.data \in BOOLEAN /\ p.code \in Codes
  BY <1>2 DEF Piece
<1>7. /\ p.data => p.code \in CodesWithData
      /\ ~p.data => p.code \notin CodesWithData /\ p.code # "h" /\ Tail(Stream) = <<>>
  <2>1. p.data => p.code \in CodesWithData
    <3>1. 1 \in 1..Len(Stream)
      BY <1>3
    <3> QED
      BY <1>2, <1>4, <3>1 DEF Framed
  <2>2. ~IsData(p)
    BY <1>2, <1>3, <1>4 DEF Framed
  <2> QED
    BY <1>5, <2>1, <2>2 DEF IsData, CodesWithData
<1>8. 1 \in 1..Len(Stream) /\ p.to = <<call, mails>> /\ (p.code = "h" => call = "E")
  BY <1>2, <1>3 DEF MilterInv, OneAtATime
<1>9. owed # Nil => p.code = "h" /\ \A i \in 1..Len(Tail(Stream)) : Tail(Stream)[i].code = "h"
  <2>1. owed # Nil => \A i \in 1..Len(Stream) : Stream[i].code = "h"
    BY DEF MilterInv, OneAtATime
  <2>2. \A i \in 1..Len(Tail(Stream)) : i + 1 \in 1..Len(Stream)
    BY <1>3
  <2> QED
    BY <1>2, <1>3, <1>8, <2>1, <2>2
<1>10. /\ call \in Commands /\ call \notin {Nil, "A", "Q"} /\ call = Last(last)
       /\ <<call, mails>> \in Commands \X Nat /\ open /\ mails \in Nat
  <2>1. call \in Commands /\ call \notin {Nil, "A", "Q"} /\ call = Last(last)
    BY <1>1 DEF MilterInv, LastIsCall, TypeInv, TypeOK
  <2>2. open
    BY <1>1 DEF MilterInv, OneAtATime
  <2>3. mails \in Nat
    BY MilterAssumption DEF MilterInv, TypeInv, TypeOK
  <2> QED
    BY <2>1, <2>2, <2>3
<1>11. TypeInv'
  <2>1. reply' \in [code : {"0"} \cup Codes, to : {Nil} \cup (Commands \X Nat)]
    BY <1>1, <1>6, <1>8, <1>10
  <2>2. reply'.code = p.code
    BY <1>1
  <2>3. at' = "data" => reply'.code \in {"O", "y", "h"}
    BY <1>1, <1>6, <1>7, <2>2 DEF CodesWithData
  <2>4. reply'.code \in {"0", "O", "c", "a", "y", "h"}
    BY <1>6, <2>2 DEF Codes
  <2>5. at' \in {"back", "data"} /\ proto' = proto
    BY <1>1, <1>6
  <2>6. TypeOK'
    BY <1>1, <2>3, <2>4, <2>5 DEF MilterInv, TypeInv, TypeOK
  <2>7. pipe' \in Seq(Piece)
    BY <1>1, Popped DEF MilterInv, TypeInv
  <2> QED
    BY <1>1, <2>1, <2>6, <2>7 DEF MilterInv, TypeInv
<1>12. OneAtATime'
  <2>1. open' /\ (owed' # Nil => owed' = <<call', mails'>>)
    BY <1>1, <1>10 DEF MilterInv, OneAtATime
  <2>2. at' = "back" => Stream' = <<>> /\ owed' = Nil
    BY <1>1, <1>2, <1>6, <1>7, <1>9
  <2>3. \A i \in 1..Len(Tail(Stream)) :
          /\ Tail(Stream)[i].to = <<call, mails>>
          /\ Tail(Stream)[i].code = "h" => call = "E"
    <3>1. \A i \in 1..Len(Tail(Stream)) : i + 1 \in 1..Len(Stream)
      BY <1>3
    <3> QED
      BY <1>3, <3>1 DEF MilterInv, OneAtATime
  <2> QED
    BY <1>1, <1>2, <1>9, <2>1, <2>2, <2>3 DEF OneAtATime
<1>13. Whole'
  <2>1. (at' = "data") = p.data
    BY <1>1, <1>6
  <2> QED
    BY <1>2, <1>5, <2>1 DEF Whole
<1>14. WillEnd'
  <2>1. owed # Nil \/ quit \/ Ended(Stream)
    BY <1>1 DEF MilterInv, WillEnd
  <2>2. CASE p.data
    <3>1. Tail(Stream) # <<>>
      <4>1. Len(Tail(Stream)) > 0
        BY <1>5, <2>2 DEF Framed
      <4> QED
        BY <4>1
    <3>2. Ended(Stream) => Ended(Stream)'
      BY <1>2, <1>5, <3>1 DEF Ended
    <3> QED
      BY <1>1, <2>1, <3>2 DEF WillEnd
  <2>3. CASE ~p.data
    <3>1. reply'.code # "h" /\ at' = "back"
      BY <1>1, <1>7, <2>3
    <3> QED
      BY <3>1 DEF WillEnd, MidChanges
  <2> QED
    BY <1>6, <2>2, <2>3
<1>15. InData'
  BY <1>1, <1>2, <1>5, <1>6, <1>8 DEF InData
<1>16. LastIsCall'
  <2>1. proto' = proto
    BY <1>1, <1>6
  <2> QED
    BY <1>1, <1>10, <2>1 DEF MilterInv, LastIsCall, Skipped
<1>17. ReplyIsOwn'
  <2>1. at' = "back" => ~p.data
    BY <1>1
  <2>2. ~p.data => Stream' = <<>>
    BY <1>2, <1>7
  <2>3. ~p.data => pipe' = <<>> /\ sent' = <<>>
    <3>1. pipe' \in Seq(Piece) /\ sent' \in Seq(Piece)
      BY <1>11 DEF TypeInv
    <3> QED
      BY <2>2, <3>1, NoPieces DEF Stream
  <2>4. reply'.to = <<call, mails>> /\ <<call, mails>> # Nil
    BY <1>1, <1>8, <1>10, MilterAssumption
  <2> QED
    BY <1>1, <1>10, <2>1, <2>3, <2>4 DEF ReplyIsOwn
<1> QED
  BY <1>11, <1>12, <1>13, <1>14, <1>15, <1>16, <1>17 DEF MilterInv

LEMMA ReadDataKeeps == ASSUME MilterInv, ReadData PROVE MilterInv'
<1> DEFINE p == Head(pipe)
<1>1. /\ at = "data" /\ pipe # <<>> /\ pipe' = Tail(pipe) /\ at' = "back"
      /\ proto' = (IF call = "O" /\ p.flags # Nil THEN p.flags ELSE proto)
      /\ UNCHANGED <<call, mails, reply, asks, quit, owed, changes, sent, open, last, cut>>
  BY DEF ReadData, Return, filterVars, history
<1>2. /\ Stream \in Seq(Piece) /\ Stream # <<>> /\ Stream[1] = p /\ p \in Piece
      /\ Stream' = Tail(Stream)
  <2>1. /\ Stream # <<>> /\ Stream[1] = p /\ p \in Piece
        /\ Tail(pipe) \o sent = Tail(Stream)
    BY <1>1, StreamHead DEF MilterInv
  <2>2. Stream' = Tail(pipe) \o sent
    BY <1>1 DEF Stream
  <2> QED
    BY <2>1, <2>2, StreamIsSeq DEF MilterInv
<1>3. /\ Len(Stream) \in Nat /\ Len(Stream) > 0
      /\ Tail(Stream) \in Seq(Piece) /\ Len(Tail(Stream)) = Len(Stream) - 1
      /\ \A i \in 1..Len(Tail(Stream)) : Tail(Stream)[i] = Stream[i + 1]
  BY <1>2, Popped
<1>4. Framed(Stream, TRUE) /\ VerdictLast(Stream)
  BY <1>1 DEF MilterInv, Whole
<1>5. p.code \in CodesWithData /\ ~p.data
  BY <1>2, <1>4 DEF Framed, IsData
<1>6. p.data = FALSE
  BY <1>2, <1>5 DEF Piece
<1>7. /\ Framed(Tail(Stream), FALSE) /\ VerdictLast(Tail(Stream))
      /\ Ended(Stream) /\ Tail(Stream) # <<>> => Ended(Tail(Stream))
      /\ Tail(Stream) = <<>> /\ Ended(Stream) => p.code # "h"
      /\ p.code # "h" => Tail(Stream) = <<>>
  BY <1>2, <1>4, <1>6, Rest
<1>8. 1 \in 1..Len(Stream) /\ (p.code = "h" => call = "E")
  BY <1>2, <1>3 DEF MilterInv, OneAtATime
<1>9. reply.code = p.code /\ reply.to = <<call, mails>>
  BY <1>1, <1>2 DEF MilterInv, InData
<1>10. owed # Nil => p.code = "h" /\ \A i \in 1..Len(Tail(Stream)) : Tail(Stream)[i].code = "h"
  <2>1. owed # Nil => \A i \in 1..Len(Stream) : Stream[i].code = "h"
    BY DEF MilterInv, OneAtATime
  <2>2. \A i \in 1..Len(Tail(Stream)) : i + 1 \in 1..Len(Stream)
    BY <1>3
  <2> QED
    BY <1>2, <1>3, <1>8, <2>1, <2>2
<1>11. /\ call \in Commands /\ call \notin {Nil, "A", "Q"} /\ call = Last(last)
       /\ <<call, mails>> \in Commands \X Nat /\ open /\ mails \in Nat
  <2>1. call \in Commands /\ call \notin {Nil, "A", "Q"} /\ call = Last(last)
    BY <1>1 DEF MilterInv, LastIsCall, TypeInv, TypeOK
  <2>2. open
    BY <1>1 DEF MilterInv, OneAtATime
  <2>3. mails \in Nat
    BY MilterAssumption DEF MilterInv, TypeInv, TypeOK
  <2> QED
    BY <2>1, <2>2, <2>3
<1>12. p.flags \in FlagSets \cup {Nil}
  BY <1>2 DEF Piece
<1>13. TypeInv'
  <2>1. proto' \in FlagSets \cup {{}}
    BY <1>1, <1>12 DEF MilterInv, TypeInv, TypeOK
  <2>2. TypeOK'
    BY <1>1, <2>1 DEF MilterInv, TypeInv, TypeOK
  <2>3. pipe' \in Seq(Piece)
    BY <1>1, Popped DEF MilterInv, TypeInv
  <2> QED
    BY <1>1, <2>2, <2>3 DEF MilterInv, TypeInv
<1>14. OneAtATime'
  <2>1. open' /\ (owed' # Nil => owed' = <<call', mails'>>)
    BY <1>1, <1>11 DEF MilterInv, OneAtATime
  <2>2. ~MidChanges' => Stream' = <<>> /\ owed' = Nil
    <3>1. ~MidChanges' => p.code # "h"
      BY <1>1, <1>8, <1>9 DEF MidChanges
    <3> QED
      BY <1>1, <1>2, <1>7, <1>10, <3>1
  <2>3. \A i \in 1..Len(Tail(Stream)) :
          /\ Tail(Stream)[i].to = <<call, mails>>
          /\ Tail(Stream)[i].code = "h" => call = "E"
    <3>1. \A i \in 1..Len(Tail(Stream)) : i + 1 \in 1..Len(Stream)
      BY <1>3
    <3> QED
      BY <1>3, <3>1 DEF MilterInv, OneAtATime
  <2> QED
    BY <1>1, <1>2, <1>10, <2>1, <2>2, <2>3 DEF OneAtATime
<1>15. Whole'
  <2>1. (at' = "data") = FALSE
    BY <1>1
  <2> QED
    BY <1>2, <1>7, <2>1 DEF Whole
<1>16. WillEnd'
  <2>1. owed # Nil \/ quit \/ Ended(Stream)
    BY <1>1 DEF MilterInv, WillEnd
  <2>2. MidChanges' => p.code = "h"
    BY <1>1, <1>9 DEF MidChanges
  <2>3. p.code = "h" /\ Ended(Stream) => Ended(Stream)'
    BY <1>2, <1>7 DEF Ended
  <2> QED
    BY <1>1, <2>1, <2>2, <2>3 DEF WillEnd
<1>17. InData'
  BY <1>1 DEF InData
<1>18. LastIsCall'
  <2>1. proto' \subseteq {"C", "H", "M", "R", "L", "N", "B"}
    BY <1>1, <1>12, MilterAssumption DEF MilterInv, LastIsCall
  <2>2. ~Skipped(Last(last))'
    <3>1. CASE call = "O"
      <4>1. Last(last) = "O" /\ "O" \notin proto'
        BY <1>11, <2>1, <3>1
      <4> QED
        BY <1>1, <4>1 DEF Skipped
    <3>2. CASE call # "O"
      <4>1. proto' = proto
        BY <1>1, <3>2
      <4> QED
        BY <1>1, <1>11, <4>1 DEF MilterInv, LastIsCall, Skipped
    <3> QED
      BY <3>1, <3>2
  <2>3. last' # <<>>
    BY <1>1, <1>11 DEF MilterInv, LastIsCall
  <2> QED
    BY <1>1, <1>11, <2>1, <2>2, <2>3 DEF LastIsCall
<1>19. ReplyIsOwn'
  <2>1. pipe' \in Seq(Piece) /\ sent' \in Seq(Piece)
    BY <1>13 DEF TypeInv
  <2>2. reply'.code # "h" => pipe' = <<>> /\ sent' = <<>>
    BY <1>1, <1>2, <1>7, <1>9, <2>1, NoPieces DEF Stream
  <2>3. reply'.to = <<call, mails>> /\ <<call, mails>> # Nil
    BY <1>1, <1>9, <1>11, MilterAssumption
  <2> QED
    BY <1>1, <1>11, <2>2, <2>3 DEF ReplyIsOwn
<1> QED
  BY <1>13, <1>14, <1>15, <1>16, <1>17, <1>18, <1>19 DEF MilterInv

LEMMA ReadNoPrefixKeeps == ASSUME MilterInv, ReadNoPrefix PROVE MilterInv'
<1>1. /\ at = "prefix" /\ at' = "undefined"
      /\ UNCHANGED <<proto, call, mails, reply, asks, quit, owed, changes, pipe, sent, open, last, cut>>
  BY DEF ReadNoPrefix, filterVars, history
<1>2. Stream' = Stream
  BY <1>1 DEF Stream
<1>3. TypeInv'
  <2>1. TypeOK'
    BY <1>1 DEF MilterInv, TypeInv, TypeOK
  <2> QED
    BY <1>1, <2>1 DEF MilterInv, TypeInv
<1>4. OneAtATime'
  BY <1>1, <1>2 DEF MilterInv, OneAtATime
<1>5. Whole' /\ WillEnd' /\ InData' /\ ReplyIsOwn'
  BY <1>1 DEF Whole, WillEnd, InData, ReplyIsOwn
<1>6. LastIsCall'
  BY <1>1 DEF MilterInv, LastIsCall, Skipped
<1> QED
  BY <1>3, <1>4, <1>5, <1>6 DEF MilterInv

LEMMA ReadOnKeeps == ASSUME MilterInv, ReadOn PROVE MilterInv'
<1>1. /\ open /\ at = "back" /\ call = "E" /\ reply.code = "h"
      /\ at' = "prefix" /\ reply' = Continue
      /\ UNCHANGED <<proto, call, mails, asks, quit, owed, changes, pipe, sent, open, last, cut>>
  BY DEF ReadOn, filterVars, history
<1>2. Stream' = Stream
  BY <1>1 DEF Stream
<1>3. call = Last(last) /\ call \notin {Nil, "A", "Q"}
  <2>1. call # Nil
    BY <1>1, InCommands, MilterAssumption
  <2> QED
    BY <1>1, <2>1 DEF MilterInv, ReplyIsOwn
<1>4. TypeInv'
  <2>1. reply' \in [code : {"0"} \cup Codes, to : {Nil} \cup (Commands \X Nat)]
    BY <1>1 DEF Continue, Codes
  <2>2. TypeOK'
    BY <1>1 DEF Continue, MilterInv, TypeInv, TypeOK
  <2> QED
    BY <1>1, <2>1, <2>2 DEF MilterInv, TypeInv
<1>5. OneAtATime'
  BY <1>1, <1>2 DEF MilterInv, OneAtATime
<1>6. Whole'
  <2>1. (at = "data") = FALSE /\ (at' = "data") = FALSE
    BY <1>1
  <2> QED
    BY <1>1, <1>2, <2>1 DEF MilterInv, Whole
<1>7. WillEnd'
  <2>1. owed # Nil \/ quit \/ Ended(Stream)
    BY <1>1 DEF MilterInv, WillEnd, MidChanges
  <2> QED
    BY <1>1, <1>2, <2>1 DEF WillEnd, Ended
<1>8. InData' /\ ReplyIsOwn'
  BY <1>1 DEF InData, ReplyIsOwn
<1>9. LastIsCall'
  BY <1>1, <1>3 DEF MilterInv, LastIsCall, Skipped
<1> QED
  BY <1>4, <1>5, <1>6, <1>7, <1>8, <1>9 DEF MilterInv

(* What is sent later comes at the end of the stream.                      *)
LEMMA AppendLater ==
  ASSUME NEW p \in Seq(Piece), NEW s \in Seq(Piece), NEW x \in Seq(Piece)
  PROVE  (p \o s) \o x = p \o (s \o x)
BY ConcatAssociative, SMTT(60)

(* The filter says something about the command that it owes an answer.     *)
LEMMA Speaking ==
  ASSUME MilterInv, owed # Nil,
         NEW x \in Seq(Piece), x # <<>>, Framed(x, FALSE), VerdictLast(x),
         \A i \in 1..Len(x) : x[i].to = owed /\ (x[i].code = "h" => call = "E"),
         sent' = sent \o x,
         \/ owed' = Nil /\ Ended(x)
         \/ owed' = owed /\ \A i \in 1..Len(x) : x[i].code = "h",
         UNCHANGED <<proto, call, at, reply, mails, quit, pipe, open, last, cut>>,
         asks' \in FlagSets \cup {{}}, changes' \in 0..MaxChanges
  PROVE  MilterInv'
<1>1. pipe \in Seq(Piece) /\ sent \in Seq(Piece) /\ Stream \in Seq(Piece)
  BY StreamIsSeq DEF MilterInv, TypeInv
<1>2. Stream' = Stream \o x
  BY <1>1, AppendLater DEF Stream
<1>3. /\ Len(Stream) \in Nat /\ Len(x) \in Nat /\ Len(x) > 0
      /\ Len(Stream \o x) = Len(Stream) + Len(x)
      /\ \A i \in 1..(Len(Stream) + Len(x)) :
           (Stream \o x)[i] = IF i <= Len(Stream) THEN Stream[i] ELSE x[i - Len(Stream)]
  BY <1>1, LenProperties, EmptySeq, ConcatProperties
<1>4. /\ owed = <<call, mails>>
      /\ \A i \in 1..Len(Stream) : Stream[i].code = "h"
      /\ open /\ (at = "back" => MidChanges)
  BY DEF MilterInv, OneAtATime
<1>5. ASSUME NEW i \in 1..(Len(Stream) + Len(x))
      PROVE  \/ i \in 1..Len(Stream) /\ (Stream \o x)[i] = Stream[i]
             \/ i - Len(Stream) \in 1..Len(x) /\ (Stream \o x)[i] = x[i - Len(Stream)]
  BY <1>3
<1>6. TypeInv'
  <2>1. sent' \in Seq(Piece)
    BY <1>1, ConcatProperties
  <2>2. TypeOK'
    BY DEF MilterInv, TypeInv, TypeOK
  <2> QED
    BY <2>1, <2>2 DEF MilterInv, TypeInv
<1>7. OneAtATime'
  <2>1. open' /\ (at' = "back" => MidChanges')
    BY <1>4 DEF MidChanges
  <2>2. ASSUME NEW i \in 1..(Len(Stream) + Len(x))
        PROVE  /\ (Stream \o x)[i].to = <<call, mails>>
               /\ (Stream \o x)[i].code = "h" => call = "E"
    BY <1>4, <1>5 DEF MilterInv, OneAtATime
  <2>3. ASSUME owed' # Nil, NEW i \in 1..(Len(Stream) + Len(x))
        PROVE  (Stream \o x)[i].code = "h"
    BY <1>4, <1>5, <2>3
  <2>4. owed' # Nil => owed' = <<call', mails'>>
    BY <1>4
  <2>5. /\ \A i \in 1..Len(Stream') : /\ Stream'[i].to = <<call', mails'>>
                                      /\ Stream'[i].code = "h" => call' = "E"
        /\ owed' # Nil => \A i \in 1..Len(Stream') : Stream'[i].code = "h"
    BY <1>2, <1>3, <2>2, <2>3
  <2> QED
    BY <2>1, <2>4, <2>5 DEF OneAtATime
<1>8. ASSUME at # "undefined" PROVE Whole' /\ WillEnd' /\ InData'
  <2>1. Framed(Stream, at = "data") /\ VerdictLast(Stream)
    BY <1>8 DEF MilterInv, Whole
  <2>2. /\ Framed(Stream \o x, at = "data") /\ VerdictLast(Stream \o x)
        /\ Ended(x) => Ended(Stream \o x)
    <3> DEFINE inside == at = "data"
    <3>1. inside \in BOOLEAN /\ Framed(Stream, inside)
      BY <2>1
    <3> HIDE DEF inside
    <3>2. Framed(Stream \o x, inside) /\ VerdictLast(Stream \o x)
          /\ (Ended(x) => Ended(Stream \o x))
      BY <1>1, <1>4, <2>1, <3>1, Said
    <3> QED
      BY <3>2 DEF inside
  <2>3. Whole'
    BY <1>2, <2>2 DEF Whole
  <2>4. WillEnd'
    BY <1>2, <2>2 DEF WillEnd, Ended
  <2>5. InData'
    <3>1. CASE at = "data"
      <4>1. Len(Stream) > 0
        BY <2>1, <3>1 DEF Framed
      <4>2. Stream'[1] = Stream[1]
        <5>1. 1 \in 1..(Len(Stream) + Len(x)) /\ 1 <= Len(Stream)
          BY <1>3, <4>1
        <5> QED
          BY <1>2, <1>3, <5>1
      <4> QED
        BY <3>1, <4>2 DEF MilterInv, InData
    <3>2. CASE at # "data"
      BY <3>2 DEF InData
    <3> QED
      BY <3>1, <3>2
  <2> QED
    BY <2>3, <2>4, <2>5
<1>9. ASSUME at = "undefined" PROVE Whole' /\ WillEnd' /\ InData'
  BY <1>9 DEF Whole, WillEnd, InData
<1>10. LastIsCall'
  BY DEF MilterInv, LastIsCall, Skipped
<1>11. ReplyIsOwn'
  <2>1. at' = "back" => reply'.code = "h"
    BY <1>4 DEF MidChanges
  <2> QED
    BY <2>1 DEF MilterInv, ReplyIsOwn
<1> QED
  BY <1>6, <1>7, <1>8, <1>9, <1>10, <1>11, Zenon DEF MilterInv

LEMMA OwedType ==
  ASSUME MilterInv, owed # Nil
  PROVE  owed \in Commands \X Nat /\ owed = <<call, mails>> /\ owed[1] = call
<1>1. owed = <<call, mails>>
  BY DEF MilterInv, OneAtATime
<1>2. mails \in Nat
  BY MilterAssumption DEF MilterInv, TypeInv, TypeOK
<1>3. call \in Commands
  <2>1. call # Nil
    <3>1. CASE at = "back"
      <4>1. MidChanges
        BY <3>1 DEF MilterInv, OneAtATime
      <4> QED
        BY <4>1, InCommands, MilterAssumption DEF MidChanges
    <3>2. CASE at # "back"
      BY <3>2 DEF MilterInv, LastIsCall
    <3> QED
      BY <3>1, <3>2
  <2> QED
    BY <2>1 DEF MilterInv, TypeInv, TypeOK
<1> QED
  BY <1>1, <1>2, <1>3

LEMMA FilterKeeps ==
  ASSUME MilterInv, owed # Nil, NEW code \in Codes, NEW flags \in FlagSets \cup {Nil},
         sent' = sent \o Pieces(code, flags),
         code = "h" => call = "E" /\ owed' = owed,
         code # "h" => owed' = Nil,
         UNCHANGED <<proto, call, at, reply, mails, quit, pipe, open, last, cut>>,
         asks' \in FlagSets \cup {{}}, changes' \in 0..MaxChanges
  PROVE  MilterInv'
<1> DEFINE x == Pieces(code, flags)
<1>1. /\ x \in Seq(Piece) /\ x # <<>> /\ Framed(x, FALSE) /\ VerdictLast(x)
      /\ \A i \in 1..Len(x) : x[i].code = code /\ x[i].to = owed
      /\ code # "h" => Ended(x)
  BY OwedType, OneReply
<1> HIDE DEF x
<1>2. sent' = sent \o x
  BY DEF x
<1>3. \A i \in 1..Len(x) : x[i].to = owed /\ (x[i].code = "h" => call = "E")
  BY <1>1
<1>4. \/ owed' = Nil /\ Ended(x)
      \/ owed' = owed /\ \A i \in 1..Len(x) : x[i].code = "h"
  BY <1>1
<1> QED
  BY <1>1, <1>2, <1>3, <1>4, Speaking

LEMMA NegotiateKeeps ==
  ASSUME MilterInv, NEW flags \in FlagSets, Negotiate(flags) PROVE MilterInv'
<1>1. /\ owed # Nil /\ owed' = Nil
      /\ UNCHANGED <<proto, call, at, reply, mails, quit, pipe, open, last, cut, changes>>
  BY DEF Negotiate, clientVars, history
<1>2. changes' \in 0..MaxChanges /\ asks \in FlagSets \cup {{}}
  BY <1>1 DEF MilterInv, TypeInv, TypeOK
<1>3. "O" \in Codes /\ "O" # "h"
  BY DEF Codes
<1>4. CASE sent' = sent \o Pieces("O", flags) /\ asks' = flags
  BY <1>1, <1>2, <1>3, <1>4, FilterKeeps
<1>5. CASE sent' = sent \o Pieces("O", Nil) /\ UNCHANGED asks
  BY <1>1, <1>2, <1>3, <1>5, FilterKeeps
<1> QED
  BY <1>4, <1>5 DEF Negotiate

LEMMA AnswerKeeps ==
  ASSUME MilterInv, NEW code \in {"c", "a", "y"}, Answer(code) PROVE MilterInv'
<1>1. /\ owed # Nil /\ owed' = Nil /\ sent' = sent \o Pieces(code, Nil)
      /\ UNCHANGED <<proto, call, at, reply, mails, asks, quit, pipe, open, last, cut, changes>>
  BY DEF Answer, clientVars, history
<1>2. changes' \in 0..MaxChanges /\ asks' \in FlagSets \cup {{}}
  BY <1>1 DEF MilterInv, TypeInv, TypeOK
<1>3. code \in Codes /\ code # "h"
  BY DEF Codes
<1> QED
  BY <1>1, <1>2, <1>3, FilterKeeps

LEMMA ChangeKeeps == ASSUME MilterInv, Change PROVE MilterInv'
<1>1. /\ owed # Nil /\ owed[1] = "E" /\ owed' = owed /\ sent' = sent \o Pieces("h", Nil)
      /\ changes < MaxChanges /\ changes' = changes + 1
      /\ UNCHANGED <<proto, call, at, reply, mails, asks, quit, pipe, open, last, cut>>
  BY DEF Change, clientVars, history
<1>2. changes' \in 0..MaxChanges
  <2>1. changes \in 0..MaxChanges
    BY DEF MilterInv, TypeInv, TypeOK
  <2> QED
    BY <1>1, <2>1, MilterAssumption
<1>3. asks' \in FlagSets \cup {{}}
  BY <1>1 DEF MilterInv, TypeInv, TypeOK
<1>4. "h" \in Codes /\ call = "E"
  BY <1>1, OwedType DEF Codes
<1> QED
  BY <1>1, <1>2, <1>3, <1>4, FilterKeeps

LEMMA ArriveKeeps == ASSUME MilterInv, Arrive PROVE MilterInv'
<1>1. /\ sent # <<>> /\ at # "undefined"
      /\ pipe' = Append(pipe, Head(sent)) /\ sent' = Tail(sent)
      /\ UNCHANGED <<proto, call, at, reply, mails, asks, quit, owed, changes, open, last, cut>>
  BY DEF Arrive, clientVars, filterVars, history
<1>2. pipe' \in Seq(Piece) /\ sent' \in Seq(Piece) /\ Stream' = Stream
  BY <1>1, StreamMoves DEF MilterInv, Stream
<1>3. TypeInv'
  <2>1. TypeOK'
    BY <1>1 DEF MilterInv, TypeInv, TypeOK
  <2> QED
    BY <1>1, <1>2, <2>1 DEF MilterInv, TypeInv
<1>4. OneAtATime'
  BY <1>1, <1>2 DEF MilterInv, OneAtATime, MidChanges
<1>5. Whole'
  BY <1>1, <1>2 DEF MilterInv, Whole
<1>6. WillEnd'
  BY <1>1, <1>2 DEF MilterInv, WillEnd, MidChanges, Ended
<1>7. InData'
  BY <1>1, <1>2 DEF MilterInv, InData
<1>8. LastIsCall'
  BY <1>1 DEF MilterInv, LastIsCall, Skipped
<1>9. ReplyIsOwn'
  BY <1>1 DEF MilterInv, ReplyIsOwn
<1> QED
  BY <1>3, <1>4, <1>5, <1>6, <1>7, <1>8, <1>9 DEF MilterInv

LEMMA QuitKeeps == ASSUME MilterInv, Quit PROVE MilterInv'
<1>1. /\ open /\ quit' = TRUE /\ owed' = Nil
      /\ UNCHANGED <<proto, call, at, reply, mails, asks, changes, pipe, sent, open, last, cut>>
  BY DEF Quit, clientVars, history
<1>2. Stream' = Stream
  BY <1>1 DEF Stream
<1>3. TypeInv'
  <2>1. TypeOK'
    BY <1>1 DEF MilterInv, TypeInv, TypeOK
  <2> QED
    BY <1>1, <2>1 DEF MilterInv, TypeInv
<1>4. OneAtATime'
  BY <1>1, <1>2 DEF MilterInv, OneAtATime, MidChanges
<1>5. Whole'
  BY <1>1, <1>2 DEF MilterInv, Whole
<1>6. WillEnd'
  BY <1>1 DEF WillEnd
<1>7. InData'
  BY <1>1, <1>2 DEF MilterInv, InData
<1>8. LastIsCall'
  BY <1>1 DEF MilterInv, LastIsCall, Skipped
<1>9. ReplyIsOwn'
  BY <1>1 DEF MilterInv, ReplyIsOwn
<1> QED
  BY <1>3, <1>4, <1>5, <1>6, <1>7, <1>8, <1>9 DEF MilterInv

LEMMA StutterKeeps == ASSUME MilterInv, UNCHANGED vars PROVE MilterInv'
<1>1. UNCHANGED <<proto, call, at, reply, mails, asks, quit, owed, changes, pipe, sent,
                  open, last, cut>>
  BY DEF vars, clientVars, filterVars, history
<1>2. Stream' = Stream
  BY <1>1 DEF Stream
<1>3. TypeInv'
  <2>1. TypeOK'
    BY <1>1 DEF MilterInv, TypeInv, TypeOK
  <2> QED
    BY <1>1, <2>1 DEF MilterInv, TypeInv
<1>4. OneAtATime'
  BY <1>1, <1>2 DEF MilterInv, OneAtATime, MidChanges
<1>5. Whole' /\ InData'
  BY <1>1, <1>2 DEF MilterInv, Whole, InData
<1>6. WillEnd'
  BY <1>1, <1>2 DEF MilterInv, WillEnd, MidChanges, Ended
<1>7. LastIsCall' /\ ReplyIsOwn'
  BY <1>1 DEF MilterInv, LastIsCall, Skipped, ReplyIsOwn
<1> QED
  BY <1>3, <1>4, <1>5, <1>6, <1>7 DEF MilterInv

-----------------------------------------------------------------------------
(* Time runs out amid the data of a reply.                                 *)

LEMMA InvSteady == Inv => Steady
<1>1. MilterInv /\ owed # Nil => owed = <<call, mails>> /\ call # Nil
  <2> SUFFICES ASSUME MilterInv, owed # Nil PROVE owed = <<call, mails>> /\ call # Nil
    OBVIOUS
  <2>1. owed = <<call, mails>> /\ call \in Commands
    BY OwedType
  <2> QED
    BY <2>1, MilterAssumption
<1>2. MilterInv => Steady
  BY <1>1 DEF MilterInv, OneAtATime, Steady
<1> QED
  BY <1>2 DEF Inv, Adrift

LEMMA CutOff == ASSUME MilterInv, ReadPartOfData PROVE Adrift'
<1> DEFINE p == Head(sent)
<1>1. /\ at = "data" /\ pipe = <<>> /\ sent # <<>> /\ cut' = TRUE
      /\ UNCHANGED <<call, mails, reply, asks, quit, owed, changes, pipe, sent, open, last>>
  BY DEF ReadPartOfData, filterVars
<1>2. \/ at' = "back" /\ proto' = (IF call = "O" /\ p.flags # Nil THEN p.flags ELSE proto)
      \/ at' = "undefined" /\ proto' = proto
  BY DEF ReadPartOfData, Return
<1>3. Stream = sent /\ Stream' = Stream /\ sent \in Seq(Piece)
  <2>1. sent \in Seq(Piece)
    BY DEF MilterInv, TypeInv
  <2> QED
    BY <1>1, <2>1, ConcatEmptySeq DEF Stream
<1>4. Stream # <<>> /\ Stream[1] = p /\ p \in Piece /\ Len(Stream) \in Nat /\ Len(Stream) > 0
  BY <1>1, <1>3, Popped
<1>5. IsData(Stream[1])
  BY <1>1 DEF MilterInv, Whole, Framed
<1>6. 1 \in 1..Len(Stream) /\ reply.code = p.code /\ reply.to = <<call, mails>>
  BY <1>1, <1>4 DEF MilterInv, InData
<1>7. /\ call \in Commands /\ call \notin {Nil, "A", "Q"} /\ call = Last(last)
      /\ <<call, mails>> \in Commands \X Nat /\ open
  <2>1. mails \in Nat
    BY MilterAssumption DEF MilterInv, TypeInv, TypeOK
  <2>2. open
    BY <1>1 DEF MilterInv, OneAtATime
  <2> QED
    BY <1>1, <2>1, <2>2 DEF MilterInv, LastIsCall, TypeInv, TypeOK
<1>8. /\ p.code = "h" => call = "E"
      /\ owed # Nil => p.code = "h" /\ owed = <<call, mails>>
  BY <1>4, <1>6 DEF MilterInv, OneAtATime
<1>9. p.flags \in FlagSets \cup {Nil}
  BY <1>4 DEF Piece
<1>10. TypeInv'
  <2>1. proto' \in FlagSets \cup {{}} /\ at' \in {"back", "undefined"}
    BY <1>2, <1>9 DEF MilterInv, TypeInv, TypeOK
  <2>2. TypeOK'
    BY <1>1, <2>1 DEF MilterInv, TypeInv, TypeOK
  <2> QED
    BY <1>1, <2>2 DEF MilterInv, TypeInv
<1>11. LastIsCall'
  <2>1. proto' \subseteq {"C", "H", "M", "R", "L", "N", "B"}
    BY <1>2, <1>9, MilterAssumption DEF MilterInv, LastIsCall
  <2>2. ~Skipped(Last(last))'
    <3>1. CASE call = "O"
      <4>1. Last(last) = "O" /\ "O" \notin proto'
        BY <1>7, <2>1, <3>1
      <4> QED
        BY <1>1, <4>1 DEF Skipped
    <3>2. CASE call # "O"
      <4>1. proto' = proto
        BY <1>2, <3>2
      <4> QED
        BY <1>1, <1>7, <4>1 DEF MilterInv, LastIsCall, Skipped
    <3> QED
      BY <3>1, <3>2
  <2>3. last' # <<>>
    BY <1>1, <1>7 DEF MilterInv, LastIsCall
  <2> QED
    BY <1>1, <1>7, <2>1, <2>2, <2>3 DEF LastIsCall
<1>12. ReplyIsOwn'
  <2>1. <<call, mails>> # Nil
    BY <1>7, MilterAssumption
  <2> QED
    BY <1>1, <1>6, <1>7, <2>1 DEF ReplyIsOwn
<1>13. Steady'
  BY <1>1, <1>7, <1>8, <1>10, <1>11, <1>12 DEF Steady
<1>14. /\ at' # "data" /\ call' # Nil /\ (call' = "O" => owed' = Nil)
       /\ at' = "back" /\ ~MidChanges' => owed' = Nil
  BY <1>1, <1>2, <1>6, <1>7, <1>8 DEF MidChanges
<1>15. Stream' # <<>> /\ IsData(Stream'[1])
  BY <1>3, <1>4, <1>5
<1> QED
  BY <1>1, <1>13, <1>14, <1>15 DEF Adrift, IsData

(* Every step of a client that does not read keeps the rest of the data.   *)
LEMMA NothingRead ==
  ASSUME Adrift, cut' = cut, Steady', call' # Nil, call' = "O" => owed' = Nil, at' # "data",
         at' = "back" /\ ~MidChanges' => owed' = Nil,
         \/ ~open'
         \/ at' = "undefined"
         \/ open /\ at # "undefined" /\ Stream' # <<>> /\ Stream'[1] = Stream[1]
  PROVE  Adrift'
BY Zenon DEF Adrift, IsData

LEMMA AdriftCall ==
  ASSUME Adrift, NEW c \in Commands, MayCall(c)
  PROVE  /\ at = "back" /\ open /\ ~MidChanges /\ owed = Nil
         /\ Mails(c) \in 0..MaxMails /\ c # "O" /\ c # Nil
<1>1. at = "back" /\ open
  BY DEF MayCall
<1>2. ~MidChanges
  <2> SUFFICES ASSUME call = "E", reply.code = "h" PROVE FALSE
    BY DEF MidChanges
  <2>1. ~MidMail /\ ~Decided /\ ~MailDone
    BY DEF MidMail, Decided, MailDone
  <2>2. call # Nil
    BY InCommands, MilterAssumption
  <2> QED
    BY <2>1, <2>2 DEF MayCall
<1>3. owed = Nil
  BY <1>1, <1>2 DEF Adrift
<1>4. Mails(c) \in 0..MaxMails
  <2>1. mails \in 0..MaxMails /\ (c = "M" => mails < MaxMails)
    BY DEF MayCall, Adrift, Steady, TypeInv, TypeOK
  <2> QED
    BY <2>1, MilterAssumption DEF Mails
<1>5. c # "O"
  BY DEF MayCall, Adrift
<1> QED
  BY <1>1, <1>2, <1>3, <1>4, <1>5, MilterAssumption

LEMMA AdriftSkip ==
  ASSUME Adrift, NEW c \in Commands, CallSkipped(c) PROVE Adrift'
<1>1. /\ at = "back" /\ open /\ owed = Nil
      /\ Mails(c) \in 0..MaxMails /\ c # "O" /\ c # Nil
  BY AdriftCall DEF CallSkipped
<1>2. /\ call' = c /\ mails' = Mails(c) /\ reply' = Continue /\ Skipped(c)
      /\ UNCHANGED <<proto, at, asks, quit, owed, changes, pipe, sent, open, last, cut>>
  BY DEF CallSkipped, filterVars, history
<1>3. TypeInv /\ LastIsCall /\ call # Nil /\ cut
  BY DEF Adrift, Steady
<1>4. c # Last(last)
  BY <1>1, <1>2, <1>3 DEF LastIsCall
<1>5. reply'.code = "c" /\ reply'.to = Nil
  BY <1>2 DEF Continue
<1>6. TypeInv'
  <2>1. reply' \in [code : {"0"} \cup Codes, to : {Nil} \cup (Commands \X Nat)]
    BY <1>2 DEF Continue, Codes
  <2>2. TypeOK'
    BY <1>1, <1>2, <1>3, <1>5 DEF TypeInv, TypeOK
  <2> QED
    BY <1>2, <1>3, <2>1, <2>2 DEF TypeInv
<1>7. LastIsCall'
  BY <1>1, <1>2, <1>3, <1>4 DEF LastIsCall, Skipped
<1>8. ReplyIsOwn'
  BY <1>2, <1>3, <1>4, <1>5 DEF ReplyIsOwn
<1>9. Steady'
  BY <1>1, <1>2, <1>6, <1>7, <1>8 DEF Steady
<1>10. Stream' = Stream /\ Stream # <<>>
  BY <1>1, <1>2 DEF Stream, Adrift
<1> QED
  BY <1>1, <1>2, <1>9, <1>10, NothingRead

LEMMA AdriftSend ==
  ASSUME Adrift, NEW c \in Commands, CallSent(c) PROVE Adrift'
<1>1. /\ at = "back" /\ open /\ owed = Nil
      /\ Mails(c) \in 0..MaxMails /\ c # "O" /\ c # Nil
  BY AdriftCall DEF CallSent
<1>2. /\ call' = c /\ mails' = Mails(c) /\ ~Skipped(c) /\ changes' = 0
      /\ owed' = (IF quit \/ c \in {"A", "Q"} THEN Nil ELSE <<c, mails'>>)
      /\ c \notin {"A", "Q"} => at' = "prefix" /\ reply' = Continue
      /\ c \in {"A", "Q"} => at' = at /\ reply' = reply
      /\ open' = (c # "Q")
      /\ UNCHANGED <<proto, asks, quit, pipe, sent, cut>>
  BY DEF CallSent, Answered, Tell
<1>3. TypeInv /\ LastIsCall /\ cut
  BY DEF Adrift, Steady
<1>4. last' \in Seq(Commands \cup {"D"}) /\ last' # <<>> /\ Last(last') = c
  <2>1. Tell(Packets(c)) /\ last \in Seq(Commands \cup {"D"})
    BY <1>3 DEF CallSent, TypeInv
  <2> QED
    BY <2>1, PacketsType DEF Tell
<1>5. TypeInv'
  <2>1. reply' \in [code : {"0"} \cup Codes, to : {Nil} \cup (Commands \X Nat)]
    BY <1>2, <1>3 DEF Continue, Codes, TypeInv
  <2>2. at' \in {"back", "prefix"}
    BY <1>1, <1>2
  <2>3. reply'.code \in {"0", "O", "c", "a", "y", "h"}
    BY <1>2, <1>3 DEF Continue, TypeInv, TypeOK
  <2>4. changes' \in 0..MaxChanges
    BY <1>2, MilterAssumption
  <2>5. TypeOK'
    BY <1>1, <1>2, <1>3, <2>2, <2>3, <2>4 DEF TypeInv, TypeOK
  <2> QED
    BY <1>2, <1>3, <1>4, <2>1, <2>5 DEF TypeInv
<1>6. LastIsCall'
  BY <1>1, <1>2, <1>3, <1>4 DEF LastIsCall, Skipped
<1>7. ReplyIsOwn'
  BY <1>1, <1>2 DEF ReplyIsOwn
<1>8. Steady'
  BY <1>1, <1>2, <1>5, <1>6, <1>7 DEF Steady
<1>9. at' = "back" \/ at' = "prefix"
  BY <1>1, <1>2
<1>10. at' = "back" => owed' = Nil
  BY <1>1, <1>2
<1>11. Stream' = Stream /\ Stream # <<>>
  BY <1>1, <1>2 DEF Stream, Adrift
<1> QED
  BY <1>1, <1>2, <1>8, <1>9, <1>10, <1>11, NothingRead

LEMMA AdriftFails ==
  ASSUME Adrift, Fail, UNCHANGED reply, UNCHANGED history \/ Tell(<<"D">>) PROVE Adrift'
<1>1. /\ at' = "back" /\ open' = FALSE /\ pipe' = <<>> /\ sent' = <<>> /\ owed' = Nil
      /\ UNCHANGED <<proto, call, mails, asks, quit, changes>>
  BY DEF Fail
<1>2. TypeInv /\ LastIsCall /\ call # Nil
  BY DEF Adrift, Steady
<1>3. last' \in Seq(Commands \cup {"D"}) /\ cut' = cut
  <2>1. <<"D">> \in Seq(Commands \cup {"D"})
    OBVIOUS
  <2> QED
    BY <1>2, <2>1 DEF TypeInv, Tell, history
<1>4. TypeInv'
  <2>1. TypeOK'
    BY <1>1, <1>2, <1>3 DEF TypeInv, TypeOK
  <2>2. pipe' \in Seq(Piece) /\ sent' \in Seq(Piece)
    BY <1>1, EmptySeq
  <2> QED
    BY <1>1, <1>2, <1>3, <2>1, <2>2 DEF TypeInv
<1>5. LastIsCall' /\ ReplyIsOwn'
  BY <1>1, <1>2 DEF LastIsCall, ReplyIsOwn
<1>6. Steady'
  BY <1>1, <1>4, <1>5 DEF Steady
<1> QED
  BY <1>1, <1>2, <1>3, <1>6, NothingRead

(* The head of the stream is no prefix.                                    *)
LEMMA AdriftRead ==
  ASSUME Adrift PROVE ~ReadPrefix /\ ~ReadData /\ ~ReadPartOfData
<1>1. ASSUME ReadPrefix PROVE FALSE
  <2>1. at = "prefix" /\ pipe # <<>> /\ ~IsData(Head(pipe))
    BY <1>1 DEF ReadPrefix
  <2>2. open
    BY <2>1 DEF Adrift, Steady
  <2>3. Stream[1] = Head(pipe)
    BY <2>1, StreamHead DEF Adrift, Steady
  <2> QED
    BY <2>1, <2>2, <2>3 DEF Adrift
<1>2. at # "data"
  BY DEF Adrift
<1> QED
  BY <1>1, <1>2 DEF ReadData, ReadPartOfData

LEMMA AdriftReadsOn ==
  ASSUME Adrift, ReadNoPrefix \/ ReadOn PROVE Adrift'
<1>1. TypeInv /\ LastIsCall /\ ReplyIsOwn /\ call # Nil
  BY DEF Adrift, Steady
<1>2. CASE ReadNoPrefix
  <2>1. /\ at = "prefix" /\ at' = "undefined"
        /\ UNCHANGED <<proto, call, mails, reply, asks, quit, owed, changes, pipe, sent,
                       open, last, cut>>
    BY <1>2 DEF ReadNoPrefix, filterVars, history
  <2>2. TypeInv'
    <3>1. TypeOK'
      BY <1>1, <2>1 DEF TypeInv, TypeOK
    <3> QED
      BY <1>1, <2>1, <3>1 DEF TypeInv
  <2>3. LastIsCall' /\ ReplyIsOwn'
    BY <1>1, <2>1 DEF LastIsCall, Skipped, ReplyIsOwn
  <2>4. Steady'
    BY <2>1, <2>2, <2>3 DEF Adrift, Steady
  <2> QED
    BY <2>1, <2>4, NothingRead DEF Adrift
<1>3. CASE ReadOn
  <2>1. /\ open /\ at = "back" /\ call = "E" /\ reply.code = "h"
        /\ at' = "prefix" /\ reply' = Continue
        /\ UNCHANGED <<proto, call, mails, asks, quit, owed, changes, pipe, sent, open,
                       last, cut>>
    BY <1>3 DEF ReadOn, filterVars, history
  <2>2. call = Last(last) /\ call \notin {Nil, "A", "Q"}
    BY <1>1, <2>1 DEF ReplyIsOwn
  <2>3. TypeInv'
    <3>1. reply' \in [code : {"0"} \cup Codes, to : {Nil} \cup (Commands \X Nat)]
      BY <2>1 DEF Continue, Codes
    <3>2. TypeOK'
      BY <1>1, <2>1 DEF Continue, TypeInv, TypeOK
    <3> QED
      BY <1>1, <2>1, <3>1, <3>2 DEF TypeInv
  <2>4. LastIsCall' /\ ReplyIsOwn'
    BY <1>1, <2>1, <2>2 DEF LastIsCall, Skipped, ReplyIsOwn
  <2>5. Steady'
    BY <2>1, <2>3, <2>4 DEF Adrift, Steady
  <2>6. Stream' = Stream /\ Stream # <<>>
    BY <2>1 DEF Stream, Adrift
  <2> QED
    BY <2>1, <2>5, <2>6, NothingRead DEF Adrift
<1> QED
  BY <1>2, <1>3

(* The filter speaks, what it has said arrives, or it quits.               *)
LEMMA AdriftAround ==
  ASSUME Adrift, pipe' \in Seq(Piece), sent' \in Seq(Piece),
         Stream # <<>> => Stream' # <<>> /\ Stream'[1] = Stream[1],
         owed' \in {Nil, owed}, changes' \in 0..MaxChanges, asks' \in FlagSets \cup {{}},
         quit' \in BOOLEAN, UNCHANGED <<proto, call, at, reply, mails, open, last, cut>>
  PROVE  Adrift'
<1>1. TypeInv /\ LastIsCall /\ ReplyIsOwn /\ cut
  BY DEF Adrift, Steady
<1>2. TypeInv'
  <2>1. TypeOK'
    BY <1>1 DEF TypeInv, TypeOK
  <2> QED
    BY <1>1, <2>1 DEF TypeInv
<1>4. LastIsCall' /\ ReplyIsOwn'
  BY <1>1 DEF LastIsCall, Skipped, ReplyIsOwn
<1>5. Steady'
  BY <1>2, <1>4 DEF Adrift, Steady
<1>6. MidChanges' = MidChanges
  BY DEF MidChanges
<1> QED
  BY <1>5, <1>6, NothingRead DEF Adrift

LEMMA AdriftOwed ==
  ASSUME Adrift, owed # Nil
  PROVE  owed = <<call, mails>> /\ call # "O" /\ owed[1] # "O" /\ owed \in Commands \X Nat
<1>1. owed = <<call, mails>> /\ call # Nil /\ call # "O"
  BY DEF Adrift, Steady
<1>2. call \in Commands /\ mails \in Nat
  BY <1>1, MilterAssumption DEF Adrift, Steady, TypeInv, TypeOK
<1> QED
  BY <1>1, <1>2

LEMMA AdriftAnswers ==
  ASSUME Adrift, (\E code \in {"c", "a", "y"} : Answer(code)) \/ Change PROVE Adrift'
<1>1. owed # Nil /\ UNCHANGED <<proto, call, at, reply, mails, quit, pipe, open, last, cut>>
  BY DEF Answer, Change, clientVars, history
<1>2. owed \in Commands \X Nat
  BY <1>1, AdriftOwed
<1>4. PICK r \in {"c", "a", "y", "h"} : sent' = sent \o Pieces(r, Nil)
  BY DEF Answer, Change
<1>5. /\ owed' \in {Nil, owed} /\ asks' = asks
      /\ changes' = changes \/ (changes < MaxChanges /\ changes' = changes + 1)
  BY DEF Answer, Change
<1>6. changes' \in 0..MaxChanges /\ asks' \in FlagSets \cup {{}} /\ quit' \in BOOLEAN
  <2>1. changes \in 0..MaxChanges /\ asks \in FlagSets \cup {{}} /\ quit \in BOOLEAN
    BY DEF Adrift, Steady, TypeInv, TypeOK
  <2> QED
    BY <1>1, <1>5, <2>1, MilterAssumption
<1> DEFINE x == Pieces(r, Nil)
<1>7. x \in Seq(Piece)
  <2>1. r \in Codes
    BY DEF Codes
  <2> QED
    BY <1>2, <2>1, OneReply
<1> HIDE DEF x
<1>8. sent' = sent \o x
  BY <1>4 DEF x
<1>9. pipe \in Seq(Piece) /\ sent \in Seq(Piece) /\ Stream \in Seq(Piece)
  BY StreamIsSeq DEF Adrift, Steady, TypeInv
<1>10. pipe' \in Seq(Piece) /\ sent' \in Seq(Piece)
  BY <1>1, <1>7, <1>8, <1>9, ConcatProperties
<1>11. Stream' = Stream \o x
  BY <1>1, <1>7, <1>8, <1>9, AppendLater DEF Stream
<1>12. Stream # <<>> => Stream' # <<>> /\ Stream'[1] = Stream[1]
  <2> SUFFICES ASSUME Stream # <<>> PROVE Stream' # <<>> /\ Stream'[1] = Stream[1]
    OBVIOUS
  <2>1. /\ Len(Stream) \in Nat /\ Len(Stream) > 0 /\ Len(x) \in Nat
        /\ Len(Stream \o x) = Len(Stream) + Len(x)
        /\ \A i \in 1..(Len(Stream) + Len(x)) :
             (Stream \o x)[i] = IF i <= Len(Stream) THEN Stream[i] ELSE x[i - Len(Stream)]
    BY <1>7, <1>9, LenProperties, EmptySeq, ConcatProperties
  <2>2. (Stream \o x)[1] = Stream[1] /\ Len(Stream \o x) > 0
    BY <2>1
  <2> QED
    BY <1>11, <2>2
<1> QED
  BY <1>1, <1>5, <1>6, <1>10, <1>12, AdriftAround

LEMMA AdriftNetwork ==
  ASSUME Adrift, Arrive \/ Quit \/ UNCHANGED vars PROVE Adrift'
<1>1. /\ pipe \in Seq(Piece) /\ sent \in Seq(Piece) /\ changes \in 0..MaxChanges
      /\ asks \in FlagSets \cup {{}} /\ quit \in BOOLEAN
  BY DEF Adrift, Steady, TypeInv, TypeOK
<1>2. CASE Arrive
  <2>1. /\ sent # <<>> /\ pipe' = Append(pipe, Head(sent)) /\ sent' = Tail(sent)
        /\ UNCHANGED <<proto, call, at, reply, mails, asks, quit, owed, changes, open,
                       last, cut>>
    BY <1>2 DEF Arrive, clientVars, filterVars, history
  <2>2. pipe' \in Seq(Piece) /\ sent' \in Seq(Piece) /\ Stream' = Stream
    BY <2>1, StreamMoves DEF Adrift, Steady, Stream
  <2> QED
    BY <1>1, <2>1, <2>2, AdriftAround
<1>3. CASE Quit \/ UNCHANGED vars
  <2>1. /\ quit' \in {TRUE, quit} /\ owed' \in {Nil, owed}
        /\ UNCHANGED <<proto, call, at, reply, mails, asks, changes, pipe, sent, open,
                       last, cut>>
    BY <1>3 DEF Quit, vars, clientVars, filterVars, history
  <2>2. Stream' = Stream
    BY <2>1 DEF Stream
  <2> QED
    BY <1>1, <2>1, <2>2, AdriftAround
<1> QED
  BY <1>2, <1>3

(* Only a read of a part of the data cuts a reply.                         *)
LEMMA CutBy ==
  ASSUME [Next]_vars, ~ReadPartOfData PROVE cut' = cut
BY DEF Next, CallSkipped, CallSent, CallFails, ReadPrefix, ReadData, ReadFails, ReadNoPrefix,
       ReadOn, Negotiate, Answer, Change, Arrive, Quit, Tell, vars, history

LEMMA MilterInvNext ==
  ASSUME MilterInv, [Next]_vars, ~ReadPartOfData PROVE MilterInv'
<1>1. ASSUME NEW c \in Commands, CallSkipped(c) \/ CallSent(c) \/ CallFails(c)
      PROVE  MilterInv'
  BY <1>1, SkipKeeps, CallSentKeeps, CallFailsKeeps
<1>2. CASE ReadPrefix \/ ReadData \/ ReadFails
  BY <1>2, ReadPrefixKeeps, ReadDataKeeps, ReadFailsKeeps
<1>3. CASE ReadNoPrefix \/ ReadOn
  BY <1>3, ReadNoPrefixKeeps, ReadOnKeeps
<1>4. ASSUME NEW flags \in FlagSets, Negotiate(flags) PROVE MilterInv'
  BY <1>4, NegotiateKeeps
<1>5. ASSUME NEW code \in {"c", "a", "y"}, Answer(code) PROVE MilterInv'
  BY <1>5, AnswerKeeps
<1>6. CASE Change \/ Arrive \/ Quit
  BY <1>6, ChangeKeeps, ArriveKeeps, QuitKeeps
<1>7. CASE UNCHANGED vars
  BY <1>7, StutterKeeps
<1> QED
  BY <1>1, <1>2, <1>3, <1>4, <1>5, <1>6, <1>7, Zenon DEF Next

LEMMA AdriftNext == ASSUME Adrift, [Next]_vars PROVE Adrift'
<1>1. ASSUME NEW c \in Commands, CallSkipped(c) \/ CallSent(c) PROVE Adrift'
  BY <1>1, AdriftSkip, AdriftSend
<1>2. ASSUME NEW c \in Commands, CallFails(c) PROVE Adrift'
  BY <1>2, AdriftFails DEF CallFails
<1>3. CASE ReadPrefix \/ ReadData \/ ReadPartOfData
  BY <1>3, AdriftRead
<1>4. CASE ReadFails
  BY <1>4, AdriftFails DEF ReadFails
<1>5. CASE ReadNoPrefix \/ ReadOn
  BY <1>5, AdriftReadsOn
<1>6. ASSUME NEW flags \in FlagSets, Negotiate(flags) PROVE Adrift'
  BY <1>6, AdriftOwed DEF Negotiate
<1>7. ASSUME NEW code \in {"c", "a", "y"}, Answer(code) PROVE Adrift'
  BY <1>7, AdriftAnswers
<1>8. CASE Change
  BY <1>8, AdriftAnswers
<1>9. CASE Arrive \/ Quit \/ UNCHANGED vars
  BY <1>9, AdriftNetwork
<1> QED
  BY <1>1, <1>2, <1>3, <1>4, <1>5, <1>6, <1>7, <1>8, <1>9, Zenon DEF Next

LEMMA InvNext == Inv /\ [Next]_vars => Inv'
<1> SUFFICES ASSUME Inv, [Next]_vars PROVE Inv'
  OBVIOUS
<1>1. CASE Adrift
  BY <1>1, AdriftNext DEF Inv
<1>2. CASE ~cut /\ MilterInv /\ ReadPartOfData
  BY <1>2, CutOff DEF Inv
<1>3. CASE ~cut /\ MilterInv /\ ~ReadPartOfData
  BY <1>3, CutBy, MilterInvNext DEF Inv
<1> QED
  BY <1>1, <1>2, <1>3 DEF Inv

LEMMA InvHolds == Spec => []Inv
<1>1. Init => Inv
  BY MilterInvInit DEF Init, Inv
<1> QED
  BY <1>1, InvNext, PTL DEF Spec

-----------------------------------------------------------------------------
(* The variables of the client keep their types, and the flags it tests    *)
(* are the filter's (spnkmiltercli.cpp, negotiate()).                      *)
THEOREM TypeCorrect == Spec => []TypeOK
<1>1. Inv => TypeOK
  BY InvSteady DEF Steady, TypeInv
<1> QED
  BY <1>1, InvHolds, PTL

(* However many mails go over a connection, and whatever the filter skips, *)
(* changes and decides, each reply the application sees is the filter's to *)
(* the command it has called, and no call waits for a reply that is not to *)
(* come; and nothing of a reply is left behind, unless time has run out    *)
(* amid its data (spnkmiltercli.cpp, readReply()).                         *)
THEOREM InStepHolds == Spec => []InStep
<1>1. Inv => NotInVain
  <2> SUFFICES ASSUME Inv, at \in {"prefix", "data"}, pipe = <<>>, sent = <<>>,
                      owed = Nil, ~quit
               PROVE  FALSE
    BY DEF NotInVain
  <2>1. Stream = <<>>
    BY EmptyConcat DEF Stream
  <2>2. ~Ended(Stream)
    BY <2>1 DEF Ended
  <2>3. CASE MilterInv
    BY <2>2, <2>3 DEF MilterInv, WillEnd
  <2>4. CASE Adrift
    BY <2>1, <2>4 DEF Adrift, Steady
  <2> QED
    BY <2>3, <2>4 DEF Inv
<1>2. Inv => InStep
  BY <1>1, InvSteady DEF Steady, InStep
<1> QED
  BY <1>2, InvHolds, PTL

-----------------------------------------------------------------------------
(* The order of the commands.                                              *)
StageSet == {"O", "C", "H", "M", "R", "L", "N", "B", "E"}

LEMMA PlaceIs ==
  /\ ToSet(Stages) = StageSet
  /\ Place("O") = 1 /\ Place("C") = 2 /\ Place("H") = 3 /\ Place("M") = 4 /\ Place("R") = 5
  /\ Place("L") = 6 /\ Place("N") = 7 /\ Place("B") = 8 /\ Place("E") = 9
  /\ \A c \in StageSet : Place(c) \in 1..9 /\ Stages[Place(c)] = c
  /\ \A i \in 1..9 : Stages[i] \in StageSet /\ Place(Stages[i]) = i
  /\ \A c : c \notin StageSet => Place(c) = 0
<1>1. DOMAIN Stages = 1..9 /\ Len(Stages) = 9
  BY DEF Stages
<1>2. /\ Stages[1] = "O" /\ Stages[2] = "C" /\ Stages[3] = "H" /\ Stages[4] = "M"
      /\ Stages[5] = "R" /\ Stages[6] = "L" /\ Stages[7] = "N" /\ Stages[8] = "B"
      /\ Stages[9] = "E"
  BY DEF Stages
<1>3. \A i \in 1..9 : i = 1 \/ i = 2 \/ i = 3 \/ i = 4 \/ i = 5 \/ i = 6 \/ i = 7 \/ i = 8 \/ i = 9
  BY SMT
<1>4. ToSet(Stages) = {Stages[i] : i \in 1..9}
  BY <1>1 DEF ToSet
<1>5. \A i \in 1..9 : Stages[i] \in StageSet
  BY <1>2, <1>3 DEF StageSet
<1>6. ToSet(Stages) = StageSet
  <2>1. \A c \in StageSet : \E i \in 1..9 : Stages[i] = c
    BY <1>2 DEF StageSet
  <2> QED
    BY <1>4, <1>5, <2>1
<1>7. \A i, j \in 1..9 : Stages[i] = Stages[j] => i = j
  BY <1>2, <1>3
<1>8. \A i \in 1..9 : Place(Stages[i]) = i
  BY <1>1, <1>5, <1>6, <1>7 DEF Place
<1>9. \A c \in StageSet : \E i \in 1..9 : Stages[i] = c
  BY <1>2 DEF StageSet
<1>10. \A c \in StageSet : Place(c) \in 1..9 /\ Stages[Place(c)] = c
  BY <1>8, <1>9
<1>11. \A c : c \notin StageSet => Place(c) = 0
  BY <1>6 DEF Place
<1>12. /\ Place("O") = 1 /\ Place("C") = 2 /\ Place("H") = 3 /\ Place("M") = 4
       /\ Place("R") = 5 /\ Place("L") = 6 /\ Place("N") = 7 /\ Place("B") = 8 /\ Place("E") = 9
  <2>1. /\ 1 \in 1..9 /\ 2 \in 1..9 /\ 3 \in 1..9 /\ 4 \in 1..9 /\ 5 \in 1..9
        /\ 6 \in 1..9 /\ 7 \in 1..9 /\ 8 \in 1..9 /\ 9 \in 1..9
    BY SMT
  <2> QED
    BY <1>2, <1>8, <2>1
<1> QED
  BY <1>5, <1>6, <1>8, <1>10, <1>11, <1>12

(* The places between two, within a session or over the end of a mail.     *)
Gap(p, y, k) == IF p < k THEN p < y /\ y < k ELSE y > p \/ (4 <= y /\ y < k)

LEMMA BetweenIs ==
  ASSUME NEW c \in StageSet, NEW d \in StageSet
  PROVE  \A x : x \in Between(c, d) <=> x \in StageSet /\ Gap(Place(c), Place(x), Place(d))
<1>1. Len(Stages) = 9 /\ Place("M") = 4
  BY PlaceIs DEF Stages
<1>2. Place(c) \in 1..9 /\ Place(d) \in 1..9
  BY PlaceIs
<1>3. CASE Place(c) < Place(d)
  <2>1. Between(c, d) = {Stages[i] : i \in Place(c) + 1 .. Place(d) - 1}
    BY <1>3 DEF Between
  <2>2. \A i : i \in Place(c) + 1 .. Place(d) - 1 <=> i \in 1..9 /\ Gap(Place(c), i, Place(d))
    BY <1>2, <1>3 DEF Gap
  <2> QED
    BY <2>1, <2>2, PlaceIs
<1>4. CASE ~(Place(c) < Place(d))
  <2>1. Between(c, d) = {Stages[i] : i \in (Place(c) + 1 .. 9) \cup (4 .. Place(d) - 1)}
    BY <1>1, <1>4 DEF Between
  <2>2. \A i : i \in (Place(c) + 1 .. 9) \cup (4 .. Place(d) - 1)
               <=> i \in 1..9 /\ Gap(Place(c), i, Place(d))
    BY <1>2, <1>4 DEF Gap
  <2> QED
    BY <2>1, <2>2, PlaceIs
<1> QED
  BY <1>3, <1>4

(* The application goes on to the next stage, to another recipient, or to  *)
(* the next mail.                                                          *)
NextStage(c) ==
  \/ call \in StageSet /\ Place(c) = Place(call) + 1
  \/ c = "R" /\ call = "R"
  \/ c = "M" /\ call \in {"A", "E"}

LEMMA MayCallNext ==
  ASSUME NEW c \in Commands, MayCall(c), c \notin {"O", "A", "Q"}
  PROVE  c \in StageSet /\ NextStage(c) /\ call # Nil
<1>1. c \in StageSet
  BY PlaceIs DEF Commands
<1>2. Nil \notin StageSet /\ Nil # "A" /\ \A d \in StageSet : d # "A" /\ d # Nil
  BY InCommands, MilterAssumption DEF StageSet
<1>3. CASE c = "M"
  <2>1. call \in {"A", "E", "H"}
    BY <1>3 DEF MayCall, MailDone
  <2> QED
    BY <1>1, <1>2, <1>3, <2>1, PlaceIs, InCommands, MilterAssumption DEF NextStage, StageSet
<1>4. CASE c = "R"
  <2>1. call \in {"M", "R"}
    BY <1>4 DEF MayCall
  <2> QED
    BY <1>1, <1>2, <1>4, <2>1, PlaceIs DEF NextStage, StageSet
<1>5. CASE c = "C"
  <2>1. call = "O"
    BY <1>5 DEF MayCall
  <2> QED
    BY <1>1, <1>2, <1>5, <2>1, PlaceIs DEF NextStage, StageSet
<1>6. CASE c \notin {"M", "R", "C"}
  <2>1. Place(c) = Place(call) + 1
    BY <1>6 DEF MayCall
  <2>2. call \in StageSet
    <3>1. Place(c) # 1
      BY <1>1, PlaceIs
    <3> QED
      BY <2>1, <3>1, PlaceIs
  <2> QED
    BY <1>1, <1>2, <2>1, <2>2 DEF NextStage
<1> QED
  BY <1>3, <1>4, <1>5, <1>6

(* Every command since d, up to this one, was skipped.                     *)
SkippedSince(d, c) ==
  /\ d \in Commands \ {"Q"} /\ c \in StageSet
  /\ Between(StageOf(d), c) \subseteq Unwanted /\ c \in Unwanted
  /\ d = "A" => Place(c) >= 4

LEMMA GapGrows ==
  ASSUME NEW p \in 1..9, NEW y \in 1..9, NEW k \in 1..9, NEW m \in Int, p # k,
         m = k + 1 \/ (m = 5 /\ k = 5) \/ (m = 4 /\ k = 9), Gap(p, y, m)
  PROVE  Gap(p, y, k) \/ y = k
BY SMT DEF Gap

LEMMA NoGap ==
  ASSUME NEW p \in 1..9, NEW y \in 1..9, NEW m \in Int, m = p + 1 \/ (p = 9 /\ m = 4)
  PROVE  ~Gap(p, y, m)
BY SMT DEF Gap

(* What lies between the last command sent and the next call was skipped.  *)
LEMMA Advance ==
  ASSUME NEW d \in Commands \ {"Q"}, call = d \/ SkippedSince(d, call),
         NEW c \in StageSet, NextStage(c), <<d, c>> # <<"R", "R">>
  PROVE  Between(StageOf(d), c) \subseteq Unwanted /\ (d = "A" => Place(c) >= 4)
<1> DEFINE s == StageOf(d)
           p == Place(s)
           m == Place(c)
           k == Place(call)
<1>1. s \in StageSet /\ (d # "A" => s = d) /\ (d = "A" => p = 3)
  BY PlaceIs DEF StageOf, Commands, StageSet
<1>2. p \in 1..9 /\ m \in 1..9
  BY <1>1, PlaceIs
<1>3. "A" \notin StageSet
  BY DEF StageSet
<1> SUFFICES (\A x \in StageSet : Gap(p, Place(x), m) => x \in Unwanted) /\ (d = "A" => m >= 4)
  BY <1>1, BetweenIs
<1> HIDE DEF s, p, m, k
<1>4. CASE call = d
  <2>1. m = p + 1 \/ (p = 9 /\ m = 4)
    <3>1. CASE d = "A"
      <4>1. m = 4
        BY <1>3, <1>4, <3>1, PlaceIs DEF NextStage, m
      <4> QED
        BY <1>1, <3>1, <4>1
    <3>2. CASE d # "A"
      <4>1. p = k /\ (d = "E" => p = 9)
        BY <1>1, <1>4, <3>2, PlaceIs DEF p, k
      <4>2. m = k + 1 \/ (c = "M" /\ d = "E")
        BY <1>4, <3>2 DEF NextStage, m, k
      <4> QED
        BY <4>1, <4>2, PlaceIs DEF m
    <3> QED
      BY <3>1, <3>2
  <2>2. \A x \in StageSet : ~Gap(p, Place(x), m)
    BY <1>2, <2>1, NoGap, PlaceIs
  <2>3. d = "A" => m >= 4
    BY <1>1, <2>1
  <2> QED
    BY <2>2, <2>3
<1>5. CASE call # d
  <2>1. SkippedSince(d, call)
    BY <1>5
  <2>2. call \in StageSet /\ call \in Unwanted /\ (d = "A" => k >= 4)
    BY <2>1 DEF SkippedSince, k
  <2>3. k \in 1..9 /\ \A x \in StageSet : Place(x) = k => x = call
    BY <2>2, PlaceIs DEF k
  <2>4. \A x \in StageSet : Gap(p, Place(x), k) => x \in Unwanted
    BY <1>1, <2>1, <2>2, BetweenIs DEF SkippedSince, s, p, k
  <2>5. p # k
    <3>1. CASE d = "A"
      BY <1>1, <2>2, <2>3, <3>1
    <3>2. CASE d # "A"
      BY <1>1, <1>5, <2>3, <3>2 DEF p
    <3> QED
      BY <3>1, <3>2
  <2>6. m = k + 1 \/ (m = 5 /\ k = 5) \/ (m = 4 /\ k = 9)
    BY <1>3, <2>2, PlaceIs DEF NextStage, m, k
  <2>7. ASSUME NEW x \in StageSet, Gap(p, Place(x), m) PROVE x \in Unwanted
    <3>1. Place(x) \in 1..9
      BY PlaceIs
    <3>2. Gap(p, Place(x), k) \/ Place(x) = k
      BY <1>2, <2>3, <2>5, <2>6, <2>7, <3>1, GapGrows
    <3> QED
      BY <2>2, <2>3, <2>4, <3>2
  <2>8. d = "A" => m >= 4
    BY <2>2, <2>3, <2>6
  <2> QED
    BY <2>7, <2>8
<1> QED
  BY <1>4, <1>5

(* The answer to the negotiation, and the flags in the data of it.         *)
Flagged(p) == p.code = "O" /\ (~p.data => asks = IF p.flags = Nil THEN {} ELSE p.flags)

(* The client tests what the filter has asked for, once the negotiation is *)
(* over; before that the flags are under way.                              *)
FlagsTold ==
  /\ call = Nil => asks = {} /\ proto = {}
  /\ call \notin {Nil, "O"} => proto = asks
  /\ call = "O" /\ at = "back" /\ open => proto = asks
  /\ call = "O" /\ at \in {"prefix", "data"} =>
       /\ proto = {} /\ (owed # Nil => asks = {})
       /\ \A i \in 1..Len(Stream) : Flagged(Stream[i])

(* All that lies between the last command sent and the last call was       *)
(* skipped.                                                                *)
SinceLast ==
  open /\ call # Nil => call # "Q" /\ (call = Last(last) \/ SkippedSince(Last(last), call))

OrderInv == FlagsTold /\ SinceLast /\ InOrder

LEMMA SkippedIs ==
  ASSUME Steady, proto = asks, NEW c PROVE Skipped(c) <=> c \in Unwanted
<1>1. asks \subseteq {"C", "H", "M", "R", "L", "N", "B"}
  BY DEF Steady, LastIsCall
<1>2. "E" \notin asks
  BY <1>1
<1> QED
  BY <1>2 DEF Skipped, Unwanted

(* Before a call, unless it is the first.                                  *)
LEMMA CallsFollow ==
  ASSUME Steady, OrderInv, NEW c \in Commands, MayCall(c), c # "O"
  PROVE  /\ call # Nil /\ open /\ at = "back" /\ proto = asks
         /\ last # <<>> /\ Last(last) \in Commands \ {"Q"} /\ Last(last) # Nil
         /\ c \notin {"A", "Q"} => c \in StageSet /\ NextStage(c)
         /\ call = Last(last) \/ SkippedSince(Last(last), call)
<1>1. open /\ at = "back"
  BY DEF MayCall
<1>2. call # Nil
  <2>1. c \in {"A", "Q"} => call # Nil
    BY InCommands, MilterAssumption DEF MayCall, MidMail, MailDone
  <2> QED
    BY <2>1, MayCallNext
<1>3. proto = asks
  BY <1>1, <1>2 DEF OrderInv, FlagsTold
<1>4. last # <<>> /\ call \in Commands /\ call # "Q"
  BY <1>1, <1>2 DEF Steady, LastIsCall, TypeInv, TypeOK, OrderInv, SinceLast
<1>5. call = Last(last) \/ SkippedSince(Last(last), call)
  BY <1>1, <1>2 DEF OrderInv, SinceLast
<1>6. Last(last) \in Commands \ {"Q"}
  BY <1>4, <1>5 DEF SkippedSince
<1>7. Last(last) # Nil
  BY <1>6, MilterAssumption
<1> QED
  BY <1>1, <1>2, <1>3, <1>4, <1>5, <1>6, <1>7, MayCallNext

LEMMA SkipOrdered ==
  ASSUME Steady, OrderInv, NEW c \in Commands, CallSkipped(c) PROVE OrderInv'
<1>1. /\ MayCall(c) /\ Skipped(c) /\ call' = c
      /\ UNCHANGED <<proto, at, asks, quit, owed, pipe, sent, open, last, before>>
  BY DEF CallSkipped, filterVars, history
<1>2. c \notin {"O", "A", "Q"} /\ c # Nil
  <2>1. c \in {"C", "H", "M", "R", "L", "N", "B", "E"}
    BY <1>1 DEF Skipped, Steady, LastIsCall
  <2> QED
    BY <2>1, MilterAssumption
<1> DEFINE d == Last(last)
<1>3. /\ open /\ proto = asks /\ last # <<>> /\ d \in Commands \ {"Q"}
      /\ c \in StageSet /\ NextStage(c) /\ (call = d \/ SkippedSince(d, call))
  BY <1>1, <1>2, CallsFollow
<1>4. c \in Unwanted
  BY <1>1, <1>3, SkippedIs
<1>5. d \notin Unwanted
  <2>1. ~Skipped(d)
    BY <1>3, CallsFollow, <1>1, <1>2 DEF Steady, LastIsCall
  <2> QED
    BY <1>3, <2>1, SkippedIs
<1>6. SkippedSince(d, c)
  <2>1. <<d, c>> # <<"R", "R">>
    BY <1>4, <1>5
  <2> QED
    BY <1>3, <1>4, <2>1, Advance DEF SkippedSince
<1>7. Unwanted' = Unwanted /\ Last(last') = d
  BY <1>1 DEF Unwanted
<1>8. SinceLast'
  BY <1>1, <1>2, <1>6, <1>7 DEF SinceLast, SkippedSince, Between
<1>9. FlagsTold'
  BY <1>1, <1>2, <1>3 DEF FlagsTold
<1>10. InOrder'
  BY <1>1, <1>7 DEF OrderInv, InOrder, Follows
<1> QED
  BY <1>8, <1>9, <1>10 DEF OrderInv

LEMMA SendOrdered ==
  ASSUME Inv, OrderInv, NEW c \in Commands, CallSent(c) PROVE OrderInv'
<1>1. /\ MayCall(c) /\ ~Skipped(c) /\ call' = c /\ open' = (c # "Q")
      /\ c \notin {"A", "Q"} => at' = "prefix"
      /\ last' = Packets(c) /\ before' = (IF last = <<>> THEN Nil ELSE Last(last))
      /\ UNCHANGED <<proto, asks, quit, pipe, sent>>
  BY DEF CallSent, Answered, Tell
<1>2. Steady
  BY InvSteady
<1>3. last' # <<>> /\ Last(last') = c /\ c # Nil /\ c # "D"
  <2>1. "D" \notin Commands
    BY PlaceIs DEF Commands, StageSet
  <2> QED
    BY <1>1, <2>1, PacketsType, MilterAssumption
<1>4. Unwanted' = Unwanted
  BY <1>1 DEF Unwanted
<1>5. SinceLast'
  BY <1>1, <1>3 DEF SinceLast
<1>6. CASE c = "O"
  <2>1. call = Nil /\ asks = {} /\ proto = {}
    BY <1>1, <1>6 DEF MayCall, OrderInv, FlagsTold
  <2>2. MilterInv
    BY <2>1 DEF Inv, Adrift
  <2>4. Stream' = <<>> /\ Len(Stream') = 0
    BY <1>1, <2>2, MayCallQuiet, EmptyConcat DEF Stream
  <2>5. FlagsTold'
    BY <1>1, <1>3, <1>6, <2>1, <2>4 DEF FlagsTold
  <2>3. InOrder'
    BY <1>3, <1>6 DEF InOrder
  <2> QED
    BY <1>5, <2>3, <2>5 DEF OrderInv
<1>7. CASE c # "O"
  <2> DEFINE d == Last(last)
  <2>1. /\ proto = asks /\ last # <<>> /\ d \in Commands \ {"Q"} /\ d # Nil
        /\ c \notin {"A", "Q"} => c \in StageSet /\ NextStage(c)
        /\ call = d \/ SkippedSince(d, call)
    BY <1>1, <1>2, <1>7, CallsFollow
  <2>2. c \notin Unwanted
    BY <1>1, <1>2, <2>1, SkippedIs
  <2>3. before' = d
    BY <1>1, <2>1
  <2> HIDE DEF d
  <2>4. Follows(d, c)
    <3>1. CASE c \in {"A", "Q"} \/ <<d, c>> = <<"R", "R">>
      BY <3>1 DEF Follows
    <3>2. CASE ~(c \in {"A", "Q"} \/ <<d, c>> = <<"R", "R">>)
      <4>1. Between(StageOf(d), c) \subseteq Unwanted
        BY <2>1, <3>2, Advance
      <4> QED
        BY <4>1 DEF Follows
    <3> QED
      BY <3>1, <3>2
  <2>5. InOrder'
    BY <1>3, <1>4, <2>1, <2>2, <2>3, <2>4 DEF InOrder, Follows
  <2>6. FlagsTold'
    BY <1>1, <1>3, <1>7, <2>1 DEF FlagsTold
  <2> QED
    BY <1>5, <2>5, <2>6 DEF OrderInv
<1> QED
  BY <1>6, <1>7

(* Only the flags can be disturbed by a step that is not a call.           *)
LEMMA OrderSame ==
  ASSUME OrderInv, UNCHANGED <<asks, call, open, last, before>>, FlagsTold'
  PROVE  OrderInv'
<1>1. Unwanted' = Unwanted
  BY DEF Unwanted
<1>2. SinceLast'
  BY <1>1 DEF OrderInv, SinceLast, SkippedSince, Between
<1>3. InOrder'
  BY <1>1 DEF OrderInv, InOrder, Follows
<1> QED
  BY <1>2, <1>3 DEF OrderInv

LEMMA FlagsKept ==
  ASSUME OrderInv, UNCHANGED <<asks, proto, call, open>>,
         \/ call # "O"
         \/ at' = at /\ Stream' = Stream /\ (owed' # Nil => owed # Nil)
         \/ at' = "undefined"
  PROVE  FlagsTold'
<1>1. CASE call # "O"
  BY <1>1 DEF OrderInv, FlagsTold
<1>2. CASE at' = at /\ Stream' = Stream /\ (owed' # Nil => owed # Nil)
  BY <1>2 DEF OrderInv, FlagsTold, Flagged
<1>3. CASE at' = "undefined"
  BY <1>3 DEF OrderInv, FlagsTold
<1> QED
  BY <1>1, <1>2, <1>3

LEMMA FailOrdered ==
  ASSUME OrderInv, Fail, UNCHANGED history \/ Tell(<<"D">>) PROVE OrderInv'
<1>1. at' = "back" /\ open' = FALSE /\ UNCHANGED <<proto, call, asks>>
  BY DEF Fail
<1>2. FlagsTold'
  BY <1>1 DEF OrderInv, FlagsTold
<1>3. SinceLast'
  BY <1>1 DEF SinceLast
<1>4. InOrder'
  <2>1. CASE UNCHANGED history
    <3>1. last' = last /\ before' = before /\ Unwanted' = Unwanted
      BY <1>1, <2>1 DEF history, Unwanted
    <3> QED
      BY <1>1, <3>1 DEF OrderInv, InOrder, Follows
  <2>2. CASE Tell(<<"D">>)
    <3>1. Last(last') = "D"
      BY <2>2 DEF Tell, Last
    <3> QED
      BY <1>1, <3>1 DEF InOrder
  <2> QED
    BY <2>1, <2>2
<1> QED
  BY <1>2, <1>3, <1>4 DEF OrderInv

LEMMA CallFailsOrdered ==
  ASSUME OrderInv, NEW c \in Commands, CallFails(c) PROVE OrderInv'
BY FailOrdered DEF CallFails

LEMMA ReadFailsOrdered == ASSUME OrderInv, ReadFails PROVE OrderInv'
BY FailOrdered DEF ReadFails

(* A read of a piece: the flags come with the data of a reply.             *)
LEMMA ReadPrefixOrdered == ASSUME MilterInv, OrderInv, ReadPrefix PROVE OrderInv'
<1> DEFINE p == Head(pipe)
<1>1. /\ at = "prefix" /\ pipe # <<>> /\ pipe' = Tail(pipe) /\ proto' = proto
      /\ p.data => at' = "data"
      /\ ~p.data => at' = "back"
      /\ UNCHANGED <<call, asks, owed, sent, open, last, before>>
  BY DEF ReadPrefix, Return, filterVars, history
<1>2. /\ Stream \in Seq(Piece) /\ Stream # <<>> /\ Stream[1] = p /\ p \in Piece
      /\ Stream' = Tail(Stream)
  <2>1. /\ Stream # <<>> /\ Stream[1] = p /\ p \in Piece
        /\ Tail(pipe) \o sent = Tail(Stream)
    BY <1>1, StreamHead DEF MilterInv
  <2>2. Stream' = Tail(pipe) \o sent
    BY <1>1 DEF Stream
  <2> QED
    BY <2>1, <2>2, StreamIsSeq DEF MilterInv
<1>3. /\ Len(Stream) \in Nat /\ Len(Stream) > 0
      /\ Len(Tail(Stream)) = Len(Stream) - 1
      /\ \A i \in 1..Len(Tail(Stream)) : Tail(Stream)[i] = Stream[i + 1]
  BY <1>2, Popped
<1>4. CASE call = "O"
  <2>1. \A i \in 1..Len(Stream) : Flagged(Stream[i])
    BY <1>1, <1>4 DEF OrderInv, FlagsTold
  <2>2. p.code = "O"
    BY <1>2, <1>3, <2>1 DEF Flagged
  <2>3. p.data
    <3>1. Framed(Stream, FALSE)
      <4>1. (at = "data") = FALSE
        BY <1>1
      <4> QED
        BY <1>1, <4>1 DEF MilterInv, Whole
    <3>2. ~IsData(p)
      BY <1>2, <1>3, <3>1 DEF Framed
    <3> QED
      BY <2>2, <3>2 DEF IsData, CodesWithData
  <2>4. \A i \in 1..Len(Tail(Stream)) : Flagged(Tail(Stream)[i])
    <3>1. \A i \in 1..Len(Tail(Stream)) : i + 1 \in 1..Len(Stream)
      BY <1>3
    <3> QED
      BY <1>3, <2>1, <3>1
  <2>5. FlagsTold'
    BY <1>1, <1>2, <1>4, <2>3, <2>4, MilterAssumption, InCommands
       DEF OrderInv, FlagsTold, Flagged
  <2> QED
    BY <1>1, <2>5, OrderSame
<1>5. CASE call # "O"
  BY <1>1, <1>5, FlagsKept, OrderSame
<1> QED
  BY <1>4, <1>5

LEMMA ReadDataOrdered == ASSUME MilterInv, OrderInv, ReadData PROVE OrderInv'
<1> DEFINE p == Head(pipe)
<1>1. /\ at = "data" /\ pipe # <<>> /\ at' = "back"
      /\ proto' = (IF call = "O" /\ p.flags # Nil THEN p.flags ELSE proto)
      /\ UNCHANGED <<call, asks, owed, sent, open, last, before>>
  BY DEF ReadData, Return, filterVars, history
<1>2. Stream \in Seq(Piece) /\ Stream # <<>> /\ Stream[1] = p
  BY <1>1, StreamHead, StreamIsSeq DEF MilterInv
<1>3. CASE call = "O"
  <2>1. 1 \in 1..Len(Stream)
    <3>1. Len(Stream) \in Nat /\ Len(Stream) > 0
      BY <1>2, Popped
    <3> QED
      BY <3>1
  <2>2. Flagged(p) /\ proto = {}
    BY <1>1, <1>2, <1>3, <2>1 DEF OrderInv, FlagsTold
  <2>3. ~p.data
    <3>1. Framed(Stream, TRUE)
      BY <1>1 DEF MilterInv, Whole
    <3> QED
      BY <1>2, <3>1 DEF Framed, IsData
  <2>4. proto' = asks
    BY <1>1, <1>3, <2>2, <2>3 DEF Flagged
  <2>5. FlagsTold'
    BY <1>1, <1>3, <2>4, MilterAssumption, InCommands DEF FlagsTold
  <2> QED
    BY <1>1, <2>5, OrderSame
<1>4. CASE call # "O"
  BY <1>1, <1>4, FlagsKept, OrderSame
<1> QED
  BY <1>3, <1>4

LEMMA ReadOnOrdered == ASSUME OrderInv, ReadOn PROVE OrderInv'
<1>1. call # "O" /\ UNCHANGED <<asks, proto, call, open, last, before>>
  BY DEF ReadOn, filterVars, history
<1> QED
  BY <1>1, FlagsKept, OrderSame

LEMMA ReadNoPrefixOrdered == ASSUME OrderInv, ReadNoPrefix PROVE OrderInv'
<1>1. at' = "undefined" /\ UNCHANGED <<asks, proto, call, open, last, before>>
  BY DEF ReadNoPrefix, filterVars, history
<1> QED
  BY <1>1, FlagsKept, OrderSame

(* A part of the data may hold the flags.                                  *)
LEMMA ReadPartOfDataOrdered ==
  ASSUME MilterInv, OrderInv, ReadPartOfData PROVE OrderInv'
<1> DEFINE p == Head(sent)
<1>1. /\ at = "data" /\ pipe = <<>> /\ sent # <<>>
      /\ UNCHANGED <<call, asks, owed, pipe, sent, open, last, before>>
  BY DEF ReadPartOfData, filterVars
<1>2. \/ at' = "back" /\ proto' = (IF call = "O" /\ p.flags # Nil THEN p.flags ELSE proto)
      \/ at' = "undefined" /\ proto' = proto
  BY DEF ReadPartOfData, Return
<1>3. CASE call # "O" \/ at' = "undefined"
  <2>1. proto' = proto
    BY <1>2, <1>3
  <2> QED
    BY <1>1, <1>3, <2>1, FlagsKept, OrderSame
<1>4. CASE call = "O" /\ at' = "back"
  <2>1. Stream = sent /\ sent \in Seq(Piece)
    <3>1. sent \in Seq(Piece)
      BY DEF MilterInv, TypeInv
    <3> QED
      BY <1>1, <3>1, ConcatEmptySeq DEF Stream
  <2>2. Stream[1] = p /\ 1 \in 1..Len(Stream)
    <3>1. Len(Stream) \in Nat /\ Len(Stream) > 0 /\ Stream[1] = p
      BY <1>1, <2>1, Popped
    <3> QED
      BY <3>1
  <2>3. Flagged(p) /\ proto = {}
    BY <1>1, <1>4, <2>2 DEF OrderInv, FlagsTold
  <2>4. ~p.data
    BY <1>1, <2>2 DEF MilterInv, Whole, Framed, IsData
  <2>5. proto' = asks
    BY <1>2, <1>4, <2>3, <2>4 DEF Flagged
  <2>6. FlagsTold'
    BY <1>1, <1>4, <2>5, MilterAssumption, InCommands DEF FlagsTold
  <2> QED
    BY <1>1, <2>6, OrderSame
<1> QED
  BY <1>2, <1>3, <1>4

(* The filter asks for what its answer to the negotiation says.            *)
LEMMA NegotiateOrdered ==
  ASSUME MilterInv, OrderInv, NEW flags \in FlagSets, Negotiate(flags) PROVE OrderInv'
<1>1. /\ owed # Nil /\ owed[1] = "O" /\ owed' = Nil
      /\ UNCHANGED <<proto, call, at, pipe, open, last, before>>
  BY DEF Negotiate, clientVars, history
<1>2. call = "O" /\ call # Nil
  BY <1>1, OwedType, InCommands, MilterAssumption
<1>3. at # "back"
  <2>1. ~MidChanges
    BY <1>2 DEF MidChanges
  <2> QED
    BY <1>1, <2>1 DEF MilterInv, OneAtATime
<1>4. Last(last) = "O"
  BY <1>2, <1>3 DEF MilterInv, LastIsCall
<1>5. SinceLast'
  BY <1>1, <1>2, <1>4 DEF SinceLast
<1>6. InOrder'
  BY <1>1, <1>4 DEF InOrder
<1>7. CASE at \in {"prefix", "data"}
  <2>1. /\ proto = {} /\ asks = {} /\ \A i \in 1..Len(Stream) : Flagged(Stream[i])
    BY <1>1, <1>2, <1>7 DEF OrderInv, FlagsTold
  <2>2. Stream = <<>>
    <3>1. \A i \in 1..Len(Stream) : Stream[i].code = "h"
      BY <1>1 DEF MilterInv, OneAtATime
    <3>2. 1 \notin 1..Len(Stream)
      BY <2>1, <3>1 DEF Flagged
    <3>3. Stream \in Seq(Piece)
      BY StreamIsSeq DEF MilterInv
    <3> QED
      BY <3>2, <3>3, Popped
  <2>3. pipe = <<>> /\ sent = <<>>
    BY <2>2, StreamEmpty DEF MilterInv
  <2>4. PICK f \in {flags, Nil} :
          sent' = sent \o Pieces("O", f) /\ asks' = IF f = Nil THEN {} ELSE f
    <3>1. flags # Nil
      BY MilterAssumption
    <3> QED
      BY <2>1, <3>1 DEF Negotiate
  <2> DEFINE x == Pieces("O", f)
  <2>5. x \in Seq(Piece) /\ \A i \in 1..Len(x) : x[i].code = "O"
    <3>1. owed \in Commands \X Nat /\ "O" \in Codes
      BY <1>1, OwedType DEF Codes
    <3> QED
      BY <3>1, OneReply
  <2>6. \A i \in 1..Len(x) : ~x[i].data => x[i].flags = f
    <3> DEFINE a == [code |-> "O", to |-> owed, data |-> TRUE, flags |-> Nil]
               b == [code |-> "O", to |-> owed, data |-> FALSE, flags |-> f]
    <3>1. x = <<a>> \o <<b>>
      BY DEF Pieces, CodesWithData
    <3>2. a.data /\ b.flags = f
      OBVIOUS
    <3> HIDE DEF a, b, x
    <3>3. x = <<a, b>>
      BY <3>1, TwoPieces
    <3>4. Len(x) = 2 /\ x[1] = a /\ x[2] = b
      BY <3>3
    <3>5. \A i \in 1..2 : i = 1 \/ i = 2
      OBVIOUS
    <3> QED
      BY <3>2, <3>4, <3>5
  <2> HIDE DEF x
  <2>7. Stream' = x
    <3>1. sent' = x
      BY <2>3, <2>4, <2>5, ConcatEmptySeq DEF x
    <3> QED
      BY <1>1, <2>3, <2>5, <3>1, ConcatEmptySeq DEF Stream
  <2>8. \A i \in 1..Len(x) :
          /\ x[i].code = "O"
          /\ ~x[i].data => asks' = IF x[i].flags = Nil THEN {} ELSE x[i].flags
    BY <2>4, <2>5, <2>6
  <2>9. FlagsTold'
    <3>1. call' = "O" /\ at' # "back" /\ proto' = {} /\ owed' = Nil /\ call' # Nil
      BY <1>1, <1>2, <1>3, <2>1
    <3>2. \A i \in 1..Len(Stream') : Flagged(Stream[i])'
      BY <2>7, <2>8 DEF Flagged
    <3> QED
      BY <3>1, <3>2 DEF FlagsTold
  <2> QED
    BY <1>5, <1>6, <2>9 DEF OrderInv
<1>8. CASE at \notin {"prefix", "data"}
  <2>1. FlagsTold'
    BY <1>1, <1>2, <1>3, <1>8 DEF FlagsTold
  <2> QED
    BY <1>5, <1>6, <2>1 DEF OrderInv
<1> QED
  BY <1>7, <1>8

LEMMA AnswerOrdered ==
  ASSUME Steady, OrderInv, NEW code, Answer(code) PROVE OrderInv'
<1>1. /\ owed # Nil /\ owed[1] # "O"
      /\ UNCHANGED <<proto, call, asks, open, last, before>>
  BY DEF Answer, clientVars, history
<1>2. call # "O"
  BY <1>1 DEF Steady
<1> QED
  BY <1>1, <1>2, FlagsKept, OrderSame

LEMMA ChangeOrdered == ASSUME Steady, OrderInv, Change PROVE OrderInv'
<1>1. /\ owed # Nil /\ owed[1] = "E"
      /\ UNCHANGED <<proto, call, asks, open, last, before>>
  BY DEF Change, clientVars, history
<1>2. call # "O"
  BY <1>1 DEF Steady
<1> QED
  BY <1>1, <1>2, FlagsKept, OrderSame

LEMMA ArriveOrdered == ASSUME Steady, OrderInv, Arrive PROVE OrderInv'
<1>1. /\ sent # <<>> /\ pipe' = Append(pipe, Head(sent)) /\ sent' = Tail(sent)
      /\ UNCHANGED <<proto, call, at, asks, owed, open, last, before>>
  BY DEF Arrive, clientVars, filterVars, history
<1>2. Stream' = Stream
  BY <1>1, StreamMoves DEF Steady, Stream
<1> QED
  BY <1>1, <1>2, FlagsKept, OrderSame

LEMMA QuitOrdered == ASSUME OrderInv, Quit PROVE OrderInv'
<1>1. owed' = Nil /\ UNCHANGED <<proto, call, at, asks, pipe, sent, open, last, before>>
  BY DEF Quit, clientVars, history
<1>2. Stream' = Stream
  BY <1>1 DEF Stream
<1> QED
  BY <1>1, <1>2, FlagsKept, OrderSame

LEMMA StutterOrdered == ASSUME OrderInv, UNCHANGED vars PROVE OrderInv'
<1>1. UNCHANGED <<proto, call, at, asks, owed, pipe, sent, open, last, before>>
  BY DEF vars, clientVars, filterVars, history
<1>2. Stream' = Stream
  BY <1>1 DEF Stream
<1> QED
  BY <1>1, <1>2, FlagsKept, OrderSame

LEMMA OrderInvInit == Init => OrderInv
<1> SUFFICES ASSUME Init PROVE OrderInv
  OBVIOUS
<1>1. call = Nil /\ asks = {} /\ proto = {} /\ last = <<>> /\ at = "back"
  BY DEF Init
<1>2. Nil # "O"
  BY InCommands, MilterAssumption
<1> QED
  BY <1>1, <1>2 DEF OrderInv, FlagsTold, SinceLast, InOrder

LEMMA OrderInvNext == Inv /\ OrderInv /\ [Next]_vars => OrderInv'
<1> SUFFICES ASSUME Inv, OrderInv, [Next]_vars PROVE OrderInv'
  OBVIOUS
<1> USE InvSteady
<1>1. ASSUME NEW c \in Commands, CallSkipped(c) \/ CallSent(c) \/ CallFails(c)
      PROVE  OrderInv'
  BY <1>1, SkipOrdered, SendOrdered, CallFailsOrdered
<1>2. CASE ReadPrefix \/ ReadData \/ ReadPartOfData
  <2>1. MilterInv
    BY <1>2, AdriftRead DEF Inv
  <2> QED
    BY <1>2, <2>1, ReadPrefixOrdered, ReadDataOrdered, ReadPartOfDataOrdered
<1>3. CASE ReadFails \/ ReadNoPrefix \/ ReadOn
  BY <1>3, ReadFailsOrdered, ReadNoPrefixOrdered, ReadOnOrdered
<1>4. ASSUME NEW flags \in FlagSets, Negotiate(flags) PROVE OrderInv'
  <2>1. MilterInv
    BY <1>4, AdriftOwed DEF Inv, Negotiate
  <2> QED
    BY <1>4, <2>1, NegotiateOrdered
<1>5. ASSUME NEW code \in {"c", "a", "y"}, Answer(code) PROVE OrderInv'
  BY <1>5, AnswerOrdered
<1>6. CASE Change \/ Arrive \/ Quit
  BY <1>6, ChangeOrdered, ArriveOrdered, QuitOrdered
<1>7. CASE UNCHANGED vars
  BY <1>7, StutterOrdered
<1> QED
  BY <1>1, <1>2, <1>3, <1>4, <1>5, <1>6, <1>7, Zenon DEF Next

(* Whatever a filter asks not to be told, it is told nothing of that and   *)
(* all the rest, in the order of a session, over as many mails as come on  *)
(* one connection, also when one is aborted (spnkmiltercli.cpp, the tests  *)
(* of mProtoFlags).                                                        *)
THEOREM InOrderHolds == Spec => []InOrder
<1>1. OrderInv => InOrder
  BY DEF OrderInv
<1> QED
  BY <1>1, InvHolds, OrderInvInit, OrderInvNext, PTL DEF Spec
=============================================================================
