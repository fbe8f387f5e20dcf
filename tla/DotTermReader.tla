---------------------------- MODULE DotTermReader ----------------------------
(***************************************************************************)
(* SP_NKDotTermDataReader (src/spnetkit/spnkreader.cpp): data that ends    *)
(* with a line of one dot, searched for that end chunk by chunk as it is   *)
(* read, and the removal of the dots that were stuffed before other ones.  *)
(*                                                                         *)
(* Bytes are those that the search tells apart; NUL is what last5 holds    *)
(* before anything is read.                                                *)
(***************************************************************************)
EXTENDS Integers, Sequences, SequencesExt

NUL == "NUL"
CR  == "CR"
LF  == "LF"
Dot == "."
CRLF == <<CR, LF>>

(* The bytes that last5 keeps: the last eight of what has been read.       *)
Last5(got) ==
  LET all == [i \in 1..8 |-> NUL] \o got IN SubSeq(all, Len(all) - 7, Len(all))

(* A slip the code could make: a search that does not look back over the   *)
(* start of the chunk.                                                     *)
EndOfDataInChunk(got, chunk) ==
  LET ends == {i \in 2..Len(chunk) - 1 :
                 chunk[i] = Dot /\ chunk[i - 1] = LF /\ chunk[i + 1] \in {CR, LF}}
  IN  IF ends = {} THEN 0
      ELSE LET dot == CHOOSE i \in ends : \A j \in ends : i <= j
           IN  IF chunk[dot + 1] = CR THEN dot + 2 ELSE dot + 1

(* endOfData of read(), as a position in the chunk, 0 if it is not found.  *)
(* The dot may be the byte before the chunk.  The end is one past the      *)
(* chunk if the chunk ends with the CR of the last line.                   *)
EndOfData(got, chunk) ==
  LET buff == Last5(got) \o chunk
      ends == {i \in 8..(7 + Len(chunk)) :
                 buff[i] = Dot /\ buff[i - 1] = LF /\ buff[i + 1] \in {CR, LF}}
  IN  IF ends = {} THEN 0
      ELSE LET dot == CHOOSE i \in ends : \A j \in ends : i <= j
           IN  IF buff[dot + 1] = CR THEN dot - 6 ELSE dot - 7

(* The test for empty content: the first dot of last5 follows a NUL.       *)
EmptyContent(got) ==
  LET last == Last5(got)
      dot  == SelectInSubSeq(last, 1, 7, LAMBDA c : c = Dot)
  IN  dot > 1 /\ last[dot - 1] = NUL /\ last[dot + 1] \in {CR, LF}

-----------------------------------------------------------------------------
WithoutEnd(text) ==
  IF IsSuffix(CRLF \o <<Dot>> \o CRLF, text) THEN SubSeq(text, 1, Len(text) - 5)
  ELSE IF IsSuffix(<<LF, Dot, LF>>, text) THEN SubSeq(text, 1, Len(text) - 3)
  ELSE text

(* The dots that the loop at the end of getUnescapeBuffer() leaves out.    *)
Stuffed(text, i) == i > 1 /\ text[i] = Dot /\ text[i - 1] = LF

getUnescapeBuffer(got) ==
  LET text == IF Len(got) <= 3 THEN <<>> ELSE WithoutEnd(got)
  IN  FlattenSeq([i \in DOMAIN text |->
                    IF Stuffed(text, i) THEN <<>> ELSE <<text[i]>>])
=============================================================================
