------------------------------- MODULE IniFile -------------------------------
(***************************************************************************)
(* SP_NKIniFile: a file is the sequence of its lines.  A line is a record: *)
(*   kind   "section", "item", or "skip" for what starts with ; or # or a  *)
(*          blank, and for an empty line;                                  *)
(*   name   the words of a section's or a key's name;                      *)
(*   eq     is there a "=" after the key;                                  *)
(*   text   what follows it, where " " is a blank and ";" and "#" start a  *)
(*          comment;                                                       *)
(*   nl     does the line end with a newline (the last may not).           *)
(***************************************************************************)
EXTENDS Integers, SequencesExt

CONSTANTS
  NULL,
  Number     \* what atoi() makes of the words that are numbers

Kept(s) == {i \in DOMAIN s : s[i] # " "}
Trim(s) == IF Kept(s) = {} THEN <<>> ELSE SubSeq(s, Min(Kept(s)), Max(Kept(s)))

(* What comes before any comment, and is no blank.                         *)
Told(s) == {i \in Kept(s) : \A j \in 1..i : s[j] \notin {";", "#"}}

(* getSectionIndex(): the first line with the section's name, 0 if none.   *)
SectionIndex(file, section) ==
  SelectInSeq(file, LAMBDA line : line.kind = "section" /\ line.name = section)

(* The lines of a section reach to the next.                               *)
SectionEnd(file, i) ==
  LET next == SelectInSubSeq(file, i + 1, Len(file), LAMBDA line : line.kind = "section") IN
  IF next = 0 THEN Len(file) ELSE next - 1

SectionNames(file) == {file[i].name : i \in {j \in DOMAIN file : file[j].kind = "section"}}

Items_(file, section) ==
  LET i == SectionIndex(file, section) IN
  IF i = 0 THEN {} ELSE {j \in i + 1 .. SectionEnd(file, i) : file[j].kind = "item"}

KeyNames(file, section) ==
  {file[j].name : j \in Items_(file, section)} \ {<<>>}

(* A slip the code could make: a key needs its "=".                        *)
HasKeyBeforeEq(line, key) == IsPrefix(key, line.name) /\ line.eq

(* The line starts with the key, and a blank, a newline or "=" follows.    *)
HasKey(line, key) ==
  /\ IsPrefix(key, line.name)
  /\ line.eq \/ line.nl \/ Len(key) < Len(line.name)

(* getRawValue(): the last line of the section that has the key counts;    *)
(* the value without the blanks around it.                                 *)
RawValue(file, section, key) ==
  LET with == {j \in Items_(file, section) : HasKey(file[j], key)}
      line == file[Max(with)] IN
  IF with = {} THEN NULL ELSE IF line.eq THEN Trim(line.text) ELSE <<>>

(* getValue(): and without a comment and the blanks before it.             *)
Value(file, section, key) ==
  LET raw == RawValue(file, section, key) IN
  IF raw = NULL THEN NULL ELSE IF Told(raw) = {} THEN <<>> ELSE SubSeq(raw, 1, Max(Told(raw)))

(* getValueAsInt() and the integers of BatchLoad(): 0 for no value and for *)
(* one that is no number.                                                  *)
IntValue(file, section, key) ==
  LET v == Value(file, section, key) IN
  IF v \in {NULL, <<>>} \/ Head(v) \notin DOMAIN Number THEN 0 ELSE Number[Head(v)]

(* The strings of BatchLoad(): empty for no value.                         *)
StrValue(file, section, key) ==
  LET v == Value(file, section, key) IN IF v = NULL THEN <<>> ELSE v
=============================================================================
