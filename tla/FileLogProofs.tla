----------------------------- MODULE FileLogProofs -----------------------------
(***************************************************************************)
(* The types of FileLog, and that the log files always hold the newest     *)
(* lines, for any threads, number and size of files, and descriptors.      *)
(***************************************************************************)
EXTENDS FileLog, FiniteSetTheorems, SequenceTheorems, WellFoundedInduction, TLAPS

Places == {"out", "continue", "continued", "stat", "test", "limit", "lock", "use", "write", "add"}
            \cup Holding

(* Threads that have a descriptor which is not in mFile yet.               *)
Pending == {"continued", "opened"}

Types ==
  /\ mFile \in Fds \cup {None} /\ mSize \in Nat /\ mMaxFile \in 1..MaxFiles
  /\ mMutex \in Threads \cup {Nobody} /\ mIsCont \in BOOLEAN
  /\ dir \in [Names -> Files \cup {NoFile}] /\ fds \in [Fds -> Files \cup {NoFile}]
  /\ content \in [Files -> Seq(Threads \X Nat)]
  /\ pc \in [Threads -> Places] /\ local \in [Threads -> Int]
  /\ lines \in [Threads -> Nat] /\ written \in [Threads -> SUBSET Nat]
  /\ alone \in BOOLEAN /\ continued \in BOOLEAN /\ failed \in BOOLEAN /\ deaths \in Nat

Locals ==
  \A t \in Threads :
    /\ pc[t] \in Pending => local[t] \in Fds \cup {None}
    /\ pc[t] = "write" => local[t] \in Fds
    /\ pc[t] = "shift" => local[t] \in 0 .. mMaxFile - 1
    /\ pc[t] = "add" => local[t] \in Nat

OneRotates == \A t \in Threads : pc[t] \in Holding <=> mMutex = t

Alone == alone => \A t, u \in Threads : t = u \/ pc[t] = "out" \/ pc[u] = "out"

Continues ==
  /\ mIsCont => continued
  /\ \A t \in Threads : pc[t] \in {"continue", "continued", "stat"} => continued

OwnFiles == \A m, n \in Names : m # n /\ dir[m] # NoFile => dir[m] # dir[n]
NoGhosts == \A f \in Files : content[f] # <<>> => f \in InUse(dir, fds)

(* A descriptor that is kept in mFile or by a thread is open, and is kept  *)
(* in one place.                                                           *)
HeldOpen ==
  /\ mFile # None => fds[mFile] # NoFile
  /\ \A t \in Threads : pc[t] \in Pending /\ local[t] # None =>
       /\ fds[local[t]] # NoFile /\ local[t] # mFile
       /\ \A u \in Threads : u # t /\ pc[u] \in Pending => local[u] # local[t]

Basic == Types /\ Locals /\ OneRotates /\ Alone /\ Continues /\ OwnFiles /\ NoGhosts /\ HeldOpen

-----------------------------------------------------------------------------
(* The file system.                                                        *)
LEMMA NameFacts ==
  /\ Log \in Names /\ None \notin Fds /\ NoFile \notin Files
  /\ \A n \in Names : n \in Int /\ n >= Log
  /\ \A max \in 1..MaxFiles :
       /\ FirstBackup(max) \in Names /\ FirstBackup(max) > Log
       /\ \A i \in 0..max : i \in Names /\ i - 1 \in Names
BY FileLogAssumption DEF Log, None, Names, Fds, Files, FirstBackup

LEMMA ImageIsSmall ==
  ASSUME NEW S, IsFiniteSet(S), NEW f, DOMAIN f = S, f = [x \in S |-> f[x]]
  PROVE  /\ IsFiniteSet({f[x] : x \in S})
         /\ Cardinality({f[x] : x \in S}) <= Cardinality(S)
<1> DEFINE T == {f[x] : x \in S}
<1>1. f \in Surjection(S, T)
  BY DEF Surjection
<1> QED
  BY <1>1, FS_Surjection

LEMMA FreeFdIsFree ==
  ASSUME Types, \E d \in Fds : fds[d] = NoFile
  PROVE  FreeFd \in Fds /\ fds[FreeFd] = NoFile
<1> DEFINE free == {d \in Fds : fds[d] = NoFile}
           less == OpToRel(<, Nat)
<1>1. free \subseteq Nat /\ free # {}
  BY FileLogAssumption DEF Fds
<1>2. PICK d \in free : \A e \in free : <<e, d>> \notin less
  BY <1>1, NatLessThanWellFounded, WFMin
<1>3. \A e \in free : ~(e < d)
  BY <1>1, <1>2 DEF OpToRel
<1>4. d \in Fds /\ fds[d] = NoFile /\ \A e \in Fds : e < d => fds[e] # NoFile
  BY <1>2, <1>3
<1> QED
  BY <1>4 DEF FreeFd

(* open() always finds a file for a new log.                               *)
LEMMA NewFileIsNew ==
  ASSUME Types, dir[Log] = NoFile, NEW d \in Fds, fds[d] = NoFile
  PROVE  NewFile \in Files /\ NewFile \notin InUse(dir, fds)
<1> DEFINE names == 0 .. MaxFiles
           others == Fds \ {d}
           named == {[x \in names |-> dir[x]][n] : n \in names}
           opened == {[x \in others |-> fds[x]][e] : e \in others}
<1>1. IsFiniteSet(names) /\ Cardinality(names) = MaxFiles + 1
  BY FileLogAssumption, FS_Interval
<1>2. IsFiniteSet(Fds) /\ Cardinality(Fds) = MaxFd + 1
  BY FileLogAssumption, FS_Interval DEF Fds
<1>3. IsFiniteSet(others) /\ Cardinality(others) = MaxFd
  <2>1. IsFiniteSet(Fds \ {d}) /\ Cardinality(Fds \ {d}) = Cardinality(Fds) - 1
    BY <1>2, FS_RemoveElement
  <2> QED
    BY FileLogAssumption, <1>2, <2>1
<1>4. IsFiniteSet(Files) /\ Cardinality(Files) = MaxFiles + MaxFd + 2
  BY FileLogAssumption, FS_Interval DEF Files
<1>5. IsFiniteSet(named) /\ Cardinality(named) <= MaxFiles + 1
  <2> DEFINE f == [x \in names |-> dir[x]]
  <2>1. DOMAIN f = names /\ f = [x \in names |-> f[x]]
    OBVIOUS
  <2> HIDE DEF f
  <2> QED
    BY <1>1, <2>1, ImageIsSmall DEF f
<1>6. IsFiniteSet(opened) /\ Cardinality(opened) <= MaxFd
  <2> DEFINE f == [x \in others |-> fds[x]]
  <2>1. DOMAIN f = others /\ f = [x \in others |-> f[x]]
    OBVIOUS
  <2> HIDE DEF f, others
  <2> QED
    BY <1>3, <2>1, ImageIsSmall DEF f
<1>7. InUse(dir, fds) \subseteq named \cup opened
  <2> SUFFICES ASSUME NEW f \in InUse(dir, fds) PROVE f \in named \cup opened
    OBVIOUS
  <2>1. ASSUME NEW n \in Names, dir[n] = f PROVE f \in named
    <3>1. n \in names
      BY <2>1, FileLogAssumption DEF InUse, Files, Names, Log
    <3> QED
      BY <2>1, <3>1
  <2>2. ASSUME NEW e \in Fds, fds[e] = f PROVE f \in opened
    <3>1. e \in others
      BY <2>2, FileLogAssumption DEF InUse, Files
    <3> QED
      BY <2>2, <3>1
  <2> QED
    BY <2>1, <2>2 DEF InUse
<1>8. ~(Files \subseteq named \cup opened)
  <2> SUFFICES ASSUME Files \subseteq named \cup opened PROVE FALSE
    OBVIOUS
  <2> HIDE DEF names, others, named, opened
  <2>1. /\ IsFiniteSet(named \cup opened)
        /\ Cardinality(named \cup opened)
             = Cardinality(named) + Cardinality(opened) - Cardinality(named \cap opened)
    BY <1>5, <1>6, FS_Union
  <2>2. Cardinality(named \cap opened) \in Nat
    BY <1>5, FS_Intersection, FS_CardinalityType
  <2>3. Cardinality(named) \in Nat /\ Cardinality(opened) \in Nat
    BY <1>5, <1>6, FS_CardinalityType
  <2>4. Cardinality(Files) <= Cardinality(named \cup opened)
    BY <2>1, FS_Subset
  <2> QED
    BY <1>4, <1>5, <1>6, <2>1, <2>2, <2>3, <2>4, FileLogAssumption
<1>9. \E f \in Files : f \notin InUse(dir, fds)
  BY <1>7, <1>8
<1> QED
  BY <1>9 DEF NewFile

(* Closing, unlinking and renaming lose only what nothing leads to.        *)
LEMMA KeptIsKept ==
  ASSUME Types, NoGhosts, dir' \in [Names -> Files \cup {NoFile}],
         fds' \in [Fds -> Files \cup {NoFile}], content' = Kept(content, dir', fds')
  PROVE  /\ content' \in [Files -> Seq(Threads \X Nat)]
         /\ NoGhosts'
         /\ \A f \in Files : content'[f] = content[f] \/ content'[f] = <<>>
         /\ \A n \in Names : dir'[n] # NoFile => content'[dir'[n]] = content[dir'[n]]
<1>1. \A f \in Files : content[f] \in Seq(Threads \X Nat)
  BY DEF Types
<1>2. <<>> \in Seq(Threads \X Nat)
  BY EmptySeq
<1>3. \A f \in Files : content'[f] = IF f \in InUse(dir', fds') THEN content[f] ELSE <<>>
  BY DEF Kept
<1>4. content' \in [Files -> Seq(Threads \X Nat)]
  BY <1>1, <1>2 DEF Kept
<1>5. NoGhosts'
  BY <1>3 DEF NoGhosts
<1>6. \A n \in Names : dir'[n] # NoFile => dir'[n] \in Files /\ dir'[n] \in InUse(dir', fds')
  BY DEF InUse
<1> QED
  BY <1>3, <1>4, <1>5, <1>6

ShelfOf(n) == IF dir[n] = NoFile THEN <<>> ELSE content[dir[n]]

LEMMA ShelfIs ==
  /\ \A n \in Names : Shelf[n] = ShelfOf(n)
  /\ DOMAIN Shelf = Names /\ Shelf = [n \in Names |-> Shelf[n]]
BY DEF Shelf, ShelfOf

LEMMA ShelfType ==
  ASSUME Types PROVE Shelf \in [Names -> Seq(Threads \X Nat)]
<1>1. \A n \in Names : dir[n] # NoFile => content[dir[n]] \in Seq(Threads \X Nat)
  BY DEF Types
<1>2. <<>> \in Seq(Threads \X Nat)
  BY EmptySeq
<1> QED
  BY <1>1, <1>2 DEF Shelf

LEMMA Opens ==
  ASSUME Types, OwnFiles, NoGhosts, NEW fd \in Fds \cup {None}, Open(fd)
  PROVE  /\ dir' \in [Names -> Files \cup {NoFile}] /\ fds' \in [Fds -> Files \cup {NoFile}]
         /\ content' = content /\ failed' \in BOOLEAN
         /\ OwnFiles' /\ NoGhosts'
         /\ \A n \in Names : n # Log \/ dir[n] # NoFile => dir'[n] = dir[n]
         /\ fd = None => fds' = fds /\ dir' = dir /\ failed'
         /\ fd # None => /\ fds[fd] = NoFile /\ dir'[Log] # NoFile
                         /\ fds' = [fds EXCEPT ![fd] = dir'[Log]]
                         /\ failed' = failed
         /\ Shelf' = Shelf
<1>1. CASE fd # None
  <2>1. /\ \E d \in Fds : fds[d] = NoFile
        /\ fd = FreeFd
        /\ dir' = [dir EXCEPT ![Log] = IF @ = NoFile THEN NewFile ELSE @]
        /\ fds' = [fds EXCEPT ![fd] = dir'[Log]]
        /\ UNCHANGED <<content, failed>>
    BY <1>1 DEF Open
  <2>2. fd \in Fds /\ fds[fd] = NoFile
    BY <2>1, FreeFdIsFree
  <2>3. dir[Log] = NoFile => NewFile \in Files /\ NewFile \notin InUse(dir, fds)
    BY <2>2, NewFileIsNew
  <2>4. dir'[Log] \in Files /\ dir' = [dir EXCEPT ![Log] = dir'[Log]]
    BY <2>1, <2>3, NameFacts DEF Types
  <2>5. dir' \in [Names -> Files \cup {NoFile}] /\ fds' \in [Fds -> Files \cup {NoFile}]
    BY <2>1, <2>2, <2>4 DEF Types
  <2>6. \A n \in Names : n # Log \/ dir[n] # NoFile => dir'[n] = dir[n]
    BY <2>1, NameFacts DEF Types
  <2>7. dir[Log] = NoFile => content[dir'[Log]] = <<>> /\ \A n \in Names : dir[n] # dir'[Log]
    <3>1. dir[Log] = NoFile => dir'[Log] = NewFile
      BY <2>1, NameFacts DEF Types
    <3> QED
      BY <2>3, <3>1 DEF NoGhosts, InUse
  <2>8. OwnFiles'
    BY <2>4, <2>6, <2>7, NameFacts DEF OwnFiles
  <2>9. NoGhosts'
    <3>1. \A e \in Fds : fds[e] # NoFile => fds'[e] = fds[e]
      BY <2>1, <2>2 DEF Types
    <3>2. \A n \in Names : dir[n] # NoFile => dir'[n] = dir[n]
      BY <2>6
    <3>3. InUse(dir, fds) \subseteq InUse(dir', fds')
      BY <3>1, <3>2, NameFacts DEF InUse
    <3> QED
      BY <2>1, <3>3 DEF NoGhosts
  <2>10. Shelf' = Shelf
    <3>1. \A n \in Names : ShelfOf(n)' = ShelfOf(n)
      BY <2>1, <2>4, <2>6, <2>7, NameFacts DEF ShelfOf
    <3> QED
      BY <3>1 DEF Shelf, ShelfOf
  <2>11. dir'[Log] # NoFile
    BY <2>4, NameFacts
  <2> QED
    BY <1>1, <2>1, <2>2, <2>5, <2>6, <2>8, <2>9, <2>10, <2>11 DEF Types
<1>2. CASE fd = None
  <2>1. failed' = TRUE /\ UNCHANGED <<dir, content, fds>>
    BY <1>2, FreeFdIsFree, NameFacts DEF Open, fileVars
  <2> QED
    BY <1>2, <2>1 DEF Types, OwnFiles, NoGhosts, Shelf
<1> QED
  BY <1>1, <1>2

LEMMA Unlinks ==
  ASSUME Types, OwnFiles, NoGhosts, NEW name \in Names, Unlink(name), UNCHANGED fds
  PROVE  /\ dir' = [dir EXCEPT ![name] = NoFile]
         /\ dir' \in [Names -> Files \cup {NoFile}]
         /\ content' \in [Files -> Seq(Threads \X Nat)]
         /\ OwnFiles' /\ NoGhosts'
         /\ \A f \in Files : content'[f] = content[f] \/ content'[f] = <<>>
         /\ Shelf' = [Shelf EXCEPT ![name] = <<>>]
<1>1. dir' = [dir EXCEPT ![name] = NoFile] /\ content' = Kept(content, dir', fds')
  BY DEF Unlink
<1>2. dir' \in [Names -> Files \cup {NoFile}] /\ fds' \in [Fds -> Files \cup {NoFile}]
  BY <1>1 DEF Types
<1>3. OwnFiles'
  BY <1>1 DEF OwnFiles, Types
<1>4. \A n \in Names : ShelfOf(n)' = IF n = name THEN <<>> ELSE ShelfOf(n)
  BY <1>1, <1>2, KeptIsKept DEF ShelfOf, Types
<1>5. Shelf' = [Shelf EXCEPT ![name] = <<>>]
  BY <1>4 DEF Shelf, ShelfOf
<1> QED
  BY <1>1, <1>2, <1>3, <1>5, KeptIsKept

LEMMA Renames ==
  ASSUME Types, OwnFiles, NoGhosts, NEW from \in Names, NEW to \in Names, from # to,
         Rename(from, to), UNCHANGED fds
  PROVE  /\ dir' = IF dir[from] = NoFile THEN dir
                   ELSE [dir EXCEPT ![to] = dir[from], ![from] = NoFile]
         /\ dir' \in [Names -> Files \cup {NoFile}]
         /\ content' \in [Files -> Seq(Threads \X Nat)]
         /\ OwnFiles' /\ NoGhosts'
         /\ \A f \in Files : content'[f] = content[f] \/ content'[f] = <<>>
         /\ Shelf' = IF dir[from] = NoFile THEN Shelf
                     ELSE [Shelf EXCEPT ![to] = Shelf[from], ![from] = <<>>]
<1>1. CASE dir[from] = NoFile
  <2>1. UNCHANGED <<dir, content>>
    BY <1>1 DEF Rename
  <2> QED
    BY <1>1, <2>1 DEF Types, OwnFiles, NoGhosts, Shelf
<1>2. CASE dir[from] # NoFile
  <2>1. /\ dir' = [dir EXCEPT ![to] = dir[from], ![from] = NoFile]
        /\ content' = Kept(content, dir', fds')
    BY <1>2 DEF Rename
  <2>2. dir' \in [Names -> Files \cup {NoFile}] /\ fds' \in [Fds -> Files \cup {NoFile}]
    BY <2>1 DEF Types
  <2>3. \A n \in Names : dir'[n] = IF n = from THEN NoFile ELSE IF n = to THEN dir[from] ELSE dir[n]
    BY <2>1 DEF Types
  <2>4. OwnFiles'
    BY <2>3 DEF OwnFiles
  <2>5. \A n \in Names : ShelfOf(n)' = IF n = from THEN <<>>
                                      ELSE IF n = to THEN ShelfOf(from) ELSE ShelfOf(n)
    BY <1>2, <2>1, <2>2, <2>3, KeptIsKept DEF ShelfOf
  <2>6. Shelf' = [Shelf EXCEPT ![to] = Shelf[from], ![from] = <<>>]
    BY <2>5 DEF Shelf, ShelfOf
  <2> QED
    BY <1>2, <2>1, <2>2, <2>4, <2>6, KeptIsKept
<1> QED
  BY <1>1, <1>2

-----------------------------------------------------------------------------
(* The steps that leave the files alone.                                   *)
LEMMA FilesAlone ==
  ASSUME OwnFiles, NoGhosts, UNCHANGED fileVars
  PROVE  OwnFiles' /\ NoGhosts' /\ Shelf' = Shelf
BY DEF fileVars, OwnFiles, NoGhosts, InUse, Shelf

LEMMA ContinuedBasic ==
  ASSUME Basic, NEW t \in Threads, Continued(t) PROVE Basic'
<1> USE NameFacts DEF Basic, Continued, Goto, memVars, fileVars, history
<1>1. Types'
  BY DEF Types, Locals, Places, Holding, Pending
<1>2. Locals'
  BY DEF Types, Locals, Pending
<1>3. OneRotates'
  BY FileLogAssumption DEF Types, OneRotates, Holding
<1>4. Alone'
  BY DEF Types, Alone
<1>5. Continues'
  BY DEF Types, Continues
<1>6. HeldOpen'
  BY DEF Types, Locals, HeldOpen, Pending
<1> QED
  BY <1>1, <1>2, <1>3, <1>4, <1>5, <1>6, FilesAlone

LEMMA StatBasic ==
  ASSUME Basic, NEW t \in Threads, Stat(t) PROVE Basic'
<1> USE NameFacts DEF Basic, Stat, Goto, memVars, fileVars, history
<1>1. Types'
  <2>1. mSize' \in Nat
    <3>1. mFile # None => content[fds[mFile]] \in Seq(Threads \X Nat)
      BY DEF Types, HeldOpen
    <3> QED
      BY <3>1, LenProperties DEF Types
  <2>2. pc' \in [Threads -> Places]
    BY DEF Types, Places
  <2> QED
    BY <2>1, <2>2 DEF Types
<1>2. Locals'
  BY DEF Types, Locals, Pending
<1>3. OneRotates'
  BY FileLogAssumption DEF Types, OneRotates, Holding
<1>4. Alone'
  BY DEF Types, Alone
<1>5. Continues'
  BY DEF Types, Continues
<1>6. HeldOpen'
  BY DEF Types, Locals, HeldOpen, Pending
<1> QED
  BY <1>1, <1>2, <1>3, <1>4, <1>5, <1>6, FilesAlone

LEMMA TestBasic ==
  ASSUME Basic, NEW t \in Threads, Test(t) PROVE Basic'
<1> USE NameFacts DEF Basic, Test, Goto, memVars, fileVars, history
<1>1. Types'
  BY DEF Types, Locals, Places, Holding, Pending
<1>2. Locals'
  BY DEF Types, Locals, Pending
<1>3. OneRotates'
  BY FileLogAssumption DEF Types, OneRotates, Holding
<1>4. Alone'
  BY DEF Types, Alone
<1>5. Continues'
  BY DEF Types, Continues
<1>6. HeldOpen'
  BY DEF Types, Locals, HeldOpen, Pending
<1> QED
  BY <1>1, <1>2, <1>3, <1>4, <1>5, <1>6, FilesAlone

LEMMA TestSizeBasic ==
  ASSUME Basic, NEW t \in Threads, TestSize(t) PROVE Basic'
<1> USE NameFacts DEF Basic, TestSize, Goto, memVars, fileVars, history
<1>1. Types'
  BY DEF Types, Locals, Places, Holding, Pending
<1>2. Locals'
  BY DEF Types, Locals, Pending
<1>3. OneRotates'
  BY FileLogAssumption DEF Types, OneRotates, Holding
<1>4. Alone'
  BY DEF Types, Alone
<1>5. Continues'
  BY DEF Types, Continues
<1>6. HeldOpen'
  BY DEF Types, Locals, HeldOpen, Pending
<1> QED
  BY <1>1, <1>2, <1>3, <1>4, <1>5, <1>6, FilesAlone

LEMMA LockBasic ==
  ASSUME Basic, NEW t \in Threads, Lock(t) PROVE Basic'
<1> USE NameFacts DEF Basic, Lock, Goto, memVars, fileVars, history
<1>1. Types'
  BY DEF Types, Locals, Places, Holding, Pending
<1>2. Locals'
  BY DEF Types, Locals, Pending
<1>3. OneRotates'
  BY FileLogAssumption DEF Types, OneRotates, Holding
<1>4. Alone'
  BY DEF Types, Alone
<1>5. Continues'
  BY DEF Types, Continues
<1>6. HeldOpen'
  BY DEF Types, Locals, HeldOpen, Pending
<1> QED
  BY <1>1, <1>2, <1>3, <1>4, <1>5, <1>6, FilesAlone

LEMMA ResetBasic ==
  ASSUME Basic, NEW t \in Threads, Reset(t) PROVE Basic'
<1> USE NameFacts DEF Basic, Reset, Goto, memVars, fileVars, history
<1>1. Types'
  BY DEF Types, Locals, Places, Holding, Pending
<1>2. Locals'
  BY DEF Types, Locals, Pending
<1>3. OneRotates'
  BY FileLogAssumption DEF Types, OneRotates, Holding
<1>4. Alone'
  BY DEF Types, Alone
<1>5. Continues'
  BY DEF Types, Continues
<1>6. HeldOpen'
  BY DEF Types, Locals, HeldOpen, Pending
<1> QED
  BY <1>1, <1>2, <1>3, <1>4, <1>5, <1>6, FilesAlone

LEMMA OpenedBasic ==
  ASSUME Basic, NEW t \in Threads, Opened(t) PROVE Basic'
<1> USE NameFacts DEF Basic, Opened, Goto, memVars, fileVars, history
<1>1. Types'
  BY DEF Types, Locals, Places, Holding, Pending
<1>2. Locals'
  BY DEF Types, Locals, Pending
<1>3. OneRotates'
  BY FileLogAssumption DEF Types, OneRotates, Holding
<1>4. Alone'
  BY DEF Types, Alone
<1>5. Continues'
  BY DEF Types, Continues
<1>6. HeldOpen'
  BY DEF Types, Locals, HeldOpen, Pending
<1> QED
  BY <1>1, <1>2, <1>3, <1>4, <1>5, <1>6, FilesAlone

LEMMA UseBasic ==
  ASSUME Basic, NEW t \in Threads, Use(t) PROVE Basic'
<1> USE NameFacts DEF Basic, Use, Goto, memVars, fileVars, history
<1>0. /\ mFile \in Int
      /\ local' = IF mFile # None THEN [local EXCEPT ![t] = mFile] ELSE local
      /\ pc' = [pc EXCEPT ![t] = IF mFile # None THEN "write" ELSE "out"]
  BY FileLogAssumption DEF Types, Fds, None
<1>1. Types'
  BY <1>0 DEF Types, Places
<1>2. Locals'
  BY DEF Types, Locals, Pending
<1>3. OneRotates'
  BY FileLogAssumption DEF Types, OneRotates, Holding
<1>4. Alone'
  BY DEF Types, Alone
<1>5. Continues'
  BY DEF Types, Continues
<1>6. HeldOpen'
  <2>1. \A u \in Threads : pc'[u] \in Pending => pc[u] \in Pending /\ local'[u] = local[u]
    BY <1>0 DEF Types, Pending
  <2> QED
    BY <2>1 DEF Types, HeldOpen
<1> QED
  BY <1>1, <1>2, <1>3, <1>4, <1>5, <1>6, FilesAlone

LEMMA AddBasic ==
  ASSUME Basic, NEW t \in Threads, Add(t) PROVE Basic'
<1> USE NameFacts DEF Basic, Add, Goto, memVars, fileVars, history
<1>1. Types'
  <2>1. mSize' \in Nat
    BY SMTT(60) DEF Types, Locals
  <2>2. pc' \in [Threads -> Places]
    BY DEF Types, Places
  <2>3. local' \in [Threads -> Int]
    BY DEF Types
  <2> QED
    BY <2>1, <2>2, <2>3 DEF Types
<1>2. Locals'
  BY DEF Types, Locals, Pending
<1>3. OneRotates'
  BY FileLogAssumption DEF Types, OneRotates, Holding
<1>4. Alone'
  BY DEF Types, Alone
<1>5. Continues'
  BY DEF Types, Continues
<1>6. HeldOpen'
  BY DEF Types, Locals, HeldOpen, Pending
<1> QED
  BY <1>1, <1>2, <1>3, <1>4, <1>5, <1>6, FilesAlone

LEMMA BeginBasic ==
  ASSUME Basic, NEW t \in Threads, Begin(t) PROVE Basic'
<1> USE NameFacts DEF Basic, Begin, Goto, memVars, fileVars, history
<1>1. Types'
  <2>1. lines' \in [Threads -> Nat]
    <3>1. lines \in [Threads -> Nat] /\ lines' = [lines EXCEPT ![t] = lines[t] + 1]
      BY DEF Types
    <3>2. lines[t] + 1 \in Nat
      BY ONLY <3>1
    <3> QED
      BY ONLY <3>1, <3>2
  <2>3. alone' \in BOOLEAN
    BY DEF Types
  <2>2. pc' \in [Threads -> Places]
    BY DEF Types, Places
  <2> QED
    BY <2>1, <2>2, <2>3 DEF Types
<1>2. Locals'
  BY DEF Types, Locals, Pending
<1>3. OneRotates'
  BY FileLogAssumption DEF Types, OneRotates, Holding
<1>4. Alone'
  BY DEF Types, Alone
<1>5. Continues'
  BY DEF Types, Continues
<1>6. HeldOpen'
  BY DEF Types, Locals, HeldOpen, Pending
<1> QED
  BY <1>1, <1>2, <1>3, <1>4, <1>5, <1>6, FilesAlone

-----------------------------------------------------------------------------
(* The steps that change the files.                                        *)
LEMMA OpenBasic ==
  ASSUME Basic, NEW t \in Threads, NEW fd \in Fds \cup {None}, Open(fd),
         \/ pc[t] = "continue" /\ Goto(t, "continued")
         \/ pc[t] = "open" /\ Goto(t, "opened"),
         local' = [local EXCEPT ![t] = fd],
         UNCHANGED <<memVars, lines, written, deaths, continued, alone>>
  PROVE  Basic'
<1> USE NameFacts DEF Goto, memVars
<1>1. Types /\ OwnFiles /\ NoGhosts /\ HeldOpen /\ Locals
  BY DEF Basic
<1>2. fd \in Int
  BY FileLogAssumption DEF Fds, None
<1>3. Types'
  BY <1>1, <1>2, Opens DEF Types, Places, Holding
<1>4. Locals'
  BY <1>1 DEF Types, Locals, Pending
<1>5. OneRotates'
  BY DEF Basic, Types, OneRotates, Holding
<1>6. Alone'
  BY DEF Basic, Types, Alone
<1>7. Continues'
  BY DEF Basic, Types, Continues
<1>8. OwnFiles' /\ NoGhosts'
  BY <1>1, Opens
<1>9. HeldOpen'
  <2>1. \A d \in Fds : fds[d] # NoFile => fds'[d] # NoFile
    BY <1>1, Opens DEF Types
  <2>2. fd # None => fds[fd] = NoFile /\ fds'[fd] # NoFile
    BY <1>1, Opens DEF Types
  <2>3. mFile' # None => fds'[mFile'] # NoFile
    BY <1>1, <2>1 DEF HeldOpen, Types
  <2>4. ASSUME NEW u \in Threads, pc'[u] \in Pending, local'[u] # None
        PROVE  fds'[local'[u]] # NoFile /\ local'[u] # mFile'
    BY <1>1, <2>1, <2>2, <2>4 DEF HeldOpen, Types, Locals, Pending
  <2>5. ASSUME NEW u \in Threads, pc'[u] \in Pending, local'[u] # None,
               NEW v \in Threads, v # u, pc'[v] \in Pending
        PROVE  local'[v] # local'[u]
    BY <1>1, <2>2, <2>5 DEF HeldOpen, Types, Locals, Pending
  <2> QED
    BY <2>3, <2>4, <2>5 DEF HeldOpen
<1> QED
  BY <1>3, <1>4, <1>5, <1>6, <1>7, <1>8, <1>9 DEF Basic

LEMMA CloseBasic ==
  ASSUME Basic, NEW t \in Threads, Close(t) PROVE Basic'
<1> USE NameFacts DEF Close, Goto, history
<1>1. Types /\ OwnFiles /\ NoGhosts /\ HeldOpen /\ Locals
  BY DEF Basic
<1>2. fds' \in [Fds -> Files \cup {NoFile}]
  BY <1>1 DEF Types
<1>3. content' \in [Files -> Seq(Threads \X Nat)] /\ NoGhosts'
  BY <1>1, <1>2, KeptIsKept DEF Types
<1>4. Types'
  BY <1>1, <1>2, <1>3 DEF Types, Places, Holding
<1>5. Locals'
  BY <1>1 DEF Types, Locals, Pending
<1>6. OneRotates'
  BY DEF Basic, Types, OneRotates, Holding
<1>7. Alone' /\ Continues'
  BY DEF Basic, Types, Alone, Continues
<1>8. OwnFiles'
  BY <1>1 DEF OwnFiles
<1>9. HeldOpen'
  BY <1>1 DEF HeldOpen, Types, Locals, Pending
<1> QED
  BY <1>3, <1>4, <1>5, <1>6, <1>7, <1>8, <1>9 DEF Basic

LEMMA UnlinkOldestBasic ==
  ASSUME Basic, NEW t \in Threads, UnlinkOldest(t) PROVE Basic'
<1> USE NameFacts DEF UnlinkOldest, Goto, memVars, history
<1>1. Types /\ OwnFiles /\ NoGhosts /\ HeldOpen /\ Locals /\ mMaxFile \in Names
  BY DEF Basic, Types, Names, Log
<1>2. mMaxFile - 1 \in Int /\ mMaxFile - 1 \in 0 .. mMaxFile - 1
  BY <1>1 DEF Types
<1>3. /\ dir' \in [Names -> Files \cup {NoFile}]
      /\ content' \in [Files -> Seq(Threads \X Nat)]
      /\ OwnFiles' /\ NoGhosts'
  BY <1>1, Unlinks
<1>4. Types'
  BY <1>1, <1>2, <1>3 DEF Types, Places, Holding
<1>5. Locals'
  BY <1>1, <1>2 DEF Types, Locals, Pending
<1>6. OneRotates'
  BY DEF Basic, Types, OneRotates, Holding
<1>7. Alone' /\ Continues'
  BY DEF Basic, Types, Alone, Continues
<1>8. HeldOpen'
  BY <1>1 DEF HeldOpen, Types, Locals, Pending
<1> QED
  BY <1>3, <1>4, <1>5, <1>6, <1>7, <1>8 DEF Basic

(* What a thread in the loop renames, and to what.                         *)
From(t) == IF local[t] > 0 THEN local[t] - 1 ELSE Log
Hole(t) == IF local[t] = 0 THEN FirstBackup(mMaxFile) ELSE local[t]

LEMMA ShiftIs ==
  ASSUME Types, Locals, NEW t \in Threads, Shift(t)
  PROVE  /\ pc[t] = "shift" /\ local[t] \in 0 .. mMaxFile - 1 /\ mMaxFile \in 1..MaxFiles
         /\ Rename(From(t), Hole(t))
         /\ From(t) \in Names /\ Hole(t) \in Names /\ From(t) < Hole(t)
         /\ local' = [local EXCEPT ![t] = IF local[t] > 0 THEN local[t] - 1 ELSE 0]
         /\ pc' = [pc EXCEPT ![t] = IF local[t] > 0 THEN "shift" ELSE "open"]
         /\ UNCHANGED <<memVars, fds, history, alone>>
<1> USE NameFacts
<1>1. /\ pc[t] = "shift" /\ local[t] \in 0 .. mMaxFile - 1 /\ mMaxFile \in 1..MaxFiles
      /\ UNCHANGED <<memVars, fds, history, alone>>
  BY DEF Shift, Types, Locals
<1>2. pc = [pc EXCEPT ![t] = "shift"]
  BY <1>1 DEF Types
<1>3. CASE local[t] > 0
  <2>1. Rename(local[t] - 1, local[t]) /\ local' = [local EXCEPT ![t] = local[t] - 1] /\ pc' = pc
    BY <1>3 DEF Shift
  <2>2. From(t) = local[t] - 1 /\ Hole(t) = local[t]
    BY <1>1, <1>3 DEF From, Hole
  <2>3. /\ From(t) \in Names /\ Hole(t) \in Names /\ From(t) < Hole(t)
    BY <1>1, <1>3, <2>2
  <2> QED
    BY <1>1, <1>2, <1>3, <2>1, <2>2, <2>3
<1>4. CASE ~(local[t] > 0)
  <2>1. /\ Rename(Log, FirstBackup(mMaxFile)) /\ local' = [local EXCEPT ![t] = 0]
        /\ pc' = [pc EXCEPT ![t] = "open"]
    BY <1>4 DEF Shift, Goto
  <2>2. From(t) = Log /\ Hole(t) = FirstBackup(mMaxFile)
    BY <1>1, <1>4 DEF From, Hole
  <2> QED
    BY <1>1, <1>4, <2>1, <2>2
<1> QED
  BY <1>3, <1>4

LEMMA ShiftBasic ==
  ASSUME Basic, NEW t \in Threads, Shift(t) PROVE Basic'
<1> USE NameFacts DEF Goto, memVars, history
<1>1. Types /\ OwnFiles /\ NoGhosts /\ HeldOpen /\ Locals
  BY DEF Basic
<1>2. /\ local[t] \in 0 .. mMaxFile - 1 /\ pc[t] = "shift" /\ UNCHANGED <<memVars, fds, history, alone>>
      /\ local' = [local EXCEPT ![t] = IF local[t] > 0 THEN local[t] - 1 ELSE 0]
      /\ pc' = [pc EXCEPT ![t] = IF local[t] > 0 THEN "shift" ELSE "open"]
  BY <1>1, ShiftIs
<1>3. /\ dir' \in [Names -> Files \cup {NoFile}]
      /\ content' \in [Files -> Seq(Threads \X Nat)]
      /\ OwnFiles' /\ NoGhosts'
  BY <1>1, ShiftIs, Renames, NameFacts
<1> DEFINE i == IF local[t] > 0 THEN local[t] - 1 ELSE 0
<1>9. i \in Int /\ i \in 0 .. mMaxFile - 1
  <2>1. mMaxFile \in Int /\ mMaxFile >= 1
    BY <1>1, FileLogAssumption, SMTT(60) DEF Types
  <2>2. local[t] \in Int /\ 0 <= local[t] /\ local[t] <= mMaxFile - 1
    BY <1>2, <2>1
  <2> QED
    BY <2>1, <2>2
<1>10. /\ local' = [local EXCEPT ![t] = i]
       /\ pc' = [pc EXCEPT ![t] = "shift"] \/ pc' = [pc EXCEPT ![t] = "open"]
  BY <1>2
<1> HIDE DEF i
<1>4. Types'
  <2>1. local' \in [Threads -> Int]
    BY <1>1, <1>9, <1>10, SMTT(60) DEF Types
  <2>2. pc' \in [Threads -> Places]
    BY <1>1, <1>10 DEF Types, Places, Holding
  <2> QED
    BY <1>1, <1>2, <1>3, <2>1, <2>2 DEF Types
<1>5. Locals'
  BY <1>1, <1>2, <1>9, <1>10 DEF Types, Locals, Pending
<1>6. OneRotates'
  BY <1>2 DEF Basic, Types, OneRotates, Holding
<1>7. Alone' /\ Continues'
  BY <1>2 DEF Basic, Types, Alone, Continues
<1>8. HeldOpen'
  BY <1>1, <1>2 DEF HeldOpen, Types, Locals, Pending
<1> QED
  BY <1>3, <1>4, <1>5, <1>6, <1>7, <1>8 DEF Basic

LEMMA WriteBasic ==
  ASSUME Basic, NEW t \in Threads, Write(t) PROVE Basic'
<1> USE NameFacts DEF Goto, memVars
<1>1. Types /\ OwnFiles /\ NoGhosts /\ HeldOpen /\ Locals
  BY DEF Basic
<1> DEFINE f == fds[local[t]]
<1>2. /\ pc[t] = "write" /\ local[t] \in Fds /\ f \in Files \cup {NoFile}
      /\ content' = IF f # NoFile THEN [content EXCEPT ![f] = Append(@, <<t, lines[t]>>)]
                    ELSE content
      /\ written' = IF f # NoFile THEN [written EXCEPT ![t] = @ \cup {lines[t]}] ELSE written
      /\ local' = [local EXCEPT ![t] = mSize] /\ pc' = [pc EXCEPT ![t] = "add"]
      /\ UNCHANGED <<memVars, dir, fds, lines, failed, deaths, continued, alone>>
  BY <1>1 DEF Write, Types, Locals
<1>3. content' \in [Files -> Seq(Threads \X Nat)]
  <2>1. <<t, lines[t]>> \in Threads \X Nat /\ content \in [Files -> Seq(Threads \X Nat)]
    BY <1>1 DEF Types
  <2>2. f # NoFile => Append(content[f], <<t, lines[t]>>) \in Seq(Threads \X Nat)
    BY <1>2, <2>1, AppendProperties
  <2> QED
    BY <1>2, <2>1, <2>2
<1>11. written' \in [Threads -> SUBSET Nat]
  <2>1. written \in [Threads -> SUBSET Nat] /\ written[t] \cup {lines[t]} \in SUBSET Nat
    BY <1>1 DEF Types
  <2> QED
    BY <1>2, <2>1
<1>12. mSize \in Int
  BY <1>1 DEF Types
<1>4. Types'
  BY <1>1, <1>2, <1>3, <1>11, <1>12 DEF Types, Places
<1>5. Locals'
  BY <1>1, <1>2 DEF Types, Locals, Pending
<1>6. OneRotates'
  BY <1>2 DEF Basic, Types, OneRotates, Holding
<1>7. Alone' /\ Continues'
  BY <1>2 DEF Basic, Types, Alone, Continues
<1>8. OwnFiles'
  BY <1>1, <1>2 DEF OwnFiles
<1>9. NoGhosts'
  <2>1. f # NoFile => f \in InUse(dir, fds)
    BY <1>2 DEF InUse
  <2>2. \A g \in Files : g # f => content'[g] = content[g]
    BY <1>1, <1>2 DEF Types
  <2>3. InUse(dir', fds') = InUse(dir, fds)
    BY <1>2 DEF InUse
  <2> QED
    BY <1>1, <1>2, <2>1, <2>2, <2>3 DEF NoGhosts
<1>10. HeldOpen'
  BY <1>1, <1>2 DEF HeldOpen, Types, Locals, Pending
<1> QED
  BY <1>4, <1>5, <1>6, <1>7, <1>8, <1>9, <1>10 DEF Basic

LEMMA DieBasic ==
  ASSUME Basic, Die PROVE Basic'
<1> USE NameFacts DEF Die
<1>1. Types /\ OwnFiles /\ NoGhosts
  BY DEF Basic
<1>2. fds' \in [Fds -> Files \cup {NoFile}]
  BY <1>1 DEF Types
<1>3. content' \in [Files -> Seq(Threads \X Nat)] /\ NoGhosts'
  BY <1>1, <1>2, KeptIsKept DEF Types
<1>10. continued' \in BOOLEAN /\ deaths' \in Nat
  BY <1>1 DEF Types
<1>11. pc' \in [Threads -> Places] /\ local' \in [Threads -> Int]
  BY DEF Places
<1>4. Types'
  BY <1>1, <1>2, <1>3, <1>10, <1>11 DEF Types
<1>5. Locals' /\ HeldOpen'
  BY <1>1 DEF Types, Locals, HeldOpen, Pending
<1>6. OneRotates'
  BY FileLogAssumption DEF OneRotates, Holding
<1>7. Alone'
  BY DEF Alone
<1>8. Continues'
  BY <1>1 DEF Types, Continues
<1>9. OwnFiles'
  BY <1>1 DEF OwnFiles
<1> QED
  BY <1>3, <1>4, <1>5, <1>6, <1>7, <1>8, <1>9 DEF Basic

LEMMA BasicInit == Init => Basic
<1> SUFFICES ASSUME Init PROVE Basic
  OBVIOUS
<1>1. Types
  <2>1. content \in [Files -> Seq(Threads \X Nat)]
    BY EmptySeq DEF Init
  <2>2. mMutex \in Threads \cup {Nobody} /\ mIsCont \in BOOLEAN /\ continued \in BOOLEAN
    BY DEF Init
  <2>3. /\ dir \in [Names -> Files \cup {NoFile}] /\ fds \in [Fds -> Files \cup {NoFile}]
        /\ pc \in [Threads -> Places] /\ local \in [Threads -> Int]
        /\ lines \in [Threads -> Nat] /\ written \in [Threads -> SUBSET Nat]
    BY DEF Init, Places
  <2> QED
    BY <2>1, <2>2, <2>3 DEF Init, Types
<1>2. OwnFiles /\ NoGhosts
  BY <1>1 DEF Init, OwnFiles, NoGhosts
<1> QED
  BY <1>1, <1>2, FileLogAssumption
     DEF Init, Basic, Locals, OneRotates, Alone, Continues, HeldOpen, Pending, Holding

LEMMA BasicNext == Basic /\ [Next]_vars => Basic'
<1> SUFFICES ASSUME Basic, [Next]_vars PROVE Basic'
  OBVIOUS
<1>1. ASSUME NEW t \in Threads, Continue(t) \/ Reopen(t) PROVE Basic'
  BY <1>1, OpenBasic DEF Continue, Reopen
<1>2. CASE UNCHANGED vars
  <2>1. UNCHANGED <<memVars, fileVars, pc, local, history, alone>>
    BY <1>2 DEF vars
  <2> USE <2>1 DEF memVars, fileVars, history
  <2>2. OwnFiles' /\ NoGhosts'
    BY FilesAlone DEF Basic
  <2>3. Types' /\ Locals' /\ HeldOpen'
    BY DEF Basic, Types, Locals, HeldOpen
  <2> QED
    BY <2>2, <2>3 DEF Basic, OneRotates, Alone, Continues
<1> QED
  BY <1>1, <1>2, BeginBasic, ContinuedBasic, StatBasic, TestBasic, TestSizeBasic, LockBasic, CloseBasic,
     ResetBasic, UnlinkOldestBasic, ShiftBasic, OpenedBasic, UseBasic, WriteBasic, AddBasic,
     DieBasic DEF Next
-----------------------------------------------------------------------------
(* While nothing is done beside mMutex.                                    *)
Quiet == continued => alone

(* A thread at one of these has the log closed, and is the only one.       *)
LogShut == {"continue", "continued", "reset", "unlink", "shift", "open", "opened"}
Opening == {"continue", "continued"} \cup Holding

(* The open descriptors lead to the log, and are held.                     *)
OneOpen ==
  Quiet =>
    /\ \A t \in Threads : pc[t] \in LogShut => mFile = None
    /\ \A d \in Fds : fds[d] # NoFile =>
         /\ fds[d] = dir[Log]
         /\ d = mFile \/ \E t \in Threads : pc[t] \in Pending /\ local[t] = d

(* What the files hold has been written.                                   *)
Stored == \A f \in Files : \A i \in DOMAIN content[f] : content[f][i][2] \in written[content[f][i][1]]

(* A thread's next line has a number above those of all it has written.    *)
Begun ==
  \A t \in Threads :
    /\ \A k \in written[t] : k <= lines[t]
    /\ pc[t] \notin {"out", "add"} => lines[t] > 0 /\ lines[t] \notin written[t]

(* Where a thread in the loop renames to, nothing is any more, or it is    *)
(* the oldest file.                                                        *)
Shelved ==
  /\ \A n \in Names : dir[n] # NoFile => n = Log \/ n \in Backups
  /\ \A t \in Threads : pc[t] = "shift" =>
       dir[Hole(t)] = NoFile \/ (local[t] > 0 /\ local[t] = mMaxFile - 1)

Gapless == \A t \in Threads : \A k, l \in written[t] : k < l /\ IsKept(t, k) => IsKept(t, l)
Newest == Quiet => Ordered(Shelf) /\ Gapless

Story == OneOpen /\ Stored /\ Begun /\ Shelved /\ Newest

LEMMA OneOpens ==
  ASSUME Basic, Quiet, NEW t \in Threads, NEW u \in Threads,
         pc[t] \in Opening, pc[u] \in Opening
  PROVE  t = u
<1>1. CASE pc[t] \in {"continue", "continued"} \/ pc[u] \in {"continue", "continued"}
  <2>1. alone
    BY <1>1 DEF Basic, Continues, Quiet
  <2>2. pc[t] # "out" /\ pc[u] # "out"
    BY DEF Opening, Holding
  <2> QED
    BY <2>1, <2>2 DEF Basic, Alone
<1>2. CASE pc[t] \in Holding /\ pc[u] \in Holding
  BY <1>2 DEF Basic, OneRotates
<1> QED
  BY <1>1, <1>2 DEF Opening

(* A step that leaves the files alone.                                     *)
LEMMA SameStory ==
  ASSUME Story, UNCHANGED <<fileVars, written>>, Quiet' => Quiet
  PROVE  Stored' /\ Newest'
<1>1. Shelf' = Shelf
  BY DEF fileVars, Shelf
<1>2. Stored'
  BY DEF Story, Stored, fileVars
<1>3. Ordered(Shelf)' <=> Ordered(Shelf)
  BY <1>1 DEF Ordered
<1>4. \A t, k : IsKept(t, k)' <=> IsKept(t, k)
  BY <1>1 DEF IsKept
<1>5. Gapless' <=> Gapless
  BY <1>4 DEF Gapless
<1> QED
  BY <1>2, <1>3, <1>5 DEF Story, Newest

LEMMA BeginStory ==
  ASSUME Basic, Story, NEW t \in Threads, Begin(t) PROVE Story'
<1> USE NameFacts DEF Begin, Goto, memVars, history
<1>1. Quiet' => Quiet
  BY DEF Quiet, Basic, Types
<1>2. Stored' /\ Newest'
  BY <1>1, SameStory
<1>3. OneOpen'
  BY <1>1, OneOpens DEF Story, OneOpen, Basic, Types, LogShut, Opening, Holding, Pending, fileVars
<1>4. Begun'
  <2>1. /\ lines' = [lines EXCEPT ![t] = @ + 1] /\ written' = written
        /\ pc[t] = "out" /\ \A u \in Threads : u # t => pc'[u] = pc[u]
    BY DEF Basic, Types
  <2>2. \A u \in Threads : lines[u] \in Nat /\ written[u] \subseteq Nat
    BY DEF Basic, Types
  <2>3. \A u \in Threads : lines'[u] = IF u = t THEN lines[t] + 1 ELSE lines[u]
    BY <2>1 DEF Basic, Types
  <2> QED
    BY <2>1, <2>2, <2>3 DEF Story, Begun
<1>5. Shelved'
  BY DEF Story, Shelved, Backups, Hole, Basic, Types, fileVars
<1> QED
  BY <1>2, <1>3, <1>4, <1>5 DEF Story

LEMMA ContinuedStory ==
  ASSUME Basic, Story, NEW t \in Threads, Continued(t) PROVE Story'
<1> USE NameFacts DEF Continued, Goto, memVars, history
<1>1. Quiet' => Quiet
  BY DEF Quiet, Basic, Types
<1>2. Stored' /\ Newest'
  BY <1>1, SameStory
<1>3. OneOpen'
  <2>1. /\ pc[t] \in Pending /\ pc'[t] \notin LogShut /\ UNCHANGED <<dir, fds>>
        /\ mFile' = local[t] /\ \A u \in Threads : u # t => pc'[u] = pc[u] /\ local'[u] = local[u]
    BY DEF Basic, Types, Pending, LogShut, fileVars
  <2>2. SUFFICES ASSUME Quiet PROVE OneOpen'
    BY <1>1 DEF OneOpen
  <2>3. mFile = None /\ \A u \in Threads : pc[u] \in LogShut => u = t
    BY <2>1, <2>2, OneOpens DEF Story, OneOpen, Pending, LogShut, Opening, Holding
  <2>4. \A u \in Threads : pc[u] \in Pending => u = t
    BY <2>3 DEF Pending, LogShut
  <2> QED
    BY <2>1, <2>2, <2>3, <2>4 DEF Story, OneOpen
<1>4. Begun'
  BY DEF Story, Begun, Basic, Types
<1>5. Shelved'
  BY DEF Story, Shelved, Backups, Hole, Basic, Types, fileVars
<1> QED
  BY <1>2, <1>3, <1>4, <1>5 DEF Story

LEMMA StatStory ==
  ASSUME Basic, Story, NEW t \in Threads, Stat(t) PROVE Story'
<1> USE NameFacts DEF Stat, Goto, memVars, history
<1>1. Quiet' => Quiet
  BY DEF Quiet, Basic, Types
<1>2. Stored' /\ Newest'
  BY <1>1, SameStory
<1>3. OneOpen'
  BY <1>1, OneOpens DEF Story, OneOpen, Basic, Types, LogShut, Opening, Holding, Pending, fileVars
<1>4. Begun'
  BY DEF Story, Begun, Basic, Types
<1>5. Shelved'
  BY DEF Story, Shelved, Backups, Hole, Basic, Types, fileVars
<1> QED
  BY <1>2, <1>3, <1>4, <1>5 DEF Story

LEMMA TestStory ==
  ASSUME Basic, Story, NEW t \in Threads, Test(t) PROVE Story'
<1> USE NameFacts DEF Test, Goto, memVars, history
<1>1. Quiet' => Quiet
  BY DEF Quiet, Basic, Types
<1>2. Stored' /\ Newest'
  BY <1>1, SameStory
<1>3. OneOpen'
  BY <1>1, OneOpens DEF Story, OneOpen, Basic, Types, LogShut, Opening, Holding, Pending, fileVars
<1>4. Begun'
  BY DEF Story, Begun, Basic, Types
<1>5. Shelved'
  BY DEF Story, Shelved, Backups, Hole, Basic, Types, fileVars
<1> QED
  BY <1>2, <1>3, <1>4, <1>5 DEF Story

LEMMA TestSizeStory ==
  ASSUME Basic, Story, NEW t \in Threads, TestSize(t) PROVE Story'
<1> USE NameFacts DEF TestSize, Goto, memVars, history
<1>1. Quiet' => Quiet
  BY DEF Quiet, Basic, Types
<1>2. Stored' /\ Newest'
  BY <1>1, SameStory
<1>3. OneOpen'
  BY <1>1, OneOpens DEF Story, OneOpen, Basic, Types, LogShut, Opening, Holding, Pending, fileVars
<1>4. Begun'
  BY DEF Story, Begun, Basic, Types
<1>5. Shelved'
  BY DEF Story, Shelved, Backups, Hole, Basic, Types, fileVars
<1> QED
  BY <1>2, <1>3, <1>4, <1>5 DEF Story

LEMMA LockStory ==
  ASSUME Basic, Story, NEW t \in Threads, Lock(t) PROVE Story'
<1> USE NameFacts DEF Lock, Goto, memVars, history
<1>1. Quiet' => Quiet
  BY DEF Quiet, Basic, Types
<1>2. Stored' /\ Newest'
  BY <1>1, SameStory
<1>3. OneOpen'
  BY <1>1, OneOpens DEF Story, OneOpen, Basic, Types, LogShut, Opening, Holding, Pending, fileVars
<1>4. Begun'
  BY DEF Story, Begun, Basic, Types
<1>5. Shelved'
  BY DEF Story, Shelved, Backups, Hole, Basic, Types, fileVars
<1> QED
  BY <1>2, <1>3, <1>4, <1>5 DEF Story

LEMMA ResetStory ==
  ASSUME Basic, Story, NEW t \in Threads, Reset(t) PROVE Story'
<1> USE NameFacts DEF Reset, Goto, memVars, history
<1>1. Quiet' => Quiet
  BY DEF Quiet, Basic, Types
<1>2. Stored' /\ Newest'
  BY <1>1, SameStory
<1>3. OneOpen'
  BY <1>1, OneOpens DEF Story, OneOpen, Basic, Types, LogShut, Opening, Holding, Pending, fileVars
<1>4. Begun'
  BY DEF Story, Begun, Basic, Types
<1>5. Shelved'
  BY DEF Story, Shelved, Backups, Hole, Basic, Types, fileVars
<1> QED
  BY <1>2, <1>3, <1>4, <1>5 DEF Story

LEMMA OpenedStory ==
  ASSUME Basic, Story, NEW t \in Threads, Opened(t) PROVE Story'
<1> USE NameFacts DEF Opened, Goto, memVars, history
<1>1. Quiet' => Quiet
  BY DEF Quiet, Basic, Types
<1>2. Stored' /\ Newest'
  BY <1>1, SameStory
<1>3. OneOpen'
  <2>1. /\ pc[t] \in Pending /\ pc'[t] \notin LogShut /\ UNCHANGED <<dir, fds>>
        /\ mFile' = local[t] /\ \A u \in Threads : u # t => pc'[u] = pc[u] /\ local'[u] = local[u]
    BY DEF Basic, Types, Pending, LogShut, fileVars
  <2>2. SUFFICES ASSUME Quiet PROVE OneOpen'
    BY <1>1 DEF OneOpen
  <2>3. mFile = None /\ \A u \in Threads : pc[u] \in LogShut => u = t
    BY <2>1, <2>2, OneOpens DEF Story, OneOpen, Pending, LogShut, Opening, Holding
  <2>4. \A u \in Threads : pc[u] \in Pending => u = t
    BY <2>3 DEF Pending, LogShut
  <2> QED
    BY <2>1, <2>2, <2>3, <2>4 DEF Story, OneOpen
<1>4. Begun'
  BY DEF Story, Begun, Basic, Types
<1>5. Shelved'
  BY DEF Story, Shelved, Backups, Hole, Basic, Types, fileVars
<1> QED
  BY <1>2, <1>3, <1>4, <1>5 DEF Story

LEMMA UseStory ==
  ASSUME Basic, Story, NEW t \in Threads, Use(t) PROVE Story'
<1> USE NameFacts DEF Use, Goto, memVars, history
<1>1. Quiet' => Quiet
  BY DEF Quiet, Basic, Types
<1>2. Stored' /\ Newest'
  BY <1>1, SameStory
<1>3. OneOpen'
  <2>1. /\ pc[t] = "use" /\ pc'[t] \in {"write", "out"} /\ UNCHANGED <<dir, fds, mFile>>
        /\ \A u \in Threads : u # t => pc'[u] = pc[u] /\ local'[u] = local[u]
    BY DEF Basic, Types, fileVars
  <2> QED
    BY <1>1, <2>1 DEF Story, OneOpen, LogShut, Pending
<1>4. Begun'
  BY DEF Story, Begun, Basic, Types
<1>5. Shelved'
  BY DEF Story, Shelved, Backups, Hole, Basic, Types, fileVars
<1> QED
  BY <1>2, <1>3, <1>4, <1>5 DEF Story

LEMMA AddStory ==
  ASSUME Basic, Story, NEW t \in Threads, Add(t) PROVE Story'
<1> USE NameFacts DEF Add, Goto, memVars, history
<1>1. Quiet' => Quiet
  BY DEF Quiet, Basic, Types
<1>2. Stored' /\ Newest'
  BY <1>1, SameStory
<1>3. OneOpen'
  BY <1>1, OneOpens DEF Story, OneOpen, Basic, Types, LogShut, Opening, Holding, Pending, fileVars
<1>4. Begun'
  BY DEF Story, Begun, Basic, Types
<1>5. Shelved'
  BY DEF Story, Shelved, Backups, Hole, Basic, Types, fileVars
<1> QED
  BY <1>2, <1>3, <1>4, <1>5 DEF Story

-----------------------------------------------------------------------------
(* The steps that change the files: what becomes of the lines.             *)
LEMMA HoleIsName ==
  ASSUME Types, Locals, NEW t \in Threads, pc[t] = "shift"
  PROVE  Hole(t) \in Names /\ Hole(t) # Log
<1>1. local[t] \in 0..mMaxFile /\ mMaxFile \in 1..MaxFiles
  BY DEF Types, Locals
<1>2. local[t] \in Names
  BY <1>1, NameFacts
<1>3. local[t] # Log
  BY <1>1 DEF Log
<1> QED
  BY <1>1, <1>2, <1>3, NameFacts DEF Hole

LEMMA NothingInEmpty == DOMAIN <<>> = {}
<1>1. <<>> \in Seq({}) /\ Len(<<>>) = 0
  BY EmptySeq
<1>2. DOMAIN <<>> = 1..0
  BY <1>1, LenProperties
<1> QED
  BY <1>2

LEMMA OpenStory ==
  ASSUME Basic, Story, NEW t \in Threads, NEW fd \in Fds \cup {None}, Open(fd),
         \/ pc[t] = "continue" /\ Goto(t, "continued")
         \/ pc[t] = "open" /\ Goto(t, "opened"),
         local' = [local EXCEPT ![t] = fd],
         UNCHANGED <<memVars, lines, written, deaths, continued, alone>>
  PROVE  Story'
<1> USE NameFacts DEF Goto, memVars
<1>1. Types /\ OwnFiles /\ NoGhosts /\ HeldOpen /\ Locals
  BY DEF Basic
<1>2. /\ dir' \in [Names -> Files \cup {NoFile}] /\ content' = content /\ Shelf' = Shelf
      /\ \A n \in Names : n # Log \/ dir[n] # NoFile => dir'[n] = dir[n]
      /\ fd = None => fds' = fds /\ dir' = dir
      /\ fd # None => /\ fds[fd] = NoFile /\ fds' = [fds EXCEPT ![fd] = dir'[Log]]
  BY <1>1, Opens
<1>3. Quiet' => Quiet
  BY DEF Quiet
<1>4. Stored' /\ Newest'
  <2>1. Ordered(Shelf)' <=> Ordered(Shelf)
    BY <1>2 DEF Ordered
  <2>2. \A u, k : IsKept(u, k)' <=> IsKept(u, k)
    BY <1>2 DEF IsKept
  <2> QED
    BY <1>2, <1>3, <2>1, <2>2 DEF Story, Stored, Newest, Gapless
<1>5. OneOpen'
  <2>1. SUFFICES ASSUME Quiet PROVE OneOpen'
    BY <1>3 DEF OneOpen
  <2>2. mFile = None
    BY <2>1 DEF Story, OneOpen, LogShut
  <2>3. \A u \in Threads : pc[u] \in Pending => u = t
    BY <2>1, OneOpens DEF Pending, Opening, Holding
  <2>4. \A d \in Fds : fds[d] = NoFile
    BY <2>1, <2>2, <2>3 DEF Story, OneOpen, Pending
  <2>5. \A d \in Fds : fds'[d] # NoFile => d = fd /\ fds'[d] = dir'[Log]
    BY <1>1, <1>2, <2>4 DEF Types
  <2>6. pc'[t] \in Pending /\ local'[t] = fd
    BY <1>1 DEF Types, Pending
  <2> QED
    BY <2>2, <2>5, <2>6 DEF OneOpen
<1>6. Begun'
  BY <1>1 DEF Story, Begun, Types
<1>7. Shelved'
  <2>1. \A u \in Threads : pc'[u] = "shift" => pc[u] = "shift" /\ local'[u] = local[u]
    BY <1>1 DEF Types
  <2>2. \A u \in Threads : pc[u] = "shift" => Hole(u) \in Names /\ Hole(u) # Log
    BY <1>1, HoleIsName
  <2>3. \A n \in Names : n # Log => dir'[n] = dir[n]
    BY <1>2
  <2> QED
    BY <2>1, <2>2, <2>3 DEF Story, Shelved, Hole, Backups
<1> QED
  BY <1>4, <1>5, <1>6, <1>7 DEF Story

LEMMA CloseStory ==
  ASSUME Basic, Story, NEW t \in Threads, Close(t) PROVE Story'
<1> USE NameFacts DEF Goto, history
<1>1. Types /\ OwnFiles /\ NoGhosts /\ HeldOpen /\ Locals
  BY DEF Basic
<1>2. /\ pc[t] = "close" /\ pc' = [pc EXCEPT ![t] = "reset"] /\ mFile' = None
      /\ fds' = [d \in Fds |-> IF d = mFile THEN NoFile ELSE fds[d]]
      /\ content' = Kept(content, dir', fds')
      /\ UNCHANGED <<dir, mMaxFile, local, lines, written, continued, alone>>
  BY DEF Close
<1>3. Quiet' => Quiet
  BY <1>2 DEF Quiet
<1>4. /\ \A f \in Files : content'[f] = content[f] \/ content'[f] = <<>>
      /\ \A n \in Names : dir[n] # NoFile => content'[dir[n]] = content[dir[n]]
  BY <1>1, <1>2, KeptIsKept DEF Types
<1>5. Shelf' = Shelf
  BY <1>2, <1>4 DEF Shelf
<1>6. Stored'
  BY <1>2, <1>4 DEF Story, Stored
<1>7. Newest'
  <2>1. Ordered(Shelf)' <=> Ordered(Shelf)
    BY <1>5 DEF Ordered
  <2>2. \A u, k : IsKept(u, k)' <=> IsKept(u, k)
    BY <1>5 DEF IsKept
  <2> QED
    BY <1>2, <1>3, <2>1, <2>2 DEF Story, Newest, Gapless
<1>8. OneOpen'
  <2>1. \A d \in Fds : fds'[d] # NoFile => d # mFile /\ fds[d] # NoFile /\ fds'[d] = fds[d]
    BY <1>2
  <2>2. \A u \in Threads : pc[u] \in Pending => pc'[u] \in Pending
    BY <1>1, <1>2 DEF Types, Pending
  <2> QED
    BY <1>2, <1>3, <2>1, <2>2 DEF Story, OneOpen
<1>9. Begun'
  BY <1>1, <1>2 DEF Story, Begun, Types
<1>10. Shelved'
  BY <1>1, <1>2 DEF Story, Shelved, Backups, Hole, Types
<1> QED
  BY <1>6, <1>7, <1>8, <1>9, <1>10 DEF Story

(* A shelf moves up to an empty one, or over the oldest.                   *)
LEMMA Moves ==
  ASSUME Types, Ordered(Shelf), Gapless, NEW from \in Names, NEW to \in Names, from < to,
         \A n \in Names : from < n /\ n < to => Shelf[n] = <<>>,
         \A n \in Names : n > to => Shelf[to] = <<>> \/ Shelf[n] = <<>>,
         Shelf' = [Shelf EXCEPT ![to] = Shelf[from], ![from] = <<>>],
         UNCHANGED written
  PROVE  Ordered(Shelf)' /\ Gapless'
<1> USE NameFacts
<1>1. /\ \A n \in Names : Shelf[n] \in Seq(Threads \X Nat)
      /\ \A n \in Names : Shelf'[n] = IF n = from THEN <<>> ELSE IF n = to THEN Shelf[from] ELSE Shelf[n]
  <2>1. Shelf \in [Names -> Seq(Threads \X Nat)]
    BY ShelfType
  <2> QED
    BY <2>1
<1>2. \A n \in Names : DOMAIN Shelf[n] \subseteq Nat
                      /\ \A i \in DOMAIN Shelf[n] : Shelf[n][i] \in Threads \X Nat
  BY <1>1, ElementOfSeq, LenProperties
<1>3. Ordered(Shelf)'
  <2> SUFFICES ASSUME NEW m \in Names, NEW n \in Names, NEW i \in DOMAIN Shelf'[m], NEW j \in DOMAIN Shelf'[n],
                      Shelf'[m][i][1] = Shelf'[n][j][1], m > n \/ (m = n /\ i < j)
               PROVE  Shelf'[m][i][2] < Shelf'[n][j][2]
    BY DEF Ordered
  <2>1. m # from /\ n # from
    BY <1>1, NothingInEmpty
  <2> DEFINE was(x) == IF x = to THEN from ELSE x
  <2>2. was(m) \in Names /\ was(n) \in Names /\ Shelf'[m] = Shelf[was(m)] /\ Shelf'[n] = Shelf[was(n)]
    BY <1>1, <2>1
  <2>4. from \in Int /\ to \in Int /\ \A x \in Names : x \in Int
    OBVIOUS
  <2>3. was(m) > was(n) \/ (was(m) = was(n) /\ i < j)
    <3>1. \A x \in Names : from < x /\ x < to => DOMAIN Shelf'[x] = {}
      <4> SUFFICES ASSUME NEW x \in Names, from < x, x < to PROVE DOMAIN Shelf'[x] = {}
        OBVIOUS
      <4>1. x # from /\ x # to
        BY <2>4
      <4>2. Shelf'[x] = <<>>
        BY <1>1, <4>1
      <4> QED
        BY <4>2, NothingInEmpty
    <3>2. m \in Int /\ n \in Int /\ from \in Int /\ to \in Int
      OBVIOUS
    <3>3. ~(from < m /\ m < to) /\ ~(from < n /\ n < to)
      BY <3>1
    <3> QED
      BY <2>1, <3>2, <3>3
  <2> HIDE DEF was
  <2> QED
    BY <2>2, <2>3 DEF Ordered
<1>4. Gapless'
  <2> SUFFICES ASSUME NEW t \in Threads, NEW k \in written[t], NEW l \in written[t], k < l, IsKept(t, k)'
               PROVE  IsKept(t, l)'
    BY DEF Gapless
  <2>1. PICK n \in Names : \E i \in DOMAIN Shelf'[n] : Shelf'[n][i] = <<t, k>>
    BY DEF IsKept
  <2>2. PICK i \in DOMAIN Shelf'[n] : Shelf'[n][i] = <<t, k>>
    BY <2>1
  <2>3. n # from
    BY <1>1, <2>2, NothingInEmpty
  <2> DEFINE m == IF n = to THEN from ELSE n
  <2>4. m \in Names /\ Shelf[m] = Shelf'[n] /\ m # to
    BY <1>1, <2>3
  <2>10. IsKept(t, k)
    BY <2>2, <2>4 DEF IsKept
  <2>11. IsKept(t, l)
    BY <2>10 DEF Gapless
  <2>5. PICK p \in Names : \E j \in DOMAIN Shelf[p] : Shelf[p][j] = <<t, l>>
    BY <2>11 DEF IsKept
  <2>6. PICK j \in DOMAIN Shelf[p] : Shelf[p][j] = <<t, l>>
    BY <2>5
  <2>7. k \in Nat /\ l \in Nat
    BY DEF Types
  <2>8. p # to
    <3> SUFFICES ASSUME p = to PROVE FALSE
      OBVIOUS
    <3>1. \A q \in Names : q > to => Shelf[q] = <<>>
      BY <2>6, NothingInEmpty
    <3>2. m < to
      BY <2>2, <2>4, <3>1, NothingInEmpty
    <3>3. l < k
      <4>1. Shelf[m][i] = <<t, k>> /\ i \in DOMAIN Shelf[m]
        BY <2>2, <2>4
      <4>2. Shelf[p][j][1] = Shelf[m][i][1] /\ Shelf[p][j][2] = l /\ Shelf[m][i][2] = k
        BY <2>6, <4>1
      <4> QED
        BY <2>4, <2>6, <3>2, <4>1, <4>2 DEF Ordered
    <3> QED
      BY <2>7, <3>3
  <2>9. \E q \in Names : Shelf'[q] = Shelf[p]
    BY <1>1, <2>8
  <2> QED
    BY <2>6, <2>9 DEF IsKept
<1> QED
  BY <1>3, <1>4

(* The oldest shelf is emptied.                                            *)
LEMMA Drops ==
  ASSUME Types, Ordered(Shelf), Gapless, NEW name \in Names,
         \A n \in Names : n > name => Shelf[n] = <<>>,
         Shelf' = [Shelf EXCEPT ![name] = <<>>],
         UNCHANGED written
  PROVE  Ordered(Shelf)' /\ Gapless'
<1>1. \A n \in Names : Shelf'[n] = IF n = name THEN <<>> ELSE Shelf[n]
  <2>1. Shelf \in [Names -> Seq(Threads \X Nat)]
    BY ShelfType
  <2> QED
    BY <2>1
<1>2. \A n \in Names : \A i \in DOMAIN Shelf'[n] : n # name /\ i \in DOMAIN Shelf[n] /\ Shelf'[n] = Shelf[n]
  BY <1>1, NothingInEmpty
<1>3. Ordered(Shelf)'
  BY <1>2 DEF Ordered
<1>4. Gapless'
  <2> SUFFICES ASSUME NEW t \in Threads, NEW k \in written[t], NEW l \in written[t], k < l, IsKept(t, k)'
               PROVE  IsKept(t, l)'
    BY DEF Gapless
  <2>1. PICK n \in Names : \E i \in DOMAIN Shelf'[n] : Shelf'[n][i] = <<t, k>>
    BY DEF IsKept
  <2>2. PICK i \in DOMAIN Shelf'[n] : Shelf'[n][i] = <<t, k>>
    BY <2>1
  <2>3. n # name /\ i \in DOMAIN Shelf[n] /\ Shelf[n][i] = <<t, k>>
    BY <1>2, <2>2
  <2>4. IsKept(t, k)
    BY <2>3 DEF IsKept
  <2>5. IsKept(t, l)
    BY <2>4 DEF Gapless
  <2>6. PICK p \in Names : \E j \in DOMAIN Shelf[p] : Shelf[p][j] = <<t, l>>
    BY <2>5 DEF IsKept
  <2>7. PICK j \in DOMAIN Shelf[p] : Shelf[p][j] = <<t, l>>
    BY <2>6
  <2>8. p # name
    <3> SUFFICES ASSUME p = name PROVE FALSE
      OBVIOUS
    <3>1. n < p
      BY <2>3, NothingInEmpty, NameFacts
    <3>2. Shelf[p][j][1] = Shelf[n][i][1] /\ Shelf[p][j][2] = l /\ Shelf[n][i][2] = k
      BY <2>3, <2>7
    <3>3. l < k
      BY <2>3, <2>7, <3>1, <3>2, NameFacts DEF Ordered
    <3>4. k \in Nat /\ l \in Nat
      BY DEF Types
    <3> QED
      BY <3>3, <3>4
  <2>9. Shelf'[p] = Shelf[p]
    BY <1>1, <2>8
  <2> QED
    BY <2>7, <2>9 DEF IsKept
<1> QED
  BY <1>3, <1>4

LEMMA NoShelf ==
  ASSUME NEW n \in Names, dir[n] = NoFile PROVE Shelf[n] = <<>>
BY DEF Shelf

(* Nothing open leads to the log while it is moved.                        *)
LEMMA ShutIsShut ==
  ASSUME Basic, Story, Quiet, NEW t \in Threads, pc[t] \in {"unlink", "shift"}
  PROVE  mFile = None /\ \A d \in Fds : fds[d] = NoFile
<1>1. mFile = None
  BY DEF Story, OneOpen, LogShut
<1>2. \A u \in Threads : pc[u] \notin Pending
  BY OneOpens DEF Pending, Opening, Holding
<1> QED
  BY <1>1, <1>2, NameFacts DEF Story, OneOpen

LEMMA UnlinkOldestStory ==
  ASSUME Basic, Story, NEW t \in Threads, UnlinkOldest(t) PROVE Story'
<1> USE NameFacts DEF Goto, memVars, history
<1>1. Types /\ OwnFiles /\ NoGhosts /\ HeldOpen /\ Locals /\ OneRotates /\ mMaxFile \in Names
  BY DEF Basic, Types, Names, Log
<1>2. /\ pc[t] = "unlink" /\ pc' = [pc EXCEPT ![t] = "shift"]
      /\ Unlink(mMaxFile) /\ local' = [local EXCEPT ![t] = mMaxFile - 1]
      /\ UNCHANGED <<mFile, mMutex, mMaxFile, fds, lines, written, continued, alone>>
  BY DEF UnlinkOldest
<1>3. Quiet' => Quiet
  BY <1>2 DEF Quiet
<1>4. /\ dir' = [dir EXCEPT ![mMaxFile] = NoFile]
      /\ \A f \in Files : content'[f] = content[f] \/ content'[f] = <<>>
      /\ Shelf' = [Shelf EXCEPT ![mMaxFile] = <<>>]
  BY <1>1, <1>2, Unlinks
<1>5. mMaxFile \in 1..MaxFiles /\ mMaxFile > Log
  BY <1>1 DEF Types, Log
<1>6. Stored'
  BY <1>2, <1>4, NothingInEmpty DEF Story, Stored
<1>7. Newest'
  <2>1. \A n \in Names : n > mMaxFile => Shelf[n] = <<>>
    <3>1. \A n \in Backups : n \in Int /\ n <= mMaxFile
      BY <1>5 DEF Backups
    <3> QED
      BY <1>5, <3>1, NoShelf DEF Story, Shelved
  <2> QED
    BY <1>1, <1>2, <1>3, <1>4, <2>1, Drops DEF Story, Newest
<1>8. OneOpen'
  <2>1. \A u \in Threads : pc'[u] \in LogShut => pc[u] \in LogShut
    BY <1>1, <1>2 DEF Types, LogShut
  <2> QED
    BY <1>2, <1>3, <2>1, ShutIsShut DEF OneOpen
<1>9. Begun'
  BY <1>1, <1>2 DEF Story, Begun, Types
<1>10. Shelved'
  <2>1. ASSUME NEW u \in Threads, pc'[u] = "shift" PROVE u = t
    BY <1>1, <1>2, <2>1 DEF Types, OneRotates, Holding
  <2>2. local'[t] = mMaxFile - 1
    BY <1>1, <1>2 DEF Types
  <2>3. \A n \in Names : dir'[n] = IF n = mMaxFile THEN NoFile ELSE dir[n]
    BY <1>1, <1>4 DEF Types
  <2>4. dir'[Hole(t)'] = NoFile \/ (local'[t] > 0 /\ local'[t] = mMaxFile' - 1)
    BY <1>1, <1>2, <1>5, <2>2, <2>3 DEF Hole, FirstBackup
  <2> QED
    BY <1>2, <2>1, <2>3, <2>4 DEF Story, Shelved, Backups
<1> QED
  BY <1>6, <1>7, <1>8, <1>9, <1>10 DEF Story

LEMMA DieStory ==
  ASSUME Basic, Story, Die PROVE Story'
<1> USE NameFacts
<1>1. Types /\ OwnFiles /\ NoGhosts
  BY DEF Basic
<1>2. /\ fds' = [d \in Fds |-> NoFile] /\ content' = Kept(content, dir', fds')
      /\ mFile' = None /\ pc' = [t \in Threads |-> "out"]
      /\ UNCHANGED <<mMaxFile, dir, lines, written, alone>>
      /\ continued' = (continued \/ mIsCont')
  BY DEF Die
<1>3. Quiet' => Quiet
  BY <1>2 DEF Quiet
<1>4. /\ \A f \in Files : content'[f] = content[f] \/ content'[f] = <<>>
      /\ \A n \in Names : dir[n] # NoFile => content'[dir[n]] = content[dir[n]]
  BY <1>1, <1>2, KeptIsKept DEF Types
<1>5. Shelf' = Shelf
  BY <1>2, <1>4 DEF Shelf
<1>6. Stored'
  BY <1>2, <1>4, NothingInEmpty DEF Story, Stored
<1>7. Newest'
  <2>1. Ordered(Shelf)' <=> Ordered(Shelf)
    BY <1>5 DEF Ordered
  <2>2. \A u, k : IsKept(u, k)' <=> IsKept(u, k)
    BY <1>5 DEF IsKept
  <2> QED
    BY <1>2, <1>3, <2>1, <2>2 DEF Story, Newest, Gapless
<1>8. OneOpen' /\ Begun' /\ Shelved'
  BY <1>2 DEF Story, OneOpen, Begun, Shelved, Backups, LogShut
<1> QED
  BY <1>6, <1>7, <1>8 DEF Story

LEMMA ShiftStory ==
  ASSUME Basic, Story, NEW t \in Threads, Shift(t) PROVE Story'
<1> USE NameFacts DEF Goto, memVars, history
<1>1. Types /\ OwnFiles /\ NoGhosts /\ HeldOpen /\ Locals /\ OneRotates
  BY DEF Basic
<1> DEFINE i == local[t]
           from == From(t)
           to == Hole(t)
<1>2. /\ pc[t] = "shift" /\ UNCHANGED <<mFile, mMutex, mMaxFile, fds, lines, written, continued, alone>>
      /\ Rename(from, to)
      /\ i > 0 => local' = [local EXCEPT ![t] = i - 1] /\ pc' = pc
      /\ ~(i > 0) => pc' = [pc EXCEPT ![t] = "open"]
      /\ \A u \in Threads : u # t => local'[u] = local[u] /\ pc'[u] = pc[u]
  <2>1. /\ pc[t] = "shift" /\ Rename(from, to)
        /\ local' = [local EXCEPT ![t] = IF i > 0 THEN i - 1 ELSE 0]
        /\ pc' = [pc EXCEPT ![t] = IF i > 0 THEN "shift" ELSE "open"]
        /\ UNCHANGED <<mFile, mMutex, mMaxFile, fds, lines, written, continued, alone>>
    BY <1>1, ShiftIs
  <2> HIDE DEF from, to
  <2>2. i > 0 => pc' = pc
    BY <1>1, <2>1 DEF Types
  <2> QED
    BY <1>1, <2>1, <2>2 DEF Types
<1>3. Quiet' => Quiet
  BY <1>2 DEF Quiet
<1>4. i \in 0 .. mMaxFile - 1 /\ mMaxFile \in 1..MaxFiles
  BY <1>1, <1>2 DEF Types, Locals
<1>5. from \in Names /\ to \in Names /\ from < to /\ to \in Backups
  <2>1. to \in Backups
    BY <1>4 DEF Hole, Backups, FirstBackup
  <2> QED
    BY <1>1, <2>1, ShiftIs
<1>6. /\ dir' = IF dir[from] = NoFile THEN dir
                ELSE [dir EXCEPT ![to] = dir[from], ![from] = NoFile]
      /\ \A f \in Files : content'[f] = content[f] \/ content'[f] = <<>>
      /\ Shelf' = IF dir[from] = NoFile THEN Shelf
                  ELSE [Shelf EXCEPT ![to] = Shelf[from], ![from] = <<>>]
  BY <1>1, <1>2, <1>5, Renames
<1>7. Stored'
  BY <1>2, <1>6, NothingInEmpty DEF Story, Stored
<1>8. \A n \in Names : n # Log /\ n \notin Backups => Shelf[n] = <<>>
  BY NoShelf DEF Story, Shelved
<1>9. \A n \in Names : from < n /\ n < to => Shelf[n] = <<>>
  <2> SUFFICES ASSUME NEW n \in Names, from < n, n < to PROVE Shelf[n] = <<>>
    OBVIOUS
  <2>1. i = 0 /\ n > Log /\ n < FirstBackup(mMaxFile)
    BY <1>4 DEF Hole, From
  <2>2. mMaxFile = 1 /\ n = 0
    BY <1>4, <2>1 DEF FirstBackup, Log
  <2> QED
    BY <1>8, <2>2 DEF Backups, Log
<1>10. \A n \in Names : n > to => Shelf[to] = <<>> \/ Shelf[n] = <<>>
  <2>1. CASE dir[to] = NoFile
    BY <1>5, <2>1, NoShelf
  <2>2. CASE i > 0 /\ i = mMaxFile - 1
    <3>1. to = mMaxFile - 1 /\ Backups = 0 .. mMaxFile - 1
      BY <1>4, <2>2 DEF Hole, Backups
    <3>2. \A n \in Names : n > to => n # Log /\ n \notin Backups
      BY <1>4, <3>1 DEF Log
    <3> QED
      BY <1>8, <3>2
  <2> QED
    BY <1>2, <2>1, <2>2 DEF Story, Shelved
<1>11. Newest'
  <2>1. SUFFICES ASSUME Quiet PROVE Ordered(Shelf)' /\ Gapless'
    BY <1>3 DEF Newest
  <2>2. CASE dir[from] = NoFile
    <3>1. Ordered(Shelf)' <=> Ordered(Shelf)
      BY <1>6, <2>2 DEF Ordered
    <3>2. \A u, k : IsKept(u, k)' <=> IsKept(u, k)
      BY <1>6, <2>2 DEF IsKept
    <3> QED
      BY <1>2, <2>1, <3>1, <3>2 DEF Story, Newest, Gapless
  <2>3. CASE dir[from] # NoFile
    <3> HIDE DEF from, to
    <3> QED
      BY <1>1, <1>2, <1>5, <1>6, <1>9, <1>10, <2>1, <2>3, Moves DEF Story, Newest
  <2> QED
    BY <2>2, <2>3
<1>12. OneOpen'
  BY <1>2, <1>3, ShutIsShut DEF OneOpen
<1>13. Begun'
  BY <1>1, <1>2 DEF Story, Begun, Types
<1>14. Shelved'
  <2> HIDE DEF to
  <2>1. \A n \in Names : dir'[n] # NoFile => n # from /\ (n = to \/ dir[n] # NoFile)
    BY <1>1, <1>5, <1>6 DEF Types
  <2>2. ASSUME NEW u \in Threads, pc'[u] = "shift" PROVE u = t /\ Hole(u)' = from
    <3>1. u = t
      BY <1>1, <1>2, <2>2 DEF OneRotates, Holding
    <3>2. i > 0 /\ local'[t] = i - 1
      BY <1>1, <1>2, <2>2, <3>1 DEF Types
    <3> QED
      BY <1>2, <1>4, <3>1, <3>2 DEF Hole, From, FirstBackup
  <2> QED
    BY <1>2, <1>5, <2>1, <2>2 DEF Story, Shelved, Backups
<1> QED
  BY <1>7, <1>11, <1>12, <1>13, <1>14 DEF Story

(* The log takes a line that comes after all of its thread's.              *)
LEMMA Appends ==
  ASSUME Types, Ordered(Shelf), Gapless, NEW t \in Threads, NEW x \in Nat,
         \A k \in written[t] : k < x,
         \A n \in Names : \A i \in DOMAIN Shelf[n] : Shelf[n][i][2] \in written[Shelf[n][i][1]],
         Shelf' = [Shelf EXCEPT ![Log] = Append(@, <<t, x>>)],
         written' = [written EXCEPT ![t] = @ \cup {x}]
  PROVE  Ordered(Shelf)' /\ Gapless'
<1> USE NameFacts
<1> DEFINE last == Len(Shelf[Log]) + 1
<1>1. \A n \in Names : Shelf[n] \in Seq(Threads \X Nat)
  <2>1. Shelf \in [Names -> Seq(Threads \X Nat)]
    BY ShelfType
  <2> QED
    BY <2>1
<1>2. \A n \in Names : Shelf'[n] = IF n = Log THEN Append(Shelf[Log], <<t, x>>) ELSE Shelf[n]
  <2>1. Shelf \in [Names -> Seq(Threads \X Nat)]
    BY ShelfType
  <2> QED
    BY <2>1
<1>3. last \in Nat \ {0} /\ DOMAIN Shelf[Log] = 1 .. (last - 1)
  BY <1>1, LenProperties
<1>4. /\ DOMAIN Shelf'[Log] = 1..last /\ Shelf'[Log][last] = <<t, x>>
      /\ \A i \in 1 .. (last - 1) : Shelf'[Log][i] = Shelf[Log][i]
  <2>1. <<t, x>> \in Threads \X Nat /\ Shelf[Log] \in Seq(Threads \X Nat)
    BY <1>1
  <2>2. /\ Append(Shelf[Log], <<t, x>>) \in Seq(Threads \X Nat)
        /\ Len(Append(Shelf[Log], <<t, x>>)) = last
        /\ \A i \in 1 .. Len(Shelf[Log]) : Append(Shelf[Log], <<t, x>>)[i] = Shelf[Log][i]
        /\ Append(Shelf[Log], <<t, x>>)[last] = <<t, x>>
    BY <2>1, AppendProperties
  <2>3. DOMAIN Append(Shelf[Log], <<t, x>>) = 1..last
    BY <2>2, LenProperties
  <2> QED
    BY <1>1, <1>2, <1>3, <2>2, <2>3, LenProperties
<1> HIDE DEF last
<1>5. \A n \in Names : \A i \in DOMAIN Shelf'[n] :
        \/ n = Log /\ i = last /\ Shelf'[n][i] = <<t, x>>
        \/ i \in DOMAIN Shelf[n] /\ Shelf'[n][i] = Shelf[n][i] /\ (n = Log => i < last)
  BY <1>2, <1>3, <1>4
<1>6. \A n \in Names : \A i \in DOMAIN Shelf[n] :
        /\ i \in DOMAIN Shelf'[n] /\ Shelf'[n][i] = Shelf[n][i]
        /\ Shelf[n][i][1] = t => Shelf[n][i][2] < x
  BY <1>2, <1>3, <1>4
<1>7. Ordered(Shelf)'
  <2> SUFFICES ASSUME NEW m \in Names, NEW n \in Names, NEW i \in DOMAIN Shelf'[m], NEW j \in DOMAIN Shelf'[n],
                      Shelf'[m][i][1] = Shelf'[n][j][1], m > n \/ (m = n /\ i < j)
               PROVE  Shelf'[m][i][2] < Shelf'[n][j][2]
    BY DEF Ordered
  <2>1. CASE m = Log /\ i = last
    <3>1. n = Log /\ i < j /\ j \in 1..last
      BY <1>4, <2>1
    <3> QED
      BY <1>3, <2>1, <3>1
  <2>2. CASE ~(m = Log /\ i = last) /\ n = Log /\ j = last
    BY <1>4, <1>5, <1>6, <2>2
  <2>3. CASE ~(m = Log /\ i = last) /\ ~(n = Log /\ j = last)
    BY <1>5, <2>3 DEF Ordered
  <2> QED
    BY <2>1, <2>2, <2>3
<1>8. Gapless'
  <2> SUFFICES ASSUME NEW u \in Threads, NEW k \in written'[u], NEW l \in written'[u], k < l, IsKept(u, k)'
               PROVE  IsKept(u, l)'
    BY DEF Gapless
  <2>1. written'[u] = IF u = t THEN written[t] \cup {x} ELSE written[u]
    BY DEF Types
  <2>2. CASE u = t /\ l = x
    <3>1. last \in DOMAIN Shelf'[Log] /\ Shelf'[Log][last] = <<u, l>>
      BY <1>3, <1>4, <2>2
    <3> QED
      BY <3>1 DEF IsKept
  <2>3. CASE ~(u = t /\ l = x)
    <3>1. l \in written[u] /\ k \in Nat /\ l \in Nat /\ ~(u = t /\ k = x)
      BY <2>1, <2>3 DEF Types
    <3>2. k \in written[u]
      BY <2>1, <3>1
    <3>3. PICK n \in Names : \E i \in DOMAIN Shelf'[n] : Shelf'[n][i] = <<u, k>>
      BY DEF IsKept
    <3>4. \E i \in DOMAIN Shelf[n] : Shelf[n][i] = <<u, k>>
      BY <1>5, <3>1, <3>3
    <3>5. IsKept(u, k)
      BY <3>4 DEF IsKept
    <3>6. IsKept(u, l)
      BY <3>1, <3>2, <3>5 DEF Gapless
    <3>7. PICK p \in Names : \E j \in DOMAIN Shelf[p] : Shelf[p][j] = <<u, l>>
      BY <3>6 DEF IsKept
    <3>8. \E j \in DOMAIN Shelf'[p] : Shelf'[p][j] = <<u, l>>
      BY <1>6, <3>7
    <3> QED
      BY <3>8 DEF IsKept
  <2> QED
    BY <2>2, <2>3
<1> QED
  BY <1>7, <1>8

LEMMA WriteStory ==
  ASSUME Basic, Story, NEW t \in Threads, Write(t) PROVE Story'
<1> USE NameFacts DEF Goto, memVars
<1>1. Types /\ OwnFiles /\ HeldOpen /\ Locals
  BY DEF Basic
<1> DEFINE f == fds[local[t]]
           line == <<t, lines[t]>>
<1>2. /\ pc[t] = "write" /\ local[t] \in Fds /\ f \in Files \cup {NoFile}
      /\ local' = [local EXCEPT ![t] = mSize] /\ pc' = [pc EXCEPT ![t] = "add"]
      /\ UNCHANGED <<mFile, mMaxFile, dir, fds, lines, continued, alone>>
  BY <1>1 DEF Write, Types, Locals
<1>3. /\ f # NoFile => /\ content' = [content EXCEPT ![f] = Append(@, line)]
                       /\ written' = [written EXCEPT ![t] = @ \cup {lines[t]}]
      /\ f = NoFile => UNCHANGED <<content, written>>
  BY DEF Write
<1>4. Quiet' => Quiet
  BY <1>2 DEF Quiet
<1>5. /\ line \in Threads \X Nat /\ content \in [Files -> Seq(Threads \X Nat)]
      /\ \A u \in Threads : written[u] \subseteq Nat /\ lines[u] \in Nat
      /\ line[1] = t /\ line[2] = lines[t]
  BY <1>1 DEF Types
<1> HIDE DEF line
<1>6. OneOpen'
  <2>1. \A u \in Threads : /\ pc'[u] \in LogShut => pc[u] \in LogShut
                           /\ pc[u] \in Pending => pc'[u] \in Pending /\ local'[u] = local[u]
    BY <1>1, <1>2 DEF Types, LogShut, Pending
  <2> QED
    BY <1>2, <1>4, <2>1 DEF Story, OneOpen
<1>7. Shelved'
  <2>1. \A u \in Threads : pc'[u] = "shift" => pc[u] = "shift" /\ local'[u] = local[u]
    BY <1>1, <1>2 DEF Types
  <2> QED
    BY <1>2, <2>1 DEF Story, Shelved, Hole, Backups
<1>8. CASE f = NoFile
  <2>1. Stored' /\ Newest'
    BY <1>2, <1>3, <1>4, <1>8, SameStory DEF fileVars
  <2>2. Begun'
    BY <1>1, <1>2, <1>3, <1>8 DEF Story, Begun, Types
  <2> QED
    BY <1>6, <1>7, <2>1, <2>2 DEF Story
<1>9. CASE f # NoFile
  <2>1. \A u \in Threads : written'[u] = IF u = t THEN written[t] \cup {lines[t]} ELSE written[u]
    BY <1>1, <1>3, <1>9 DEF Types
  <2>2. Begun'
    <3>1. \A u \in Threads : u # t => pc'[u] = pc[u]
      BY <1>1, <1>2 DEF Types
    <3>2. pc'[t] = "add"
      BY <1>1, <1>2 DEF Types
    <3> QED
      BY <1>2, <1>5, <2>1, <3>1, <3>2 DEF Story, Begun
  <2>3. /\ content[f] \in Seq(Threads \X Nat)
        /\ \A g \in Files : content'[g] = IF g = f THEN Append(content[f], line) ELSE content[g]
    BY <1>2, <1>3, <1>5, <1>9
  <2>4. \A i \in DOMAIN Append(content[f], line) :
          \/ i \in DOMAIN content[f] /\ Append(content[f], line)[i] = content[f][i]
          \/ Append(content[f], line)[i] = line
    <3> DEFINE more == Append(content[f], line)
               len == Len(content[f])
    <3>1. /\ more \in Seq(Threads \X Nat) /\ Len(more) = len + 1 /\ more[len + 1] = line
          /\ \A i \in 1..len : more[i] = content[f][i]
      BY <1>5, <2>3, AppendProperties
    <3>2. len \in Nat /\ DOMAIN more = 1 .. len + 1 /\ DOMAIN content[f] = 1..len
      BY <2>3, <3>1, LenProperties
    <3> HIDE DEF more, len
    <3> QED
      BY <3>1, <3>2 DEF more
  <2>5. Stored'
    <3> SUFFICES ASSUME NEW g \in Files, NEW i \in DOMAIN content'[g]
                 PROVE  content'[g][i][2] \in written'[content'[g][i][1]]
      BY DEF Stored
    <3>1. CASE i \in DOMAIN content[g] /\ content'[g][i] = content[g][i]
      <4>1. content[g][i][1] \in Threads
        <5>1. content[g] \in Seq(Threads \X Nat)
          BY <1>5
        <5>2. content[g][i] \in Threads \X Nat
          BY <3>1, <5>1, LenProperties, ElementOfSeq
        <5> QED
          BY <5>2
      <4> QED
        BY <2>1, <3>1, <4>1 DEF Story, Stored
    <3>2. CASE content'[g][i] = line
      BY <1>5, <2>1, <3>2
    <3> QED
      BY <2>3, <2>4, <3>1, <3>2
  <2>6. Newest'
    <3>1. SUFFICES ASSUME Quiet PROVE Ordered(Shelf)' /\ Gapless'
      BY <1>4 DEF Newest
    <3>2. f = dir[Log]
      BY <1>2, <1>9, <3>1 DEF Story, OneOpen
    <3>3. \A n \in Names : n # Log => dir[n] # f
      BY <1>1, <1>9, <3>2 DEF OwnFiles
    <3>4. \A n \in Names : ShelfOf(n)' = IF n = Log THEN Append(ShelfOf(Log), line) ELSE ShelfOf(n)
      BY <1>1, <1>2, <1>9, <2>3, <3>2, <3>3 DEF ShelfOf, Types
    <3>5. Shelf' = [Shelf EXCEPT ![Log] = Append(@, line)]
      BY <3>4 DEF Shelf, ShelfOf
    <3>6. \A k \in written[t] : k < lines[t]
      <4>1. lines[t] \notin written[t] /\ \A k \in written[t] : k <= lines[t]
        BY <1>2 DEF Story, Begun
      <4>2. lines[t] \in Nat /\ \A k \in written[t] : k \in Nat
        BY <1>5
      <4> QED
        BY <4>1, <4>2
    <3>7. \A n \in Names : \A i \in DOMAIN Shelf[n] : Shelf[n][i][2] \in written[Shelf[n][i][1]]
      BY <1>1, NothingInEmpty DEF Story, Stored, Shelf, Types
    <3> QED
      BY <1>1, <1>3, <1>5, <1>9, <3>1, <3>5, <3>6, <3>7, Appends DEF Story, Newest, line
  <2> QED
    BY <1>6, <1>7, <2>2, <2>5, <2>6 DEF Story
<1> QED
  BY <1>2, <1>8, <1>9

-----------------------------------------------------------------------------
LEMMA StoryInit == Init => Story
<1> SUFFICES ASSUME Init PROVE Story
  OBVIOUS
<1>1. \A f \in Files : content[f] = <<>>
  BY DEF Init
<1>2. \A n \in Names : dir[n] = NoFile /\ Shelf[n] = <<>>
  BY DEF Init, Shelf
<1>3. Newest
  BY <1>2, NothingInEmpty DEF Newest, Ordered, Gapless, IsKept
<1>4. Stored
  BY <1>1, NothingInEmpty DEF Stored
<1> QED
  BY <1>2, <1>3, <1>4 DEF Init, Story, OneOpen, Begun, Shelved, LogShut

LEMMA StoryNext == Basic /\ Story /\ [Next]_vars => Story'
<1> SUFFICES ASSUME Basic, Story, [Next]_vars PROVE Story'
  OBVIOUS
<1>1. ASSUME NEW t \in Threads, Continue(t) \/ Reopen(t) PROVE Story'
  BY <1>1, OpenStory DEF Continue, Reopen
<1>2. CASE UNCHANGED vars
  <2>1. UNCHANGED <<memVars, fileVars, pc, local, history, alone>>
    BY <1>2 DEF vars
  <2> USE <2>1 DEF memVars, fileVars, history
  <2>2. Quiet' <=> Quiet
    BY DEF Quiet
  <2>3. Stored' /\ Newest'
    BY <2>2, SameStory
  <2>4. OneOpen' /\ Begun' /\ Shelved'
    BY <2>2 DEF Story, OneOpen, Begun, Shelved, Hole, Backups
  <2> QED
    BY <2>3, <2>4 DEF Story
<1> QED
  BY <1>1, <1>2, BeginStory, ContinuedStory, StatStory, TestStory, TestSizeStory, LockStory, CloseStory,
     ResetStory, UnlinkOldestStory, ShiftStory, OpenedStory, UseStory, WriteStory, AddStory,
     DieStory DEF Next

LEMMA Invariant == Spec => [](Basic /\ Story)
<1>1. Init => Basic /\ Story
  BY BasicInit, StoryInit
<1>2. Basic /\ Story /\ [Next]_vars => (Basic /\ Story)'
  BY BasicNext, StoryNext
<1> QED
  BY <1>1, <1>2, PTL DEF Spec

(* Only the thread with mMutex rotates, no file has two names, what has no *)
(* name and no descriptor is gone, and without isCont at most one          *)
(* descriptor is open (SP_NKFileLog::check).                               *)
THEOREM TypeCorrect == Spec => []TypeOK
<1>1. Basic /\ Story => TypeOK
  <2> SUFFICES ASSUME Basic, Story PROVE TypeOK
    OBVIOUS
  <2> DEFINE open == {d \in Fds : fds[d] # NoFile}
  <2>1. ASSUME ~continued, NEW d \in open, NEW e \in open PROVE d = e
    <3>1. Quiet
      BY <2>1 DEF Quiet
    <3>2. /\ d = mFile \/ \E t \in Threads : pc[t] \in Pending /\ local[t] = d
          /\ e = mFile \/ \E t \in Threads : pc[t] \in Pending /\ local[t] = e
      BY <3>1 DEF Story, OneOpen
    <3>3. \A t \in Threads : pc[t] \in Pending => mFile = None
      BY <3>1 DEF Story, OneOpen, Pending, LogShut
    <3>4. \A t, u \in Threads : pc[t] \in Pending /\ pc[u] \in Pending => t = u
      BY <3>1, OneOpens DEF Pending, Opening, Holding
    <3> QED
      BY <3>2, <3>3, <3>4, NameFacts
  <2>2. ~continued => Cardinality(open) <= 1
    <3> SUFFICES ASSUME ~continued PROVE Cardinality(open) <= 1
      OBVIOUS
    <3>1. open = {} \/ \E d \in open : open = {d}
      BY <2>1
    <3> HIDE DEF open
    <3> QED
      BY <3>1, FS_EmptySet, FS_Singleton
  <2> QED
    BY <2>2 DEF Basic, Types, OneRotates, OwnFiles, NoGhosts, HeldOpen, TypeOK
<1> QED
  BY <1>1, Invariant, PTL

(* What the files hold of a thread's lines is always the newest of them,   *)
(* without a gap and in order, whenever a process dies and whatever fails, *)
(* unless isCont lets two threads open the log (SP_NKFileLog::check).      *)
THEOREM KeptNewestHolds == Spec => []KeptNewest
<1>1. Basic /\ Story => KeptNewest
  <2> SUFFICES ASSUME Basic, Story, Quiet PROVE KeptNewest
    BY DEF KeptNewest, Quiet
  <2>1. \A n \in Names : \A i \in DOMAIN Shelf[n] : Shelf[n][i][2] \in written[Shelf[n][i][1]]
    BY NothingInEmpty DEF Basic, Story, Stored, Shelf, Types
  <2> QED
    BY <2>1 DEF Story, Newest, Gapless, KeptNewest
<1> QED
  BY <1>1, Invariant, PTL
-----------------------------------------------------------------------------
(* While threads log one at a time, nothing fails and no process has died. *)
Strict == alone /\ ~failed /\ deaths = 0
LogLen == Len(Shelf[Log])

Steps ==
  \A t \in Threads :
    /\ written[t] = IF pc[t] \in {"out", "add"} THEN 1..lines[t] ELSE 1 .. lines[t] - 1
    /\ pc[t] \in {"limit", "use", "stat", "close"} => mFile # None
    /\ pc[t] = "write" => local[t] = mFile /\ mFile # None
    /\ pc[t] \in Pending => local[t] # None

(* What mSize says of the log, which is full when it is rotated and has    *)
(* no line only until its first one is written.                            *)
Sizes ==
  /\ mFile # None /\ (\A t \in Threads : pc[t] \notin {"stat", "add"}) => mSize = LogLen
  /\ mFile = None /\ (\A t \in Threads : pc[t] # "reset") => mSize = 0
  /\ \A t \in Threads :
       /\ pc[t] = "add" => local[t] + 1 = LogLen /\ mFile # None
       /\ pc[t] = "lock" => mFile = None \/ LogLen > MaxSize
       /\ pc[t] \in {"close", "reset", "unlink", "shift"} => dir[Log] = NoFile \/ LogLen > MaxSize
       /\ pc[t] = "open" => dir[Log] = NoFile
       /\ pc[t] = "opened" => LogLen = 0
  /\ mFile = None /\ (\A t \in Threads : pc[t] \in {"out", "continue", "test", "lock"}) =>
       \A n \in Names : dir[n] = NoFile
  /\ dir[Log] # NoFile =>
       \/ LogLen > 0
       \/ \E t \in Threads : pc[t] \in {"continued", "stat", "test", "limit", "opened", "use", "write"}

Full == \A n \in Backups : dir[n] # NoFile => Len(Shelf[n]) > MaxSize

(* The names are taken one after the other from the log on, but for the    *)
(* one that a rotation has just emptied; all of them before a line is lost.*)
AtHole(n) ==
  \E t \in Threads : \/ pc[t] = "shift" /\ n = Hole(t) /\ dir[n] = NoFile
                     \/ pc[t] = "open" /\ n = Log
Dropped == \E t \in Threads : \E k \in written[t] : ~IsKept(t, k)
Chain ==
  /\ \A m, n \in {Log} \cup Backups : m < n /\ dir[n] # NoFile /\ ~AtHole(m) => dir[m] # NoFile
  /\ Dropped => \A n \in {Log} \cup Backups : dir[n] # NoFile \/ AtHole(n)

Filled == Strict => Steps /\ Sizes /\ Full /\ Chain

LEMMA LensAreNat ==
  ASSUME Types
  PROVE  /\ \A n \in Names : Len(Shelf[n]) \in Nat /\ (dir[n] = NoFile => Len(Shelf[n]) = 0)
         /\ LogLen \in Nat /\ (dir[Log] = NoFile => LogLen = 0)
<1>1. \A n \in Names : Shelf[n] \in Seq(Threads \X Nat) /\ (dir[n] = NoFile => Shelf[n] = <<>>)
  <2>1. Shelf \in [Names -> Seq(Threads \X Nat)]
    BY ShelfType
  <2> QED
    BY <2>1, NoShelf
<1>2. \A n \in Names : Len(Shelf[n]) \in Nat /\ (dir[n] = NoFile => Len(Shelf[n]) = 0)
  BY <1>1, LenProperties, EmptySeq
<1> QED
  BY <1>2, NameFacts DEF LogLen

LEMMA BackupNames ==
  ASSUME Types PROVE Backups \subseteq Names /\ \A n \in Backups : n > Log /\ n <= mMaxFile
BY NameFacts DEF Types, Backups, Log

LEMMA SameChain ==
  ASSUME Full, Chain, UNCHANGED <<dir, mMaxFile, written>>, Shelf' = Shelf,
         \A t \in Threads : /\ pc'[t] = pc[t] \/ (pc[t] \notin {"shift", "open"} /\ pc'[t] \notin {"shift", "open"})
                            /\ pc'[t] = "shift" => local'[t] = local[t]
  PROVE  Full' /\ Chain'
<1> DEFINE Leaves(u, n) == \/ pc[u] = "shift" /\ n = Hole(u) /\ dir[n] = NoFile
                           \/ pc[u] = "open" /\ n = Log
<1>1. ASSUME NEW n PROVE AtHole(n)' <=> AtHole(n)
  <2>1. ASSUME NEW u \in Threads PROVE Leaves(u, n)' <=> Leaves(u, n)
    BY DEF Hole
  <2>2. AtHole(n) <=> \E u \in Threads : Leaves(u, n)
    BY DEF AtHole
  <2>3. AtHole(n)' <=> \E u \in Threads : Leaves(u, n)'
    BY DEF AtHole
  <2> HIDE DEF Leaves
  <2> QED
    BY <2>1, <2>2, <2>3
<1>2. \A t, k : IsKept(t, k)' <=> IsKept(t, k)
  BY DEF IsKept
<1>3. Dropped' <=> Dropped
  BY <1>2 DEF Dropped
<1> QED
  BY <1>1, <1>3 DEF Full, Chain, Backups

LEMMA StrictBefore ==
  ASSUME Basic, NEW t \in Threads, pc[t] # "out", Strict', UNCHANGED <<deaths, alone>>,
         failed => failed'
  PROVE  Strict /\ Quiet /\ \A u \in Threads : u # t => pc[u] = "out"
BY DEF Strict, Quiet, Basic, Alone

LEMMA BeginFilled ==
  ASSUME Basic, Story, Filled, NEW t \in Threads, Begin(t) PROVE Filled'
<1> USE NameFacts DEF Begin, Goto, memVars, history
<1> SUFFICES ASSUME Strict' PROVE Steps' /\ Sizes' /\ Full' /\ Chain'
  BY DEF Filled
<1>1. Strict /\ Quiet /\ \A u \in Threads : pc[u] = "out" /\ (u # t => pc'[u] = "out")
  BY DEF Strict, Quiet, Basic, Types
<1>2. Steps /\ Sizes /\ Full /\ Chain
  BY <1>1 DEF Filled
<1>3. Shelf' = Shelf /\ LogLen' = LogLen /\ dir' = dir
  BY DEF Shelf, LogLen, fileVars
<1>4. Full' /\ Chain'
  BY <1>2, <1>3, SameChain DEF Basic, Types
<1>5. Steps'
  <2>1. \A u \in Threads : lines[u] \in Nat /\ written[u] = 1..lines[u]
    BY <1>1, <1>2 DEF Steps, Basic, Types
  <2>2. /\ lines'[t] = lines[t] + 1 /\ pc'[t] \in {"continue", "test"}
        /\ \A u \in Threads : u # t => lines'[u] = lines[u]
    BY DEF Basic, Types
  <2>3. 1 .. lines'[t] - 1 = 1..lines[t]
    BY <2>1, <2>2
  <2> QED
    BY <1>1, <2>1, <2>2, <2>3 DEF Steps, Pending
<1>6. Sizes'
  BY <1>1, <1>2, <1>3, LensAreNat DEF Steps, Sizes, Basic, Types, Pending
<1> QED
  BY <1>4, <1>5, <1>6

LEMMA ContinuedFilled ==
  ASSUME Basic, Story, Filled, NEW t \in Threads, Continued(t) PROVE Filled'
<1> USE NameFacts DEF Continued, Goto, memVars, history
<1> SUFFICES ASSUME Strict' PROVE Steps' /\ Sizes' /\ Full' /\ Chain'
  BY DEF Filled
<1>1. Strict /\ Quiet /\ \A u \in Threads : u # t => pc[u] = "out" /\ pc'[u] = "out"
  BY StrictBefore DEF Basic, Types
<1>2. Steps /\ Sizes /\ Full /\ Chain
  BY <1>1 DEF Filled
<1>3. Shelf' = Shelf /\ LogLen' = LogLen /\ dir' = dir
  BY DEF Shelf, LogLen, fileVars
<1>4. Full' /\ Chain'
  BY <1>2, <1>3, SameChain DEF Basic, Types
<1>5. Steps'
  BY <1>1, <1>2 DEF Steps, Sizes, Basic, Types, Pending
<1>6. Sizes'
  BY <1>1, <1>2, <1>3, LensAreNat DEF Steps, Sizes, Basic, Types, Pending
<1> QED
  BY <1>4, <1>5, <1>6

LEMMA StatFilled ==
  ASSUME Basic, Story, Filled, NEW t \in Threads, Stat(t) PROVE Filled'
<1> USE NameFacts DEF Stat, Goto, memVars, history
<1> SUFFICES ASSUME Strict' PROVE Steps' /\ Sizes' /\ Full' /\ Chain'
  BY DEF Filled
<1>1. Strict /\ Quiet /\ \A u \in Threads : u # t => pc[u] = "out" /\ pc'[u] = "out"
  BY StrictBefore DEF Basic, Types
<1>2. Steps /\ Sizes /\ Full /\ Chain
  BY <1>1 DEF Filled
<1>3. Shelf' = Shelf /\ LogLen' = LogLen /\ dir' = dir
  BY DEF Shelf, LogLen, fileVars
<1>4. Full' /\ Chain'
  BY <1>2, <1>3, SameChain DEF Basic, Types
<1>5. Steps'
  BY <1>1, <1>2 DEF Steps, Sizes, Basic, Types, Pending
<1>6. Sizes'
  <2>1. mFile # None /\ fds[mFile] # NoFile /\ mFile \in Fds
    BY <1>2 DEF Steps, HeldOpen, Basic, Types
  <2>2. fds[mFile] = dir[Log]
    BY <1>1, <2>1 DEF Story, OneOpen
  <2>3. mSize' = LogLen
    BY <2>1, <2>2 DEF LogLen, Shelf
  <2>4. mFile' = mFile /\ pc'[t] = "test"
    BY DEF Basic, Types
  <2> QED
    BY <1>1, <1>2, <1>3, <2>1, <2>3, <2>4 DEF Sizes
<1> QED
  BY <1>4, <1>5, <1>6

LEMMA TestFilled ==
  ASSUME Basic, Story, Filled, NEW t \in Threads, Test(t) PROVE Filled'
<1> USE NameFacts DEF Test, Goto, memVars, history
<1> SUFFICES ASSUME Strict' PROVE Steps' /\ Sizes' /\ Full' /\ Chain'
  BY DEF Filled
<1>1. Strict /\ Quiet /\ \A u \in Threads : u # t => pc[u] = "out" /\ pc'[u] = "out"
  BY StrictBefore DEF Basic, Types
<1>2. Steps /\ Sizes /\ Full /\ Chain
  BY <1>1 DEF Filled
<1>3. Shelf' = Shelf /\ LogLen' = LogLen /\ dir' = dir
  BY DEF Shelf, LogLen, fileVars
<1>4. Full' /\ Chain'
  BY <1>2, <1>3, SameChain DEF Basic, Types
<1>5. Steps'
  BY <1>1, <1>2 DEF Steps, Sizes, Basic, Types, Pending
<1>6. Sizes'
  <2>1. mFile # None => mSize = LogLen
    BY <1>1, <1>2 DEF Sizes
  <2>2. mFile = None => mSize = 0 /\ dir[Log] = NoFile /\ \A n \in Names : dir[n] = NoFile
    BY <1>1, <1>2 DEF Sizes
  <2>3. LogLen \in Nat /\ MaxSize \in Nat
    BY LensAreNat, FileLogAssumption DEF Basic
  <2>4. UNCHANGED <<mFile, mSize>>
    OBVIOUS
  <2>5. CASE mFile = None
    <3>1. pc'[t] = "lock"
      BY <2>5 DEF Basic, Types
    <3> QED
      BY <1>1, <1>3, <2>1, <2>2, <2>3, <2>4, <2>5, <3>1 DEF Sizes
  <2>6. CASE mFile # None
    <3>1. pc'[t] = "limit"
      BY <2>6 DEF Basic, Types
    <3> QED
      BY <1>1, <1>3, <2>1, <2>2, <2>3, <2>4, <2>6, <3>1 DEF Sizes
  <2> QED
    BY <2>5, <2>6
<1> QED
  BY <1>4, <1>5, <1>6

LEMMA TestSizeFilled ==
  ASSUME Basic, Story, Filled, NEW t \in Threads, TestSize(t) PROVE Filled'
<1> USE NameFacts DEF TestSize, Goto, memVars, history
<1> SUFFICES ASSUME Strict' PROVE Steps' /\ Sizes' /\ Full' /\ Chain'
  BY DEF Filled
<1>1. Strict /\ Quiet /\ \A u \in Threads : u # t => pc[u] = "out" /\ pc'[u] = "out"
  BY StrictBefore DEF Basic, Types
<1>2. Steps /\ Sizes /\ Full /\ Chain
  BY <1>1 DEF Filled
<1>3. Shelf' = Shelf /\ LogLen' = LogLen /\ dir' = dir
  BY DEF Shelf, LogLen, fileVars
<1>4. Full' /\ Chain'
  BY <1>2, <1>3, SameChain DEF Basic, Types
<1>5. Steps'
  BY <1>1, <1>2 DEF Steps, Sizes, Basic, Types, Pending
<1>6. Sizes'
  <2>1. mFile # None => mSize = LogLen
    BY <1>1, <1>2 DEF Sizes
  <2>2. mFile # None
    BY <1>2 DEF Steps
  <2>3. LogLen \in Nat /\ MaxSize \in Nat
    BY LensAreNat, FileLogAssumption DEF Basic
  <2>4. UNCHANGED <<mFile, mSize>>
    OBVIOUS
  <2>5. CASE mSize > MaxSize
    <3>1. pc'[t] = "lock"
      BY <2>5 DEF Basic, Types
    <3> QED
      BY <1>1, <1>3, <2>1, <2>2, <2>3, <2>4, <2>5, <3>1 DEF Sizes
  <2>6. CASE ~(mSize > MaxSize)
    <3>1. pc'[t] = "use"
      BY <2>6 DEF Basic, Types
    <3> QED
      BY <1>1, <1>3, <2>1, <2>2, <2>3, <2>4, <2>6, <3>1 DEF Sizes
  <2> QED
    BY <2>5, <2>6
<1> QED
  BY <1>4, <1>5, <1>6

LEMMA LockFilled ==
  ASSUME Basic, Story, Filled, NEW t \in Threads, Lock(t) PROVE Filled'
<1> USE NameFacts DEF Lock, Goto, memVars, history
<1> SUFFICES ASSUME Strict' PROVE Steps' /\ Sizes' /\ Full' /\ Chain'
  BY DEF Filled
<1>1. Strict /\ Quiet /\ \A u \in Threads : u # t => pc[u] = "out" /\ pc'[u] = "out"
  BY StrictBefore DEF Basic, Types
<1>2. Steps /\ Sizes /\ Full /\ Chain
  BY <1>1 DEF Filled
<1>3. Shelf' = Shelf /\ LogLen' = LogLen /\ dir' = dir
  BY DEF Shelf, LogLen, fileVars
<1>4. Full' /\ Chain'
  BY <1>2, <1>3, SameChain DEF Basic, Types
<1>5. Steps'
  BY <1>1, <1>2 DEF Steps, Sizes, Basic, Types, Pending
<1>6. Sizes'
  BY <1>1, <1>2, <1>3, LensAreNat DEF Steps, Sizes, Basic, Types, Pending
<1> QED
  BY <1>4, <1>5, <1>6

LEMMA ResetFilled ==
  ASSUME Basic, Story, Filled, NEW t \in Threads, Reset(t) PROVE Filled'
<1> USE NameFacts DEF Reset, Goto, memVars, history
<1> SUFFICES ASSUME Strict' PROVE Steps' /\ Sizes' /\ Full' /\ Chain'
  BY DEF Filled
<1>1. Strict /\ Quiet /\ \A u \in Threads : u # t => pc[u] = "out" /\ pc'[u] = "out"
  BY StrictBefore DEF Basic, Types
<1>2. Steps /\ Sizes /\ Full /\ Chain
  BY <1>1 DEF Filled
<1>3. Shelf' = Shelf /\ LogLen' = LogLen /\ dir' = dir
  BY DEF Shelf, LogLen, fileVars
<1>4. Full' /\ Chain'
  BY <1>2, <1>3, SameChain DEF Basic, Types
<1>5. Steps'
  BY <1>1, <1>2 DEF Steps, Sizes, Basic, Types, Pending
<1>6. Sizes'
  <2>1. /\ mFile = None /\ mFile' = mFile /\ mSize' = 0 /\ pc'[t] = "unlink"
        /\ dir[Log] = NoFile \/ LogLen > MaxSize
    BY <1>1, <1>2 DEF Story, OneOpen, LogShut, Sizes, Basic, Types
  <2>2. LogLen \in Nat /\ MaxSize \in Nat
    BY LensAreNat, FileLogAssumption DEF Basic
  <2> QED
    BY <1>1, <1>3, <2>1, <2>2 DEF Sizes
<1> QED
  BY <1>4, <1>5, <1>6

LEMMA OpenedFilled ==
  ASSUME Basic, Story, Filled, NEW t \in Threads, Opened(t) PROVE Filled'
<1> USE NameFacts DEF Opened, Goto, memVars, history
<1> SUFFICES ASSUME Strict' PROVE Steps' /\ Sizes' /\ Full' /\ Chain'
  BY DEF Filled
<1>1. Strict /\ Quiet /\ \A u \in Threads : u # t => pc[u] = "out" /\ pc'[u] = "out"
  BY StrictBefore DEF Basic, Types
<1>2. Steps /\ Sizes /\ Full /\ Chain
  BY <1>1 DEF Filled
<1>3. Shelf' = Shelf /\ LogLen' = LogLen /\ dir' = dir
  BY DEF Shelf, LogLen, fileVars
<1>4. Full' /\ Chain'
  BY <1>2, <1>3, SameChain DEF Basic, Types
<1>5. Steps'
  BY <1>1, <1>2 DEF Steps, Sizes, Basic, Types, Pending
<1>6. Sizes'
  BY <1>1, <1>2, <1>3, LensAreNat DEF Steps, Sizes, Basic, Types, Pending
<1> QED
  BY <1>4, <1>5, <1>6

LEMMA UseFilled ==
  ASSUME Basic, Story, Filled, NEW t \in Threads, Use(t) PROVE Filled'
<1> USE NameFacts DEF Use, Goto, memVars, history
<1> SUFFICES ASSUME Strict' PROVE Steps' /\ Sizes' /\ Full' /\ Chain'
  BY DEF Filled
<1>1. Strict /\ Quiet /\ \A u \in Threads : u # t => pc[u] = "out" /\ pc'[u] = "out"
  BY StrictBefore DEF Basic, Types
<1>2. Steps /\ Sizes /\ Full /\ Chain
  BY <1>1 DEF Filled
<1>3. Shelf' = Shelf /\ LogLen' = LogLen /\ dir' = dir
  BY DEF Shelf, LogLen, fileVars
<1>4. Full' /\ Chain'
  BY <1>2, <1>3, SameChain DEF Basic, Types
<1>5. Steps'
  BY <1>1, <1>2 DEF Steps, Sizes, Basic, Types, Pending
<1>6. Sizes'
  BY <1>1, <1>2, <1>3, LensAreNat DEF Steps, Sizes, Basic, Types, Pending
<1> QED
  BY <1>4, <1>5, <1>6

LEMMA AddFilled ==
  ASSUME Basic, Story, Filled, NEW t \in Threads, Add(t) PROVE Filled'
<1> USE NameFacts DEF Add, Goto, memVars, history
<1> SUFFICES ASSUME Strict' PROVE Steps' /\ Sizes' /\ Full' /\ Chain'
  BY DEF Filled
<1>1. Strict /\ Quiet /\ \A u \in Threads : u # t => pc[u] = "out" /\ pc'[u] = "out"
  BY StrictBefore DEF Basic, Types
<1>2. Steps /\ Sizes /\ Full /\ Chain
  BY <1>1 DEF Filled
<1>3. Shelf' = Shelf /\ LogLen' = LogLen /\ dir' = dir
  BY DEF Shelf, LogLen, fileVars
<1>4. Full' /\ Chain'
  BY <1>2, <1>3, SameChain DEF Basic, Types
<1>5. Steps'
  BY <1>1, <1>2 DEF Steps, Sizes, Basic, Types, Pending
<1>6. Sizes'
  BY <1>1, <1>2, <1>3, LensAreNat DEF Steps, Sizes, Basic, Types, Pending
<1> QED
  BY <1>4, <1>5, <1>6


LEMMA OpenFilled ==
  ASSUME Basic, Story, Filled, NEW t \in Threads, NEW fd \in Fds \cup {None}, Open(fd),
         \/ pc[t] = "continue" /\ pc' = [pc EXCEPT ![t] = "continued"]
         \/ pc[t] = "open" /\ pc' = [pc EXCEPT ![t] = "opened"],
         local' = [local EXCEPT ![t] = fd],
         UNCHANGED <<memVars, lines, written, deaths, continued, alone>>
  PROVE  Filled'
<1> USE NameFacts DEF memVars
<1> SUFFICES ASSUME Strict' PROVE Steps' /\ Sizes' /\ Full' /\ Chain'
  BY DEF Filled
<1>1. Types /\ OwnFiles /\ NoGhosts
  BY DEF Basic
<1>2. /\ Shelf' = Shelf /\ LogLen' = LogLen /\ fd # None /\ failed' = failed
      /\ dir'[Log] # NoFile /\ dir' \in [Names -> Files \cup {NoFile}]
      /\ \A n \in Names : n # Log \/ dir[n] # NoFile => dir'[n] = dir[n]
  BY <1>1, Opens DEF Strict, LogLen
<1>3. Strict /\ Quiet /\ \A u \in Threads : u # t => pc[u] = "out" /\ pc'[u] = "out"
  BY <1>1, <1>2, StrictBefore DEF Types
<1>4. Steps /\ Sizes /\ Full /\ Chain
  BY <1>3 DEF Filled
<1>5. /\ pc'[t] \in {"continued", "opened"} /\ local'[t] = fd
      /\ pc'[t] = "opened" <=> pc[t] = "open" /\ mFile = None /\ mFile' = None
  BY <1>1, <1>3 DEF Types, Story, OneOpen, LogShut
<1>6. Steps'
  BY <1>1, <1>2, <1>3, <1>4, <1>5 DEF Steps, Pending, Types
<1>7. Sizes'
  BY <1>1, <1>2, <1>3, <1>4, <1>5, LensAreNat DEF Sizes
<1>8. Full'
  BY <1>2, <1>4, BackupNames, <1>1 DEF Full, Backups
<1>9. Chain'
  <2>1. \A u, k : IsKept(u, k)' <=> IsKept(u, k)
    BY <1>2 DEF IsKept
  <2>2. Dropped' <=> Dropped
    BY <2>1 DEF Dropped
  <2>3. Backups' = Backups /\ Backups \subseteq Names /\ \A n \in Backups : n > Log /\ n \in Int
    BY <1>1, BackupNames DEF Backups
  <2>4. \A n : AtHole(n) => n = Log
    BY <1>3, <1>5, FileLogAssumption DEF AtHole
  <2>6. \A m, n \in {Log} \cup Backups : m < n /\ dir'[n] # NoFile => dir'[m] # NoFile
    <3>1. \A n \in Backups : dir'[n] = dir[n]
      BY <1>2, <2>3
    <3> QED
      BY <1>2, <1>4, <2>3, <2>4, <3>1 DEF Chain
  <2>7. Dropped => \A n \in {Log} \cup Backups : dir'[n] # NoFile
    BY <1>2, <1>4, <2>3, <2>4 DEF Chain
  <2> QED
    BY <2>2, <2>3, <2>6, <2>7 DEF Chain
<1> QED
  BY <1>6, <1>7, <1>8, <1>9

LEMMA CloseFilled ==
  ASSUME Basic, Story, Filled, NEW t \in Threads, Close(t) PROVE Filled'
<1> USE NameFacts DEF Goto, history
<1> SUFFICES ASSUME Strict' PROVE Steps' /\ Sizes' /\ Full' /\ Chain'
  BY DEF Filled
<1>1. Types /\ OwnFiles /\ NoGhosts
  BY DEF Basic
<1>2. /\ pc[t] = "close" /\ pc' = [pc EXCEPT ![t] = "reset"] /\ mFile' = None
      /\ fds' = [d \in Fds |-> IF d = mFile THEN NoFile ELSE fds[d]]
      /\ content' = Kept(content, dir', fds')
      /\ UNCHANGED <<dir, mMaxFile, local, lines, written, failed, deaths, alone>>
  BY DEF Close
<1>3. Strict /\ Quiet /\ \A u \in Threads : u # t => pc[u] = "out" /\ pc'[u] = "out"
  BY <1>1, <1>2, StrictBefore DEF Types
<1>4. Steps /\ Sizes /\ Full /\ Chain
  BY <1>3 DEF Filled
<1>5. \A n \in Names : dir[n] # NoFile => content'[dir[n]] = content[dir[n]]
  BY <1>1, <1>2, KeptIsKept DEF Types
<1>6. Shelf' = Shelf /\ LogLen' = LogLen
  BY <1>2, <1>5 DEF Shelf, LogLen
<1>7. pc'[t] = "reset"
  BY <1>1, <1>2 DEF Types
<1>8. Full' /\ Chain'
  BY <1>2, <1>3, <1>4, <1>6, <1>7, SameChain
<1>9. Steps'
  BY <1>2, <1>3, <1>4, <1>7 DEF Steps, Pending
<1>10. Sizes'
  BY <1>1, <1>2, <1>3, <1>4, <1>6, <1>7, LensAreNat, FileLogAssumption DEF Sizes
<1> QED
  BY <1>8, <1>9, <1>10

(* What is lost when an empty shelf is taken or dropped: nothing.          *)
LEMMA UnlinkOldestFilled ==
  ASSUME Basic, Story, Filled, NEW t \in Threads, UnlinkOldest(t) PROVE Filled'
<1> USE NameFacts DEF Goto, memVars, history
<1> SUFFICES ASSUME Strict' PROVE Steps' /\ Sizes' /\ Full' /\ Chain'
  BY DEF Filled
<1>1. Types /\ OwnFiles /\ NoGhosts /\ mMaxFile \in Names /\ mMaxFile \in 1..MaxFiles
  BY DEF Basic, Types, Names, Log
<1>2. /\ pc[t] = "unlink" /\ pc' = [pc EXCEPT ![t] = "shift"]
      /\ Unlink(mMaxFile) /\ local' = [local EXCEPT ![t] = mMaxFile - 1]
      /\ UNCHANGED <<mFile, mSize, mMaxFile, fds, lines, written, failed, deaths, alone>>
  BY DEF UnlinkOldest
<1>3. Strict /\ Quiet /\ \A u \in Threads : u # t => pc[u] = "out" /\ pc'[u] = "out"
  BY <1>1, <1>2, StrictBefore DEF Types
<1>4. Steps /\ Sizes /\ Full /\ Chain
  BY <1>3 DEF Filled
<1>5. /\ dir' = [dir EXCEPT ![mMaxFile] = NoFile]
      /\ Shelf' = [Shelf EXCEPT ![mMaxFile] = <<>>]
  BY <1>1, <1>2, Unlinks
<1>6. /\ pc'[t] = "shift" /\ local'[t] = mMaxFile - 1
      /\ \A u \in Threads : pc'[u] = "shift" => u = t
  BY <1>1, <1>2, <1>3 DEF Types
<1>7. /\ \A n \in Names : dir'[n] = IF n = mMaxFile THEN NoFile ELSE dir[n]
      /\ \A n \in Names : Shelf'[n] = IF n = mMaxFile THEN <<>> ELSE Shelf[n]
      /\ dir'[Log] = dir[Log] /\ LogLen' = LogLen /\ mMaxFile # Log
  <2>1. Shelf \in [Names -> Seq(Threads \X Nat)] /\ mMaxFile # Log
    BY <1>1, ShelfType DEF Log
  <2> QED
    BY <1>1, <1>5, <2>1 DEF Types, LogLen
<1>8. Steps'
  BY <1>2, <1>3, <1>4, <1>6 DEF Steps, Pending
<1>9. Sizes'
  BY <1>2, <1>3, <1>4, <1>6, <1>7, LensAreNat, ShutIsShut DEF Sizes
<1>10. Backups' = Backups /\ Backups \subseteq Names
  BY <1>1, <1>2, BackupNames DEF Backups
<1>11. Full'
  BY <1>4, <1>7, <1>10 DEF Full
<1>12. \A n : ~AtHole(n)
  BY <1>2, <1>3 DEF AtHole
<1>13. CASE mMaxFile = 1
  <2>1. Backups = {1} /\ 1 \in Names
    BY <1>1, <1>13 DEF Backups
  <2>2. Hole(t)' = 1
    BY <1>2, <1>6, <1>13 DEF Hole, FirstBackup
  <2>3. \A n : n = 1 => AtHole(n)'
    BY <1>6, <1>7, <1>13, <2>1, <2>2 DEF AtHole
  <2>4. \A m, n \in {Log} \cup Backups : m < n => m = Log /\ n = 1
    BY <2>1 DEF Log
  <2>5. dir'[1] = NoFile
    BY <1>7, <1>13, <2>1
  <2>6. Dropped' => dir'[Log] # NoFile
    <3>1. CASE dir[1] # NoFile
      BY <1>4, <1>7, <1>12, <2>1, <3>1 DEF Chain, Log
    <3>2. CASE dir[1] = NoFile
      <4>1. Shelf' = Shelf
        <5>1. Shelf[1] = <<>> /\ Shelf \in [Names -> Seq(Threads \X Nat)]
          BY <1>1, <2>1, <3>2, NoShelf, ShelfType
        <5> QED
          BY <1>5, <1>13, <5>1
      <4>2. Dropped' => Dropped
        BY <1>2, <4>1 DEF Dropped, IsKept
      <4> QED
        BY <1>4, <1>7, <1>12, <4>2 DEF Chain
    <3> QED
      BY <3>1, <3>2
  <2> QED
    BY <1>8, <1>9, <1>10, <1>11, <2>1, <2>3, <2>4, <2>5, <2>6 DEF Chain
<1>14. CASE mMaxFile # 1
  <2>1. mMaxFile \notin Backups
    BY <1>1, <1>14 DEF Backups
  <2>2. dir[mMaxFile] = NoFile
    BY <1>1, <1>7, <2>1 DEF Story, Shelved
  <2>3. Shelf' = Shelf /\ dir' = dir
    <3>1. Shelf[mMaxFile] = <<>> /\ Shelf \in [Names -> Seq(Threads \X Nat)]
      BY <1>1, <2>2, NoShelf, ShelfType
    <3> QED
      BY <1>1, <1>5, <2>2, <3>1 DEF Types
  <2>4. Dropped' => Dropped
    BY <1>2, <2>3 DEF Dropped, IsKept
  <2>5. \A m, n \in {Log} \cup Backups : m < n /\ dir'[n] # NoFile => dir'[m] # NoFile
    BY <1>4, <1>12, <2>3 DEF Chain
  <2>6. Dropped' => \A n \in {Log} \cup Backups : dir'[n] # NoFile
    BY <1>4, <1>12, <2>3, <2>4 DEF Chain
  <2> QED
    BY <1>8, <1>9, <1>10, <1>11, <2>5, <2>6 DEF Chain
<1> QED
  BY <1>13, <1>14

LEMMA ShiftFilled ==
  ASSUME Basic, Story, Filled, NEW t \in Threads, Shift(t) PROVE Filled'
<1> USE NameFacts DEF Goto, memVars, history
<1> SUFFICES ASSUME Strict' PROVE Steps' /\ Sizes' /\ Full' /\ Chain'
  BY DEF Filled
<1>1. Types /\ OwnFiles /\ NoGhosts /\ Locals
  BY DEF Basic
<1> DEFINE i == local[t]
           from == From(t)
           to == Hole(t)
<1>2. /\ pc[t] = "shift"
      /\ UNCHANGED <<mFile, mSize, mMaxFile, fds, lines, written, failed, deaths, alone>>
      /\ Rename(from, to)
      /\ i > 0 => local'[t] = i - 1 /\ pc' = pc
      /\ ~(i > 0) => pc'[t] = "open"
  <2>1. /\ pc[t] = "shift" /\ Rename(from, to)
        /\ local' = [local EXCEPT ![t] = IF i > 0 THEN i - 1 ELSE 0]
        /\ pc' = [pc EXCEPT ![t] = IF i > 0 THEN "shift" ELSE "open"]
        /\ UNCHANGED <<mFile, mSize, mMaxFile, fds, lines, written, failed, deaths, alone>>
    BY <1>1, ShiftIs
  <2> HIDE DEF from, to
  <2>2. i > 0 => pc' = pc
    BY <1>1, <2>1 DEF Types
  <2> QED
    BY <1>1, <2>1, <2>2 DEF Types
<1>3. Strict /\ Quiet /\ \A u \in Threads : u # t => pc[u] = "out" /\ pc'[u] = "out"
  <2>1. Strict /\ Quiet /\ \A u \in Threads : u # t => pc[u] = "out"
    BY <1>2, StrictBefore
  <2>2. \A u \in Threads : u # t => pc'[u] = pc[u]
    <3>1. pc' = [pc EXCEPT ![t] = IF i > 0 THEN "shift" ELSE "open"]
      BY <1>1, ShiftIs
    <3> QED
      BY <1>1, <3>1 DEF Types
  <2> QED
    BY <2>1, <2>2
<1>4. Steps /\ Sizes /\ Full /\ Chain
  BY <1>3 DEF Filled
<1>5. i \in 0 .. mMaxFile - 1 /\ mMaxFile \in 1..MaxFiles
  BY <1>1, <1>2 DEF Types, Locals
<1>6. Backups' = Backups /\ Backups \subseteq Names /\ \A n \in Backups : n > Log /\ n \in Int
  BY <1>1, <1>2, BackupNames DEF Backups
<1>7. /\ from \in {Log} \cup Backups /\ to \in Backups /\ from < to
      /\ \A n \in {Log} \cup Backups : n <= from \/ n >= to
  <2>1. CASE i > 0
    <3>1. to = i /\ from = i - 1 /\ Backups = 0 .. mMaxFile - 1
      BY <1>5, <2>1 DEF Hole, From, Backups
    <3> QED
      BY <1>5, <2>1, <3>1 DEF Log
  <2>2. CASE ~(i > 0)
    <3>1. to = FirstBackup(mMaxFile) /\ from = Log
      BY <1>5, <2>2 DEF Hole, From
    <3> QED
      BY <1>5, <2>2, <3>1 DEF Backups, FirstBackup, Log
  <2> QED
    BY <2>1, <2>2
<1>8. /\ dir' = IF dir[from] = NoFile THEN dir
                ELSE [dir EXCEPT ![to] = dir[from], ![from] = NoFile]
      /\ Shelf' = IF dir[from] = NoFile THEN Shelf
                  ELSE [Shelf EXCEPT ![to] = Shelf[from], ![from] = <<>>]
  BY <1>1, <1>2, <1>6, <1>7, Renames
<1>9. \A n : AtHole(n) <=> n = to /\ dir[to] = NoFile
  BY <1>2, <1>3 DEF AtHole
<1> DEFINE moved == dir[from] # NoFile
<1>10. \A n \in Names : /\ n = from => dir'[n] = NoFile
                        /\ n = to => (dir'[n] # NoFile <=> moved \/ dir[n] # NoFile)
                        /\ n # from /\ n # to => dir'[n] = dir[n]
  BY <1>1, <1>6, <1>7, <1>8 DEF Types
<1>11. \A n : n = from => AtHole(n)'
  <2>1. CASE i > 0
    <3>1. Hole(t)' = from
      BY <1>2, <1>5, <2>1 DEF Hole, From, FirstBackup
    <3>2. dir'[from] = NoFile
      BY <1>6, <1>7, <1>10
    <3> QED
      BY <1>2, <2>1, <3>1, <3>2 DEF AtHole
  <2>2. CASE ~(i > 0)
    <3>1. from = Log /\ pc'[t] = "open"
      BY <1>2, <2>2 DEF From
    <3> QED
      BY <3>1 DEF AtHole
  <2> QED
    BY <2>1, <2>2
<1>12. Steps'
  <2>1. pc'[t] \in {"shift", "open"}
    BY <1>2
  <2> QED
    BY <1>2, <1>3, <1>4, <2>1 DEF Steps, Pending
<1>13. \A n \in Names : /\ n # from /\ n # to => Shelf'[n] = Shelf[n]
                        /\ n = to /\ moved => Shelf'[n] = Shelf[from]
  <2>1. Shelf \in [Names -> Seq(Threads \X Nat)]
    BY <1>1, ShelfType
  <2> HIDE DEF from, to
  <2> QED
    BY <1>6, <1>7, <1>8, <2>1
<1>14. Sizes'
  <2>1. mFile = None /\ mFile' = None /\ mSize' = mSize /\ mSize = 0
    BY <1>2, <1>3, <1>4, ShutIsShut DEF Sizes
  <2>2. CASE i > 0
    <3>1. pc'[t] = "shift"
      BY <1>2, <2>2
    <3>2. dir'[Log] # NoFile => dir'[Log] = dir[Log] /\ Shelf'[Log] = Shelf[Log]
      BY <1>6, <1>7, <1>10, <1>13
    <3>3. LogLen' = Len(Shelf'[Log]) /\ LogLen = Len(Shelf[Log])
      BY DEF LogLen
    <3>4. LogLen \in Nat /\ MaxSize \in Nat
      BY <1>1, LensAreNat, FileLogAssumption
    <3> QED
      BY <1>2, <1>3, <1>4, <2>1, <3>1, <3>2, <3>3, <3>4 DEF Sizes
  <2>3. CASE ~(i > 0)
    <3>1. pc'[t] = "open" /\ dir'[Log] = NoFile
      <4>1. from = Log
        BY <2>3 DEF From
      <4> QED
        BY <1>2, <1>10, <2>3, <4>1
    <3> QED
      BY <1>3, <2>1, <3>1 DEF Sizes
  <2> QED
    BY <2>2, <2>3
<1>15. Full'
  <2> HIDE DEF from, to
  <2>1. dir[from] # NoFile => Len(Shelf[from]) > MaxSize
    BY <1>2, <1>4, <1>7 DEF Full, Sizes, LogLen
  <2>2. ASSUME NEW n \in Backups, dir'[n] # NoFile PROVE Len(Shelf'[n]) > MaxSize
    <3>1. CASE n = to /\ moved
      BY <1>6, <1>13, <2>1, <3>1
    <3>2. CASE n # to
      BY <1>4, <1>6, <1>10, <1>13, <2>2, <3>2 DEF Full
    <3>3. CASE n = to /\ ~moved
      BY <1>4, <1>6, <1>8, <2>2, <3>3 DEF Full
    <3> QED
      BY <3>1, <3>2, <3>3
  <2> QED
    BY <1>6, <2>2 DEF Full
<1>16. \A m, n \in {Log} \cup Backups : m < n /\ dir'[n] # NoFile /\ m # from => dir'[m] # NoFile
  <2> HIDE DEF from, to
  <2> SUFFICES ASSUME NEW m \in {Log} \cup Backups, NEW n \in {Log} \cup Backups,
                      m < n, dir'[n] # NoFile, m # from
               PROVE  dir'[m] # NoFile
    OBVIOUS
  <2>1. m \in Names /\ n \in Names /\ n # from /\ m \in Int /\ n \in Int /\ from \in Int /\ to \in Int
    BY <1>6, <1>7, <1>10
  <2>2. CASE m = to
    <3>1. dir[n] # NoFile /\ from < n
      BY <1>7, <1>10, <2>1, <2>2
    <3>2. dir[from] # NoFile
      BY <1>4, <1>7, <1>9, <2>1, <3>1 DEF Chain
    <3> QED
      BY <1>10, <2>1, <2>2, <3>2
  <2>3. CASE m # to /\ n = to
    <3>1. m < from
      BY <1>7, <2>1, <2>3
    <3>2. CASE moved
      BY <1>4, <1>7, <1>9, <1>10, <2>1, <2>3, <3>1, <3>2 DEF Chain
    <3>3. CASE dir[n] # NoFile
      BY <1>4, <1>7, <1>9, <1>10, <2>1, <2>3, <3>3 DEF Chain
    <3> QED
      BY <1>10, <2>1, <2>3, <3>2, <3>3
  <2>4. CASE m # to /\ n # to
    BY <1>4, <1>9, <1>10, <2>1, <2>4 DEF Chain
  <2> QED
    BY <2>2, <2>3, <2>4
<1>17. Dropped' => \A n \in {Log} \cup Backups : n # from => dir'[n] # NoFile
  <2> HIDE DEF from, to
  <2>1. ASSUME ~Dropped, Dropped' PROVE dir[to] # NoFile /\ moved
    <3>1. SUFFICES ASSUME dir[to] = NoFile \/ ~moved PROVE FALSE
      OBVIOUS
    <3>2. \A n \in Names : \E m \in Names : Shelf'[m] = Shelf[n] \/ Shelf[n] = <<>>
      <4>1. to \in Names /\ from \in Names
        BY <1>6, <1>7
      <4>2. dir[to] = NoFile => Shelf[to] = <<>>
        BY <4>1, NoShelf
      <4> QED
        BY <1>8, <1>13, <3>1, <4>1, <4>2
    <3>3. \A u, k : IsKept(u, k) => IsKept(u, k)'
      BY <3>2, NothingInEmpty DEF IsKept
    <3> QED
      BY <1>2, <2>1, <3>3 DEF Dropped
  <2>2. CASE Dropped
    BY <1>4, <1>6, <1>7, <1>9, <1>10, <2>2 DEF Chain
  <2>3. ASSUME ~Dropped, Dropped', NEW n \in {Log} \cup Backups, n # from PROVE dir'[n] # NoFile
    <3>1. dir[to] # NoFile /\ moved /\ n \in Names
      BY <1>6, <2>1, <2>3
    <3>2. ~AtHole(n)
      BY <1>9, <3>1
    <3>3. n < to => dir[n] # NoFile
      BY <1>4, <1>7, <3>1, <3>2 DEF Chain
    <3>4. n <= to
      <4>1. i > 0 /\ i = mMaxFile - 1
        BY <1>2, <3>1 DEF Story, Shelved, to
      <4>2. to = mMaxFile - 1 /\ Backups = 0 .. mMaxFile - 1
        BY <1>5, <4>1 DEF Hole, Backups, to
      <4> QED
        BY <1>5, <4>1, <4>2 DEF Log
    <3>5. n \in Int /\ to \in Int
      BY <1>6, <1>7
    <3> QED
      BY <1>10, <2>3, <3>1, <3>3, <3>4, <3>5
  <2> QED
    BY <2>2, <2>3
<1>18. Chain'
  BY <1>6, <1>11, <1>16, <1>17 DEF Chain
<1> QED
  BY <1>12, <1>14, <1>15, <1>18

LEMMA WriteFilled ==
  ASSUME Basic, Story, Filled, NEW t \in Threads, Write(t) PROVE Filled'
<1> USE NameFacts DEF Goto, memVars
<1> SUFFICES ASSUME Strict' PROVE Steps' /\ Sizes' /\ Full' /\ Chain'
  BY DEF Filled
<1>1. Types /\ OwnFiles /\ HeldOpen /\ Locals
  BY DEF Basic
<1> DEFINE f == fds[local[t]]
           line == <<t, lines[t]>>
<1>2. /\ pc[t] = "write" /\ local[t] \in Fds
      /\ local'[t] = mSize /\ pc'[t] = "add"
      /\ UNCHANGED <<mFile, mSize, mMaxFile, dir, fds, lines, failed, deaths, alone>>
  <2>1. /\ pc[t] = "write" /\ local[t] \in Fds /\ local' = [local EXCEPT ![t] = mSize] /\ pc' = [pc EXCEPT ![t] = "add"]
        /\ UNCHANGED <<mFile, mSize, mMaxFile, dir, fds, lines, failed, deaths, alone>>
    BY <1>1 DEF Write, Locals
  <2> QED
    BY <1>1, <2>1 DEF Types
<1>3. Strict /\ Quiet /\ \A u \in Threads : u # t => pc[u] = "out" /\ pc'[u] = "out"
  <2>1. Strict /\ Quiet /\ \A u \in Threads : u # t => pc[u] = "out"
    BY <1>2, StrictBefore
  <2>2. \A u \in Threads : u # t => pc'[u] = pc[u]
    BY <1>1 DEF Write, Types
  <2> QED
    BY <2>1, <2>2
<1>4. Steps /\ Sizes /\ Full /\ Chain
  BY <1>3 DEF Filled
<1>5. f # NoFile /\ f = dir[Log] /\ mFile # None
  BY <1>1, <1>2, <1>3, <1>4 DEF Steps, HeldOpen, Story, OneOpen
<1>6. /\ content' = [content EXCEPT ![f] = Append(@, line)]
      /\ written' = [written EXCEPT ![t] = @ \cup {lines[t]}]
  BY <1>5 DEF Write
<1>7. f \in Files /\ line \in Threads \X Nat /\ content[f] \in Seq(Threads \X Nat) /\ lines[t] \in Nat
  BY <1>1, <1>2, <1>5 DEF Types
<1>8. \A n \in Names : Shelf'[n] = IF n = Log THEN Append(Shelf[Log], line) ELSE Shelf[n]
  <2>1. \A n \in Names : n # Log => dir[n] # f
    BY <1>1, <1>5 DEF OwnFiles
  <2>2. \A n \in Names : ShelfOf(n)' = IF n = Log THEN Append(ShelfOf(Log), line) ELSE ShelfOf(n)
    BY <1>1, <1>2, <1>5, <1>6, <1>7, <2>1 DEF ShelfOf, Types
  <2> QED
    BY <2>2 DEF Shelf, ShelfOf
<1>9. /\ LogLen \in Nat /\ LogLen' = LogLen + 1
      /\ DOMAIN Shelf[Log] = 1..LogLen /\ DOMAIN Shelf'[Log] = 1 .. LogLen + 1
      /\ Shelf'[Log][LogLen + 1] = line
      /\ \A i \in 1..LogLen : Shelf'[Log][i] = Shelf[Log][i]
  <2>1. Shelf[Log] \in Seq(Threads \X Nat)
    <3>1. Shelf \in [Names -> Seq(Threads \X Nat)]
      BY <1>1, ShelfType
    <3> QED
      BY <3>1
  <2>2. Shelf'[Log] = Append(Shelf[Log], line)
    BY <1>8
  <2> HIDE DEF line
  <2>3. /\ Append(Shelf[Log], line) \in Seq(Threads \X Nat)
        /\ Len(Append(Shelf[Log], line)) = Len(Shelf[Log]) + 1
        /\ \A i \in 1 .. Len(Shelf[Log]) : Append(Shelf[Log], line)[i] = Shelf[Log][i]
        /\ Append(Shelf[Log], line)[Len(Shelf[Log]) + 1] = line
    BY <1>7, <2>1, AppendProperties
  <2>4. Len(Shelf[Log]) \in Nat /\ DOMAIN Shelf[Log] = 1 .. Len(Shelf[Log])
    BY <2>1, LenProperties
  <2>5. DOMAIN Append(Shelf[Log], line) = 1 .. Len(Shelf[Log]) + 1
    BY <2>3, LenProperties
  <2> QED
    BY <2>2, <2>3, <2>4, <2>5 DEF LogLen
<1> HIDE DEF line
<1>10. Steps'
  <2>1. written'[t] = 1..lines[t]
    <3>1. written'[t] = written[t] \cup {lines[t]}
      BY <1>1, <1>6 DEF Types
    <3>2. written[t] = 1 .. lines[t] - 1 /\ lines[t] > 0
      BY <1>2, <1>4 DEF Steps, Story, Begun
    <3> QED
      BY <1>7, <3>1, <3>2
  <2>2. \A u \in Threads : u # t => written'[u] = written[u]
    BY <1>1, <1>6 DEF Types
  <2> QED
    BY <1>2, <1>3, <1>4, <2>1, <2>2 DEF Steps, Pending
<1>11. Sizes'
  <2>1. mSize = LogLen
    BY <1>2, <1>3, <1>4, <1>5 DEF Sizes
  <2> QED
    BY <1>2, <1>3, <1>5, <1>9, <2>1 DEF Sizes
<1>12. Backups' = Backups /\ \A n \in Backups : n \in Names /\ n # Log
  BY <1>1, <1>2, BackupNames DEF Backups
<1>13. Full'
  BY <1>2, <1>4, <1>8, <1>12 DEF Full
<1>14. Dropped' => Dropped
  <2>1. IsKept(t, lines[t])'
    <3>1. LogLen + 1 \in DOMAIN Shelf'[Log] /\ Shelf'[Log][LogLen + 1] = <<t, lines[t]>>
      BY <1>9 DEF line
    <3>2. \E n \in Names : \E i \in DOMAIN Shelf'[n] : Shelf'[n][i] = <<t, lines[t]>>
      BY <3>1
    <3>3. lines' = lines
      BY <1>2
    <3> QED
      BY ONLY <3>2, <3>3 DEF IsKept
  <2>2. \A n \in Names : \A i \in DOMAIN Shelf[n] : i \in DOMAIN Shelf'[n] /\ Shelf'[n][i] = Shelf[n][i]
    <3>1. \A i \in DOMAIN Shelf[Log] : i \in DOMAIN Shelf'[Log] /\ Shelf'[Log][i] = Shelf[Log][i]
      BY <1>9
    <3>2. \A n \in Names : n # Log => Shelf'[n] = Shelf[n]
      BY <1>8
    <3> QED
      BY <3>1, <3>2
  <2>3. \A u, k : IsKept(u, k) => IsKept(u, k)'
    BY <2>2 DEF IsKept
  <2>4. ASSUME NEW u \in Threads, NEW k \in written'[u], ~IsKept(u, k)' PROVE Dropped
    <3>1. u # t \/ k # lines[t]
      BY <1>2, <2>1, <2>4
    <3>2. k \in written[u]
      BY <1>1, <1>6, <3>1 DEF Types
    <3> QED
      BY <2>3, <2>4, <3>2 DEF Dropped
  <2> QED
    BY <2>4 DEF Dropped
<1>15. Chain'
  <2>1. \A n : ~AtHole(n)
    BY <1>2, <1>3 DEF AtHole
  <2>2. \A m, n \in {Log} \cup Backups : m < n /\ dir'[n] # NoFile => dir'[m] # NoFile
    BY <1>2, <1>4, <2>1 DEF Chain
  <2>3. Dropped' => \A n \in {Log} \cup Backups : dir'[n] # NoFile
    BY <1>2, <1>4, <1>14, <2>1 DEF Chain
  <2> QED
    BY <1>12, <2>2, <2>3 DEF Chain
<1> QED
  BY <1>10, <1>11, <1>13, <1>15

LEMMA FilledInit == Init => Filled
<1> SUFFICES ASSUME Init PROVE Steps /\ Sizes /\ Full /\ Chain
  BY DEF Filled
<1>1. \A n \in Names : dir[n] = NoFile
  BY DEF Init
<1>2. Steps
  BY DEF Init, Steps, Pending
<1>3. Sizes
  BY <1>1, NameFacts DEF Init, Sizes
<1>4. Full /\ Chain
  <2>1. {Log} \cup Backups \subseteq Names /\ \A t \in Threads : written[t] = {}
    BY BackupNames, BasicInit, NameFacts DEF Basic, Init
  <2> QED
    BY <1>1, <2>1 DEF Full, Chain, Dropped
<1> QED
  BY <1>2, <1>3, <1>4

LEMMA FilledNext == Basic /\ Story /\ Filled /\ [Next]_vars => Filled'
<1> SUFFICES ASSUME Basic, Story, Filled, [Next]_vars PROVE Filled'
  OBVIOUS
<1>1. ASSUME NEW t \in Threads, Continue(t) \/ Reopen(t) PROVE Filled'
  BY <1>1, OpenFilled DEF Continue, Reopen, Goto
<1>2. CASE UNCHANGED vars
  <2>1. UNCHANGED <<memVars, fileVars, pc, local, history, alone>>
    BY <1>2 DEF vars
  <2> USE <2>1 DEF memVars, fileVars, history
  <2>2. Shelf' = Shelf /\ LogLen' = LogLen
    BY DEF Shelf, LogLen
  <2>3. Strict' <=> Strict
    BY DEF Strict
  <2>4. SUFFICES ASSUME Full, Chain, Steps, Sizes PROVE Steps' /\ Sizes' /\ Full' /\ Chain'
    BY <2>3 DEF Filled
  <2>5. Full' /\ Chain'
    BY <2>2, <2>4, SameChain
  <2> QED
    BY <2>2, <2>4, <2>5 DEF Steps, Sizes
<1>3. CASE Die
  BY <1>3 DEF Die, Filled, Strict, Basic, Types
<1> QED
  BY <1>1, <1>2, <1>3, BeginFilled, ContinuedFilled, StatFilled, TestFilled, TestSizeFilled, LockFilled, CloseFilled,
     ResetFilled, UnlinkOldestFilled, ShiftFilled, OpenedFilled, UseFilled, WriteFilled, AddFilled
     DEF Next

(* While threads log one at a time and nothing fails, every line gets into *)
(* a file, and one is dropped only when every backup was full              *)
(* (SP_NKFileLog::check).                                                  *)
THEOREM NoneDroppedHolds == Spec => []NoneDropped
<1>1. Init => Filled
  BY FilledInit
<1>2. Basic /\ Story /\ Filled /\ [Next]_vars => Filled'
  BY FilledNext
<1>3. Basic /\ Story /\ Filled => NoneDropped
  <2> SUFFICES ASSUME Basic, Story, Filled, Strict, \A t \in Threads : pc[t] = "out"
               PROVE  /\ \A t \in Threads : written[t] = 1..lines[t]
                      /\ Dropped => Shelf[Log] # <<>> /\ \A n \in Backups : Len(Shelf[n]) > MaxSize
    BY DEF NoneDropped, Strict, Dropped
  <2>1. Steps /\ Sizes /\ Full /\ Chain
    BY DEF Filled
  <2>2. \A n : ~AtHole(n)
    BY DEF AtHole
  <2>3. Dropped => LogLen > 0 /\ \A n \in Backups : Len(Shelf[n]) > MaxSize
    BY <2>1, <2>2 DEF Chain, Full, Sizes
  <2>4. LogLen > 0 => Shelf[Log] # <<>>
    BY EmptySeq DEF LogLen
  <2> QED
    BY <2>1, <2>3, <2>4 DEF Steps
<1> QED
  BY <1>1, <1>2, <1>3, Invariant, PTL DEF Spec
=============================================================================
