------------------------------- MODULE FileLog -------------------------------
(***************************************************************************)
(* SP_NKFileLog (src/spnetkit/spnklog.cpp): threads that write lines to a  *)
(* log file, which is rotated when it has grown, in a file system and a    *)
(* process that may die and start again.                                   *)
(*                                                                         *)
(* Only the rotation holds mMutex; everything else in check() and vlog()   *)
(* reads and writes mFile and mSize beside it.  One step is one access to  *)
(* them or one system call.  A line's length counts as 1.                  *)
(***************************************************************************)
EXTENDS Integers, Sequences, FiniteSets

CONSTANTS
  Threads,   \* the threads that log
  MaxFiles,  \* bound: the largest mMaxFile to look at
  MaxSize,   \* mMaxSize, in lines
  MaxLines,  \* bound: lines of one thread
  MaxDeaths, \* bound: times the process dies
  MaxFd,     \* the largest descriptor
  NoFile,    \* no such file, or a descriptor that is not open
  Nobody     \* mMutex is free

ASSUME FileLogAssumption ==
  /\ MaxFiles \in Nat \ {0} /\ MaxSize \in Nat /\ MaxFd \in Nat
  /\ NoFile \notin Nat /\ Nobody \notin Threads

VARIABLES
  mFile, mSize, mMutex, mIsCont, mMaxFile,
  dir,      \* the file of each name: -1 is the log, i the name log.i
  content,  \* the lines of each file
  fds,      \* the file of each descriptor
  pc,       \* where each thread is in vlog() and check()
  local,    \* the descriptor or size it has read, or the i of its loop
  lines,    \* lines each thread has begun
  written,  \* which of them the system has taken, from all processes
  alone,    \* no two threads have been in vlog() at a time
  continued, \* a process had isCont
  failed,   \* an open() has failed
  deaths

memVars == <<mFile, mSize, mMutex, mIsCont, mMaxFile>>
fileVars == <<dir, content, fds>>
history == <<lines, written, failed, deaths, continued>>
vars == <<memVars, fileVars, pc, local, history, alone>>

Log == -1
None == -1
Names == Log .. MaxFiles
Fds == 0..MaxFd
Files == 1 .. (MaxFiles + MaxFd + 2)   \* one more than open() finds in use

Init ==
  /\ mFile = None /\ mSize = 0 /\ mMutex = Nobody
  /\ mIsCont \in BOOLEAN /\ mMaxFile \in 1..MaxFiles
  /\ dir = [n \in Names |-> NoFile] /\ content = [f \in Files |-> <<>>]
  /\ fds = [d \in Fds |-> NoFile]
  /\ pc = [t \in Threads |-> "out"] /\ local = [t \in Threads |-> 0]
  /\ lines = [t \in Threads |-> 0] /\ written = [t \in Threads |-> {}]
  /\ continued = mIsCont /\ alone = TRUE /\ failed = FALSE /\ deaths = 0

Goto(t, place) == pc' = [pc EXCEPT ![t] = place]

-----------------------------------------------------------------------------
(* The file system.                                                        *)
InUse(d, o) == {f \in Files : \E n \in Names : d[n] = f} \cup {f \in Files : \E x \in Fds : o[x] = f}
NewFile == CHOOSE f \in Files : f \notin InUse(dir, fds)
FreeFd == CHOOSE d \in Fds : fds[d] = NoFile /\ \A e \in Fds : e < d => fds[e] # NoFile

(* What no name and no descriptor leads to any more is gone.               *)
Kept(c, d, o) == [f \in Files |-> IF f \in InUse(d, o) THEN c[f] ELSE <<>>]

(* open() of the log for appending; fd is None if it fails.                *)
Open(fd) ==
  \/ /\ \E d \in Fds : fds[d] = NoFile
     /\ fd = FreeFd
     /\ dir' = [dir EXCEPT ![Log] = IF @ = NoFile THEN NewFile ELSE @]
     /\ fds' = [fds EXCEPT ![fd] = dir'[Log]]
     /\ UNCHANGED <<content, failed>>
  \/ /\ fd = None
     /\ failed' = TRUE
     /\ UNCHANGED fileVars

Unlink(name) ==
  /\ dir' = [dir EXCEPT ![name] = NoFile]
  /\ content' = Kept(content, dir', fds)

Rename(from, to) ==
  IF dir[from] = NoFile THEN UNCHANGED <<dir, content>>
  ELSE /\ dir' = [dir EXCEPT ![to] = dir[from], ![from] = NoFile]
       /\ content' = Kept(content, dir', fds)

-----------------------------------------------------------------------------
(* vlog() of a line, into check().                                         *)
Begin(t) ==
  /\ pc[t] = "out" /\ lines[t] < MaxLines
  /\ lines' = [lines EXCEPT ![t] = @ + 1]
  /\ alone' = (alone /\ \A u \in Threads : pc[u] = "out")
  /\ Goto(t, IF mFile = None /\ mIsCont THEN "continue" ELSE "test")
  /\ UNCHANGED <<memVars, fileVars, local, written, failed, deaths, continued>>

Continue(t) ==
  /\ pc[t] = "continue"
  /\ \E fd \in Fds \cup {None} : Open(fd) /\ local' = [local EXCEPT ![t] = fd]
  /\ Goto(t, "continued")
  /\ UNCHANGED <<memVars, lines, written, deaths, continued, alone>>

Continued(t) ==
  /\ pc[t] = "continued"
  /\ mFile' = local[t] /\ local' = [local EXCEPT ![t] = 0]
  /\ Goto(t, IF mFile' = None THEN "test" ELSE "stat")
  /\ UNCHANGED <<mSize, mMutex, mIsCont, mMaxFile, fileVars, history, alone>>

(* fstat() of whatever mFile is by now.                                    *)
Stat(t) ==
  /\ pc[t] = "stat"
  /\ mSize' = IF mFile # None THEN Len(content[fds[mFile]]) ELSE mSize
  /\ Goto(t, "test")
  /\ UNCHANGED <<mFile, mMutex, mIsCont, mMaxFile, fileVars, local, history, alone>>

Test(t) ==
  /\ pc[t] = "test"
  /\ Goto(t, IF mFile = None THEN "lock" ELSE "limit")
  /\ UNCHANGED <<memVars, fileVars, local, history, alone>>

TestSize(t) ==
  /\ pc[t] = "limit"
  /\ Goto(t, IF mSize > MaxSize THEN "lock" ELSE "use")
  /\ UNCHANGED <<memVars, fileVars, local, history, alone>>

-----------------------------------------------------------------------------
(* The rotation.                                                           *)
(* Slips the code could make: no mutex; the file is left open.             *)
LockNot(t) ==
  /\ pc[t] = "lock"
  /\ mMutex' = t /\ Goto(t, IF mFile # None THEN "close" ELSE "unlink")
  /\ UNCHANGED <<mFile, mSize, mIsCont, mMaxFile, fileVars, local, history, alone>>

CloseNot(t) ==
  /\ pc[t] = "close"
  /\ mFile' = None /\ Goto(t, "reset")
  /\ UNCHANGED <<mSize, mMutex, mIsCont, mMaxFile, fileVars, local, history, alone>>

Lock(t) ==
  /\ pc[t] = "lock" /\ mMutex = Nobody
  /\ mMutex' = t /\ Goto(t, IF mFile # None THEN "close" ELSE "unlink")
  /\ UNCHANGED <<mFile, mSize, mIsCont, mMaxFile, fileVars, local, history, alone>>

Close(t) ==
  /\ pc[t] = "close"
  /\ fds' = [d \in Fds |-> IF d = mFile THEN NoFile ELSE fds[d]]
  /\ content' = Kept(content, dir, fds')
  /\ mFile' = None /\ Goto(t, "reset")
  /\ UNCHANGED <<mSize, mMutex, mIsCont, mMaxFile, dir, local, history, alone>>

Reset(t) ==
  /\ pc[t] = "reset"
  /\ mSize' = 0 /\ Goto(t, "unlink")
  /\ UNCHANGED <<mFile, mMutex, mIsCont, mMaxFile, fileVars, local, history, alone>>

UnlinkOldest(t) ==
  /\ pc[t] = "unlink"
  /\ Unlink(mMaxFile)
  /\ local' = [local EXCEPT ![t] = mMaxFile - 1] /\ Goto(t, "shift")
  /\ UNCHANGED <<memVars, fds, history, alone>>

(* A slip the code could make: the loop leaves oldFile alone.              *)
FirstBackupNext(max) == IF max = 1 THEN 1 ELSE max - 1

(* Where the log goes: what the loop has left in oldFile.                  *)
FirstBackup(max) == IF max = 1 THEN 1 ELSE 0

Shift(t) ==
  /\ pc[t] = "shift"
  /\ IF local[t] > 0
     THEN /\ Rename(local[t] - 1, local[t])
          /\ local' = [local EXCEPT ![t] = @ - 1] /\ UNCHANGED pc
     ELSE /\ Rename(Log, FirstBackup(mMaxFile))
          /\ local' = [local EXCEPT ![t] = 0] /\ Goto(t, "open")
  /\ UNCHANGED <<memVars, fds, history, alone>>

Reopen(t) ==
  /\ pc[t] = "open"
  /\ \E fd \in Fds \cup {None} : Open(fd) /\ local' = [local EXCEPT ![t] = fd]
  /\ Goto(t, "opened")
  /\ UNCHANGED <<memVars, lines, written, deaths, continued, alone>>

Opened(t) ==
  /\ pc[t] = "opened"
  /\ mFile' = local[t] /\ mMutex' = Nobody
  /\ local' = [local EXCEPT ![t] = 0] /\ Goto(t, "use")
  /\ UNCHANGED <<mSize, mIsCont, mMaxFile, fileVars, history, alone>>

-----------------------------------------------------------------------------
(* The rest of vlog().                                                     *)
Use(t) ==
  /\ pc[t] = "use"
  /\ IF mFile # None THEN local' = [local EXCEPT ![t] = mFile] /\ Goto(t, "write")
     ELSE UNCHANGED local /\ Goto(t, "out")
  /\ UNCHANGED <<memVars, fileVars, history, alone>>

(* A descriptor that has been closed meanwhile takes nothing.              *)
Write(t) ==
  LET f == fds[local[t]] IN
  /\ pc[t] = "write"
  /\ IF f # NoFile
     THEN /\ content' = [content EXCEPT ![f] = Append(@, <<t, lines[t]>>)]
          /\ written' = [written EXCEPT ![t] = @ \cup {lines[t]}]
     ELSE UNCHANGED <<content, written>>
  /\ local' = [local EXCEPT ![t] = mSize] /\ Goto(t, "add")
  /\ UNCHANGED <<memVars, dir, fds, lines, failed, deaths, continued, alone>>

(* mSize is read and written again without mMutex.                         *)
Add(t) ==
  /\ pc[t] = "add"
  /\ mSize' = local[t] + 1
  /\ local' = [local EXCEPT ![t] = 0] /\ Goto(t, "out")
  /\ UNCHANGED <<mFile, mMutex, mIsCont, mMaxFile, fileVars, history, alone>>

(* The process dies, or ends as it should, and another one starts.         *)
Die ==
  /\ deaths < MaxDeaths
  /\ deaths' = deaths + 1
  /\ mFile' = None /\ mSize' = 0 /\ mMutex' = Nobody /\ mIsCont' \in BOOLEAN
  /\ fds' = [d \in Fds |-> NoFile] /\ content' = Kept(content, dir, fds')
  /\ pc' = [t \in Threads |-> "out"] /\ local' = [t \in Threads |-> 0]
  /\ continued' = (continued \/ mIsCont')
  /\ UNCHANGED <<mMaxFile, dir, lines, written, failed, alone>>

Next ==
  \/ \E t \in Threads :
       \/ Begin(t) \/ Continue(t) \/ Continued(t) \/ Stat(t) \/ Test(t) \/ TestSize(t)
       \/ Lock(t) \/ Close(t) \/ Reset(t) \/ UnlinkOldest(t) \/ Shift(t)
       \/ Reopen(t) \/ Opened(t) \/ Use(t) \/ Write(t) \/ Add(t)
  \/ Die

Spec == Init /\ [][Next]_vars

-----------------------------------------------------------------------------
Holding == {"close", "reset", "unlink", "shift", "open", "opened"}

(* Only the thread that holds mMutex is in the rotation, every name leads  *)
(* to a file of its own, and without isCont no descriptor is lost: the one *)
(* open file is mFile's.                                                   *)
TypeOK ==
  /\ mFile \in Fds \cup {None} /\ mSize \in Nat /\ mMaxFile \in 1..MaxFiles
  /\ \A t \in Threads : pc[t] \in Holding <=> mMutex = t
  /\ \A m, n \in Names : m # n /\ dir[m] # NoFile => dir[m] # dir[n]
  /\ \A f \in Files : content[f] # <<>> => f \in InUse(dir, fds)
  /\ ~continued => /\ Cardinality({d \in Fds : fds[d] # NoFile}) <= 1
                   /\ mFile # None => fds[mFile] # NoFile

(* The lines under each name; a name's file is older than those of the     *)
(* names below it, the log's being the newest.                             *)
Shelf == [n \in Names |-> IF dir[n] = NoFile THEN <<>> ELSE content[dir[n]]]
IsKept(t, k) == \E n \in Names : \E i \in DOMAIN Shelf[n] : Shelf[n][i] = <<t, k>>

(* From the oldest file to the newest a thread's lines are in their order. *)
Ordered(shelf) ==
  \A m, n \in Names : \A i \in DOMAIN shelf[m], j \in DOMAIN shelf[n] :
    /\ shelf[m][i][1] = shelf[n][j][1]
    /\ m > n \/ (m = n /\ i < j)
    => shelf[m][i][2] < shelf[n][j][2]

(* What the files hold of a thread's lines is always the newest of them,   *)
(* without a gap, in their order, from the oldest file to the newest,      *)
(* whenever a process dies in a rotation, whatever fails, and whichever    *)
(* threads rotate one after the other.  With isCont a thread opens the log *)
(* without mMutex, and then it holds only while threads log one at a time. *)
KeptNewest ==
  (continued => alone) =>
    /\ Ordered(Shelf)
    /\ \A n \in Names : \A i \in DOMAIN Shelf[n] : Shelf[n][i][2] \in written[Shelf[n][i][1]]
    /\ \A t \in Threads : \A k, l \in written[t] : k < l /\ IsKept(t, k) => IsKept(t, l)

(* While threads log one at a time and nothing fails, every line gets into *)
(* a file, and lines are dropped only when every backup was full.          *)
Backups == IF mMaxFile = 1 THEN {1} ELSE 0 .. mMaxFile - 1

NoneDropped ==
  alone /\ ~failed /\ deaths = 0 /\ (\A t \in Threads : pc[t] = "out") =>
    /\ \A t \in Threads : written[t] = 1..lines[t]
    /\ (\E t \in Threads : \E k \in written[t] : ~IsKept(t, k)) =>
         Shelf[Log] # <<>> /\ \A n \in Backups : Len(Shelf[n]) > MaxSize
=============================================================================
