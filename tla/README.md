# spnetkit in TLA+

spnetkit (`src/spnetkit/`) is a C++ library of sockets, protocol clients and
small servers, used from several threads or processes. This directory holds
TLA+ modules that model its components from the source, TLC configurations that
check them on small instances, and theorems about them that TLAPS proves.
`PROJECT.json` ties every definition to the lines it models, every property to a
mutated definition that breaks it, and lists the hazards the properties are for.

    tlc -config lock.cfg MCTokenLock.tla      one run; the cfg is named for the run
    tlapm TokenLockProofs.tla                 the proofs of one module; the others: Proofs, below

## The system

| Component | State | Operations | Hard because |
|---|---|---|---|
| `SP_NKTokenLockManager` (spnklock) | sorted array of entries by token, a vector of waiters per entry, one mutex, `mStop` | `lock` (no wait, timed, infinite), `unlock`, destructor | condition variables, timeouts that cross signals, pointers kept over a wait, destruction while threads are inside |
| `SP_NKServer` (spnkserver) | listening fd, shutdown flag, count of active threads, mutex held during `accept` | `run`, `shutdown`, destructor, the thread function | flag and counter read without the mutex, a wakeup that is a connection |
| `SP_NKSocketPool` (spnksocketpool) | a vector of idle sockets per peer | `get`, `save`, `clean`, destructor | shared by threads, expiry, the key is the peer's name |
| `SP_NKPreforkManager`, `SP_NKPreforkServer` (spnkprefork) | list of pids, children's counters | `runForever`, the child's accept loop, `termHandler`, `shutdown` | crashes, reuse of pids, signals that arrive during a fork |
| `SP_NKSmtpClient`, `SP_NKSmtpProtocol` (spnksmtpcli, spnksslsmtpcli) | four lists of recipients, last reply | `send`, its commands, STARTTLS | socket failure at any command, lost last reply, repeated sends |
| `SP_NKEndPointTable` (spnkendpoint) | sorted buckets of endpoints with weights and pause times | choose by key or at random, pause, start | boundaries of the search, zero total weight |
| `SP_NKMemClient` (spnkmemcli, spnkmemobj) | endpoint table, socket pool | `stor`, `retr`, `incr`, ... | replies must stay in step on pooled sockets |
| `SP_NKPop3Client` (spnkpop3cli), `SP_NKDotTermDataReader` (spnkreader) | list of uids, buffer of chunks | commands, multi-line replies | the end of the data split over reads |
| `SP_NKSocket` (spnksocket), `SP_NKSslSocket` | a read buffer, fd, timeouts | `read`, `readline`, `unread`, `probe`, `writen` | buffer limits, timeouts, fds owned twice |
| HTTP (spnkhttp*), ICAP (spnkicapcli) | messages, headers, content | receive and send, keep-alive, chunks | bodies by length, by chunks, by close |
| Milter client (spnkmiltercli) | flags, last reply | the milter commands, each with its macros | skipped commands, several replies to one command |
| `SP_NKFileLog` (spnklog) | file, size, mutex | `log`, rotation | the size is tested outside the mutex |
| Containers (spnklist, spnkbuffer) | arrays | append, take, insert, find | boundaries; used by everything above |
| `SP_NKIniFile`, config objects (spnkini, spnkconfig) | text of the file; settings | open, list, read values, read tables | what people write into files |
| hash, md5, base64, str, time, file, getopt, thread shim | none or local | pure functions, wrappers | - |

How they interact: `SP_NKMemClient` takes sockets from `SP_NKSocketPool` for
endpoints from `SP_NKEndPointTable`, and gives them back or deletes them; the
server and the prefork server call a handler per connection, which the HTTP
server uses for its dispatch; the protocol clients own a socket and read
through its buffer; `SP_NKSslSmtpClient` replaces the socket of a running
dialog; the lock manager stands alone. Every component logs through
`SP_NKLog`, which may be the file log shared by all threads.

What makes each correct: the lock excludes, loses no wakeup, keeps the order of
arrival and may be destroyed under load; the server handles each connection
once and stops when told; the pool never shares or leaks a socket; the prefork
master has one child per place, replaces those it finds dead, and takes them all down;
the SMTP client never loses a recipient nor reports one wrongly, and sends twice only
when the last reply was lost or cut.

## Modules

Each component has a module with its state and actions, a `...Props` module with
the properties (at the end of the module itself in `FileLog`, `HttpTalk` and
`Pop3Client`), and an `MC...` module with the constants and symmetry sets for TLC.
`MCMailClients` has both mail clients, of which a program runs one (`MailSpec`).

### TokenLock, FifoLock

A call of `lock()` is made in one step (`CallLock`) and gets `mMutex` in a later one,
so that a thread may be blocked there (spnklock.cpp:195) through all that others do
meanwhile, the destructor too. `lock()` before its wait, after its wait, and `unlock()`
run under `mMutex`, so each is one action; the end of a wait (`Timeout`, `SpuriousWakeup`, or the
`signalled` that another thread's `PassOn` sets) and what follows it
(`Acquire`, `Withdraw`) are two, since `mMutex` must be regained in between and
anybody may run before. The code appears as follows.

| Model | Code |
|---|---|
| `entries`, `waiters[k]` | `mEntryList`; the `mList` of the entry of token `k`, as pairs of the thread id a waiter carries and its address |
| `called` | the threads that have called `lock()` and not yet got `mMutex` |
| `pc`, `want`, `slot` | where a thread is in `lock()`, its argument, its local `waiter` |
| `granted[t]` | the tokens for which `lock()` returned 0 to `t` |
| `CallLock`; `LockFree`, `LockNoWait`, `LockWait` | `lock()` up to `mMutex`; from there to its return or its wait |
| `Acquire`, `Withdraw` | `lock()` after the wait, with 0 or with an error (or `mStop`) |
| `Unlock`, `UnlockNotHeld` | `unlock()` |
| `BeginDestroy`, `TestEmpty`, `FinishDestroy` | the destructor: `mStop`, the test and wait, the end |
| `late` | history: the threads that got `mMutex` when the destructor no longer waited |
| `assertLine` | an `assert()` failed and the process is gone |

Waiter objects have addresses that are used again (`Slots`), because `lock()`
compares the waiter it took with the one it waited with only by thread id.
`Habits` says what callers may do beyond locking one token, using it and
unlocking it: hold several (`nested`), lock one they own (`relock`), call after
destruction began (`latecall`). A call made before it needs no such habit, whenever it
gets `mMutex`. `FifoLock` is the promise to the callers: an
owner and a line per token. `TokenLock` implements it with the head of the queue
as the owner once `lock()` has returned (`Owner`, `Line` in TokenLockProps).

### Server

One action per stretch of `sp_nkserverthread()` between accesses to shared
state. `mMutex` is a variable only where it is held from one step to another:
during `accept()`, and from the `--` to the unlock at the end. `shutdown()` is
three actions (write the flag, read the counter, connect), since threads run in
between and none of it is under `mMutex`. The destructor repeats it. The kernel's
queue of connections is `backlog`; the connection of `shutdown()` is `Wake`.

### SocketPool

One action per critical section. `get()` that finds no idle socket has a second
part, `Create` or `CreateFails`, outside the mutex. `StopsAt` is the loop of
`get()`: sockets that are too old are deleted from the newest down until one is
not. Users talk over a socket (`Use`), give it back (`Save`) or delete it
(`Discard`), as SP_NKMemClient does. `peer` is what `getPeerHost()` says, which
may be unknown, and `dest` where the socket is really connected. Sockets are
addresses: a deleted one may come back.

### Prefork

`Run` is the fork of the master by `run()`, `MasterListens` and `MasterListenFails` what
it does first. Then the master's loop, one action per proc it looks at; `kill(pid, 0)` is
`Exists`. A pid is free again at once when its process ends (SIGCHLD is ignored) and may
be taken by a child of another index or by another program (`Recycle`, `Foreign`). The
master then takes the place for alive: `Refilled` excuses it only while another program
has the pid (`ByForeign`), or a child of another place (`BySibling`), and asks again once
that one is dead. `peer` is what became of a client's connection. A pending SIGTERM is a
member of `term`, delivered by `TermChild` or `TermMaster`, which do what `termHandler()`
does. The accept loop of a child counts failures as well. After a failed listen the child
that `run()` forked goes back into the caller's code with 0; what the caller does there is
not modelled.

### SmtpClient

One action per command with its reply; a reply is its class, any class at any command, and
may be cut by the end of the connection, which leaves one that is neither 2xx, 3xx nor
5xx. `MessageOrQuit` is the test of the last reply before the body (spnksmtpcli.cpp:260),
whichever command that reply is to. Every command can also fail in the socket, after which
`send()` gathers all recipients again. The server's side is kept as far as the properties
need it: the recipients it has accepted on this connection (`envelope`), whether it reads
commands, the data after its 3xx to DATA, or nothing more (`conn`), and how often it has
taken the message for whom (`delivered`). It is assumed that the text of a mail that comes
without DATA holds no command, and that such text gets no 2xx. The application sends again
what was not delivered, and may call `setAuth()` before any send.

### Pop3Client, DotTermReader

One action is one read of the socket and what the client makes of it; `ReadStatus`
is a turn of `readline()`, `ReadData` a turn of the loop of
`SP_NKDotTermDataReader::read()`. How much a read brings is any number of bytes, so
replies are cut everywhere, also by what `readline()` leaves in the socket's
`mBuffer`. `DotTermReader` holds the search for the end (`EndOfData`, with the
eight bytes it looks back on, `Last5`), the test for empty content, and
`getUnescapeBuffer()`. Bytes are those the search tells apart and an `x`. The
server stuffs dots as it should and answers one command at a time; it may refuse,
fall silent, and close amid a reply. A call that returned -1 ends the session.
`torn` remembers a cut between the last CR and LF of data, the one place where the
reader goes wrong (see below); the properties are about the other sessions. `sent` is what the
server answered, for comparison. The actions and the type invariant bear a prefix or
a longer name (`Pop3Next`, `SendCommand`) so that `MailClientProofs` can hold the
proofs of both mail clients.

### MemClient

Threads in calls of `SP_NKMemClient`, over module `SocketPool` by INSTANCE: each
call of the pool is an action of that module joined to the thread's own step. What
that leaves to be wrong is which connection a thread has when it talks, and where it
leads: `OwnConnection`. A reply is a sequence of lines and data blocks; `AfterLine` says for
every operation and line whether the talk goes on, has ended with 0 (`"save"`) or
with -1 (`"delete"`). A read that finds nothing times out. The server may close a
connection at any moment, an idle one too, amid a line or a block (`"cut"`). Ages
are left to the run `pool`.

### HttpMsg, HttpTalk

`HttpMsg` has the pure part: a message is a start line, headers and content, on
the wire a sequence of units (lines, bytes of content, chunk sizes); the operators
are the code's (`addHeader`, `fixRespHeaders`, `RequestOnWire`, `sendResp`,
`Gathered`, `Framing`, `parseEnc`). `HttpTalk` puts the library's HTTP client, its
ICAP client and its server's `dispatch()` at the ends of one connection, with each
other or with a foreign peer that also folds headers, uses chunks, or closes at
the end. One action is one `readline()`, `readn()` or `read()` and what the caller
makes of it, at the place `at[e]`; what has been written arrives a unit at a time,
reads time out at any place, the connection breaks anywhere, also within a line.
Where the answer of a foreign server ends is HTTP's rule, not the client's
(`WithoutContent`, `EndsByClose`): it may send a 204 without a length and keep the
connection, which the client does not know how to read. `ret` is what the handler
returned last; `dispatch()` tests another variable of that name (`TestedSockRet`).

| Model | Code |
|---|---|
| `ReadStart`, `ReadHeader` with `pend` | `recvReq()` and `recvRespStartLine()`; a turn of `recvHeaders()` or the ICAP `recvHeader()` with `multiLine` |
| `ReadSize`, `ReadChunk`, `ReadCrlf` | the loop over chunks in `recvBody()` and `recvPart()` |
| `ReadBlock`, `ReadToClose`, `Closed` | a body by length, by the end of the connection |
| `EndContent`, `AfterChunk`, `parts` | the ICAP `recvBody()` over the parts of `Encapsulated` |
| `Call`, `Dispatch` | the client's methods; the handler, `fixRespHeaders()`, `sendResp()`, keep-alive |

`sendResp()` of an empty content returns -1, which `dispatch()` does not look at:
no effect, as in the model.

### MilterClient

One action per packet read (`ReadPrefix`, `ReadData`) and per command. `Packets`
and `WithMacros` say what a command puts on the wire: the macros (`"D"`) that some
commands have before them, then the command, which is not sent when the macros
could not be. What the macros say is left out; their names are constants of the
code, three of them without a closing brace or misspelt (`{auth_type`,
`{auth_authro}`, `{rcpt_host`, spnkmiltercli.cpp:196, 197, 233). A filter answers
with a verdict, or with changes until a verdict, or quits. The application goes
through the commands in order, reads on at the end of the body while the answer is
a change, resets between mails. What a property needs to know of the past is `last`,
the packets of the last call that sent any, and `before`, the command before those.
Time may run out amid the data of a reply (`ReadPartOfData`, spnkmiltercli.cpp:377):
`readReply()` takes the part for the whole, and the rest stays; `cut` remembers that.
What the next read takes for a prefix is then none, nor is a prefix that comes in part
(`ReadNoPrefix`, spnkmiltercli.cpp:368, a length that wraps): `undefined`.

### FileLog

`check()` and `vlog()` step by step, each step one access to `mFile` or `mSize` or one
system call, because only the rotation holds `mMutex` and even its test (`Test`, then
`TestSize`) does not. The file system is `dir` (names to files), `content` and `fds`; a
file that neither a name nor a descriptor reaches is gone. The process may die at any
point (`Die`) and start again with or without `isCont`. `setOpts()` is called before
threads log. `mSize` counts one byte more per line than is written; the model's lines
count 1. With one file and a rotation whose reopening fails, lines are dropped until the
next rotation succeeds: `KeptNewest` and `NoneDropped` say what holds then. `mMaxFile` is
any number up to `MaxFiles`, descriptors are numbers up to `MaxFd`, and there is one file
more than names and descriptors can lead to, so that `open()` always finds a new one;
`written` is the set of a thread's lines that the system has taken, from all processes. A
write with a descriptor that another thread has closed and a third party reused is left
out. `spnklog.hpp:23-25` calls the time stamp a default, which `spnklog.cpp:88` sets to 0.

### NKList, ListSpec

`NKList` has the containers as they lie in memory: `SP_NKVector` as a block with
`count` and `max`, `SP_NKSortedArray` and `SP_NKNameValueList` on top of it,
`SP_NKDoubleLinkList` as pointers, `SP_NKStringBuffer` as bytes. `ListSpec` is
their promise: a sequence and the results of calls. Each call of `NKList` is one
step of `ListSpec` (`KeepsPromise`), through the growth of a vector (2 to 4, 1 to
2 to 4) and of the buffer (8, 13, 20), which is all that lists up to three and 22
bytes can show. `LAST_INDEX`, -1, is also what searches return for "not found"; a
caller that does not test it gets the last item, as `MemStat`'s `getValue` does
(spnkmemobj.cpp:260) and `SP_NKPop3UidList::find()` (below). `getMerge()`, which
cannot merge an empty list, is left out.

### IniFile, EndPointTable

A file is the sequence of its lines with the details the reader tells apart: words of the
name, whether there is a `=`, comment characters, a final newline. `EndPointTable` reads
tables (`TableOf`) and settings (`ConfOf`, with the defaults of `SocketPoolSettings`,
`ServerSettings`, `PreforkServerSettings`, `DatabaseSettings`) from it, edits it and reads
it again, adds buckets, chooses for a key (`Place` is the binary search, `Narrowed` one
turn of its loop) or at random (`Drawn`, by the `Weights` added up), pauses and starts. A
table in a file has four sections at most (`EndPointSection`), and a negative key wraps
(`Unsigned`, at `Wrap`, 2^32 in the code and 8 in the run); one that a program builds has
any number. What comes out, for a reader of the files:

- of two sections of the same name only the first is read, of two equal keys the last;
- a key whose name is the first word of another line's key takes that line's value;
- `;` and `#` cut a value anywhere, also in a password;
- a last line without `=` and newline is not found;
- buckets that overlap may be missed by the search; a table that is read again
  forgets pauses; a pause of n seconds lasts until the clock is past it, n + 1;
- `TableKeyMax=0`, and a draw when everything is paused, divide by zero: the model
  stops in `crashed`.

### Pop3UidList

The list of ids and sizes over an `SP_NKVector`, filled from the listings of a
mailbox that changes between sessions: mails deleted by this client, and new ones.
`find()` returns the last item for a number that is not in the list, so
`fillMailSize()` gives the last mail of a list of new ones the size of a later
mail, and `getMail()` may fetch it; `SizesAreOwn` excludes exactly that item. A list of
new mails has exactly those that were not in the list of known ids when it was asked for
(`known`).

`EndPointTableProps` holds `EndPointTable`, the containers by themselves and
`Pop3UidList` side by side (`kind` says which one a behaviour is about), so one run
checks what all of them have in common, the vector.

## Runs

| Run | Instance | States | Shows |
|---|---|---|---|
| `lock` | 3 threads, 2 tokens, calm callers | 3.4 thousand | `MutualExclusion`, `NoLostWakeup`, `NoAssertFails`, `DestructorAlone`; implements `FifoLock` (`FifoSpec`); calls and the destructor return (`EverybodyReturns`) |
| `lock_habits` | 2 threads, 2 tokens, 2 addresses, all habits, spurious wakeups | 535 thousand | `OwnWaiterQueued`, `TimedCallReturns` |
| `server` | 3 threads, 2 clients, backlog 1, failing `accept()` | 56 thousand | `OneHandlerPerConnection`; it serves, stops and is destroyed (`ServesThenStops`) |
| `pool` | 2 threads, 2 endpoints, 3 sockets, 2 idle per endpoint, age limit 1 | 54 thousand | `OneHolder` (nothing shared, leaked or dangling); `IdleIsGood` (right endpoint, not expired) |
| `prefork` | 2 procs, 3 pids, 1 client, pids used again, other programs | 25 thousand | `ChildIsListed`; `GroupLivesAndEnds` (refilled, clients served, SIGTERM ends all) |
| `mail` | SMTP: 2 recipients, 3 sends, AUTH and STARTTLS; POP3: mails of up to two of five short lines, one byte unread at most | 63 + 91 thousand | `NobodyLost`; `DeliveredAsTold` (envelope, no false success, at most once); `NeverWaitsInVain`, `AnswerIsOwn` |
| `mem` | 2 threads, 2 servers, 2 sockets, 1 idle per endpoint | 526 thousand | `GivenBack` (nothing unread in the pool), `OwnConnection` (a thread talks to its server, alone) |
| `http` | 2 calls per connection, 4 pairs of ends, 9 requests, 15 answers | 40 thousand | `NeverWaitsInVain`, `MessagesWhole` |
| `http_keep` | as `http` | - | violated: `ZeroKeepsConnection`, what spnkhttpsvr.hpp:17 says of a handler's 0 |
| `milter` | 2 mails, 2 changes, 6 sets of skipped commands | 11 thousand | `InStep` (replies are one's own, no vain wait), `InOrder` |
| `filelog` | 2 threads, 2 lines each, `mMaxFile` 1 or 2, 3 descriptors, one death | 1.6 million | `KeptNewest`, `NoneDropped` |
| `table` | lists of 3, buffers of 22 bytes, 8 files, 4 ranges, 3 mails, 2 sessions | 148 thousand | `KeepsPromise` (containers implement `ListSpec`), `ChoiceIsRight`, `FileIsRead`, `SizesAreOwn` |

Every run but `lock_habits`, `http_keep` and `table` also checks a `TypeOK`; in `table` it is
the first part of `KeepsPromise`.

Why the bounds are enough. Lock: a race needs a leaving thread, a successor and
one more behind it, so three threads; tokens interact only through a thread
that holds several and through the destructor, so two. Server: one thread in
`accept()`, one behind it at the mutex, one in a handler; a full backlog is
reached with one client. Pool: a list of two is the shortest with a fresh socket
over an old one; the third socket is over the limit or another's. Prefork: two
procs that can take each other's old pid, one pid spare. SMTP: two recipients may
meet different fates; three sends allow a failure after a failure. POP3: a line
may be empty, a dot, begin or end with one; two lines put each of them after a
line's end, and every cut of every reply is tried. Memcached: two threads contend
for one idle connection, two endpoints make a call that goes on after a failure.
HTTP: the second call finds what the first left on the connection; every framing
occurs on both sides. Milter: the second mail follows one that ended in every way.
FileLog: every line fills the file (`MaxSize` 0), so that two threads rotate at
once; one backup is enough to overwrite it. Table: three buckets, the first, the last
and one between; three items pass the growth of both kinds of vector.

Counters that the code lets grow are bounded by named constants: `MaxSends`,
`MaxIdleTime` (ages stop one above it), `MaxRequests`, `Backlog`, `MaxUnread`,
`MaxItems`, `MaxCalls`, `MaxMails`, `MaxChanges`, `MaxLines`, `MaxDeaths`,
`MaxLen`, `MaxBuf`, `MaxNow`, `MaxMarks`, `MaxSessions`.

CHECK_DEADLOCK is off in every run because every one of these systems may stop:
the manager is destroyed or aborted, the server destroyed, all threads done, the
connection closed, the bounds used up.

### Fairness

- `TokenLock`: `Scheduling` says a thread that can run does, a deadline passes,
  and whoever waits for `mMutex` gets it. `FairSpec` adds that owners unlock, as
  testlock.cpp does; `TimedSpec`, used for `TimedCallReturns`, does not. Starting
  a call is never fair, and neither is a spurious wakeup.
- `Server`: threads run and get the mutex, handlers return, the owner finishes
  what it started. `accept()` is strongly fair because it may fail now and then
  (`AcceptErrors`) but not for ever while a connection waits. Nobody is obliged
  to call `shutdown()` or to connect.
- `Prefork`: the master's loop and signal delivery are weakly fair; `fork()` at
  each proc and `accept()` are strongly fair: tried for ever, they succeed.
  Crashes and signals are not fair.
- The others: safety only, no fairness. That clients and servers of POP3, HTTP
  and milter do not wait for each other is said of single states
  (`NeverWaitsInVain`, `InStep`): a reader that can only wait has bytes coming or
  a peer that still has to act.

### What the code does not keep

The properties leave these out, each at one place that says so:

- `lock()` takes the return of a condition wait for ownership and asserts it
  (spnklock.cpp:239); POSIX allows the wait to return early. `Spurious = TRUE` in
  lock.cfg shows the failing assert.
- `shutdown()` "wait[s] up the accept thread" (spnkserver.cpp:77) with a connection
  to the bind address; for the address `""`, which testhttpsvr.cpp uses, none can be
  made and the destructor never ends: `Connectable = FALSE` in server.cfg.
- When the destructor's wait is over, or was not needed, a thread whose `lock()` was
  blocked at `mMutex` (spnklock.cpp:195) may get it and be granted a token or wait;
  one that is still blocked there when `mMutex` is destroyed (185) has nothing to return
  from. `DestructorAlone` names the first (`late`), `EverybodyReturns` both.
- A handler of the HTTP server that returns 0 is to keep the connection
  (spnkhttpsvr.hpp:17); the `sockRet` that `dispatch()` tests is not the one the result
  goes into (spnkhttpsvr.cpp:20, 28, 40), so no connection is kept: run `http_keep`.
- The client exempts only HEAD and 304 from content (spnkhttpcli.cpp:31, 61); it reads a
  204 without a length up to the close, in vain on a connection that is kept.
  `NeverWaitsInVain` names it (`WaitsFor204`).
- A place of the prefork master whose child is dead and whose pid is in use again, by
  another program or by a child of another place, is not filled (spnkprefork.cpp:92-94)
  until that process has ended: `ByForeign` and `BySibling` in `Refilled`.
- The body of a mail goes without DATA after a 3xx to another command, or after a 2xx
  to DATA (spnksmtpcli.cpp:260): `EnvelopeMatches` names both.
- A last reply cut by the end of the connection ("25" of "250") is a reply like another:
  `send()` returns 0, the recipients go to the retry list, and the next `send()`
  delivers twice (spnksmtpcli.cpp:272-274, 585-589). They are in `unsure`, like those
  whose last reply was lost.
- A milter reply of which time cut the data counts as read; the rest of the data is the
  next prefix (spnkmiltercli.cpp:377). `ReplyIsOwn` does not ask that nothing is left
  after that (`cut`), and the session ends where the outcome is undefined.
- A refused STARTTLS is to be treated "as no error" (spnksmtpcli.cpp:178), but the
  recipients all move to the retry or error list, since the refusal is the last
  reply (188). In `SmtpClient` this is `AfterRefusal`.
- The reader asserts that what follows the end of the data can be given back to the
  socket (spnkreader.cpp:59); when a read ends between the CR and the LF of the final
  line, it has a length of -1 to give back. `torn` marks those sessions.
- A chunk's closing CRLF is read without a look at the result
  (spnkhttputils.cpp:273), and not read at all by the ICAP client
  (spnkicapcli.cpp:223), which therefore takes a second chunk's size for 0 and stops:
  `MessagesWhole` asks of an ICAP body only that it is a beginning of the real one.
  An ICAP reply 204 without `Encapsulated` counts as a failure.
- The milter's `endOfBody()` is skipped together with the body
  (spnkmiltercli.cpp:303).
- Threads that share a log opened with `isCont` may write past each other's rotation
  (spnklog.cpp:318); `KeptNewest` then asks nothing of processes with several threads.

Beside these, what the code does where nothing in the repository says otherwise:
a `lock()` of a free token is granted while the destructor runs; a POP3 reply
without content counts as complete at `.<CR>` and leaves its LF for the next
command; `getUnescapeBuffer()` keeps the stuffed dot of a first line; the loops over
UIDL and LIST lines do not advance over a line without a blank; `readline()` returns
a line that the end of the connection has cut as if it were whole, also to `incr()`
(spnksocket.cpp:356); the destructor of a server that never ran closes descriptor 0
(spnkserver.cpp:58); the default for a check interval of 0 is assigned to the
parameter (spnkprefork.cpp:36); `start()` that fails halfway leaves its threads
(spnkserver.cpp:159); the destructor of the server may free the object under threads
that were created and have not yet been counted, and under a thread between its last
`--` and its unlock.

## Proofs

`TokenLockProofs` proves, for any sets of threads, tokens and addresses:

- `BasicCorrect`, with no assumption on callers or on spurious wakeups: types,
  entries match queues, and `OwnWaiterQueued`. The invariant is `BasicInv`:
  those three and that a thread is inside `lock()` exactly when it has a token
  it wants. The argument is about departures: the waiter taken out is the first
  of its thread in the queue, which is the thread's own if it has one; every other
  thread keeps its waiter, and the entry goes only with the last.
- `MutualExclusionHolds`, `OwnerHeadsQueueHolds`, `NoLostWakeupHolds`,
  `NoAssertFailsHolds`, `DestructorAloneHolds`, each under `Calm` (no spurious
  wakeups, no relocking; nesting is allowed, and so are calls that begin while the
  manager is being destroyed).
  The invariant is `CalmInv`. None of the five is inductive alone: that the owner
  is the head needs that a thread has one waiter per queue (`OneWaiterEach`), that
  every waiter is accounted for by an owner or a thread inside `lock()`
  (`WaitersAccounted`), and that a signalled thread is first and does not wait for
  what it owns (`WaitsWithReason`); `NoLostWakeup` is itself what makes the head
  that leaves the one that signals. `CalmDepart` is the common part of `Unlock`
  and `Withdraw`. For `DestructorAlone`: when the list is empty, `WaitersAccounted` and
  `OwnerHeadsQueue` leave no thread with a token or a wait (`Drained`), and whoever gets
  `mMutex` from then on is in `late`.

It also proves `FifoSpecHolds`, under `Calm`: the lock manager implements
`FifoLock`. The step simulation rests on `CalmInv`: a token is granted to nobody
but the head of its queue, so the mapping's owner and line change together with
`granted` and the queue (`GrantedIff`); a step about one token leaves the mapping of the
others alone (`OneToken`). `LockFree` maps to `Take`, `LockWait` to `Enter`, `Acquire` to
`Grant`, `Unlock` to `Release` (`OwnerLeaves`), `Withdraw` to `Leave` at a place one
further to the front if the token has an owner (`LineCloses`), and all others to
nothing. That a waiter of `LockWait` is new to the line is where `Calm` is needed.
`NoToken`, which stands for nobody in the mapping, is taken to be no thread.

`SocketPoolProofs` proves, for any threads, endpoints, sockets and limits,
`TypeCorrect`, `OneHolderHolds` and `IdleIsGoodHolds`. The invariant `PoolInv` adds
`FiledByPeer`: a socket lies in the list of its peer's name, and that name is its
destination's unless it is unknown. Without it `save()` could file a socket under
another endpoint. `OneHolder` is inductive with `TypeOK`; its lemmas are about
what is left of a list that is cut at the top, and added to. The second part of
`IdleIsGood` is a property of steps; only `GetIdle` hands out sockets of the pool.

`ServersProofs` proves, of `Server`, for any threads, clients and backlog, `TypeCorrect`,
`OneHandlerHolds`, `ActiveCountHolds` and `NobodyStuckHolds`. That a connection has one
handler needs that it is in the queue once and only before it is accepted (`QueuedOnce`)
and that descriptors of threads and open connections agree (`FdsAreOpen`); that nobody is
in a handler when the object is freed follows from `FreedAlone` by the count, which in
turn is right because `mMutex` has one holder (`MutexHeld`). `NobodyStuckHolds` is the
safe part of `ShutdownStops`, for which no fairness is needed: when `shutdown()` has
returned, and could connect, some thread that has not ended can go on. It rests on
`AcceptWoken`: the thread in `accept()` then has a connection waiting, since the owner
counted it, or it had not passed the second look at the flag. It is inductive beside
`ServerInv`; without `Connectable` TLC finds a state that violates it.

Of `Prefork` the same module proves, for any pids, procs, clients and limits,
`PreforkTypeCorrect`, `ChildIsListedHolds` and `TermDoomsGroup`. With pids used again by
children or by other programs, each child is the one listed in its place. The addition is
`OnePidPerProc`: while the master forks its first children it has one pid per turn of its
loop; without it the list might be written beyond its end, or a child forked in a place
that is not there yet. `TermDoomsGroup` is a property of steps and the safe part of
`TermEndsAll`: once one process has handled SIGTERM, the master has it pending or, when it
has ended, every child has (`Doomed`), and no step undoes this. A child forked while the
signal is on its way is not signalled itself, but the master that forked it still is; that
a master has no child before it listens (`ForkedByMaster`) covers the one that ends
because it cannot.

`MailClientProofs` proves, of `SmtpClient`, for any recipients and any number of sends,
`TypeCorrect`, `NobodyLostHolds` and `DeliveredAsToldHolds`. The invariant `SmtpInv` puts
`NobodyLost`, a count, as sets that have nothing in common (`Apart`); that a report is
true needs where in the dialog the lists stand (`ListsFollow`: the success list is the
server's envelope while it fills and the connection lasts, it is so at the body, which a
server that reads commands takes for nobody's, and it is empty before the first RCPT and
after a failure), when the message has gone (`DeliveredWhen`: to those in the success list
from QUIT on and not before), and that one `send()` delivers once (`OncePerSend`).
Recipients of a message whose reply was lost or cut are set apart, as in the runs.

Of `Pop3Client` it proves, for any mails whose lines have no CR or LF in them, of any
length, `Pop3TypeCorrect`, `NeverWaitsHolds` and `AnswerIsOwnHolds`. The invariant is
`Pop3Inv`, of sessions that are not `torn`:

- `InStatus`: what lies in `mBuffer` and on the way is the whole reply to the command,
  or the start of it if the connection has ended (`Part`), and `readline()` keeps no
  more than two bytes of it, for the third is the LF.
- `InData`: the same of what the reader has, `mBuffer` and the way, against the data;
  and the reader has not come to within a byte of the end. That a search over a cut
  reply finds the end when, and only when, all of it has been read is `ReadsWhole`
  and `ReadsPart`; they need the cut before the last LF excluded, which is `torn`.
- `InDone`: nothing is left of the reply, and the text was handed out.

What these rest on is about data: a stuffed mail ends with the only place that looks
like an end (`WireEnds`), the eight bytes of `last5` with the chunk are what has been
read (`LookedAt`), and `getUnescapeBuffer()` takes from a stuffed mail what stuffing
put in (`UnstuffBody`, `UnescapeIs`), except a dot at its very start. The induction
theorems of the library take a predicate, which no prover here can instantiate; the
module has its own (`NatInd`, `SeqInd`), where the predicate is membership in a set.
`FlattenSeq` is a function that refers to itself under a CHOOSE: `FlattenExists` builds
it, one place at a time, and `FlattenAppend` is the equation used from there on.

`MilterClientProofs` proves, for any sets of flags, mails and changes, `TypeCorrect`,
`InStepHolds` and `InOrderHolds`. That the pipe may hold several replies, each of one
piece or two, is what makes the first hard: the invariant `MilterInv` speaks of
`Stream`, the pieces that have come and those on the way in one sequence. It comes in
whole replies, with a bare data piece only at its start and only while a call waits for
that (`Whole`); the verdict is its last reply; all of it answers the call that waits,
and nothing else is under way (`OneAtATime`); until the verdict has been read it is owed
or in the stream, unless the filter has quit (`WillEnd`). `LastIsCall` carries that a
packet the filter has asked not to get is never the last. `Rest` and `Said` say what a
read leaves of a stream and what a reply adds to it. `MilterInv` holds until time cuts
the data of a reply. From then on `Adrift` does: the rest of that data is the first
there is to read (`CutOff`), no step before the next read changes this (`NothingRead`),
and that read is `ReadNoPrefix`, after which nothing is read. `Steady` is what both have
in common, and of which the properties are made.

`InOrder` rests on `OrderInv`: once the negotiation is over the client tests the flags
the filter has sent, and before that they are in the stream (`FlagsTold`); and all
stages from the last command sent up to the last call were skipped because the filter
asked for it (`SinceLast`). `Advance` is the arithmetic of a call that goes on to the
next stage, the next recipient or the next mail: what lies between the last command
sent and the new one (`Gap`) grows by the stage that was just skipped, and begins anew
after a packet.

`MemClientProofs` proves, for any threads, servers, sockets and limits, `TypeCorrect`,
`GivenBackHolds` and `OwnConnectionHolds`. As a lemma, each step (`MemStep`) is `get()`,
`save()`, the destructor of a socket of `SocketPool`, or leaves the pool as it is; the
addition is that a thread in a call has a server left to talk to (`InCall`). The theorems
of `SocketPoolProofs` then hold of the client's pool and are used through an instance
(`Shared!PoolInv`), among them that no two threads have one socket. `GivenBack` needs what
is on the connections (`Conns`: the `END` of a reply is the last of it, and a reply comes
only to where nothing is left of an earlier one) and how much of a reply there is from
where a thread reads (`HeldRead`): nothing when it saves, one line for the operations that
get one, and at most four, three and one for a `retr()` of one item. A socket that no
thread has is silent (`SpareSilent`). That no call has two sockets (`HasOne`) or one
before it asked for it (`HasNone`) makes a save the end of the call's talk.
`OwnConnection` adds where the connection leads: to the endpoint whose turn it is
(`AllIts`).

`FileLogProofs` proves, for any threads, number and size of files, descriptors, lines
and deaths of the process, `TypeCorrect`, `KeptNewestHolds` and `NoneDroppedHolds`. The
invariants are:

- `Basic`: types; what threads keep in locals (`Locals`); only the holder of `mMutex`
  rotates; no file has two names, none is kept that nothing leads to; what is kept as a
  descriptor is open and kept once (`HeldOpen`). That `open()` has a file to make is
  counted: there are fewer names and open descriptors than files (`NewFileIsNew`).
- `Story`, for `KeptNewest`. What matters happens where the log is not opened beside
  `mMutex` (`Quiet`): there every open descriptor leads to the log and is in `mFile` or
  with the one thread that opens it (`OneOpen`), so a line goes to the newest file; a
  line that is being written is newer than all the thread has written (`Begun`); and
  the loop of the rotation renames into a name that is free or the oldest (`Shelved`).
  Then a rename takes a whole file to the next free place, which keeps the order of
  the lines, or drops the oldest ones.
- `Filled`, for `NoneDropped`, of one process that logs by one thread at a time without
  a failure (`Strict`): every line begun is written where its thread stands (`Steps`);
  `mSize` is the length of the log (`Sizes`), so that only a full log is rotated and
  every backup is full (`Full`); names are taken from the log on without a gap, but for
  the one just emptied (`Chain`), so that a line is dropped from a full row.

`EndPointTableProofs` proves, for any files, buckets, lists, weights, keys and mails,
and any number of calls, `ChoiceIsRightHolds`, `FileIsReadHolds` and
`SizesAreOwnHolds`. The first two take `TableAssumption`: only the last line of a file
may lack its newline, what a line says is text (never `NULL`), no end point weighs less
than nothing, the numbers in `Ranges` and `Pause` are natural, and keys wrap at some
`Wrap` above 0.

- `TableInv`: there is a table only in a program that has one, and then its vector is
  sorted by the first key and every bucket has whole end points (`IsTable`). The sort
  keeps what was in the block and puts the least first (`SortedTo`), so adding a bucket
  keeps it. From there the search: `Narrowed` leaves less each time (`Closing`) and,
  where buckets do not overlap, throws away only such as do not have the key
  (`Outside`); so after as many steps as there are buckets it has found the one that
  does, or there is none (`PlaceFinds`). `FairShare` counts the draws: those that fall
  to an end point are an interval as long as its weight (`DrawnIs`, `SharesAre`).
- `FileInv`: the file is a file (`IsFile`), and each setting that has a default is above
  0. A line that gives its name to the listing has that name as a key, so `getValue()`
  finds it, or a later one of the same section (`KeysHaveValues`).
- `UidInv`, which needs no assumption: the list has mails of this session's mailbox, each
  with its number and in their order (`IsUids`). `Sized` and `NewOnes` are the two parts
  of the property, over the block of memory. After n lines of the listing all items up
  to number n have their size, unless `find()` has given it to the last for want of a
  right one (`SizesTo`); the order makes that the last item and no other.

The loops are recursive functions. As the library's induction cannot be instantiated,
that each loop has the values its equation says is shown by an own induction over a set
of numbers (`UpTo`; `SortExists`, `PlaceExists`, `WeightsExist`, `UidsExist`,
`SizesExist`, `TableExists`), and what it computes by a second one.

Model-checked only:

- Liveness (`EverybodyReturns`, `TimedCallReturns`, `ServesThenStops`,
  `GroupLivesAndEnds`): fairness and ENABLED are outside what TLAPS proves.
- `HttpTalk`: what its readers make of a message is the value of folds over all that
  was sent (`Gathered`, `Framing`, `fixRespHeaders`), each of which would need its own
  induction over data, as `MailClientProofs` has for one. Its `TypeOK` is left to the
  run with them.
- `KeepsPromise`: that each container implements `ListSpec` needs the values of the
  walks over pointers, of `FlattenSeq` over the buffer and of the promised sort, each
  for every content. Of the vector's part, `EndPointTableProofs` has what growing and
  sorting keep (`AppendedIs`, `SortedIs`).

## Not modelled, and why

- Pure functions (hashes, encodings, strings, time) and wrappers of system calls
  (files, portability, getopt) hold no state, and unit tests reach them.
- TLS, connecting, polling and timeouts as such are OpenSSL's or the system's; the
  models take every outcome of theirs.
- Bytes that no property tells apart: the text of commands, URL encoding,
  parameters, the contents of macros and of cached items.
- Cuts within a chunk's size line or a byte of content: the first reads as another
  number, the second does not exist.
- Lines longer than the socket's buffer, and `probe()`.
- An endpoint table shared by threads: nothing locks it, and nothing in the
  repository shares one.
- `SP_NKLog`'s other outputs, `initDaemon()`, `BatchDump()`, `dump()`.

## Plan

Done: `TokenLock` with `FifoLock`, `Server`, `SocketPool`, `Prefork`, `SmtpClient`,
`Pop3Client` with `DotTermReader` and `Pop3UidList`, `MemClient` over `SocketPool`,
`HttpTalk` with ICAP, `MilterClient`, `FileLog`, the containers, ini files and the
endpoint table.

Next: `setOpts()` while threads log; long lines in `readline()`.

Related questions share a run: one per component, over a configuration where all
of its actions happen.
