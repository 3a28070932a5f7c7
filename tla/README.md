# Verification of small-works

`small-works` is a collection of small C++ network programs: a TFTP client and
server, a thread pool, a chat room, an HTTP server and a dictionary.  This
directory holds TLA+ models of their state machines, TLC runs that check them
on small instances, and TLAPS proofs of the properties that matter most for
every instance.  Source paths below are relative to `src/`.

## 1. The system

| component | source | state it keeps | operations | who it talks to |
|---|---|---|---|---|
| TFTP client | `TFTP/tftp_client/src/tftp_client.cpp` | one UDP socket for the life of the process; per transfer: the peer's address once locked, the expected block, the last packet sent, a retry count, the local file | `doDownload`, `doUpload`, `run` (menu) | TFTP server, by datagrams |
| TFTP server | `TFTP/tftp_server/tftp_server.cpp` | the request socket; per session: a connected socket, the opened file, block numbers, the last packet, a repeat count | `run` (accept a request), `work` (thread), `doReadRequest`, `doWriteRequest`, `sendErr` | TFTP clients; the sessions share the files on disk |
| Thread pool | `ThreadPool/ThreadPool.cpp`, copied into the chat server and the dictionary | queue, stop flag, mutex, condition variable, worker threads | constructor, `addTask`, worker loop, destructor | its owner |
| Chat server | `ChatRoom/ChatRoomServer/src/ChatRoomSer.cpp` | list of logged-in clients under `client_mutex`; a pool of ten workers | `run` (accept), `handleClient` (LOGIN, CHAT, QUIT, disconnect), `broadCast` | chat clients over TCP, the pool |
| Chat client | `ChatRoom/ChatRoomClient/src/ChatRoomClient.cpp` | socket, `is_running` shared by the input loop and a detached receiver | log in, send, receive, leave | chat server |
| HTTP server | `HTTP/http.cpp`, `handle.cpp`, `main.cpp` | per connection: a detached thread, the request line, the header, the body | `main` (accept), `msg_handle`, `get_line`, `clear_header`, `handle_request`, `handle_login` | browsers over TCP |
| Dictionary | `Dictionary/database_manager.cpp`, `server.cpp` | two SQLite databases (users with an on-line flag and a history; words), one mutex each | register, log in, log out, query, record and list history, import | threads of `server.cpp`, which has no handlers yet (they are called without arguments and not defined); `main.cpp` only initialises |

What is hard in it:

* **TFTP.**  Datagrams are lost, delayed, reordered and doubled; both ends time
  out and repeat themselves on their own; a repeated request starts a second
  session; the client keeps one socket, so datagrams of an old transfer reach
  the next one; block numbers are 16 bits on the wire, `int` in the download
  session and `uint16_t` in the upload session; sessions for one name write the
  same file on the server.  Correct means: the file arrives whole and in order,
  success means delivered, every call and every session thread ends.
* **Thread pool.**  Workers sleep on a condition variable that is notified after
  the mutex is released; the destructor stops, wakes and joins them.  Correct
  means: every task runs exactly once in order, no wakeup is lost, the
  destructor drains the queue and returns.
* **Chat room.**  One worker per connected client, a list changed by one handler
  while another broadcasts over it, descriptors closed while they are in use.
* **HTTP.**  A stream arrives in any pieces and may end or be reset anywhere;
  `get_line` returns 0 for a blank line and for the end of the stream; a thread
  gets its descriptor by address and starts when others have come and gone.
  Correct means: the answer is the one that a reading of the whole request calls
  for, it goes to the right connection, and every thread returns.
* **Dictionary.**  A login is two statements; who is online is on disk; the
  import is a statement per line; the program may end between any two.  Correct
  means: of two logins of one user with no logout between them one fails, nobody
  is locked out by a crash, every word is there once.

`PROJECT.json` lists each hazard at its line with the properties that would
catch it.

## 2. Modules

| module | models | code |
|---|---|---|
| `TftpNet` | datagrams and the UDP network: any order, any delay, up to `MaxDups` doubled | sockets (external), packet layouts |
| `FileTransfer` | the abstract transfer: a copy that grows block by block, success only with all of it | what `doDownload` and `doUpload` promise |
| `TftpDownload` | client loop, request loop, download sessions | `doDownload`, `run`, `doReadRequest` |
| `TftpUpload` | client loop, request loop, upload sessions, stream buffers and the disk | `doUpload`, `work`, `doWriteRequest` |
| `TaskPool` | the abstract pool: tasks start in order, once each, and none is left when it closes | what a pool's owner relies on |
| `ThreadPool` | the pool and the thread that owns it | `ThreadPool.cpp` |
| `ChatRoom` | accept loop, handlers, list of clients, descriptor table, TCP streams, what clients do | `ChatRoomSer.cpp`, `sendMsg` |
| `HttpService` | the abstract server: one answer per request, the right one, to the whole of it | what a browser relies on |
| `HttpServer` | accept loop, a thread per connection, streams, descriptors | `http.cpp`, `handle.cpp`, `HTTP/main.cpp` |
| `Dictionary` | start and import, logins of several callers, what is on disk, crashes | `database_manager.cpp` |
| `MCTftpDownload`, `MCTftpUpload`, `MCHttpServer`, `MCDictionary` | constants for TLC | |
| `TftpNetProofs` | lemmas on packets, block numbers and the network, for both transfers | |
| `TftpDownloadProofs`, `TftpUploadProofs`, `ThreadPoolProofs`, `ChatRoomProofs`, `HttpServerProofs`, `DictionaryProofs` | theorems | |

`FileTransfer` is instantiated by both transfer modules with a refinement
mapping (`Abstract`).  The wire (`net`) is a set of datagrams.  A packet is a
record with its opcode, the server-side port it is from or for (`tid`), and its
block number; the 512 bytes of data are the pair *<<file, position>>*.  A
datagram that is lost is one that is never delivered: no fairness is asked of a
delivery, so loss needs no action.

`ThreadPool` implements `TaskPool` (`Promise`).  `ChatRoom` has no mutex or
condition variable of its pool: it keeps the queue and the client that each
worker has in hand, and starts tasks in the order, once each, that `ThreadPool`
is shown to keep.  That is an assumption of `ChatRoom`, not a property of it.

**State.**  Every variable has the name of the program's variable, or says
which it stands for.  In `TftpDownload`: `status`/`peer`/`expectedBlock`/
`lastSent`/`retryCount`/`file` are the locals of `doDownload` (`peer = None` is
`hasPeer == false`); `spc`/`sfile`/`nextBlockNum`/`finalyBlock`/`repeat`/
`lastBlock` are the locals of each `doReadRequest`, as functions of the session.
`waitForFinaly` is `finalyBlock # 0`.  In `TftpUpload`, `wrote` is what a
session has given to its `ofstream`, `flushed` how much of it has reached the
file and `disk` the files: the buffer may be written out at any write.  In
`ThreadPool`, the threads' positions are `opc` (owner) and `wpc` (workers).  In
`ChatRoom`, `table` is the process's descriptor table, `cfdOf` the number that
each handler's closure holds, `clients` the vector of logged-in clients,
`hconn`/`hpc`/`hmsg` the connection, the position and `clientMsg` of each
handler, `hsock` the connection that its `recv` is blocked on.  In `HttpServer`
the locals of a connection's thread are functions of the connection it was
started for (`sock`, `countlen`, `request_buf`; `line` says whether `buf[0]` is
not `'\0'`, `argv` is the `int` that `main` allocates), and what it reads and
sends goes through `table[sock]`, which need not be that connection if the code
is wrong.  A request is a sequence of pieces: a request line (its method, and
whether its page exists and has a query, is one piece), header lines, `CR`,
`LF`, parts of a body.  In `Dictionary`, `user`, `history` and `dict` are the
tables, on disk, and everything else is lost in a crash; `holds` is the name
each caller was told it is logged in as.

**Actions.**  A receive ends in a datagram or in a timeout, and a timeout may
come whatever is in flight, which covers every timing.  Each branch of the two
loops is one action: the names are `RecvExpected`, `RecvPrevious`, `AckNext`...
System calls that can fail do (`ClientFails`, `AcceptFails`, `SessionFails`,
`BeginFails`, `ExpectedFails`, `SessionAborts`, and the unchecked close of the
stored file, `CloseStream`; the exceptions are in section 5); a receive and the send that
answers it are one step, because nothing else reads the state between them.
The thread pool is cut finer, at each access to shared state.  The chat server
is cut at its system calls and at the critical sections of `client_mutex`, each
of them one step.  TCP is modelled by what the handlers can tell: `recv` returns
any part of what has arrived, 0 at the end of the stream or an error; a send to
a client that has left succeeds at first, then fails or raises SIGPIPE.
In `HttpServer` a call of `get_line` is one step, taken when its result is
determined (only its thread reads the stream), each turn of the header loops and
each `recv` of a body is one, and the sends of an answer are one, which may end
after the header when the page cannot be opened or sent (`Respond`).  In
`Dictionary` an SQL statement is one step; `loginUser` is two, with `usr_mutex`
held between them, and fails at either.

**Mutants.**  Next to some actions stand variants with one plausible bug, marked
as such and used by no specification: each is there to show that a property
notices that bug.

## 3. Runs

| run | instance | question |
|---|---|---|
| `Download` | 1 download of 3 blocks, 2 sessions, `MaxRetry` 1, `MaxRepeat` 0 | `ImplementsTransfer`: what the user asked for is copied block by block and success means all of it.  `StopAndWait`: no session runs ahead, and only the peer gets past its first block.  `OverMeansDelivered`: a session that says the transfer is over has a client that succeeded.  `TransferReturns`, `SessionsEnd`: both sides return |
| `DownloadAgain` | 2 downloads, of a 1-block and a 2-block file, 2 sessions | `FileIntact`: leftovers of the first download never mix two files' blocks |
| `DownloadCrosstalk` | same instance | violated: *finding 1* |
| `DownloadWrap` | 4 blocks, numbers modulo 3 | violated: *finding 2* |
| `Upload` | 1 upload of 2 blocks, the last one short or empty, 2 sessions | `SessionIntact`, `OkMeansReceived`, `ImplementsTransfer`, `UploadReturns`, `SessionsEnd`.  `StoredUnlessShared`: under a name of its own the disk has what the session has written out, a beginning of the file; all of it after a normal end, if the close wrote all |
| `UploadStored` | 1 file, 2 sessions | violated: *finding 3* |
| `ThreadPool` | 3 workers, 4 tasks, 1 spurious wakeup, stop at any time | order and uniqueness of tasks, lost wakeups, drain and termination, `ImplementsTaskPool`; deadlock is checked |
| `Chat` | 2 connections, 2 workers, 2 descriptor numbers, 3 messages in all, of 2 words each, `recv` of up to 3 words | `ListedAreOpen`, `ListedAreServed`: no entry outlives its descriptor or its handler.  `AtMostOnce`, `HeardInOrder`, `OwnDescriptor`: nobody hears a message twice, out of order or from a connection that is not the handler's (the last two as long as nobody sends QUIT).  `MembersOnly`: only connections whose LOGIN was received are listed or sent anything, QUIT and reused numbers included.  `Forgotten`: a client that left is taken off the list |
| `ChatBroadcast` | same instance | violated: *finding 4* |
| `Http` | 2 connections: one with any of 9 streams (GET, GET with a query, PUT, POSTs with a right, a wrong and a short login and one with the password first, POST to a missing page, lines ended by `LF`), one whose line ends in `CR` | `ImplementsService`: line by line, the answer is one that `HttpService`, which reads the request as a whole, allows: the right page or its header alone, and nobody in with a password other than the name; no login is decided on a part of a body; nobody who stays is closed unanswered.  `OwnSocket`: a thread serves its own connection, and an open descriptor has a thread to close it.  `ReadBeforeAnswer`: the header is read before anything is sent.  `HandlersReturn`: threads return |
| `Dictionary` | 2 users, 3 passwords (two of one number), 2 callers, 3 lines with a word twice, 2 crashes | `OneHolder`: of the callers whose name and password were found, one at a time is logged in as a user.  `OnlineExplained`: nobody is locked out by a crash.  `DictOnce`: the words are a beginning of the file, and all of it unless an import was cut.  `Kept`: accounts, history and words stay.  Deadlock is checked |
| `DictionaryLogin` | same instance | violated: *finding 5* |

**Bounds.**  Three blocks give a first, a middle and a last block; two sessions
are the peer and the one that a repeated request starts, and a third would be a
second stranger.  The limits on retries are 3 in the code; with 1 and 0 both a
retransmission and a give-up happen, and `repeat <= MaxRepeat` still gives the
session one resend.  Since a resend puts the same datagram on the wire again,
duplication is present even with `MaxDups = 0`; the proofs cover any `MaxDups`.
`Modulus` stands for 2^16: 8 is never reached by three blocks, 3 is passed by
four.  Four tasks with three workers make the queue longer than the pool.
Two connections and two workers are enough for every pair of steps of two
handlers, and three messages for a client that logs in and quits while another,
given its number, logs in: two handlers then read one connection.  Two words a
message and three a `recv` keep what 142 and 144 bytes do: a receive may end
inside a message or run into the next one.
HTTP connections share the table of descriptors and nothing else: two show a
number that is given out again, and one of them may take a single way.  A body
of two parts, or one announced of two, is enough for one received in portions,
cut short or longer than announced.  Two crashes let an import be cut and the
next start be cut again; starts that fail are not bounded.
The TFTP, chat and HTTP runs do not check deadlock: when the transfers are done
and every session has ended, when no client has anything more to say, or `main`
has returned, the system has stopped.  In `ThreadPool` the end is an
explicit stuttering step, so that any other stop is a deadlock.

**Fairness.**  Weak fairness of `ClientStep` and of each `SessionStep`: the
sockets have a receive timeout of 5 s (`tftp_client.cpp:25`,
`tftp_server.cpp:126`), so a loop always takes another step.  None for the
network, for the acceptance of requests and for the user.  In the pool, weak
fairness of each thread's own steps (a task returns, a thread that can take the
mutex eventually does); none for adding a task, for calling the destructor and
for spurious wakeups.  In the chat server, weak fairness of each handler and of
accepting; none for the clients.  In the HTTP server, weak fairness of each
connection's thread: it is scheduled, what was sent arrives, and answers fit the
sockets' buffers; none for the browsers and for `accept`.

### Findings

1. *Crosstalk between downloads* (`tftp_client.cpp:172`).  The peer is whoever
   sends the first datagram.  After a failed download a late block of it locks
   the old session; its file is stored under the new name and reported complete.
2. *A download of more than 65535 blocks never ends* (`tftp_server.cpp:257`).
   `nextBlockNum` is an `int` and `ackBlock` 16 bits wide; past the wrap every
   ACK looks old and the same block is sent for ever.
3. *A repeated upload request empties the stored file* (`tftp_server.cpp:337`).
4. *A client that has left ends a broadcast, or the server*
   (`ChatRoomSer.cpp:126`).  Clients listed after it do not get the message; a
   second send to it raises SIGPIPE, which nothing in the program handles.
5. *A wrong password logs in* (`database_manager.cpp:202`).  `SQLITE_DONE` is also
   what a select without rows returns, so the login of a user who is online,
   with another password, succeeds, without any logout.

Of three more the models have the behaviour, and the properties allow it, so that
no run shows it as a violation:

* *An upload of n*512 bytes never completes* (`tftp_server.cpp:391`).  The comment
  above says that packets shorter than 4 bytes are dropped, `ret<=4` drops the
  empty last block as well (`RecvShort`).  Run `Upload` has such a file: client
  and session return, without success.
* *A stored file may be cut though its upload was reported complete*
  (`tftp_server.cpp:467`).  The last ACK goes out before `file.close()`, which
  writes the rest of the buffer (all of a small file) and is not checked: on a
  full disk the session ends normally with a part of the file (`CloseStream`).
  `StoredUnlessShared` and `UploadStored` therefore speak of the whole file only
  when the stream was written out.
* *A right login with the password in front is refused* (`handle.cpp:15-18`).  The
  name is compared with everything behind `password=`, the name's own field
  included.  `HttpService` promises the form of `login.html` only (`Logins`), and
  in any order that nobody is let in with a wrong password.

QUIT is handled by the server and sent by none of the project's clients.  With
QUIT a handler goes on using a number that it has closed (lines 97-112): the run
shows that the list stays sound even then, but `OwnDescriptor` and
`HeardInOrder` are stated for rooms where nobody quits.

`HandlersReturn` excepts `Spins`: a POST whose header is cut by the end of the
stream after one of its lines.  There `get_line` returns 0 and leaves the buffer
as it was, the loop of `http.cpp:244-258` looks at the buffer only, and its
thread runs for ever and keeps its descriptor.  `clear_header` is right.

`OneHolder` is about the mutex and the two statements: it counts the callers whose
name and password were found (`invited`), and excepts names that are `breached`,
which a caller let in by *finding 5* has logged out while the real user was
logged in.  It does not say that one caller at a time is logged in as a user:
that is `OneLogin`, which fails.  Also, `password int` makes the texts of one number
one password (`AsStored`), and a client that disconnects stays online until the
next start (`left` in `OnlineExplained`).  `DictOnce` excepts an import that was
cut short (`cut`), by a crash, a failing statement or a read error of `dict.txt`,
which the loop of line 100 takes for the end of the file: what is in the table is
served, by the next start as well; and a failing count serves an empty table.

## 4. Proofs

Each proof module has the theorems of one model module, for every value of its
constants that the model's own assumption (`HttpAssumption` and so on) admits.
The two TFTP modules share the lemmas of `TftpNetProofs`.  Further hypotheses
are named constant formulas, and a theorem that needs one says so:

* `SmallFiles`: files have fewer blocks than `Modulus`.  Without it *finding 2*
  applies, and a block that the network kept through a whole turn of the numbers
  could be taken for a new one.
* `OneDownload`, `OneUpload`: the client makes one transfer (`MaxTransfers` = 1),
  with any number of sessions, retries and duplicates.  With a second one, late
  datagrams of the first reach it and are acted on (*finding 1*).
* `BlanksAreBlank`: in the streams of the browsers a line that begins with `CR`
  is the blank line behind the header.  `WellMade` adds that a stream begins
  with a method and announces at most one length, on a line of its header.
  Streams may still be ill formed (no header's end), cut anywhere, or longer
  than announced; the streams of run `Http` satisfy both.

**Download.**  `TypeCorrect` for any number of downloads: it is not inductive
alone, because a resent packet is well formed only as a client in its loop holds
a request or, with a peer, an ACK (`SenderInv`), and a block that a session
sends exists as its counters stay within its file (`ServerInv`).  `FileIsIntact`
(`SmallFiles`, any number of downloads) adds that every DATA packet in flight
carries the block of its session's file under its own number, and that the
client expects the block after the last it has written.  `OneBlockAhead`,
`OverIsDelivered` and `IsTransfer` (`SmallFiles`, `OneDownload`) rest on
`PaceInv`: every ACK in flight is to the client's peer and of a block that has
been written, and an ACK of the last block was sent by a client that returned 0.
So a session that moves on is the peer, one block ahead at most, and the
refinement of `FileTransfer` follows step by step: a received block is
`CopyBlock`, an end is `Finish` or `Fail`, everything else is not seen.

**Upload.**  `TypeCorrect` for any number of uploads, wrap-around and all.
`WrittenInOrder`, `SuccessIsReal`, `StoredWhole` and `IsTransfer` (`SmallFiles`,
`OneUpload`) rest on `UploadInv`: an ACK in flight says what its session has
written; blocks in flight are for the peer alone, each under its own number, so
that no other session ever writes; a session has acknowledged all that it has
written and waits for the next block.  `StoredWhole` also needs `DiskInv`, which
holds of any number of uploads: what is on the disk under a name that one
session alone has opened is what its stream has written out.  The theorem does not say
that success means stored: a close that fails leaves less (`tftp_server.cpp:467`), so the
whole file is there under the hypothesis that the stream has written out all
that it was given.

**Thread pool.**  `TypeCorrect`, `TasksExactlyOnce`, `NoLostWakeup`,
`StopWakesAll`, `DestructorDrains`, and `PoolKeepsPromise`: every step of the
pool is a step of `TaskPool` or leaves it unchanged, so what holds of the
abstract pool holds of the real one.  The invariant says who holds the mutex at
each position, that a worker that is popping has copied the head of the queue,
and counts the awake workers.

**Chat room.**  `ChatTypes` adds to the types that a connection has at most one
task, queued or in one worker's hands.  `HeardOnce`: a message in somebody's
hands or inbox has had its first word received, from where it is never read
again (`MessageInv`); this holds with `QUIT`, reused numbers and messages cut
anywhere.  `OpenAndOnce`, `Served`: a number is closed only once it is in the
list, so until its own client's first message has been read nobody else can be
given it (`ListInv`).  `NumberIsOwn`, `OrderKept`: while nobody quits, a number
stays its connection's and one handler reads it (`OwnInv`).  `OnlyMembersHear`:
a number that is listed, or whose handler is about to list it, has nobody behind
it but a connection whose first message was received, also when QUIT has closed
it and `accept` has given it away (`HeardByMembers`, on top of `ListInv`).

**HTTP server.**  `TypeCorrect` and `OwnSocketOnly` for any streams: a
descriptor belongs to one connection and one thread, the one that was given its
number or the one that has read it (`Owned`).  `HeaderReadFirst`
(`BlanksAreBlank`): while its client is there, a thread in the loops over the
header stands behind the end of a line, so that the blank line it stops at is
the first one.  `ServiceKept` (`WellMade`): the server implements `HttpService`, for bodies whose
fields come in either order and for answers that stop after their header.
Its invariant, `ServiceInv`, says at each place of a thread what it has read and
what it made of it: in the header, that the blank line is still in front, never
cut between its `CR` and `LF` (`AtStart`), and that `countlen` is what the lines
so far announced (`Counted`); in a body, that the buffer is the part of the
request behind the header (`InBody`); or else that the end of the stream has
been found and the request is short, now and for ever (`Cut`).

**Dictionary.**  `TypeCorrect`, `OneHolderOnly`, `NobodyLockedOut`: a caller
between the two statements of `loginUser` has a row that is offline, because
whoever would change it has to take the mutex (`StepInv`).  `WordsOnce`: an
import has inserted the lines it has read, and one that was not cut has left all
of the file or nothing (`ImportInv`).  `StoredIsKept`: the action property.

**Only model-checked**: all liveness (`TransferReturns`, `UploadReturns`,
`SessionsEnd`, `EveryTaskRuns`, `DestructorReturns`, `Forgotten`,
`HandlersReturn`), which rests on fairness and ENABLED and is out of the
prover's reach.  Every invariant, action property and refinement that a passing
run checks is also a theorem, under the hypotheses named above.

## 5. What is abstracted or left out

* Errors that the programs do not look at when they read their source files: the
  first read of a download (`tftp_server.cpp:196`) and the reads of an upload
  (`tftp_client.cpp:378`) are taken for a short block; and the close of the
  downloaded file at the client.  In the models these do not fail.
* Contents, names, modes and message texts; packets that are not of the two
  programs' making.
* A download and an upload on one client socket: each module has one kind of
  transfer, so leftovers of the other kind are not seen.
* Session ports that the system gives out again: a session is used once.
* Several client processes: a session's socket is connected to its client's
  address, so clients only meet in the server's files.
* In the chat room: a `recv` that returns less than a message's type, buffers
  that fill (a send never blocks), the failure of a peer's host, and the two
  threads inside a client.
* In the HTTP server: lines, bodies and names longer than their buffers, request
  lines cut inside a word or without a version, pages that change while they are
  served, the write of `handle.cpp:15` in front of the buffer when a password
  comes first (taken to change nothing), a thread that cannot be created, and answers lost on the way: a POST
  answered 404 or 405 leaves its body unread, and closing the socket then resets
  the connection.  `accept` may fail at any time, and ends the server as it does
  in the code.
* In the dictionary: `getHistory`, which only reads; statements that fail without
  leading anywhere else; the handlers, which do not exist.  The callers log in
  and out as the messages of `message.hpp` suggest.
* The chat client's two threads and the flag between them (planned); build
  output, pages, images and word lists.

## 6. Plan

1. Done: `TftpNet`, `FileTransfer`, `TftpDownload`, `TftpUpload`, `TaskPool`,
   `ThreadPool`, `ChatRoom`, `HttpService`, `HttpServer`, `Dictionary` with their
   runs.
2. Done: every invariant and action property of these modules, and the
   refinements of `FileTransfer`, `TaskPool` and `HttpService`, as theorems.
3. Several transfers on one socket: the part of `StopAndWait` and
   `SessionIntact` that crosstalk leaves true, and its proof.
4. The chat client's two threads and the flag between them.
