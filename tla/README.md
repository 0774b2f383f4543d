# c-socket: a verification project

c-socket is a collection of small C programs about sockets and threads: echo
servers that fork, block, poll or multiplex with `select`, `poll` and `epoll`,
their clients, line and packet I/O over TCP, calls with timeouts, and a bounded
buffer between two threads. This directory holds TLA+ modules for the programs
whose behaviour depends on interleavings, their TLC configurations, and TLAPS
proofs. All paths below are relative to the repository.

## 1. Inventory

| Component | State it keeps | Operations | Interacts through |
|---|---|---|---|
| bounded buffer, `multithread/threads_producer_consumer.c` | ring `buffer`, `readpos`, `writepos`, a mutex, two condition variables | `put`, `get`, `producer`, `consumer`, `main` | shared memory, condition variables |
| line I/O, `helper.c` (six identical copies) | `readline`'s buffer position, the socket's receive queue | `readn`, `writen`, `recv_peek`, `readline` | blocking or non-blocking sockets |
| select server, `9select2/echoser_select.c` | `client[]`, `maxi`, `maxfd`, `allset`; per round `rset`, `nready`, `i` | the main loop | listening socket, connections |
| poll server, `12maxconn_poll/echoser_poll.c` | `client[]` (fd, events, revents), `maxi`; per round `nready`, `i` | the main loop | the same |
| epoll server, `13epoll/echoser_epoll.c` | the epoll instance; per batch `events[]`, `nready`, `i` | the main loop | the same, non-blocking |
| timeouts, `11sysutil/sysutil.c` | O_NONBLOCK on the socket, `select`'s `timeval` | `read_timeout`, `write_timeout`, `accept_timeout`, `connect_timeout` | `select`, signals |
| select clients, `9select1/echocli.c`, `9select2/echocli.c`, `10shutdown/echocli.c` | `buf`, stdio's buffer, which sides are shut | the main loop | stdin and one connection |
| non-blocking server, `8nonblockio/tcpserver.c` | `peers[]`, `peerLen` | accept, greet, `recv`, `ok` | connections, no blocking call |
| forking servers: `5readn_writen`, `4fork`, `6readline`, `9select1`, `12maxconn_poll/echoser_fork.c`, `15unixdomainsock/echoser_unix.c` | a child per connection, each with a `recvbuf` | `accept`, `fork`, `close`; the child reads a message and writes it back, by `readn`, by `readline` or by plain `read` | processes share only the listening socket |
| their clients, `echocli.c`, `echocli_unix.c` | one line and its echo | `fgets`, write, read, print | one connection |
| chat, `4fork/serfork.c`, `clifork.c` | two processes a side | a child sends what is typed, its parent shows what arrives; SIGUSR1 at the end | one connection, a signal |
| UDP echo, `14udp/echoser_udp.c`, `echocli_udp.c`, `echocli_udp_connect.c` | the last datagram and its sender | `recvfrom`, `sendto` | datagrams |
| counting threads, `multithread/multithread.c` | `number`, a mutex, the shared loop counter `i` | `main` creates and joins, two threads count | shared memory |
| the rest (`3echo`, `7gethostbyname`, `14udp/udptest.c`, `15unixdomainsock/socketpair.c` and `unlink.c`, `base`, `mysocket_py`, `test_py`, the other thread samples) | none, or one connection | one loop of calls | - |

What is hard here: `put` and `get` give the lock up in their middle; servers use
readiness, counts and table slots after other sessions have changed the
world; descriptors and slots are used again within the round that freed them;
TCP cuts lines anywhere while `readline` peeks and reads in two calls; helpers
written for blocking sockets run on non-blocking ones; `select` is interrupted
and restarted under a timeout; a call's early return leaves a flag set for
the next one; datagrams are lost, and the server with its queue; two threads
overwrite each other's loop counter. What makes each component correct:

- the bounded buffer is a FIFO queue, nobody touches a full or empty buffer, no
  wakeup is lost and the program ends;
- `readline` delivers the stream cut after each newline, whatever arrives when;
- the servers' tables agree with the kernel's, readiness still holds when it is
  used, each client gets its own bytes back in order, and nobody is forgotten;
- a client of a forking server prints what was typed, and waits for no one for ever;
- the two sides of a chat show each other's text, in order, and end together;
- a UDP client is never out of step, however many datagrams are lost;
- both threads' work is counted in full before `main` ends;
- a call with a timeout ends in time and reports what happened.

PROJECT.json lists every component, and every hazard at its line.

## 2. Modules

| Module | Models | Kind |
|---|---|---|
| `BoundedFifo` | what a bounded buffer promises: `Put`, `Get`, in order, at most `Capacity` | abstract |
| `ProducerConsumer` | the two threads, the mutex and the condition variables | detailed |
| `LineReader` | what `readline` promises its caller | abstract |
| `Readline` | `readline`, `recv_peek`, `readn`, one system call a step | detailed |
| `Kernel` | listening queue, descriptor table, connections, and the clients | environment (external, except the clients) |
| `LineIO` | `readline` and `writen` as steps of a server | extends `Kernel` |
| `LineIOProofs` | what every step of `Kernel` and `LineIO` keeps, and what `readline` and `writen` owe a client | proofs |
| `SelectServer`, `PollServer`, `EpollServer` | the three main loops | extend `LineIO` |
| `SelectServerProofs`, `PollServerProofs`, `EpollServerProofs` | theorems about them | proofs |
| `NonblockServer` | the loops of `8nonblockio`'s server and client | extends `Kernel` |
| `NonblockServerProofs` | theorems about it | proofs |
| `ShutdownSession` | the clients that select on stdin and socket, in a session with the select server | composes `SelectServer` with the client |
| `ShutdownSessionProofs` | theorems about it, on those of `SelectServerProofs` | proofs |
| `EchoService` | what the forking echo servers and their clients promise a user | abstract |
| `ForkServer` | the forking parent, its children, the clients, in four programs | detailed |
| `Timeouts` | the four calls with a timeout | detailed |
| `Chat` | the four processes of a chat and their connection | detailed |
| `UdpEcho` | the UDP server, its two clients, a network that loses | detailed |
| `Counters` | the counting threads, each load and store a step | detailed |
| `ProcessProofs` | theorems about `ProducerConsumer`, `Counters` and `ForkServer` | proofs |
| `SocketProofs` | theorems about `Readline`, `Timeouts`, `UdpEcho` and `Chat` | proofs |
| `MCSmallPrograms` | `Timeouts`, `Chat`, `UdpEcho` and `Counters` side by side | model checking |
| `MC...` | instances for TLC | model checking |

### How state and actions correspond to the code

`ProducerConsumer`: `pc[t]` is where a thread is in `put` or `get`: outside, at
the test, waiting, re-locking, at the access, at the signal, before the unlock.
`Lock`, `Wait`, `GoOn`, `Relock`, `Write`/`Read`, `Signal`, `PutReturns`/
`GetReturns` are the statements between two points where the scheduler can
matter. `buffer`, `readpos`, `writepos` are the struct's. `producer` puts the
numbers 0, 1, ... and then OVER (the comment at line 66 says 1 to 10000; the
loop counts from 0 to 9999); `Items` stands for 10000.

`Readline`: one action for the peek, for each `read` of `readn`, and for what
`readline` does with its result. A byte is a newline or not. The caller calls
again until it gets 0 or -1, as every caller does.

`Kernel`: what no file of the repository contains. A connection is queued by
`listen`, then open behind the lowest free descriptor, then closed. Each
direction holds `SOCKBUF` bytes. Clients connect, send their stream a byte at a
time, read echoes, close or reset, in any order and at any time. An operation on a
reset connection fails once with the error; after that, reads see the end of
the stream and writes fail.

`LineIO`: one round of `readline`'s loop is one step, because no one else reads that
socket (`Readline` takes the round apart; what was peeked is there when it is read, or
`CallsEnd` would fail at the `exit`). `line` is `recvbuf`. A line that just fills
`recvbuf` has no NUL behind it, and `strlen` runs on: `AsString` lets a byte of what
follows be echoed, or none.

`SelectServer`, `PollServer`, `EpollServer`: `pc` says where in the loop the
process is; `Select`/`Poll`/`EpollWait`, `Accept`, `Scan`/`Input`, `ReadMore`,
`ReadDone`, `ReadError`, `Close`, `Echo`, `EchoFails` are the parts of the body
between two calls that may block or fail. The variables of a round are reset
when the round ends, since the code does not use them across rounds. In
`PollServer`, `polled` tells which `revents` the last poll has written: the
array is not initialised, and reading another entry is a choice of both values.
`EpollServer` gives the events of a batch in any order, as the kernel may.

`NonblockServer`: `Accept`, `Refuse`, `Greet`, and for one slot a step `Skip`,
`Recv` and `Answer`, `RecvNothing` or `RecvError`. `turn` is where each client is
in `tcpclient.c`: it reads the welcome, sends a line, reads an answer. `SendTo` is
`send` with all its ends: sent, dropped for lack of room, failed, SIGPIPE.

`ShutdownSession`: the server's actions are `SelectServer`'s; in place of `Kernel`'s
clients stands the loop of `echocli.c`, call by call: `SelectBoth`, the
rounds of `readline` (`EchoPart`, `EchoLine`, `EchoEnd`), `fgets` (`FgetsLine`,
`FgetsReads`, `FgetsRest`, `FgetsNull`) and of `writen` (`WritePiece`). `typed`, `stdio`,
`fetched` and the kernel's `sent` say how far the input has come. `shuts` says
whose loop it is: `10shutdown`'s, which shuts its side down at the end of its
input (`ShutDown`), or `9select1`'s and `9select2`'s, identical files, which
`continue` (`GoOn`). Assumed: lines shorter than the buffers
(`SessionAssumption`).

`ForkServer`: the six parents are the same call by call, and `program` chooses how
a message is read: a packet by `readn` (`5readn_writen`), a line by `readline`
(`6readline`, `9select1`), or what one plain `read` takes (`4fork`, `12maxconn_poll`;
`15unixdomainsock`, whose child writes back a string and not what was read). `Takes` is
what a read may take of the bytes on the wire, `IsWhole` whether it ends the message: the
only two places where the programs differ before the end of a session, but for full
buffers. A plain `read` may take
`MAXLINE` bytes (1024). Then no NUL ends the string in the buffer, and what takes it for
one runs on behind it: `fputs` in both plain clients (`ClientReadsFull`), `strlen` in the
child of `15unixdomainsock` (`ChildReadsFull`). What lies there up to a NUL is one
byte `Beyond`, or nothing. `ppc` is where the parent is between `accept`,
`fork` and `close`, `child` and `client` where the others are. A step moves the
bytes of one `read` or `write`; `recvbuf` and `sendrecvbuf` hold what has come, or
what is left to write. A byte of a packet's length is the length itself. `output` is
all that a client has printed, and `owed`, a history variable, what it must print: all
that was typed into it, with the bytes of overruns where they were put in. `Held` and
`Listening` say who still has a copy of a socket, which decides when TCP tells
the other side that it is closed. Assumed is what `fgets` guarantees of a line: it is
neither empty nor as long as the buffer, and a '\n' in it is its last byte
(`ForkAssumption`). When the server has closed, the clients of the first two programs end
(`ServerClosed`), those with plain `read` and `write` look at no result and go on
(`GoesOnUnaware`). A failing `accept` or `fork` ends the parent (`AcceptFails`, which may
but need not happen, and `ForkFails`); the children live on.

`Chat`: on each side `sender` is the child and `receiver` the parent. A message is
the whole of `sendbuf`, text and NULs (`ChatMessage`); a read takes any part
of what has arrived, and `Shows` is what `fputs` makes of it. A side's
connection is closed when both its processes have ended (`HangUp`): the other
side then finds the end of the stream, or an error if bytes were left unread.
`Signalled` says when SIGUSR1 has been sent: after the end of the stream only.

`UdpEcho`: a datagram is a client and the number of its line. Each is put into the
receiver's socket or lost, at `Send` and at `SendTo`. `Crash` takes what the server
and its socket held; a datagram sent before `Restart` is refused, and `Refusal` says
that only a connected client learns of it. `Eintr` is the `continue` in the
clients that gives the echo up. `interrupted` and `lost` are history variables.

`Counters`: `i` and `number` are the globals; `reg` is what a thread has loaded of
one of them, to store it back with 1 added. `Create` may fail, and then `main` joins
nothing. `Lock` needs the mutex, `SetI`, `TestI`, `LoadI` and `StoreI` need nothing.

`Timeouts`: one process that makes calls one after another. `left` is the
`timeval`, which Linux reduces while `select` waits, `waited` the time that has
passed. `read_timeout` and `write_timeout` are one call here: they differ in the set.
`connect_timeout` may be called again on the socket of a call that timed out. `connect`
may fail at once, and a signal may interrupt one that blocks (`ConnectInterrupted`).

EINTR is a step that changes nothing wherever the code repeats the call; only
`Timeouts` has it as an action, since there the repeated call takes an argument
that changes. The plain `accept`, `read` and `write` of the forking programs are not
repeated (`echoser_unix.c` compares their results, and not `errno`, with EINTR), but no
signal can interrupt them: these programs install no handler.

## 3. Runs

| Run | Question | Instance |
|---|---|---|
| `producer_consumer` | Do the threads implement a FIFO queue, without deadlock, and end? | 3 slots, 7 items: the ring goes round twice, is full and empty at every position |
| `producer_consumer_spurious` | Is the test by `if` enough when a wait returns by itself? No: `AccessAllowed` fails | the same |
| `readline` | Does `readline` implement `LineReader`, and does every call return? | all streams of up to 6 bytes, buffer of 3 |
| `readline_zero` | Does 0 mean that the peer closed? No: also that the buffer is full | the same |
| `select_server` | Do table, sets and counts stay exact, and does each client get its bytes? | 3 clients, 2 descriptors, buffer of 3, sockets of 2 |
| `poll_server` | The same for poll, and is an uninitialised `revents` ever used? | 3 clients, 3 descriptors, table of 2 and the listening socket: it overflows |
| `epoll_server` | Does a batch stay fresh, and what ends the server? | 3 clients, 2 descriptors, array of 3 events |
| `nonblock_server` | Do slots follow the connections, and does every client that waits get its answer? | 3 clients, 2 slots, a line in two parts, two lines |
| `shutdown_session` | Does the half-close lose an echo, does the session end, and does the client without it print all it is owed? | a long line among short ones and a rest, sockets of 2 bytes |
| `fork_server` | Do packets, lines and raw bytes survive any cut, and is every client answered, even when `accept` or `fork` fails? | 2 clients, one silent; four lines of 3 bytes, one without newline; a length of 2 bytes; buffers and sockets of 4 |
| `small_programs` | `Timeouts`: are waits bounded, timeouts honest, refusals reported, sockets left blocking? `Chat`: is what is typed shown, and do all four processes end? `UdpEcho`: are answers in step, and missing only when lost? `Counters`: is the work done in full? | waits of 0 to 2 seconds; 2 lines a side in messages of 3; 2 clients, 2 lines, 2 crashes; loops of 3 |
| `timeouts_zero` | Is a call with wait 0 without a timeout? No: on a socket left non-blocking it times out at once | the same |

Deadlock is checked in the producer-consumer runs. In the others the system may
stop: clients and users owe nothing, a server may exit, the caller of `Timeouts` may have
exited, and the small programs end.

The four programs of `small_programs` do not interact: `program` says which one
runs, and the others keep their initial values, so that the states add up and do
not multiply. The run states the fairness of each as its own specification does.

`TypeOK` of `ProducerConsumer` and of `SelectServer` is proved (section 4), and no
run repeats it.

### What the properties say

*Bounded buffer.* `LockHeld`: the thread between lock and unlock owns the mutex.
`AccessAllowed`: `put` writes only when there is room, `get` reads only when
there is an item. `NoLostWakeup`: a thread waits only while its condition is
false or its peer is about to signal. `ImplementsFifo`: refinement of
`BoundedFifo`. `RunsToTheEnd`: `main` returns.

*readline.* `TypeOK` bounds the position in the buffer. `ImplementsLineReader`:
whatever the peeks and reads return, the caller gets `LineReader`'s lines.
`CallsEnd`: every call returns to its caller; with one reader none of the three
`exit(EXIT_FAILURE)` is reached.

*Servers.* `TableAgrees` and `WatchAgrees`: the kernel's table, the array and the
watched set hold the same connections. `NreadyExact`: the count that ends a round is
the number of ready descriptors not yet handled. `ReadinessHolds`: neither `accept`
nor the first peek of `readline` blocks. For the poll server it includes `ReventsSet`:
the scan never depends on an uninitialised `revents`. That rests on a fine point: a
new connection may lie behind all slots that poll has seen, and the scan does not get
there because the count ends it first. `SlotAlwaysFree`: "too many clients" is
unreachable in the select server, descriptors run out first. `BatchFresh`: no event of
an epoll batch goes stale, although the code closes descriptors before it removes
them. `EchoFaithful`: each client is given what it sent, in order, except the cases
the code really loses (a last line without a newline, a line longer than the buffer,
what follows a failed or refused write) or gets wrong (a line that just fills the
buffer). `NobodyStarves`: every connection is accepted and every complete line is
taken, provided the server is not blocked in one session for ever (a client with half
a line, or one that does not read, can do that). The epoll server cannot be held up so
(`NobodyHeldUp`); it exits instead, and `DeathExplained` lists the reasons.

*Non-blocking server.* `PeersAgree`: the slots hold exactly the open connections,
and one is refused only when they fill the table. `AnswersInStep`: a client that
waits for each answer never has two lines share one, nor one left over, if TCP does
not cut its lines. `NobodyWaitsForEver`: even if it does, no client waits in vain,
unless SIGPIPE has ended the server.

*Select clients.* `AllPrinted`: what is printed is what was typed, in order; and
when the client ends it has printed every complete line of its input, whenever
the input ended and whatever was on its way. `DoneUnlessStalled`: once its input
ends, `10shutdown`'s client does end, and the other prints all it is owed although
it spins from then on; unless a long line it writes meets the echoes of short
lines it has not read, and both processes block in `writen` for ever. This `Stalled`
is reached in the run. A client that closed both sides would violate the first
property (`BugClosesBoth`); `10shutdown`'s client without its half-close the second
(`GoOn`).

*Forking servers.* `ImplementsEcho`: refinement of `EchoService`. With packets and
lines a client prints each line unchanged before the next is typed; with plain `read`
and `write` it prints the same bytes in order, in pieces, perhaps behind. One
exception is real: a client that is behind by a buffer's worth may overrun its buffer, or
its child may, and print bytes that nobody typed (`Overrun`). The promise then is that
they come only to such a client, in plain programs only, and that no byte that was
typed is lost, doubled or moved. Both overruns are reached in the run.
`EveryoneAnswered`: no client waits for ever. When `accept` or `fork` fails and the parent
exits, the clients still queued are told so, because each child closes its
copy of the listening socket first; the run fails without that
(`BugListenfdKept`). Two waits are real and excepted: `Unfinished`, a line without
newline (the end of the input, or a line of more than `fgets`' buffer), for which
`readline` on either side waits; and `Jammed`, where a client that reads less
than it writes, line after line, ends with its child in two full buffers. Both are
reached in the run.

*Chat.* `ShownInOrder`: a side shows bytes typed on the other, in order, none twice,
and `fputs` never runs over the end of `recvbuf`; if each read takes one
message, it shows everything. A read that takes the end of one message and the
start of the next shows nothing behind the first NUL: that text is lost in
silence, which the property allows. `EndsTogether`: when both processes of a side
have ended, the other side's end; only a child whose parent died without the
SIGUSR1 (`Orphaned`) stays with its user. The premise needs both: if each user
just ends the input, both parents go on reading from each other, for ever.

*UDP.* `EchoesInStep`: a client prints the echoes of its own lines only, in order and
none twice, and until a signal interrupts its `recvfrom` it prints the echo of each
line before it sends the next. `AnsweredUnlessLost`: it waits for ever
only when its line, or the echo, was lost; a connected client is told when the
server was down.

*Counting threads.* `AllCounted`: when `main` ends, both threads have ended and `number`
is at least `MAX`, although either thread may set the other's loop counter back.
That the program ends is not claimed, and `number` may exceed twice `MAX`: a
stale `i` repeats steps.

*Timeouts.* `WaitBounded`: the time waited never exceeds the wait asked for, however
often signals interrupt it. `TimeoutHonest`: ETIMEDOUT is reported only after the
whole time, and only if what was waited for had not happened by then.
`RefusalReported`: a refused connection is never reported as made. `ConnectedBlocks`:
a socket that `connect_timeout` with a timeout reports connected blocks again,
whatever calls went before. `WaitsEnd`: each wait ends.

### Bounds

`BUFFER_SIZE` 3 for 16, `MAXLINE` 3 for 1024, `OPEN_MAX` 6 or 7 for 1024, `FD_SETSIZE`
6 for 1024, `TABLE` 3 and `MAXEVENTS` 3 for 2048, `MaxWait` 2, `Items` 7 for 10000,
`LENGTH` 2 for 4, `MESSAGE` 3 for 1024, `MAX` 3 for 10; `MaxNumber` 8 bounds how often
the counting threads repeat steps, `MaxCrashes` 2 how often the UDP server ends. Each
keeps what its real value makes possible: a ring that wraps, a line shorter than, as
long as and longer than the buffer, a table that frees and reuses its slots, a table
that overflows, a batch that fills the array, a message cut in two and a read with
parts of two (a chat connection holds four bytes, messages have three), a buffer that a
read fills when the echo of one line is left over for the next (lines of three, buffers
of four), a crash after a crash, a wait that can be interrupted half-way. In the servers
with a table three clients are what it takes for
one to leave while the second is served and the third arrives on the descriptor of the
first. The select run keeps `FD_SETSIZE >= OPEN_MAX`, as it is on Linux by default,
since otherwise FD_SET would be undefined. In a table for 2 connections the poll run
makes descriptors suffice, so that the table, not `accept`, is the limit.

### Fairness

Threads that can run do run (weak fairness of each thread of `ProducerConsumer`; the
mutex has two contenders and each holds it for a moment). A server process is
scheduled when it is not blocked (`WF_vars(Server)`), and so is a client of
`NonblockServer` when the answer it reads has come; `Readline`'s reader,
`ShutdownSession`'s client, every process of `ForkServer` and of `Chat`, and the server
and clients of `UdpEcho` likewise. In `Timeouts` time passes and the process runs.
Nothing else is assumed of clients, users, peers, the network or signals: they may
stop at any point, the network may lose everything, nobody has to start the UDP server
again, and signals may come for ever. `Counters` has no fairness, since nothing is
claimed of its end.

## 4. Proofs

Proved by TLAPS for every value of the constants that meets the modules' assumptions.

`ProcessProofs` proves of `ProducerConsumer` (two slots or more, and a number of items)
`TypeCorrect`, `MutualExclusion`, `NoOverrun`, `WakeupsKept` and
`RingRefinesFifo`. The inductive invariant has two halves. `Control` adds to
the properties `RoomForAccess`: a peer that has signalled leaves the buffer in
the waiter's favour until the waiter, awake, has used it. That is
what makes `if` enough without spurious wakeups, and what a spurious
wakeup breaks. `Data` says that the occupied slots hold, in order, the
items written and not yet read; from it the mapping to `BoundedFifo` follows step
by step. The remainder by which the code tests for a full ring, and the
comparison by which it wraps, are shown equal by a lemma (`AdvanceIsMod`).

`SelectServerProofs`, on `LineIOProofs`, proves `ServerTypes`, `TableCorrect`,
`NreadyCorrect`, `ReadinessCorrect` and `SlotForEveryClient`: the properties
`TypeOK`, `TableAgrees`, `NreadyExact`, `ReadinessHolds` and `SlotAlwaysFree` for any
number of clients, any streams and any sizes. Assumed: finitely many clients, a
socket and a line buffer of at least one byte, room for one connection
(`KernelAssumption`, `MaxlineAssumption`), and `OPEN_MAX <= FD_SETSIZE`
(`SetsizeAssumption`). The last is what FD_SET needs, and what makes a slot
certain: were no slot free, `client` would map `FD_SETSIZE` slots one to one
into fewer descriptors (`SlotIsFree`, by the pigeonhole principle).

The inductive invariant `Inv` joins four of these properties with
- `KernelInv`: a connection is once in the queue or behind one descriptor, and no
  more is taken than was sent;
- `SessionHits` and `LineInSession`: the slot being served is one that select
  found ready, and `recvbuf` is empty outside a session;
- `StillReady`: every connection still pending is readable, but for the one
  being served. It needs that a session changes no other client's socket (the `...Keeps`
  lemmas) and that pending descriptors belong to different clients (`OthersApart`).

`NreadyExact` alone is not inductive: that the count goes down by exactly one
(`HandledCounts`) needs that the handled slot was pending and that no other slot
holds the same descriptor, hence `TableAgrees`; and that the scan finds a slot
at all (`InvScan`) needs the count to be positive.

`PollServerProofs` proves `TableCorrect` and `ReadinessCorrect`: `TableAgrees` and
`ReadinessHolds`, with the uninitialised `revents`. Slot by slot, `client` holds
the open connections, each once and none above `maxi`. `RoundCounts` says how far the
round has come: `nready` is the number of slots whose `revents` are still to be
handled, and all of those lie in the part of the array that the last poll has seen
(`polled`). A connection accepted in this round may lie behind that part; the scan
does not come to it, because the count is used up before (`NotPastPolled`). As for
select, `StillReady` carries readiness past the other sessions of the round.

`EpollServerProofs` proves `InterestListCorrect`, `BatchCorrect` and `DeathCorrect`:
`WatchAgrees`, `BatchFresh` and `DeathExplained`. An event in a batch goes stale only
if its descriptor is closed before its turn, and only the session being served is
closed; `SessionOpen` says that this one is past its turn. That nothing in `recvbuf`
is a newline while it is being filled (`LineInSession`) is what excludes the deaths
that `DeathExplained` does not list.

Each of the three modules also has `EchoCorrect`, for `EchoFaithful`. The
invariant `EchoInv` says three things. `Owed`: a client's echoes are what was taken from
it, less what the server has in hand; or, after the end of its connection, less an
unfinished or too long line; or one of its lines just filled the buffer, or (epoll) a
`writen` was cut short. `Settled`: outside a session each open connection is at the start
of a line. `InLine`: what `recvbuf` holds is the start of a line, without its newline.
The session steps are one lemma each in `LineIOProofs`, shared by the three servers.
That the code's search finds the first newline (`SearchFindsAny`) is a least-element
argument, which would be an induction; it is had instead from the library's theorem
that strict inclusion of finite sets is well-founded.

`SocketProofs` proves of `Readline` `TypesCorrect`, `NeverExits` and `ReadlineReadsLines`: the last is
the refinement of `LineReader`, for any streams and any `MAXLINE` of at least 1.
`ReadlineInv` says that the buffer is what was taken since the last call (`Buffered`), that
there is no newline in it before the one `readn` was asked to fetch (`NotYet`), and
that what was peeked has arrived and fits (`Peeked`). The last makes the three
`exit(EXIT_FAILURE)` unreachable, and each return is then a step of `LineReader`:
a newline a `Line`, a zero an `Eof` or a `TooLong`, an error a `Failure`; all else is a
stutter.

`NonblockServerProofs` proves `PeersCorrect` and `AnswersCorrect`: `PeersAgree` and
`AnswersInStep`. `PeersTable` makes the used slots and the open connections
correspond one to one; that a refused client found them all taken is then a count.
`Conversation` says how many bytes have gone each way, from the client's `turn` and from
the greeting or answer that the server is about to send: so none can be left over.

`ProcessProofs` also has `CountedInFull`, for `Counters`: `AllCounted` for any `MAX` (of at least 1) and any
`MaxNumber`. That `number` is large at the end is not inductive by itself. `Behind` says
why it holds: `i` is stepped only after `number` is, so that `i`, with one more for
each thread between its two steps (`Ahead`), is at most `number`; and so is the stale
value that a thread is about to store, which lowers `i` or leaves it. `Exclusive`, the
mutex, makes the step of `number` whole. A thread ends when it finds `i` at `MAX`.

Of `ForkServer` it proves `ForkRefinesEcho`: `ImplementsEcho` for any clients and lines,
any length of a packet's head, any size of a connection and of a buffer. Every step is one of
`EchoService` or a stutter, because of `ForkInv`. `Faithful` says of a client that has not
ended where its bytes are: what it has read of the echo, what is on the way to it, what
its child holds, what is on the way to that, and what the client has still to write
are consecutive parts of one stream (`OnTheWay`), and nothing of it is
missing unless a plain `write` went into a closed connection. With packets and lines the
stream is the message at hand, and a whole message is echoed only when no byte of it is
left before the child (`InTurn`); so the child never holds the length of one packet
with the bytes of another, and what the client finds whole is the line it typed
(`WholeIsAll`, which needs that '\n' only ends a line). With plain `read` and `write` it is
all that is owed, and what is printed is the first part of that. An overrun puts a byte
into the stream between two of these places: what is before it stays where it is, what
is behind it moves on by one (`Inserts`, `ChildSpills`, `ClientSpills`), and at least a
buffer's worth lies between it and what was printed, which is what `Overrun` asks for.
`OneChild` is what
keeps a connection's bytes to one reader: it is in one place until it has a child, and
has one child; it also makes `Closed` last, once it is true.

`SocketProofs` also has `EchoesCorrect`, for `UdpEcho`: `EchoesInStep` for any clients, any number of lines
and of crashes, and any losses. A client's datagrams pass through four places: its
printed answers, its socket, the server's hand and the server's socket. `UdpInv` says
that each of them is ordered (`Rising`), that what is in one comes before all that is in
those behind it (`InServer`, `InClient`), and that all of it was sent (`Sent`). A
loss or a crash takes elements away, which keeps an order; `Send` adds one that is later
than all. `InStep` adds where the client is: one behind exactly when it waits.

Of `Timeouts` it proves `WaitsInTime`, `FlagRestored`, `TimeoutsHonest` and `RefusalsTold`:
`WaitBounded`, `ConnectedBlocks`, `TimeoutHonest` and `RefusalReported` for any bound on
the waits. `TimeKept` strengthens the first to an equation, which the third needs: what
`select` has used of its `timeval` is what has been waited, through any number of
signals. `CallsKept` tells a success of `accept` or of a blocking `connect`, which
leave the flag alone, from one of `connect_timeout` after `select`, which clears it.
`ConnectStarts` takes `connect_timeout` apart by the state of its socket.

Of `Chat` it proves `ChatShows`: `ShownInOrder` for any texts, any size of message and of
socket. What one side sends is seen as one stream in which message n begins at byte
`MESSAGE * n`, each text followed by NULs. `Follows` says that the first p bytes of it
have been read, and that the next ones are those on the way and, unless the connection
is ending, those in the child's hand (`OnTheWay`); and that what was shown are bytes of
text among the first p, at rising positions, all of them while reads take whole messages
(`ShowsBytes`). Each step then cuts a stream in two or joins two parts of it
(`CarriesParts`, `CarriesBoth`). `ShowsText` is what `fputs` does with a part: a text
always leaves room for a NUL in its message, so a full `recvbuf` has one.

`ShutdownSessionProofs` proves `SessionPrintsAll`: `AllPrinted` for any input, any way to
type it and any sizes in which its lines fit (`SessionAssumption`). The client's steps
are none that the server could not expect (`ClientMoves`), so the select server's `Inv`
and `EchoInv` hold in the session. `ShutWhenSent` adds that the client's side is shut only when all
of the input has been sent, and that the server closes only then (a short line never
makes `readline` return 0); `LinesShown` that what the client prints, with the start of a
line that `readline` has in hand, is what it received. When the client finds the
connection closed, `EchoInv` tells it that all complete lines were among that.

Left to TLC: all liveness (`RunsToTheEnd`, `CallsEnd`, `NobodyStarves`,
`NobodyHeldUp`, `NobodyWaitsForEver`, `DoneUnlessStalled`, `EveryoneAnswered`,
`EndsTogether`, `AnsweredUnlessLost`, `WaitsEnd`), which is beyond this prover. Every
invariant, action property and refinement that a passing run checks is stated by a
theorem.

## 5. What the code and its comments disagree on

- `threads_producer_consumer.c:30` and `:50` say "wait until"; the code tests once
  (`producer_consumer_spurious`).
- `helper.c:80` says that 0 means the peer closed; it also means a line too long
  (`readline_zero`).
- `sysutil.c:167` says that 0 means no timeout; not on a socket that an earlier
  timed-out call left non-blocking (`timeouts_zero`).
- `sysutil.c:88` says that `accept_timeout` returns -1 on failure; when `accept` itself
  fails it exits (line 127). `Timeouts.Accept` models the exit.
- `threads_producer_consumer.c:66` says 1 to 10000, the loop runs from 0 to 9999.

## 6. Not modelled, and why

Programs that run one call after another with nothing to interleave:
- `3echo`: one connection, one loop of `read` and `write` that looks at no result
  (after the client has left it spins: `read` returns 0 and `write` writes nothing);
- `base`: one `send` or `recv` per run or connection; `14udp/udptest.c` sends to itself;
- `15unixdomainsock/socketpair.c`: a number passed between two processes in
  strict alternation; `unlink.c`: one call;
- `7gethostbyname`, `alarm.c`, `test.c`, the thread samples other than the two named
  above, and the Python bindings, which wrap single calls.

`clitestmaxconn.c` opens connections until one fails; that is among the behaviours of
`Kernel`'s clients and has no action of its own.

Left out of what is modelled: addresses, ports and output, unless a property is about
them; failures of `socket`, `bind`, `listen`, `fcntl` and `getsockopt` at start-up or
on a valid descriptor, and of the chat's `fork`: they end the process. Zombies of
`15unixdomainsock`, whose parent does not wait for its children: they only bring the
failure of `fork` nearer, which `ForkFails` has. What the children of the plain programs
print on the server's own terminal, where `fputs` overruns a full buffer as it does in
the client. The '\0' that `8nonblockio/tcpserver.c:132` stores behind the bytes received,
one past `buf` when `recv` has filled it: `buf` is only printed. That `thread[k]` stays 0
after a `pthread_create` that failed (`CreateFails`) is what glibc does when it finds no
memory for the stack; POSIX leaves it undefined. Plain `write` in the plain programs is retried by the kernel until all is taken,
as on a blocking socket. NUL bytes within a line do not occur, since the clients send
strings; in the chat they do, as the rest of each message.

## 7. Plan

1. Done: the bounded buffer and its proofs; `readline`; the three multiplexing
   servers; the timeouts; the select server's proofs as section 4 says.
2. Done: `NonblockServer` (`8nonblockio`).
3. Done: `ShutdownSession` (`10shutdown`).
4. Done: `EchoService` and `ForkServer`, for all six forking servers and their clients.
5. Done: `Chat`, `UdpEcho`, `Counters`, and `ShutdownSession` for the clients that do not
   shut down.
6. Done: proofs for `Counters`, `UdpEcho` and `Timeouts`; for the poll, epoll and
   non-blocking servers; for the echoes of the three multiplexing servers; the
   refinement of `LineReader` by `Readline`; the chat; the session with shutdown; the
   refinement of `EchoService` by `ForkServer`.
7. Left to TLC for good: liveness (section 4).
