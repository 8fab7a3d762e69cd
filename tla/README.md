# Verification of socket_programming_in_c-lab

The repository is a collection of small network programs in C, most of them in
two versions: a first one, and a "V2" in which the author repaired the defects
that he found. This directory keeps TLA+ models of those programs that have
behaviour worth checking, the TLC runs over them, and TLAPS proofs of their main
safety properties.

## 1. Inventory

| Component | State | Operations | Interacts by |
|---|---|---|---|
| Chat room server V2 (`chat_room_serverV2.c`) | the fd_sets `list`, `read_list`, `max_set`; `authed[]`; the handler's buffer | select, accept, recv loop, authenticate, broadcast with `send_all`, drop, hang up | TCP with each client |
| Chat room clients V1, V2 | the buffer of stdin, the two fd_sets, nickname | connect, (AUTH line,) read the name, select, fgets and send, recv and show, `/quit` | TCP; terminal |
| Chat room server V1 | as V2 without `authed[]` | blocking `send`, one `recv` of 256 bytes | TCP |
| UDP file transfer server V1/V2, client | `auth_clt`, `count`, `t_last`, the output file; the client's position in its file | token, chunks, repeated empty datagram; idle limits, sender check, size limit | UDP, no acknowledgement |
| Duplex chat V1/V2 | two processes per side over one socket | fork, recv loop, send loop, signals between parent and child | TCP; signals |
| Basic TCP V2, time client V2 | the growing receive buffer (`cap`, `total`) | recv loop, grow, refuse, terminate | TCP |
| Time server V2 | the connection that is served, and the backlog | accept, send_all, close | TCP |
| TCP file transfer | file, socket | one read of the name, one-byte answer, content, close | TCP |
| Command execution, statistics, basic UDP | the request at hand; the client's socket and its port | ask, run or look up, answer, drain, time out | UDP |
| Fetch web page | time limits, byte count | timed receive loop on a non-blocking socket | TCP |
| The way of every program to its socket | argument, address, open sockets | parse the port, resolve, socket, options, bind/connect, listen | kernel, resolver |
| Port scanner (its loop), network dashboard, basic TCP V1, time V1 | none to speak of | sequential calls | kernel |

Hard behaviour, and where it is:

* **Descriptors that are closed and used again** while `select()` results are
  still being scanned, and per-descriptor state (`authed[]`) that a close does
  not reset (chat server).
* **Partial failure in a broadcast**: a recipient breaks or stalls in the middle
  of a line (chat server).
* **A byte stream without message boundaries**: reads that split or join lines
  (chat server), a full buffer that looks like the end of the stream
  (`RecvBuffer`).
* **Datagrams lost, repeated, reordered, or sent by others** (UDP file transfer).
* **Two limits on silence**, the timeout of `recvfrom()` and a wall clock (UDP
  file transfer); a timeout that each received byte restarts (time client).
* **Two processes that share a socket and signal each other** (duplex chat): who
  ends whom, in which order, and who learns of an error that the kernel reports
  only once.
* **Two buffers for one input**: `select()` sees the kernel's, `fgets()` takes from
  that of stdio (chat clients).
* **Blocking sends between one server and many clients** (chat room V1), and one
  client after another (time server).
* **Answers that do not say what they answer** (UDP request and answer).
* **Ports of 16 bits, parsed in four ways, and lists of addresses of which some
  fail** (every program's start).

What makes each component correct: for the chat room, that it implements the
simple room of `ChatRoom.tla`, that only authenticated connections are heard and
served, that no client can hold the others, and that the descriptor tables
agree; for the file transfer, that the file is the authenticated client's data
and nothing else, that success is reported only for what is on disk, and that
the server ends; for the receive buffer, that it stays in bounds, shows only
whole messages, and ends; for the duplex chat, that no process is left behind,
that silence is not taken for a disconnection, and that two sides that both send
do not block each other; for the time server, that a client that fails costs the
others nothing; for the UDP services, that an answer belongs to the question; for
the start of every program, that it works with the port that was written and with one
socket on which every call that it needs has succeeded.

`PROJECT.json` lists every component with what is modelled of it, and every
hazard with the line where it bites and the properties that cover it.

## 2. Modules

| Module | Contents |
|---|---|
| `ChatRoom` | abstract specification: a numbered record of lines that every present member hears in order and without gaps |
| `ChatServer` | the V2 chat server with its clients and TCP as the environment; its properties; the refinement mapping to `ChatRoom` |
| `MCChatServer` | the bounds that TLC uses |
| `ChatServer_proofs` | inductive invariants and eight theorems, the last that `ChatServer` implements `ChatRoom` |
| `ChatRoomV1` | the first chat server composed with its clients, whose loop is also that of the second client |
| `ChatRoomV1_proofs` | three theorems |
| `FileTransfer` | the UDP file transfer: server V1 or V2 (constant `Secure`), clients, strangers, network, clocks |
| `MCFileTransfer` | the senders that TLC uses |
| `FileTransfer_proofs` | six theorems |
| `RecvBuffer` | the growing receive buffer of the V2 clients, with and without a timeout, and a peer that does anything |
| `TimeService` | the iterative time server with its backlog, composed with `RecvBuffer` as one of its clients |
| `TimeService_proofs` | four theorems about `RecvBuffer` and three about `TimeService`, one of them that it implements `RecvBuffer` |
| `TcpFile` | the TCP file transfer: client, server, and the connection between them |
| `TcpFile_proofs` | one theorem |
| `FetchPage` | `recv_timeout()` of the web page program |
| `UdpExchange` | the four pairs of small UDP programs, their clients, a stranger and the network |
| `UdpExchange_proofs` | three theorems |
| `Startup` | how each of 31 programs gets from its arguments to its socket |
| `Startup_proofs` | four theorems |
| `MCPrograms` | the five one-connection programs, one at a time, for one run |
| `DuplexChat` | the V2 duplex chat: two processes on each side, one connection |
| `DuplexChat_proofs` | three theorems |

`TimeService` EXTENDS `RecvBuffer` and replaces its peer; `MCPrograms` EXTENDS
`TimeService`, `TcpFile`, `FetchPage` and `Startup`. The others stand alone.

### ChatServer and the code

The server is one thread, so an action is one stretch of code between two points
where the environment matters: `Select` (lines 130-136), the scan over ready
descriptors from the lowest up (`read_list` loses each one as the scan passes
it), `Accept`/`AcceptFails`/`AcceptTooHigh` (141-157), and a client's handler
(158-268). The handler begins with `RecvStart` or `MallocFails`; its loop of `recv()`
takes a unit at a time (`Recv`), while the clients go on writing, reading and closing;
it ends in one of `RecvFails`, `RecvRefused`, `RecvAuth`, `RecvMessage` and
`RecvNothing`. The tail of the handler, the broadcast, is split into one step per unit
sent (`SendUnit`, `SendFails`), because clients read, close and break in between;
`BroadcastDone` closes a client that hung up. The server's locals live as long as their
handler does (`me`, `total`, `todo`, `sent`, `hung_up`).

Bytes are *units*: the AUTH line of a client is units 1 to `AuthLen` (the last
one its newline), everything after it chat. A `recv()` that returns several units is
several steps of `Recv`; the loop ends when nothing is there (`ReadAll`). When units
arrive is up to the environment, also between two calls of the loop, which covers every
way in which TCP cuts or joins them. A client that goes on writing keeps the loop going
only until the buffer is full: `total + 1 >= MaxMsg` is the test that ends in `too_big`
(in a run, `MaxUnits` may end the writing before that). A recipient that does not read
holds `SendBuf` units, after which `send()` fails with EAGAIN.

`taken`, `log`, `joined`, `proved`, `refused` are history. `taken` counts all that
`recv()` returned, what a failing handler then throws away included: `EachUnitOnce` says
of each unit taken from an authenticated client that it is in one line of the log, or
in the handler's buffer, or was read in vain by the handler that closed the client.

`AcceptFails` is any error of `accept()`: for want of descriptors or memory the
connection stays in the backlog, after ECONNABORTED it has left it; the server
goes on with the scan either way.

Signals play no role: the server installs no handler, and SIGPIPE is ignored, so
`EINTR` does not occur. A full accept queue (backlog of 10) is not modelled; it
only delays `Connect`. `getaddrinfo`, `bind` and `listen` come before the initial
state, and are in `Startup`.

### ChatRoomV1 and the code

The server's program counter is `srv`: `select()`, the scan, and the `send()` loop
(`todo` holds those still to be sent to). A `send()` to a full buffer waits, which is
the absence of a step. The first unit sent to a client that has closed is answered
by a reset (`SendToGone`), after which the next `send()` raises SIGPIPE, which
this server does not ignore (`Sigpipe`); an error that is reported instead is printed
and passed over. A scan accepts one connection of those that wait (`pending`), or fails
to (`AcceptFails`), and they wait on; a client that has left meanwhile is accepted all
the same, and its lines and its end are read. That a descriptor may be too large for
an fd_set, which this version does not check, is the subject of `ChatServer` only.

A client is one thread too: the nickname (`ReadName`), `select()`, the scan, in which
stdin comes before the socket because its number is lower, and the blocking
`send()`. `typed` is what waits in the kernel, which `select()` reports; `stdio` is what
an earlier `fgets()` took beyond its line, which it does not. At the end of
stdin `fgets()` returns NULL and `break` leaves the scan before it gets to the
socket (`FgetsNull`), for ever, because the end of stdin stays readable. A nickname
that begins with a zero byte (`NulNames`) has the length 0, so that the client writes
':' before the array `message`; the model takes that byte for one that nothing reads
again, which is what the usual layouts of the stack give, and keeps the name apart
from those that have letters ("nul"). With it and a line that begins with a zero byte the
message is empty and nothing is sent. Here a
line is one unit; how lines are cut and joined is the subject of `ChatServer`.

### FileTransfer and the code

The server's program counter is `state`: the token loop (285-316), opening the
file (320-344), the receive loop (346-392). `Received(d)` is the `recvfrom()` that
hands over a datagram and `waited` how long the running one has waited
(SO_RCVTIMEO), `idle` is what `duration()` measures since `t_last`, or -1 when
the clock was set back. The tests come in the order of the code: end of
transfer first in V1 (`EndsFirst`), then the idle limit, then the sender, then
the end in V2, then the size limit, then `write()`. `write()` may store a part
(`whole = FALSE`), which the code takes for a success; the next one may store a part
again, all, or fail, since room on a disk comes and goes.

A chunk is one unit of data, so `count` counts datagrams and `MaxFile` limits
them. The client sends its token, its chunks and `EofRepeat` empty datagrams and
gives up when a call fails. A stranger sends empty datagrams and junk. The
network delivers each client's datagrams in any order (or in order, if
`Ordered`), loses any, and makes up to `Copies` duplicates; a full socket buffer
drops.

### RecvBuffer and the code

One receive loop: `malloc`, `recv()` of as many bytes as there is room for,
`realloc` to twice the size or to the limit when the buffer is full, the exits
for too long a message, an error, a timeout, and the termination of the string
after the end of the stream. `recv()` of 0 bytes returns 0, as it does on a
socket: that is what would go wrong if the buffer did not grow in time. The same
code is in `TCP_clientV2.c`, `TCP_time_clientV2.c` and `duplex_chat_clientV2.c`,
and in `chat_room_serverV2.c` with a different end. The second `realloc` (lines
90-99 of `TCP_clientV2.c`) is modelled, and `LeavesRoom` shows that it is never
reached, as the comment above it says.

### TimeService and the code

The server serves the head of its backlog: `Accept`, one `Send` per byte of the
answer, `CloseClient` on both of its ways (`Answered`, `SendFails`); SIGPIPE is
ignored. A client that left before it was accepted may be taken out of the backlog by
the kernel (`AcceptAborted`). The reader's actions are those of `RecvBuffer` behind the
guard that it has connected (`Reads`); what arrives for it is what the server
sent, and the end of the stream is the server's `close()`. Its timeout may fire at any
moment at which nothing has arrived, also while the server serves others.

### TcpFile, FetchPage and the code

`TcpFile` has both programs. The name arrives in parts; the server takes what one
`read()` returns as the name (`ReadName`), so `has` is a function on lengths: whether
the server has a file by the first n bytes of the name. Bytes of a name that come
after that are never read, and a connection closed with unread bytes, or that
gets bytes after it was closed, is reset, by which the client may lose what it had not
read. `DownloadEnds` is the end of the client's loop, for which 0 and -1 are the same.
What the programs do not check may fail: the client's `fwrite()` loses a chunk and its
`fclose()` any of those that stdio may still hold (`kept` is what reaches the disk), and
the server's `fread()` ends the file early (`ReadFails`), at once if what it opened is a
directory. `faults` remembers which of these has happened.

In `FetchPage` the loop of `recv_timeout()` has a clock of three values, the
time since `begin` in units of the limit: up to one, up to two, beyond. `Break` is
the test of lines 37-40, `RecvChunk` the rest of a turn that receives. `PageLen` is
five chunk bytes and not a page: only whether something was received matters for the
loop.

### UdpExchange and the code

`protocol` is chosen in `Init`; the programs differ in a few guards, which name
the protocol. A client binds a port with `connect()` before that call restricts the
socket to its peer (`Start`, `Connect`), so a stranger's datagram may be in its queue:
that is what `Drain` removes. In a datagram, `re` is history: it is copied into
the answer, and no guard looks at it. The command server runs one command at a time
(`job`); one that never ends keeps it at "running". A datagram for a server that
has ended bounces as an ICMP error, which the connected clients get from their
next call (`refused`). `lost` and `extra` are history.

The client of the statistics compares what it received (the 16 bytes of a
structure) with what it sent (the 20 of the token), so `AfterRecv` is a failure
whatever the answer is.

### Startup and the code

A program is a record: how it takes its port, whether it walks through the list of
`getaddrinfo()`, and its calls in order, each with what the program does when it
fails: it exits, closes and exits, closes and takes the next address, or does not
look. `Startup` interprets these records. A port argument is a number with what
stands around it (a sign, a blank, a zero, a letter before it, anything after it),
which is what `strtol()`, the range checks and `atoi()` tell apart; `htons()` keeps 16
bits. An address works or does not: if not, one of the calls that depend on it
fails. Sockets are counted, which is enough because a program uses only the
latest. Where a program asks for more (a token, a file, a directory), that is one
call ("token", "input", "file") that may fail. The second duplex client checks its
port with `parse_port()` and then gives the text to `getaddrinfo()`, which reads it
again: that is a way of its own to take a port ("service").

### DuplexChat and the code

`parent[s]` and `child[s]` are the program counters of the two processes of each
side after `fork()`: the parent's `fgets()`, `send_all()` and, in the client, the
`kill()` after its loop; the child's receive loop. The two sides are different
programs, so most actions of the children belong to one side; the parents share
`Fork`, `FgetsNull`, `SendByte`, `SendFails` and `SendDone`, in which the
differences are explicit (what happens without a child, at the end of the input,
on a failed `send()`).

A side's socket is closed when both processes are gone (`Closed`), because `fork()`
duplicated the descriptor. The kernel then sends a FIN, or a reset if something
was not read (`Shut`); data for a socket that no longer exists are answered by a
reset (`Reset`). An error is reported once (`err` goes from "pending" to "taken"),
to the process that calls first; after that `recv()` returns 0 and `send()` raises
SIGPIPE, which the client ignores and which kills the server's parent.

Where a process of the client ends the other one, the steps are the code's: the parent's
`kill()` and its `exit()` (`Leave`, `ParentExits`), the child's `close()`, `kill()` and
`exit()` (`ChildCloses`, `Disconnected`, `ChildExits`), so that each may be ended by the
other in between. `Running` are those that still execute, `Holding` those that
still hold the socket.

Signals take effect at once. `EINTR` does not occur: no handler is installed, and
both signals kill. A line that begins with a zero byte, for which `strlen()` is 0,
is left out. Time is not counted: SO_RCVTIMEO may expire whenever nothing waits for
the client's child (`ClientTimeout`).

## 3. Runs

| Run | Question | Bounds, and why they are enough |
|---|---|---|
| `chat_descriptors` | do closed and reused descriptors confuse anything | three connections, one without the token; descriptors 4 to 6, of which 6 is beyond FD_SETSIZE, so that the third connection is turned away or takes over a closed descriptor; allocation failures; an AUTH line of two units, so that it can be split |
| `chat_room` | is what is read of each client broadcast once or lost with it, is every client's stream whole, does a dropped client cost the others anything, does the server implement the room, return to `select()`, serve every client | three members, of which one sends two units, one one, one none; descriptors for all of them and `SendBuf` 1, so that a broadcast blocks in the middle of a two-unit line and its first recipient may fail while the next is still to be served; one client may leave at any point, none need read; `accept()` may fail at any time |
| `chat_token` | is a client with the right token ever refused | two connections, an AUTH line of three units (one may lack at its end: the newline), of which the first may arrive alone (violated, section 6) |
| `chat_v1` | who hears what in the first chat room, who holds the server, when does a client stop reading or sending | two clients, each of which is sender and recipient for the other (three outgrow this run; a broadcast to two recipients is in `chat_room`); one of them has a nickname that begins with a zero byte; three lines each with the nickname, so that `fgets()` reads ahead; buffers of one unit, so that every `send()` may block |
| `transfer_unordered` | is the file one client's, with nothing twice but what the network copied | two clients with the token, each with one chunk, a stranger; reordering, loss and one copy; a socket buffer of one datagram |
| `transfer_ordered` | is the file an ordered part within the limit, is success honest, does the server end | one client of three chunks against a limit of two, a stranger that never stops, failures of disk, clock and `sendto()` |
| `transfer_short` | is a transfer that is reported as done on the disk (violated, section 6) | one client of two chunks |
| `transfer_v1` | does only the client end a transfer (violated, section 6) | one client of two chunks |
| `programs` | the start of every program; bounds, whole messages and termination of the reader, with any peer and with the time server; is a download whole; does the page loop end | at most three addresses; the numbers 0, 1, 80, 65535 and above, with integers scaled so that a number may exceed INT_MAX and LONG_MAX; buffer sizes 2, 4, 7 (a doubling and a growth that the limit cuts) with up to 9 bytes sent; an answer of 5 bytes and two other clients; a name of three bytes and a file of three chunks, with any of the failures of disk and connection; a page of five bytes in chunks of two |
| `udp_exchange` | does an answer come from the server, does it belong to the question, who waits for ever | two clients with two requests each, so that an answer to the first may be late; sockets of two datagrams; one fault (a stray, a loss or a copy), which already defeats what it can |
| `duplex` | is a process left behind, is a disconnection real, who ends, who blocks | queues of one byte, so that every `send()` may block; lines of one byte (two with the server's terminator), a limit of three; all faults |
| `duplex_parent` | does the client's sender end with the server (violated, section 6) | the same, no faults |

`DuplexChat` needs no bound on what is typed: it counts only what is under way.

Bounds in the modules, all of them constants: `MaxUnits`, `Leavers` and
`AllocFails` (`ChatServer`), `Copies` (`FileTransfer`), `MaxSend` (`RecvBuffer`),
`MaxLines` (`ChatRoomV1`), `MaxRequests` and `MaxFaults` (`UdpExchange`), `PageLen`
(`FetchPage`), `MaxAddrs` and `Numbers` (`Startup`).
A connection is used for one `connect()`; descriptors are reused.

`TokenKept` and `Authenticated` are checked with two members under symmetry;
the third connection is fixed, as it lacks the token. No symmetry is used where
liveness is checked or where members differ in what they send.

Deadlock checking is off: when all clients are gone, or have nothing to say, the
server sleeps in `select()`; before a token arrives the file server sleeps in
`recvfrom()`, and after a transfer it has ended; the programs of the duplex chat end,
or sleep while nobody types; the servers of `UdpExchange` sleep in `recvfrom()`, the
time server in `accept()`; every other program ends.

### Fairness

`ChatServer` assumes weak fairness of `ServerNext` alone: a thread that can run
does. Clients and network owe nothing: a client may stop reading for ever, which
is the case that `ServerReturns` is about. `FileTransfer` assumes weak fairness
of the server and of the passing of time (`Tick`), not of any sender.
`RecvBuffer` assumes it of the client, in which the timeout is included (the
kernel returns from `recv()` when it is due); the peer owes nothing.

`DuplexChat` assumes it of each parent, each child and of the network for each side:
four processes and a kernel that delivers. The users need not type, and need not
end anything. A server whose `fork()` failed does block its
client, and `SendReturns` makes an exception of it.

`Ends` of `FileTransfer` has a condition for the clock: one that is set back again and
again keeps the idle time below the limit for ever while a stranger keeps
`recvfrom()` from timing out. A clock that is set back any finite number of times does
not matter.

`ChatRoomV1` assumes it of the server and of each client's program (`ClientRuns`),
not of the users: nobody has to type, or to end the input. Weak fairness of a program
that is one thread is what the scheduler gives; that a `send()` may block for ever
is kept, because a blocked call is not an enabled step. `TimeService` assumes it of
the server and of the reader, `FetchPage` of the loop, which never sleeps.
`UdpExchange` assumes it of what each client does by itself, of the server, and
of the network as far as it forwards what it does not lose; a loss or a copy is
never owed. A user of the command client need not type.

The liveness properties of code that can hang say when it does: `HeldByClient`,
`SocketRead`, `LinesGoOut`, `Answered` and `PageEnds` name the cases
in which somebody waits for ever, and show that there are no others.

## 4. Proofs

All proofs are checked by TLAPS from nothing but the modules' named assumptions
on constants. Every invariant that a run checks is also a theorem, and so is the
refinement of `ChatRoom`.

**Chat server.** `DescriptorsAgree` is not inductive alone: that a recipient of the
broadcast is still open depends on `todo` being part of the open descriptors,
and that the handler's own descriptor survives depends on it not being in
`todo`. `DInv` = `TypeOK` + `DescriptorsAgree` + the shape of a running broadcast.
`AInv` adds that a connection is in one place (the backlog or one descriptor,
never two), without which a flag could be about two connections at once, and
gives `Authenticated`. `InHandler` ties the buffer to the handler: `total` units, the
last of those taken from the author, and none outside the loop.

`UInv` adds how much of the AUTH line was taken before and after authentication and
gives `TokenKept`. For `EachUnitOnce` it has three facts: no line goes beyond what its
author's handlers have finished with (`LinesBehind`), the lines of an author are disjoint and
in order (`LinesInOrder`), and each unit taken from an authenticated client is in a line, in
the buffer, or lost with a closed connection (`AllAccounted`). The end of a handler turns
the buffer into a line or into a loss, and the facts before it say that nothing
else may have named those units.

`RInv` adds `Delivery` and gives `StreamWhole` and `CaughtUp`. That every client has
been sent all there is holds only between two broadcasts; within one, `Delivery`
says for each recipient where it is: those served, and the author, are `Settled`
(at the end of a line, and what comes after it in the log is their own), the lowest
one left has `sent` units of the last line, and the others are where the broadcast
found them. A recipient that is cut off in the middle of a line leaves `todo`, and
the next one starts at the line's first unit.

`RoomInv` adds `Lives` and `Hears`, how many whole lines each member has heard, and
with it each step of the server is a joining, a line said, a line heard, a leaving, or
nothing to the room (`RoomImplemented`). What a member has heard is read off its
stream by a function that is defined by recursion on its length (`LineEnds`), so that
the proof needs two inductions over a stream: that its value depends on the stream up
to there only, and that it does not change when the log grows. The library's induction
theorems take the property as an operator; `NatSetInduction` takes the set of the
naturals for which it holds, and is proved from the library's facts on cardinality.

Theorems: `TypeCorrect`, `DescriptorsSafe`, `AuthenticationSafe`, `TokenSafe`,
`UnitsSafe`, `StreamSafe`, `CaughtUpSafe`, `RoomImplemented`.

**File transfer.** `TransferTypeCorrect` rests on where a token can come from: a
datagram under way from a client carries that client's address, and one with the
token in the socket buffer is a client's. `OnlyClientSafe` is stated for the
second version (`Secure => ...`) and holds over any network; the same statement
for the first version is false, as `transfer_v1` shows. `CountedSafe` says that
`count` is the number of pieces in the file unless the server has failed, whatever the
disk does: a `write()` that returned -1 is never passed over. It does not say that the
pieces are whole, which is false (`transfer_short`).

`InOrderSafe` has the network's promises as its hypothesis (`Ordered`, no copies); the
strangers may do what they like. Its invariant `Line` puts the file, the
socket buffer and what is under way from a client one behind the other and numbers
the places: what stands further ahead was sent earlier, and the token, once accepted,
stands nowhere. Each action moves, removes or appends places, and a lemma for each of
these moves (`LineTakes`, `LineLoses`, `LineWidens`, `LineWrites`, `LineSends`) serves
both servers. `CompleteSafe`, for the second server, adds that each chunk that the
client has sent is at some place or was lost (`NoneMissing`): the empty datagram that
ends the transfer comes last, so that everything ahead of it is in the file by then.

`NoRepeatSafe` has no such hypothesis: the network may reorder and copy. Its invariant
`LInv` puts a label on each place (`Labels`): 0 for what the client sent, a number of
its own for each copy. Two places with 0 never have the same datagram, but for the empty
ones, which are not written; labels move with their datagrams, and `Moves` is all
that a step of the network or the server has to show. The one subtle step is the token:
when the server accepts a copy, the token that was sent is still on its way and would be
written with the label 0; so it takes over the label of the copy, which is gone. At the
end the pieces with 0 are different chunks, and the others are no more than the copies.

**Receive buffer** (in `TimeService_proofs`). `LeavesRoom` is what turns a 0 returned by
`recv()` into the end of the stream; with the account of bytes (`total + arrived = sent`)
it gives `ReaderShowsWhole`. The arithmetic of the growth is the lemma `Grows`.

**Time service.** `ServiceImplementsReader` is `TimeSpec => Spec` of `RecvBuffer`: each
step of the server is a step of the peer (a byte sent to the reader is `Arrive`, the
close is `PeerEnds`) or leaves the reader alone. The invariant that it needs is that
a peer that is served has not closed yet, and has sent as much as `out` says. With it
`WholeMessage` carries over, and since the server closes after the whole answer
unless the reader itself has given up, `TimeSafe` follows. `DescriptorsKept` is an
induction over the ways in which a client is left.

**TCP file transfer.** `DownloadSafe`: an answer is given for what the one `read()` took
of the name (`Answered`), the client does what it was told (`Obeyed`), the bytes of the
file are in the connection or were read (`Chunks`), what was read is on the disk unless
the disk failed (`Stored`), and the connection is reset only by a cut or by a rest of the
name that nobody read (`NoReset`). Each of the failures that the programs pass
over is thus the reason for one kind of loss only.

**Duplex chat.** `NoOrphan` and `EndIsReal` need to know that a side that is closed
stays closed (`ClosedStays`: only a parent forks, and a side has no child before
its fork) and that a FIN comes from a closed side (`FinIsReal`). `NoneLeft` is that a
parent of the client that is past its `kill()`, or gone, has no running child. Then whoever reads 0
bytes without a reset has read everything, and nothing can follow. `Keeps` states
what all steps of the processes have in common.

**Start-up.** `PortSafe` goes by the kinds of parsing; the arithmetic is that `htons()`
is the identity on 1 to 65535. `OneSocketSafe` needs a fact about all 31 records,
that a socket is made before anything is called on one and that "next" and "close"
come after it, stated as lemmas about the records, and then counts. `StartTypeCorrect`
says that no program runs past its calls or its addresses. `SocketSafe` needs another
fact about the records (`Careful`: a program outside `Unchecked` notices the failure of
each call that it needs, and leaves the address or ends), the calls that are in `done`
(`DoneSoFar`), and that an address that was left behind does not work (`Skipped`).

**Chat room V1.** `NameInLine`: the name can only be missing if the input had ended
when it was to be read, with nothing in the kernel or in the buffer of stdio; and
then no line follows. The invariant states that for each client, and that a name of
length 0 is otherwise one that was typed so (`Nul`). `RoomTypeCorrect`
needs an account of the lines (`Budget`: those typed, read ahead, in hand and said are
never more than the user has). `HeardSafe` is about two connections and the server
between them. `HInv` counts the lines that the server has taken from each client
(`Taken`): those after them are under way to it, in order (`GoingUp`); the last of them is
what it sends (`InTheServer`); and what another client knows of them is a run of lines
that goes up to the last taken, or to the one before while the last is still to be
sent to it (`Shown`). A client that is not accepted yet knows nothing, and nothing was
taken from it, also when it has left already (`Unaccepted`).

**UDP exchange.** `OnlyServer`: before `connect()` the queue may hold anything; after it
a socket takes the server's only; the drain empties what came before. The invariant
is that from "ready" on, the queue of a basic client holds the server's alone.
`ExchangeTypeCorrect` needs that what is under way to or from a client bears its
name (`Directions`). `InStepSafe` rests on `Turns`: a client that waits has at most one
thing on its way, and it is in one of four places (the network, the server's socket,
the command at work, the client's socket); a client that is ready has none.
A loss takes it away, and then the client waits for ever and no answer is mistaken.

Only proved, and in no run: the types of `RecvBuffer`, `DuplexChat` and `Startup`,
`LeavesRoom`, `RefusedAtLimit` and `NoneLeaked`.

Only model-checked: the liveness properties (`ServerReturns`, `NoStarvation`,
`HeldByClient`, `SocketRead`, `LinesGoOut`, `Ends` of both, `EveryoneServed`, `PageEnds`,
`DisconnectSeen`, `SendReturns`, `Answered`), which are out of the reach of the prover.

## 5. What is not modelled

Prompts, the parsing of IP addresses, formatting and the escaping of output; what the
commands of the command server print, and the numbers of the statistics. The contents
of bytes, except for which unit is whose, and what a write before an array damages.

What two properties do not say: in `CompleteUnlessLost` a chunk of which `write()` stored a
part counts as written; and a connection that is cut on the reader's side is an error of
`recv()` in `RecvBuffer`, and does not occur in `TimeService`.

The network dashboards print once what the kernel reports of the interfaces and keep no
state. Four programs are modelled in their start only: the port scanner repeats one turn
for each port; the first basic TCP programs send and receive one message with no
checks and no loop; of the first time service the client is one `recv()` and the server
names an undeclared variable, so that it does not compile; the first duplex chat behaves
after its `fork()` as the second server does on both sides.

## 6. Disagreements between the code and its documents

* `ValidTokenAccepted` (`chat_token`): the chat server judges the AUTH line by one
  burst of `recv()`; TCP may deliver it in parts or with the next line, and the
  client is refused although its token is right: in the run because the server reads
  when only the first part has arrived. The document on the edits assumes that a read
  is a line.
* `DoneIsStored` (`transfer_short`): the V2 file server compares `write()` with -1 only. A
  datagram of which a part was stored counts as written, and the transfer is
  reported as complete, wherever in the file that was: the result that
  `explain_file_transfer_serverV2.txt:71` names as the defect of the first version.
* `OthersNeverEnd` (`transfer_v1`): in the first file server any sender's empty
  datagram ends the transfer as a success, against the comment on
  `same_client()`. Repaired in V2 (`OnlyClientSafe`).
* `SendPartEnds` (`duplex_parent`): the signal that was added to the duplex client so
  that its sender ends with the server is sent on one path of the reader only; after
  a timeout nobody sends it.

What the runs that pass say, where it is less than a reader would hope:

* A nickname that begins with a zero byte makes the chat client write the byte before
  `message` (`chat_room_client.c:140`; `NameInLine` names the case).
* "Done" stands over an incomplete file also when the client's `fwrite()` or `fclose()`
  fails (`file_transfer_client.c:86`, `:90`) or the server's `fread()` does
  (`file_server.c:75`): `DownloadIsWhole` says which failure costs what.
* A duplex server whose `fork()` failed never reads, and blocks a client that sends
  enough (`duplex_chat_serverV2.c:99`; `SendReturns` is about the client's sends only,
  and names this case).
* The chat clients spin at the end of stdin and no longer read the socket
  (`chat_room_cilentV2.c:142`); a pasted line may wait for the next key press
  (`LinesGoOut`).
* The first chat server stops while one client does not read, and dies of SIGPIPE when
  it sends twice to a client that has closed (`chat_room_server.c:119`).
* The second time client uses what `parse_port()` returns without a look: a port that is
  refused becomes 65535 (`TCP_time_clientV2.c:37`). The programs with `atoi()` take the
  low 16 bits of whatever comes out.
* The client of the statistics fails with every answer
  (`current_user_and_load_CPU_clinet.c:122`).
* The command client waits for ever for an answer that was lost, and does not empty its
  socket before it asks, as the basic client does: a copied answer shifts all
  that follow. A command that does not end holds the server for all.
* A file name that TCP splits is answered by its first part, and the rest of it,
  unread, resets the connection in the middle of the file, which the client
  reports as done (`file_server.c:57`, `file_transfer_client.c:85`).
* `recv_timeout()` leaves after one chunk and a pause, and never when the web server closes
  without data (`fetch_web_page.c:37-42`).

## 7. Plan

Of the proofs, what the liveness properties rest on: that each step of a broadcast, of a
scan and of the receive loops brings its end nearer, and that what may block does so only
where the properties say. Of the code, the first duplex chat as a variant of `DuplexChat`
(no signals, chunks shown up to their first zero byte).
