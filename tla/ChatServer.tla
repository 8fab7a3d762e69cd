----------------------------- MODULE ChatServer -----------------------------
(***************************************************************************)
(* The chat server of TCP/chat_room/chat_room_server/chat_room_serverV2.c: *)
(* one thread that select()s over a listening socket and one descriptor    *)
(* per client, authenticates each client by its first read, and sends what *)
(* an authenticated client writes to every other authenticated client.     *)
(* The clients (chat_room_cilentV2.c) and the TCP connections between them *)
(* are the environment.                                                    *)
(*                                                                         *)
(* Data are counted, not spelled out.  A client's byte stream is cut into  *)
(* units: units 1..AuthLen are its "AUTH <token>\n" line, the last of them *)
(* the newline, and every later unit is a chat line.  TCP keeps the order  *)
(* of units and may split or join them anywhere.                           *)
(***************************************************************************)
EXTENDS Naturals, Sequences, FiniteSets

CONSTANTS
    Conns,       \* connection lifetimes: one element per connect()
    Members,     \* those whose client sends the server's CHAT_TOKEN
    NoConn,      \* conn[f] of a closed descriptor
    Listener,    \* the listening descriptor, lower than every client's
    FdSetSize,   \* FD_SETSIZE
    OpenMax,     \* the limit on open descriptors (RLIMIT_NOFILE)
    AuthLen,     \* units of the AUTH line, its newline included
    MaxMsg,      \* MAX_MSG_SIZE
    SendBuf,     \* units TCP holds for a client that does not read
    MaxUnits,    \* MaxUnits[c]: bound on the units c's client ever sends
    Leavers,     \* bound: the clients that may close or lose their connection
    AllocFails   \* whether malloc and realloc may return NULL

ASSUME ConstantsAssumption ==
    /\ Members \subseteq Conns /\ Leavers \subseteq Conns
    /\ NoConn \notin Conns
    /\ {Listener, FdSetSize, OpenMax, SendBuf} \subseteq Nat
    /\ MaxUnits \in [Conns -> Nat]
    /\ AuthLen \in Nat /\ AuthLen >= 1
    /\ MaxMsg \in Nat /\ MaxMsg >= 1
    /\ Listener < FdSetSize /\ Listener < OpenMax
    /\ AllocFails \in BOOLEAN

FD == Listener + 1 .. OpenMax - 1       \* what accept() may return

VARIABLES
    (* the server *)
    pc,          \* "select", "scan", "recv" and "broadcast" (the two loops of a
                 \* handler) or "exit"
    list,        \* the fd_set of registered descriptors
    read_list,   \* the part of select()'s result the scan has not reached
    max_set,     \* the highest descriptor ever registered
    authed,      \* authed[f], which a close leaves as it is
    conn,        \* the connection behind each client descriptor, or NoConn
    me,          \* i, the descriptor whose handler runs
    total,       \* units that recv() has put into the handler's buffer
    todo,        \* the descriptors the broadcast loop still has to serve
    sent,        \* units of the line already sent to the lowest of todo
    hung_up,     \* recv() returned 0 in this handler
    (* the connections *)
    backlog,     \* connected and not yet accepted, oldest first
    cl,          \* cl[c]: "init", "open", "fin" (closed by the client), "rst"
                 \* (reset), "gone" (closed by the server)
    queue,       \* units of c that have arrived and wait for recv()
    taken,       \* units of c that recv() has returned, whatever became of them
    stream,      \* what the server has sent to c, as <<line, unit>> pairs
    unread,      \* units of stream[c] that TCP holds for the client
    (* history *)
    log,         \* the lines broadcast: author and range of its units
    joined,      \* joined[c]: Len(log) when c was authenticated
    proved,      \* connections whose AUTH line was accepted
    refused      \* connections closed for failing authentication

server == <<pc, list, read_list, max_set, authed, conn, me, total, todo, sent,
            hung_up>>
history == <<log, joined, proved, refused>>
network == <<backlog, cl, queue, taken, stream, unread>>
vars == <<server, network, history>>

Init ==
    /\ pc = "select"
    /\ list = {Listener}
    /\ read_list = {}
    /\ max_set = Listener
    /\ authed = [f \in FD |-> FALSE]
    /\ conn = [f \in FD |-> NoConn]
    /\ me = Listener
    /\ total = 0
    /\ todo = {}
    /\ sent = 0
    /\ hung_up = FALSE
    /\ backlog = <<>>
    /\ cl = [c \in Conns |-> "init"]
    /\ queue = [c \in Conns |-> 0]
    /\ taken = [c \in Conns |-> 0]
    /\ stream = [c \in Conns |-> <<>>]
    /\ unread = [c \in Conns |-> 0]
    /\ log = <<>>
    /\ joined = [c \in Conns |-> 0]
    /\ proved = {}
    /\ refused = {}

-----------------------------------------------------------------------------
(* The clients and the network *)

clientUnchanged == UNCHANGED <<server, taken, stream, history>>

\* connect(): the handshake ends in the kernel, whatever the server does.
Connect(c) ==
    /\ cl[c] = "init"
    /\ cl' = [cl EXCEPT ![c] = "open"]
    /\ backlog' = Append(backlog, c)
    /\ UNCHANGED <<queue, unread>> /\ clientUnchanged

\* The next unit the client sent arrives: of its AUTH line first, then of
\* the lines its user typed.
Arrive(c) ==
    /\ cl[c] = "open"
    /\ taken[c] + queue[c] < MaxUnits[c]
    /\ queue' = [queue EXCEPT ![c] = @ + 1]
    /\ UNCHANGED <<backlog, cl, unread>> /\ clientUnchanged

\* recv() at the client takes a unit, in its loop on the socket.
Read(c) ==
    /\ cl[c] = "open"
    /\ unread[c] > 0
    /\ unread' = [unread EXCEPT ![c] = @ - 1]
    /\ UNCHANGED <<backlog, cl, queue>> /\ clientUnchanged

\* The client closes its socket ("/quit", an error, or the end of the
\* process).  What it wrote still arrives, the AUTH line as a whole or not
\* at all; unread data turn the close into a reset.
Quit(c) ==
    /\ c \in Leavers /\ cl[c] = "open"
    /\ taken[c] + queue[c] = 0 \/ taken[c] + queue[c] >= AuthLen
    /\ cl' = [cl EXCEPT ![c] = IF unread[c] > 0 THEN "rst" ELSE "fin"]
    /\ UNCHANGED <<backlog, queue, unread>> /\ clientUnchanged

\* The connection is reset: data reached a closed socket, or the client's
\* machine or path went away.
Reset(c) ==
    /\ \/ cl[c] = "fin" /\ unread[c] > 0
       \/ cl[c] = "open" /\ c \in Leavers
    /\ cl' = [cl EXCEPT ![c] = "rst"]
    /\ UNCHANGED <<backlog, queue, unread>> /\ clientUnchanged

ClientNext == \E c \in Conns :
    Connect(c) \/ Arrive(c) \/ Read(c) \/ Quit(c) \/ Reset(c)

-----------------------------------------------------------------------------
(* The server: helpers *)

Open == {f \in FD : conn[f] # NoConn}

\* Readable for select(): data, end of file, or a pending socket error.
Readable(f) == queue[conn[f]] > 0 \/ cl[conn[f]] \in {"fin", "rst"}

Lowest(f, S) == f \in S /\ \A g \in S : f <= g

\* accept() takes the lowest descriptor that is not in use.
Free == FD \ Open

\* What an fd_set and the array authed can hold.
Fits_OffByOne(f) == f <= FdSetSize
Fits(f) == f < FdSetSize

\* The descriptors that a line read from f goes to.
Recipients_ShortOfMax(f) == {j \in list : /\ j < max_set
                                          /\ j # Listener
                                          /\ j # f
                                          /\ authed[j]}
Recipients_AnyClient(f) == list \ {Listener, f}
Recipients(f) == {j \in list : /\ j <= max_set
                               /\ j # Listener
                               /\ j # f
                               /\ authed[j]}

\* check_auth() on what the first handler of c has read: the whole line, with
\* or without the newline that it strips, and nothing after it.
check_auth(c) == /\ c \in Members /\ taken[c] = total
                 /\ total \in {AuthLen - 1, AuthLen}

\* close() of a connection: what TCP still held of it no longer matters.
Close(c) ==
    /\ cl' = [cl EXCEPT ![c] = "gone"]
    /\ queue' = [queue EXCEPT ![c] = 0]
    /\ unread' = [unread EXCEPT ![c] = 0]

\* close(f) and FD_CLR(f, &list).
Drop(f) ==
    /\ conn' = [conn EXCEPT ![f] = NoConn]
    /\ list' = list \ {f}
    /\ Close(conn[f])

\* A recipient that cannot take a line is dropped, also from what select()
\* reported.
CutOff_Skips(j) == UNCHANGED <<conn, list, read_list, cl, queue, unread>>
CutOff_KeepsReady(j) == Drop(j) /\ UNCHANGED read_list
CutOff(j) == Drop(j) /\ read_list' = read_list \ {j}

\* The scan is done with descriptor f.
Passed(f) == read_list' = read_list \ {f}

\* The whole scan: f is the lowest ready descriptor and not the listener.
Serving(f) == pc = "scan" /\ f \in FD /\ Lowest(f, read_list)

-----------------------------------------------------------------------------
(* The server: the loop over select() *)

\* What select() would report.
ReadyClients == {f \in list \ {Listener} : f <= max_set /\ Readable(f)}
Ready == ReadyClients \cup IF backlog = <<>> THEN {} ELSE {Listener}

\* select() fails on a closed descriptor (EBADF), and the server exits;
\* otherwise it sleeps until something is ready and reports all that is.
Select ==
    /\ pc = "select"
    /\ IF list \ {Listener} \subseteq Open
       THEN Ready # {} /\ read_list' = Ready /\ pc' = "scan"
       ELSE pc' = "exit" /\ read_list' = list
    /\ UNCHANGED <<list, max_set, authed, conn, me, total, todo, sent, hung_up>>
    /\ UNCHANGED <<network, history>>

ScanDone ==
    /\ pc = "scan" /\ read_list = {}
    /\ pc' = "select"
    /\ UNCHANGED <<list, read_list, max_set, authed, conn, me, total, todo, sent,
                   hung_up>>
    /\ UNCHANGED <<network, history>>

Listening == pc = "scan" /\ Lowest(Listener, read_list)

acceptUnchanged ==
    UNCHANGED <<pc, me, total, todo, sent, hung_up, taken, stream, history>>

\* For want of descriptors or memory (EMFILE, ENOBUFS) the connection stays
\* in the backlog and select() reports it again; one that was reset before
\* it was accepted (ECONNABORTED) has left it.
AcceptFails ==
    /\ Listening
    /\ \/ UNCHANGED <<backlog, cl, queue, unread>>
       \/ /\ cl[Head(backlog)] = "rst"
          /\ Close(Head(backlog))
          /\ backlog' = Tail(backlog)
    /\ Passed(Listener)
    /\ UNCHANGED <<list, max_set, authed, conn>>
    /\ acceptUnchanged

\* A new client is watched, and has not authenticated.
Register_KeepsFlag(f) ==
    /\ list' = list \cup {f}
    /\ UNCHANGED authed
    /\ max_set' = IF f > max_set THEN f ELSE max_set
Register_KeepsMax(f) ==
    /\ list' = list \cup {f}
    /\ authed' = [authed EXCEPT ![f] = FALSE]
    /\ UNCHANGED max_set
Register(f) ==
    /\ list' = list \cup {f}
    /\ authed' = [authed EXCEPT ![f] = FALSE]
    /\ max_set' = IF f > max_set THEN f ELSE max_set

Accept ==
    /\ Listening
    /\ \E f \in Free :
         /\ Lowest(f, Free)
         /\ Fits(f)
         /\ conn' = [conn EXCEPT ![f] = Head(backlog)]
         /\ Register(f)
    /\ backlog' = Tail(backlog)
    /\ Passed(Listener)
    /\ UNCHANGED <<cl, queue, unread>>
    /\ acceptUnchanged

\* A descriptor that an fd_set cannot hold is closed at once.
AcceptTooHigh ==
    /\ Listening
    /\ \E f \in Free : Lowest(f, Free) /\ ~Fits(f)
    /\ Close(Head(backlog))
    /\ backlog' = Tail(backlog)
    /\ Passed(Listener)
    /\ UNCHANGED <<list, max_set, authed, conn>>
    /\ acceptUnchanged

-----------------------------------------------------------------------------
(* The server: a ready client.  recv() is repeated until nothing more has  *)
(* arrived; what arrives between two calls is read with the rest.          *)

\* malloc() comes first; without a buffer the client is closed unread.
RecvStart(f) ==
    /\ Serving(f)
    /\ pc' = "recv" /\ me' = f
    /\ Passed(f)
    /\ UNCHANGED <<list, max_set, authed, conn, total, todo, sent, hung_up>>
    /\ UNCHANGED <<network, history>>

MallocFails(f) ==
    /\ Serving(f) /\ AllocFails
    /\ Drop(f) /\ Passed(f)
    /\ UNCHANGED <<pc, max_set, authed, me, total, todo, sent, hung_up>>
    /\ UNCHANGED <<backlog, taken, stream, history>>

Author == conn[me]
Reading == pc = "recv"

recvUnchanged == UNCHANGED <<read_list, max_set, sent, backlog, stream>>

\* recv() takes at least a unit, and puts it behind what the buffer holds,
\* which grows up to MAX_MSG_SIZE.
Recv_Overwrites ==
    /\ Reading /\ queue[Author] > 0
    /\ total + 1 < MaxMsg
    /\ total' = 1
    /\ queue' = [queue EXCEPT ![Author] = @ - 1]
    /\ taken' = [taken EXCEPT ![Author] = @ + 1]
    /\ UNCHANGED <<pc, list, authed, conn, me, todo, hung_up, cl, unread, history>>
    /\ recvUnchanged
Recv ==
    /\ Reading /\ queue[Author] > 0
    /\ total + 1 < MaxMsg
    /\ total' = total + 1
    /\ queue' = [queue EXCEPT ![Author] = @ - 1]
    /\ taken' = [taken EXCEPT ![Author] = @ + 1]
    /\ UNCHANGED <<pc, list, authed, conn, me, todo, hung_up, cl, unread, history>>
    /\ recvUnchanged

\* The handler gives up: its client is closed.
GiveUp ==
    /\ Drop(me)
    /\ pc' = "scan" /\ me' = Listener /\ total' = 0
    /\ UNCHANGED <<authed, todo, hung_up, log, joined, proved>>
    /\ recvUnchanged

\* recv() fills a buffer of MAX_MSG_SIZE or one that realloc() cannot make
\* longer, or it returns an error: what was read is not broadcast.
RecvFails ==
    /\ Reading
    /\ \/ /\ queue[Author] > 0
          /\ AllocFails \/ total + 1 >= MaxMsg
          /\ taken' = [taken EXCEPT ![Author] = @ + 1]
       \/ cl[Author] = "rst" /\ UNCHANGED taken
    /\ GiveUp
    /\ UNCHANGED refused

\* recv() returns 0 at the end of the stream, or -1 with EAGAIN.
ReadAll == Reading /\ queue[Author] = 0 /\ cl[Author] # "rst"

RecvRefused ==
    /\ ReadAll /\ total > 0
    /\ ~authed[me] /\ ~check_auth(Author)
    /\ refused' = refused \cup {Author}
    /\ GiveUp
    /\ UNCHANGED taken

\* The handler's tail: broadcast to Js, then close if the client hung up.
Finish(Js) ==
    /\ pc' = "broadcast"
    /\ todo' = Js
    /\ hung_up' = (cl[Author] = "fin")
    /\ total' = 0
    /\ UNCHANGED <<list, conn, me, cl, queue, taken, unread, refused>>
    /\ recvUnchanged

\* What the handler has read, to be broadcast.
LineRead_LastSegment(c) == [from |-> c, first |-> taken[c], last |-> taken[c]]
LineRead(c) == [from |-> c, first |-> taken[c] + 1 - total, last |-> taken[c]]

RecvAuth_KeepsTotal ==
    /\ ReadAll /\ total > 0
    /\ ~authed[me] /\ check_auth(Author)
    /\ authed' = [authed EXCEPT ![me] = TRUE]
    /\ proved' = proved \cup {Author}
    /\ joined' = [joined EXCEPT ![Author] = Len(log)]
    /\ log' = Append(log, LineRead(Author))
    /\ Finish(Recipients(me))

RecvAuth ==
    /\ ReadAll /\ total > 0
    /\ ~authed[me] /\ check_auth(Author)
    /\ authed' = [authed EXCEPT ![me] = TRUE]
    /\ proved' = proved \cup {Author}
    /\ joined' = [joined EXCEPT ![Author] = Len(log)]
    /\ Finish({})
    /\ UNCHANGED log

RecvMessage ==
    /\ ReadAll /\ total > 0
    /\ authed[me]
    /\ log' = Append(log, LineRead(Author))
    /\ Finish(Recipients(me))
    /\ UNCHANGED <<authed, joined, proved>>

RecvNothing ==
    /\ ReadAll /\ total = 0
    /\ Finish({})
    /\ UNCHANGED <<authed, log, joined, proved>>

-----------------------------------------------------------------------------
(* The server: send_all() to each recipient in turn                        *)

Line == log[Len(log)]
LineLen == Line.last + 1 - Line.first
Sending(j) == pc = "broadcast" /\ Lowest(j, todo)

sendUnchanged ==
    UNCHANGED <<pc, max_set, authed, me, total, hung_up, backlog, taken, history>>

\* send() with MSG_DONTWAIT fails: reset, or EAGAIN as the buffers are full.
SendError_Waits(c) == cl[c] = "rst"
SendError(c) == cl[c] = "rst" \/ unread[c] >= SendBuf

\* send() moves at least a unit; at the line's end the loop goes on to the
\* next recipient.
SendUnit(j) ==
    /\ Sending(j)
    /\ cl[conn[j]] # "rst" /\ unread[conn[j]] < SendBuf
    /\ stream' = [stream EXCEPT ![conn[j]] = Append(@, <<Len(log), Line.first + sent>>)]
    /\ unread' = [unread EXCEPT ![conn[j]] = @ + 1]
    /\ IF sent + 1 = LineLen
       THEN sent' = 0 /\ todo' = todo \ {j}
       ELSE sent' = sent + 1 /\ UNCHANGED todo
    /\ UNCHANGED <<list, read_list, conn, cl, queue>>
    /\ sendUnchanged

SendFails(j) ==
    /\ Sending(j)
    /\ SendError(conn[j])
    /\ CutOff(j)
    /\ sent' = 0
    /\ todo' = todo \ {j}
    /\ UNCHANGED stream
    /\ sendUnchanged

BroadcastDone ==
    /\ pc = "broadcast" /\ todo = {}
    /\ pc' = "scan"
    /\ IF hung_up THEN Drop(me) ELSE UNCHANGED <<conn, list, cl, queue, unread>>
    /\ me' = Listener /\ hung_up' = FALSE      \* nobody's handler runs
    /\ UNCHANGED <<read_list, max_set, authed, total, todo, sent>>
    /\ UNCHANGED <<backlog, taken, stream, history>>

-----------------------------------------------------------------------------
ServerNext ==
    \/ Select \/ ScanDone
    \/ AcceptFails \/ Accept \/ AcceptTooHigh
    \/ \E f \in FD : RecvStart(f) \/ MallocFails(f)
    \/ Recv \/ RecvFails \/ RecvRefused \/ RecvAuth \/ RecvMessage \/ RecvNothing
    \/ \E j \in FD : SendUnit(j) \/ SendFails(j)
    \/ BroadcastDone

Next == ClientNext \/ ServerNext

Spec == Init /\ [][Next]_vars

\* The server's thread runs; nothing is assumed of a client or the network.
FairSpec == Spec /\ WF_vars(ServerNext)
-----------------------------------------------------------------------------
(* What the server keeps true *)

Watchable == {f \in FD \cup {Listener} : f < FdSetSize}

ServerTypeOK ==
    /\ pc \in {"select", "scan", "recv", "broadcast", "exit"}
    /\ list \subseteq Watchable
    /\ read_list \subseteq Watchable
    /\ max_set \in Watchable
    /\ authed \in [FD -> BOOLEAN]
    /\ conn \in [FD -> Conns \cup {NoConn}]
    /\ me \in FD \cup {Listener}
    /\ todo \subseteq FD
    /\ total \in Nat /\ total < MaxMsg
    /\ sent \in Nat
    /\ hung_up \in BOOLEAN

NetworkTypeOK ==
    /\ backlog \in Seq(Conns)
    /\ cl \in [Conns -> {"init", "open", "fin", "rst", "gone"}]
    /\ queue \in [Conns -> Nat]
    /\ taken \in [Conns -> Nat]
    /\ stream \in [Conns -> Seq(Nat \X Nat)]
    /\ unread \in [Conns -> Nat]

Lines == [from : Conns, first : Nat, last : Nat]

HistoryTypeOK ==
    /\ log \in Seq(Lines)
    /\ joined \in [Conns -> Nat]
    /\ proved \subseteq Conns
    /\ refused \subseteq Conns

\* Every variable has its type; no descriptor from FD_SETSIZE up is ever put
\* into an fd_set or indexes authed (the check after accept()), and what a
\* handler keeps of its reads leaves room for the terminator.
TypeOK == ServerTypeOK /\ NetworkTypeOK /\ HistoryTypeOK

\* The fd_sets and the descriptor table agree at every step: each accepted
\* descriptor is watched until it is closed (none leaks), no closed one is
\* selected, scanned or sent to, the server never exits over one, and its
\* blocking accept() is called only with a connection to take.
DescriptorsAgree ==
    /\ pc # "exit"
    /\ list = Open \cup {Listener}
    /\ read_list \subseteq list
    /\ todo \subseteq Open \ {me}
    /\ pc \in {"recv", "broadcast"} => me \in Open
    /\ \A f \in list : f <= max_set
    /\ Listener \in read_list => backlog # <<>>

\* authed[] speaks of the connection that holds the descriptor now, although
\* a close leaves it set: only a connection whose own AUTH line was accepted
\* is heard, and only such a one receives anything.
Authenticated ==
    /\ \A f \in Open : authed[f] <=> conn[f] \in proved
    /\ proved \subseteq Members
    /\ \A n \in 1 .. Len(log) : log[n].from \in proved
    /\ \A c \in Conns : stream[c] # <<>> => c \in proved

\* No part of a token reaches another client: the earliest unit ever
\* broadcast is the AUTH line's newline, when recv() split it off.
TokenKept == \A n \in 1 .. Len(log) : log[n].first >= AuthLen

\* The unit u of c is in the buffer of the handler that runs.
InBuffer(c, u) == /\ pc = "recv" /\ Author = c
                  /\ taken[c] - total < u /\ u <= taken[c]

\* The unit u of c is part of a line that was broadcast.
Broadcast(c, u) == \E n \in 1 .. Len(log) :
    log[n].from = c /\ log[n].first <= u /\ u <= log[n].last

\* The unit u of c was read by the handler in which c was closed: neither it
\* nor anything that came after it was broadcast.
ReadInVain(c, u) == /\ cl[c] = "gone"
                    /\ \A n \in 1 .. Len(log) : log[n].from = c => log[n].last < u

\* What recv() takes from an authenticated client is broadcast once and in
\* its order, however TCP cut it and whatever arrived between two calls.  A
\* handler that fails loses what it has read, but then it closes the client,
\* so that nothing ever follows the gap.
EachUnitOnce ==
    /\ \A n \in 1 .. Len(log) :
         /\ log[n].first <= log[n].last /\ log[n].last <= taken[log[n].from]
         /\ \A m \in 1 .. n - 1 : log[m].from = log[n].from
                                    => log[m].last < log[n].first
    /\ \A c \in proved : \A u \in AuthLen + 1 .. taken[c] :
         Broadcast(c, u) \/ InBuffer(c, u) \/ ReadInVain(c, u)

\* Between the lines m and n there is nothing that c should hear.
OwnBetween(c, m, n) == \A k \in m + 1 .. n - 1 : log[k].from = c

\* The unit e may be followed by the unit g in what c is sent.
MayFollow(c, e, g) ==
    IF e[2] < log[e[1]].last
    THEN g = <<e[1], e[2] + 1>>
    ELSE g[1] > e[1] /\ g[2] = log[g[1]].first /\ OwnBetween(c, e[1], g[1])

\* What a client is sent is whole lines of the others, in the order of the
\* log from its authentication on, none skipped, none repeated, and only the
\* last possibly cut short: no line ever follows a part of another.
StreamWhole ==
    \A c \in Conns : LET s == stream[c] IN
        /\ \A p \in 1 .. Len(s) : log[s[p][1]].from # c
        /\ s # <<>> => /\ s[1][1] > joined[c] /\ s[1][2] = log[s[1][1]].first
                       /\ OwnBetween(c, joined[c], s[1][1])
        /\ \A p \in 1 .. Len(s) - 1 : MayFollow(c, s[p], s[p + 1])

\* c has been sent, to the last unit, all that the others said.
CaughtUpConn(c) ==
    IF stream[c] = <<>>
    THEN OwnBetween(c, joined[c], Len(log) + 1)
    ELSE LET e == stream[c][Len(stream[c])] IN
         e[2] = log[e[1]].last /\ OwnBetween(c, e[1], Len(log) + 1)

\* Except while it broadcasts, every client that the server still serves has
\* been sent everything: dropping a slow or broken recipient takes
\* nothing from the others.
CaughtUp == pc \in {"select", "scan", "recv"} =>
    \A f \in Open : authed[f] => CaughtUpConn(conn[f])

\* The server always comes back to select(): no client can hold it, neither
\* one that does not read nor one that keeps writing.
ServerReturns == []<>(pc = "select")

\* A served client's data are read to the last unit, or it is closed: neither
\* the bound of the scan, nor drops in the middle of it, nor the other clients'
\* lines pass it over for ever.
NoStarvation == \A c \in Conns :
    ((\E f \in FD : conn[f] = c) /\ queue[c] > 0) ~> (queue[c] = 0)

\* A client that presents the right token is not refused ("AUTH" lines are
\* read with one recv(), which TCP does not align with the client's send()).
ValidTokenAccepted == refused \cap Members = {}

-----------------------------------------------------------------------------
(* The server implements the chat room: a member is an authenticated        *)
(* connection, and a line is heard when its last unit is sent.              *)

LastUnits == {<<n, log[n].last>> : n \in 1 .. Len(log)}

\* The lines that a stream has the last unit of, in its order.
LineEnds(s) ==
    LET E[n \in 0 .. Len(s)] ==
            IF n = 0 THEN <<>>
            ELSE IF s[n] \in LastUnits THEN Append(E[n - 1], s[n][1]) ELSE E[n - 1]
    IN E[Len(s)]

Present == {c \in proved : cl[c] # "gone"}
Past == {c \in proved : cl[c] = "gone"}
Said == [n \in 1 .. Len(log) |-> log[n].from]
Heard == [c \in Conns |-> LineEnds(stream[c])]

Chat == INSTANCE ChatRoom WITH
    present <- Present, past <- Past, said <- Said, since <- joined, heard <- Heard

\* Every step of the server is a step of the room, or none.
ImplementsRoom == Chat!RoomSpec
=============================================================================
