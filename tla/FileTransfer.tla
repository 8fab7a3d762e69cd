---------------------------- MODULE FileTransfer ----------------------------
(***************************************************************************)
(* The UDP file transfer of UDP/file_transfer_UDP: the server              *)
(* (file_transfer_serverV2.c, or file_transfer_server.c when Secure is     *)
(* FALSE), the clients (file_transfer_client.c), strangers that send to    *)
(* the same port, and the network between them.                            *)
(*                                                                         *)
(* The server waits for the token, takes whoever sent it as its client,    *)
(* and writes that client's datagrams to a file until an empty one comes.  *)
(* Nothing is acknowledged.  A file is Chunks datagrams of one unit each.  *)
(***************************************************************************)
EXTENDS Integers, Sequences, FiniteSets

CONSTANTS
    Clients,     \* senders that run the client program with the token
    Strangers,   \* other senders to the server's port
    Nobody,      \* auth_clt before a token was accepted
    Chunks,      \* datagrams of data in each client's file
    EofRepeat,   \* EOF_REPEAT
    MaxFile,     \* MAX_FILE_BYTES
    IdleLimit,   \* IDLE_LIMIT, in ticks of the clock
    QueueLen,    \* datagrams that the server's socket buffer holds
    Copies,      \* bound: duplicates that the network makes
    Secure,      \* TRUE: file_transfer_serverV2.c; FALSE: file_transfer_server.c
    Ordered,     \* whether the network keeps the order of a client's datagrams
    Faults       \* what may fail: "disk", "clock" (set by hand), "send" (client)

ASSUME ConstantsAssumption ==
    /\ Clients \cap Strangers = {}
    /\ Nobody \notin Clients \cup Strangers
    /\ {Chunks, EofRepeat, MaxFile, QueueLen, Copies} \subseteq Nat
    /\ IdleLimit \in Nat \ {0}
    /\ Secure \in BOOLEAN /\ Ordered \in BOOLEAN
    /\ Faults \subseteq {"disk", "clock", "send"}

Senders == Clients \cup Strangers

Datagram == [from : Senders, kind : {"token", "chunk", "empty", "junk"}, i : 0 .. Chunks]

VARIABLES
    state,       \* the server: "auth", "open", "recv", then "done" or "failed"
    auth_clt,    \* the sender whose token was accepted
    queue,       \* datagrams in the server's socket buffer
    file,        \* what was written: datagrams, and whether write() took the
                 \* whole of each
    count,       \* the server's count of bytes
    idle,        \* clock ticks since t_last; -1 when the clock is behind it
    waited,      \* ticks that the running recvfrom() has waited
    cl,          \* cl[c]: the client's phase
    next,        \* next[c]: the next chunk or, in phase "eof", EOFs sent
    net,         \* net[c]: datagrams of c under way
    copies,      \* duplicates made so far
    lost,        \* datagrams lost on the way or at a full socket buffer
    endedBy      \* the sender of the datagram that ended the transfer

server == <<state, auth_clt, file, count, endedBy>>
clock == <<idle, waited>>
client == <<cl, next>>
vars == <<server, clock, client, queue, net, copies, lost>>

Init ==
    /\ state = "auth"
    /\ auth_clt = Nobody
    /\ queue = <<>>
    /\ file = <<>>
    /\ count = 0
    /\ idle = 0
    /\ waited = 0
    /\ cl = [c \in Clients |-> "token"]
    /\ next = [c \in Clients |-> 0]
    /\ net = [c \in Clients |-> <<>>]
    /\ copies = 0
    /\ lost = {}
    /\ endedBy = Nobody

-----------------------------------------------------------------------------
(* The clients: the token, the chunks, EOF_REPEAT empty datagrams.          *)

Dgram(c, kind, i) == [from |-> c, kind |-> kind, i |-> i]

\* sendto() hands a datagram to the network.
Sent(c, d) ==
    /\ net' = [net EXCEPT ![c] = Append(@, d)]
    /\ UNCHANGED <<server, clock, queue, copies, lost>>

SendToken(c) ==
    /\ cl[c] = "token"
    /\ Sent(c, Dgram(c, "token", 0))
    /\ cl' = [cl EXCEPT ![c] = "data"]
    /\ next' = [next EXCEPT ![c] = 1]

SendChunk(c) ==
    /\ cl[c] = "data" /\ next[c] <= Chunks
    /\ Sent(c, Dgram(c, "chunk", next[c]))
    /\ next' = [next EXCEPT ![c] = @ + 1]
    /\ UNCHANGED cl

\* read() returns 0: the file is sent.
FileSent(c) ==
    /\ cl[c] = "data" /\ next[c] > Chunks
    /\ cl' = [cl EXCEPT ![c] = "eof"]
    /\ next' = [next EXCEPT ![c] = 0]
    /\ UNCHANGED <<server, clock, queue, net, copies, lost>>

SendEof(c) ==
    /\ cl[c] = "eof" /\ next[c] < EofRepeat
    /\ Sent(c, Dgram(c, "empty", 0))
    /\ next' = [next EXCEPT ![c] = @ + 1]
    /\ UNCHANGED cl

\* sendto() or read() fails: the client gives up, with success if only an
\* EOF was left to send.
SendFails(c) ==
    /\ "send" \in Faults
    /\ cl[c] \in {"token", "data", "eof"}
    /\ cl' = [cl EXCEPT ![c] = IF cl[c] = "eof" THEN "done" ELSE "failed"]
    /\ UNCHANGED <<server, clock, next, queue, net, copies, lost>>

\* The client reports the transfer as done.
ClientDone(c) ==
    /\ cl[c] = "eof" /\ next[c] = EofRepeat
    /\ cl' = [cl EXCEPT ![c] = "done"]
    /\ UNCHANGED <<server, clock, next, queue, net, copies, lost>>

ClientNext == \E c \in Clients :
    \/ SendToken(c) \/ SendChunk(c) \/ FileSent(c) \/ SendEof(c)
    \/ SendFails(c) \/ ClientDone(c)

-----------------------------------------------------------------------------
(* The network and the strangers                                           *)

RemoveAt(s, k) == SubSeq(s, 1, k - 1) \o SubSeq(s, k + 1, Len(s))

\* A datagram reaches the server's socket: a full buffer drops it.
Reaches(d) ==
    IF Len(queue) < QueueLen
    THEN queue' = Append(queue, d) /\ UNCHANGED lost
    ELSE lost' = lost \cup {d} /\ UNCHANGED queue

netUnchanged == UNCHANGED <<server, clock, client>>

Deliver(c) == \E k \in 1 .. Len(net[c]) :
    /\ Ordered => k = 1
    /\ Reaches(net[c][k])
    /\ net' = [net EXCEPT ![c] = RemoveAt(@, k)]
    /\ UNCHANGED copies /\ netUnchanged

Duplicate(c) == \E k \in 1 .. Len(net[c]) :
    /\ copies < Copies
    /\ Ordered => k = 1
    /\ Reaches(net[c][k])
    /\ copies' = copies + 1
    /\ UNCHANGED net /\ netUnchanged

Lose(c) == \E k \in 1 .. Len(net[c]) :
    /\ lost' = lost \cup {net[c][k]}
    /\ net' = [net EXCEPT ![c] = RemoveAt(@, k)]
    /\ UNCHANGED <<queue, copies>> /\ netUnchanged

\* A stranger's datagram, empty or not, finds room in the socket buffer.
Stray(s) ==
    /\ state \notin {"done", "failed"}
    /\ Len(queue) < QueueLen
    /\ \E kind \in {"empty", "junk"} : queue' = Append(queue, Dgram(s, kind, 0))
    /\ UNCHANGED <<net, copies, lost>> /\ netUnchanged

\* Time passes.
Tick ==
    /\ state = "recv"
    /\ idle < IdleLimit \/ waited < IdleLimit
    /\ idle' = IF idle < IdleLimit THEN idle + 1 ELSE idle
    /\ waited' = IF waited < IdleLimit THEN waited + 1 ELSE waited
    /\ UNCHANGED <<server, client, queue, net, copies, lost>>

\* The clock is set back: gettimeofday() is not monotonic.
ClockSetBack ==
    /\ "clock" \in Faults /\ state = "recv" /\ idle >= 0
    /\ idle' = -1
    /\ UNCHANGED <<server, waited, client, queue, net, copies, lost>>

Environment ==
    \/ \E c \in Clients : Deliver(c) \/ Duplicate(c) \/ Lose(c)
    \/ \E s \in Strangers : Stray(s)
    \/ ClockSetBack

-----------------------------------------------------------------------------
(* The server                                                              *)

serverUnchanged == UNCHANGED <<client, net, copies, lost>>

\* recvfrom() returns d, and the next one starts to wait.
Received(d) ==
    /\ queue # <<>> /\ d = Head(queue)
    /\ queue' = Tail(queue)
    /\ waited' = 0

\* The first loop: the raw token authenticates its sender; everything else
\* is ignored.
AuthIgnores(d) ==
    /\ state = "auth" /\ Received(d)
    /\ d.kind # "token"
    /\ UNCHANGED <<server, idle>> /\ serverUnchanged

AuthAccepts_KeepsBuffer(d) ==
    /\ state = "auth" /\ Received(d)
    /\ d.kind = "token"
    /\ auth_clt' = d.from
    /\ state' = "open"
    /\ file' = <<[dgram |-> d, whole |-> TRUE]>> /\ count' = 1
    /\ UNCHANGED <<endedBy, idle>> /\ serverUnchanged

AuthAccepts(d) ==
    /\ state = "auth" /\ Received(d)
    /\ d.kind = "token"
    /\ auth_clt' = d.from
    /\ state' = "open"
    /\ UNCHANGED <<file, count, endedBy, idle>> /\ serverUnchanged

\* The output file is opened and truncated, and t_last set.
OpenFile ==
    /\ state = "open"
    /\ idle' = 0 /\ waited' = 0
    /\ state' = "recv"
    /\ UNCHANGED <<auth_clt, file, count, endedBy, queue>> /\ serverUnchanged

OpenFails ==
    /\ "disk" \in Faults /\ state = "open"
    /\ state' = "failed"
    /\ UNCHANGED <<auth_clt, file, count, endedBy, queue, clock>>
    /\ serverUnchanged

Fail == state' = "failed" /\ UNCHANGED <<auth_clt, file, count, endedBy, idle>>

\* SO_RCVTIMEO: recvfrom() returned nothing for IDLE_LIMIT seconds.
Timeout ==
    /\ state = "recv" /\ queue = <<>>
    /\ waited >= IdleLimit
    /\ Fail /\ UNCHANGED <<queue, waited>> /\ serverUnchanged

same_client_AnyPort(d) == d.from \in Senders
same_client(d) == d.from = auth_clt

\* file_transfer_server.c leaves its loop, "while (n)", on any empty datagram.
EndsFirst(d) == ~Secure /\ d.kind = "empty"

\* duration() since t_last is negative or at least IDLE_LIMIT.
Stale == idle < 0 \/ idle >= IdleLimit

IdleExit(d) ==
    /\ state = "recv" /\ Received(d)
    /\ ~EndsFirst(d) /\ Stale
    /\ Fail /\ serverUnchanged

\* Not from the client: t_last stays as it is.
Ignore_Restarts(d) ==
    /\ state = "recv" /\ Received(d)
    /\ ~EndsFirst(d) /\ ~Stale /\ ~same_client(d)
    /\ idle' = 0
    /\ UNCHANGED server /\ serverUnchanged

Ignore(d) ==
    /\ state = "recv" /\ Received(d)
    /\ ~EndsFirst(d) /\ ~Stale /\ ~same_client(d)
    /\ UNCHANGED <<server, idle>> /\ serverUnchanged

Finish(d) ==
    /\ state = "recv" /\ Received(d)
    /\ EndsFirst(d) \/ (~Stale /\ same_client(d) /\ d.kind = "empty")
    /\ state' = "done"
    /\ endedBy' = d.from
    /\ UNCHANGED <<auth_clt, file, count, idle>> /\ serverUnchanged

\* A datagram of the client's data gets as far as the size limit, which only
\* the second version has.
Data(d) ==
    /\ state = "recv" /\ Received(d)
    /\ ~Stale /\ same_client(d) /\ d.kind # "empty"

Fits_TooLate == Secure => count <= MaxFile
Fits == Secure => count + 1 <= MaxFile

TooLarge_Succeeds(d) ==
    /\ Data(d) /\ ~Fits
    /\ state' = "done" /\ endedBy' = d.from
    /\ UNCHANGED <<auth_clt, file, count, idle>> /\ serverUnchanged

TooLarge(d) ==
    /\ Data(d) /\ ~Fits
    /\ Fail /\ serverUnchanged

\* write() takes all of the datagram, or a part for which the disk has room;
\* what it returns is compared with -1 only.  The next one may succeed again,
\* as others free space.
Write(d) ==
    /\ Data(d) /\ Fits
    /\ idle' = 0
    /\ count' = count + 1
    /\ \E whole \in IF "disk" \in Faults THEN BOOLEAN ELSE {TRUE} :
         file' = Append(file, [dgram |-> d, whole |-> whole])
    /\ UNCHANGED <<state, auth_clt, endedBy>> /\ serverUnchanged

WriteFails_Ignored(d) ==
    /\ "disk" \in Faults /\ Data(d) /\ Fits
    /\ idle' = 0
    /\ count' = count + 1
    /\ UNCHANGED <<state, auth_clt, file, endedBy>> /\ serverUnchanged

\* write() returns -1, with nothing written: the first version does not look.
WriteFails(d) ==
    /\ "disk" \in Faults /\ Data(d) /\ Fits
    /\ idle' = 0
    /\ count' = count + 1
    /\ state' = IF Secure THEN "failed" ELSE state
    /\ UNCHANGED <<auth_clt, file, endedBy>> /\ serverUnchanged

ServerNext ==
    \/ OpenFile \/ OpenFails \/ Timeout
    \/ \E d \in Datagram :
         \/ AuthIgnores(d) \/ AuthAccepts(d)
         \/ IdleExit(d) \/ Ignore(d) \/ Finish(d)
         \/ TooLarge(d) \/ Write(d) \/ WriteFails(d)

-----------------------------------------------------------------------------
Next == ClientNext \/ Environment \/ Tick \/ ServerNext

Spec == Init /\ [][Next]_vars

\* The server's process runs and time passes; of the clients, the strangers
\* and the network nothing is assumed.
FairSpec == Spec /\ WF_vars(ServerNext) /\ WF_vars(Tick)

-----------------------------------------------------------------------------
(* What holds of the server                                                *)

Piece == [dgram : Datagram, whole : BOOLEAN]

\* Every variable has its type; the second version never counts, nor writes,
\* more than MAX_FILE_BYTES.
TypeOK ==
    /\ state \in {"auth", "open", "recv", "done", "failed"}
    /\ auth_clt \in Clients \cup {Nobody}
    /\ queue \in Seq(Datagram) /\ Len(queue) <= QueueLen
    /\ file \in Seq(Piece) /\ Len(file) <= count
    /\ count \in Nat /\ (Secure => count <= MaxFile)
    /\ idle \in -1 .. IdleLimit
    /\ waited \in 0 .. IdleLimit
    /\ cl \in [Clients -> {"token", "data", "eof", "done", "failed"}]
    /\ next \in [Clients -> Nat]
    /\ net \in [Clients -> Seq(Datagram)]
    /\ copies \in 0 .. Copies
    /\ lost \subseteq Datagram
    /\ endedBy \in Senders \cup {Nobody}

\* Nobody but the authenticated client ends the transfer as a success: the
\* empty datagram of another sender does not (same_client()).
OthersNeverEnd == state = "done" => endedBy = auth_clt

\* The file holds only what the authenticated client sent, and only that
\* client ends it, whoever else writes to the port and in whatever order.
OnlyClient ==
    /\ OthersNeverEnd
    /\ state \in {"auth", "open"} => file = <<>>
    /\ \A k \in 1 .. Len(file) : file[k].dgram.from = auth_clt

\* What the file holds beyond one of each chunk, a second copy or the token,
\* is a duplicate that the network made: without one no datagram is written
\* twice and the token not at all, even when datagrams overtake others.
NoRepeat ==
    LET chunks == {d \in {file[k].dgram : k \in 1 .. Len(file)} : d.kind = "chunk"} IN
        Len(file) <= Cardinality(chunks) + copies

\* Over a network that keeps the order and makes no duplicates, the file is
\* a part of the client's file in its order.
InOrder ==
    /\ \A k \in 1 .. Len(file) : file[k].dgram.kind = "chunk"
    /\ \A j, k \in 1 .. Len(file) : j < k => file[j].dgram.i < file[k].dgram.i

\* Over such a network the server reports success only when every chunk was
\* lost on the way or written, as a whole or cut by a short write().
CompleteUnlessLost == state = "done" =>
    \A i \in 1 .. Chunks : LET d == Dgram(auth_clt, "chunk", i) IN
        d \in lost \/ \E k \in 1 .. Len(file) : file[k].dgram = d

\* A transfer of the second version that is reported as complete has passed
\* all that it counted to write(), and no -1 was passed over.
CountedIsWritten == Secure /\ state = "done" => count = Len(file)

\* "a completely successful transfer of a file that is actually truncated or
\* partially missing on disk" is not reported.
DoneIsStored == Secure /\ state = "done" => \A k \in 1 .. Len(file) : file[k].whole

\* Once the file is open the server ends: silence, a stranger's flood and a
\* client without end all run into a limit, as long as the clock is not set
\* back again and again.
Ends == <>[](idle >= 0) => (state = "recv" ~> state \in {"done", "failed"})
=============================================================================
