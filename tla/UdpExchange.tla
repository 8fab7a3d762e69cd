---------------------------- MODULE UdpExchange ----------------------------
(***************************************************************************)
(* The small UDP services: one datagram asks, one answers.  `protocol`     *)
(* tells which pair of programs is run:                                    *)
(*   "command"  command_execution: runs what it is sent, answers what the  *)
(*              command printed, for ever;                                 *)
(*   "stats"    current_user_and_load_CPU: answers who sends the token;    *)
(*   "basic2"   basic_udp V2: answers one datagram and ends;               *)
(*   "basic1"   basic_udp V1: sends one datagram unasked and ends.         *)
(*                                                                         *)
(* Nothing in a datagram says what it answers.  For the properties each    *)
(* one carries `re`, the request that it is or answers.                    *)
(***************************************************************************)
EXTENDS Integers, Sequences

CONSTANTS
    Clients,
    Server, Stranger,   \* the service, and anyone else on the network
    MaxRequests,        \* bound: commands that a user types
    QueueLen,           \* datagrams that a socket holds
    MaxFaults           \* bound: strays, losses and copies together

ASSUME ConstantsAssumption ==
    /\ Server \notin Clients /\ Stranger \notin Clients /\ Server # Stranger
    /\ MaxRequests \in Nat \ {0} /\ QueueLen \in Nat \ {0} /\ MaxFaults \in Nat

Commands == {"prints", "silent", "hangs"}
Texts == Commands \cup {"token", "hello", "empty", "answer"}
Senders == Clients \cup {Server, Stranger}
Datagram == [from : Senders, to : Senders, text : Texts,
             re : [asker : Clients \cup {Stranger}, n : 0 .. MaxRequests]]
Unasked == [asker |-> Stranger, n |-> 0]

VARIABLES
    protocol,
    client,      \* client[c]: where client c is
    asked,       \* asked[c]: requests that it has sent
    last,        \* last[c]: the datagram that it took last
    refused,     \* refused[c]: its socket has an error to report
    server,      \* "receiving", "running" a command, or "ended"
    job,         \* the request at hand
    queue,       \* queue[s]: what waits in a socket
    net,         \* datagrams on their way
    faults,      \* strays, losses and copies so far
    lost,        \* a datagram was lost
    extra        \* extra[c]: c may receive a datagram that it did not ask for

clientVars == <<client, asked, last, refused>>
serverVars == <<server, job>>
netVars == <<net, faults, lost, extra>>
vars == <<protocol, clientVars, serverVars, queue, netVars>>

NoDatagram == [from |-> Stranger, to |-> Stranger, text |-> "empty", re |-> Unasked]

Init ==
    /\ protocol \in {"command", "stats", "basic2", "basic1"}
    /\ client = [c \in Clients |-> "off"]
    /\ asked = [c \in Clients |-> 0]
    /\ last = [c \in Clients |-> NoDatagram]
    /\ refused = [c \in Clients |-> FALSE]
    /\ server = "receiving" /\ job = NoDatagram
    /\ queue = [s \in Clients \cup {Server} |-> <<>>]
    /\ net = {} /\ faults = 0 /\ lost = FALSE
    /\ extra = [c \in Clients |-> FALSE]

-----------------------------------------------------------------------------
(* The clients                                                             *)

Goto(c, where) == client' = [client EXCEPT ![c] = where]

\* connect() gives the socket a port before it gives it a peer; bind() of
\* the first basic client only does the former; the client of the
\* statistics leaves the port to sendto().
Start(c) ==
    /\ client[c] = "off"
    /\ Goto(c, IF protocol = "basic1" THEN "waiting"
               ELSE IF protocol = "stats" THEN "ready" ELSE "bound")
    /\ UNCHANGED <<protocol, asked, last, refused, serverVars, queue, netVars>>

Connect(c) ==
    /\ client[c] = "bound"
    /\ Goto(c, IF protocol = "basic2" THEN "draining" ELSE "ready")
    /\ UNCHANGED <<protocol, asked, last, refused, serverVars, queue, netVars>>

\* recv(MSG_DONTWAIT) until there is nothing.
Drain_Nothing(c) ==
    /\ client[c] = "draining"
    /\ Goto(c, "ready")
    /\ UNCHANGED <<protocol, asked, last, refused, serverVars, queue, netVars>>
Drain(c) ==
    /\ client[c] = "draining"
    /\ IF queue[c] = <<>>
       THEN Goto(c, "ready") /\ UNCHANGED queue
       ELSE queue' = [queue EXCEPT ![c] = Tail(@)] /\ UNCHANGED client
    /\ UNCHANGED <<protocol, asked, last, refused, serverVars, netVars>>

Requests ==
    IF protocol = "command" THEN Commands
    ELSE IF protocol = "stats" THEN {"token"}
    ELSE IF protocol = "basic2" THEN {"hello"} ELSE {}

\* A line is read and sent; "/quit" is sent like any other, and an empty
\* line is not.  An error that the network reported ends the client.
Ask(c) ==
    /\ client[c] = "ready" /\ asked[c] < MaxRequests
    /\ \/ refused[c] /\ Goto(c, "failed")
          /\ UNCHANGED <<asked, net>>
       \/ ~refused[c] /\ Goto(c, "waiting")
          /\ asked' = [asked EXCEPT ![c] = @ + 1]
          /\ \E t \in Requests :
                net' = net \cup {[from |-> c, to |-> Server, text |-> t,
                                  re |-> [asker |-> c, n |-> asked[c] + 1]]}
    /\ UNCHANGED <<protocol, last, refused, serverVars, queue, faults, lost, extra>>

EndOfInput(c) ==
    /\ client[c] = "ready" /\ protocol = "command"
    /\ Goto(c, "done")
    /\ UNCHANGED <<protocol, asked, last, refused, serverVars, queue, netVars>>

\* The statistics are compared, by their length, with the token that was
\* sent: what recvfrom() returns is never that long.
AfterRecv ==
    IF protocol = "command" THEN "ready"
    ELSE IF protocol = "stats" THEN "failed" ELSE "done"

ClientRecv(c) ==
    /\ client[c] = "waiting" /\ ~refused[c] /\ queue[c] # <<>>
    /\ last' = [last EXCEPT ![c] = Head(queue[c])]
    /\ queue' = [queue EXCEPT ![c] = Tail(@)]
    /\ Goto(c, AfterRecv)
    /\ UNCHANGED <<protocol, asked, refused, serverVars, netVars>>

RecvRefused(c) ==
    /\ client[c] = "waiting" /\ refused[c]
    /\ Goto(c, "failed")
    /\ UNCHANGED <<protocol, asked, last, refused, serverVars, queue, netVars>>

\* SO_RCVTIMEO, which only the second basic client sets.
Timeout(c) ==
    /\ client[c] = "waiting" /\ protocol = "basic2" /\ queue[c] = <<>>
    /\ Goto(c, "failed")
    /\ UNCHANGED <<protocol, asked, last, refused, serverVars, queue, netVars>>

\* What a client does by itself; the rest waits for a user.
ClientRuns(c) ==
    \/ Connect(c) \/ Drain(c) \/ ClientRecv(c) \/ RecvRefused(c) \/ Timeout(c)
    \/ protocol # "command" /\ Ask(c)
ClientNext(c) ==
    \/ Start(c) \/ EndOfInput(c) \/ ClientRuns(c)
    \/ protocol = "command" /\ Ask(c)

-----------------------------------------------------------------------------
(* The servers                                                             *)

AnswerTo(d) == [from |-> Server, to |-> d.from, text |-> "answer", re |-> d.re]
\* What goes to the stranger does not come back.
SendBack(d) == net' = IF d.from = Stranger THEN net ELSE net \cup {AnswerTo(d)}

Received == IF queue[Server] = <<>> THEN {} ELSE {Head(queue[Server])}

Takes(d) ==
    /\ server = "receiving"
    /\ queue' = [queue EXCEPT ![Server] = Tail(@)]
    /\ UNCHANGED <<protocol, clientVars, faults, lost, extra>>

\* An empty command, or a wrong token.
Ignored(d) ==
    /\ Takes(d)
    /\ \/ protocol = "command" /\ d.text = "empty"
       \/ protocol = "stats" /\ d.text # "token"
    /\ UNCHANGED <<serverVars, net>>

\* popen() fails: the error is the answer.
PopenFails_GoesOn(d) ==
    /\ Takes(d)
    /\ protocol = "command" /\ d.text # "empty"
    /\ SendBack(d)
    /\ server' = "running" /\ job' = [d EXCEPT !.text = "prints"]
PopenFails(d) ==
    /\ Takes(d)
    /\ protocol = "command" /\ d.text # "empty"
    /\ SendBack(d)
    /\ UNCHANGED serverVars

Popen_Empty(d) ==
    /\ Takes(d)
    /\ protocol = "command"
    /\ server' = "running" /\ job' = d
    /\ UNCHANGED net
Popen(d) ==
    /\ Takes(d)
    /\ protocol = "command" /\ d.text # "empty"
    /\ server' = "running" /\ job' = d
    /\ UNCHANGED net

\* fread() and pclose() return; what is printed, or else the exit code, is
\* the answer.
CommandEnds_PrintsOnly ==
    /\ server = "running" /\ job.text # "hangs"
    /\ server' = "receiving"
    /\ IF job.text = "silent" THEN UNCHANGED net ELSE SendBack(job)
    /\ UNCHANGED <<protocol, clientVars, job, queue, faults, lost, extra>>
CommandEnds ==
    /\ server = "running" /\ job.text # "hangs"
    /\ server' = "receiving"
    /\ SendBack(job)
    /\ UNCHANGED <<protocol, clientVars, job, queue, faults, lost, extra>>

SendsStats(d) ==
    /\ Takes(d)
    /\ protocol = "stats" /\ d.text = "token"
    /\ SendBack(d)
    /\ UNCHANGED serverVars

AnswersOnce(d) ==
    /\ Takes(d)
    /\ protocol = "basic2"
    /\ SendBack(d)
    /\ server' = "ended" /\ UNCHANGED job

SendsUnasked ==
    /\ server = "receiving" /\ protocol = "basic1"
    /\ \E c \in Clients :
          net' = net \cup {[from |-> Server, to |-> c, text |-> "answer", re |-> Unasked]}
    /\ server' = "ended"
    /\ UNCHANGED <<protocol, clientVars, job, queue, faults, lost, extra>>

\* recvfrom() fails; the second and the third also end when sendto() fails.
ServerFails ==
    /\ server = "receiving"
    /\ server' = "ended"
    /\ UNCHANGED <<protocol, clientVars, job, queue, netVars>>

ServerRuns ==
    \/ \E d \in Received : Ignored(d) \/ PopenFails(d) \/ Popen(d)
                               \/ SendsStats(d) \/ AnswersOnce(d)
    \/ CommandEnds \/ SendsUnasked

-----------------------------------------------------------------------------
(* The network                                                             *)

\* A socket that has a peer takes nothing from anyone else.
Connected(c) ==
    protocol \in {"command", "basic2"} /\ client[c] \in {"draining", "ready", "waiting"}
Open(c) == client[c] \in {"bound", "draining", "ready", "waiting"}

Enters(d) ==
    /\ Len(queue[d.to]) < QueueLen
    /\ IF d.to = Server THEN server # "ended"
       ELSE Open(d.to) /\ (Connected(d.to) => d.from = Server)

\* A datagram for a port that nobody holds is reported to a sender that is
\* connected.
Bounces(d) == d.to = Server /\ server = "ended" /\ d.from \in Clients
Arrive(d) ==
    /\ d \in net
    /\ net' = net \ {d}
    /\ \/ Enters(d)
          /\ queue' = [queue EXCEPT ![d.to] = Append(@, d)]
          /\ UNCHANGED <<refused, lost>>
       \/ ~Enters(d) /\ Bounces(d) /\ Connected(d.from)
          /\ refused' = [refused EXCEPT ![d.from] = TRUE]
          /\ UNCHANGED <<queue, lost>>
       \/ ~Enters(d) /\ ~(Bounces(d) /\ Connected(d.from)) /\ lost' = TRUE
          /\ UNCHANGED <<queue, refused>>
    /\ UNCHANGED <<protocol, client, asked, last, serverVars, faults, extra>>

Fault == faults < MaxFaults /\ faults' = faults + 1

Lose(d) ==
    /\ Fault /\ d \in net
    /\ net' = net \ {d} /\ lost' = TRUE
    /\ UNCHANGED <<protocol, clientVars, serverVars, queue, extra>>

Asker(d) == IF d.re.asker \in Clients THEN d.re.asker ELSE d.to
Copy(d) ==
    /\ Fault /\ d \in net /\ Asker(d) \in Clients
    /\ Enters(d)
    /\ queue' = [queue EXCEPT ![d.to] = Append(@, d)]
    /\ extra' = [extra EXCEPT ![Asker(d)] = TRUE]
    /\ UNCHANGED <<protocol, clientVars, serverVars, net, lost>>

\* The stranger writes to the server or to a client.
Stray ==
    /\ Fault
    /\ \E to \in Clients \cup {Server}, t \in Texts \ {"answer"} :
          LET d == [from |-> Stranger, to |-> to, text |-> t, re |-> Unasked] IN
          /\ to # Server => t = "hello"
          /\ to = Server => t \in Requests \cup {"empty"}
          /\ Enters(d)
          /\ queue' = [queue EXCEPT ![to] = Append(@, d)]
          /\ extra' = IF to = Server THEN extra ELSE [extra EXCEPT ![to] = TRUE]
    /\ UNCHANGED <<protocol, clientVars, serverVars, net, lost>>

Next ==
    \/ \E c \in Clients : ClientNext(c)
    \/ ServerRuns \/ ServerFails \/ Stray
    \/ \E d \in net : Arrive(d) \/ Lose(d) \/ Copy(d)

Spec == Init /\ [][Next]_vars

\* The programs run, commands that end do end, and the network forwards what
\* it does not lose.
FairSpec ==
    /\ Spec
    /\ \A c \in Clients : WF_vars(ClientRuns(c))
    /\ WF_vars(ServerRuns)
    /\ WF_vars(\E d \in net : Arrive(d))

-----------------------------------------------------------------------------
\* Every variable has its type, no socket holds more than it can, and what
\* the server runs is a command.
TypeOK ==
    /\ protocol \in {"command", "stats", "basic2", "basic1"}
    /\ client \in [Clients -> {"off", "bound", "draining", "ready", "waiting",
                               "done", "failed"}]
    /\ asked \in [Clients -> 0 .. MaxRequests]
    /\ last \in [Clients -> Datagram]
    /\ refused \in [Clients -> BOOLEAN]
    /\ server \in {"receiving", "running", "ended"}
    /\ job \in Datagram /\ (server = "running" => job.text \in Commands)
    /\ queue \in [Clients \cup {Server} -> Seq(Datagram)]
    /\ \A s \in Clients \cup {Server} : Len(queue[s]) <= QueueLen
    /\ net \subseteq Datagram
    /\ faults \in 0 .. MaxFaults
    /\ lost \in BOOLEAN
    /\ extra \in [Clients -> BOOLEAN]

\* What the second basic client shows came from the server, although a
\* stranger may have written to its port before connect() named the server.
OnlyServer ==
    \A c \in Clients : protocol = "basic2" /\ client[c] = "done" => last[c].from = Server

\* A user who reads an answer reads the answer to the last command, unless
\* the network copied a datagram of this client or a stranger wrote to its
\* port before connect(); losses and the commands of others do not confuse
\* the two.
InStep ==
    \A c \in Clients :
        protocol = "command" /\ client[c] = "ready" /\ asked[c] > 0 /\ ~extra[c] =>
            last[c].from = Server /\ last[c].re = [asker |-> c, n |-> asked[c]]

\* Nobody waits for ever: the second basic client ends whatever the network
\* and the server do; the others get an answer or are told that nobody
\* listens, unless a datagram is lost, the server ends, or a command that does
\* not end holds it.
Busy(c) == client[c] = "waiting" \/ (protocol = "basic2" /\ client[c] \in {"draining", "ready"})
Answered == \A c \in Clients :
    protocol # "basic1" /\ Busy(c) ~>
        \/ ~Busy(c)
        \/ protocol # "basic2" /\ (lost \/ server = "ended" \/ job.text = "hangs")
=============================================================================
