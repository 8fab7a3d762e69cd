------------------------- MODULE UdpExchange_proofs -------------------------
(***************************************************************************)
(* UdpExchange for any number of clients, requests, faults and any size of *)
(* a socket's buffer.                                                      *)
(***************************************************************************)
EXTENDS UdpExchange, SequenceTheorems, TLAPS

Sockets == Clients \cup {Server}
Tags == [asker : Clients \cup {Stranger}, n : 0 .. MaxRequests]

LEMMA Names ==
    /\ Server \notin Clients /\ Stranger \notin Clients /\ Server # Stranger
    /\ Stranger \notin Sockets
    /\ MaxRequests \in Nat /\ QueueLen \in Nat /\ QueueLen >= 1 /\ MaxFaults \in Nat
BY ConstantsAssumption DEF ConstantsAssumption, Sockets

\* What a record of the network is made of.
LEMMA Parts ==
    ASSUME NEW d \in Datagram
    PROVE  /\ d.from \in Senders /\ d.to \in Senders
           /\ d.text \in Texts /\ d.re \in Tags
BY DEF Datagram, Tags

LEMMA Whole ==
    ASSUME NEW f \in Senders, NEW t \in Senders, NEW x \in Texts, NEW r \in Tags
    PROVE  [from |-> f, to |-> t, text |-> x, re |-> r] \in Datagram
BY DEF Datagram, Tags

LEMMA UnaskedTag == Unasked \in Tags
BY Names DEF Unasked, Tags

LEMMA RequestTag ==
    ASSUME NEW c \in Clients, NEW k \in Nat, k < MaxRequests
    PROVE  [asker |-> c, n |-> k + 1] \in Tags
BY Names DEF Tags

LEMMA AnswerType ==
    ASSUME NEW d \in Datagram
    PROVE  AnswerTo(d) \in Datagram
BY Parts, Whole DEF AnswerTo, Senders, Texts

-----------------------------------------------------------------------------
(* Types.  What is in the sockets and on the network is of the right kind. *)

QueueTypeOK == queue \in [Sockets -> Seq(Datagram)]
FlightTypeOK ==
    /\ net \subseteq {d \in Datagram : d.to \in Sockets}
    /\ job \in Datagram
ClientTypeOK ==
    /\ client \in [Clients -> {"off", "bound", "draining", "ready", "waiting",
                               "done", "failed"}]
    /\ asked \in [Clients -> 0 .. MaxRequests]
    /\ last \in [Clients -> Datagram]
    /\ extra \in [Clients -> BOOLEAN]
ProtocolOK == protocol \in {"command", "stats", "basic2", "basic1"}

Types == ProtocolOK /\ ClientTypeOK /\ QueueTypeOK /\ FlightTypeOK

\* One datagram more at the end of a queue, or one less at its front.
LEMMA Enqueued ==
    ASSUME QueueTypeOK, NEW s \in Sockets, NEW d \in Datagram,
           queue' = [queue EXCEPT ![s] = Append(@, d)]
    PROVE  /\ QueueTypeOK'
           /\ Len(queue[s]) \in Nat /\ Len(queue'[s]) = Len(queue[s]) + 1
           /\ \A i \in 1 .. Len(queue[s]) : queue'[s][i] = queue[s][i]
           /\ queue'[s][Len(queue[s]) + 1] = d
           /\ \A t \in Sockets \ {s} : queue'[t] = queue[t]
<1>1. queue[s] \in Seq(Datagram) /\ queue'[s] = Append(queue[s], d)
      BY DEF QueueTypeOK
<1>2. /\ Append(queue[s], d) \in Seq(Datagram) /\ Len(queue[s]) \in Nat
      /\ Len(Append(queue[s], d)) = Len(queue[s]) + 1
      /\ \A i \in 1 .. Len(queue[s]) : Append(queue[s], d)[i] = queue[s][i]
      /\ Append(queue[s], d)[Len(queue[s]) + 1] = d
      BY <1>1, AppendProperties, LenProperties
<1> QED
      BY <1>1, <1>2 DEF QueueTypeOK

LEMMA Dequeued ==
    ASSUME QueueTypeOK, NEW s \in Sockets, queue[s] # <<>>,
           queue' = [queue EXCEPT ![s] = Tail(@)]
    PROVE  /\ QueueTypeOK'
           /\ Head(queue[s]) = queue[s][1] /\ Head(queue[s]) \in Datagram
           /\ Len(queue[s]) \in Nat /\ Len(queue[s]) >= 1
           /\ Len(queue'[s]) = Len(queue[s]) - 1
           /\ \A i \in 1 .. Len(queue'[s]) : queue'[s][i] = queue[s][i + 1]
           /\ \A t \in Sockets \ {s} : queue'[t] = queue[t]
<1>1. queue[s] \in Seq(Datagram) /\ queue'[s] = Tail(queue[s])
      BY DEF QueueTypeOK
<1>2. /\ Tail(queue[s]) \in Seq(Datagram)
      /\ Head(queue[s]) = queue[s][1] /\ Head(queue[s]) \in Datagram
      /\ Len(queue[s]) \in Nat /\ Len(queue[s]) >= 1
      /\ Len(Tail(queue[s])) = Len(queue[s]) - 1
      /\ \A i \in 1 .. Len(Tail(queue[s])) : Tail(queue[s])[i] = queue[s][i + 1]
      BY <1>1, HeadTailProperties, LenProperties, EmptySeq
<1> QED
      BY <1>1, <1>2 DEF QueueTypeOK

\* The server takes the first datagram of its queue.
LEMMA Taken ==
    ASSUME Types, NEW d \in Received, Takes(d)
    PROVE  /\ d \in Datagram /\ d = queue[Server][1] /\ queue[Server] # <<>>
           /\ queue' = [queue EXCEPT ![Server] = Tail(@)]
           /\ QueueTypeOK'
           /\ UNCHANGED <<protocol, clientVars, faults, lost, extra>>
<1>1. queue[Server] # <<>> /\ d = Head(queue[Server])
      BY DEF Received
<1>2. /\ queue' = [queue EXCEPT ![Server] = Tail(@)]
      /\ UNCHANGED <<protocol, clientVars, faults, lost, extra>>
      BY DEF Takes
<1>3. Server \in Sockets /\ QueueTypeOK
      BY DEF Sockets, Types
<1> QED
      BY <1>1, <1>2, <1>3, Dequeued

\* Its answer is a datagram for a socket, unless nobody waits for it.
LEMMA Answers ==
    ASSUME net \subseteq {d \in Datagram : d.to \in Sockets}, NEW d \in Datagram, SendBack(d)
    PROVE  net' \subseteq {e \in Datagram : e.to \in Sockets}
<1>1. CASE d.from = Stranger
      BY <1>1 DEF SendBack
<1>2. CASE d.from # Stranger
  <2>1. d.from \in Sockets
        BY <1>2, Parts DEF Senders, Sockets
  <2>2. AnswerTo(d) \in Datagram /\ AnswerTo(d).to = d.from
        BY AnswerType DEF AnswerTo
  <2> QED
        BY <1>2, <2>1, <2>2 DEF SendBack
<1> QED
      BY <1>1, <1>2

LEMMA Asks ==
    ASSUME Types, NEW c \in Clients, Ask(c)
    PROVE  Types'
<1>1. UNCHANGED <<protocol, last, queue, job, extra>>
      BY DEF Ask, serverVars
<1>2. client' \in [Clients -> {"off", "bound", "draining", "ready", "waiting",
                               "done", "failed"}]
      BY DEF Ask, Goto, Types, ClientTypeOK
<1>3. CASE UNCHANGED <<asked, net>>
      BY <1>1, <1>2, <1>3 DEF Types, ProtocolOK, ClientTypeOK, QueueTypeOK, FlightTypeOK
<1>4. CASE /\ asked' = [asked EXCEPT ![c] = @ + 1]
           /\ \E t \in Requests :
                 net' = net \cup {[from |-> c, to |-> Server, text |-> t,
                                   re |-> [asker |-> c, n |-> asked[c] + 1]]}
  <2>1. asked[c] \in Nat /\ asked[c] < MaxRequests
        BY Names DEF Ask, Types, ClientTypeOK
  <2>2. asked' \in [Clients -> 0 .. MaxRequests]
        BY <1>4, <2>1, Names DEF Types, ClientTypeOK
  <2>3. PICK t \in Requests :
           net' = net \cup {[from |-> c, to |-> Server, text |-> t,
                             re |-> [asker |-> c, n |-> asked[c] + 1]]}
        BY <1>4
  <2>4. t \in Texts /\ c \in Senders /\ Server \in Senders /\ Server \in Sockets
        BY <2>3 DEF Requests, Commands, Texts, Senders, Sockets
  <2>5. [asker |-> c, n |-> asked[c] + 1] \in Tags
        BY <2>1, RequestTag
  <2>6. [from |-> c, to |-> Server, text |-> t,
         re |-> [asker |-> c, n |-> asked[c] + 1]] \in {d \in Datagram : d.to \in Sockets}
        BY <2>4, <2>5, Whole
  <2>7. FlightTypeOK'
        BY <1>1, <2>3, <2>6 DEF Types, FlightTypeOK
  <2> QED
        BY <1>1, <1>2, <2>2, <2>7 DEF Types, ProtocolOK, ClientTypeOK, QueueTypeOK
<1> QED
      BY <1>3, <1>4 DEF Ask

\* The other steps of a client.
LEMMA ClientTypes ==
    ASSUME Types, NEW c \in Clients, ClientNext(c)
    PROVE  Types'
<1> DEFINE Where == {"off", "bound", "draining", "ready", "waiting", "done", "failed"}
<1>1. ASSUME NEW where \in Where, Goto(c, where),
             UNCHANGED <<protocol, asked, extra, job, net>>,
             last' \in [Clients -> Datagram], QueueTypeOK'
      PROVE  Types'
  <2>1. client' \in [Clients -> Where]
        BY <1>1 DEF Goto, Types, ClientTypeOK
  <2> QED
        BY <1>1, <2>1 DEF Types, ProtocolOK, ClientTypeOK, FlightTypeOK
<1>2. CASE \/ Start(c) \/ Connect(c) \/ EndOfInput(c) \/ RecvRefused(c) \/ Timeout(c)
  <2>1. UNCHANGED <<protocol, asked, extra, job, net, last, queue>>
        BY <1>2 DEF Start, Connect, EndOfInput, RecvRefused, Timeout, serverVars, netVars
  <2>2. \E where \in Where : Goto(c, where)
        BY <1>2 DEF Start, Connect, EndOfInput, RecvRefused, Timeout
  <2> QED
        BY <1>1, <2>1, <2>2 DEF Types, ClientTypeOK, QueueTypeOK
<1>3. CASE Drain(c)
  <2>1. UNCHANGED <<protocol, asked, extra, job, net, last>>
        BY <1>3 DEF Drain, serverVars, netVars
  <2>2. CASE queue[c] = <<>>
        BY <1>1, <1>3, <2>1, <2>2 DEF Drain, Types, ClientTypeOK, QueueTypeOK
  <2>3. CASE queue[c] # <<>>
    <3>1. queue' = [queue EXCEPT ![c] = Tail(@)] /\ UNCHANGED client
          BY <1>3, <2>3 DEF Drain
    <3>2. QueueTypeOK'
          BY <2>3, <3>1, Dequeued DEF Types, Sockets
    <3> QED
          BY <2>1, <3>1, <3>2 DEF Types, ProtocolOK, ClientTypeOK, FlightTypeOK
  <2> QED
        BY <2>2, <2>3
<1>4. CASE ClientRecv(c)
  <2>1. /\ queue[c] # <<>> /\ queue' = [queue EXCEPT ![c] = Tail(@)]
        /\ last' = [last EXCEPT ![c] = Head(queue[c])]
        /\ UNCHANGED <<protocol, asked, extra, job, net>>
        BY <1>4 DEF ClientRecv, serverVars, netVars
  <2>2. QueueTypeOK' /\ Head(queue[c]) \in Datagram
        BY <2>1, Dequeued DEF Types, Sockets
  <2>3. last' \in [Clients -> Datagram]
        BY <2>1, <2>2 DEF Types, ClientTypeOK
  <2>4. \E where \in Where : Goto(c, where)
        BY <1>4 DEF ClientRecv, AfterRecv
  <2> QED
        BY <1>1, <2>1, <2>2, <2>3, <2>4
<1> QED
      BY <1>2, <1>3, <1>4, Asks DEF ClientNext, ClientRuns

LEMMA ServerTypes ==
    ASSUME Types, ServerRuns \/ ServerFails
    PROVE  Types'
<1>1. ASSUME NEW d \in Received,
             Ignored(d) \/ PopenFails(d) \/ Popen(d) \/ SendsStats(d) \/ AnswersOnce(d)
      PROVE  Types'
  <2>1. Takes(d)
        BY <1>1 DEF Ignored, PopenFails, Popen, SendsStats, AnswersOnce
  <2>2. d \in Datagram /\ QueueTypeOK' /\ UNCHANGED <<protocol, clientVars, extra>>
        BY <2>1, Taken
  <2>3. (UNCHANGED net \/ SendBack(d)) /\ (job' = job \/ job' = d)
        BY <1>1 DEF Ignored, PopenFails, Popen, SendsStats, AnswersOnce, serverVars
  <2>4. FlightTypeOK'
        BY <2>2, <2>3, Answers DEF Types, FlightTypeOK
  <2> QED
        BY <2>2, <2>4 DEF Types, ProtocolOK, ClientTypeOK, clientVars
<1>2. CASE CommandEnds
  <2>1. SendBack(job) /\ UNCHANGED <<protocol, clientVars, job, queue, extra>>
        BY <1>2 DEF CommandEnds
  <2>2. FlightTypeOK'
        BY <2>1, Answers DEF Types, FlightTypeOK
  <2> QED
        BY <2>1, <2>2 DEF Types, ProtocolOK, ClientTypeOK, QueueTypeOK, clientVars
<1>3. CASE SendsUnasked
  <2>1. PICK c \in Clients :
           net' = net \cup {[from |-> Server, to |-> c, text |-> "answer", re |-> Unasked]}
        BY <1>3 DEF SendsUnasked
  <2>2. [from |-> Server, to |-> c, text |-> "answer", re |-> Unasked]
           \in {d \in Datagram : d.to \in Sockets}
        BY UnaskedTag, Whole DEF Senders, Sockets, Texts
  <2>3. UNCHANGED <<protocol, clientVars, job, queue, extra>>
        BY <1>3 DEF SendsUnasked
  <2> QED
        BY <2>1, <2>2, <2>3 DEF Types, ProtocolOK, ClientTypeOK, QueueTypeOK,
                                FlightTypeOK, clientVars
<1>4. CASE ServerFails
      BY <1>4 DEF ServerFails, Types, ProtocolOK, ClientTypeOK, QueueTypeOK,
                  FlightTypeOK, clientVars, netVars
<1> QED
      BY <1>1, <1>2, <1>3, <1>4 DEF ServerRuns

LEMMA NetworkTypes ==
    ASSUME Types, Stray \/ \E d \in net : Arrive(d) \/ Lose(d) \/ Copy(d)
    PROVE  Types'
<1>1. ASSUME NEW d \in net, Arrive(d) PROVE Types'
  <2>1. d \in Datagram /\ d.to \in Sockets /\ net' = net \ {d}
        BY <1>1 DEF Arrive, Types, FlightTypeOK
  <2>2. UNCHANGED <<protocol, client, asked, last, job, extra>>
        BY <1>1 DEF Arrive, serverVars
  <2>3. UNCHANGED queue \/ queue' = [queue EXCEPT ![d.to] = Append(@, d)]
        BY <1>1 DEF Arrive
  <2>4. QueueTypeOK'
        BY <2>1, <2>3, Enqueued DEF Types, QueueTypeOK
  <2> QED
        BY <2>1, <2>2, <2>4 DEF Types, ProtocolOK, ClientTypeOK, FlightTypeOK
<1>2. ASSUME NEW d \in net, Lose(d) PROVE Types'
      BY <1>2 DEF Lose, Types, ProtocolOK, ClientTypeOK, QueueTypeOK, FlightTypeOK,
                  clientVars, serverVars
<1>3. ASSUME NEW d \in net, Copy(d) PROVE Types'
  <2>1. d \in Datagram /\ d.to \in Sockets
        BY <1>3 DEF Types, FlightTypeOK
  <2>2. /\ UNCHANGED <<protocol, clientVars, job, net>>
        /\ queue' = [queue EXCEPT ![d.to] = Append(@, d)]
        /\ extra' = [extra EXCEPT ![Asker(d)] = TRUE]
        BY <1>3 DEF Copy, serverVars
  <2>3. QueueTypeOK'
        BY <2>1, <2>2, Enqueued DEF Types
  <2> QED
        BY <2>2, <2>3 DEF Types, ProtocolOK, ClientTypeOK, FlightTypeOK, clientVars
<1>4. CASE Stray
  <2>1. PICK to \in Sockets, t \in Texts :
           /\ queue' = [queue EXCEPT ![to] =
                 Append(@, [from |-> Stranger, to |-> to, text |-> t, re |-> Unasked])]
           /\ extra' = IF to = Server THEN extra ELSE [extra EXCEPT ![to] = TRUE]
        BY <1>4 DEF Stray, Sockets
  <2>2. [from |-> Stranger, to |-> to, text |-> t, re |-> Unasked] \in Datagram
        BY UnaskedTag, Whole DEF Senders, Sockets
  <2>3. QueueTypeOK'
        BY <2>1, <2>2, Enqueued DEF Types
  <2>4. extra' \in [Clients -> BOOLEAN]
        BY <2>1 DEF Types, ClientTypeOK, Sockets
  <2>5. UNCHANGED <<protocol, client, asked, last, job, net>>
        BY <1>4 DEF Stray, clientVars, serverVars
  <2> QED
        BY <2>3, <2>4, <2>5 DEF Types, ProtocolOK, ClientTypeOK, FlightTypeOK
<1> QED
      BY <1>1, <1>2, <1>3, <1>4

LEMMA StepTypes == Types /\ [Next]_vars => Types'
<1> SUFFICES ASSUME Types, [Next]_vars PROVE Types'
    OBVIOUS
<1>1. CASE UNCHANGED vars
      BY <1>1 DEF vars, clientVars, serverVars, netVars, Types, ProtocolOK,
                  ClientTypeOK, QueueTypeOK, FlightTypeOK
<1> QED
      BY <1>1, ClientTypes, ServerTypes, NetworkTypes DEF Next

LEMMA InitTypes == Init => Types
<1> SUFFICES ASSUME Init PROVE Types
    OBVIOUS
<1>1. NoDatagram \in Datagram
      BY UnaskedTag, Whole DEF NoDatagram, Senders, Texts
<1> QED
      BY <1>1, Names, EmptySeq DEF Init, Types, ProtocolOK, ClientTypeOK,
         QueueTypeOK, FlightTypeOK, Sockets

-----------------------------------------------------------------------------
(* OnlyServer.  Once the second basic client has seen its socket empty after *)
(* connect(), all that enters it comes from the server.                      *)

FromServer(c) ==
    client[c] \in {"ready", "waiting"} =>
        \A i \in 1 .. Len(queue[c]) : queue[c][i].from = Server
ShownFrom(c) == client[c] = "done" => last[c].from = Server
ServerOnly == protocol = "basic2" => \A c \in Clients : FromServer(c) /\ ShownFrom(c)

\* What does not go to the client's socket leaves it as it was.
LEMMA Elsewhere ==
    ASSUME NEW c \in Clients, FromServer(c), ShownFrom(c),
           client'[c] = client[c], last'[c] = last[c], queue'[c] = queue[c]
    PROVE  FromServer(c)' /\ ShownFrom(c)'
BY DEF FromServer, ShownFrom

\* What the socket of a client with a peer accepts comes from the peer.
LEMMA OnePeer ==
    ASSUME Types, ServerOnly, protocol = "basic2", NEW d \in Datagram, d.to \in Sockets,
           Enters(d), queue' = [queue EXCEPT ![d.to] = Append(@, d)],
           UNCHANGED <<client, last, protocol>>
    PROVE  ServerOnly'
<1> SUFFICES ASSUME NEW c \in Clients
             PROVE  FromServer(c)' /\ ShownFrom(c)'
    BY DEF ServerOnly
<1>1. FromServer(c) /\ ShownFrom(c) /\ c \in Sockets
      BY DEF ServerOnly, Sockets
<1>2. CASE c # d.to
      BY <1>1, <1>2, Enqueued, Elsewhere DEF Types
<1>3. CASE c = d.to
  <2>1. Connected(c) => d.from = Server
        BY <1>3, Names DEF Enters
  <2>2. client[c] \in {"ready", "waiting"} => d.from = Server
        BY <2>1 DEF Connected
  <2>3. queue' = [queue EXCEPT ![c] = Append(@, d)]
        BY <1>3
  <2>4. /\ Len(queue[c]) \in Nat /\ Len(queue'[c]) = Len(queue[c]) + 1
        /\ \A i \in 1 .. Len(queue[c]) : queue'[c][i] = queue[c][i]
        /\ queue'[c][Len(queue[c]) + 1] = d
        BY <1>1, <2>3, Enqueued DEF Types
  <2>5. FromServer(c)'
        BY <1>1, <2>2, <2>4 DEF FromServer
  <2> QED
        BY <1>1, <2>5 DEF ShownFrom
<1> QED
      BY <1>2, <1>3

LEMMA ClientKeeps ==
    ASSUME Types, ServerOnly, protocol = "basic2", NEW b \in Clients, ClientNext(b)
    PROVE  ServerOnly'
<1> SUFFICES ASSUME NEW c \in Clients
             PROVE  FromServer(c)' /\ ShownFrom(c)'
    BY DEF ServerOnly
<1>1. FromServer(c) /\ ShownFrom(c) /\ c \in Sockets
      BY DEF ServerOnly, Sockets
<1>2. /\ client \in [Clients -> {"off", "bound", "draining", "ready", "waiting",
                                 "done", "failed"}]
      /\ last \in [Clients -> Datagram] /\ QueueTypeOK
      BY DEF Types, ClientTypeOK
<1>3. CASE Start(b) \/ Connect(b) \/ RecvRefused(b) \/ Timeout(b)
  <2>1. UNCHANGED <<queue, last>>
        BY <1>3 DEF Start, Connect, RecvRefused, Timeout
  <2>2. \E where \in {"bound", "draining", "failed"} : Goto(b, where)
        BY <1>3 DEF Start, Connect, RecvRefused, Timeout
  <2>3. client'[c] = client[c] \/ client'[c] \in {"bound", "draining", "failed"}
        BY <1>2, <2>2 DEF Goto
  <2> QED
        BY <1>1, <2>1, <2>3 DEF FromServer, ShownFrom
<1>4. CASE Drain(b)
  <2>1. client[b] = "draining" /\ UNCHANGED last
        BY <1>4 DEF Drain
  <2>2. CASE queue[b] = <<>>
    <3>1. Goto(b, "ready") /\ UNCHANGED queue
          BY <1>4, <2>2 DEF Drain
    <3>2. client'[c] = IF c = b THEN "ready" ELSE client[c]
          BY <1>2, <3>1 DEF Goto
    <3>3. c = b => Len(queue'[c]) = 0
          BY <2>2, <3>1, EmptySeq
    <3> QED
          BY <1>1, <2>1, <3>1, <3>2, <3>3 DEF FromServer, ShownFrom
  <2>3. CASE queue[b] # <<>>
    <3>1. queue' = [queue EXCEPT ![b] = Tail(@)] /\ UNCHANGED client
          BY <1>4, <2>3 DEF Drain
    <3>2. c # b => queue'[c] = queue[c]
          BY <1>1, <1>2, <3>1 DEF QueueTypeOK
    <3> QED
          BY <1>1, <2>1, <3>1, <3>2 DEF FromServer, ShownFrom
  <2> QED
        BY <2>2, <2>3
<1>5. CASE Ask(b)
  <2>1. client[b] = "ready" /\ UNCHANGED <<queue, last>>
        BY <1>5 DEF Ask
  <2>2. Goto(b, "waiting") \/ Goto(b, "failed")
        BY <1>5 DEF Ask
  <2>3. client'[c] = client[c] \/ (c = b /\ client'[c] \in {"waiting", "failed"})
        BY <1>2, <2>2 DEF Goto
  <2> QED
        BY <1>1, <2>1, <2>3 DEF FromServer, ShownFrom
<1>6. CASE ClientRecv(b)
  <2>1. /\ client[b] = "waiting" /\ queue[b] # <<>> /\ Goto(b, "done")
        /\ last' = [last EXCEPT ![b] = Head(queue[b])]
        /\ queue' = [queue EXCEPT ![b] = Tail(@)]
        BY <1>6 DEF ClientRecv, AfterRecv
  <2>2. CASE c # b
    <3>1. client'[c] = client[c] /\ last'[c] = last[c] /\ queue'[c] = queue[c]
          BY <1>1, <1>2, <2>1, <2>2 DEF Goto, QueueTypeOK
    <3> QED
          BY <1>1, <3>1, Elsewhere
  <2>3. CASE c = b
    <3>1. client'[c] = "done" /\ last'[c] = Head(queue[c])
          BY <1>2, <2>1, <2>3 DEF Goto
    <3>2. Head(queue[c]) = queue[c][1] /\ 1 \in 1 .. Len(queue[c])
          BY <1>1, <1>2, <2>1, <2>3, Dequeued
    <3>3. Head(queue[c]).from = Server
          BY <1>1, <2>1, <2>3, <3>2 DEF FromServer
    <3> QED
          BY <3>1, <3>3 DEF FromServer, ShownFrom
  <2> QED
        BY <2>2, <2>3
<1>7. ~EndOfInput(b)
      BY DEF EndOfInput
<1> QED
      BY <1>3, <1>4, <1>5, <1>6, <1>7 DEF ClientNext, ClientRuns

LEMMA OthersKeep ==
    ASSUME Types, ServerOnly, protocol = "basic2",
           UNCHANGED vars \/ ServerRuns \/ ServerFails \/ Stray
             \/ \E d \in net : Arrive(d) \/ Lose(d) \/ Copy(d)
    PROVE  ServerOnly'
<1>1. ASSUME UNCHANGED <<protocol, client, last>>,
             \A c \in Clients : queue'[c] = queue[c]
      PROVE  ServerOnly'
      BY <1>1, Elsewhere DEF ServerOnly
<1>2. CASE UNCHANGED vars \/ ServerFails \/ CommandEnds \/ SendsUnasked
              \/ \E d \in net : Lose(d)
      BY <1>1, <1>2 DEF vars, clientVars, ServerFails, CommandEnds, SendsUnasked, Lose
<1>3. ASSUME NEW d \in Received,
             Ignored(d) \/ PopenFails(d) \/ Popen(d) \/ SendsStats(d) \/ AnswersOnce(d)
      PROVE  ServerOnly'
  <2>1. Takes(d)
        BY <1>3 DEF Ignored, PopenFails, Popen, SendsStats, AnswersOnce
  <2>2. UNCHANGED <<protocol, client, last>>
        BY <2>1 DEF Takes, clientVars
  <2>3. \A c \in Clients : queue'[c] = queue[c]
        BY <2>1, Names DEF Takes, Types, QueueTypeOK, Sockets
  <2> QED
        BY <1>1, <2>2, <2>3
<1>4. ASSUME NEW d \in net, Arrive(d) PROVE ServerOnly'
  <2>1. d \in Datagram /\ d.to \in Sockets /\ UNCHANGED <<protocol, client, last>>
        BY <1>4 DEF Arrive, Types, FlightTypeOK
  <2>2. UNCHANGED queue \/ (Enters(d) /\ queue' = [queue EXCEPT ![d.to] = Append(@, d)])
        BY <1>4 DEF Arrive
  <2> QED
        BY <1>1, <2>1, <2>2, OnePeer
<1>5. ASSUME NEW d \in net, Copy(d) PROVE ServerOnly'
  <2>1. /\ d \in Datagram /\ d.to \in Sockets /\ Enters(d)
        /\ queue' = [queue EXCEPT ![d.to] = Append(@, d)]
        /\ UNCHANGED <<protocol, client, last>>
        BY <1>5 DEF Copy, clientVars, Types, FlightTypeOK
  <2> QED
        BY <2>1, OnePeer
<1>6. CASE Stray
  <2>1. PICK to \in Sockets, t \in Texts :
           LET d == [from |-> Stranger, to |-> to, text |-> t, re |-> Unasked]
           IN  Enters(d) /\ queue' = [queue EXCEPT ![to] = Append(@, d)]
        BY <1>6 DEF Stray, Sockets
  <2>2. PICK d \in Datagram :
           /\ d.to = to /\ Enters(d)
           /\ queue' = [queue EXCEPT ![d.to] = Append(@, d)]
        BY <2>1, UnaskedTag, Whole DEF Senders, Sockets
  <2>3. UNCHANGED <<protocol, client, last>>
        BY <1>6 DEF Stray, clientVars
  <2> QED
        BY <2>2, <2>3, OnePeer
<1> QED
      BY <1>2, <1>3, <1>4, <1>5, <1>6 DEF ServerRuns

LEMMA ServerOnlyKept == Types /\ ServerOnly /\ [Next]_vars => ServerOnly'
<1> SUFFICES ASSUME Types, ServerOnly, [Next]_vars PROVE ServerOnly'
    OBVIOUS
<1>1. protocol' = protocol
      BY DEF Next, vars, clientVars, serverVars, netVars, ClientNext, ClientRuns, Start,
         Connect, Drain, Ask, EndOfInput, ClientRecv, RecvRefused, Timeout, ServerRuns,
         Takes, Ignored, PopenFails, Popen, CommandEnds, SendsStats, AnswersOnce,
         SendsUnasked, ServerFails, Arrive, Lose, Copy, Stray
<1>2. CASE protocol # "basic2"
      BY <1>1, <1>2 DEF ServerOnly
<1>3. CASE protocol = "basic2"
      BY <1>3, ClientKeeps, OthersKeep DEF Next
<1> QED
      BY <1>2, <1>3

\* The answer that the second basic client shows is the server's, for any
\* number of clients and whatever a stranger sends: connect() and the loop that
\* empties the socket (basic_udp_clientV2.c:95-112) leave nothing else to read.
THEOREM OnlyServerSafe == Spec => []OnlyServer
<1>1. Init => Types /\ ServerOnly
      BY InitTypes DEF Init, ServerOnly, FromServer, ShownFrom
<1>2. Types /\ ServerOnly /\ [Next]_vars => (Types /\ ServerOnly)'
      BY StepTypes, ServerOnlyKept
<1>3. ServerOnly => OnlyServer
      BY DEF ServerOnly, ShownFrom, OnlyServer
<1> QED
      BY <1>1, <1>2, <1>3, PTL DEF Spec

-----------------------------------------------------------------------------
(* TypeOK.  That the server runs commands only, and that no queue is longer *)
(* than it can be, needs to know what is sent to whom.                      *)

Toward(d) ==
    \/ /\ d.to = Server /\ d.from \in Clients
       /\ protocol = "command" => d.text \in Commands
    \/ d.from = Server /\ d.to \in Clients
ToServer(d) ==
    d.from # Server /\ (protocol = "command" => d.text \in Commands \cup {"empty"})
AllToServer == \A i \in 1 .. Len(queue[Server]) : ToServer(queue[Server][i])
Directions ==
    /\ AllToServer
    /\ \A d \in net : Toward(d)
    /\ server = "running" =>
          job.from # Server /\ job.text \in Commands /\ protocol = "command"

Counts ==
    /\ refused \in [Clients -> BOOLEAN]
    /\ server \in {"receiving", "running", "ended"}
    /\ \A s \in Sockets : Len(queue[s]) <= QueueLen
    /\ faults \in 0 .. MaxFaults /\ lost \in BOOLEAN

\* A datagram that enters a socket with room for it, or that leaves one.
LEMMA QueueGrows ==
    ASSUME Types, Directions, Counts, NEW s \in Sockets, NEW d \in Datagram,
           queue' = [queue EXCEPT ![s] = Append(@, d)], UNCHANGED protocol,
           Len(queue[s]) < QueueLen, s = Server => ToServer(d)
    PROVE  /\ \A t \in Sockets : Len(queue'[t]) <= QueueLen
           /\ AllToServer'
<1>1. /\ Len(queue[s]) \in Nat /\ Len(queue'[s]) = Len(queue[s]) + 1
      /\ \A i \in 1 .. Len(queue[s]) : queue'[s][i] = queue[s][i]
      /\ queue'[s][Len(queue[s]) + 1] = d
      /\ \A t \in Sockets \ {s} : queue'[t] = queue[t]
  BY Enqueued DEF Types
<1>2. ASSUME NEW t \in Sockets PROVE Len(queue'[t]) <= QueueLen
  BY <1>1, Names DEF Counts
<1>3. ASSUME NEW i \in 1 .. Len(queue'[Server]) PROVE ToServer(queue'[Server][i])
  <2>1. Server \in Sockets
    BY DEF Sockets
  <2>2. CASE s # Server
    BY <1>1, <1>3, <2>1, <2>2 DEF Directions, AllToServer
  <2>3. CASE s = Server
    <3>1. i \in 1 .. Len(queue[s]) \/ i = Len(queue[s]) + 1
      BY <1>1, <1>3, <2>3
    <3> QED BY <1>1, <2>3, <3>1 DEF Directions, AllToServer
  <2> QED BY <2>2, <2>3
<1>4. AllToServer'
  BY <1>3 DEF AllToServer, ToServer
<1> QED BY <1>2, <1>4

LEMMA QueueShrinks ==
    ASSUME Types, Directions, Counts, NEW s \in Sockets, queue[s] # <<>>,
           queue' = [queue EXCEPT ![s] = Tail(@)], UNCHANGED protocol
    PROVE  /\ \A t \in Sockets : Len(queue'[t]) <= QueueLen
           /\ AllToServer'
           /\ s = Server => ToServer(Head(queue[s]))
<1>1. /\ Head(queue[s]) = queue[s][1]
      /\ Len(queue[s]) \in Nat /\ Len(queue[s]) >= 1
      /\ Len(queue'[s]) = Len(queue[s]) - 1
      /\ \A i \in 1 .. Len(queue'[s]) : queue'[s][i] = queue[s][i + 1]
      /\ \A t \in Sockets \ {s} : queue'[t] = queue[t]
  BY Dequeued DEF Types
<1>2. ASSUME NEW t \in Sockets PROVE Len(queue'[t]) <= QueueLen
  <2>1. Len(queue[s]) <= QueueLen /\ (t # s => Len(queue[t]) <= QueueLen)
    BY DEF Counts
  <2> QED BY <1>1, <2>1, Names
<1>3. ASSUME NEW i \in 1 .. Len(queue'[Server]) PROVE ToServer(queue'[Server][i])
  <2>1. Server \in Sockets
    BY DEF Sockets
  <2>2. CASE s # Server
    BY <1>1, <1>3, <2>1, <2>2 DEF Directions, AllToServer
  <2>3. CASE s = Server
    <3>1. i + 1 \in 1 .. Len(queue[s]) /\ queue'[s][i] = queue[s][i + 1]
      BY <1>1, <1>3, <2>3
    <3> QED BY <2>3, <3>1 DEF Directions, AllToServer
  <2> QED BY <2>2, <2>3
<1>4. AllToServer'
  BY <1>3 DEF AllToServer, ToServer
<1>5. s = Server => ToServer(Head(queue[s]))
  <2>1. 1 \in 1 .. Len(queue[s])
    BY <1>1
  <2> QED BY <1>1, <2>1 DEF Directions, AllToServer
<1> QED BY <1>2, <1>3, <1>4, <1>5

\* Who gets an answer is a client.
LEMMA AnswersGo ==
    ASSUME Directions, NEW d \in Datagram, d.from # Server, SendBack(d), UNCHANGED protocol
    PROVE  \A e \in net' : Toward(e)'
<1>1. \A e : Toward(e)' <=> Toward(e)
  BY DEF Toward
<1>2. d.from # Stranger => Toward(AnswerTo(d))
  BY Parts DEF Toward, AnswerTo, Senders
<1> QED BY <1>1, <1>2 DEF SendBack, Directions

Sane == Counts /\ Directions

LEMMA ClientSane ==
    ASSUME Types, Sane, NEW c \in Clients, ClientNext(c)
    PROVE  Sane'
<1>1. UNCHANGED <<protocol, server, job, faults, lost, refused>>
  BY DEF ClientNext, ClientRuns, Start, EndOfInput, Ask, Connect, Drain, ClientRecv,
     RecvRefused, Timeout, serverVars, netVars
<1>2. c \in Sockets /\ c # Server
  BY Names DEF Sockets
<1>3. /\ \A t \in Sockets : Len(queue'[t]) <= QueueLen
      /\ AllToServer'
  <2>1. CASE UNCHANGED queue
    BY <1>1, <2>1 DEF Sane, Counts, Directions, AllToServer, ToServer
  <2>2. CASE queue[c] # <<>> /\ queue' = [queue EXCEPT ![c] = Tail(@)]
    BY <1>1, <1>2, <2>2, QueueShrinks DEF Sane
  <2> QED BY <2>1, <2>2 DEF ClientNext, ClientRuns, Start, EndOfInput, Ask, Connect,
          Drain, ClientRecv, RecvRefused, Timeout
<1>4. \A d \in net' : Toward(d)'
  <2>1. \A e : Toward(e)' <=> Toward(e)
    BY <1>1 DEF Toward
  <2>2. CASE UNCHANGED net
    BY <2>1, <2>2 DEF Sane, Directions
  <2>3. CASE \E t \in Requests :
                net' = net \cup {[from |-> c, to |-> Server, text |-> t,
                                  re |-> [asker |-> c, n |-> asked[c] + 1]]}
    BY <2>1, <2>3 DEF Sane, Directions, Toward, Requests
  <2> QED BY <2>2, <2>3 DEF ClientNext, ClientRuns, Start, EndOfInput, Ask, Connect,
          Drain, ClientRecv, RecvRefused, Timeout, netVars
<1> QED BY <1>1, <1>3, <1>4 DEF Sane, Counts, Directions

LEMMA ServerSane ==
    ASSUME Types, Sane, ServerRuns \/ ServerFails
    PROVE  Sane'
<1> USE DEF Sane
<1>1. ASSUME NEW d \in Received,
             Ignored(d) \/ PopenFails(d) \/ Popen(d) \/ SendsStats(d) \/ AnswersOnce(d)
      PROVE  Sane'
  <2>1. Takes(d)
    BY <1>1 DEF Ignored, PopenFails, Popen, SendsStats, AnswersOnce
  <2>2. /\ d \in Datagram /\ d = Head(queue[Server]) /\ queue[Server] # <<>>
        /\ queue' = [queue EXCEPT ![Server] = Tail(@)]
        /\ UNCHANGED <<protocol, clientVars, faults, lost, extra>>
    BY <2>1, Taken DEF Received
  <2>3. /\ \A t \in Sockets : Len(queue'[t]) <= QueueLen
        /\ AllToServer'
        /\ ToServer(d)
    BY <2>2, QueueShrinks DEF Sockets
  <2>4. UNCHANGED net \/ SendBack(d)
    BY <1>1 DEF Ignored, PopenFails, Popen, SendsStats, AnswersOnce
  <2>5. \A e \in net' : Toward(e)'
    <3>1. CASE UNCHANGED net
      BY <2>2, <3>1 DEF Directions, Toward
    <3>2. CASE SendBack(d)
      BY <2>2, <2>3, <3>2, AnswersGo DEF ToServer
    <3> QED BY <2>4, <3>1, <3>2
  <2>6. server' \in {"receiving", "running", "ended"}
        /\ (server' = "running" =>
               job'.from # Server /\ job'.text \in Commands /\ protocol' = "command")
    BY <1>1, <2>1, <2>2, <2>3 DEF Ignored, PopenFails, Popen, SendsStats, AnswersOnce,
       Takes, serverVars, ToServer
  <2> QED BY <2>2, <2>3, <2>5, <2>6 DEF Counts, Directions, clientVars
<1>2. CASE CommandEnds
  <2>1. /\ SendBack(job) /\ job \in Datagram /\ job.from # Server /\ server' = "receiving"
        /\ UNCHANGED <<protocol, clientVars, job, queue, faults, lost, extra>>
    BY <1>2 DEF CommandEnds, Directions, Types, FlightTypeOK
  <2>2. \A e \in net' : Toward(e)'
    BY <2>1, AnswersGo
  <2> QED BY <2>1, <2>2 DEF Counts, Directions, AllToServer, ToServer, clientVars
<1>3. CASE SendsUnasked
  <2>1. /\ server' = "ended"
        /\ UNCHANGED <<protocol, clientVars, job, queue, faults, lost, extra>>
    BY <1>3 DEF SendsUnasked
  <2>2. \A e \in net' : Toward(e)'
    BY <1>3, <2>1 DEF SendsUnasked, Directions, Toward
  <2> QED BY <2>1, <2>2 DEF Counts, Directions, AllToServer, ToServer, clientVars
<1>4. CASE ServerFails
  BY <1>4 DEF ServerFails, Counts, Directions, AllToServer, Toward, ToServer, clientVars, netVars
<1> QED BY <1>1, <1>2, <1>3, <1>4 DEF ServerRuns

LEMMA NetworkSane ==
    ASSUME Types, Sane, Stray \/ \E d \in net : Arrive(d) \/ Lose(d) \/ Copy(d)
    PROVE  Sane'
<1> USE DEF Sane
<1>1. ASSUME NEW d \in net, Arrive(d) \/ Copy(d) \/ Lose(d) PROVE Sane'
  <2>1. d \in Datagram /\ d.to \in Sockets /\ Toward(d)
    BY DEF Types, FlightTypeOK, Directions
  <2>2. /\ net' \subseteq net /\ UNCHANGED <<protocol, server, job>>
        /\ UNCHANGED faults \/ Fault
        /\ UNCHANGED lost \/ lost' = TRUE
        /\ UNCHANGED refused \/ refused' = [refused EXCEPT ![d.from] = TRUE]
        /\ UNCHANGED queue \/ (Enters(d) /\ queue' = [queue EXCEPT ![d.to] = Append(@, d)])
    <3>1. CASE Arrive(d)
      <4>1. net' \subseteq net /\ UNCHANGED <<protocol, server, job, faults>>
        BY <3>1 DEF Arrive, serverVars
      <4>2. \/ UNCHANGED <<refused, lost>>
               /\ Enters(d) /\ queue' = [queue EXCEPT ![d.to] = Append(@, d)]
            \/ UNCHANGED <<queue, lost>> /\ refused' = [refused EXCEPT ![d.from] = TRUE]
            \/ UNCHANGED <<queue, refused>> /\ lost' = TRUE
        BY <3>1 DEF Arrive
      <4> QED BY <4>1, <4>2
    <3>2. CASE Copy(d)
      BY <3>2 DEF Copy, serverVars, clientVars
    <3>3. CASE Lose(d)
      <4>1. net' \subseteq net /\ UNCHANGED <<protocol, server, job, refused, queue>>
        BY <3>3 DEF Lose, serverVars, clientVars
      <4>2. Fault /\ lost' = TRUE
        BY <3>3 DEF Lose
      <4> QED BY <4>1, <4>2
    <3> QED BY <1>1, <3>1, <3>2, <3>3
  <2>3. /\ faults' \in 0 .. MaxFaults /\ lost' \in BOOLEAN
        /\ refused' \in [Clients -> BOOLEAN]
    <3>1. faults' \in 0 .. MaxFaults
      BY <2>2, Names DEF Fault, Counts
    <3>2. lost' \in BOOLEAN
      BY <2>2, Zenon DEF Counts
    <3>3. refused' \in [Clients -> BOOLEAN]
      BY <2>2 DEF Counts
    <3> QED BY <3>1, <3>2, <3>3
  <2>4. d.to = Server => ToServer(d)
    BY <2>1, Names DEF Toward, ToServer
  <2>5. /\ \A t \in Sockets : Len(queue'[t]) <= QueueLen
        /\ AllToServer'
    <3>1. CASE UNCHANGED queue
      BY <2>2, <3>1 DEF Counts, Directions, AllToServer, ToServer
    <3>2. CASE Enters(d) /\ queue' = [queue EXCEPT ![d.to] = Append(@, d)]
      BY <2>1, <2>2, <2>4, <3>2, QueueGrows DEF Enters
    <3> QED BY <2>2, <3>1, <3>2
  <2>6. \A e \in net' : Toward(e)'
    BY <2>2 DEF Directions, Toward
  <2> QED BY <2>2, <2>3, <2>5, <2>6 DEF Counts, Directions
<1>2. CASE Stray
  <2>1. PICK to \in Sockets, t \in Texts :
           LET d == [from |-> Stranger, to |-> to, text |-> t, re |-> Unasked] IN
           /\ to = Server => t \in Requests \cup {"empty"}
           /\ Enters(d)
           /\ queue' = [queue EXCEPT ![to] = Append(@, d)]
    BY <1>2 DEF Stray, Sockets
  <2> DEFINE d == [from |-> Stranger, to |-> to, text |-> t, re |-> Unasked]
  <2>2. d \in Datagram
    BY UnaskedTag, Whole DEF Senders, Sockets
  <2>3. to = Server => ToServer(d)
    BY <2>1, Names DEF ToServer, Requests
  <2>4. /\ faults' \in 0 .. MaxFaults
        /\ UNCHANGED <<protocol, refused, server, job, net, lost>>
    BY <1>2, Names DEF Stray, Fault, Counts, clientVars, serverVars
  <2>5. /\ \A s \in Sockets : Len(queue'[s]) <= QueueLen
        /\ AllToServer'
    BY <2>1, <2>2, <2>3, <2>4, QueueGrows DEF Enters
  <2> QED BY <2>4, <2>5 DEF Counts, Directions, Toward
<1> QED BY <1>1, <1>2

LEMMA StepSane == Types /\ Sane /\ [Next]_vars => Sane'
<1> SUFFICES ASSUME Types, Sane, [Next]_vars PROVE Sane'
    OBVIOUS
<1>1. CASE UNCHANGED vars
  <2>1. UNCHANGED <<protocol, refused, server, job, queue, net, faults, lost>>
    BY <1>1 DEF vars, clientVars, serverVars, netVars
  <2>2. Counts'
    BY <2>1 DEF Sane, Counts
  <2>3. Directions'
    BY <2>1 DEF Sane, Directions, AllToServer, Toward, ToServer
  <2> QED BY <2>2, <2>3 DEF Sane
<1> QED BY <1>1, ClientSane, ServerSane, NetworkSane DEF Next

LEMMA InitSane == Init => Sane
<1> SUFFICES ASSUME Init PROVE Sane
    OBVIOUS
<1>1. /\ \A s \in Sockets : Len(queue[s]) = 0
      /\ 1 .. Len(queue[Server]) = {}
  BY EmptySeq, Names DEF Init, Sockets
<1>2. Counts
  <2>1. \A s \in Sockets : Len(queue[s]) <= QueueLen
    BY <1>1, Names
  <2>2. faults \in 0 .. MaxFaults
    BY Names DEF Init
  <2> QED BY <2>1, <2>2 DEF Init, Counts
<1> QED BY <1>1, <1>2 DEF Init, Sane, Directions, AllToServer

\* The exchanges keep their types, for any number of clients, requests and
\* faults; no socket's buffer overflows, and what the command server runs is
\* a command and never what a stranger's empty datagram holds
\* (command_execution_server.c:98-116).
THEOREM ExchangeTypeCorrect == Spec => []TypeOK
<1>1. Init => Types /\ Sane
  BY InitTypes, InitSane
<1>2. Types /\ Sane /\ [Next]_vars => (Types /\ Sane)'
  BY StepTypes, StepSane
<1>3. Types /\ Sane => TypeOK
  BY DEF Types, ProtocolOK, ClientTypeOK, QueueTypeOK, FlightTypeOK, Sane, Counts,
     Directions, TypeOK, Sockets
<1> QED BY <1>1, <1>2, <1>3, PTL DEF Spec

-----------------------------------------------------------------------------
(* InStep.  As long as a client of the command server is served as it       *)
(* should be, one datagram at most in all the system is from it or for it,  *)
(* and none while it is ready: its request, then the command at work, then  *)
(* the answer.  A client that gave up may leave one behind.                 *)

Mine(d, c) == d.from = c \/ d.to = c
Now(c) == [asker |-> c, n |-> asked[c]]
AskedBy(c) == {i \in 1 .. Len(queue[Server]) : queue[Server][i].from = c}

\* What is on its way for c is in one place, of the four there are.
Places == {"net", "server", "job", "client"}
NetAt(c, place) ==
    /\ \A d \in net : Mine(d, c) => place = "net" /\ d.re = Now(c)
    /\ \A d, e \in net : Mine(d, c) /\ Mine(e, c) => d = e
ServerAt(c, place) ==
    /\ \A i \in AskedBy(c) : place = "server" /\ queue[Server][i].re = Now(c)
    /\ \A i, k \in AskedBy(c) : i = k
JobAt(c, place) ==
    server = "running" /\ job.from = c => place = "job" /\ job.re = Now(c)
ClientAt(c, place) ==
    /\ \A i \in 1 .. Len(queue[c]) :
          place = "client" /\ queue[c][i].re = Now(c) /\ queue[c][i].from = Server
    /\ Len(queue[c]) <= 1
At(c, place) ==
    NetAt(c, place) /\ ServerAt(c, place) /\ JobAt(c, place) /\ ClientAt(c, place)

Turn(c) ==
    /\ \/ At(c, "none")
       \/ client[c] \in {"waiting", "failed"} /\ \E place \in Places : At(c, place)
    /\ client[c] \in {"off", "bound", "ready", "waiting", "done", "failed"}
    /\ client[c] \in {"off", "bound"} => asked[c] = 0
    /\ client[c] = "ready" /\ asked[c] > 0 => last[c].from = Server /\ last[c].re = Now(c)

Turns == protocol = "command" => \A c \in Clients : ~extra[c] => Turn(c)

\* How each place changes.
LEMMA NetSame ==
    ASSUME NEW c \in Clients, asked'[c] = asked[c], \A d \in net' : Mine(d, c) => d \in net
    PROVE  \A p : NetAt(c, p) => NetAt(c, p)'
BY DEF NetAt, Mine, Now

LEMMA NetLeaves ==
    ASSUME NEW c \in Clients, NEW p, NetAt(c, p), NEW d \in net, Mine(d, c), net' = net \ {d}
    PROVE  /\ p = "net" /\ d.re = Now(c)
           /\ \A q : NetAt(c, q)'
BY DEF NetAt, Mine

LEMMA NetEnters ==
    ASSUME NEW c \in Clients, NEW p, NetAt(c, p), p # "net", NEW d, net' = net \cup {d},
           Mine(d, c) => d.re = Now(c)'
    PROVE  NetAt(c, "net")'
BY DEF NetAt, Mine

LEMMA ServerSame ==
    ASSUME NEW c \in Clients, asked'[c] = asked[c], queue'[Server] = queue[Server]
    PROVE  \A p : ServerAt(c, p) => ServerAt(c, p)'
BY DEF ServerAt, AskedBy, Now

LEMMA ServerLeaves ==
    ASSUME Types, NEW c \in Clients, asked'[c] = asked[c], queue[Server] # <<>>,
           queue' = [queue EXCEPT ![Server] = Tail(@)], NEW p, ServerAt(c, p)
    PROVE  /\ ServerAt(c, p)'
           /\ Head(queue[Server]).from = c =>
                 /\ p = "server" /\ Head(queue[Server]).re = Now(c)
                 /\ \A q : ServerAt(c, q)'
<1>1. /\ Head(queue[Server]) = queue[Server][1]
      /\ Len(queue[Server]) \in Nat /\ Len(queue[Server]) >= 1
      /\ Len(queue'[Server]) = Len(queue[Server]) - 1
      /\ \A i \in 1 .. Len(queue'[Server]) : queue'[Server][i] = queue[Server][i + 1]
  BY Dequeued DEF Types, Sockets
<1>2. ASSUME NEW i \in AskedBy(c)'
      PROVE  i \in Nat /\ i >= 1 /\ i + 1 \in AskedBy(c) /\ queue'[Server][i] = queue[Server][i + 1]
  <2>1. i \in 1 .. Len(queue'[Server]) /\ queue'[Server][i].from = c
    BY <1>2 DEF AskedBy
  <2>2. i + 1 \in 1 .. Len(queue[Server])
    BY <1>1, <2>1
  <2> QED BY <1>1, <2>1, <2>2 DEF AskedBy
<1>3. ServerAt(c, p)'
  <2>1. ASSUME NEW i \in AskedBy(c)' PROVE p = "server" /\ queue'[Server][i].re = Now(c)'
    BY <1>2, <2>1 DEF ServerAt, Now
  <2>2. ASSUME NEW i \in AskedBy(c)', NEW k \in AskedBy(c)' PROVE i = k
    <3>1. /\ i \in Nat /\ k \in Nat /\ i + 1 \in AskedBy(c) /\ k + 1 \in AskedBy(c)
      BY <1>2
    <3>2. i + 1 = k + 1
      BY <3>1 DEF ServerAt
    <3> QED BY <3>1, <3>2
  <2> QED BY <2>1, <2>2 DEF ServerAt
<1>4. ASSUME Head(queue[Server]).from = c
      PROVE  /\ p = "server" /\ Head(queue[Server]).re = Now(c)
             /\ \A q : ServerAt(c, q)'
  <2>1. 1 \in AskedBy(c)
    BY <1>1, <1>4 DEF AskedBy
  <2>2. AskedBy(c)' = {}
    <3> SUFFICES ASSUME NEW i \in AskedBy(c)' PROVE FALSE
      OBVIOUS
    <3>1. i \in Nat /\ i >= 1 /\ i + 1 \in AskedBy(c)
      BY <1>2
    <3>2. i + 1 = 1
      BY <2>1, <3>1 DEF ServerAt
    <3> QED BY <3>1, <3>2
  <2> QED BY <1>1, <2>1, <2>2 DEF ServerAt
<1> QED BY <1>3, <1>4

LEMMA ServerEnters ==
    ASSUME Types, NEW c \in Clients, asked'[c] = asked[c], NEW d \in Datagram,
           queue' = [queue EXCEPT ![Server] = Append(@, d)], NEW p, ServerAt(c, p)
    PROVE  /\ d.from # c => ServerAt(c, p)'
           /\ p # "server" /\ d.re = Now(c) => ServerAt(c, "server")'
<1>1. /\ Len(queue[Server]) \in Nat /\ Len(queue'[Server]) = Len(queue[Server]) + 1
      /\ \A i \in 1 .. Len(queue[Server]) : queue'[Server][i] = queue[Server][i]
      /\ queue'[Server][Len(queue[Server]) + 1] = d
  BY Enqueued DEF Types, Sockets
<1>2. ASSUME NEW i \in AskedBy(c)'
      PROVE  \/ i \in AskedBy(c) /\ queue'[Server][i] = queue[Server][i]
             \/ i = Len(queue[Server]) + 1 /\ queue'[Server][i] = d /\ d.from = c
  <2>1. i \in 1 .. Len(queue'[Server]) /\ queue'[Server][i].from = c
    BY <1>2 DEF AskedBy
  <2>2. i \in 1 .. Len(queue[Server]) \/ i = Len(queue[Server]) + 1
    BY <1>1, <2>1
  <2> QED BY <1>1, <2>1, <2>2 DEF AskedBy
<1>3. Now(c)' = Now(c)
  BY DEF Now
<1>4. CASE d.from # c
  BY <1>2, <1>3, <1>4 DEF ServerAt
<1>5. CASE p # "server"
  <2>1. AskedBy(c) = {}
    BY <1>5 DEF ServerAt
  <2> QED BY <1>2, <1>3, <2>1 DEF ServerAt
<1>6. CASE d.from = c /\ p = "server"
  BY <1>6
<1> QED BY <1>4, <1>5, <1>6

LEMMA ClientSame ==
    ASSUME NEW c \in Clients, asked'[c] = asked[c], queue'[c] = queue[c]
    PROVE  \A p : ClientAt(c, p) => ClientAt(c, p)'
BY DEF ClientAt, Now

LEMMA ClientEnters ==
    ASSUME Types, NEW c \in Clients, asked'[c] = asked[c], NEW d \in Datagram,
           queue' = [queue EXCEPT ![c] = Append(@, d)], NEW p, ClientAt(c, p),
           p # "client", d.re = Now(c), d.from = Server
    PROVE  ClientAt(c, "client")'
<1>1. /\ Len(queue[c]) \in Nat /\ Len(queue'[c]) = Len(queue[c]) + 1
      /\ queue'[c][Len(queue[c]) + 1] = d
  BY Enqueued DEF Types, Sockets
<1>2. Len(queue[c]) = 0
  <2> SUFFICES ASSUME Len(queue[c]) # 0 PROVE FALSE
    OBVIOUS
  <2>1. 1 \in 1 .. Len(queue[c])
    BY <1>1
  <2> QED BY <2>1 DEF ClientAt
<1>3. Len(queue'[c]) = 1 /\ queue'[c][1] = d
  BY <1>1, <1>2
<1>4. \A i \in 1 .. Len(queue'[c]) : i = 1
  <2>1. \A i \in 1 .. 1 : i = 1
    OBVIOUS
  <2> QED BY <1>3, <2>1
<1> QED BY <1>3, <1>4 DEF ClientAt, Now

LEMMA JobSame ==
    ASSUME NEW c \in Clients, asked'[c] = asked[c],
           server' = "running" /\ job'.from = c => server = "running" /\ job' = job
    PROVE  \A p : JobAt(c, p) => JobAt(c, p)'
BY DEF JobAt, Now

\* A place is left for another, or kept.
LEMMA TurnMoves ==
    ASSUME NEW c \in Clients, Turn(c),
           client'[c] = client[c], asked'[c] = asked[c], last'[c] = last[c],
           ASSUME NEW p \in Places \cup {"none"}, At(c, p)
           PROVE  At(c, p)' \/ (p # "none" /\ \E q \in Places : At(c, q)')
    PROVE  Turn(c)'
<1>1. At(c, "none") => At(c, "none")'
  OBVIOUS
<1>2. (\E p \in Places : At(c, p)) => \E q \in Places : At(c, q)'
  OBVIOUS
<1>3. Now(c)' = Now(c)
  BY DEF Now
<1> QED BY <1>1, <1>2, <1>3 DEF Turn

\* The command protocol: nothing is unasked.
LEMMA ClientTurns ==
    ASSUME Types, Sane, Turns, protocol = "command", NEW b \in Clients, ClientNext(b),
           NEW c \in Clients, ~extra'[c]
    PROVE  Turn(c)'
<1>1. UNCHANGED <<protocol, server, job, extra>> /\ queue'[Server] = queue[Server]
  <2>1. UNCHANGED <<protocol, server, job, extra>>
    BY DEF ClientNext, ClientRuns, Start, EndOfInput, Ask, Connect, Drain, ClientRecv,
       RecvRefused, Timeout, serverVars, netVars
  <2>2. UNCHANGED queue \/ queue' = [queue EXCEPT ![b] = Tail(@)]
    BY DEF ClientNext, ClientRuns, Start, EndOfInput, Ask, Connect, Drain, ClientRecv,
       RecvRefused, Timeout
  <2> QED BY <2>1, <2>2, Names DEF Types, QueueTypeOK, Sockets
<1>2. ~extra[c] /\ Turn(c)
  BY <1>1 DEF Turns
<1>3. CASE b # c
  <2>1. /\ client'[c] = client[c] /\ asked'[c] = asked[c] /\ last'[c] = last[c]
        /\ queue'[c] = queue[c]
        /\ \/ UNCHANGED net
           \/ \E t \in Requests :
                 net' = net \cup {[from |-> b, to |-> Server, text |-> t,
                                   re |-> [asker |-> b, n |-> asked[b] + 1]]}
    BY <1>3 DEF ClientNext, ClientRuns, Start, EndOfInput, Ask, Connect, Drain, ClientRecv,
       RecvRefused, Timeout, Goto, netVars, Types, ClientTypeOK, QueueTypeOK, Sockets
  <2>2. \A d \in net' : Mine(d, c) => d \in net
    BY <1>3, <2>1, Names DEF Mine
  <2>3. ASSUME NEW p, At(c, p) PROVE At(c, p)'
    BY <1>1, <2>1, <2>2, <2>3, NetSame, ServerSame, ClientSame, JobSame DEF At
  <2> QED BY <1>2, <2>1, <2>3, TurnMoves
<1>4. CASE b = c /\ (Start(c) \/ Connect(c) \/ EndOfInput(c) \/ RecvRefused(c))
  <2>1. /\ asked'[c] = asked[c] /\ UNCHANGED <<queue, net>>
        /\ \/ client[c] = "off" /\ client'[c] = "bound"
           \/ client[c] = "bound" /\ client'[c] = "ready"
           \/ client[c] = "ready" /\ client'[c] = "done"
           \/ client[c] = "waiting" /\ client'[c] = "failed"
    BY <1>4 DEF Start, Connect, EndOfInput, RecvRefused, Goto, netVars, Types, ClientTypeOK
  <2>2. ASSUME NEW p, At(c, p) PROVE At(c, p)'
    BY <1>1, <2>1, <2>2, NetSame, ServerSame, ClientSame, JobSame DEF At
  <2> QED BY <1>2, <2>1, <2>2 DEF Turn
<1>5. CASE b = c /\ Ask(c)
  <2>1. client[c] = "ready" /\ At(c, "none")
    BY <1>2, <1>5 DEF Ask, Turn
  <2>2. CASE Goto(c, "failed") /\ UNCHANGED <<asked, net>>
    <3>1. client'[c] = "failed" /\ UNCHANGED <<asked, net, queue>>
      BY <1>5, <2>2 DEF Ask, Goto, Types, ClientTypeOK
    <3>2. At(c, "none")'
      BY <1>1, <2>1, <3>1, NetSame, ServerSame, ClientSame, JobSame DEF At
    <3> QED BY <3>1, <3>2 DEF Turn
  <2>3. CASE /\ Goto(c, "waiting") /\ asked' = [asked EXCEPT ![c] = @ + 1]
             /\ \E t \in Requests :
                   net' = net \cup {[from |-> c, to |-> Server, text |-> t,
                                     re |-> [asker |-> c, n |-> asked[c] + 1]]}
    <3>1. client'[c] = "waiting" /\ asked'[c] = asked[c] + 1 /\ UNCHANGED queue
      BY <1>5, <2>3 DEF Ask, Goto, Types, ClientTypeOK
    <3>2. PICK t : net' = net \cup {[from |-> c, to |-> Server, text |-> t,
                                     re |-> [asker |-> c, n |-> asked[c] + 1]]}
      BY <2>3
    <3>3. NetAt(c, "net")'
      BY <2>1, <3>1, <3>2, NetEnters DEF At, Now
    <3>4. ServerAt(c, "net")' /\ JobAt(c, "net")' /\ ClientAt(c, "net")'
      BY <1>1, <2>1, <3>1 DEF At, ServerAt, JobAt, ClientAt, AskedBy
    <3> QED BY <3>1, <3>3, <3>4 DEF Turn, At, Places
  <2> QED BY <1>5, <2>2, <2>3 DEF Ask
<1>6. CASE b = c /\ ClientRecv(c)
  <2>1. /\ client[c] = "waiting" /\ client'[c] = "ready" /\ queue[c] # <<>>
        /\ last'[c] = Head(queue[c]) /\ queue' = [queue EXCEPT ![c] = Tail(@)]
        /\ UNCHANGED <<asked, net>>
    BY <1>6 DEF ClientRecv, AfterRecv, Goto, netVars, Types, ClientTypeOK
  <2>2. /\ Head(queue[c]) = queue[c][1] /\ Len(queue[c]) \in Nat /\ Len(queue[c]) >= 1
        /\ Len(queue'[c]) = Len(queue[c]) - 1
    BY <2>1, Dequeued DEF Types, Sockets
  <2>3. 1 \in 1 .. Len(queue[c])
    BY <2>2
  <2>4. PICK p \in Places \cup {"none"} : At(c, p)
    BY <1>2 DEF Turn
  <2>5. /\ p = "client" /\ Len(queue[c]) = 1
        /\ queue[c][1].re = Now(c) /\ queue[c][1].from = Server
    <3>1. ClientAt(c, p)
      BY <2>4 DEF At
    <3>2. p = "client" /\ queue[c][1].re = Now(c) /\ queue[c][1].from = Server
      BY <2>3, <3>1 DEF ClientAt
    <3>3. Len(queue[c]) <= 1
      BY <3>1 DEF ClientAt
    <3>4. \A n \in Nat : n >= 1 /\ n <= 1 => n = 1
      OBVIOUS
    <3>5. Len(queue[c]) = 1
      BY <2>2, <3>3, <3>4
    <3> QED BY <3>2, <3>5
  <2>6. Len(queue'[c]) = 0 /\ 1 .. Len(queue'[c]) = {}
    BY <2>2, <2>5
  <2>7. NetAt(c, "none")' /\ ServerAt(c, "none")' /\ JobAt(c, "none")' /\ ClientAt(c, "none")'
    BY <1>1, <2>1, <2>4, <2>5, <2>6 DEF At, NetAt, ServerAt, JobAt, ClientAt, AskedBy
  <2>8. last'[c].from = Server /\ last'[c].re = Now(c)'
    BY <2>1, <2>2, <2>5 DEF Now
  <2> QED BY <2>1, <2>7, <2>8 DEF Turn, At
<1>7. ~Drain(c) /\ ~Timeout(c)
  BY <1>2 DEF Drain, Timeout, Turn
<1> QED BY <1>3, <1>4, <1>5, <1>6, <1>7 DEF ClientNext, ClientRuns

LEMMA ServerTurns ==
    ASSUME Types, Sane, Turns, protocol = "command", ServerRuns \/ ServerFails,
           NEW c \in Clients, ~extra'[c]
    PROVE  Turn(c)'
<1>1. UNCHANGED <<protocol, client, asked, last, extra>>
  BY DEF ServerRuns, ServerFails, Takes, Ignored, PopenFails, Popen, SendsStats,
     AnswersOnce, CommandEnds, SendsUnasked, clientVars, netVars
<1>2. ~extra[c] /\ Turn(c)
  BY <1>1 DEF Turns
<1>3. SUFFICES ASSUME NEW p \in Places \cup {"none"}, At(c, p)
               PROVE  At(c, p)' \/ (p # "none" /\ \E q \in Places : At(c, q)')
  BY <1>1, <1>2, TurnMoves
<1>4. ASSUME NEW d \in Received, Ignored(d) \/ PopenFails(d) \/ Popen(d)
      PROVE  At(c, p)' \/ (p # "none" /\ \E q \in Places : At(c, q)')
  <2>1. Takes(d) /\ server = "receiving"
    BY <1>4 DEF Ignored, PopenFails, Popen, Takes
  <2>2. /\ d \in Datagram /\ d = Head(queue[Server]) /\ queue[Server] # <<>>
        /\ queue' = [queue EXCEPT ![Server] = Tail(@)]
    BY <2>1, Taken DEF Received
  <2>3. queue'[c] = queue[c]
    BY <2>2, Names DEF Types, QueueTypeOK, Sockets
  <2>4. d.from # Server /\ d.from # c => AnswerTo(d).from # c /\ AnswerTo(d).to # c
    BY Names DEF AnswerTo
  <2>5. ClientAt(c, p)' /\ ServerAt(c, p)'
    BY <1>1, <1>3, <2>2, <2>3, ClientSame, ServerLeaves DEF At
  <2>6. CASE d.from # c
    <3>1. \A e \in net' : Mine(e, c) => e \in net
      BY <1>4, <2>6, Names DEF Ignored, PopenFails, Popen, SendBack, AnswerTo, Mine
    <3>2. ~(server' = "running" /\ job'.from = c)
      BY <1>4, <2>1, <2>6 DEF Ignored, PopenFails, Popen, serverVars
    <3>3. NetAt(c, p)' /\ JobAt(c, p)'
      BY <1>1, <1>3, <3>1, <3>2, NetSame DEF At, JobAt
    <3> QED BY <2>5, <3>3 DEF At
  <2>7. CASE d.from = c
    <3>1. p = "server" /\ d.re = Now(c) /\ \A q : ServerAt(c, q)'
      BY <1>1, <1>3, <2>2, <2>7, ServerLeaves DEF At
    <3>2. \A q : ClientAt(c, q)'
      BY <2>5, <3>1 DEF ClientAt
    <3>3. CASE Ignored(d)
      <4>1. UNCHANGED <<server, job, net>>
        BY <3>3 DEF Ignored, serverVars
      <4>2. NetAt(c, p)' /\ JobAt(c, p)'
        BY <1>1, <1>3, <4>1, NetSame, JobSame DEF At
      <4> QED BY <2>5, <4>2 DEF At
    <3>4. CASE PopenFails(d)
      <4>1. net' = net \cup {AnswerTo(d)} /\ server' = "receiving"
        BY <2>1, <2>7, <3>4, Names DEF PopenFails, SendBack, serverVars
      <4>2. AnswerTo(d).re = Now(c)'
        BY <1>1, <3>1 DEF AnswerTo, Now
      <4>3. NetAt(c, "net")' /\ JobAt(c, "net")'
        BY <1>3, <3>1, <4>1, <4>2, NetEnters DEF At, JobAt
      <4> QED BY <3>1, <3>2, <4>3 DEF At, Places
    <3>5. CASE Popen(d)
      <4>1. UNCHANGED net /\ server' = "running" /\ job' = d
        BY <3>5 DEF Popen
      <4>2. JobAt(c, "job")'
        BY <1>1, <3>1, <4>1 DEF JobAt, Now
      <4>3. NetAt(c, "job")'
        BY <1>3, <3>1, <4>1 DEF At, NetAt
      <4> QED BY <3>1, <3>2, <4>2, <4>3 DEF At, Places
    <3> QED BY <1>4, <3>3, <3>4, <3>5
  <2> QED BY <2>6, <2>7
<1>5. CASE CommandEnds
  <2>1. /\ server = "running" /\ server' = "receiving" /\ SendBack(job)
        /\ UNCHANGED <<job, queue>>
    BY <1>5 DEF CommandEnds
  <2>2. JobAt(c, p)' /\ ServerAt(c, p)' /\ ClientAt(c, p)'
    BY <1>1, <1>3, <2>1, ServerSame, ClientSame DEF At, JobAt
  <2>3. CASE job.from # c
    <3>1. \A e \in net' : Mine(e, c) => e \in net
      BY <2>1, <2>3, Names DEF SendBack, AnswerTo, Mine
    <3>2. NetAt(c, p)'
      BY <1>1, <1>3, <3>1, NetSame DEF At
    <3> QED BY <2>2, <3>2 DEF At
  <2>4. CASE job.from = c
    <3>1. p = "job" /\ job.re = Now(c)
      BY <1>3, <2>1, <2>4 DEF At, JobAt
    <3>2. net' = net \cup {AnswerTo(job)} /\ AnswerTo(job).re = Now(c)'
      BY <1>1, <2>1, <2>4, <3>1, Names DEF SendBack, AnswerTo, Now
    <3>3. NetAt(c, "net")'
      BY <1>3, <3>1, <3>2, NetEnters DEF At
    <3>4. JobAt(c, "net")' /\ ServerAt(c, "net")' /\ ClientAt(c, "net")'
      BY <2>1, <2>2, <3>1 DEF JobAt, ServerAt, ClientAt
    <3> QED BY <3>1, <3>3, <3>4 DEF At, Places
  <2> QED BY <2>3, <2>4
<1>6. CASE ServerFails
  <2>1. UNCHANGED <<job, queue, net>> /\ server' = "ended"
    BY <1>6 DEF ServerFails, netVars
  <2>2. At(c, p)'
    BY <1>1, <1>3, <2>1, NetSame, ServerSame, ClientSame DEF At, JobAt
  <2> QED BY <2>2
<1>7. ~SendsUnasked /\ \A d \in Received : ~SendsStats(d) /\ ~AnswersOnce(d)
  BY DEF SendsUnasked, SendsStats, AnswersOnce
<1> QED BY <1>4, <1>5, <1>6, <1>7 DEF ServerRuns

LEMMA NetworkTurns ==
    ASSUME Types, Sane, Turns, protocol = "command",
           Stray \/ \E d \in net : Arrive(d) \/ Lose(d) \/ Copy(d),
           NEW c \in Clients, ~extra'[c]
    PROVE  Turn(c)'
<1>1. UNCHANGED <<protocol, client, asked, last, server, job>>
  BY DEF Arrive, Lose, Copy, Stray, clientVars, serverVars
<1>2. ~extra[c] /\ Turn(c)
  <2>1. extra[c] => extra'[c]
    BY DEF Arrive, Lose, Copy, Stray, Types, ClientTypeOK
  <2> QED BY <2>1 DEF Turns
<1>3. SUFFICES ASSUME NEW p \in Places \cup {"none"}, At(c, p)
               PROVE  At(c, p)' \/ (p # "none" /\ \E q \in Places : At(c, q)')
  BY <1>1, <1>2, TurnMoves
<1>4. JobAt(c, p)'
  BY <1>1, <1>3, JobSame DEF At
<1>5. ASSUME NEW d \in net, Arrive(d) \/ Lose(d)
      PROVE  At(c, p)' \/ (p # "none" /\ \E q \in Places : At(c, q)')
  <2>1. /\ net' = net \ {d}
        /\ UNCHANGED queue \/ queue' = [queue EXCEPT ![d.to] = Append(@, d)]
    BY <1>5 DEF Arrive, Lose
  <2>2. d \in Datagram /\ d.to \in Sockets /\ Toward(d)
    BY DEF Types, FlightTypeOK, Sane, Directions
  <2>3. NetAt(c, p)'
    BY <1>1, <1>3, <2>1, NetSame DEF At
  <2>4. CASE UNCHANGED queue
    BY <1>1, <1>3, <1>4, <2>3, <2>4, ServerSame, ClientSame DEF At
  <2>5. CASE queue' = [queue EXCEPT ![d.to] = Append(@, d)]
    <3>1. CASE ~Mine(d, c)
      <4>1. queue'[c] = queue[c]
        BY <2>5, <3>1 DEF Mine, Types, QueueTypeOK, Sockets
      <4>2. ServerAt(c, p)'
        <5>1. CASE d.to = Server
          BY <1>1, <1>3, <2>2, <2>5, <3>1, <5>1, ServerEnters DEF At, Mine
        <5>2. CASE d.to # Server
          BY <1>1, <1>3, <2>5, <5>2, ServerSame DEF At, Types, QueueTypeOK, Sockets
        <5> QED BY <5>1, <5>2
      <4> QED BY <1>1, <1>3, <1>4, <2>3, <4>1, <4>2, ClientSame DEF At
    <3>2. CASE Mine(d, c)
      <4>1. p = "net" /\ d.re = Now(c) /\ \A q : NetAt(c, q)'
        BY <1>3, <2>1, <3>2, NetLeaves DEF At
      <4>2. CASE d.to = Server
        <5>1. ServerAt(c, "server")'
          BY <1>1, <1>3, <2>2, <2>5, <4>1, <4>2, ServerEnters DEF At
        <5>2. queue'[c] = queue[c]
          BY <2>5, <4>2, Names DEF Types, QueueTypeOK, Sockets
        <5>3. ClientAt(c, "server")' /\ JobAt(c, "server")'
          BY <1>1, <1>3, <4>1, <5>2 DEF At, ClientAt, JobAt
        <5> QED BY <4>1, <5>1, <5>3 DEF At, Places
      <4>3. CASE d.to = c
        <5>1. d.from = Server
          BY <2>2, <4>3, Names DEF Toward
        <5>2. ClientAt(c, "client")'
          BY <1>1, <1>3, <2>2, <2>5, <4>1, <4>3, <5>1, ClientEnters DEF At
        <5>3. queue'[Server] = queue[Server]
          BY <2>5, <4>3, Names DEF Types, QueueTypeOK, Sockets
        <5>4. ServerAt(c, "client")' /\ JobAt(c, "client")'
          BY <1>1, <1>3, <4>1, <5>3 DEF At, ServerAt, AskedBy, JobAt
        <5> QED BY <4>1, <5>2, <5>4 DEF At, Places
      <4> QED BY <2>2, <3>2, <4>2, <4>3, Names DEF Toward, Mine
    <3> QED BY <3>1, <3>2
  <2> QED BY <2>1, <2>4, <2>5
<1>6. ASSUME NEW d \in net, Copy(d) PROVE At(c, p)'
  <2>1. /\ UNCHANGED net /\ queue' = [queue EXCEPT ![d.to] = Append(@, d)]
        /\ Asker(d) \in Clients /\ extra' = [extra EXCEPT ![Asker(d)] = TRUE]
    BY <1>6 DEF Copy
  <2>2. d \in Datagram /\ d.to \in Sockets
    BY DEF Types, FlightTypeOK
  <2>3. ~Mine(d, c)
    <3> SUFFICES ASSUME Mine(d, c) PROVE FALSE
      OBVIOUS
    <3>1. d.re = Now(c)
      BY <1>3 DEF At, NetAt
    <3>2. Asker(d) = c
      BY <3>1 DEF Asker, Now
    <3>3. extra'[c]
      BY <2>1, <3>2 DEF Types, ClientTypeOK
    <3> QED BY <3>3
  <2>4. queue'[c] = queue[c]
    BY <2>1, <2>3 DEF Mine, Types, QueueTypeOK, Sockets
  <2>5. ServerAt(c, p)'
    <3>1. CASE d.to = Server
      BY <1>1, <1>3, <2>1, <2>2, <2>3, <3>1, ServerEnters DEF At, Mine
    <3>2. CASE d.to # Server
      BY <1>1, <1>3, <2>1, <3>2, ServerSame DEF At, Types, QueueTypeOK, Sockets
    <3> QED BY <3>1, <3>2
  <2> QED BY <1>1, <1>3, <1>4, <2>1, <2>4, <2>5, NetSame, ClientSame DEF At
<1>7. CASE Stray
  <2>1. PICK to \in Sockets, t \in Texts :
           /\ queue' = [queue EXCEPT ![to] =
                 Append(@, [from |-> Stranger, to |-> to, text |-> t, re |-> Unasked])]
           /\ extra' = IF to = Server THEN extra ELSE [extra EXCEPT ![to] = TRUE]
    BY <1>7 DEF Stray, Sockets
  <2>2. [from |-> Stranger, to |-> to, text |-> t, re |-> Unasked] \in Datagram
    BY UnaskedTag, Whole DEF Senders, Sockets
  <2>3. to # c
    <3> SUFFICES ASSUME to = c PROVE FALSE
      OBVIOUS
    <3>1. extra'[c]
      BY <2>1, Names DEF Types, ClientTypeOK
    <3> QED BY <3>1
  <2>4. queue'[c] = queue[c] /\ UNCHANGED net
    BY <1>7, <2>1, <2>3 DEF Stray, Types, QueueTypeOK, Sockets
  <2>5. ServerAt(c, p)'
    <3>1. CASE to = Server
      BY <1>1, <1>3, <2>1, <2>2, <3>1, Names, ServerEnters DEF At
    <3>2. CASE to # Server
      BY <1>1, <1>3, <2>1, <3>2, ServerSame DEF At, Types, QueueTypeOK, Sockets
    <3> QED BY <3>1, <3>2
  <2> QED BY <1>1, <1>3, <1>4, <2>4, <2>5, NetSame, ClientSame DEF At
<1> QED BY <1>5, <1>6, <1>7

LEMMA StepTurns == Types /\ Sane /\ Turns /\ [Next]_vars => Turns'
<1> SUFFICES ASSUME Types, Sane, Turns, [Next]_vars,
                    protocol' = "command", NEW c \in Clients, ~extra'[c]
             PROVE  Turn(c)'
  BY DEF Turns
<1>1. protocol = "command"
  BY DEF Next, vars, clientVars, serverVars, netVars, ClientNext, ClientRuns, Start,
     Connect, Drain, Ask, EndOfInput, ClientRecv, RecvRefused, Timeout, ServerRuns,
     Takes, Ignored, PopenFails, Popen, CommandEnds, SendsStats, AnswersOnce,
     SendsUnasked, ServerFails, Arrive, Lose, Copy, Stray
<1>2. CASE UNCHANGED vars
  <2>1. /\ UNCHANGED <<client, asked, last, queue, net, server, job, extra>>
        /\ Turn(c)
    BY <1>1, <1>2 DEF vars, clientVars, serverVars, netVars, Turns
  <2>2. ASSUME NEW p, At(c, p) PROVE At(c, p)'
    BY <2>1, <2>2, NetSame, ServerSame, ClientSame, JobSame DEF At
  <2> QED BY <2>1, <2>2, TurnMoves
<1> QED BY <1>1, <1>2, ClientTurns, ServerTurns, NetworkTurns DEF Next

LEMMA InitTurns == Init => Turns
<1> SUFFICES ASSUME Init, NEW c \in Clients PROVE Turn(c)
  BY DEF Turns
<1>1. Len(queue[c]) = 0 /\ 1 .. Len(queue[c]) = {} /\ 1 .. Len(queue[Server]) = {}
  BY EmptySeq DEF Init
<1>2. At(c, "none")
  BY <1>1 DEF Init, At, NetAt, ServerAt, JobAt, ClientAt, AskedBy
<1> QED BY <1>2 DEF Init, Turn

\* The answer that the user of a command client reads is the answer to the
\* last command: nothing numbers the answers, so that all rests on there
\* being one datagram at most between this client and the server.  It holds
\* for any number of clients, whatever is lost and whatever the others send,
\* while no datagram of this client is copied and no stranger writes to its
\* port before connect() (command_execution_client.c:101-133).
THEOREM InStepSafe == Spec => []InStep
<1>1. Init => Types /\ Sane /\ Turns
  BY InitTypes, InitSane, InitTurns
<1>2. Types /\ Sane /\ Turns /\ [Next]_vars => (Types /\ Sane /\ Turns)'
  BY StepTypes, StepSane, StepTurns
<1>3. Turns => InStep
  BY DEF Turns, Turn, InStep, Now
<1> QED BY <1>1, <1>2, <1>3, PTL DEF Spec
=============================================================================
