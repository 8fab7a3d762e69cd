------------------------- MODULE ChatServer_proofs -------------------------
(***************************************************************************)
(* Proofs about the chat server, for any number of connections, any limits *)
(* on descriptors and any buffer sizes.                                    *)
(***************************************************************************)
EXTENDS ChatServer, SequenceTheorems, FiniteSetTheorems, TLAPS

-----------------------------------------------------------------------------
(* The first inductive invariant: types and descriptors.  TypeOK alone is  *)
(* not inductive: that the log's authors are connections rests on a ready  *)
(* descriptor being open, and that on select(), scan and broadcast agreeing*)
(* about which descriptors are.                                            *)

\* The broadcast loop has somebody to serve only in a broadcast, and then
\* there is a line to send; the scan is past the descriptor whose handler
\* runs, which may be closed; the buffer holds what this handler has read.
InHandler ==
    /\ pc # "broadcast" => todo = {}
    /\ pc \in {"recv", "broadcast"} => me \notin read_list
    /\ todo # {} => log # <<>>
    /\ pc # "recv" => total = 0
    /\ pc = "recv" => total <= taken[Author]

DInv == TypeOK /\ DescriptorsAgree /\ InHandler

\* Client descriptors are numbers above the listener's.
LEMMA FDFacts ==
    /\ Listener \in Nat /\ FdSetSize \in Nat /\ OpenMax \in Nat
    /\ FD \subseteq Nat /\ \A f \in FD : f > Listener
    /\ Listener \notin FD /\ Listener \in Watchable
    /\ Watchable \subseteq Nat /\ Open \subseteq FD
BY ConstantsAssumption DEF FD, Watchable, Open

\* A descriptor served in the scan is open, and holds a connection.
LEMMA ServingOpen ==
    ASSUME DInv, NEW f \in FD, Serving(f)
    PROVE  /\ f \in Open /\ f # Listener
           /\ conn[f] \in Conns
           /\ pc = "scan" /\ todo = {}
<1>1. f \in read_list /\ pc = "scan"
  BY DEF Serving, Lowest
<1>2. f # Listener
  BY FDFacts
<1>3. f \in Open
  BY <1>1, <1>2 DEF DInv, DescriptorsAgree
<1>4. conn \in [FD -> Conns \cup {NoConn}]
  BY DEF DInv, TypeOK, ServerTypeOK
<1>5. conn[f] \in Conns
  BY <1>3, <1>4 DEF Open
<1>6. todo = {}
  BY <1>1 DEF DInv, InHandler
<1> QED BY <1>1, <1>2, <1>3, <1>5, <1>6

\* So is the one whose handler reads.
LEMMA ReadingOpen ==
    ASSUME DInv, Reading
    PROVE  /\ me \in Open /\ me \in FD /\ me # Listener
           /\ Author \in Conns
           /\ pc = "recv" /\ todo = {} /\ me \notin read_list
           /\ total \in Nat /\ taken[Author] \in Nat /\ total <= taken[Author]
<1>1. pc = "recv"
  BY DEF Reading
<1>2. me \in Open /\ todo = {} /\ me \notin read_list /\ total <= taken[Author]
  BY <1>1 DEF DInv, DescriptorsAgree, InHandler
<1>3. /\ conn \in [FD -> Conns \cup {NoConn}] /\ taken \in [Conns -> Nat]
      /\ total \in Nat
  BY DEF DInv, TypeOK, ServerTypeOK, NetworkTypeOK
<1>4. me \in FD /\ me # Listener
  BY <1>2, FDFacts
<1>5. Author \in Conns
  BY <1>2, <1>3 DEF Open, Author
<1> QED BY <1>1, <1>2, <1>3, <1>4, <1>5

\* So is a recipient of the broadcast loop, and it is not the author.
LEMMA SendingOpen ==
    ASSUME DInv, NEW j \in FD, Sending(j)
    PROVE  /\ pc = "broadcast" /\ j \in todo
           /\ j \in Open /\ j # Listener /\ j # me /\ me \in Open
           /\ conn[j] \in Conns
           /\ Len(log) \in Nat \ {0}
           /\ Line \in Lines
<1>1. /\ pc = "broadcast" /\ j \in todo
  BY DEF Sending, Lowest
<1>2. /\ j \in Open /\ j # Listener /\ j # me /\ me \in Open /\ log # <<>>
  BY <1>1, FDFacts DEF DInv, DescriptorsAgree, InHandler
<1>3. conn \in [FD -> Conns \cup {NoConn}]
  BY DEF DInv, TypeOK, ServerTypeOK
<1>4. conn[j] \in Conns
  BY <1>2, <1>3 DEF Open
<1>5. log \in Seq(Lines)
  BY DEF DInv, TypeOK, HistoryTypeOK
<1>6. Len(log) \in Nat \ {0}
  BY <1>2, <1>5, EmptySeq, LenProperties
<1>7. Line \in Lines
  BY <1>5, <1>6, ElementOfSeq DEF Line
<1> QED BY <1>1, <1>2, <1>4, <1>6, <1>7

\* What close() does to the connection's state keeps its type, and the
\* descriptor leaves the table and the watched set together.
LEMMA DropType ==
    ASSUME DInv, NEW f \in Open, Drop(f)
    PROVE  /\ list' \subseteq Watchable
           /\ conn' \in [FD -> Conns \cup {NoConn}]
           /\ cl' \in [Conns -> {"init", "open", "fin", "rst", "gone"}]
           /\ queue' \in [Conns -> Nat]
           /\ unread' \in [Conns -> Nat]
           /\ Open' = Open \ {f}
           /\ list' = list \ {f}
           /\ list' = Open' \cup {Listener}
<1>1. /\ conn' = [conn EXCEPT ![f] = NoConn]
      /\ list' = list \ {f}
      /\ cl' = [cl EXCEPT ![conn[f]] = "gone"]
      /\ queue' = [queue EXCEPT ![conn[f]] = 0]
      /\ unread' = [unread EXCEPT ![conn[f]] = 0]
  BY DEF Drop, Close
<1>2. /\ list \subseteq Watchable
      /\ conn \in [FD -> Conns \cup {NoConn}]
      /\ list = Open \cup {Listener}
  BY DEF DInv, TypeOK, ServerTypeOK, DescriptorsAgree
<1>3. /\ cl \in [Conns -> {"init", "open", "fin", "rst", "gone"}]
      /\ queue \in [Conns -> Nat]
      /\ unread \in [Conns -> Nat]
  BY DEF DInv, TypeOK, NetworkTypeOK
<1>4. f \in FD /\ f # Listener
  BY FDFacts
<1>5. Open' = Open \ {f}
  BY <1>1, <1>2, <1>4, ConstantsAssumption DEF Open
<1>6. conn' \in [FD -> Conns \cup {NoConn}]
  BY <1>1, <1>2
<1>7. /\ cl' \in [Conns -> {"init", "open", "fin", "rst", "gone"}]
      /\ queue' \in [Conns -> Nat]
      /\ unread' \in [Conns -> Nat]
  BY <1>1, <1>3
<1> QED BY <1>1, <1>2, <1>4, <1>5, <1>6, <1>7

LEMMA DInvInit == Init => DInv
<1> SUFFICES ASSUME Init PROVE DInv
  OBVIOUS
<1>1. ServerTypeOK
  <2>1. total \in Nat /\ total < MaxMsg
    BY ConstantsAssumption DEF Init
  <2> QED BY <2>1, FDFacts DEF Init, ServerTypeOK
<1>2. NetworkTypeOK
  BY DEF Init, NetworkTypeOK
<1>3. HistoryTypeOK
  BY DEF Init, HistoryTypeOK
<1>4. DescriptorsAgree
  BY FDFacts DEF Init, DescriptorsAgree, Open
<1>5. InHandler
  BY DEF Init, InHandler
<1> QED BY <1>1, <1>2, <1>3, <1>4, <1>5 DEF DInv, TypeOK

\* The clients and the network touch no descriptor; Connect only lengthens
\* the backlog.
LEMMA DInvClient ==
    ASSUME DInv, ClientNext
    PROVE  DInv'
<1> PICK c \in Conns : Connect(c) \/ Arrive(c) \/ Read(c) \/ Quit(c) \/ Reset(c)
  BY DEF ClientNext
<1>1. UNCHANGED <<server, taken, stream, history>>
  BY DEF Connect, Arrive, Read, Quit, Reset, clientUnchanged
<1>2. NetworkTypeOK
  BY DEF DInv, TypeOK
<1>3. /\ NetworkTypeOK'
      /\ backlog # <<>> => backlog' # <<>>
  <2>1. CASE Connect(c)
    <3>1. /\ backlog' = Append(backlog, c) /\ backlog \in Seq(Conns)
          /\ cl' = [cl EXCEPT ![c] = "open"] /\ UNCHANGED <<queue, unread>>
      BY <2>1, <1>2 DEF Connect, NetworkTypeOK
    <3>2. backlog' \in Seq(Conns) /\ backlog' # <<>>
      BY <3>1, AppendProperties
    <3> QED BY <1>1, <1>2, <3>1, <3>2 DEF NetworkTypeOK
  <2>2. CASE Arrive(c)
    BY <1>1, <1>2, <2>2 DEF Arrive, NetworkTypeOK
  <2>3. CASE Read(c)
    BY <1>1, <1>2, <2>3 DEF Read, NetworkTypeOK
  <2>4. CASE Quit(c)
    BY <1>1, <1>2, <2>4 DEF Quit, NetworkTypeOK
  <2>5. CASE Reset(c)
    BY <1>1, <1>2, <2>5 DEF Reset, NetworkTypeOK
  <2> QED BY <2>1, <2>2, <2>3, <2>4, <2>5
<1>4. ServerTypeOK'
  BY <1>1 DEF DInv, TypeOK, ServerTypeOK, server
<1>5. HistoryTypeOK'
  BY <1>1 DEF DInv, TypeOK, HistoryTypeOK, history
<1>6. DescriptorsAgree'
  BY <1>1, <1>3 DEF DInv, DescriptorsAgree, Open, server
<1>7. InHandler'
  BY <1>1 DEF DInv, InHandler, Author, server, history
<1> QED BY <1>3, <1>4, <1>5, <1>6, <1>7 DEF DInv, TypeOK

\* select() and the end of the scan change pc and read_list only.
LEMMA DInvLoop ==
    ASSUME DInv, Select \/ ScanDone
    PROVE  DInv'
<1>1. /\ UNCHANGED <<list, max_set, authed, conn, me, total, todo, sent, hung_up>>
      /\ UNCHANGED <<network, history>>
      /\ pc \in {"scan", "select"} /\ pc' \in {"scan", "select"}
      /\ read_list' \subseteq list
      /\ Listener \in read_list' => backlog # <<>>
  <2>1. CASE Select
    <3>1. list \ {Listener} \subseteq Open /\ Listener \in list
      BY FDFacts DEF DInv, DescriptorsAgree
    <3>2. Ready \subseteq list /\ (Listener \in Ready => backlog # <<>>)
      BY <3>1 DEF Ready, ReadyClients
    <3> QED BY <2>1, <3>1, <3>2 DEF Select
  <2>2. CASE ScanDone
    BY <2>2 DEF ScanDone
  <2> QED BY <2>1, <2>2
<1>2. ServerTypeOK'
  BY <1>1 DEF DInv, TypeOK, ServerTypeOK
<1>3. NetworkTypeOK'
  BY <1>1 DEF DInv, TypeOK, NetworkTypeOK, network
<1>4. HistoryTypeOK'
  BY <1>1 DEF DInv, TypeOK, HistoryTypeOK, history
<1>5. DescriptorsAgree'
  BY <1>1 DEF DInv, DescriptorsAgree, Open, network
<1>6. InHandler'
  BY <1>1 DEF DInv, InHandler, history
<1> QED BY <1>2, <1>3, <1>4, <1>5, <1>6 DEF DInv, TypeOK

\* accept(): a new descriptor enters the table and the watched set, or none.
LEMMA DInvAccept ==
    ASSUME DInv, AcceptFails \/ Accept \/ AcceptTooHigh
    PROVE  DInv'
<1>1. /\ Listening /\ acceptUnchanged
      /\ read_list' = read_list \ {Listener}
  BY DEF AcceptFails, Accept, AcceptTooHigh, Passed
<1>2. /\ pc = "scan" /\ Listener \in read_list
  BY <1>1 DEF Listening, Lowest
<1>3. /\ backlog # <<>> /\ todo = {} /\ read_list \subseteq list
      /\ list = Open \cup {Listener} /\ \A f \in list : f <= max_set
  BY <1>2 DEF DInv, DescriptorsAgree, InHandler
<1>4. /\ ServerTypeOK /\ NetworkTypeOK /\ HistoryTypeOK
  BY DEF DInv, TypeOK
<1>5. Head(backlog) \in Conns /\ Tail(backlog) \in Seq(Conns)
  BY <1>3, <1>4, HeadTailProperties DEF NetworkTypeOK
<1>6. HistoryTypeOK'
  BY <1>1, <1>4 DEF HistoryTypeOK, acceptUnchanged, history
<1>7. InHandler'
  BY <1>1, <1>2, <1>3 DEF DInv, InHandler, acceptUnchanged
<1>8. ASSUME UNCHANGED <<list, max_set, authed, conn>>, NetworkTypeOK'
      PROVE  DInv'
  <2>1. ServerTypeOK'
    BY <1>1, <1>4, <1>8 DEF ServerTypeOK, acceptUnchanged
  <2>2. DescriptorsAgree'
    BY <1>1, <1>2, <1>3, <1>8 DEF DInv, DescriptorsAgree, Open, acceptUnchanged
  <2> QED BY <1>6, <1>7, <1>8, <2>1, <2>2 DEF DInv, TypeOK
<1>9. CASE AcceptFails
  <2>1. NetworkTypeOK'
    <3>1. CASE UNCHANGED <<backlog, cl, queue, unread>>
      BY <1>1, <1>4, <3>1 DEF NetworkTypeOK, acceptUnchanged
    <3>2. CASE Close(Head(backlog)) /\ backlog' = Tail(backlog)
      BY <1>1, <1>4, <1>5, <3>2 DEF Close, NetworkTypeOK, acceptUnchanged
    <3> QED BY <1>9, <3>1, <3>2 DEF AcceptFails
  <2> QED BY <1>8, <1>9, <2>1 DEF AcceptFails
<1>10. CASE AcceptTooHigh
  <2>1. NetworkTypeOK'
    BY <1>1, <1>4, <1>5, <1>10 DEF AcceptTooHigh, Close, NetworkTypeOK, acceptUnchanged
  <2> QED BY <1>8, <1>10, <2>1 DEF AcceptTooHigh
<1>11. CASE Accept
  <2>1. PICK f \in Free : /\ Fits(f)
                          /\ conn' = [conn EXCEPT ![f] = Head(backlog)]
                          /\ Register(f)
    BY <1>11 DEF Accept
  <2>2. f \in FD /\ f \in Watchable /\ f # Listener
    BY <2>1, FDFacts DEF Free, Fits, Watchable
  <2>3. Open' = Open \cup {f}
    BY <2>1, <2>2, <1>4, <1>5, ConstantsAssumption DEF Open, ServerTypeOK
  <2>4. ServerTypeOK'
    BY <1>1, <1>4, <1>5, <2>1, <2>2 DEF ServerTypeOK, Register, acceptUnchanged
  <2>5. NetworkTypeOK'
    BY <1>1, <1>4, <1>5, <1>11 DEF Accept, NetworkTypeOK, acceptUnchanged
  <2>6. \A g \in list' : g <= max_set'
    <3>1. max_set \in Nat /\ f \in Nat /\ list \subseteq Nat
      BY <1>4, <2>2, FDFacts DEF ServerTypeOK
    <3> QED BY <1>3, <2>1, <3>1 DEF Register
  <2>7. DescriptorsAgree'
    BY <1>1, <1>2, <1>3, <2>1, <2>3, <2>6
      DEF DInv, DescriptorsAgree, Register, acceptUnchanged
  <2> QED BY <1>6, <1>7, <2>4, <2>5, <2>7 DEF DInv, TypeOK
<1> QED BY <1>9, <1>10, <1>11

\* A handler begins, or recv() returns a unit to it.
LEMMA DInvRecvStart ==
    ASSUME DInv, NEW f \in FD, RecvStart(f)
    PROVE  DInv'
<1>1. /\ pc' = "recv" /\ me' = f /\ read_list' = read_list \ {f}
      /\ UNCHANGED <<list, max_set, authed, conn, total, todo, sent, hung_up>>
      /\ UNCHANGED <<network, history>>
      /\ Serving(f)
  BY DEF RecvStart, Passed
<1>2. f \in Open /\ conn[f] \in Conns /\ pc = "scan" /\ todo = {}
  BY <1>1, ServingOpen
<1>3. /\ ServerTypeOK /\ NetworkTypeOK /\ HistoryTypeOK /\ DescriptorsAgree /\ InHandler
  BY DEF DInv, TypeOK
<1>4. total = 0 /\ taken[conn[f]] \in Nat
  BY <1>2, <1>3 DEF InHandler, NetworkTypeOK
<1>5. ServerTypeOK'
  BY <1>1, <1>3 DEF ServerTypeOK
<1>6. NetworkTypeOK' /\ HistoryTypeOK'
  BY <1>1, <1>3 DEF NetworkTypeOK, HistoryTypeOK, network, history
<1>7. DescriptorsAgree'
  BY <1>1, <1>2, <1>3 DEF DescriptorsAgree, Open, network
<1>8. InHandler'
  BY <1>1, <1>2, <1>4 DEF InHandler, Author, network
<1> QED BY <1>5, <1>6, <1>7, <1>8 DEF DInv, TypeOK

LEMMA DInvRecv ==
    ASSUME DInv, Recv
    PROVE  DInv'
<1>1. /\ Reading /\ queue[Author] > 0 /\ total + 1 < MaxMsg /\ total' = total + 1
      /\ queue' = [queue EXCEPT ![Author] = @ - 1]
      /\ taken' = [taken EXCEPT ![Author] = @ + 1]
      /\ UNCHANGED <<pc, list, authed, conn, me, todo, hung_up, cl, unread, history>>
      /\ UNCHANGED <<read_list, max_set, sent, backlog, stream>>
  BY DEF Recv, recvUnchanged
<1>2. /\ Author \in Conns /\ total \in Nat
      /\ taken[Author] \in Nat /\ total <= taken[Author] /\ pc = "recv"
  BY <1>1, ReadingOpen
<1>3. /\ ServerTypeOK /\ NetworkTypeOK /\ HistoryTypeOK /\ DescriptorsAgree /\ InHandler
  BY DEF DInv, TypeOK
<1>4. ServerTypeOK'
  BY <1>1, <1>3 DEF ServerTypeOK
<1>5. queue' \in [Conns -> Nat] /\ taken' \in [Conns -> Nat] /\ taken'[Author] = taken[Author] + 1
  <2>1. queue \in [Conns -> Nat] /\ taken \in [Conns -> Nat]
    BY <1>3 DEF NetworkTypeOK
  <2> QED BY <1>1, <1>2, <2>1
<1>6. NetworkTypeOK' /\ HistoryTypeOK'
  BY <1>1, <1>3, <1>5 DEF NetworkTypeOK, HistoryTypeOK, history
<1>7. DescriptorsAgree'
  BY <1>1, <1>3 DEF DescriptorsAgree, Open
<1>8. InHandler'
  <2>1. Author' = Author
    BY <1>1 DEF Author
  <2>2. total' <= taken'[Author]
    BY <1>1, <1>2, <1>5
  <2> QED BY <1>1, <1>2, <1>3, <2>1, <2>2 DEF InHandler, history
<1> QED BY <1>4, <1>6, <1>7, <1>8 DEF DInv, TypeOK

\* A handler that ends by closing its descriptor.
HandlerCloses == \/ \E f \in FD : MallocFails(f)
                 \/ RecvFails
                 \/ RecvRefused

LEMMA HandlerClosesFacts ==
    ASSUME DInv, HandlerCloses
    PROVE  \E f \in Open :
             /\ Drop(f)
             /\ pc' = "scan" /\ todo = {} /\ total' = 0
             /\ read_list' = read_list \ {f}
             /\ me' \in {me, Listener}
             /\ UNCHANGED <<todo, hung_up, authed, log, joined, proved>>
             /\ UNCHANGED <<max_set, sent, backlog, stream>>
             /\ refused' \subseteq refused \cup {conn[f]}
             /\ taken' = taken \/ taken' = [taken EXCEPT ![conn[f]] = @ + 1]
<1>1. ASSUME NEW f \in FD, MallocFails(f)
      PROVE  f \in Open /\ pc = "scan" /\ todo = {} /\ total = 0
  <2>1. Serving(f)
    BY <1>1 DEF MallocFails
  <2>2. f \in Open /\ pc = "scan" /\ todo = {}
    BY <2>1, ServingOpen
  <2> QED BY <2>2 DEF DInv, InHandler
<1>2. CASE \E f \in FD : MallocFails(f)
  BY <1>1, <1>2 DEF MallocFails, Passed, history
<1>3. CASE RecvFails \/ RecvRefused
  <2>1. Reading
    BY <1>3 DEF RecvFails, RecvRefused, ReadAll
  <2>2. /\ me \in Open /\ todo = {} /\ me \notin read_list
    BY <2>1, ReadingOpen
  <2>3. read_list = read_list \ {me}
    BY <2>2
  <2> QED BY <1>3, <2>2, <2>3 DEF RecvFails, RecvRefused, GiveUp, recvUnchanged, Author
<1> QED BY <1>2, <1>3 DEF HandlerCloses

LEMMA DInvRecvDrop ==
    ASSUME DInv, HandlerCloses
    PROVE  DInv'
<1>1. PICK f \in Open :
             /\ Drop(f)
             /\ pc' = "scan" /\ todo = {} /\ total' = 0
             /\ read_list' = read_list \ {f}
             /\ me' \in {me, Listener}
             /\ UNCHANGED <<todo, hung_up, authed, log, joined, proved>>
             /\ UNCHANGED <<max_set, sent, backlog, stream>>
             /\ refused' \subseteq refused \cup {conn[f]}
             /\ taken' = taken \/ taken' = [taken EXCEPT ![conn[f]] = @ + 1]
  BY HandlerClosesFacts
<1>2. /\ ServerTypeOK /\ NetworkTypeOK /\ HistoryTypeOK /\ DescriptorsAgree
  BY DEF DInv, TypeOK
<1>3. /\ list' \subseteq Watchable
      /\ conn' \in [FD -> Conns \cup {NoConn}]
      /\ cl' \in [Conns -> {"init", "open", "fin", "rst", "gone"}]
      /\ queue' \in [Conns -> Nat]
      /\ unread' \in [Conns -> Nat]
      /\ Open' = Open \ {f}
      /\ list' = list \ {f}
      /\ list' = Open' \cup {Listener}
  BY <1>1, DropType
<1>4. conn[f] \in Conns
  BY <1>2 DEF Open, ServerTypeOK
<1>5. ServerTypeOK'
  BY <1>1, <1>2, <1>3, ConstantsAssumption DEF ServerTypeOK
<1>6. NetworkTypeOK'
  <2>1. taken \in [Conns -> Nat]
    BY <1>2 DEF NetworkTypeOK
  <2>2. taken' \in [Conns -> Nat]
    BY <1>1, <1>4, <2>1
  <2> QED BY <1>1, <1>2, <1>3, <2>2 DEF NetworkTypeOK
<1>7. HistoryTypeOK'
  BY <1>1, <1>2, <1>4 DEF HistoryTypeOK
<1>8. DescriptorsAgree'
  BY <1>1, <1>2, <1>3 DEF DescriptorsAgree
<1>9. InHandler'
  BY <1>1 DEF InHandler
<1> QED BY <1>5, <1>6, <1>7, <1>8, <1>9 DEF DInv, TypeOK

\* A handler that goes on to its tail, with or without a line to broadcast.
HandlerEnds == RecvAuth \/ RecvMessage \/ RecvNothing

LEMMA LineReadFacts ==
    ASSUME DInv, Reading
    PROVE  /\ LineRead(Author) \in Lines
           /\ LineRead(Author).from = Author
           /\ LineRead(Author).first = taken[Author] + 1 - total
           /\ LineRead(Author).last = taken[Author]
<1>1. /\ Author \in Conns
      /\ total \in Nat /\ taken[Author] \in Nat /\ total <= taken[Author]
  BY ReadingOpen
<1>2. taken[Author] + 1 - total \in Nat
  BY <1>1
<1> QED BY <1>1, <1>2 DEF LineRead, Lines

LEMMA DInvRecvFinish ==
    ASSUME DInv, HandlerEnds
    PROVE  DInv'
<1> DEFINE c == Author
<1>1. Reading
  BY DEF HandlerEnds, RecvAuth, RecvMessage, RecvNothing, ReadAll
<1>2. /\ me \in Open /\ me # Listener /\ c \in Conns /\ pc = "recv" /\ me \notin read_list
  BY <1>1, ReadingOpen
<1>3. /\ ServerTypeOK /\ NetworkTypeOK /\ HistoryTypeOK /\ DescriptorsAgree
  BY DEF DInv, TypeOK
<1>4. PICK Js \in {{}, Recipients(me)} :
      /\ Finish(Js)
      /\ Js = {} \/ log' = Append(log, LineRead(c))
      /\ authed' = authed \/ authed' = [authed EXCEPT ![me] = TRUE]
      /\ proved' = proved \/ proved' = proved \cup {c}
      /\ joined' = joined \/ joined' = [joined EXCEPT ![c] = Len(log)]
      /\ log' = log \/ log' = Append(log, LineRead(c))
  <2>1. CASE RecvAuth
    BY <2>1 DEF RecvAuth
  <2>2. CASE RecvMessage
    BY <2>2 DEF RecvMessage
  <2>3. CASE RecvNothing
    BY <2>3 DEF RecvNothing
  <2> QED BY <2>1, <2>2, <2>3 DEF HandlerEnds
<1>5. /\ pc' = "broadcast" /\ todo' = Js /\ hung_up' \in BOOLEAN /\ total' = 0
      /\ UNCHANGED <<list, conn, me, cl, queue, taken, unread, refused>>
      /\ UNCHANGED <<read_list, max_set, sent, backlog, stream>>
  BY <1>4 DEF Finish, recvUnchanged
<1>6. Js \subseteq Open \ {me} /\ Js \subseteq FD
  BY <1>3, FDFacts DEF Recipients, DescriptorsAgree
<1>7. LineRead(c) \in Lines
  BY <1>1, LineReadFacts
<1>8. /\ log' \in Seq(Lines) /\ (Js # {} => log' # <<>>)
  BY <1>3, <1>4, <1>7, AppendProperties DEF HistoryTypeOK
<1>9. Len(log) \in Nat
  BY <1>3, LenProperties DEF HistoryTypeOK
<1>10. ServerTypeOK'
  <2>1. authed' \in [FD -> BOOLEAN]
    BY <1>3, <1>4 DEF ServerTypeOK
  <2> QED BY <1>3, <1>5, <1>6, <2>1, ConstantsAssumption DEF ServerTypeOK
<1>11. NetworkTypeOK'
  BY <1>3, <1>5 DEF NetworkTypeOK
<1>12. HistoryTypeOK'
  BY <1>2, <1>3, <1>4, <1>5, <1>8, <1>9 DEF HistoryTypeOK
<1>13. DescriptorsAgree'
  BY <1>2, <1>3, <1>5, <1>6 DEF DescriptorsAgree, Open
<1>14. InHandler'
  BY <1>2, <1>5, <1>8 DEF InHandler
<1> QED BY <1>10, <1>11, <1>12, <1>13, <1>14 DEF DInv, TypeOK

\* send_all(): one more unit, or the recipient is cut off.
LEMMA DInvSend ==
    ASSUME DInv, NEW j \in FD, SendUnit(j) \/ SendFails(j)
    PROVE  DInv'
<1>1. /\ Sending(j)
      /\ UNCHANGED <<pc, max_set, authed, me, total, hung_up, backlog, taken, history>>
  BY DEF SendUnit, SendFails, sendUnchanged
<1>2. /\ pc = "broadcast" /\ j \in todo
      /\ j \in Open /\ j # Listener /\ j # me /\ me \in Open
      /\ conn[j] \in Conns
      /\ Len(log) \in Nat \ {0}
      /\ Line \in Lines
  BY <1>1, SendingOpen
<1>3. /\ ServerTypeOK /\ NetworkTypeOK /\ HistoryTypeOK /\ DescriptorsAgree /\ InHandler
  BY DEF DInv, TypeOK
<1>4. HistoryTypeOK'
  BY <1>1, <1>3 DEF HistoryTypeOK, history
<1>5. todo' \subseteq todo /\ sent' \in Nat /\ read_list' \subseteq read_list
  BY <1>3 DEF SendUnit, SendFails, CutOff, ServerTypeOK
<1>6. InHandler'
  BY <1>1, <1>2, <1>3, <1>5 DEF InHandler, history
<1>7. CASE SendUnit(j)
  <2>1. /\ UNCHANGED <<list, read_list, conn, cl, queue>>
        /\ stream' = [stream EXCEPT ![conn[j]] = Append(@, <<Len(log), Line.first + sent>>)]
        /\ unread' = [unread EXCEPT ![conn[j]] = @ + 1]
    BY <1>7 DEF SendUnit
  <2>2. <<Len(log), Line.first + sent>> \in Nat \X Nat
    BY <1>2, <1>3 DEF Lines, ServerTypeOK
  <2>3. Append(stream[conn[j]], <<Len(log), Line.first + sent>>) \in Seq(Nat \X Nat)
    BY <1>2, <1>3, <2>2, AppendProperties DEF NetworkTypeOK
  <2>4. stream' \in [Conns -> Seq(Nat \X Nat)]
    BY <1>3, <2>1, <2>3 DEF NetworkTypeOK
  <2>5. ServerTypeOK'
    BY <1>1, <1>3, <1>5, <2>1 DEF ServerTypeOK
  <2>6. NetworkTypeOK'
    <3>1. unread' \in [Conns -> Nat]
      BY <1>2, <1>3, <2>1 DEF NetworkTypeOK
    <3> QED BY <1>1, <1>3, <2>1, <2>4, <3>1 DEF NetworkTypeOK
  <2>7. DescriptorsAgree'
    BY <1>1, <1>3, <1>5, <2>1 DEF DescriptorsAgree, Open
  <2> QED BY <1>4, <1>6, <2>5, <2>6, <2>7 DEF DInv, TypeOK
<1>8. CASE SendFails(j)
  <2>1. /\ Drop(j) /\ read_list' = read_list \ {j} /\ todo' = todo \ {j}
        /\ UNCHANGED stream
    BY <1>8 DEF SendFails, CutOff
  <2>2. /\ list' \subseteq Watchable
        /\ conn' \in [FD -> Conns \cup {NoConn}]
        /\ cl' \in [Conns -> {"init", "open", "fin", "rst", "gone"}]
        /\ queue' \in [Conns -> Nat]
        /\ unread' \in [Conns -> Nat]
        /\ Open' = Open \ {j}
        /\ list' = list \ {j}
        /\ list' = Open' \cup {Listener}
    BY <1>2, <2>1, DropType
  <2>3. ServerTypeOK'
    BY <1>1, <1>3, <1>5, <2>1, <2>2 DEF ServerTypeOK
  <2>4. NetworkTypeOK'
    BY <1>1, <1>3, <2>1, <2>2 DEF NetworkTypeOK
  <2>5. DescriptorsAgree'
    BY <1>1, <1>2, <1>3, <2>1, <2>2 DEF DescriptorsAgree
  <2> QED BY <1>4, <1>6, <2>3, <2>4, <2>5 DEF DInv, TypeOK
<1> QED BY <1>7, <1>8

\* The handler's tail: the author is closed if it hung up.
LEMMA DInvDone ==
    ASSUME DInv, BroadcastDone
    PROVE  DInv'
<1>1. /\ pc = "broadcast" /\ todo = {} /\ pc' = "scan"
      /\ me' = Listener /\ hung_up' = FALSE
      /\ UNCHANGED <<read_list, max_set, authed, total, todo, sent>>
      /\ UNCHANGED <<backlog, taken, stream, history>>
      /\ Drop(me) \/ UNCHANGED <<conn, list, cl, queue, unread>>
  BY DEF BroadcastDone
<1>2. /\ ServerTypeOK /\ NetworkTypeOK /\ HistoryTypeOK /\ DescriptorsAgree
  BY DEF DInv, TypeOK
<1>3. me \in Open
  BY <1>1, <1>2 DEF DescriptorsAgree
<1>4. HistoryTypeOK' /\ InHandler'
  BY <1>1, <1>2 DEF DInv, HistoryTypeOK, InHandler, history
<1>5. CASE UNCHANGED <<conn, list, cl, queue, unread>>
  <2>1. ServerTypeOK'
    BY <1>1, <1>2, <1>5 DEF ServerTypeOK
  <2>2. NetworkTypeOK'
    BY <1>1, <1>2, <1>5 DEF NetworkTypeOK
  <2>3. DescriptorsAgree'
    BY <1>1, <1>2, <1>5 DEF DescriptorsAgree, Open
  <2> QED BY <1>4, <2>1, <2>2, <2>3 DEF DInv, TypeOK
<1>6. CASE Drop(me)
  <2>1. /\ list' \subseteq Watchable
        /\ conn' \in [FD -> Conns \cup {NoConn}]
        /\ cl' \in [Conns -> {"init", "open", "fin", "rst", "gone"}]
        /\ queue' \in [Conns -> Nat]
        /\ unread' \in [Conns -> Nat]
        /\ Open' = Open \ {me}
        /\ list' = list \ {me}
        /\ list' = Open' \cup {Listener}
    BY <1>3, <1>6, DropType
  <2>2. ServerTypeOK'
    BY <1>1, <1>2, <2>1 DEF ServerTypeOK
  <2>3. NetworkTypeOK'
    BY <1>1, <1>2, <2>1 DEF NetworkTypeOK
  <2>4. DescriptorsAgree'
    <3>1. read_list' \subseteq list'
      BY <1>1, <1>2, <2>1 DEF DInv, InHandler, DescriptorsAgree
    <3> QED BY <1>1, <1>2, <2>1, <3>1 DEF DescriptorsAgree
  <2> QED BY <1>4, <2>2, <2>3, <2>4 DEF DInv, TypeOK
<1> QED BY <1>1, <1>5, <1>6

LEMMA DInvStep == DInv /\ [Next]_vars => DInv'
<1> SUFFICES ASSUME DInv, [Next]_vars PROVE DInv'
  OBVIOUS
<1>1. CASE UNCHANGED vars
  <2>1. UNCHANGED <<server, network, history>>
    BY <1>1 DEF vars
  <2>2. ServerTypeOK' /\ NetworkTypeOK' /\ HistoryTypeOK'
    BY <2>1 DEF DInv, TypeOK, ServerTypeOK, NetworkTypeOK, HistoryTypeOK,
                server, network, history
  <2>3. DescriptorsAgree' /\ InHandler'
    BY <2>1 DEF DInv, DescriptorsAgree, InHandler, Author, Open, server, network, history
  <2> QED BY <2>2, <2>3 DEF DInv, TypeOK
<1>2. CASE ClientNext
  BY <1>2, DInvClient
<1>3. CASE ServerNext
  BY <1>3, DInvLoop, DInvAccept, DInvRecvStart, DInvRecv, DInvRecvDrop, DInvRecvFinish,
     DInvSend, DInvDone
    DEF ServerNext, HandlerCloses, HandlerEnds
<1> QED BY <1>1, <1>2, <1>3 DEF Next

LEMMA DInvAlways == Spec => []DInv
BY DInvInit, DInvStep, PTL DEF Spec

\* Every reachable state of chat_room_serverV2.c has its types; in
\* particular no descriptor from FD_SETSIZE up enters an fd_set.
THEOREM TypeCorrect == Spec => []TypeOK
<1>1. DInv => TypeOK
  BY DEF DInv
<1> QED BY <1>1, DInvAlways, PTL

\* Every accepted descriptor is watched until it is closed, and select(),
\* the scan and the broadcast never touch a closed one; accept() never blocks.
THEOREM DescriptorsSafe == Spec => []DescriptorsAgree
<1>1. DInv => DescriptorsAgree
  BY DEF DInv
<1> QED BY <1>1, DInvAlways, PTL

-----------------------------------------------------------------------------
(* The second invariant: whom authed[] speaks of.  Descriptors are reused, *)
(* and a close leaves authed set, so the flag can only be trusted because  *)
(* a connection is in one place at a time: not yet begun, in the backlog,  *)
(* on one descriptor, or closed.                                           *)

Begun == {c \in Conns : cl[c] # "init"}
Connected == {c \in Conns : cl[c] \notin {"init", "gone"}}

InOnePlace ==
    /\ \A f, g \in Open : conn[f] = conn[g] => f = g
    /\ \A f \in Open : conn[f] \in Connected
    /\ \A i \in 1 .. Len(backlog) :
         /\ backlog[i] \in Connected \ proved
         /\ \A f \in Open : conn[f] # backlog[i]
    /\ \A i, k \in 1 .. Len(backlog) : backlog[i] = backlog[k] => i = k
    /\ proved \subseteq Begun

\* Those whom the broadcast loop has still to serve are authenticated.
Served == \A j \in todo : authed[j]

AInv == DInv /\ InOnePlace /\ Served /\ Authenticated

LEMMA AInvInit == Init => AInv
<1> SUFFICES ASSUME Init PROVE AInv
  OBVIOUS
<1>1. DInv
  BY DInvInit
<1>2. Open = {} /\ todo = {} /\ proved = {} /\ Len(backlog) = 0 /\ Len(log) = 0
  BY DEF Init, Open
<1>3. \A c \in Conns : stream[c] = <<>>
  BY DEF Init
<1>4. InOnePlace /\ Served /\ Authenticated
  BY <1>2, <1>3 DEF InOnePlace, Served, Authenticated
<1> QED BY <1>1, <1>4 DEF AInv

\* A step that leaves the descriptors and the backlog alone, or closes a
\* descriptor, disturbs nothing as long as no other connection is closed.
LEMMA AInvShrink ==
    ASSUME AInv, DInv', Open' \subseteq Open,
           \A f \in Open' : conn'[f] = conn[f] /\ conn[f] \in Connected',
           Begun \subseteq Begun', backlog' = backlog,
           \A i \in 1 .. Len(backlog) : backlog[i] \in Connected',
           todo' \subseteq todo, UNCHANGED <<authed, proved, log, stream>>
    PROVE  AInv'
<1>1. InOnePlace'
  BY DEF AInv, InOnePlace
<1>2. Served'
  BY DEF AInv, Served
<1>3. Authenticated'
  BY DEF AInv, Authenticated
<1> QED BY <1>1, <1>2, <1>3 DEF AInv

\* A step that leaves cl, too, alone.
LEMMA AInvSame ==
    ASSUME AInv, DInv', UNCHANGED <<conn, cl, todo, authed, backlog, log, proved, stream>>
    PROVE  AInv'
<1>1. Open' = Open /\ Begun' = Begun /\ Connected' = Connected
  BY DEF Open, Begun, Connected
<1>2. /\ \A f \in Open : conn[f] \in Connected
      /\ \A i \in 1 .. Len(backlog) : backlog[i] \in Connected
  BY DEF AInv, InOnePlace
<1> QED BY <1>1, <1>2, AInvShrink

\* Close and its callers turn no connection back to "init".
LEMMA DropBegun ==
    ASSUME DInv, NEW f \in Open, Drop(f)
    PROVE  /\ Open' = Open \ {f}
           /\ \A g \in Open' : conn'[g] = conn[g]
           /\ Begun \subseteq Begun'
<1>1. /\ conn' = [conn EXCEPT ![f] = NoConn]
      /\ cl' = [cl EXCEPT ![conn[f]] = "gone"]
  BY DEF Drop, Close
<1>2. /\ conn \in [FD -> Conns \cup {NoConn}]
      /\ cl \in [Conns -> {"init", "open", "fin", "rst", "gone"}]
  BY DEF DInv, TypeOK, ServerTypeOK, NetworkTypeOK
<1>3. Open' = Open \ {f}
  BY DropType
<1>4. \A g \in Open' : conn'[g] = conn[g]
  BY <1>1, <1>2, <1>3, FDFacts
<1>5. Begun \subseteq Begun'
  BY <1>1, <1>2 DEF Begun
<1> QED BY <1>3, <1>4, <1>5

\* A drop closes one connection, that of its descriptor.
LEMMA AInvDrop ==
    ASSUME AInv, DInv', NEW f \in Open, Drop(f), todo' \subseteq todo,
           UNCHANGED <<backlog, authed, proved, log, stream>>
    PROVE  AInv'
<1>1. DInv /\ InOnePlace
  BY DEF AInv
<1>2. /\ Open' = Open \ {f} /\ \A g \in Open' : conn'[g] = conn[g]
      /\ Begun \subseteq Begun'
  BY <1>1, DropBegun
<1>3. \A c \in Connected : c # conn[f] => c \in Connected'
  <2>1. /\ cl' = [cl EXCEPT ![conn[f]] = "gone"]
        /\ cl \in [Conns -> {"init", "open", "fin", "rst", "gone"}]
    BY <1>1 DEF Drop, Close, DInv, TypeOK, NetworkTypeOK
  <2> QED BY <2>1 DEF Connected
<1>4. \A g \in Open' : conn[g] \in Connected'
  BY <1>1, <1>2, <1>3 DEF InOnePlace
<1>5. \A i \in 1 .. Len(backlog) : backlog[i] \in Connected'
  BY <1>1, <1>3 DEF InOnePlace
<1> QED BY <1>2, <1>4, <1>5, AInvShrink

LEMMA AInvClient ==
    ASSUME AInv, ClientNext
    PROVE  AInv'
<1>1. DInv /\ DInv'
  BY DInvClient DEF AInv
<1>2. PICK c \in Conns : Connect(c) \/ Arrive(c) \/ Read(c) \/ Quit(c) \/ Reset(c)
  BY DEF ClientNext
<1>3. UNCHANGED <<server, taken, stream, history>>
  BY <1>2 DEF Connect, Arrive, Read, Quit, Reset, clientUnchanged
<1>4. UNCHANGED <<conn, todo, authed, proved, log, stream>>
  BY <1>3 DEF server, history
<1>5. Open' = Open /\ \A f \in Open' : conn'[f] = conn[f]
  BY <1>4 DEF Open
<1>6. cl \in [Conns -> {"init", "open", "fin", "rst", "gone"}] /\ backlog \in Seq(Conns)
  BY <1>1 DEF DInv, TypeOK, NetworkTypeOK
<1>7. Begun \subseteq Begun' /\ Connected \subseteq Connected'
  BY <1>2, <1>6 DEF Begun, Connected, Connect, Arrive, Read, Quit, Reset
<1>8. CASE ~Connect(c)
  <2>1. backlog' = backlog
    BY <1>2, <1>8 DEF Arrive, Read, Quit, Reset
  <2>2. /\ \A f \in Open' : conn[f] \in Connected'
        /\ \A i \in 1 .. Len(backlog) : backlog[i] \in Connected'
    BY <1>5, <1>7 DEF AInv, InOnePlace
  <2> QED BY <1>1, <1>4, <1>5, <1>7, <2>1, <2>2, AInvShrink
<1>9. CASE Connect(c)
  <2>1. /\ c \notin Begun /\ c \notin Connected /\ c \in Connected'
        /\ backlog' = Append(backlog, c)
    BY <1>6, <1>9 DEF Connect, Begun, Connected
  <2>2. /\ Len(backlog) \in Nat /\ Len(backlog') = Len(backlog) + 1
        /\ \A i \in 1 .. Len(backlog) : backlog'[i] = backlog[i]
        /\ backlog'[Len(backlog) + 1] = c
    BY <1>6, <2>1, AppendProperties, LenProperties
  <2>3. InOnePlace
    BY DEF AInv
  <2>4. \A i \in 1 .. Len(backlog') : i \in 1 .. Len(backlog) \/ i = Len(backlog) + 1
    BY <2>2
  <2>5. \A i \in 1 .. Len(backlog') :
          /\ backlog'[i] \in Connected' \ proved'
          /\ \A f \in Open' : conn'[f] # backlog'[i]
    BY <1>4, <1>5, <1>7, <2>1, <2>2, <2>3, <2>4 DEF InOnePlace
  <2>6. \A i, k \in 1 .. Len(backlog') : backlog'[i] = backlog'[k] => i = k
    BY <2>1, <2>2, <2>3, <2>4 DEF InOnePlace
  <2>7. InOnePlace'
    BY <1>4, <1>5, <1>7, <2>3, <2>5, <2>6 DEF InOnePlace
  <2>8. Served' /\ Authenticated'
    BY <1>4, <1>5 DEF AInv, Served, Authenticated
  <2> QED BY <1>1, <2>7, <2>8 DEF AInv
<1> QED BY <1>8, <1>9

LEMMA AInvAccept ==
    ASSUME AInv, AcceptFails \/ Accept \/ AcceptTooHigh
    PROVE  AInv'
<1>1. DInv /\ DInv' /\ InOnePlace /\ Served /\ Authenticated
  BY DInvAccept DEF AInv
<1>2. /\ UNCHANGED <<todo, proved, log, stream>> /\ pc = "scan" /\ Listener \in read_list
  BY DEF AcceptFails, Accept, AcceptTooHigh, acceptUnchanged, history, Listening, Lowest
<1>3. backlog # <<>> /\ todo = {}
  BY <1>1, <1>2 DEF DInv, DescriptorsAgree, InHandler
<1>4. /\ cl \in [Conns -> {"init", "open", "fin", "rst", "gone"}]
      /\ backlog \in Seq(Conns) /\ conn \in [FD -> Conns \cup {NoConn}]
      /\ authed \in [FD -> BOOLEAN]
  BY <1>1 DEF DInv, TypeOK, ServerTypeOK, NetworkTypeOK
<1>5. /\ Len(backlog) \in Nat \ {0}
      /\ Head(backlog) = backlog[1] /\ Head(backlog) \in Conns
      /\ Len(Tail(backlog)) = Len(backlog) - 1
      /\ \A i \in 1 .. Len(Tail(backlog)) :
           Tail(backlog)[i] = backlog[i + 1] /\ i + 1 \in 2 .. Len(backlog)
  BY <1>3, <1>4, HeadTailProperties, EmptySeq, LenProperties
<1>6. /\ Begun \subseteq Begun'
      /\ \A c \in Connected : c # Head(backlog) => c \in Connected'
  BY <1>4, <1>5 DEF Begun, Connected, AcceptFails, Accept, AcceptTooHigh, Close
<1>7. /\ \A i \in 1 .. Len(Tail(backlog)) :
           /\ Tail(backlog)[i] \in Connected \ proved
           /\ Tail(backlog)[i] # Head(backlog)
           /\ \A f \in Open : conn[f] # Tail(backlog)[i]
      /\ \A i, k \in 1 .. Len(Tail(backlog)) :
           Tail(backlog)[i] = Tail(backlog)[k] => i = k
  BY <1>1, <1>5 DEF InOnePlace
<1>8. Head(backlog) \in Connected \ proved /\ \A f \in Open : conn[f] # Head(backlog)
  BY <1>1, <1>5 DEF InOnePlace
<1>9. CASE UNCHANGED <<conn, authed, cl, backlog>>
  BY <1>1, <1>2, <1>9, AInvSame
<1>10. CASE UNCHANGED <<conn, authed>> /\ backlog' = Tail(backlog)
  <2>1. UNCHANGED <<conn, authed>> /\ backlog' = Tail(backlog) /\ Open' = Open
    BY <1>10 DEF Open
  <2>2. InOnePlace'
    BY <1>1, <1>2, <1>6, <1>7, <1>8, <2>1 DEF InOnePlace
  <2>3. Served' /\ Authenticated'
    BY <1>1, <1>2, <2>1 DEF Served, Authenticated
  <2> QED BY <1>1, <2>2, <2>3 DEF AInv
<1>11. CASE Accept
  <2>1. PICK f \in Free : /\ conn' = [conn EXCEPT ![f] = Head(backlog)]
                          /\ authed' = [authed EXCEPT ![f] = FALSE]
    BY <1>11 DEF Accept, Register
  <2>2. f \in FD /\ f \notin Open /\ backlog' = Tail(backlog) /\ Connected' = Connected
    BY <1>11, <2>1 DEF Free, Accept, Connected
  <2>3. Open' = Open \cup {f} /\ conn'[f] = Head(backlog) /\ ~authed'[f]
    BY <1>4, <1>5, <2>1, <2>2, ConstantsAssumption DEF Open
  <2>4. \A g \in Open : g # f /\ g \in FD /\ conn'[g] = conn[g] /\ authed'[g] = authed[g]
    BY <1>4, <2>1, <2>2, FDFacts
  <2>5. InOnePlace'
    BY <1>1, <1>2, <1>6, <1>7, <1>8, <2>2, <2>3, <2>4 DEF InOnePlace
  <2>6. Served'
    BY <1>2, <1>3 DEF Served
  <2>7. Authenticated'
    BY <1>1, <1>2, <1>8, <2>3, <2>4 DEF Authenticated
  <2> QED BY <1>1, <2>5, <2>6, <2>7 DEF AInv
<1>12. AcceptFails => \/ UNCHANGED <<conn, authed, cl, backlog>>
                      \/ UNCHANGED <<conn, authed>> /\ backlog' = Tail(backlog)
  BY DEF AcceptFails
<1>13. AcceptTooHigh => UNCHANGED <<conn, authed>> /\ backlog' = Tail(backlog)
  BY DEF AcceptTooHigh
<1> QED BY <1>9, <1>10, <1>11, <1>12, <1>13

LEMMA AInvRecvDrop ==
    ASSUME AInv, HandlerCloses
    PROVE  AInv'
<1>1. DInv /\ DInv'
  BY DInvRecvDrop DEF AInv
<1>2. PICK f \in Open : Drop(f) /\ UNCHANGED <<todo, authed, log, proved, backlog, stream>>
  BY <1>1, HandlerClosesFacts
<1> QED BY <1>1, <1>2, AInvDrop

LEMMA AInvRecvFinish ==
    ASSUME AInv, HandlerEnds
    PROVE  AInv'
<1> DEFINE c == Author
<1>1. DInv /\ DInv' /\ InOnePlace /\ Served /\ Authenticated
  BY DInvRecvFinish DEF AInv
<1>2. Reading
  BY DEF HandlerEnds, RecvAuth, RecvMessage, RecvNothing, ReadAll
<1>3. me \in Open /\ c \in Conns /\ c = conn[me]
  BY <1>1, <1>2, ReadingOpen DEF Author
<1>4. /\ UNCHANGED <<conn, cl, backlog, stream>> /\ Open' = Open
      /\ Begun' = Begun /\ Connected' = Connected
  BY DEF HandlerEnds, RecvAuth, RecvMessage, RecvNothing, Finish, recvUnchanged, Open, Begun,
         Connected
<1>5. authed \in [FD -> BOOLEAN] /\ log \in Seq(Lines) /\ Open \subseteq FD
  BY <1>1, FDFacts DEF DInv, TypeOK, ServerTypeOK, HistoryTypeOK
<1>6. CASE RecvNothing
  <2>1. UNCHANGED <<authed, log, proved>> /\ todo' = {}
    BY <1>6 DEF RecvNothing, Finish
  <2> QED BY <1>1, <1>4, <2>1 DEF AInv, InOnePlace, Served, Authenticated
<1>7. CASE RecvAuth
  <2>1. /\ authed' = [authed EXCEPT ![me] = TRUE] /\ proved' = proved \cup {c}
        /\ todo' = {} /\ log' = log /\ c \in Members
    BY <1>7 DEF RecvAuth, Finish, check_auth
  <2>2. /\ \A i \in 1 .. Len(backlog) : backlog[i] # c
        /\ \A g \in Open : conn[g] = c <=> g = me
        /\ c \in Begun
    BY <1>1, <1>3 DEF InOnePlace, Connected, Begun
  <2>3. InOnePlace'
    BY <1>1, <1>4, <2>1, <2>2 DEF InOnePlace
  <2>4. Served'
    BY <2>1 DEF Served
  <2>5. \A g \in Open : authed'[g] <=> conn[g] \in proved'
    BY <1>1, <1>5, <2>1, <2>2 DEF Authenticated
  <2>6. Authenticated'
    BY <1>1, <1>4, <2>1, <2>5 DEF Authenticated
  <2> QED BY <1>1, <2>3, <2>4, <2>6 DEF AInv
<1>8. CASE RecvMessage
  <2>1. /\ UNCHANGED <<authed, proved>> /\ todo' = Recipients(me) /\ authed[me]
        /\ log' = Append(log, LineRead(c))
    BY <1>8 DEF RecvMessage, Finish
  <2>2. LineRead(c).from = c /\ LineRead(c) \in Lines /\ c \in proved
    BY <1>1, <1>2, <1>3, <2>1, LineReadFacts DEF Authenticated
  <2>3. /\ Len(log) \in Nat /\ Len(log') = Len(log) + 1
        /\ \A n \in 1 .. Len(log) : log'[n] = log[n]
        /\ log'[Len(log) + 1] = LineRead(c)
    BY <1>5, <2>1, <2>2, AppendProperties, LenProperties
  <2>4. \A n \in 1 .. Len(log') : n \in 1 .. Len(log) \/ n = Len(log) + 1
    BY <2>3
  <2>5. \A n \in 1 .. Len(log') : log'[n].from \in proved
    BY <1>1, <2>2, <2>3, <2>4 DEF Authenticated
  <2>6. Authenticated'
    BY <1>1, <1>4, <2>1, <2>5 DEF Authenticated
  <2>7. InOnePlace' /\ Served'
    BY <1>1, <1>4, <2>1 DEF InOnePlace, Served, Recipients
  <2> QED BY <1>1, <2>6, <2>7 DEF AInv
<1> QED BY <1>6, <1>7, <1>8 DEF HandlerEnds

LEMMA AInvSend ==
    ASSUME AInv, NEW j \in FD, SendUnit(j) \/ SendFails(j)
    PROVE  AInv'
<1>1. DInv /\ DInv' /\ InOnePlace /\ Served /\ Authenticated
  BY DInvSend DEF AInv
<1>2. Sending(j) /\ UNCHANGED <<authed, backlog, log, proved>> /\ todo' \subseteq todo
  BY DEF SendUnit, SendFails, sendUnchanged, history
<1>3. j \in todo /\ j \in Open /\ conn[j] \in Conns
  BY <1>1, <1>2, SendingOpen
<1>4. CASE SendFails(j)
  <2>1. Drop(j) /\ UNCHANGED stream
    BY <1>4 DEF SendFails, CutOff
  <2> QED BY <1>1, <1>2, <1>3, <2>1, AInvDrop
<1>5. CASE SendUnit(j)
  <2>1. /\ UNCHANGED <<conn, cl>> /\ Open' = Open
        /\ Begun' = Begun /\ Connected' = Connected
    BY <1>5 DEF SendUnit, Open, Begun, Connected
  <2>2. \A c \in Conns : stream'[c] # <<>> => stream[c] # <<>> \/ c = conn[j]
    <3>1. \A c \in Conns : c # conn[j] => stream'[c] = stream[c]
      BY <1>1, <1>5 DEF SendUnit, DInv, TypeOK, NetworkTypeOK
    <3> QED BY <3>1
  <2>3. conn[j] \in proved
    BY <1>1, <1>3 DEF Served, Authenticated
  <2>4. Authenticated'
    BY <1>1, <1>2, <2>1, <2>2, <2>3 DEF Authenticated
  <2>5. InOnePlace' /\ Served'
    BY <1>1, <1>2, <2>1 DEF InOnePlace, Served
  <2> QED BY <1>1, <2>4, <2>5 DEF AInv
<1> QED BY <1>4, <1>5

LEMMA AInvDone ==
    ASSUME AInv, BroadcastDone
    PROVE  AInv'
<1>1. DInv /\ DInv'
  BY DInvDone DEF AInv
<1>2. /\ UNCHANGED <<authed, todo, backlog, log, proved, stream>>
      /\ pc = "broadcast"
      /\ Drop(me) \/ UNCHANGED <<conn, cl>>
  BY DEF BroadcastDone, history
<1>3. me \in Open
  BY <1>1, <1>2 DEF DInv, DescriptorsAgree
<1> QED BY <1>1, <1>2, <1>3, AInvSame, AInvDrop

LEMMA AInvStep == AInv /\ [Next]_vars => AInv'
<1> SUFFICES ASSUME AInv, [Next]_vars PROVE AInv'
  OBVIOUS
<1>1. DInv'
  BY DInvStep DEF AInv
<1>2. CASE UNCHANGED vars
  <2>1. UNCHANGED <<conn, cl, todo, authed, backlog, log, proved, stream>>
    BY <1>2 DEF vars, server, network, history
  <2> QED BY <1>1, <2>1, AInvSame
<1>3. CASE ClientNext
  BY <1>3, AInvClient
<1>4. CASE ServerNext
  <2>1. CASE Select \/ ScanDone \/ Recv \/ \E f \in FD : RecvStart(f)
    <3>1. UNCHANGED <<conn, cl, todo, authed, backlog, log, proved, stream>>
      BY <2>1 DEF Select, ScanDone, Recv, RecvStart, recvUnchanged, network, history
    <3> QED BY <1>1, <3>1, AInvSame
  <2> QED BY <1>4, <2>1, AInvAccept, AInvRecvDrop, AInvRecvFinish, AInvSend, AInvDone
        DEF ServerNext, HandlerCloses, HandlerEnds
<1> QED BY <1>2, <1>3, <1>4 DEF Next

LEMMA AInvAlways == Spec => []AInv
BY AInvInit, AInvStep, PTL DEF Spec

\* However descriptors are reused, only a connection whose own AUTH line was
\* accepted is heard, and only such a connection receives anything.
THEOREM AuthenticationSafe == Spec => []Authenticated
<1>1. AInv => Authenticated
  BY DEF AInv
<1> QED BY <1>1, AInvAlways, PTL

-----------------------------------------------------------------------------
(* The third invariant: what recv() takes and what is broadcast.           *)

\* How many units of c were read by handlers that are over.
Handled(c) == IF pc = "recv" /\ Author = c THEN taken[c] - total ELSE taken[c]

\* An accepted AUTH line is out of the way, but for its newline.
AuthTaken == \A c \in proved : Handled(c) + 1 >= AuthLen

\* What the running handler has in its buffer is in no line yet.
LinesBehind == \A n \in 1 .. Len(log) : log[n].last <= Handled(log[n].from)

\* Each line is one of its own, and its author's lines are in order.
LinesInOrder == \A n \in 1 .. Len(log) :
    /\ log[n].first <= log[n].last
    /\ \A m \in 1 .. n - 1 : log[m].from = log[n].from => log[m].last < log[n].first

Accounted(c, u) == Broadcast(c, u) \/ InBuffer(c, u) \/ ReadInVain(c, u)
AllAccounted == \A c \in proved : \A u \in AuthLen + 1 .. taken[c] : Accounted(c, u)

UInv == AInv /\ AuthTaken /\ TokenKept /\ LinesBehind /\ LinesInOrder /\ AllAccounted

\* What the lines and the counters are, for the arithmetic below.
LEMMA UFacts ==
    ASSUME DInv
    PROVE  /\ taken \in [Conns -> Nat] /\ queue \in [Conns -> Nat]
           /\ log \in Seq(Lines) /\ Len(log) \in Nat
           /\ \A n \in 1 .. Len(log) : /\ log[n].from \in Conns
                                       /\ log[n].first \in Nat
                                       /\ log[n].last \in Nat
           /\ proved \subseteq Conns
           /\ \A c \in Conns : Handled(c) \in Nat /\ Handled(c) <= taken[c]
<1>1. /\ taken \in [Conns -> Nat] /\ queue \in [Conns -> Nat]
      /\ log \in Seq(Lines) /\ proved \subseteq Conns
  BY DEF DInv, TypeOK, NetworkTypeOK, HistoryTypeOK
<1>2. Len(log) \in Nat /\ \A n \in 1 .. Len(log) : log[n] \in Lines
  BY <1>1, LenProperties, ElementOfSeq
<1>3. ASSUME NEW c \in Conns PROVE Handled(c) \in Nat /\ Handled(c) <= taken[c]
  <2>1. CASE pc = "recv" /\ Author = c
    <3>1. total \in Nat /\ taken[c] \in Nat /\ total <= taken[c]
      BY <2>1, ReadingOpen DEF Reading
    <3> QED BY <2>1, <3>1 DEF Handled
  <2>2. CASE ~(pc = "recv" /\ Author = c)
    BY <1>1, <2>2 DEF Handled
  <2> QED BY <2>1, <2>2
<1> QED BY <1>1, <1>2, <1>3 DEF Lines

\* EachUnitOnce is what the parts of the invariant say together.
LEMMA UnitsFromParts ==
    ASSUME UInv
    PROVE  EachUnitOnce
<1>1. ASSUME NEW n \in 1 .. Len(log)
      PROVE  /\ log[n].first <= log[n].last /\ log[n].last <= taken[log[n].from]
             /\ \A m \in 1 .. n - 1 : log[m].from = log[n].from
                                        => log[m].last < log[n].first
  <2>1. /\ log[n].from \in Conns /\ log[n].last \in Nat
        /\ Handled(log[n].from) \in Nat /\ taken[log[n].from] \in Nat
        /\ Handled(log[n].from) <= taken[log[n].from]
    BY UFacts DEF UInv, AInv
  <2>2. log[n].last <= Handled(log[n].from)
    BY DEF UInv, LinesBehind
  <2>3. log[n].last <= taken[log[n].from]
    BY <2>1, <2>2
  <2> QED BY <2>3 DEF UInv, LinesInOrder
<1> QED BY <1>1 DEF UInv, EachUnitOnce, AllAccounted, Accounted

LEMMA UInvInit == Init => UInv
<1> SUFFICES ASSUME Init PROVE UInv
  OBVIOUS
<1>1. proved = {} /\ Len(log) = 0
  BY DEF Init
<1> QED BY <1>1, AInvInit
        DEF UInv, AuthTaken, TokenKept, LinesBehind, LinesInOrder, AllAccounted

\* A connection that the server closed stays closed.
LEMMA GoneStays ==
    ASSUME AInv, [Next]_vars
    PROVE  \A c \in Conns : cl[c] = "gone" => cl'[c] = "gone"
<1>1. DInv /\ cl \in [Conns -> {"init", "open", "fin", "rst", "gone"}]
  BY DEF AInv, DInv, TypeOK, NetworkTypeOK
<1>2. CASE UNCHANGED vars
  BY <1>2 DEF vars, network
<1>3. CASE ClientNext
  BY <1>1, <1>3 DEF ClientNext, Connect, Arrive, Read, Quit, Reset
<1>4. CASE ServerNext
  <2>1. cl' = cl \/ \E c : cl' = [cl EXCEPT ![c] = "gone"]
    BY <1>4 DEF ServerNext, Select, ScanDone, AcceptFails, Accept, AcceptTooHigh,
       RecvStart, MallocFails, Recv, RecvFails, RecvRefused, RecvAuth, RecvMessage,
       RecvNothing, GiveUp, Finish, SendUnit, SendFails, CutOff, BroadcastDone, Drop, Close,
       network
  <2> QED BY <1>1, <2>1
<1> QED BY <1>2, <1>3, <1>4 DEF Next

\* A step between two calls of recv(): no unit is read, no line is said.
LEMMA UInvSame ==
    ASSUME UInv, AInv', [Next]_vars, UNCHANGED <<log, taken, proved>>,
           \A c \in Conns : Handled(c)' = Handled(c),
           \A c \in Conns, u \in Nat : InBuffer(c, u) => InBuffer(c, u)'
    PROVE  UInv'
<1>1. /\ proved \subseteq Conns /\ \A n \in 1 .. Len(log) : log[n].from \in Conns
  BY UFacts DEF UInv, AInv
<1>2. AuthTaken' /\ TokenKept' /\ LinesBehind' /\ LinesInOrder'
  BY <1>1 DEF UInv, AuthTaken, TokenKept, LinesBehind, LinesInOrder
<1>3. \A c \in Conns, u \in Nat : Accounted(c, u) => Accounted(c, u)'
  BY GoneStays DEF UInv, Accounted, Broadcast, ReadInVain
<1>4. \A c : \A u \in AuthLen + 1 .. taken[c] : u \in Nat
  BY ConstantsAssumption
<1>5. AllAccounted'
  BY <1>1, <1>3, <1>4 DEF UInv, AllAccounted
<1> QED BY <1>2, <1>5 DEF UInv

\* recv() returns a unit: it is in the buffer, in no line yet.
LEMMA UInvRecv ==
    ASSUME UInv, AInv', Recv
    PROVE  UInv'
<1> DEFINE c == Author
<1>1. DInv /\ Reading
  BY DEF UInv, AInv, Recv
<1>2. /\ c \in Conns /\ pc = "recv"
      /\ total \in Nat /\ taken[c] \in Nat /\ total <= taken[c]
  BY <1>1, ReadingOpen
<1>3. /\ total' = total + 1 /\ taken' = [taken EXCEPT ![c] = @ + 1]
      /\ UNCHANGED <<pc, me, conn, cl, log, proved>>
  BY DEF Recv, history
<1>4. Author' = c
  BY <1>3 DEF Author
<1>5. /\ taken \in [Conns -> Nat] /\ proved \subseteq Conns
      /\ \A n \in 1 .. Len(log) : log[n].from \in Conns
  BY <1>1, UFacts
<1>6. taken'[c] = taken[c] + 1 /\ \A d \in Conns : d # c => taken'[d] = taken[d]
  BY <1>2, <1>3, <1>5
<1>7. \A d \in Conns : Handled(d)' = Handled(d)
  <2>1. taken'[c] - total' = taken[c] - total
    BY <1>2, <1>3, <1>6
  <2> QED BY <1>2, <1>3, <1>4, <1>6, <2>1 DEF Handled
<1>8. AuthTaken' /\ TokenKept' /\ LinesBehind' /\ LinesInOrder'
  BY <1>3, <1>5, <1>7 DEF UInv, AuthTaken, TokenKept, LinesBehind, LinesInOrder
<1>9. ASSUME NEW d \in proved', NEW u \in AuthLen + 1 .. taken'[d]
      PROVE  Accounted(d, u)'
  <2>1. d \in proved /\ d \in Conns /\ u \in Nat /\ AuthLen \in Nat
    BY <1>3, <1>5, <1>9, ConstantsAssumption
  <2>2. CASE u \in AuthLen + 1 .. taken[d]
    <3>1. Accounted(d, u)
      BY <2>1, <2>2 DEF UInv, AllAccounted
    <3>2. InBuffer(d, u) => InBuffer(d, u)'
      <4>1. SUFFICES ASSUME InBuffer(d, u) PROVE InBuffer(d, u)'
        OBVIOUS
      <4>2. d = c /\ taken[c] - total < u /\ u <= taken[c]
        BY <4>1 DEF InBuffer
      <4>3. taken'[c] - total' < u /\ u <= taken'[c]
        BY <1>2, <1>3, <1>6, <2>1, <4>2
      <4> QED BY <1>2, <1>3, <1>4, <4>2, <4>3 DEF InBuffer
    <3> QED BY <1>3, <3>1, <3>2 DEF Accounted, Broadcast, ReadInVain
  <2>3. CASE u \notin AuthLen + 1 .. taken[d]
    <3>1. d = c /\ u = taken[c] + 1
      BY <1>2, <1>5, <1>6, <1>9, <2>1, <2>3
    <3>2. taken'[c] - total' < u /\ u <= taken'[c]
      BY <1>2, <1>3, <1>6, <3>1
    <3> QED BY <1>2, <1>3, <1>4, <3>1, <3>2 DEF Accounted, InBuffer
  <2> QED BY <2>2, <2>3
<1> QED BY <1>8, <1>9 DEF UInv, AllAccounted

\* A handler that closes its client: what it had read comes after all that
\* was broadcast, and nothing of the client follows.
LEMMA UInvCloses ==
    ASSUME UInv, AInv', HandlerCloses, [Next]_vars
    PROVE  UInv'
<1>1. DInv
  BY DEF UInv, AInv
<1>2. PICK f \in Open :
        /\ Drop(f) /\ pc' = "scan" /\ total' = 0
        /\ UNCHANGED <<log, proved>>
        /\ taken' = taken \/ taken' = [taken EXCEPT ![conn[f]] = @ + 1]
        /\ pc = "recv" => f = me
  <2>1. CASE \E f \in FD : MallocFails(f)
    <3>1. pc = "scan"
      BY <2>1 DEF MallocFails, Serving
    <3> QED BY <1>1, <2>1, <3>1, HandlerClosesFacts
  <2>2. CASE RecvFails \/ RecvRefused
    <3>1. Reading
      BY <2>2 DEF RecvFails, RecvRefused, ReadAll
    <3>2. me \in Open
      BY <1>1, <3>1, ReadingOpen
    <3> QED BY <2>2, <3>2 DEF RecvFails, RecvRefused, GiveUp, Author
  <2> QED BY <2>1, <2>2 DEF HandlerCloses
<1>3. conn[f] \in Conns /\ cl \in [Conns -> {"init", "open", "fin", "rst", "gone"}]
  BY <1>1 DEF DInv, TypeOK, ServerTypeOK, NetworkTypeOK, Open
<1> PICK c \in Conns : c = conn[f]
  BY <1>3
<1>4. /\ taken \in [Conns -> Nat] /\ proved \subseteq Conns
      /\ \A n \in 1 .. Len(log) : log[n].from \in Conns /\ log[n].last \in Nat
      /\ \A d \in Conns : Handled(d) \in Nat /\ Handled(d) <= taken[d]
  BY <1>1, UFacts
<1>5. /\ \A d \in Conns : taken'[d] \in Nat /\ taken[d] <= taken'[d]
      /\ \A d \in Conns : d # c => taken'[d] = taken[d]
  BY <1>2, <1>4
<1>6. \A d \in Conns : Handled(d)' = taken'[d]
  BY <1>2 DEF Handled
<1>7. \A d \in Conns : Handled(d) <= Handled(d)'
  BY <1>4, <1>5, <1>6
<1>8. AuthTaken' /\ TokenKept' /\ LinesInOrder'
  <2>1. AuthTaken'
    BY <1>2, <1>4, <1>5, <1>6, <1>7, ConstantsAssumption DEF UInv, AuthTaken
  <2> QED BY <1>2, <2>1 DEF UInv, TokenKept, LinesInOrder
<1>9. LinesBehind'
  <2>1. SUFFICES ASSUME NEW n \in 1 .. Len(log) PROVE log[n].last <= taken'[log[n].from]
    BY <1>2 DEF LinesBehind, Handled
  <2>2. log[n].from \in Conns /\ log[n].last \in Nat /\ log[n].last <= Handled(log[n].from)
    BY <1>4 DEF UInv, LinesBehind
  <2> PICK d \in Conns : d = log[n].from
    BY <2>2
  <2>3. /\ Handled(d) \in Nat /\ taken[d] \in Nat /\ taken'[d] \in Nat
        /\ Handled(d) <= taken[d] /\ taken[d] <= taken'[d]
    BY <1>4, <1>5
  <2> QED BY <2>2, <2>3
<1>10. ASSUME NEW u \in Nat, u > Handled(c)
       PROVE  ReadInVain(c, u)'
  <2>1. cl'[c] = "gone"
    BY <1>2, <1>3 DEF Drop, Close
  <2>2. ASSUME NEW n \in 1 .. Len(log), log[n].from = c PROVE log[n].last < u
    <3>1. log[n].last \in Nat /\ log[n].last <= Handled(c) /\ Handled(c) \in Nat
      BY <1>4, <2>2 DEF UInv, LinesBehind
    <3> QED BY <1>10, <3>1
  <2> QED BY <1>2, <2>1, <2>2 DEF ReadInVain
<1>11. ASSUME NEW d \in proved', NEW u \in AuthLen + 1 .. taken'[d]
       PROVE  Accounted(d, u)'
  <2>1. d \in proved /\ d \in Conns /\ u \in Nat /\ AuthLen \in Nat
    BY <1>2, <1>4, <1>11, ConstantsAssumption
  <2>2. CASE d = c /\ u > Handled(c)
    BY <1>10, <2>1, <2>2 DEF Accounted
  <2>3. CASE ~(d = c /\ u > Handled(c))
    <3>1. u \in AuthLen + 1 .. taken[d]
      BY <1>4, <1>5, <1>11, <2>1, <2>3
    <3>2. Accounted(d, u)
      BY <2>1, <3>1 DEF UInv, AllAccounted
    <3>3. ~InBuffer(d, u)
      <4>1. SUFFICES ASSUME InBuffer(d, u) PROVE FALSE
        OBVIOUS
      <4>2. pc = "recv" /\ Author = d /\ taken[d] - total < u
        BY <4>1 DEF InBuffer
      <4>3. d = c
        BY <1>2, <4>2 DEF Author
      <4>4. Handled(c) = taken[c] - total
        BY <4>2, <4>3 DEF Handled
      <4>5. Handled(c) < u
        BY <4>2, <4>3, <4>4
      <4> QED BY <1>4, <2>1, <2>3, <4>3, <4>5
    <3> QED BY <1>2, <2>1, <3>2, <3>3, GoneStays DEF UInv, Accounted, Broadcast, ReadInVain
  <2> QED BY <2>2, <2>3
<1> QED BY <1>8, <1>9, <1>11 DEF UInv, AllAccounted

\* A handler whose buffer is an AUTH line, or nothing: no line is said.
LEMMA UInvQuiet ==
    ASSUME UInv, AInv', RecvAuth \/ RecvNothing
    PROVE  UInv'
<1> DEFINE c == Author
<1>1. DInv /\ Reading /\ Authenticated
  BY DEF UInv, AInv, RecvAuth, RecvNothing, ReadAll
<1>2. /\ c \in Conns /\ pc = "recv" /\ me \in Open
      /\ total \in Nat /\ taken[c] \in Nat /\ total <= taken[c]
  BY <1>1, ReadingOpen
<1>3. /\ pc' = "broadcast" /\ UNCHANGED <<log, taken, cl>>
      /\ \/ proved' = proved /\ total = 0
         \/ /\ proved' = proved \cup {c} /\ c \notin proved
            /\ taken[c] = total /\ total \in {AuthLen - 1, AuthLen}
  <2>1. CASE RecvAuth
    <3>1. c \notin proved
      BY <1>1, <1>2, <2>1 DEF RecvAuth, Authenticated, Author
    <3> QED BY <2>1, <3>1 DEF RecvAuth, Finish, check_auth
  <2>2. CASE RecvNothing
    BY <2>2 DEF RecvNothing, Finish
  <2> QED BY <2>1, <2>2
<1>4. /\ taken \in [Conns -> Nat] /\ proved \subseteq Conns
      /\ \A n \in 1 .. Len(log) : log[n].from \in Conns /\ log[n].last \in Nat
      /\ \A d \in Conns : Handled(d) \in Nat /\ Handled(d) <= taken[d]
  BY <1>1, UFacts
<1>5. \A d \in Conns : Handled(d)' = taken[d] /\ Handled(d) <= Handled(d)'
  BY <1>3, <1>4 DEF Handled
<1>6. AuthTaken'
  <2>1. SUFFICES ASSUME NEW d \in proved' PROVE Handled(d)' + 1 >= AuthLen
    BY DEF AuthTaken
  <2>2. CASE d \in proved
    <3>1. Handled(d) + 1 >= AuthLen /\ d \in Conns
      BY <1>4, <2>2 DEF UInv, AuthTaken
    <3>2. Handled(d) \in Nat /\ Handled(d)' \in Nat /\ Handled(d) <= Handled(d)'
      BY <1>4, <1>5, <3>1
    <3> QED BY <3>1, <3>2, ConstantsAssumption
  <2>3. CASE d \notin proved
    <3>1. Handled(d)' = taken[c] /\ taken[c] \in {AuthLen - 1, AuthLen}
      BY <1>2, <1>3, <1>5, <2>3
    <3> QED BY <1>2, <3>1, ConstantsAssumption
  <2> QED BY <2>2, <2>3
<1>7. TokenKept' /\ LinesInOrder'
  BY <1>3 DEF UInv, TokenKept, LinesInOrder
<1>8. LinesBehind'
  <2>1. SUFFICES ASSUME NEW n \in 1 .. Len(log) PROVE log[n].last <= taken[log[n].from]
    BY <1>3 DEF LinesBehind, Handled
  <2>2. log[n].from \in Conns /\ log[n].last \in Nat /\ log[n].last <= Handled(log[n].from)
    BY <1>4 DEF UInv, LinesBehind
  <2> PICK d \in Conns : d = log[n].from
    BY <2>2
  <2>3. Handled(d) \in Nat /\ taken[d] \in Nat /\ Handled(d) <= taken[d]
    BY <1>4
  <2> QED BY <2>2, <2>3
<1>9. ASSUME NEW d \in proved', NEW u \in AuthLen + 1 .. taken'[d]
      PROVE  Accounted(d, u)'
  <2>1. AuthLen \in Nat /\ u \in Int /\ AuthLen + 1 <= u /\ u <= taken[d]
    BY <1>3, <1>9, ConstantsAssumption
  <2>2. d \in proved
    BY <1>2, <1>3, <2>1
  <2>3. Accounted(d, u) /\ d \in Conns
    BY <1>3, <1>4, <1>9, <2>2 DEF UInv, AllAccounted
  <2>4. ~InBuffer(d, u)
    <3>1. SUFFICES ASSUME InBuffer(d, u) PROVE FALSE
      OBVIOUS
    <3>2. d = c /\ taken[c] - total < u
      BY <3>1 DEF InBuffer
    <3>3. total = 0
      BY <1>3, <2>2, <3>2
    <3> QED BY <1>2, <2>1, <3>2, <3>3
  <2> QED BY <1>3, <2>3, <2>4 DEF Accounted, Broadcast, ReadInVain
<1> QED BY <1>6, <1>7, <1>8, <1>9 DEF UInv, AllAccounted

\* A handler that broadcasts: all of its buffer is one line, and the next one
\* of its author.
LEMMA UInvLine ==
    ASSUME UInv, AInv', RecvMessage
    PROVE  UInv'
<1> DEFINE c == Author
           N == Len(log)
<1>1. DInv /\ Reading /\ Authenticated /\ InOnePlace
  BY DEF UInv, AInv, RecvMessage, ReadAll
<1>2. /\ c \in Conns /\ pc = "recv" /\ me \in Open
      /\ total \in Nat /\ taken[c] \in Nat /\ total <= taken[c]
  BY <1>1, ReadingOpen
<1>3. /\ pc' = "broadcast" /\ UNCHANGED <<taken, cl, proved>> /\ total > 0
      /\ log' = Append(log, LineRead(c))
  BY DEF RecvMessage, Finish
<1>4. c \in proved /\ cl[c] # "gone"
  BY <1>1, <1>2 DEF RecvMessage, Authenticated, Author, InOnePlace, Connected
<1>5. /\ taken \in [Conns -> Nat] /\ proved \subseteq Conns
      /\ log \in Seq(Lines) /\ N \in Nat
      /\ \A n \in 1 .. N : /\ log[n].from \in Conns
                           /\ log[n].first \in Nat
                           /\ log[n].last \in Nat
      /\ \A d \in Conns : Handled(d) \in Nat /\ Handled(d) <= taken[d]
  BY <1>1, UFacts
<1>6. /\ LineRead(c) \in Lines
      /\ LineRead(c).from = c
      /\ LineRead(c).first = taken[c] + 1 - total
      /\ LineRead(c).last = taken[c]
  BY <1>1, LineReadFacts
<1>7. /\ Len(log') = N + 1
      /\ \A n \in 1 .. N : log'[n] = log[n]
      /\ log'[N + 1] = LineRead(c)
  BY <1>3, <1>5, <1>6, AppendProperties
<1>8. \A n \in 1 .. Len(log') : n \in 1 .. N \/ n = N + 1
  BY <1>5, <1>7
<1>9. /\ \A d \in Conns : Handled(d)' = taken[d] /\ Handled(d) <= Handled(d)'
      /\ Handled(c) = taken[c] - total
  BY <1>2, <1>3, <1>5 DEF Handled
<1>10. AuthTaken'
  <2>1. SUFFICES ASSUME NEW d \in proved PROVE Handled(d)' + 1 >= AuthLen
    BY <1>3 DEF AuthTaken
  <2>2. Handled(d) + 1 >= AuthLen /\ d \in Conns
    BY <1>5 DEF UInv, AuthTaken
  <2>3. Handled(d) \in Nat /\ Handled(d)' \in Nat /\ Handled(d) <= Handled(d)'
    BY <1>5, <1>9, <2>2
  <2> QED BY <2>2, <2>3, ConstantsAssumption
<1>11. TokenKept'
  <2>1. Handled(c) + 1 >= AuthLen
    BY <1>4 DEF UInv, AuthTaken
  <2>2. LineRead(c).first >= AuthLen
    BY <1>2, <1>6, <1>9, <2>1, ConstantsAssumption
  <2>3. \A n \in 1 .. N : log[n].first >= AuthLen
    BY DEF UInv, TokenKept
  <2> QED BY <1>7, <1>8, <2>2, <2>3 DEF TokenKept
<1>12. \A n \in 1 .. N : log[n].last <= Handled(log[n].from)
  BY DEF UInv, LinesBehind
<1>13. LinesBehind'
  <2>1. SUFFICES ASSUME NEW n \in 1 .. Len(log') PROVE log'[n].last <= taken[log'[n].from]
    BY <1>3 DEF LinesBehind, Handled
  <2>2. CASE n \in 1 .. N
    <3>1. log'[n] = log[n] /\ log[n].last \in Nat /\ log[n].from \in Conns
          /\ log[n].last <= Handled(log[n].from)
      BY <1>5, <1>7, <1>12, <2>2
    <3> PICK d \in Conns : d = log[n].from
      BY <3>1
    <3>2. Handled(d) \in Nat /\ taken[d] \in Nat /\ Handled(d) <= taken[d]
      BY <1>5
    <3> QED BY <3>1, <3>2
  <2>3. CASE n = N + 1
    <3>1. log'[n].from = c /\ log'[n].last = taken[c]
      BY <1>6, <1>7, <2>3
    <3> QED BY <1>2, <3>1
  <2> QED BY <1>8, <2>2, <2>3
<1>14. LinesInOrder'
  <2>1. SUFFICES ASSUME NEW n \in 1 .. Len(log')
        PROVE  /\ log'[n].first <= log'[n].last
               /\ \A m \in 1 .. n - 1 : log'[m].from = log'[n].from
                                          => log'[m].last < log'[n].first
    BY DEF LinesInOrder
  <2>2. CASE n \in 1 .. N
    <3>1. log'[n] = log[n] /\ \A m \in 1 .. n - 1 : log'[m] = log[m]
      BY <1>5, <1>7, <2>2
    <3> QED BY <2>2, <3>1 DEF UInv, LinesInOrder
  <2>3. CASE n = N + 1
    <3>1. \A m \in 1 .. n - 1 : m \in 1 .. N /\ log'[m] = log[m]
      BY <1>5, <1>7, <2>3
    <3>2. ASSUME NEW m \in 1 .. N, log[m].from = c PROVE log[m].last < taken[c] + 1 - total
      <4>1. log[m].last \in Nat /\ log[m].last <= taken[c] - total
        BY <1>5, <1>9, <1>12, <3>2
      <4> QED BY <1>2, <4>1
    <3>3. /\ log'[n].from = c
          /\ log'[n].first = taken[c] + 1 - total
          /\ log'[n].last = taken[c]
      BY <1>6, <1>7, <2>3
    <3>4. log'[n].first <= log'[n].last
      BY <1>2, <1>3, <3>3
    <3> QED BY <3>1, <3>2, <3>3, <3>4
  <2> QED BY <1>8, <2>2, <2>3
<1>15. ASSUME NEW d \in proved', NEW u \in AuthLen + 1 .. taken'[d]
       PROVE  Accounted(d, u)'
  <2>1. d \in proved /\ d \in Conns /\ u \in Nat
    BY <1>3, <1>5, ConstantsAssumption
  <2>2. Accounted(d, u)
    BY <1>3, <2>1 DEF UInv, AllAccounted
  <2>3. Broadcast(d, u) => Broadcast(d, u)'
    <3>1. SUFFICES ASSUME Broadcast(d, u) PROVE Broadcast(d, u)'
      OBVIOUS
    <3>2. PICK n \in 1 .. N : log[n].from = d /\ log[n].first <= u /\ u <= log[n].last
      BY <3>1 DEF Broadcast
    <3>3. n \in 1 .. Len(log') /\ log'[n] = log[n]
      BY <1>5, <1>7
    <3> QED BY <3>2, <3>3 DEF Broadcast
  <2>4. InBuffer(d, u) => Broadcast(d, u)'
    <3>1. SUFFICES ASSUME InBuffer(d, u) PROVE Broadcast(d, u)'
      OBVIOUS
    <3>2. d = c /\ taken[c] - total < u /\ u <= taken[c]
      BY <3>1 DEF InBuffer
    <3>3. taken[c] + 1 - total <= u
      BY <1>2, <2>1, <3>2
    <3>4. N + 1 \in 1 .. Len(log')
      BY <1>5, <1>7
    <3> QED BY <1>6, <1>7, <3>2, <3>3, <3>4 DEF Broadcast
  <2>5. ReadInVain(d, u) => ReadInVain(d, u)'
    <3>1. SUFFICES ASSUME ReadInVain(d, u) PROVE ReadInVain(d, u)'
      OBVIOUS
    <3>2. d # c
      BY <1>4, <3>1 DEF ReadInVain
    <3> QED BY <1>3, <1>6, <1>7, <1>8, <3>1, <3>2 DEF ReadInVain
  <2> QED BY <2>2, <2>3, <2>4, <2>5 DEF Accounted
<1> QED BY <1>10, <1>11, <1>13, <1>14, <1>15 DEF UInv, AllAccounted

LEMMA UInvStep == UInv /\ [Next]_vars => UInv'
<1> SUFFICES ASSUME UInv, [Next]_vars PROVE UInv'
  OBVIOUS
<1>1. AInv /\ AInv' /\ DInv
  BY AInvStep DEF UInv, AInv
<1>2. CASE UNCHANGED <<log, taken, proved, pc, me, conn, total>>
  BY <1>1, <1>2, UInvSame DEF Handled, InBuffer, Author
<1>3. CASE UNCHANGED <<log, taken, proved>> /\ pc # "recv" /\ pc' # "recv"
  BY <1>1, <1>3, UInvSame DEF Handled, InBuffer
<1>4. ASSUME NEW f \in FD, RecvStart(f)
      PROVE  UInv'
  <2>1. UNCHANGED <<log, taken, proved>> /\ total' = total /\ pc = "scan"
    BY <1>4 DEF RecvStart, Serving, network, history
  <2>2. total' = 0 /\ taken \in [Conns -> Nat]
    BY <1>1, <2>1, UFacts DEF DInv, InHandler
  <2>3. \A c \in Conns : Handled(c)' = Handled(c)
    BY <2>1, <2>2 DEF Handled
  <2> QED BY <1>1, <2>1, <2>3, UInvSame DEF InBuffer
<1>5. CASE UNCHANGED vars
  BY <1>2, <1>5 DEF vars, server, network, history
<1>6. CASE ClientNext
  BY <1>2, <1>6 DEF ClientNext, Connect, Arrive, Read, Quit, Reset, clientUnchanged,
                    server, history
<1>7. CASE ServerNext
  <2>1. CASE Select \/ ScanDone \/ AcceptFails \/ Accept \/ AcceptTooHigh \/ BroadcastDone
    <3>1. /\ UNCHANGED <<log, taken, proved>>
          /\ pc \in {"select", "scan", "broadcast"} /\ pc' \in {"select", "scan", "exit"}
      BY <2>1 DEF Select, ScanDone, AcceptFails, Accept, AcceptTooHigh, BroadcastDone,
                  Listening, acceptUnchanged, network, history
    <3> QED BY <1>3, <3>1
  <2>2. ASSUME NEW f \in FD, SendUnit(f) \/ SendFails(f)
        PROVE  UInv'
    <3>1. UNCHANGED <<log, taken, proved>> /\ pc = "broadcast" /\ pc' = pc
      BY <2>2 DEF SendUnit, SendFails, Sending, sendUnchanged, history
    <3> QED BY <1>3, <3>1
  <2> QED BY <1>1, <1>4, <1>7, <2>1, <2>2, UInvRecv, UInvCloses, UInvQuiet, UInvLine
        DEF ServerNext, HandlerCloses
<1> QED BY <1>5, <1>6, <1>7 DEF Next

LEMMA UInvAlways == Spec => []UInv
BY UInvInit, UInvStep, PTL DEF Spec

\* No part of a token is ever broadcast: at most the newline that ended an
\* AUTH line is.
THEOREM TokenSafe == Spec => []TokenKept
<1>1. UInv => TokenKept
  BY DEF UInv
<1> QED BY <1>1, UInvAlways, PTL

\* What recv() takes from an authenticated client is broadcast once and in
\* its order; only a handler that closes the client loses what it has read,
\* and nothing of that client is broadcast after the gap.
THEOREM UnitsSafe == Spec => []EachUnitOnce
<1>1. UInv => EachUnitOnce
  BY UnitsFromParts
<1> QED BY <1>1, UInvAlways, PTL

-----------------------------------------------------------------------------
(* The fourth invariant: how far each client is in what is broadcast.  That*)
(* everybody has been sent everything holds only between two broadcasts,   *)
(* and the wholeness of a stream only if the next unit that is appended    *)
(* continues it; so a broadcast under way is described recipient by        *)
(* recipient: those already served and the author have all of the log, the *)
(* lowest one left has `sent' units of the last line, the others none.     *)

\* The line that c's stream has reached, or the last before c came.
Reach(c) == IF stream[c] = <<>> THEN joined[c] ELSE stream[c][Len(stream[c])][1]

AtLineEnd(c) ==
    stream[c] # <<>> => stream[c][Len(stream[c])][2] = log[Reach(c)].last

Settled(c) == AtLineEnd(c) /\ OwnBetween(c, Reach(c), Len(log) + 1)
Awaits(c) == AtLineEnd(c) /\ Reach(c) < Len(log) /\ OwnBetween(c, Reach(c), Len(log))
Partly(c) == /\ stream[c] # <<>>
             /\ stream[c][Len(stream[c])] = <<Len(log), Line.first + sent - 1>>
             /\ sent < LineLen

Place(f) == IF f \notin todo THEN Settled(conn[f])
            ELSE IF sent > 0 /\ Lowest(f, todo) THEN Partly(conn[f])
            ELSE Awaits(conn[f])

\* The streams of c speak of lines that exist; the log only grows.
InLog(c) == /\ joined[c] <= Len(log)
            /\ \A p \in 1 .. Len(stream[c]) : stream[c][p][1] \in 1 .. Len(log)

\* StreamWhole for one client.
WholeFor(c) ==
    /\ \A p \in 1 .. Len(stream[c]) : log[stream[c][p][1]].from # c
    /\ stream[c] # <<>> =>
         /\ stream[c][1][1] > joined[c]
         /\ stream[c][1][2] = log[stream[c][1][1]].first
         /\ OwnBetween(c, joined[c], stream[c][1][1])
    /\ \A p \in 1 .. Len(stream[c]) - 1 : MayFollow(c, stream[c][p], stream[c][p + 1])

Delivery ==
    /\ \A c \in Conns : InLog(c) /\ WholeFor(c)
    /\ todo # {} => Line.from = conn[me]
    /\ todo = {} => sent = 0
    /\ \A f \in Open : authed[f] => Place(f)

RInv == UInv /\ Delivery

LEMMA StreamFacts ==
    ASSUME DInv
    PROVE  /\ log \in Seq(Lines) /\ Len(log) \in Nat
           /\ \A n \in 1 .. Len(log) : /\ log[n].first \in Nat
                                       /\ log[n].last \in Nat
           /\ joined \in [Conns -> Nat]
           /\ stream \in [Conns -> Seq(Nat \X Nat)]
           /\ sent \in Nat
           /\ \A c \in Conns :
                /\ Len(stream[c]) \in Nat
                /\ stream[c] = <<>> <=> Len(stream[c]) = 0
                /\ \A p \in 1 .. Len(stream[c]) : stream[c][p] \in Nat \X Nat
                /\ stream[c] # <<>> => Len(stream[c]) \in 1 .. Len(stream[c])
                /\ Reach(c) \in Nat
<1>1. /\ log \in Seq(Lines) /\ joined \in [Conns -> Nat]
      /\ stream \in [Conns -> Seq(Nat \X Nat)] /\ sent \in Nat
  BY DEF DInv, TypeOK, ServerTypeOK, NetworkTypeOK, HistoryTypeOK
<1>2. Len(log) \in Nat /\ \A n \in 1 .. Len(log) : log[n] \in Lines
  BY <1>1, LenProperties, ElementOfSeq
<1>3. \A n \in 1 .. Len(log) : log[n].first \in Nat /\ log[n].last \in Nat
  BY <1>2 DEF Lines
<1>4. ASSUME NEW c \in Conns
      PROVE  /\ Len(stream[c]) \in Nat
             /\ stream[c] = <<>> <=> Len(stream[c]) = 0
             /\ \A p \in 1 .. Len(stream[c]) : stream[c][p] \in Nat \X Nat
             /\ stream[c] # <<>> => Len(stream[c]) \in 1 .. Len(stream[c])
             /\ Reach(c) \in Nat
  <2>1. stream[c] \in Seq(Nat \X Nat) /\ joined[c] \in Nat
    BY <1>1
  <2>2. Len(stream[c]) \in Nat /\ (stream[c] = <<>> <=> Len(stream[c]) = 0)
    BY <2>1, LenProperties, EmptySeq
  <2>3. \A p \in 1 .. Len(stream[c]) : stream[c][p] \in Nat \X Nat
    BY <2>1, ElementOfSeq
  <2>4. stream[c] # <<>> => Len(stream[c]) \in 1 .. Len(stream[c])
    BY <2>2
  <2>5. Reach(c) \in Nat
    BY <2>1, <2>3, <2>4 DEF Reach
  <2> QED BY <2>2, <2>3, <2>4, <2>5
<1> QED BY <1>1, <1>2, <1>3, <1>4

\* The log has only grown, and c's part of the history is as it was.
Longer == Len(log) <= Len(log') /\ \A n \in 1 .. Len(log) : log'[n] = log[n]

\* What c was sent is whole whatever is said after it.
LEMMA WholeKept ==
    ASSUME DInv, DInv', Longer, NEW c \in Conns, InLog(c), WholeFor(c),
           stream'[c] = stream[c], joined'[c] = joined[c] \/ stream[c] = <<>>,
           joined'[c] <= Len(log')
    PROVE  InLog(c)' /\ WholeFor(c)'
<1>1. /\ Len(log) \in Nat /\ Len(log') \in Nat /\ Len(stream[c]) \in Nat
      /\ joined[c] \in Nat /\ (stream[c] = <<>> <=> Len(stream[c]) = 0)
  <2>1. Len(log) \in Nat /\ Len(stream[c]) \in Nat
        /\ joined \in [Conns -> Nat] /\ (stream[c] = <<>> <=> Len(stream[c]) = 0)
    BY StreamFacts
  <2>2. log' \in Seq(Lines)
    BY DEF DInv, TypeOK, HistoryTypeOK
  <2>3. Len(log') \in Nat
    BY <2>2, LenProperties
  <2> QED BY <2>1, <2>3
<1>2. \A n \in 1 .. Len(log) : log'[n] = log[n] /\ n \in 1 .. Len(log')
  BY <1>1 DEF Longer
<1>3. InLog(c)'
  BY <1>2 DEF InLog
<1>4. \A p \in 1 .. Len(stream[c]) :
        stream[c][p][1] \in 1 .. Len(log) /\ log'[stream[c][p][1]] = log[stream[c][p][1]]
  BY <1>2 DEF InLog
<1>5. \A m \in Nat : \A p \in 1 .. Len(stream[c]) :
        OwnBetween(c, m, stream[c][p][1])
           => \A k \in m + 1 .. stream[c][p][1] - 1 : log'[k].from = c
  <2>1. SUFFICES ASSUME NEW m \in Nat, NEW p \in 1 .. Len(stream[c]),
                        OwnBetween(c, m, stream[c][p][1]),
                        NEW k \in m + 1 .. stream[c][p][1] - 1
                 PROVE  log'[k].from = c
    OBVIOUS
  <2>2. k \in 1 .. Len(log)
    BY <1>1, <1>4
  <2> QED BY <1>2, <2>1, <2>2 DEF OwnBetween
<1>6. stream[c] # <<>> =>
         /\ stream[c][1][1] > joined'[c]
         /\ stream[c][1][2] = log'[stream[c][1][1]].first
         /\ \A k \in joined'[c] + 1 .. stream[c][1][1] - 1 : log'[k].from = c
  <2>1. SUFFICES ASSUME stream[c] # <<>>
        PROVE  /\ stream[c][1][1] > joined[c]
               /\ stream[c][1][2] = log'[stream[c][1][1]].first
               /\ \A k \in joined[c] + 1 .. stream[c][1][1] - 1 : log'[k].from = c
    OBVIOUS
  <2>2. 1 \in 1 .. Len(stream[c])
    BY <1>1, <2>1
  <2>3. OwnBetween(c, joined[c], stream[c][1][1])
    BY <2>1 DEF WholeFor
  <2>4. \A k \in joined[c] + 1 .. stream[c][1][1] - 1 : log'[k].from = c
    BY <1>1, <1>5, <2>2, <2>3
  <2> QED BY <1>4, <2>1, <2>2, <2>4 DEF WholeFor
<1>7. ASSUME NEW p \in 1 .. Len(stream[c]) - 1
      PROVE  MayFollow(c, stream[c][p], stream[c][p + 1])'
  <2>1. p \in 1 .. Len(stream[c]) /\ p + 1 \in 1 .. Len(stream[c])
    BY <1>1
  <2>2. MayFollow(c, stream[c][p], stream[c][p + 1])
    BY DEF WholeFor
  <2>3. /\ log'[stream[c][p][1]] = log[stream[c][p][1]]
        /\ log'[stream[c][p + 1][1]] = log[stream[c][p + 1][1]]
        /\ stream[c][p][1] \in Nat
    BY <1>1, <1>4, <2>1, SMTT(30)
  <2>4. OwnBetween(c, stream[c][p][1], stream[c][p + 1][1])
           => OwnBetween(c, stream[c][p][1], stream[c][p + 1][1])'
    BY <1>5, <2>1, <2>3 DEF OwnBetween
  <2> QED BY <2>2, <2>3, <2>4 DEF MayFollow
<1> QED BY <1>3, <1>4, <1>6, <1>7 DEF WholeFor, OwnBetween

\* What the earlier invariants say where the fourth one is preserved.
LEMMA OpenFacts ==
    ASSUME UInv
    PROVE  /\ DInv /\ AInv
           /\ Open \subseteq FD
           /\ authed \in [FD -> BOOLEAN]
           /\ \A f \in Open : conn[f] \in Conns
           /\ \A f, g \in Open : conn[f] = conn[g] => f = g
           /\ \A f \in Open : authed[f] <=> conn[f] \in proved
           /\ \A c \in Conns : c \notin proved => stream[c] = <<>>
<1>1. DInv /\ AInv /\ InOnePlace /\ Authenticated
  BY DEF UInv, AInv
<1>2. conn \in [FD -> Conns \cup {NoConn}] /\ authed \in [FD -> BOOLEAN]
  BY <1>1 DEF DInv, TypeOK, ServerTypeOK
<1>3. \A f \in Open : f \in FD /\ conn[f] \in Conns
  BY <1>2 DEF Open
<1> QED BY <1>1, <1>2, <1>3 DEF InOnePlace, Authenticated

\* A step that neither says nor sends anything keeps everybody's place.
LEMMA DeliverySame ==
    ASSUME RInv, UNCHANGED <<log, stream, joined, todo, sent>>,
           todo # {} => me' = me /\ conn'[me] = conn[me],
           \A f \in Open' : authed'[f] => f \in Open /\ authed[f] /\ conn'[f] = conn[f]
    PROVE  Delivery'
<1>1. Delivery
  BY DEF RInv
<1>2. ASSUME NEW c \in Conns PROVE InLog(c)' /\ WholeFor(c)'
  <2>1. InLog(c) /\ WholeFor(c)
    BY <1>1 DEF Delivery
  <2>2. log' = log /\ stream' = stream /\ joined' = joined
    OBVIOUS
  <2>3. InLog(c)'
    BY <2>1, <2>2 DEF InLog
  <2>4. \A m, n : OwnBetween(c, m, n) <=> OwnBetween(c, m, n)'
    BY <2>2 DEF OwnBetween
  <2>5. \A e, g : MayFollow(c, e, g) <=> MayFollow(c, e, g)'
    BY <2>2, <2>4 DEF MayFollow
  <2>6. WholeFor(c)'
    BY <2>1, <2>2, <2>4, <2>5 DEF WholeFor
  <2> QED BY <2>3, <2>6
<1>3. (todo # {} => Line.from = conn[me])' /\ (todo = {} => sent = 0)'
  BY <1>1 DEF Delivery, Line
<1>4. ASSUME NEW f \in Open', authed'[f]
      PROVE  Place(f)'
  <2>1. f \in Open /\ authed[f] /\ conn'[f] = conn[f]
    BY <1>4
  <2>2. Place(f)
    BY <1>1, <2>1 DEF Delivery
  <2> QED BY <2>1, <2>2 DEF Place, Settled, Awaits, Partly, AtLineEnd, Reach, OwnBetween,
             Lowest, Line, LineLen
<1> QED BY <1>2, <1>3, <1>4 DEF Delivery

\* A connection that authenticates has nothing to catch up with.
LEMMA DeliveryAuth ==
    ASSUME RInv, UInv', RecvAuth
    PROVE  Delivery'
<1>1. DInv /\ DInv' /\ Delivery /\ UInv
  BY OpenFacts DEF RInv, UInv, AInv
<1>2. Reading
  BY DEF RecvAuth, ReadAll
<1> PICK f \in Open : f = me /\ conn[f] = Author
  BY <1>1, <1>2, ReadingOpen DEF Author
<1> DEFINE c == conn[f]
<1>3. f \in Open /\ c \in Conns /\ todo = {}
  BY <1>1, <1>2, ReadingOpen
<1>4. /\ authed' = [authed EXCEPT ![f] = TRUE] /\ ~authed[f]
      /\ joined' = [joined EXCEPT ![c] = Len(log)]
      /\ todo' = {} /\ UNCHANGED <<log, stream, conn, sent>>
  BY DEF RecvAuth, Finish, recvUnchanged
<1>5. stream[c] = <<>>
  BY <1>1, <1>3, <1>4, OpenFacts
<1>6. joined \in [Conns -> Nat] /\ Len(log) \in Nat
  BY <1>1, StreamFacts
<1>7. joined'[c] = Len(log) /\ \A d \in Conns : d # c => joined'[d] = joined[d]
  BY <1>3, <1>4, <1>6
<1>8. ASSUME NEW d \in Conns PROVE InLog(d)' /\ WholeFor(d)'
  <2>1. /\ Longer /\ InLog(d) /\ WholeFor(d) /\ stream'[d] = stream[d]
        /\ joined'[d] = joined[d] \/ stream[d] = <<>>
        /\ joined'[d] <= Len(log')
    BY <1>1, <1>4, <1>5, <1>6, <1>7 DEF Delivery, InLog, Longer
  <2> QED BY <1>1, <2>1, WholeKept
<1>9. ASSUME NEW g \in Open', authed'[g]
      PROVE  Settled(conn[g])'
  <2>1. g \in Open /\ conn[g] \in Conns /\ authed \in [FD -> BOOLEAN] /\ g \in FD
    BY <1>1, <1>4, OpenFacts DEF Open
  <2>2. CASE g = f
    <3>1. Reach(c)' = Len(log)
      BY <1>3, <1>4, <1>5, <1>7 DEF Reach
    <3> QED BY <1>4, <1>5, <1>6, <2>2, <3>1 DEF Settled, AtLineEnd, OwnBetween
  <2>3. CASE g # f
    <3>1. conn[g] # c /\ authed[g]
      BY <1>1, <1>3, <1>4, <1>9, <2>1, <2>3, OpenFacts
    <3>2. Settled(conn[g])
      BY <1>1, <1>3, <2>1, <3>1 DEF Delivery, Place
    <3>3. joined'[conn[g]] = joined[conn[g]] /\ stream'[conn[g]] = stream[conn[g]]
      BY <1>4, <1>7, <2>1, <3>1
    <3> QED BY <1>4, <3>2, <3>3 DEF Settled, AtLineEnd, OwnBetween, Reach
  <2> QED BY <2>2, <2>3
<1>10. sent' = 0
  BY <1>1, <1>3, <1>4 DEF Delivery
<1> QED BY <1>4, <1>8, <1>9, <1>10 DEF Delivery, Place

\* A new line waits for every recipient, and for nobody else.
LEMMA DeliveryMessage ==
    ASSUME RInv, UInv', RecvMessage
    PROVE  Delivery'
<1>1. DInv /\ DInv' /\ Delivery /\ UInv
  BY OpenFacts DEF RInv, UInv, AInv
<1>2. Reading
  BY DEF RecvMessage, ReadAll
<1> PICK f \in Open : f = me /\ conn[f] = Author
  BY <1>1, <1>2, ReadingOpen DEF Author
<1> DEFINE c == conn[f]
           N == Len(log)
<1>3. f \in Open /\ c \in Conns /\ todo = {} /\ sent = 0
  BY <1>1, <1>2, ReadingOpen DEF Delivery
<1>4. /\ log' = Append(log, LineRead(c))
      /\ todo' = Recipients(f) /\ me' = f
      /\ UNCHANGED <<authed, joined, stream, conn, sent>>
  BY DEF RecvMessage, Finish, recvUnchanged
<1>5. log \in Seq(Lines) /\ N \in Nat
  BY <1>1, UFacts
<1>6. LineRead(c) \in Lines /\ LineRead(c).from = c
  BY <1>1, <1>2, LineReadFacts
<1>7. /\ Len(log') = N + 1
      /\ \A n \in 1 .. N : log'[n] = log[n]
      /\ log'[N + 1].from = c
  BY <1>4, <1>5, <1>6, AppendProperties
<1>8. ASSUME NEW d \in Conns PROVE InLog(d)' /\ WholeFor(d)'
  <2>1. /\ Longer /\ InLog(d) /\ WholeFor(d) /\ stream'[d] = stream[d]
        /\ joined'[d] = joined[d]
    BY <1>1, <1>4, <1>5, <1>7 DEF Delivery, Longer
  <2>2. joined[d] \in Nat
    BY <1>1, StreamFacts
  <2>3. joined'[d] <= Len(log')
    BY <1>5, <1>7, <2>1, <2>2 DEF InLog
  <2> QED BY <1>1, <2>1, <2>3, WholeKept
<1>9. ASSUME NEW g \in Open', authed'[g]
      PROVE  Place(g)'
  <2>1. g \in Open /\ conn[g] \in Conns /\ authed[g]
    BY <1>1, <1>4, <1>9, OpenFacts DEF Open
  <2> PICK d \in Conns : d = conn[g] /\ d = conn'[g]
    BY <1>4, <2>1
  <2>2. Settled(d) /\ InLog(d)
    BY <1>1, <1>3, <2>1 DEF Delivery, Place
  <2>3. /\ Reach(d) \in Nat /\ Reach(d)' = Reach(d) /\ Reach(d) <= N
        /\ stream[d] # <<>> => Reach(d) \in 1 .. N
    <3>1. /\ stream[d] # <<>> => Len(stream[d]) \in 1 .. Len(stream[d])
          /\ Reach(d) \in Nat
      BY <1>1, <2>1, StreamFacts
    <3> QED BY <1>4, <1>5, <2>2, <3>1, SMTT(30) DEF Reach, InLog
  <2>4. AtLineEnd(d)'
    BY <1>4, <1>7, <2>2, <2>3 DEF Settled, AtLineEnd
  <2>5. \A k \in Reach(d) + 1 .. N : log'[k].from = d
    BY <1>5, <1>7, <2>2, <2>3 DEF Settled, OwnBetween
  <2>6. CASE g = f
    <3>1. g \notin todo'
      BY <1>4, <2>6 DEF Recipients
    <3>2. \A k \in Reach(d) + 1 .. N + 1 : log'[k].from = d
      <4>1. log'[N + 1].from = d
        BY <1>7, <2>6
      <4>2. \A k \in Reach(d) + 1 .. N + 1 : k \in Reach(d) + 1 .. N \/ k = N + 1
        BY <1>5, <2>3
      <4> QED BY <2>5, <4>1, <4>2
    <3>3. Settled(d)'
      BY <1>5, <1>7, <2>3, <2>4, <3>2 DEF Settled, OwnBetween
    <3> QED BY <1>4, <3>1, <3>3 DEF Place
  <2>7. CASE g # f
    <3>1. g \in todo'
      <4>1. g \in list /\ g <= max_set /\ g # Listener
        BY <1>1, <2>1, FDFacts DEF DInv, DescriptorsAgree
      <4> QED BY <1>4, <2>1, <2>7, <4>1 DEF Recipients
    <3>2. Awaits(d)'
      BY <1>5, <1>7, <2>3, <2>4, <2>5 DEF Awaits, OwnBetween
    <3> QED BY <1>3, <1>4, <3>1, <3>2 DEF Place
  <2> QED BY <2>6, <2>7
<1>10. (Line.from = conn[me])' /\ sent' = 0
  BY <1>3, <1>4, <1>7 DEF Line
<1> QED BY <1>8, <1>9, <1>10 DEF Delivery

\* A stream stays whole if the unit appended to it may follow.
LEMMA WholeAppend ==
    ASSUME DInv, NEW c \in Conns, InLog(c), WholeFor(c),
           UNCHANGED <<log, joined>>, NEW g \in Nat \X Nat,
           stream'[c] = Append(stream[c], g),
           g[1] \in 1 .. Len(log), log[g[1]].from # c,
           stream[c] = <<>> => /\ g[1] > joined[c] /\ g[2] = log[g[1]].first
                               /\ OwnBetween(c, joined[c], g[1]),
           stream[c] # <<>> => MayFollow(c, stream[c][Len(stream[c])], g)
    PROVE  InLog(c)' /\ WholeFor(c)'
<1> DEFINE K == Len(stream[c])
<1>1. /\ K \in Nat /\ stream[c] \in Seq(Nat \X Nat)
      /\ stream[c] = <<>> <=> K = 0
  BY StreamFacts
<1>2. /\ Len(stream'[c]) = K + 1
      /\ \A p \in 1 .. K : stream'[c][p] = stream[c][p]
      /\ stream'[c][K + 1] = g
      /\ stream'[c] # <<>>
  <2> DEFINE s == stream[c]
  <2>1. /\ Len(Append(s, g)) = Len(s) + 1
        /\ \A p \in 1 .. Len(s) : Append(s, g)[p] = s[p]
        /\ Append(s, g)[Len(s) + 1] = g
        /\ Append(s, g) # <<>>
    <3> DEFINE S == Nat \X Nat
    <3>1. s \in Seq(S) /\ g \in S
      BY <1>1
    <3> HIDE DEF s, S
    <3> QED BY <3>1, AppendProperties
  <2> QED BY <2>1
<1>3. log' = log /\ joined' = joined
  OBVIOUS
<1>4. \A p \in 1 .. Len(stream'[c]) : p \in 1 .. K \/ p = K + 1
  BY <1>1, <1>2
<1>5. InLog(c)'
  BY <1>2, <1>3, <1>4 DEF InLog
<1>6. \A p \in 1 .. Len(stream'[c]) : log[stream'[c][p][1]].from # c
  BY <1>2, <1>4 DEF WholeFor
<1>7. /\ stream'[c][1][1] > joined[c]
      /\ stream'[c][1][2] = log[stream'[c][1][1]].first
      /\ OwnBetween(c, joined[c], stream'[c][1][1])
  <2>1. CASE K = 0
    BY <1>1, <1>2, <2>1
  <2>2. CASE K # 0
    <3>1. 1 \in 1 .. K
      BY <1>1, <2>2
    <3>2. stream'[c][1] = stream[c][1]
      BY <1>2, <3>1
    <3> QED BY <1>1, <2>2, <3>2 DEF WholeFor
  <2> QED BY <2>1, <2>2
<1>8. ASSUME NEW p \in 1 .. Len(stream'[c]) - 1
      PROVE  MayFollow(c, stream'[c][p], stream'[c][p + 1])
  <2>1. p \in 1 .. K /\ stream'[c][p] = stream[c][p]
    BY <1>1, <1>2
  <2>2. CASE p = K
    BY <1>1, <1>2, <2>1, <2>2
  <2>3. CASE p # K
    <3>a. PICK k \in Nat : k = K
      BY <1>1
    <3>b. p \in Int /\ 1 <= p /\ p <= k /\ p # k
      BY <2>1, <2>3, <3>a
    <3>c. p \in 1 .. k - 1 /\ p + 1 \in 1 .. k
      BY <3>b
    <3>1. p \in 1 .. K - 1 /\ p + 1 \in 1 .. K
      BY <3>a, <3>c
    <3>2. stream'[c][p + 1] = stream[c][p + 1]
      BY <1>2, <3>1
    <3> QED BY <2>1, <3>1, <3>2 DEF WholeFor
  <2> QED BY <2>2, <2>3
<1>9. WholeFor(c)'
  <2>1. \A p \in 1 .. Len(stream'[c]) : log'[stream'[c][p][1]].from # c
    BY <1>3, <1>6
  <2>2. /\ stream'[c][1][1] > joined'[c]
        /\ stream'[c][1][2] = log'[stream'[c][1][1]].first
        /\ OwnBetween(c, joined[c], stream[c][1][1])'
    BY <1>3, <1>7 DEF OwnBetween
  <2>3. ASSUME NEW p \in 1 .. Len(stream'[c]) - 1
        PROVE  MayFollow(c, stream[c][p], stream[c][p + 1])'
    <3>1. MayFollow(c, stream'[c][p], stream'[c][p + 1])
      BY <1>8
    <3> QED BY <1>3, <3>1 DEF MayFollow, OwnBetween
  <2> QED BY <2>1, <2>2, <2>3 DEF WholeFor
<1> QED BY <1>5, <1>9

\* A unit is the next of its line, and the first is that of the next line
\* that its recipient should hear.
LEMMA DeliverySend ==
    ASSUME RInv, UInv', NEW j \in FD, SendUnit(j)
    PROVE  Delivery'
<1> DEFINE N == Len(log)
           g == <<N, Line.first + sent>>
<1>1. DInv /\ DInv' /\ Delivery /\ UInv /\ Sending(j)
  BY OpenFacts DEF RInv, UInv, AInv, SendUnit
<1>2. /\ pc = "broadcast" /\ j \in todo /\ j \in Open /\ j # me /\ me \in Open
      /\ conn[j] \in Conns /\ N \in Nat \ {0} /\ Line \in Lines
  BY <1>1, SendingOpen
<1> PICK c \in Conns : c = conn[j]
  BY <1>2
<1>3. /\ stream' = [stream EXCEPT ![c] = Append(@, g)]
      /\ UNCHANGED <<log, joined, conn, authed, me>>
      /\ \/ sent + 1 = LineLen /\ sent' = 0 /\ todo' = todo \ {j}
         \/ sent + 1 # LineLen /\ sent' = sent + 1 /\ todo' = todo
  BY DEF SendUnit, sendUnchanged, history
<1>4. /\ Line.first \in Nat /\ Line.last \in Nat /\ Line = log[N] /\ sent \in Nat
      /\ Line.first <= Line.last
  <2>1. N \in 1 .. N /\ sent \in Nat
    BY <1>1, <1>2, StreamFacts
  <2> QED BY <1>1, <1>2, <2>1 DEF Lines, Line, UInv, LinesInOrder
<1>5. Line.from = conn[me] /\ log[N].from # c
  <2>1. conn[me] # conn[j]
    BY <1>1, <1>2, OpenFacts
  <2> QED BY <1>1, <1>2, <1>4, <2>1 DEF Delivery
<1>6. authed[j] /\ Place(j)
  BY <1>1, <1>2 DEF UInv, AInv, Served, Delivery
<1>7. Lowest(j, todo)
  BY <1>1 DEF Sending
<1>8. sent < LineLen
  BY <1>2, <1>4, <1>6, <1>7 DEF Place, Partly, LineLen
<1>9. /\ Len(stream[c]) \in Nat /\ stream[c] \in Seq(Nat \X Nat)
      /\ stream[c] = <<>> <=> Len(stream[c]) = 0
      /\ \A p \in 1 .. Len(stream[c]) : stream[c][p] \in Nat \X Nat
      /\ Reach(c) \in Nat /\ joined[c] \in Nat
  BY <1>1, StreamFacts
<1>10. /\ stream'[c] = Append(stream[c], g)
       /\ \A d \in Conns : d # c => stream'[d] = stream[d]
  BY <1>1, <1>3, StreamFacts
<1>11. /\ Len(stream'[c]) = Len(stream[c]) + 1
       /\ \A p \in 1 .. Len(stream[c]) : stream'[c][p] = stream[c][p]
       /\ stream'[c][Len(stream[c]) + 1] = g
       /\ stream'[c] # <<>>
  <2>1. g \in Nat \X Nat
    BY <1>2, <1>4
  <2> DEFINE s == stream[c]
  <2>2. s \in Seq(Nat \X Nat)
    BY <1>9
  <2>3. /\ Len(Append(s, g)) = Len(s) + 1
        /\ \A p \in 1 .. Len(s) : Append(s, g)[p] = s[p]
        /\ Append(s, g)[Len(s) + 1] = g
        /\ Append(s, g) # <<>>
    <3> DEFINE S == Nat \X Nat
    <3>1. s \in Seq(S) /\ g \in S
      BY <2>1, <2>2
    <3> HIDE DEF s, g, S
    <3> QED BY <3>1, AppendProperties
  <2> QED BY <1>10, <2>3
<1>12. g[1] = N /\ g[2] = Line.first + sent
  OBVIOUS
<1>13. Reach(c)' = N /\ stream'[c][Len(stream'[c])] = g
  BY <1>11, <1>12 DEF Reach
\* How the new unit continues what c has.
<1>14. /\ stream[c] = <<>> => /\ sent = 0 /\ N > joined[c]
                              /\ OwnBetween(c, joined[c], N)
       /\ stream[c] # <<>> => MayFollow(c, stream[c][Len(stream[c])], g)
  <2>1. CASE sent > 0
    <3>1. /\ stream[c] # <<>>
          /\ stream[c][Len(stream[c])] = <<N, Line.first + sent - 1>>
      BY <1>2, <1>6, <1>7, <2>1 DEF Place, Partly
    <3>2. /\ stream[c][Len(stream[c])][1] = N
          /\ stream[c][Len(stream[c])][2] = Line.first + sent - 1
      BY <3>1
    <3>3. Line.first + sent - 1 < Line.last
      BY <1>4, <1>8, <2>1 DEF LineLen
    <3>4. Line.first + sent - 1 + 1 = Line.first + sent
      BY <1>4
    <3> QED BY <1>4, <3>1, <3>2, <3>3, <3>4 DEF MayFollow
  <2>2. CASE ~(sent > 0)
    <3>1. sent = 0 /\ Awaits(c)
      BY <1>2, <1>4, <1>6, <2>2 DEF Place
    <3>2. CASE stream[c] = <<>>
      BY <3>1, <3>2 DEF Awaits, Reach
    <3>3. CASE stream[c] # <<>>
      <4>1. Len(stream[c]) \in 1 .. Len(stream[c])
        BY <1>9, <3>3
      <4> DEFINE e == stream[c][Len(stream[c])]
      <4>2. /\ e[2] = log[e[1]].last /\ e[1] < N /\ OwnBetween(c, e[1], N)
            /\ e[2] \in Nat
        BY <1>9, <3>1, <3>3, <4>1 DEF Awaits, AtLineEnd, Reach
      <4>3. g[2] = log[N].first
        BY <1>4, <3>1
      <4>4. ~(e[2] < log[e[1]].last) /\ g[1] = N
        <5>1. PICK u \in Nat : u = e[2] /\ u = log[e[1]].last
          BY <4>2
        <5>2. ~(u < u)
          OBVIOUS
        <5> QED BY <1>12, <5>1, <5>2
      <4>5. g[1] > e[1]
        BY <4>2, <4>4
      <4>6. MayFollow(c, e, g)
        <5> HIDE DEF e, g
        <5> QED BY <4>2, <4>3, <4>4, <4>5 DEF MayFollow
      <4> QED BY <3>3, <4>6
    <3> QED BY <3>2, <3>3
  <2> QED BY <2>1, <2>2
<1>15. InLog(c)' /\ WholeFor(c)'
  <2>1. InLog(c) /\ WholeFor(c) /\ UNCHANGED <<log, joined>>
    BY <1>1, <1>3 DEF Delivery
  <2>2. g \in Nat \X Nat /\ g[1] \in 1 .. Len(log) /\ log[g[1]].from # c
    BY <1>2, <1>4, <1>5, <1>12
  <2>3. stream[c] = <<>> => /\ g[1] > joined[c] /\ g[2] = log[g[1]].first
                            /\ OwnBetween(c, joined[c], g[1])
    BY <1>4, <1>12, <1>14
  <2> QED BY <1>1, <1>10, <1>14, <2>1, <2>2, <2>3, WholeAppend
<1>16. ASSUME NEW d \in Conns PROVE InLog(d)' /\ WholeFor(d)'
  <2>1. CASE d # c
    <3>a. InLog(d) /\ WholeFor(d)
      BY <1>1 DEF Delivery
    <3>b. Longer
      BY <1>2, <1>3 DEF Longer
    <3>1. /\ Longer /\ InLog(d) /\ WholeFor(d) /\ stream'[d] = stream[d]
          /\ joined'[d] = joined[d] /\ joined[d] <= Len(log')
      BY <1>3, <1>10, <2>1, <3>a, <3>b DEF InLog
    <3> QED BY <1>1, <3>1, WholeKept
  <2> QED BY <1>15, <2>1
<1>17. (todo # {} => Line.from = conn[me])' /\ (todo = {} => sent = 0)'
  BY <1>2, <1>3, <1>5 DEF Line
<1>18. ASSUME NEW f \in Open', authed'[f], f # j
       PROVE  Place(f)'
  <2>1. f \in Open /\ authed[f]
    BY <1>3, <1>18 DEF Open
  <2> PICK d \in Conns : d = conn[f] /\ d = conn'[f]
    BY <1>1, <1>3, <2>1, OpenFacts
  <2>2. d # c
    BY <1>1, <1>2, <1>18, <2>1, OpenFacts
  <2>3. IF f \in todo THEN Awaits(d) ELSE Settled(d)
    <3>1. f \in FD /\ j \in FD /\ FD \subseteq Nat
      BY <2>1, FDFacts
    <3>2. f \in todo => ~Lowest(f, todo)
      BY <1>2, <1>7, <1>18, <3>1 DEF Lowest
    <3> QED BY <1>1, <2>1, <3>2 DEF Delivery, Place
  <2>4. f \in todo' <=> f \in todo
    BY <1>3, <1>18
  <2>5. f \in todo => ~(Lowest(f, todo)' /\ sent' > 0)
    <3>1. f \in FD /\ j \in FD /\ FD \subseteq Nat
      BY <2>1, FDFacts
    <3>2. f \in todo => ~Lowest(f, todo)
      BY <1>2, <1>7, <1>18, <3>1 DEF Lowest
    <3>3. todo' = todo \/ sent' = 0
      BY <1>3
    <3>4. todo' = todo => (Lowest(f, todo)' <=> Lowest(f, todo))
      BY DEF Lowest
    <3>5. ~(0 > 0)
      OBVIOUS
    <3> QED BY <3>2, <3>3, <3>4, <3>5
  <2>6. /\ Awaits(d) => Awaits(d)'
        /\ Settled(d) => Settled(d)'
    BY <1>3, <1>10, <2>2 DEF Awaits, Settled, AtLineEnd, OwnBetween, Reach
  <2> QED BY <2>3, <2>4, <2>5, <2>6 DEF Place
<1>19. Place(j)'
  <2>1. c = conn'[j]
    BY <1>3
  <2>2. CASE sent + 1 = LineLen
    <3>1. j \notin todo'
      BY <1>3, <2>2
    <3>2. AtLineEnd(c)'
      <4>1. Line.first + sent = Line.last
        BY <1>4, <2>2 DEF LineLen
      <4> QED BY <1>3, <1>4, <1>12, <1>13, <4>1 DEF AtLineEnd
    <3>3. OwnBetween(c, Reach(c), Len(log) + 1)'
      BY <1>2, <1>3, <1>13 DEF OwnBetween
    <3> QED BY <2>1, <3>1, <3>2, <3>3 DEF Place, Settled
  <2>3. CASE sent + 1 # LineLen
    <3>1. /\ todo' = todo /\ sent' = sent + 1 /\ sent' > 0
          /\ Line' = Line /\ LineLen' = LineLen
      BY <1>3, <1>4, <2>3 DEF Line, LineLen
    <3>2. Lowest(j, todo)' /\ j \in todo'
      BY <1>2, <1>7, <3>1 DEF Lowest
    <3>3. sent' < LineLen'
      BY <1>4, <1>8, <2>3, <3>1 DEF LineLen
    <3>4. stream'[c][Len(stream'[c])] = <<N, Line.first + sent' - 1>>
      BY <1>4, <1>13, <3>1
    <3>5. Partly(c)'
      BY <1>3, <1>11, <3>1, <3>3, <3>4 DEF Partly
    <3> QED BY <2>1, <3>1, <3>2, <3>5 DEF Place
  <2> QED BY <2>2, <2>3
<1> QED BY <1>16, <1>17, <1>18, <1>19 DEF Delivery

\* A recipient that is cut off, even in the middle of a line, takes nothing
\* from the others: the next one starts at the line's first unit.
LEMMA DeliveryFails ==
    ASSUME RInv, NEW j \in FD, SendFails(j)
    PROVE  Delivery'
<1>1. DInv /\ Delivery /\ UInv /\ Sending(j)
  BY OpenFacts DEF RInv, SendFails
<1>2. j \in todo /\ j \in Open /\ j # me /\ me \in Open /\ conn[j] \in Conns
  BY <1>1, SendingOpen
<1>3. /\ Drop(j) /\ sent' = 0 /\ todo' = todo \ {j}
      /\ UNCHANGED <<log, stream, joined, authed, me>>
  BY DEF SendFails, CutOff, sendUnchanged, history
<1>4. Open' = Open \ {j} /\ \A g \in Open' : conn'[g] = conn[g]
  BY <1>1, <1>2, <1>3, DropBegun
<1>5. ASSUME NEW c \in Conns PROVE InLog(c)' /\ WholeFor(c)'
  <2>1. InLog(c) /\ WholeFor(c)
    BY <1>1 DEF Delivery
  <2>2. UNCHANGED <<log, stream, joined>>
    BY <1>3
  <2>3. InLog(c)'
    BY <2>1, <2>2 DEF InLog
  <2>4. \A e, h : MayFollow(c, e, h)' <=> MayFollow(c, e, h)
    BY <2>2 DEF MayFollow, OwnBetween
  <2>5. WholeFor(c)'
    BY <2>1, <2>2, <2>4 DEF WholeFor, OwnBetween
  <2> QED BY <2>3, <2>5
<1>6. (todo # {} => Line.from = conn[me])' /\ (todo = {} => sent = 0)'
  BY <1>1, <1>2, <1>3, <1>4 DEF Delivery, Line
<1>7. ASSUME NEW f \in Open', authed'[f]
      PROVE  Place(f)'
  <2>1. f \in Open /\ authed[f] /\ conn'[f] = conn[f] /\ f # j
    BY <1>3, <1>4, <1>7
  <2>2. Place(f)
    BY <1>1, <2>1 DEF Delivery
  <2>3. f \in FD /\ j \in FD /\ FD \subseteq Nat
    BY <2>1, FDFacts
  <2>4. ~Lowest(f, todo)
    BY <1>1, <1>2, <2>1, <2>3 DEF Sending, Lowest
  <2>5. IF f \in todo THEN Awaits(conn[f]) ELSE Settled(conn[f])
    BY <2>2, <2>4 DEF Place
  <2>6. /\ Awaits(conn[f]) => Awaits(conn[f])'
        /\ Settled(conn[f]) => Settled(conn[f])'
    BY <1>3, <2>1 DEF Awaits, Settled, AtLineEnd, OwnBetween, Reach
  <2> QED BY <1>3, <2>1, <2>5, <2>6 DEF Place
<1> QED BY <1>5, <1>6, <1>7 DEF Delivery

LEMMA DeliveryInit == Init => Delivery
<1> SUFFICES ASSUME Init PROVE Delivery
  OBVIOUS
<1>1. Open = {} /\ todo = {} /\ sent = 0 /\ Len(log) = 0
  BY DEF Init, Open
<1>2. \A c \in Conns : stream[c] = <<>> /\ Len(stream[c]) = 0 /\ joined[c] = 0
  BY DEF Init
<1> QED BY <1>1, <1>2 DEF Delivery, InLog, WholeFor

\* What each step outside the broadcast leaves as it was.
LEMMA DeliveryOther ==
    ASSUME RInv,
           \/ UNCHANGED vars
           \/ ClientNext
           \/ Select \/ ScanDone \/ AcceptFails \/ Accept \/ AcceptTooHigh
           \/ BroadcastDone
           \/ \E f \in FD : RecvStart(f)
           \/ Recv \/ HandlerCloses \/ RecvNothing
    PROVE  Delivery'
<1>1. DInv /\ UInv
  BY OpenFacts DEF RInv
<1>2. CASE UNCHANGED vars \/ ClientNext \/ Select \/ ScanDone
  <2>1. UNCHANGED <<log, stream, joined, todo, sent, me, conn, authed>>
    BY <1>2 DEF vars, server, network, history, ClientNext, Connect, Arrive, Read, Quit,
                Reset, clientUnchanged, Select, ScanDone
  <2> QED BY <2>1, DeliverySame DEF Open
<1>3. CASE AcceptFails \/ AcceptTooHigh \/ Accept
  <2>1. /\ UNCHANGED <<log, stream, joined, todo, sent, me>> /\ pc = "scan"
        /\ \/ UNCHANGED <<conn, authed>>
           \/ \E f \in FD \ Open : /\ conn' = [conn EXCEPT ![f] = Head(backlog)]
                                   /\ authed' = [authed EXCEPT ![f] = FALSE]
    BY <1>3 DEF AcceptFails, AcceptTooHigh, Accept, Register, Free, Listening,
                acceptUnchanged, history
  <2>2. todo = {}
    BY <1>1, <2>1 DEF DInv, InHandler
  <2>3. conn \in [FD -> Conns \cup {NoConn}] /\ authed \in [FD -> BOOLEAN]
    BY <1>1 DEF DInv, TypeOK, ServerTypeOK
  <2>4. \A f \in Open' : authed'[f] => f \in Open /\ authed[f] /\ conn'[f] = conn[f]
    BY <2>1, <2>3 DEF Open
  <2> QED BY <2>1, <2>2, <2>4, DeliverySame
<1>4. CASE HandlerCloses
  <2>1. PICK f \in Open :
          /\ Drop(f) /\ todo = {}
          /\ UNCHANGED <<log, stream, joined, todo, sent, authed>>
    BY <1>1, <1>4, HandlerClosesFacts
  <2>2. Open' \subseteq Open /\ \A g \in Open' : conn'[g] = conn[g]
    BY <1>1, <2>1, DropBegun
  <2> QED BY <2>1, <2>2, DeliverySame
<1>6. CASE \/ \E f \in FD : RecvStart(f)
           \/ Recv \/ RecvNothing
  <2>1. UNCHANGED <<log, stream, joined, sent, authed, conn>>
    BY <1>6 DEF RecvStart, Recv, RecvNothing, Finish, recvUnchanged, network, history
  <2>2. todo = {} /\ todo' = {}
    <3>1. pc \in {"scan", "recv"}
      BY <1>6 DEF RecvStart, Serving, Recv, RecvNothing, ReadAll, Reading
    <3>2. todo = {}
      BY <1>1, <3>1 DEF DInv, InHandler
    <3> QED BY <1>6, <3>2 DEF RecvStart, Recv, RecvNothing, Finish
  <2> QED BY <2>1, <2>2, DeliverySame DEF Open
<1>5. CASE BroadcastDone
  <2>1. /\ UNCHANGED <<log, stream, joined, todo, sent, authed>> /\ todo = {}
        /\ pc = "broadcast" /\ (Drop(me) \/ UNCHANGED conn)
    BY <1>5 DEF BroadcastDone, history
  <2>2. me \in Open
    BY <1>1, <2>1 DEF DInv, DescriptorsAgree
  <2>3. Open' \subseteq Open /\ \A g \in Open' : conn'[g] = conn[g]
    BY <1>1, <2>1, <2>2, DropBegun DEF Open
  <2> QED BY <2>1, <2>3, DeliverySame
<1> QED BY <1>2, <1>3, <1>4, <1>5, <1>6

LEMMA RInvStep == RInv /\ [Next]_vars => RInv'
<1> SUFFICES ASSUME RInv, [Next]_vars PROVE RInv'
  OBVIOUS
<1>1. UInv'
  BY UInvStep DEF RInv
<1>2. Delivery'
  <2>1. CASE RecvAuth \/ RecvMessage
    BY <1>1, <2>1, DeliveryAuth, DeliveryMessage
  <2>2. CASE \E f \in FD : SendUnit(f) \/ SendFails(f)
    BY <1>1, <2>2, DeliverySend, DeliveryFails
  <2> QED BY <2>1, <2>2, DeliveryOther DEF Next, ServerNext, HandlerCloses
<1> QED BY <1>1, <1>2 DEF RInv

LEMMA RInvAlways == Spec => []RInv
<1>1. Init => RInv
  BY UInvInit, DeliveryInit DEF RInv
<1> QED BY <1>1, RInvStep, PTL DEF Spec

\* Every client is sent whole lines of the others, in the order of the log
\* from its authentication on, none skipped and none repeated, whoever else
\* is dropped while a line is sent.
THEOREM StreamSafe == Spec => []StreamWhole
<1>1. RInv => StreamWhole
  BY DEF RInv, Delivery, WholeFor, StreamWhole
<1> QED BY <1>1, RInvAlways, PTL

\* Except in a broadcast, each served client has been sent all that the
\* others said since it came.
THEOREM CaughtUpSafe == Spec => []CaughtUp
<1>1. ASSUME RInv PROVE CaughtUp
  <2>1. SUFFICES ASSUME pc \in {"select", "scan", "recv"}, NEW f \in Open, authed[f]
                 PROVE  CaughtUpConn(conn[f])
    BY DEF CaughtUp
  <2>2. todo = {}
    BY <1>1, <2>1, OpenFacts DEF RInv, DInv, InHandler
  <2>3. Settled(conn[f])
    BY <1>1, <2>1, <2>2 DEF RInv, Delivery, Place
  <2> QED BY <2>3 DEF Settled, AtLineEnd, Reach, CaughtUpConn
<1> QED BY <1>1, RInvAlways, PTL

-----------------------------------------------------------------------------
(* Induction over a stream.  The library's induction theorems take the     *)
(* property as an operator; here it is the set of those for which it holds.*)

\* A set of naturals with 0 and every successor has them all: if n were not
\* in it, adding 1 would map its part up to n into the same part without 0.
LEMMA NatSetInduction ==
    ASSUME NEW S \in SUBSET Nat, 0 \in S, \A n \in S : n + 1 \in S
    PROVE  S = Nat
<1> SUFFICES ASSUME NEW n \in Nat, n \notin S PROVE FALSE
  OBVIOUS
<1> DEFINE T == {x \in S : x <= n}
           U == T \ {0}
           f == [x \in T |-> x + 1]
<1>1. IsFiniteSet(T) /\ IsFiniteSet(U) /\ Cardinality(U) = Cardinality(T) - 1
  <2>1. T \in SUBSET Nat /\ \A x \in T : x <= n
    OBVIOUS
  <2>2. IsFiniteSet(T)
    BY <2>1, FS_BoundedSetOfNaturals
  <2>3. 0 \in T
    OBVIOUS
  <2> QED BY <2>2, <2>3, FS_RemoveElement
<1>2. f \in [T -> U]
  <2>1. \A x \in T : x + 1 \in U
    OBVIOUS
  <2> QED BY <2>1
<1>3. f \in Injection(T, U)
  <2>1. \A x, y \in T : f[x] = f[y] => x = y
    OBVIOUS
  <2> QED BY <1>2, <2>1 DEF Injection, IsInjective
<1>4. Cardinality(T) <= Cardinality(U)
  BY <1>1, <1>3, FS_Injection
<1>5. Cardinality(T) \in Nat
  BY <1>1, FS_CardinalityType
<1> QED BY <1>1, <1>4, <1>5

\* The function that LineEnds computes with, up to position k.
EndsStep(E, s, L, n) ==
    IF n = 0 THEN <<>>
    ELSE IF s[n] \in L THEN Append(E[n - 1], s[n][1]) ELSE E[n - 1]
EndsTo(s, L, k) == CHOOSE E : E = [n \in 0 .. k |-> EndsStep(E, s, L, n)]

LEMMA EndsExist ==
    ASSUME NEW s, NEW L, NEW k \in Nat
    PROVE  EndsTo(s, L, k) = [n \in 0 .. k |-> EndsStep(EndsTo(s, L, k), s, L, n)]
<1> DEFINE S == {j \in Nat : \E E : E = [n \in 0 .. j |-> EndsStep(E, s, L, n)]}
<1>1. 0 \in S
  <2> DEFINE E == [n \in 0 .. 0 |-> <<>>]
  <2>1. E = [n \in 0 .. 0 |-> EndsStep(E, s, L, n)]
    BY DEF EndsStep
  <2> HIDE DEF E
  <2> QED BY <2>1
<1>2. ASSUME NEW j \in S PROVE j + 1 \in S
  <2>1. PICK E : E = [n \in 0 .. j |-> EndsStep(E, s, L, n)]
    OBVIOUS
  <2> DEFINE F == [n \in 0 .. j + 1 |->
                     IF n \in 0 .. j THEN E[n] ELSE EndsStep(E, s, L, j + 1)]
  <2>2. ASSUME NEW n \in 0 .. j + 1 PROVE F[n] = EndsStep(F, s, L, n)
    <3>1. CASE n \in 0 .. j
      <4>1. F[n] = E[n] /\ E[n] = EndsStep(E, s, L, n)
        BY <2>1, <3>1
      <4>2. n # 0 => n - 1 \in 0 .. j /\ n - 1 \in 0 .. j + 1
        BY <3>1
      <4>3. n # 0 => F[n - 1] = E[n - 1]
        BY <4>2
      <4> QED BY <4>1, <4>3 DEF EndsStep
    <3>2. CASE n = j + 1
      <4>1. F[n] = EndsStep(E, s, L, n) /\ n # 0 /\ n - 1 = j
        BY <3>2
      <4>2. F[j] = E[j]
        OBVIOUS
      <4> QED BY <4>1, <4>2 DEF EndsStep
    <3> QED BY <3>1, <3>2
  <2>3. F = [n \in 0 .. j + 1 |-> EndsStep(F, s, L, n)]
    <3> DEFINE G == [n \in 0 .. j + 1 |-> EndsStep(F, s, L, n)]
    <3> SUFFICES F = G
      OBVIOUS
    <3>1. \A n \in 0 .. j + 1 : F[n] = G[n]
      BY <2>2
    <3> QED BY <3>1
  <2> HIDE DEF F
  <2> QED BY <2>3
<1> HIDE DEF S
<1>3. S = Nat
  <2>1. S \in SUBSET Nat
    BY DEF S
  <2> QED BY <1>1, <1>2, <2>1, NatSetInduction
<1>4. \E E : E = [n \in 0 .. k |-> EndsStep(E, s, L, n)]
  BY <1>3 DEF S
<1> QED BY <1>4 DEF EndsTo

\* Streams that agree up to m, the ends of lines included, have the same
\* lines up to m, whatever follows.
LEMMA EndsAgree ==
    ASSUME NEW s, NEW t, NEW L, NEW M, NEW k \in Nat, NEW j \in Nat, NEW m \in Nat,
           m <= k, m <= j,
           \A p \in 1 .. m : s[p] = t[p] /\ (s[p] \in L <=> s[p] \in M)
    PROVE  EndsTo(s, L, k)[m] = EndsTo(t, M, j)[m]
<1> DEFINE E == EndsTo(s, L, k)
           F == EndsTo(t, M, j)
           S == {n \in Nat : n <= m => E[n] = F[n]}
<1> HIDE DEF E, F
<1>1. /\ \A n \in 0 .. k : E[n] = EndsStep(E, s, L, n)
      /\ \A n \in 0 .. j : F[n] = EndsStep(F, t, M, n)
  BY EndsExist DEF E, F
<1>2. 0 \in S
  BY <1>1 DEF EndsStep
<1>3. ASSUME NEW n \in S PROVE n + 1 \in S
  <2>1. SUFFICES ASSUME n + 1 <= m PROVE E[n + 1] = F[n + 1]
    OBVIOUS
  <2>2. E[n] = F[n] /\ n + 1 \in 1 .. m /\ n + 1 \in 0 .. k /\ n + 1 \in 0 .. j
    BY <2>1
  <2>3. /\ E[n + 1] = EndsStep(E, s, L, n + 1)
        /\ F[n + 1] = EndsStep(F, t, M, n + 1)
        /\ n + 1 # 0 /\ n + 1 - 1 = n
    BY <1>1, <2>2
  <2>4. s[n + 1] = t[n + 1] /\ (s[n + 1] \in L <=> s[n + 1] \in M)
    BY <2>2
  <2> QED BY <2>2, <2>3, <2>4 DEF EndsStep
<1>4. S = Nat
  <2>1. S \in SUBSET Nat
    OBVIOUS
  <2> HIDE DEF S
  <2> QED BY <1>2, <1>3, <2>1, NatSetInduction
<1>5. m \in S
  BY <1>4
<1> QED BY <1>5 DEF E, F

LEMMA EndsNext ==
    ASSUME NEW s, NEW L, NEW k \in Nat, NEW n \in 0 .. k
    PROVE  EndsTo(s, L, k)[n] = EndsStep(EndsTo(s, L, k), s, L, n)
<1> DEFINE E == EndsTo(s, L, k)
<1>1. E = [i \in 0 .. k |-> EndsStep(E, s, L, i)]
  BY EndsExist
<1> HIDE DEF E
<1>2. E[n] = EndsStep(E, s, L, n)
  BY <1>1
<1> QED BY <1>2 DEF E

LEMMA LineEndsDef ==
    ASSUME NEW s
    PROVE  LineEnds(s) = EndsTo(s, LastUnits, Len(s))[Len(s)]
BY DEF LineEnds, EndsTo, EndsStep

\* What one more unit adds to the lines of a stream.
LEMMA LineEndsAppend ==
    ASSUME NEW s \in Seq(Nat \X Nat), NEW g \in Nat \X Nat
    PROVE  LineEnds(Append(s, g)) =
             IF g \in LastUnits THEN Append(LineEnds(s), g[1]) ELSE LineEnds(s)
<1> DEFINE t == Append(s, g)
           k == Len(s)
           E == EndsTo(t, LastUnits, k + 1)
<1>1. /\ k \in Nat /\ Len(t) = k + 1 /\ t[k + 1] = g
      /\ \A p \in 1 .. k : s[p] = t[p]
  BY AppendProperties, LenProperties
<1>2. EndsTo(s, LastUnits, k)[k] = E[k]
  <2>1. k + 1 \in Nat /\ k <= k /\ k <= k + 1
    BY <1>1
  <2>2. \A p \in 1 .. k : s[p] = t[p] /\ (s[p] \in LastUnits <=> s[p] \in LastUnits)
    BY <1>1
  <2>3. k \in Nat
    BY <1>1
  <2> PICK j \in Nat : j = k + 1
    BY <2>1
  <2> HIDE DEF t, k
  <2>4. EndsTo(s, LastUnits, k)[k] = EndsTo(t, LastUnits, j)[k]
    BY <2>1, <2>2, <2>3, EndsAgree
  <2> QED BY <2>4
<1>3. E[k + 1] = EndsStep(E, t, LastUnits, k + 1)
  <2>1. k + 1 \in Nat /\ k + 1 \in 0 .. k + 1
    BY <1>1
  <2> QED BY <2>1, EndsNext
<1>4. EndsStep(E, t, LastUnits, k + 1) =
        IF g \in LastUnits THEN Append(E[k], g[1]) ELSE E[k]
  BY <1>1 DEF EndsStep
<1>5. LineEnds(s) = E[k] /\ LineEnds(t) = E[k + 1]
  BY <1>1, <1>2, LineEndsDef
<1> QED BY <1>3, <1>4, <1>5

\* A line that is said later changes nothing in the lines heard so far.
LEMMA LineEndsKept ==
    ASSUME DInv, DInv', Longer, NEW c \in Conns, InLog(c), stream'[c] = stream[c]
    PROVE  LineEnds(stream[c])' = LineEnds(stream[c])
<1> DEFINE s == stream[c]
           k == Len(s)
           L == LastUnits
           M == LastUnits'
<1>1. k \in Nat /\ Len(log) \in Nat /\ \A p \in 1 .. k : s[p] \in Nat \X Nat
  BY StreamFacts
<1>2. log' \in Seq(Lines)
  BY DEF DInv, TypeOK, HistoryTypeOK
<1>3. Len(log') \in Nat
  BY <1>2, LenProperties
<1>4. ASSUME NEW p \in 1 .. k PROVE s[p] \in L <=> s[p] \in M
  <2>1. PICK n \in Nat, u \in Nat : s[p] = <<n, u>>
    BY <1>1
  <2>2. s[p][1] = n
    BY <2>1
  <2>3. n \in 1 .. Len(log) /\ n \in 1 .. Len(log') /\ log'[n] = log[n]
    BY <1>1, <1>3, <2>2 DEF InLog, Longer
  <2>4. <<n, u>> \in L <=> u = log[n].last
    BY <2>3 DEF LastUnits
  <2>5. <<n, u>> \in M <=> u = log'[n].last
    BY <2>3 DEF LastUnits
  <2> QED BY <2>1, <2>3, <2>4, <2>5
<1>5. EndsTo(s, L, k)[k] = EndsTo(s, M, k)[k]
  <2> HIDE DEF s, L, M
  <2>1. k <= k /\ \A p \in 1 .. k : s[p] = s[p] /\ (s[p] \in L <=> s[p] \in M)
    BY <1>1, <1>4
  <2> QED BY <1>1, <2>1, EndsAgree, SMTT(30)
<1>6. LineEnds(s) = EndsTo(s, L, k)[k]
  BY LineEndsDef
<1>7. LineEnds(s)' = EndsTo(s, M, k)[k]
  BY DEF LineEnds, EndsTo, EndsStep
<1> QED BY <1>5, <1>6, <1>7

-----------------------------------------------------------------------------
(* The fifth invariant, for the chat room that the server implements: its  *)
(* members are the connections of the open descriptors, and the last line  *)
(* that each has heard to the end is where the room says it is, also while *)
(* a part of the next one has been sent.                                   *)

HeardTo(c) ==
    IF LineEnds(stream[c]) = <<>> THEN joined[c]
    ELSE LineEnds(stream[c])[Len(LineEnds(stream[c]))]

\* A connection is closed by the server only together with its descriptor.
Lives == \A c \in Present : \E f \in Open : conn[f] = c

HearsAt(f, c) ==
    /\ HeardTo(c) <= Len(log)
    /\ IF f \in todo THEN HeardTo(c) < Len(log) /\ OwnBetween(c, HeardTo(c), Len(log))
       ELSE OwnBetween(c, HeardTo(c), Len(log) + 1)

Hears ==
    /\ \A c \in Conns : LineEnds(stream[c]) \in Seq(Nat)
    /\ \A f \in Open : authed[f] => HearsAt(f, conn[f])

RoomInv == RInv /\ Lives /\ Hears

LEMMA RoomFacts ==
    ASSUME RoomInv
    PROVE  /\ RInv /\ UInv /\ AInv /\ DInv /\ InOnePlace /\ Authenticated /\ Delivery
           /\ Lives /\ Hears
           /\ cl \in [Conns -> {"init", "open", "fin", "rst", "gone"}]
           /\ conn \in [FD -> Conns \cup {NoConn}]
           /\ backlog \in Seq(Conns) /\ Len(backlog) \in Nat
           /\ log \in Seq(Lines) /\ Len(log) \in Nat
           /\ proved \subseteq Conns /\ Present \subseteq proved
           /\ \A f \in Open : f \in FD /\ conn[f] \in Conns
           /\ \A i \in 1 .. Len(backlog) : backlog[i] \in Conns
<1>1. /\ RInv /\ UInv /\ AInv /\ DInv /\ InOnePlace /\ Authenticated /\ Delivery
      /\ Lives /\ Hears
  BY OpenFacts DEF RoomInv, RInv, UInv, AInv
<1>2. /\ cl \in [Conns -> {"init", "open", "fin", "rst", "gone"}]
      /\ conn \in [FD -> Conns \cup {NoConn}]
      /\ backlog \in Seq(Conns) /\ log \in Seq(Lines) /\ proved \subseteq Conns
  BY <1>1 DEF DInv, TypeOK, ServerTypeOK, NetworkTypeOK, HistoryTypeOK
<1>3. /\ Len(backlog) \in Nat /\ Len(log) \in Nat
      /\ \A i \in 1 .. Len(backlog) : backlog[i] \in Conns
  BY <1>2, LenProperties, ElementOfSeq
<1>4. Present \subseteq proved /\ \A f \in Open : f \in FD /\ conn[f] \in Conns
  BY <1>2 DEF Present, Open
<1> QED BY <1>1, <1>2, <1>3, <1>4

LEMMA LineEndsEmpty == LineEnds(<<>>) = <<>>
<1>1. EndsTo(<<>>, LastUnits, 0)[0] = <<>>
  BY EndsNext DEF EndsStep
<1>2. Len(<<>>) = 0
  BY EmptySeq
<1> QED BY <1>1, <1>2, LineEndsDef

LEMMA HeardToNat ==
    ASSUME RoomInv, NEW c \in Conns
    PROVE  HeardTo(c) \in Nat
<1>1. LineEnds(stream[c]) \in Seq(Nat) /\ joined[c] \in Nat
  BY RoomFacts, StreamFacts DEF Hears
<1> DEFINE h == LineEnds(stream[c])
<1>2. h # <<>> => Len(h) \in 1 .. Len(h)
  BY <1>1, EmptySeq
<1>3. h # <<>> => h[Len(h)] \in Nat
  BY <1>1, <1>2, ElementOfSeq
<1> QED BY <1>1, <1>3 DEF HeardTo

LEMMA RoomInit == Init => RoomInv
<1> SUFFICES ASSUME Init PROVE RoomInv
  OBVIOUS
<1>1. RInv
  BY UInvInit, DeliveryInit DEF RInv
<1>2. Open = {} /\ Present = {} /\ Len(backlog) = 0
  BY DEF Init, Open, Present
<1>3. \A c \in Conns : LineEnds(stream[c]) \in Seq(Nat)
  BY LineEndsEmpty, EmptySeq DEF Init
<1> QED BY <1>1, <1>2, <1>3 DEF RoomInv, Lives, Hears

-----------------------------------------------------------------------------
(* Who is in the room *)

\* close() of a registered connection takes it, and only it, out of the room.
LEMMA LivesDrop ==
    ASSUME RoomInv, NEW f \in Open, Drop(f), UNCHANGED <<backlog, proved>>
    PROVE  Lives' /\ Present' = Present \ {conn[f]}
<1>1. /\ conn' = [conn EXCEPT ![f] = NoConn]
      /\ cl' = [cl EXCEPT ![conn[f]] = "gone"]
      /\ Open' = Open \ {f} /\ \A g \in Open' : conn'[g] = conn[g]
  BY RoomFacts, DropBegun DEF Drop, Close
<1>2. conn[f] \in Conns /\ \A c \in Conns : cl'[c] = IF c = conn[f] THEN "gone" ELSE cl[c]
  BY <1>1, RoomFacts
<1>3. \A g \in Open' : conn[g] # conn[f] /\ conn[g] \in Conns
  BY <1>1, RoomFacts DEF InOnePlace
<1>4. Present' = Present \ {conn[f]}
  BY <1>2, RoomFacts DEF Present
<1>5. Lives'
  BY <1>1, <1>2, <1>3, <1>4, RoomFacts DEF Lives
<1> QED BY <1>4, <1>5

LEMMA LivesAccept ==
    ASSUME RoomInv, AcceptFails \/ Accept \/ AcceptTooHigh
    PROVE  Lives' /\ Present' = Present
<1>1. /\ proved' = proved /\ Listener \in read_list /\ pc = "scan"
  BY DEF AcceptFails, Accept, AcceptTooHigh, acceptUnchanged, history, Listening, Lowest
<1>2. backlog # <<>>
  BY <1>1, RoomFacts DEF DInv, DescriptorsAgree
<1>3. /\ Len(backlog) \in Nat \ {0}
      /\ Head(backlog) = backlog[1] /\ Head(backlog) \in Conns
      /\ Len(Tail(backlog)) = Len(backlog) - 1
      /\ \A i \in 1 .. Len(Tail(backlog)) :
           Tail(backlog)[i] = backlog[i + 1] /\ i + 1 \in 2 .. Len(backlog)
  BY <1>2, RoomFacts, HeadTailProperties, EmptySeq
<1>4. Head(backlog) \notin proved
  BY <1>3, RoomFacts DEF InOnePlace
<1>5. \A c \in Conns : c # Head(backlog) => cl'[c] = cl[c]
  BY <1>3, RoomFacts DEF AcceptFails, Accept, AcceptTooHigh, Close
<1>6. Present' = Present
  BY <1>1, <1>4, <1>5, RoomFacts DEF Present
<1>7. CASE Accept
  <2>1. PICK f \in Free : conn' = [conn EXCEPT ![f] = Head(backlog)]
    BY <1>7 DEF Accept
  <2>2. \A g \in Open : g \in Open' /\ conn'[g] = conn[g]
    BY <1>3, <2>1, RoomFacts DEF Free, Open
  <2> QED BY <1>6, <2>2, RoomFacts DEF Lives
<1>8. CASE AcceptFails \/ AcceptTooHigh
  BY <1>6, <1>8, RoomFacts DEF AcceptFails, AcceptTooHigh, Lives, Open
<1> QED BY <1>6, <1>7, <1>8

\* The clients and the network take nobody out of the room, nor in.
LEMMA LivesClient ==
    ASSUME RoomInv, ClientNext
    PROVE  Lives' /\ Present' = Present
<1>1. PICK c \in Conns : Connect(c) \/ Arrive(c) \/ Read(c) \/ Quit(c) \/ Reset(c)
  BY DEF ClientNext
<1>2. UNCHANGED <<conn, proved>> /\ Open' = Open
  BY <1>1 DEF Connect, Arrive, Read, Quit, Reset, clientUnchanged, server, history, Open
<1>3. \A e \in Conns : cl'[e] = "gone" <=> cl[e] = "gone"
  BY <1>1, RoomFacts DEF Connect, Arrive, Read, Quit, Reset
<1>4. Present' = Present
  BY <1>2, <1>3, RoomFacts DEF Present
<1> QED BY <1>2, <1>4, RoomFacts DEF Lives

-----------------------------------------------------------------------------
(* The refinement, step by step.                                           *)

LEMMA HearsSame ==
    ASSUME RoomInv, UNCHANGED <<log, stream, joined, todo>>,
           \A f \in Open' : authed'[f] => f \in Open /\ authed[f] /\ conn'[f] = conn[f]
    PROVE  Hears'
<1>1. \A c \in Conns : /\ LineEnds(stream[c])' = LineEnds(stream[c])
                       /\ HeardTo(c)' = HeardTo(c)
  BY DEF LineEnds, LastUnits, HeardTo
<1>2. ASSUME NEW f \in Open', authed'[f]
      PROVE  HearsAt(f, conn[f])'
  <2>1. f \in Open /\ authed[f] /\ conn'[f] = conn[f]
    BY <1>2
  <2> PICK c \in Conns : c = conn[f] /\ c = conn'[f]
    BY <2>1, RoomFacts
  <2>2. HeardTo(c)' = HeardTo(c)
    BY <1>1
  <2>3. HearsAt(f, c)
    BY <2>1, RoomFacts DEF Hears
  <2>4. HearsAt(f, c)'
    BY <2>2, <2>3 DEF HearsAt, OwnBetween
  <2> QED BY <2>4
<1> QED BY <1>1, <1>2, RoomFacts DEF Hears

\* The room sees a step only in its members, the log and what is heard.
LEMMA RoomSame ==
    ASSUME Present' = Present, UNCHANGED <<proved, log, stream, joined>>
    PROVE  UNCHANGED Chat!roomVars
<1>1. Past = proved \ Present /\ Past' = proved' \ Present'
  BY DEF Past, Present
<1>2. Said' = Said /\ Heard' = Heard
  BY DEF Said, Heard, LineEnds, LastUnits
<1> QED BY <1>1, <1>2 DEF Chat!roomVars

\* close() of a member's descriptor is the member's leaving.
LEMMA RoomDrop ==
    ASSUME RoomInv, NEW f \in Open, Drop(f), UNCHANGED <<backlog, proved, log, stream, joined>>
    PROVE  [Chat!RoomNext]_Chat!roomVars
<1>1. Present' = Present \ {conn[f]} /\ conn[f] \in Conns
  BY LivesDrop, RoomFacts
<1>2. CASE conn[f] \notin Present
  BY <1>1, <1>2, RoomSame
<1>3. CASE conn[f] \in Present
  <2>1. Past = proved \ Present /\ Past' = proved' \ Present'
    BY DEF Past, Present
  <2>2. Past' = Past \cup {conn[f]}
    BY <1>1, <1>3, <2>1, RoomFacts
  <2>3. Said' = Said /\ Heard' = Heard
    BY DEF Said, Heard, LineEnds, LastUnits
  <2>4. Chat!Leave(conn[f])
    BY <1>1, <1>3, <2>2, <2>3 DEF Chat!Leave
  <2> QED BY <1>1, <2>4 DEF Chat!RoomNext
<1> QED BY <1>2, <1>3

LEMMA SaidFacts ==
    ASSUME DInv
    PROVE  /\ Said \in Seq(Conns) /\ Len(Said) = Len(log)
           /\ \A n \in 1 .. Len(log) : Said[n] = log[n].from
<1>1. Len(log) \in Nat /\ \A n \in 1 .. Len(log) : log[n].from \in Conns
  BY UFacts
<1>2. Said \in [1 .. Len(log) -> Conns]
  BY <1>1 DEF Said
<1>3. Said \in Seq(Conns)
  BY <1>1, <1>2, SeqDef
<1>4. DOMAIN Said = 1 .. Len(Said) /\ Len(Said) \in Nat
  BY <1>3, LenProperties
<1>5. Len(Said) = Len(log)
  BY <1>1, <1>2, <1>4
<1> QED BY <1>3, <1>5 DEF Said

\* The last line that the room says c has heard.
LEMMA ReachedHeard ==
    ASSUME NEW c \in Conns
    PROVE  Chat!Reached(c) = HeardTo(c) /\ Heard[c] = LineEnds(stream[c])
BY DEF Chat!Reached, HeardTo, Heard

\* An accepted AUTH line is a member's joining: it hears from here on.
LEMMA RoomAuth ==
    ASSUME RoomInv, RInv', RecvAuth
    PROVE  Lives' /\ Hears' /\ [Chat!RoomNext]_Chat!roomVars
<1>1. Reading
  BY DEF RecvAuth, ReadAll
<1> PICK f \in Open : f = me /\ conn[f] = Author
  BY <1>1, RoomFacts, ReadingOpen DEF Author
<1>2. f \in Open /\ conn[f] \in Conns /\ todo = {} /\ authed \in [FD -> BOOLEAN]
  BY <1>1, RoomFacts, ReadingOpen, OpenFacts
<1> PICK c \in Conns : c = conn[f]
  BY <1>2
<1>3. /\ authed' = [authed EXCEPT ![f] = TRUE] /\ ~authed[f]
      /\ joined' = [joined EXCEPT ![c] = Len(log)]
      /\ proved' = proved \cup {c}
      /\ todo' = {} /\ UNCHANGED <<log, stream, conn, cl, backlog>>
  BY DEF RecvAuth, Finish, recvUnchanged
<1>4. c \notin proved /\ stream[c] = <<>> /\ joined \in [Conns -> Nat]
  BY <1>2, <1>3, RoomFacts, OpenFacts, StreamFacts
<1>5. cl[c] # "gone" /\ Open' = Open
  BY <1>2, <1>3, RoomFacts DEF InOnePlace, Connected, Open
<1>6. Present' = Present \cup {c} /\ Past' = Past
  BY <1>3, <1>4, <1>5 DEF Present, Past
<1>7. Said' = Said /\ Heard' = Heard
  BY <1>3 DEF Said, Heard, LineEnds, LastUnits
<1>8. Lives'
  BY <1>2, <1>3, <1>5, <1>6, RoomFacts DEF Lives
<1>9. Chat!Join(c)
  <2>1. c \notin Present \cup Past
    BY <1>4 DEF Present, Past
  <2>2. joined' = [joined EXCEPT ![c] = Len(Said)]
    BY <1>3, RoomFacts, SaidFacts
  <2> QED BY <1>6, <1>7, <2>1, <2>2 DEF Chat!Join
<1>10. \A d \in Conns : LineEnds(stream[d])' = LineEnds(stream[d])
  BY <1>3 DEF LineEnds, LastUnits
<1>11. ASSUME NEW g \in Open', authed'[g]
       PROVE  HearsAt(g, conn[g])'
  <2>1. g \in Open /\ g \in FD /\ conn[g] \in Conns
    BY <1>5, RoomFacts
  <2> PICK d \in Conns : d = conn[g] /\ d = conn'[g]
    BY <1>3, <2>1
  <2>2. CASE g = f
    <3>1. stream'[d] = <<>> /\ d = c
      BY <1>3, <1>4, <2>2
    <3>2. LineEnds(stream[d])' = <<>>
      BY <1>4, <1>10, <3>1, LineEndsEmpty
    <3>3. joined'[d] = Len(log)
      BY <1>3, <1>4, <3>1
    <3>4. HeardTo(d)' = Len(log) /\ Len(log) \in Nat
      BY <3>2, <3>3, RoomFacts DEF HeardTo
    <3>5. HearsAt(g, d)'
      BY <1>3, <3>4 DEF HearsAt, OwnBetween
    <3> QED BY <3>5
  <2>3. CASE g # f
    <3>1. d # c /\ authed[g]
      BY <1>2, <1>3, <1>11, <2>1, <2>3, RoomFacts DEF InOnePlace
    <3>2. HearsAt(g, d)
      BY <2>1, <3>1, RoomFacts DEF Hears
    <3>3. joined'[d] = joined[d]
      BY <1>3, <1>4, <3>1
    <3>4. HeardTo(d)' = HeardTo(d)
      BY <1>10, <3>3 DEF HeardTo
    <3>5. HearsAt(g, d)'
      BY <1>2, <1>3, <3>2, <3>4 DEF HearsAt, OwnBetween
    <3> QED BY <3>5
  <2> QED BY <2>2, <2>3
<1>12. Hears'
  BY <1>3, <1>10, <1>11, RoomFacts DEF Hears
<1> QED BY <1>8, <1>9, <1>12 DEF Chat!RoomNext

\* A line read is a line said, when nobody in the room has one to hear.
LEMMA RoomMessage ==
    ASSUME RoomInv, RInv', RecvMessage
    PROVE  Lives' /\ Hears' /\ [Chat!RoomNext]_Chat!roomVars
<1> DEFINE N == Len(log)
<1>1. Reading
  BY DEF RecvMessage, ReadAll
<1> PICK f \in Open : f = me /\ conn[f] = Author
  BY <1>1, RoomFacts, ReadingOpen DEF Author
<1>2. f \in Open /\ conn[f] \in Conns /\ todo = {}
  BY <1>1, RoomFacts, ReadingOpen
<1> PICK c \in Conns : c = conn[f]
  BY <1>2
<1>3. /\ log' = Append(log, LineRead(c)) /\ authed[f]
      /\ todo' = Recipients(f)
      /\ UNCHANGED <<authed, joined, stream, conn, cl, backlog, proved>>
  BY DEF RecvMessage, Finish, recvUnchanged
<1>4. log \in Seq(Lines) /\ N \in Nat
  BY RoomFacts, UFacts
<1>5. LineRead(c) \in Lines /\ LineRead(c).from = c
  BY <1>1, RoomFacts, LineReadFacts
<1>6. /\ Len(log') = N + 1
      /\ \A n \in 1 .. N : log'[n] = log[n]
      /\ log'[N + 1].from = c
  BY <1>3, <1>4, <1>5, AppendProperties
<1>7. Present' = Present /\ Past' = Past /\ Open' = Open
  BY <1>3 DEF Present, Past, Open
<1>8. Lives'
  BY <1>3, <1>7, RoomFacts DEF Lives
<1>9. DInv' /\ Longer
  BY <1>4, <1>6 DEF RInv, UInv, AInv, Longer
<1>10. ASSUME NEW d \in Conns
       PROVE  LineEnds(stream[d])' = LineEnds(stream[d]) /\ HeardTo(d)' = HeardTo(d)
  <2>1. LineEnds(stream[d])' = LineEnds(stream[d])
    BY <1>3, <1>9, RoomFacts, LineEndsKept DEF Delivery
  <2> QED BY <1>3, <2>1 DEF HeardTo
<1>11. Heard' = Heard
  BY <1>10 DEF Heard
<1>12. Said' = Append(Said, c)
  <2>1. /\ Said \in Seq(Conns) /\ Len(Said) = N
        /\ \A n \in 1 .. N : Said[n] = log[n].from
    BY RoomFacts, SaidFacts
  <2>2. /\ Append(Said, c) \in Seq(Conns) /\ Len(Append(Said, c)) = N + 1
        /\ \A n \in 1 .. N : Append(Said, c)[n] = Said[n]
        /\ Append(Said, c)[N + 1] = c
    BY <2>1, AppendProperties
  <2>3. \A n \in 1 .. N + 1 : n \in 1 .. N \/ n = N + 1
    BY <1>4
  <2>4. \A n \in 1 .. N + 1 : log'[n].from = Append(Said, c)[n]
    BY <1>6, <2>1, <2>2, <2>3
  <2>5. Said' = [n \in 1 .. N + 1 |-> log'[n].from]
    BY <1>6 DEF Said
  <2>6. Append(Said, c) \in [1 .. N + 1 -> Conns]
    BY <2>2, LenProperties
  <2> HIDE DEF N
  <2> QED BY <2>4, <2>5, <2>6
<1>13. ASSUME NEW d \in Present
       PROVE  Chat!Settled(d)
  <2>1. PICK g \in Open : conn[g] = d
    BY RoomFacts DEF Lives
  <2>2. d \in Conns /\ authed[g]
    BY <2>1, RoomFacts DEF Authenticated
  <2>3. OwnBetween(d, HeardTo(d), N + 1) /\ HeardTo(d) \in Nat
    <3>1. HearsAt(g, d)
      BY <2>1, <2>2, RoomFacts DEF Hears
    <3> QED BY <1>2, <2>2, <3>1, HeardToNat DEF HearsAt
  <2>4. \A n \in HeardTo(d) + 1 .. N : Said[n] = d
    <3>1. \A n \in HeardTo(d) + 1 .. N : n \in 1 .. N /\ n \in HeardTo(d) + 1 .. N + 1 - 1
      BY <1>4, <2>3
    <3>2. \A n \in HeardTo(d) + 1 .. N : log[n].from = d
      BY <2>3, <3>1 DEF OwnBetween
    <3> QED BY <3>1, <3>2, RoomFacts, SaidFacts
  <2> QED BY <2>2, <2>4, RoomFacts, SaidFacts, ReachedHeard DEF Chat!Settled
<1>14. Chat!Say(c)
  <2>1. c \in Present
    BY <1>2, <1>3, RoomFacts DEF Authenticated, InOnePlace, Connected, Present
  <2> QED BY <1>3, <1>7, <1>11, <1>12, <1>13, <2>1 DEF Chat!Say
<1>15. ASSUME NEW g \in Open', authed'[g]
       PROVE  HearsAt(g, conn[g])'
  <2>1. g \in Open /\ authed[g]
    BY <1>3, <1>7, <1>15
  <2> PICK d \in Conns : d = conn[g] /\ d = conn'[g]
    BY <1>3, <2>1, RoomFacts
  <2>2. /\ HeardTo(d) \in Nat /\ HeardTo(d) <= N /\ HeardTo(d)' = HeardTo(d)
        /\ \A k \in HeardTo(d) + 1 .. N : log[k].from = d
    <3>1. HearsAt(g, d)
      BY <2>1, RoomFacts DEF Hears
    <3> QED BY <1>2, <1>4, <1>10, <3>1, HeardToNat DEF HearsAt, OwnBetween
  <2>3. HeardTo(d)' <= Len(log') /\ HeardTo(d)' < Len(log')
    BY <1>4, <1>6, <2>2
  <2>4. \A k \in HeardTo(d) + 1 .. N : log'[k].from = d
    BY <1>4, <1>6, <2>2
  <2>5. OwnBetween(d, HeardTo(d), Len(log))'
    BY <1>4, <1>6, <2>2, <2>4 DEF OwnBetween
  <2>6. CASE g = f
    <3>1. g \notin todo'
      BY <1>3, <2>6 DEF Recipients
    <3>2. log'[N + 1].from = d
      BY <1>6, <2>6
    <3>3. \A k \in HeardTo(d) + 1 .. N + 1 : k \in HeardTo(d) + 1 .. N \/ k = N + 1
      BY <1>4, <2>2
    <3>4. \A k \in HeardTo(d) + 1 .. N + 1 : log'[k].from = d
      BY <2>4, <3>2, <3>3
    <3>5. OwnBetween(d, HeardTo(d), Len(log) + 1)'
      BY <1>4, <1>6, <2>2, <3>4 DEF OwnBetween
    <3>6. HearsAt(g, d)'
      BY <2>3, <3>1, <3>5 DEF HearsAt
    <3> QED BY <3>6
  <2>7. CASE g # f
    <3>1. g \in list /\ g <= max_set /\ g # Listener
      BY <2>1, FDFacts, RoomFacts DEF DInv, DescriptorsAgree
    <3>2. g \in todo'
      BY <1>3, <2>1, <2>7, <3>1 DEF Recipients
    <3>3. HearsAt(g, d)'
      BY <2>3, <2>5, <3>2 DEF HearsAt
    <3> QED BY <3>3
  <2> QED BY <2>6, <2>7
<1>16. Hears'
  BY <1>3, <1>10, <1>15, RoomFacts DEF Hears
<1> QED BY <1>8, <1>14, <1>16 DEF Chat!RoomNext

\* A line is heard when its last unit is sent, and not before.
LEMMA RoomSend ==
    ASSUME RoomInv, RInv', NEW j \in FD, SendUnit(j)
    PROVE  Lives' /\ Hears' /\ [Chat!RoomNext]_Chat!roomVars
<1> DEFINE N == Len(log)
           g == <<N, Line.first + sent>>
<1>1. Sending(j)
  BY DEF SendUnit
<1>2. /\ j \in todo /\ j \in Open /\ j # me /\ me \in Open
      /\ conn[j] \in Conns /\ N \in Nat \ {0} /\ Line \in Lines
  BY <1>1, RoomFacts, SendingOpen
<1> PICK c \in Conns : c = conn[j]
  BY <1>2
<1>3. /\ stream' = [stream EXCEPT ![c] = Append(@, g)]
      /\ UNCHANGED <<log, joined, conn, cl, authed, backlog, proved>>
      /\ \/ sent + 1 = LineLen /\ todo' = todo \ {j}
         \/ sent + 1 # LineLen /\ todo' = todo
  BY DEF SendUnit, sendUnchanged, history
<1>4. /\ Line.first \in Nat /\ Line.last \in Nat /\ Line = log[N] /\ sent \in Nat
      /\ stream[c] \in Seq(Nat \X Nat)
  BY <1>2, RoomFacts, StreamFacts DEF Lines, Line
<1>5. authed[j] /\ HearsAt(j, c) /\ LineEnds(stream[c]) \in Seq(Nat)
  BY <1>2, RoomFacts DEF AInv, Served, Hears
<1>6. /\ HeardTo(c) \in Nat /\ HeardTo(c) < N /\ OwnBetween(c, HeardTo(c), N)
  BY <1>2, <1>5, HeardToNat DEF HearsAt
<1>7. log[N].from # c
  <2>1. Line.from = conn[me] /\ conn[me] # conn[j]
    BY <1>2, RoomFacts DEF Delivery, InOnePlace
  <2> QED BY <1>4, <2>1
<1>8. /\ stream'[c] = Append(stream[c], g)
      /\ \A d \in Conns : d # c => stream'[d] = stream[d]
  BY <1>3, RoomFacts, StreamFacts
<1>9. g \in LastUnits <=> sent + 1 = LineLen
  <2>1. N \in 1 .. N
    BY <1>2
  <2>2. g \in LastUnits <=> Line.first + sent = Line.last
    BY <1>4, <2>1 DEF LastUnits
  <2>4. LineLen = Line.last + 1 - Line.first
    BY DEF LineLen
  <2> PICK a \in Nat : a = Line.first
    BY <1>4
  <2> PICK b \in Nat : b = Line.last
    BY <1>4
  <2> PICK k \in Nat : k = sent
    BY <1>4
  <2>5. a + k = b <=> k + 1 = b + 1 - a
    OBVIOUS
  <2>6. (Line.first + sent = Line.last) <=> (sent + 1 = Line.last + 1 - Line.first)
    BY <2>5
  <2> QED BY <2>2, <2>4, <2>6
<1>10. LineEnds(stream[c])' =
         IF sent + 1 = LineLen THEN Append(LineEnds(stream[c]), N) ELSE LineEnds(stream[c])
  <2>1. g \in Nat \X Nat /\ g[1] = N
    BY <1>2, <1>4
  <2>2. LineEnds(Append(stream[c], g)) =
          IF g \in LastUnits THEN Append(LineEnds(stream[c]), N) ELSE LineEnds(stream[c])
    BY <1>4, <2>1, LineEndsAppend
  <2>3. LastUnits' = LastUnits
    BY <1>3 DEF LastUnits
  <2>4. stream'[c] = Append(stream[c], g)
    BY <1>8
  <2> PICK t : t = stream'[c] /\ t = Append(stream[c], g)
    BY <2>4
  <2>5. LineEnds(stream[c])' = LineEnds(t)
    BY <2>3 DEF LineEnds
  <2> QED BY <1>9, <2>2, <2>5
<1>11. \A d \in Conns : d # c => /\ LineEnds(stream[d])' = LineEnds(stream[d])
                                 /\ HeardTo(d)' = HeardTo(d)
  <2> SUFFICES ASSUME NEW d \in Conns, d # c
               PROVE  /\ LineEnds(stream[d])' = LineEnds(stream[d])
                      /\ HeardTo(d)' = HeardTo(d)
    OBVIOUS
  <2>1. LastUnits' = LastUnits /\ joined' = joined
    BY <1>3 DEF LastUnits
  <2>2. stream'[d] = stream[d]
    BY <1>8
  <2> PICK t : t = stream'[d] /\ t = stream[d]
    BY <2>2
  <2>3. LineEnds(stream[d])' = LineEnds(t)
    BY <2>1 DEF LineEnds
  <2>4. LineEnds(stream[d])' = LineEnds(stream[d])
    BY <2>3
  <2> QED BY <2>1, <2>4 DEF HeardTo
<1>12. Present' = Present /\ Past' = Past /\ Open' = Open /\ Said' = Said
  BY <1>3 DEF Present, Past, Open, Said
<1>13. Lives'
  BY <1>3, <1>12, RoomFacts DEF Lives
<1>14. \A d \in Conns : LineEnds(stream[d])' \in Seq(Nat)
  <2>1. LineEnds(stream[c])' \in Seq(Nat)
    BY <1>2, <1>5, <1>10, AppendProperties
  <2> QED BY <1>11, <2>1, RoomFacts DEF Hears
<1>15. ASSUME NEW f \in Open', authed'[f], f # j
       PROVE  HearsAt(f, conn[f])'
  <2>1. f \in Open /\ authed[f]
    BY <1>3, <1>12, <1>15
  <2> PICK d \in Conns : d = conn[f] /\ d = conn'[f]
    BY <1>3, <2>1, RoomFacts
  <2>2. d # c /\ HearsAt(f, d)
    BY <1>2, <1>15, <2>1, RoomFacts DEF Hears, InOnePlace
  <2>3. f \in todo' <=> f \in todo
    BY <1>3, <1>15
  <2>4. HearsAt(f, d)'
    BY <1>3, <1>11, <2>2, <2>3 DEF HearsAt, OwnBetween
  <2> QED BY <2>4
<1>16. CASE sent + 1 = LineLen
  <2>1. LineEnds(stream[c])' = Append(LineEnds(stream[c]), N)
    BY <1>10, <1>16
  <2>2. HeardTo(c)' = N
    <3>1. /\ Len(Append(LineEnds(stream[c]), N)) = Len(LineEnds(stream[c])) + 1
          /\ Append(LineEnds(stream[c]), N)[Len(LineEnds(stream[c])) + 1] = N
          /\ Append(LineEnds(stream[c]), N) # <<>>
      BY <1>2, <1>5, AppendProperties
    <3> QED BY <2>1, <3>1 DEF HeardTo
  <2>3. HearsAt(j, c)'
    <3>1. j \notin todo'
      BY <1>3, <1>16
    <3> QED BY <1>2, <1>3, <2>2, <3>1 DEF HearsAt, OwnBetween
  <2>4. Hears'
    BY <1>3, <1>14, <1>15, <2>3 DEF Hears
  <2>5. Heard' = [Heard EXCEPT ![c] = Append(@, N)]
    BY <1>11, <2>1 DEF Heard
  <2>6. Chat!Hear(c)
    <3>1. /\ Chat!Reached(c) = HeardTo(c) /\ Len(Said) = N
          /\ \A n \in 1 .. N : Said[n] = log[n].from
      BY RoomFacts, SaidFacts, ReachedHeard
    <3>2. N \in Chat!Reached(c) + 1 .. Len(Said)
      BY <1>2, <1>6, <3>1
    <3>3. c \in Present
      BY <1>2, <1>5, RoomFacts DEF Authenticated, InOnePlace, Connected, Present
    <3>4. Said[N] # c
      BY <1>2, <1>7, <3>1
    <3>5. \A m \in Chat!Reached(c) + 1 .. N - 1 : Said[m] = c
      <4>1. \A m \in HeardTo(c) + 1 .. N - 1 : m \in 1 .. N /\ log[m].from = c
        BY <1>2, <1>6 DEF OwnBetween
      <4> QED BY <3>1, <4>1
    <3> QED BY <1>3, <1>12, <2>5, <3>2, <3>3, <3>4, <3>5 DEF Chat!Hear
  <2> QED BY <1>13, <2>4, <2>6 DEF Chat!RoomNext
<1>17. CASE sent + 1 # LineLen
  <2>1. LineEnds(stream[c])' = LineEnds(stream[c]) /\ todo' = todo
    BY <1>3, <1>10, <1>17
  <2>2. HeardTo(c)' = HeardTo(c)
    BY <1>3, <2>1 DEF HeardTo
  <2>3. HearsAt(j, c)'
    BY <1>3, <1>5, <2>1, <2>2 DEF HearsAt, OwnBetween
  <2>4. Hears'
    BY <1>3, <1>14, <1>15, <2>3 DEF Hears
  <2>5. Heard' = Heard
    BY <1>11, <2>1 DEF Heard
  <2> QED BY <1>3, <1>12, <1>13, <2>4, <2>5 DEF Chat!roomVars
<1> QED BY <1>16, <1>17

\* All the other steps are a member's leaving, or nothing to the room.
LEMMA RoomOther ==
    ASSUME RoomInv,
           \/ UNCHANGED vars
           \/ ClientNext
           \/ Select \/ ScanDone \/ AcceptFails \/ Accept \/ AcceptTooHigh
           \/ BroadcastDone
           \/ \E f \in FD : RecvStart(f) \/ SendFails(f)
           \/ Recv \/ HandlerCloses \/ RecvNothing
    PROVE  Lives' /\ Hears' /\ [Chat!RoomNext]_Chat!roomVars
<1>1. CASE UNCHANGED vars \/ Select \/ ScanDone
  <2>1. UNCHANGED <<log, stream, joined, todo, conn, authed, cl, backlog, proved>>
    BY <1>1 DEF vars, server, network, history, Select, ScanDone
  <2>2. Lives' /\ Present' = Present
    BY <2>1, RoomFacts DEF Lives, Present, Open
  <2>3. Hears'
    BY <2>1, HearsSame DEF Open
  <2> QED BY <2>1, <2>2, <2>3, RoomSame
<1>2. CASE ClientNext
  <2>1. UNCHANGED <<log, stream, joined, todo, conn, authed, proved>>
    BY <1>2 DEF server, history, ClientNext, Connect, Arrive, Read, Quit, Reset, clientUnchanged
  <2>2. Hears'
    BY <2>1, HearsSame DEF Open
  <2> QED BY <1>2, <2>1, <2>2, LivesClient, RoomSame
<1>3. CASE AcceptFails \/ Accept \/ AcceptTooHigh
  <2>1. /\ UNCHANGED <<log, stream, joined, todo, proved>>
        /\ \/ UNCHANGED <<conn, authed>>
           \/ \E f \in FD \ Open : /\ conn' = [conn EXCEPT ![f] = Head(backlog)]
                                   /\ authed' = [authed EXCEPT ![f] = FALSE]
    BY <1>3 DEF AcceptFails, AcceptTooHigh, Accept, Register, Free, Listening,
                acceptUnchanged, history
  <2>2. conn \in [FD -> Conns \cup {NoConn}] /\ authed \in [FD -> BOOLEAN]
    BY RoomFacts, OpenFacts
  <2>3. \A f \in Open' : authed'[f] => f \in Open /\ authed[f] /\ conn'[f] = conn[f]
    BY <2>1, <2>2 DEF Open
  <2>4. Hears'
    BY <2>1, <2>3, HearsSame
  <2> QED BY <1>3, <2>1, <2>4, LivesAccept, RoomSame
<1>4. ASSUME NEW f \in Open, Drop(f), UNCHANGED <<log, stream, joined, authed, backlog, proved>>,
             todo' = todo \ {f}
      PROVE  Lives' /\ Hears' /\ [Chat!RoomNext]_Chat!roomVars
  <2>1. Open' = Open \ {f} /\ \A h \in Open' : conn'[h] = conn[h]
    BY <1>4, RoomFacts, DropBegun
  <2>2. ASSUME NEW h \in Open', authed'[h] PROVE HearsAt(h, conn[h])'
    <3>1. h \in Open /\ authed[h] /\ h # f /\ conn'[h] = conn[h]
      BY <1>4, <2>1, <2>2
    <3> PICK d \in Conns : d = conn[h] /\ d = conn'[h]
      BY <3>1, RoomFacts
    <3>2. HearsAt(h, d) /\ (h \in todo' <=> h \in todo)
      BY <1>4, <3>1, RoomFacts DEF Hears
    <3>3. HeardTo(d)' = HeardTo(d)
      BY <1>4 DEF HeardTo, LineEnds, LastUnits
    <3>4. HearsAt(h, d)'
      BY <1>4, <3>2, <3>3 DEF HearsAt, OwnBetween
    <3> QED BY <3>4
  <2>3. \A c \in Conns : LineEnds(stream[c])' = LineEnds(stream[c])
    BY <1>4 DEF LineEnds, LastUnits
  <2>4. Hears'
    BY <1>4, <2>2, <2>3, RoomFacts DEF Hears
  <2> QED BY <1>4, <2>4, LivesDrop, RoomDrop
<1>5. CASE BroadcastDone
  <2>1. /\ UNCHANGED <<log, stream, joined, todo, authed, backlog, proved>>
        /\ todo = {} /\ pc = "broadcast" /\ (Drop(me) \/ UNCHANGED <<conn, cl>>)
    BY <1>5 DEF BroadcastDone, history
  <2>2. me \in Open
    BY <2>1, RoomFacts DEF DInv, DescriptorsAgree
  <2>3. CASE Drop(me)
    BY <1>4, <2>1, <2>2, <2>3
  <2>4. CASE UNCHANGED <<conn, cl>>
    <3>1. Lives' /\ Present' = Present
      BY <2>1, <2>4, RoomFacts DEF Lives, Present, Open
    <3>2. Hears'
      BY <2>1, <2>4, HearsSame DEF Open
    <3> QED BY <2>1, <3>1, <3>2, RoomSame
  <2> QED BY <2>1, <2>3, <2>4
<1>6. CASE HandlerCloses
  <2>1. PICK f \in Open :
          /\ Drop(f) /\ todo = {}
          /\ UNCHANGED <<log, stream, joined, authed, backlog, proved, todo>>
    BY <1>6, RoomFacts, HandlerClosesFacts
  <2> QED BY <1>4, <2>1
<1>7. CASE \/ \E f \in FD : RecvStart(f)
           \/ Recv \/ RecvNothing
  <2>1. UNCHANGED <<log, stream, joined, authed, backlog, proved, conn, cl>>
    BY <1>7 DEF RecvStart, Recv, RecvNothing, Finish, recvUnchanged, network, history
  <2>2. todo' = todo
    <3>1. pc \in {"scan", "recv"}
      BY <1>7 DEF RecvStart, Serving, Recv, RecvNothing, ReadAll, Reading
    <3>2. todo = {}
      BY <3>1, RoomFacts DEF DInv, InHandler
    <3> QED BY <1>7, <3>2 DEF RecvStart, Recv, RecvNothing, Finish
  <2>3. Lives' /\ Present' = Present
    BY <2>1, RoomFacts DEF Lives, Present, Open
  <2>4. Hears'
    BY <2>1, <2>2, HearsSame DEF Open
  <2> QED BY <2>1, <2>3, <2>4, RoomSame
<1>8. ASSUME NEW f \in FD, SendFails(f)
      PROVE  Lives' /\ Hears' /\ [Chat!RoomNext]_Chat!roomVars
  <2>1. /\ Sending(f) /\ Drop(f) /\ todo' = todo \ {f}
        /\ UNCHANGED <<log, stream, joined, authed, backlog, proved>>
    BY <1>8 DEF SendFails, CutOff, sendUnchanged, history
  <2>2. f \in Open
    BY <2>1, RoomFacts, SendingOpen
  <2> QED BY <1>4, <2>1, <2>2
<1> QED BY <1>1, <1>2, <1>3, <1>5, <1>6, <1>7, <1>8

LEMMA RoomStep == RoomInv /\ [Next]_vars => RoomInv' /\ [Chat!RoomNext]_Chat!roomVars
<1> SUFFICES ASSUME RoomInv, [Next]_vars
             PROVE  RoomInv' /\ [Chat!RoomNext]_Chat!roomVars
  OBVIOUS
<1>1. RInv'
  BY RInvStep DEF RoomInv
<1>2. Lives' /\ Hears' /\ [Chat!RoomNext]_Chat!roomVars
  <2>1. CASE RecvAuth \/ RecvMessage
    BY <1>1, <2>1, RoomAuth, RoomMessage
  <2>2. CASE \E f \in FD : SendUnit(f)
    BY <1>1, <2>2, RoomSend
  <2> QED BY <2>1, <2>2, RoomOther DEF Next, ServerNext, HandlerCloses
<1> QED BY <1>1, <1>2 DEF RoomInv

\* The server of chat_room_serverV2.c implements the chat room: every step
\* of it is a joining, a line said, a line heard whole and in order, a
\* leaving, or nothing to the room.
THEOREM RoomImplemented == Spec => ImplementsRoom
<1>1. Init => Chat!RoomInit
  <2> SUFFICES ASSUME Init PROVE Chat!RoomInit
    OBVIOUS
  <2>1. Present = {} /\ Past = {} /\ joined = [c \in Conns |-> 0]
    BY DEF Init, Present, Past
  <2>2. Said = <<>>
    <3>1. Said \in Seq(Conns) /\ Len(Said) = 0
      BY DInvInit, SaidFacts DEF Init
    <3> QED BY <3>1, EmptySeq
  <2>3. Heard = [c \in Conns |-> <<>>]
    BY LineEndsEmpty DEF Init, Heard
  <2> QED BY <2>1, <2>2, <2>3 DEF Chat!RoomInit
<1> QED BY <1>1, RoomInit, RoomStep, PTL DEF Spec, ImplementsRoom, Chat!RoomSpec
=============================================================================
