------------------------- MODULE TimeService_proofs -------------------------
(***************************************************************************)
(* The reader for every INITIAL_BUF_SIZE and MAX_MSG_SIZE, and the time    *)
(* service for any number of clients and any length of the answer.         *)
(*                                                                         *)
(* First, RecvBuffer: with any peer, the reader stays inside its buffer,   *)
(* never asks recv() for nothing, and shows only whole messages.  Then,    *)
(* TimeService: the server is one of the peers that RecvBuffer allows, so  *)
(* that what is proved of the reader with any peer holds of the reader     *)
(* with the time server.                                                   *)
(***************************************************************************)
EXTENDS TimeService, SequenceTheorems, TLAPS

-----------------------------------------------------------------------------
(* The reader with any peer                                                *)

\* No byte is lost between the peer and the buffer while the client reads.
Accounted ==
    /\ total + arrived = sent
    /\ pc \in {"end", "done"} => arrived = 0 /\ peer = "fin"
    /\ pc = "malloc" => cap = 0 /\ total = 0

\* The inductive invariant: LeavesRoom is what makes a 0 of recv() mean the
\* end of the stream, Accounted what makes that end the end of the message.
IInv == TypeOK /\ LeavesRoom /\ Accounted /\ RefusedAtLimit

\* Doubling makes room and stays within the limit.
LEMMA Grows ==
    ASSUME cap \in 1 .. MaxMsg, cap < MaxMsg
    PROVE  NewCap \in 0 .. MaxMsg /\ cap < NewCap
BY ConstantsAssumption DEF ConstantsAssumption, NewCap

LEMMA InitIInv == Init => IInv
BY ConstantsAssumption DEF ConstantsAssumption, Init, IInv, TypeOK,
    LeavesRoom, Accounted, RefusedAtLimit

\* recv() takes no more than there is, nor than there is room for.
LEMMA TakenBounds ==
    ASSUME TypeOK
    PROVE  /\ Room \in Nat
           /\ Taken \in 0 .. arrived
           /\ total + Taken <= cap
BY ConstantsAssumption DEF ConstantsAssumption, TypeOK, Room, Taken

LEMMA StepIInv == IInv /\ [Next]_vars => IInv'
<1> SUFFICES ASSUME IInv, [Next]_vars PROVE IInv'
    OBVIOUS
<1> USE ConstantsAssumption DEF ConstantsAssumption
<1> USE DEF IInv, TypeOK, LeavesRoom, Accounted, RefusedAtLimit, client
<1>1. CASE Arrive
      BY <1>1 DEF Arrive
<1>2. CASE PeerEnds
      BY <1>2 DEF PeerEnds
<1>3. CASE Malloc
      BY <1>3 DEF Malloc
<1>4. CASE RecvData
  <2>1. /\ Taken \in 1 .. arrived /\ total + Taken <= cap
        /\ pc = "recv" /\ total' = total + Taken
        /\ arrived' = arrived - Taken /\ UNCHANGED <<peer, sent>>
        BY <1>4, TakenBounds DEF RecvData
  <2>2. CASE ~GrowAt(total + Taken) /\ UNCHANGED <<pc, cap>>
        BY <2>1, <2>2 DEF GrowAt
  <2>3. CASE GrowAt(total + Taken) /\ AtLimit /\ pc' = "toobig" /\ UNCHANGED cap
        BY <2>1, <2>3 DEF GrowAt, AtLimit
  <2>4. CASE GrowAt(total + Taken) /\ ~AtLimit /\ cap' = NewCap /\ UNCHANGED pc
    <3>1. cap \in 1 .. MaxMsg /\ cap < MaxMsg
          BY <2>1, <2>4 DEF AtLimit
    <3>2. cap' \in 0 .. MaxMsg /\ cap < cap'
          BY <2>4, <3>1, Grows
    <3> QED
          BY <2>1, <2>4, <3>2 DEF GrowAt
  <2>5. CASE GrowAt(total + Taken) /\ pc' = "failed" /\ UNCHANGED cap
        BY <2>1, <2>5 DEF GrowAt
  <2> QED
        BY <1>4, <2>2, <2>3, <2>4, <2>5 DEF RecvData
<1>5. CASE RecvEnd
      BY <1>5 DEF RecvEnd, Room
<1>6. CASE RecvFails
      BY <1>6 DEF RecvFails
<1>7. CASE Timeout
      BY <1>7 DEF Timeout
<1>8. CASE Terminate
      BY <1>8 DEF Terminate
<1>9. CASE UNCHANGED vars
      BY <1>9 DEF vars
<1> QED
      BY <1>1, <1>2, <1>3, <1>4, <1>5, <1>6, <1>7, <1>8, <1>9
      DEF Next, ClientNext

LEMMA Invariance == Spec => []IInv
<1>1. Init => IInv
      BY InitIInv
<1>2. IInv /\ [Next]_vars => IInv'
      BY StepIInv
<1> QED
      BY <1>1, <1>2, PTL DEF Spec

\* What is received is inside the buffer, and the buffer inside the limit.
THEOREM ReaderTypeCorrect == Spec => []TypeOK
<1>1. IInv => TypeOK
      BY DEF IInv
<1> QED
      BY <1>1, Invariance, PTL

\* The comment "we always leave room" holds for every pair of sizes: the
\* branch total == cap after the loop is never taken.
THEOREM ReaderLeavesRoom == Spec => []LeavesRoom
<1>1. IInv => LeavesRoom
      BY DEF IInv
<1> QED
      BY <1>1, Invariance, PTL

\* A message that the client shows is all that the peer sent before close().
THEOREM ReaderShowsWhole == Spec => []WholeMessage
<1>1. IInv => WholeMessage
      BY DEF IInv, Accounted, TypeOK, WholeMessage
<1> QED
      BY <1>1, Invariance, PTL

\* "toobig" is reached only with MAX_MSG_SIZE bytes in the buffer.
THEOREM ReaderRefusesAtLimit == Spec => []RefusedAtLimit
<1>1. IInv => RefusedAtLimit
      BY DEF IInv
<1> QED
      BY <1>1, Invariance, PTL

-----------------------------------------------------------------------------
(* The reader with the time server                                         *)

Clients == Others \cup {Reader}

\* The server holds what it serves.
Serves ==
    /\ backlog \in Seq(Clients) /\ met \subseteq Clients /\ gone \subseteq met
    /\ serving \in Clients \cup {Nobody}
    /\ out \in 0 .. TimeLen
    /\ held = IF serving = Nobody THEN 0 ELSE 1

\* The reader's connection is in the backlog once, then served, then closed.
Waits(i) == i \in 1 .. Len(backlog) /\ backlog[i] = Reader
ReaderOnce ==
    /\ \A i : Waits(i) => Reader \in met /\ serving # Reader /\ Reader \notin served
    /\ \A i, j : Waits(i) /\ Waits(j) => i = j
    /\ Reader \notin met => serving # Reader /\ Reader \notin served

\* It ends after the whole answer, unless the reader has given up before.
ReaderAnswered ==
    /\ Reader \in gone => pc \in {"timeout", "failed"}
    /\ serving = Reader =>
          Reader \notin served /\ peer = "open" /\ (Reader \notin gone => sent = out)
    /\ serving # Reader /\ Reader \notin served => sent = 0 /\ peer = "open"
    /\ Reader \in served /\ Reader \notin gone => sent = TimeLen

SInv == Serves /\ ReaderOnce /\ ReaderAnswered
TimeInv == IInv /\ SInv

-----------------------------------------------------------------------------
(* The server is a peer as RecvBuffer has it.                              *)

LEMMA Names ==
    /\ Nobody \notin Clients /\ Exited \notin Clients /\ Nobody # Reader
    /\ TimeLen \in Nat /\ TimeLen >= 1 /\ TimeLen <= MaxSend
BY TimeAssumption, ConstantsAssumption DEF TimeAssumption, ConstantsAssumption, Clients

\* Every step of the service is for the reader a step of its own, of its
\* peer, or none.
LEMMA Simulates ==
    ASSUME TypeOK, SInv, [TimeNext]_serviceVars
    PROVE  [Next]_vars
<1>1. CASE UNCHANGED vars
      BY <1>1
<1>2. ASSUME NEW c \in Clients, Connect(c) \/ Abort(c) PROVE UNCHANGED vars
      BY <1>2 DEF Connect, Abort
<1>3. CASE Reads
      BY <1>3 DEF Reads, Next
<1>4. CASE Accept \/ AcceptAborted
      BY <1>4 DEF Accept, AcceptAborted
<1>5. CASE Send
  <2>1. CASE serving = Reader /\ Reader \notin gone
    <3>1. peer = "open" /\ sent = out /\ out < TimeLen /\ out \in Nat
          BY <1>5, <2>1, Names DEF Send, SInv, ReaderAnswered, Serves
    <3>2. sent < MaxSend
          BY <3>1, Names, ConstantsAssumption DEF ConstantsAssumption
    <3> QED
          BY <1>5, <2>1, <3>1, <3>2 DEF Send, Next, Arrive
  <2>2. CASE ~(serving = Reader /\ Reader \notin gone)
        BY <1>5, <2>2 DEF Send
  <2> QED
        BY <2>1, <2>2
<1>6. CASE CloseClient
  <2>1. CASE serving = Reader
        BY <1>6, <2>1 DEF CloseClient, SInv, ReaderAnswered, Next, PeerEnds
  <2>2. CASE serving # Reader
        BY <1>6, <2>2 DEF CloseClient, vars
  <2> QED
        BY <2>1, <2>2
<1>7. CASE SendFails \/ Answered
      BY <1>6, <1>7 DEF SendFails, Answered
<1>8. CASE UNCHANGED serviceVars
      BY <1>8 DEF serviceVars
<1> QED
      BY <1>1, <1>2, <1>3, <1>4, <1>5, <1>7, <1>8 DEF TimeNext, ServerNext, Clients

-----------------------------------------------------------------------------
(* The backlog                                                             *)

LEMMA Appended ==
    ASSUME SInv, NEW c \in Clients, Connect(c)
    PROVE  SInv'
<1>1. /\ c \notin met /\ backlog' = Append(backlog, c) /\ met' = met \cup {c}
      /\ UNCHANGED <<vars, gone, server>>
      BY DEF Connect
<1>2. /\ backlog' \in Seq(Clients) /\ Len(backlog) \in Nat
      /\ Len(backlog') = Len(backlog) + 1 /\ backlog'[Len(backlog) + 1] = c
      /\ \A i \in 1 .. Len(backlog) : backlog'[i] = backlog[i]
      BY <1>1, AppendProperties, LenProperties DEF SInv, Serves
<1>3. Serves'
      BY <1>1, <1>2 DEF SInv, Serves, server
<1>4. ReaderAnswered'
      BY <1>1 DEF SInv, ReaderAnswered, server, vars, client
<1>5. \A i : Waits(i)' => (i = Len(backlog) + 1 /\ c = Reader) \/ Waits(i)
      BY <1>2 DEF Waits
<1>6. ReaderOnce'
      BY <1>1, <1>5 DEF SInv, ReaderOnce, server
<1> QED
      BY <1>3, <1>4, <1>6 DEF SInv

\* The first of the backlog leaves it.
LEMMA Shifted ==
    ASSUME Serves, backlog # <<>>, backlog' = Tail(backlog)
    PROVE  /\ Head(backlog) \in Clients /\ backlog' \in Seq(Clients)
           /\ Waits(1) <=> Head(backlog) = Reader
           /\ \A i : Waits(i)' => i \in Nat /\ i >= 1 /\ Waits(i + 1)
<1>1. /\ Head(backlog) \in Clients /\ Tail(backlog) \in Seq(Clients)
      /\ Len(backlog) \in Nat /\ Len(backlog) >= 1
      /\ Len(Tail(backlog)) = Len(backlog) - 1
      /\ Head(backlog) = backlog[1]
      /\ \A i \in 1 .. Len(Tail(backlog)) : Tail(backlog)[i] = backlog[i + 1]
      BY HeadTailProperties, LenProperties, EmptySeq DEF Serves
<1> QED
      BY <1>1 DEF Waits

LEMMA Accepts ==
    ASSUME SInv, Accept \/ AcceptAborted
    PROVE  SInv'
<1>1. /\ serving = Nobody /\ backlog # <<>> /\ backlog' = Tail(backlog)
      /\ UNCHANGED <<vars, met, gone>>
      BY DEF Accept, AcceptAborted
<1>2. /\ Head(backlog) \in Clients /\ backlog' \in Seq(Clients)
      /\ Waits(1) <=> Head(backlog) = Reader
      /\ \A i : Waits(i)' => i \in Nat /\ i >= 1 /\ Waits(i + 1)
      BY <1>1, Shifted DEF SInv
<1>3. CASE Accept
  <2>1. /\ serving' = Head(backlog) /\ out' = 0 /\ held' = held + 1
        /\ UNCHANGED served
        BY <1>3 DEF Accept
  <2>2. Serves'
        BY <1>1, <1>2, <2>1, Names DEF SInv, Serves
  <2>3. \A i, j : Waits(i)' /\ Waits(j)' => i = j
        BY <1>2 DEF SInv, ReaderOnce
  <2>4. \A i : Waits(i)' => Head(backlog) # Reader
        BY <1>2 DEF SInv, ReaderOnce
  <2>5. ReaderOnce'
        BY <1>1, <1>2, <2>1, <2>3, <2>4 DEF SInv, ReaderOnce
  <2>6. ReaderAnswered'
        BY <1>1, <1>2, <2>1, Names DEF SInv, ReaderAnswered, ReaderOnce, vars, client
  <2> QED
        BY <2>2, <2>5, <2>6 DEF SInv
<1>4. CASE AcceptAborted
  <2>1. /\ Head(backlog) \in gone /\ served' = served \cup {Head(backlog)}
        /\ UNCHANGED <<serving, out, held>>
        BY <1>4 DEF AcceptAborted
  <2>2. Serves'
        BY <1>1, <1>2, <2>1 DEF SInv, Serves
  <2>3. \A i, j : Waits(i)' /\ Waits(j)' => i = j
        BY <1>2 DEF SInv, ReaderOnce
  <2>4. \A i : Waits(i)' => Head(backlog) # Reader
        BY <1>2 DEF SInv, ReaderOnce
  <2>5. ReaderOnce'
        BY <1>1, <1>2, <2>1, <2>3, <2>4, Names DEF SInv, ReaderOnce, Serves
  <2>6. ReaderAnswered'
        BY <1>1, <2>1, Names DEF SInv, ReaderAnswered, vars, client
  <2> QED
        BY <2>2, <2>5, <2>6 DEF SInv
<1> QED
      BY <1>3, <1>4

-----------------------------------------------------------------------------
(* The other steps                                                         *)

\* What has given up stays so.
LEMMA ReaderReads ==
    ASSUME SInv, Reads
    PROVE  SInv'
<1>1. /\ UNCHANGED <<backlog, met, gone, server, peer, sent>>
      /\ pc \in {"timeout", "failed"} => FALSE
      BY DEF Reads, ClientNext, Malloc, RecvData, RecvEnd, RecvFails, Timeout, Terminate
<1> QED
      BY <1>1 DEF SInv, Serves, ReaderOnce, Waits, ReaderAnswered, server

LEMMA Gone ==
    ASSUME SInv, NEW c \in Clients, Abort(c)
    PROVE  SInv'
<1>1. /\ c \in met /\ gone' = gone \cup {c} /\ UNCHANGED <<vars, backlog, met, server>>
      /\ c = Reader => pc \in {"timeout", "failed"}
      BY TimeAssumption DEF Abort, TimeAssumption
<1> QED
      BY <1>1 DEF SInv, Serves, ReaderOnce, Waits, ReaderAnswered, server, vars, client

LEMMA Sends ==
    ASSUME TypeOK, SInv, Send
    PROVE  SInv'
<1>1. /\ out < TimeLen /\ out' = out + 1
      /\ UNCHANGED <<pc, peer, backlog, met, gone, serving, held, served>>
      /\ serving = Reader /\ Reader \notin gone => sent' = sent + 1
      /\ serving # Reader => sent' = sent
      BY DEF Send, vars, client
<1>2. Serves'
      BY <1>1, Names DEF SInv, Serves
<1>3. ReaderOnce'
      BY <1>1 DEF SInv, ReaderOnce, Waits
<1>4. ReaderAnswered'
  <2>1. serving = Reader => serving \notin served
        BY DEF SInv, ReaderAnswered
  <2> QED
        BY <1>1, <2>1 DEF SInv, ReaderAnswered
<1> QED
      BY <1>2, <1>3, <1>4 DEF SInv

LEMMA Closes ==
    ASSUME SInv, SendFails \/ Answered
    PROVE  SInv'
<1>1. /\ serving \in met /\ held' = held - 1 /\ serving' = Nobody
      /\ served' = served \cup {serving}
      /\ peer' = IF serving = Reader THEN "fin" ELSE peer
      /\ UNCHANGED <<pc, sent, backlog, met, gone, out>>
      /\ serving \in gone \/ out = TimeLen
      BY DEF SendFails, Answered, Sent, CloseClient, client, SInv, Serves
<1>2. Serves'
      BY <1>1, Names DEF SInv, Serves
<1>3. ReaderOnce'
      BY <1>1, Names DEF SInv, ReaderOnce, Waits
<1>4. ReaderAnswered'
      BY <1>1, Names DEF SInv, ReaderAnswered
<1> QED
      BY <1>2, <1>3, <1>4 DEF SInv

-----------------------------------------------------------------------------
LEMMA StepTimeInv == TimeInv /\ [TimeNext]_serviceVars => TimeInv'
<1> SUFFICES ASSUME TimeInv, [TimeNext]_serviceVars PROVE TimeInv'
    OBVIOUS
<1>1. IInv /\ SInv /\ TypeOK
      BY DEF TimeInv, IInv
<1>2. IInv'
      BY <1>1, Simulates, StepIInv
<1>3. ASSUME TimeNext PROVE SInv'
      BY <1>1, <1>3, Appended, Gone, ReaderReads, Accepts, Sends, Closes
         DEF TimeNext, ServerNext, Clients
<1>4. ASSUME UNCHANGED serviceVars PROVE SInv'
      BY <1>1, <1>4 DEF SInv, Serves, ReaderOnce, Waits, ReaderAnswered,
                        serviceVars, server, vars, client
<1> QED
      BY <1>1, <1>2, <1>3, <1>4 DEF TimeInv

LEMMA InitTimeInv == TimeInit => TimeInv
<1> SUFFICES ASSUME TimeInit PROVE TimeInv
    OBVIOUS
<1>1. IInv
      BY InitIInv DEF TimeInit
<1>2. Serves
      BY Names, EmptySeq DEF TimeInit, Serves
<1>3. ReaderOnce
      BY Names DEF TimeInit, ReaderOnce, Waits
<1>4. ReaderAnswered
      BY Names DEF TimeInit, Init, ReaderAnswered
<1> QED
      BY <1>1, <1>2, <1>3, <1>4 DEF TimeInv, SInv

\* The time server with its backlog and its other clients is, for the reader,
\* a peer of RecvBuffer: every behaviour of the service is one of the reader's
\* specification.
THEOREM ServiceImplementsReader == TimeSpec => Spec
<1>1. TimeInit => Init
      BY DEF TimeInit
<1>2. TimeInv /\ [TimeNext]_serviceVars => [Next]_vars
      BY Simulates DEF TimeInv, IInv
<1> QED
      BY <1>1, <1>2, InitTimeInv, StepTimeInv, PTL DEF TimeSpec, Spec

\* A reader that shows a time shows the whole answer, whoever else is served,
\* however the bytes arrive, and whether or not a timeout was near.
THEOREM TimeSafe == TimeSpec => []TimeIsWhole
<1>1. TimeInv => TimeIsWhole
  <2> SUFFICES ASSUME TimeInv, Reader \in met, pc = "done" PROVE total = TimeLen
      BY DEF TimeIsWhole
  <2>1. peer = "fin" /\ total = sent
        BY DEF TimeInv, IInv, Accounted, TypeOK
  <2>2. Reader \notin gone /\ Reader \in served
        BY <2>1 DEF TimeInv, SInv, ReaderAnswered
  <2> QED
        BY <2>1, <2>2 DEF TimeInv, SInv, ReaderAnswered
<1> QED
      BY <1>1, InitTimeInv, StepTimeInv, PTL DEF TimeSpec

\* The server never holds the descriptor of a client that it does not serve.
THEOREM DescriptorsKept == TimeSpec => []NoneLeaked
<1>1. TimeInv => NoneLeaked
      BY Names DEF TimeInv, SInv, Serves, NoneLeaked
<1> QED
      BY <1>1, InitTimeInv, StepTimeInv, PTL DEF TimeSpec
=============================================================================
