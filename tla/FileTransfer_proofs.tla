------------------------- MODULE FileTransfer_proofs -------------------------
(***************************************************************************)
(* FileTransfer for any number of clients, strangers, chunks and copies:   *)
(* the size limit holds, and what the second server writes, and what ends  *)
(* its transfer, comes from the client that it authenticated.  Over a      *)
(* network that keeps the order and makes no duplicates, the file is in    *)
(* order and has all that was not lost; over any, it has nothing twice but *)
(* what the network copied.                                                *)
(***************************************************************************)
EXTENDS FileTransfer, SequenceTheorems, FiniteSetTheorems, TLAPS

\* Datagrams that c may have sent, and those that the socket may hold: a
\* token in it is a client's.
Of(c) == {d \in Datagram : d.from = c}
Genuine == {d \in Datagram : d.kind = "token" => d.from \in Clients}

Origin ==
    /\ \A c \in Clients : net[c] \in Seq(Of(c))
    /\ queue \in Seq(Genuine)

TInv == TypeOK /\ Origin

\* What is written, and whom an end is credited to.
IInv == TInv /\ OnlyClient

-----------------------------------------------------------------------------
(* Sequences *)

LEMMA RemoveAtType ==
    ASSUME NEW S, NEW s \in Seq(S), NEW k \in 1 .. Len(s)
    PROVE  RemoveAt(s, k) \in Seq(S)
<1>1. SubSeq(s, 1, k - 1) \in Seq(S)
      BY SubSeqProperties
<1>2. SubSeq(s, k + 1, Len(s)) \in Seq(S)
      BY SubSeqProperties
<1> QED
      BY <1>1, <1>2, ConcatProperties DEF RemoveAt

LEMMA AppendType ==
    ASSUME NEW S, NEW s \in Seq(S), NEW e \in S
    PROVE  Append(s, e) \in Seq(S) /\ Len(Append(s, e)) = Len(s) + 1
BY AppendProperties

LEMMA QueueHead ==
    ASSUME NEW S, NEW s \in Seq(S), s # <<>>
    PROVE  Head(s) \in S /\ Tail(s) \in Seq(S) /\ Len(Tail(s)) <= Len(s)
BY HeadTailProperties

-----------------------------------------------------------------------------
(* What every step of a client keeps *)

LEMMA Sends ==
    ASSUME TInv, NEW c \in Clients, NEW d \in Of(c), Sent(c, d)
    PROVE  /\ net' \in [Clients -> Seq(Datagram)]
           /\ \A e \in Clients : net'[e] \in Seq(Of(e))
<1>1. net' = [net EXCEPT ![c] = Append(net[c], d)]
      BY DEF Sent
<1>2. net \in [Clients -> Seq(Datagram)] /\ \A e \in Clients : net[e] \in Seq(Of(e))
      BY DEF TInv, TypeOK, Origin
<1>3. Append(net[c], d) \in Seq(Of(c)) /\ Append(net[c], d) \in Seq(Datagram)
      BY <1>2, AppendType DEF Of
<1> QED
      BY <1>1, <1>2, <1>3

LEMMA DgramOf ==
    ASSUME NEW c \in Clients, NEW kind \in {"token", "chunk", "empty"},
           NEW i \in 0 .. Chunks
    PROVE  Dgram(c, kind, i) \in Of(c)
BY DEF Dgram, Of, Datagram, Senders

\* All that a client's step leaves alone keeps its type.
LEMMA ClientStep ==
    ASSUME TInv, NEW c \in Clients,
           \/ SendToken(c) \/ SendChunk(c) \/ FileSent(c) \/ SendEof(c)
           \/ SendFails(c) \/ ClientDone(c)
    PROVE  TInv'
<1>0. Chunks \in Nat
      BY ConstantsAssumption DEF ConstantsAssumption
<1>1. UNCHANGED <<state, auth_clt, file, count, endedBy, idle, waited,
                  queue, copies, lost>>
      BY DEF SendToken, SendChunk, FileSent, SendEof, SendFails, ClientDone,
             Sent, server, clock
<1>2. next \in [Clients -> Nat]
         /\ cl \in [Clients -> {"token", "data", "eof", "done", "failed"}]
      BY DEF TInv, TypeOK
<1>3. /\ cl' \in [Clients -> {"token", "data", "eof", "done", "failed"}]
      /\ next' \in [Clients -> Nat]
  <2>1. next[c] \in Nat
        BY <1>2
  <2>2. CASE SendToken(c)
        BY <1>2, <2>2 DEF SendToken
  <2>3. CASE SendChunk(c)
        BY <1>2, <2>1, <2>3 DEF SendChunk
  <2>4. CASE FileSent(c)
        BY <1>2, <2>4 DEF FileSent
  <2>5. CASE SendEof(c)
        BY <1>2, <2>1, <2>5 DEF SendEof
  <2>6. CASE SendFails(c)
        BY <1>2, <2>6 DEF SendFails
  <2>7. CASE ClientDone(c)
        BY <1>2, <2>7 DEF ClientDone
  <2> QED
        BY <2>2, <2>3, <2>4, <2>5, <2>6, <2>7
<1>4. /\ net' \in [Clients -> Seq(Datagram)]
      /\ \A e \in Clients : net'[e] \in Seq(Of(e))
  <2>1. CASE SendToken(c)
    <3>1. Sent(c, Dgram(c, "token", 0)) /\ Dgram(c, "token", 0) \in Of(c)
          BY <1>0, <2>1, DgramOf DEF SendToken
    <3> QED
          BY <3>1, Sends
  <2>2. CASE SendChunk(c)
    <3>1. next[c] \in 0 .. Chunks
          BY <1>0, <1>2, <2>2 DEF SendChunk
    <3>2. Sent(c, Dgram(c, "chunk", next[c])) /\ Dgram(c, "chunk", next[c]) \in Of(c)
          BY <3>1, <2>2, DgramOf DEF SendChunk
    <3> QED
          BY <3>2, Sends
  <2>3. CASE SendEof(c)
    <3>1. Sent(c, Dgram(c, "empty", 0)) /\ Dgram(c, "empty", 0) \in Of(c)
          BY <1>0, <2>3, DgramOf DEF SendEof
    <3> QED
          BY <3>1, Sends
  <2>4. CASE FileSent(c) \/ SendFails(c) \/ ClientDone(c)
    <3>1. UNCHANGED net
          BY <2>4 DEF FileSent, SendFails, ClientDone
    <3> QED
          BY <3>1 DEF TInv, TypeOK, Origin
  <2> QED
        BY <2>1, <2>2, <2>3, <2>4
<1> QED
      BY <1>1, <1>3, <1>4 DEF TInv, TypeOK, Origin

-----------------------------------------------------------------------------
(* What every step of the network keeps *)

LEMMA ReachesQueue ==
    ASSUME TInv, NEW d \in Genuine, Reaches(d)
    PROVE  /\ queue' \in Seq(Datagram) /\ Len(queue') <= QueueLen
           /\ queue' \in Seq(Genuine)
           /\ lost' \subseteq Datagram
<1>1. queue \in Seq(Genuine) /\ queue \in Seq(Datagram) /\ Len(queue) <= QueueLen
         /\ lost \subseteq Datagram /\ d \in Datagram
      BY DEF TInv, TypeOK, Origin, Genuine
<1>2. QueueLen \in Nat
      BY ConstantsAssumption DEF ConstantsAssumption
<1>3. CASE Len(queue) < QueueLen
  <2>1. queue' = Append(queue, d) /\ lost' = lost
        BY <1>3 DEF Reaches
  <2>2. Append(queue, d) \in Seq(Genuine) /\ Len(Append(queue, d)) = Len(queue) + 1
        BY <1>1, AppendType
  <2>3. Append(queue, d) \in Seq(Datagram)
        BY <1>1, AppendType
  <2>4. Len(queue) \in Nat
        BY <1>1, LenProperties
  <2> QED
        BY <1>1, <1>2, <1>3, <2>1, <2>2, <2>3, <2>4
<1>4. CASE ~(Len(queue) < QueueLen)
      BY <1>1, <1>4 DEF Reaches
<1> QED
      BY <1>3, <1>4

LEMMA UnderWay ==
    ASSUME TInv, NEW c \in Clients, NEW k \in 1 .. Len(net[c])
    PROVE  net[c][k] \in Of(c) /\ net[c][k] \in Genuine
<1>1. net[c] \in Seq(Of(c))
      BY DEF TInv, Origin
<1>2. net[c][k] \in Of(c)
      BY <1>1, ElementOfSeq
<1> QED
      BY <1>2 DEF Of, Genuine

LEMMA Removes ==
    ASSUME TInv, NEW c \in Clients, NEW k \in 1 .. Len(net[c]),
           net' = [net EXCEPT ![c] = RemoveAt(net[c], k)]
    PROVE  /\ net' \in [Clients -> Seq(Datagram)]
           /\ \A e \in Clients : net'[e] \in Seq(Of(e))
<1>1. net \in [Clients -> Seq(Datagram)] /\ \A e \in Clients : net[e] \in Seq(Of(e))
      BY DEF TInv, TypeOK, Origin
<1>2. RemoveAt(net[c], k) \in Seq(Of(c))
      BY <1>1, RemoveAtType
<1>3. RemoveAt(net[c], k) \in Seq(Datagram)
      BY <1>1, RemoveAtType
<1> QED
      BY <1>1, <1>2, <1>3

LEMMA EnvironmentStep ==
    ASSUME TInv, Environment
    PROVE  TInv'
<1>1. ASSUME NEW c \in Clients, Deliver(c) PROVE TInv'
  <2>1. PICK k \in 1 .. Len(net[c]) :
          Reaches(net[c][k]) /\ net' = [net EXCEPT ![c] = RemoveAt(net[c], k)]
        BY <1>1 DEF Deliver
  <2>2. UNCHANGED <<server, clock, client, copies>>
        BY <1>1 DEF Deliver, netUnchanged
  <2>3. /\ queue' \in Seq(Datagram) /\ Len(queue') <= QueueLen
        /\ queue' \in Seq(Genuine) /\ lost' \subseteq Datagram
        BY <2>1, UnderWay, ReachesQueue
  <2>4. /\ net' \in [Clients -> Seq(Datagram)]
        /\ \A e \in Clients : net'[e] \in Seq(Of(e))
        BY <2>1, Removes
  <2> QED
        BY <2>2, <2>3, <2>4 DEF TInv, TypeOK, Origin, server, clock, client
<1>2. ASSUME NEW c \in Clients, Duplicate(c) PROVE TInv'
  <2>1. PICK k \in 1 .. Len(net[c]) : Reaches(net[c][k])
        BY <1>2 DEF Duplicate
  <2>2. /\ UNCHANGED <<server, clock, client, net>>
        /\ copies < Copies /\ copies' = copies + 1
        BY <1>2 DEF Duplicate, netUnchanged
  <2>3. /\ queue' \in Seq(Datagram) /\ Len(queue') <= QueueLen
        /\ queue' \in Seq(Genuine) /\ lost' \subseteq Datagram
        BY <2>1, UnderWay, ReachesQueue
  <2>4. copies' \in 0 .. Copies
    <3>1. copies \in 0 .. Copies
          BY DEF TInv, TypeOK
    <3> QED
          BY <3>1, <2>2, ConstantsAssumption DEF ConstantsAssumption
  <2> QED
        BY <2>2, <2>3, <2>4 DEF TInv, TypeOK, Origin, server, clock, client
<1>3. ASSUME NEW c \in Clients, Lose(c) PROVE TInv'
  <2>1. PICK k \in 1 .. Len(net[c]) :
          /\ lost' = lost \cup {net[c][k]}
          /\ net' = [net EXCEPT ![c] = RemoveAt(net[c], k)]
        BY <1>3 DEF Lose
  <2>2. UNCHANGED <<server, clock, client, queue, copies>>
        BY <1>3 DEF Lose, netUnchanged
  <2>3. lost' \subseteq Datagram
    <3>1. net[c][k] \in Datagram
          BY <2>1, UnderWay DEF Genuine
    <3> QED
          BY <2>1, <3>1 DEF TInv, TypeOK
  <2>4. /\ net' \in [Clients -> Seq(Datagram)]
        /\ \A e \in Clients : net'[e] \in Seq(Of(e))
        BY <2>1, Removes
  <2> QED
        BY <2>2, <2>3, <2>4 DEF TInv, TypeOK, Origin, server, clock, client
<1>4. ASSUME NEW s \in Strangers, Stray(s) PROVE TInv'
  <2>1. PICK kind \in {"empty", "junk"} : queue' = Append(queue, Dgram(s, kind, 0))
        BY <1>4 DEF Stray
  <2>2. Len(queue) < QueueLen /\ UNCHANGED <<server, clock, client, net, copies, lost>>
        BY <1>4 DEF Stray, netUnchanged
  <2>3. Dgram(s, kind, 0) \in Genuine
        BY <2>1, ConstantsAssumption
        DEF Dgram, Genuine, Datagram, Senders, ConstantsAssumption
  <2>4. Reaches(Dgram(s, kind, 0))
        BY <2>1, <2>2 DEF Reaches
  <2>5. /\ queue' \in Seq(Datagram) /\ Len(queue') <= QueueLen
        /\ queue' \in Seq(Genuine) /\ lost' \subseteq Datagram
        BY <2>3, <2>4, ReachesQueue
  <2> QED
        BY <2>2, <2>5 DEF TInv, TypeOK, Origin, server, clock, client
<1>5. ASSUME ClockSetBack PROVE TInv'
  <2>1. idle' \in -1 .. IdleLimit
        BY <1>5, ConstantsAssumption DEF ClockSetBack, ConstantsAssumption
  <2> QED
        BY <1>5, <2>1 DEF ClockSetBack, TInv, TypeOK, Origin, server, client
<1> QED
      BY <1>1, <1>2, <1>3, <1>4, <1>5 DEF Environment

-----------------------------------------------------------------------------
(* What every step of the server keeps *)

LEMMA Receives ==
    ASSUME TInv, NEW d \in Datagram, Received(d)
    PROVE  /\ d \in Genuine
           /\ queue' \in Seq(Datagram) /\ Len(queue') <= QueueLen
           /\ queue' \in Seq(Genuine)
           /\ waited' \in 0 .. IdleLimit
<1>1. queue \in Seq(Genuine) /\ queue \in Seq(Datagram) /\ Len(queue) <= QueueLen
      BY DEF TInv, TypeOK, Origin
<1>2. queue # <<>> /\ d = Head(queue) /\ queue' = Tail(queue) /\ waited' = 0
      BY DEF Received
<1>3. Head(queue) \in Genuine /\ Tail(queue) \in Seq(Genuine)
         /\ Len(Tail(queue)) <= Len(queue)
      BY <1>1, <1>2, QueueHead
<1>4. Tail(queue) \in Seq(Datagram)
      BY <1>1, <1>2, QueueHead
<1>5. Len(queue) \in Nat /\ Len(Tail(queue)) \in Nat /\ QueueLen \in Nat
      BY <1>1, <1>4, LenProperties, ConstantsAssumption DEF ConstantsAssumption
<1> QED
      BY <1>1, <1>2, <1>3, <1>4, <1>5, ConstantsAssumption DEF ConstantsAssumption

\* The server's variables keep their types, and so does the rest.
LEMMA ServerStep ==
    ASSUME TInv, ServerNext
    PROVE  TInv'
<1>0. /\ state \in {"auth", "open", "recv", "done", "failed"}
      /\ auth_clt \in Clients \cup {Nobody}
      /\ file \in Seq(Piece) /\ Len(file) <= count
      /\ count \in Nat /\ (Secure => count <= MaxFile)
      /\ idle \in -1 .. IdleLimit /\ waited \in 0 .. IdleLimit
      /\ endedBy \in Senders \cup {Nobody}
      /\ IdleLimit \in Nat /\ MaxFile \in Nat
      BY ConstantsAssumption DEF ConstantsAssumption, TInv, TypeOK
<1>1. UNCHANGED <<client, net, copies, lost>>
      BY DEF ServerNext, OpenFile, OpenFails, Timeout, AuthIgnores, AuthAccepts,
             IdleExit, Ignore, Finish, TooLarge, Write, WriteFails, serverUnchanged
<1>2. ASSUME /\ queue' \in Seq(Datagram) /\ Len(queue') <= QueueLen
             /\ queue' \in Seq(Genuine)
             /\ waited' \in 0 .. IdleLimit /\ idle' \in -1 .. IdleLimit
             /\ state' \in {"auth", "open", "recv", "done", "failed"}
             /\ auth_clt' \in Clients \cup {Nobody}
             /\ file' \in Seq(Piece) /\ Len(file') <= count'
             /\ count' \in Nat /\ (Secure => count' <= MaxFile)
             /\ endedBy' \in Senders \cup {Nobody}
      PROVE  TInv'
      BY <1>1, <1>2 DEF TInv, TypeOK, Origin, client
<1>3. CASE OpenFile \/ OpenFails \/ Timeout
  <2>1. UNCHANGED queue
        BY <1>3 DEF OpenFile, OpenFails, Timeout
  <2>2. UNCHANGED <<auth_clt, file, count, endedBy>>
        BY <1>3 DEF OpenFile, OpenFails, Timeout, Fail
  <2>3. /\ waited' \in 0 .. IdleLimit /\ idle' \in -1 .. IdleLimit
        /\ state' \in {"recv", "failed"}
        BY <1>0, <1>3 DEF OpenFile, OpenFails, Timeout, Fail, clock
  <2>4. queue \in Seq(Datagram) /\ Len(queue) <= QueueLen /\ queue \in Seq(Genuine)
        BY DEF TInv, TypeOK, Origin
  <2> QED
        BY <1>0, <1>2, <2>1, <2>2, <2>3, <2>4
<1>4. ASSUME NEW d \in Datagram, Received(d),
             \/ AuthIgnores(d) \/ AuthAccepts(d)
             \/ IdleExit(d) \/ Ignore(d) \/ Finish(d)
             \/ TooLarge(d) \/ Write(d) \/ WriteFails(d)
      PROVE  TInv'
  <2>1. /\ d \in Genuine
        /\ queue' \in Seq(Datagram) /\ Len(queue') <= QueueLen
        /\ queue' \in Seq(Genuine)
        /\ waited' \in 0 .. IdleLimit
        BY <1>4, Receives
  <2>2. idle' \in -1 .. IdleLimit
    <3>1. idle' = idle \/ idle' = 0
          BY <1>4 DEF AuthIgnores, AuthAccepts, IdleExit, Ignore, Finish,
                      TooLarge, Write, WriteFails, Fail, server
    <3> QED
          BY <1>0, <3>1
  <2>3. CASE AuthIgnores(d) \/ Ignore(d)
        BY <1>0, <1>2, <2>1, <2>2, <2>3 DEF AuthIgnores, Ignore, server
  <2>4. CASE AuthAccepts(d)
    <3>1. auth_clt' \in Clients
          BY <2>1, <2>4 DEF AuthAccepts, Genuine
    <3> QED
          BY <1>0, <1>2, <2>1, <2>2, <2>4, <3>1 DEF AuthAccepts
  <2>5. CASE IdleExit(d) \/ TooLarge(d)
        BY <1>0, <1>2, <2>1, <2>2, <2>5 DEF IdleExit, TooLarge, Fail
  <2>6. CASE Finish(d)
    <3>1. endedBy' \in Senders \cup {Nobody}
          BY <2>6 DEF Finish, Datagram
    <3> QED
          BY <1>0, <1>2, <2>1, <2>2, <2>6, <3>1 DEF Finish
  <2>7. CASE Write(d)
    <3>1. /\ count' = count + 1 /\ (Secure => count + 1 <= MaxFile)
          /\ UNCHANGED <<state, auth_clt, endedBy>>
          BY <2>7 DEF Write, Fits
    <3>2. PICK whole \in BOOLEAN :
            file' = Append(file, [dgram |-> d, whole |-> whole])
          BY <2>7 DEF Write
    <3>3. [dgram |-> d, whole |-> whole] \in Piece
          BY DEF Piece
    <3>4. file' \in Seq(Piece) /\ Len(file') = Len(file) + 1
          BY <1>0, <3>2, <3>3, AppendType
    <3>5. Len(file) \in Nat
          BY <1>0, LenProperties
    <3>6. Len(file') <= count' /\ count' \in Nat /\ (Secure => count' <= MaxFile)
          BY <1>0, <3>1, <3>4, <3>5
    <3> QED
          BY <1>0, <1>2, <2>1, <2>2, <3>1, <3>4, <3>6
  <2>8. CASE WriteFails(d)
    <3>1. /\ count' = count + 1 /\ (Secure => count + 1 <= MaxFile)
          /\ UNCHANGED <<auth_clt, file, endedBy>>
          /\ state' \in {"failed", state}
          BY <2>8 DEF WriteFails, Data, Fits
    <3>2. Len(file) \in Nat
          BY <1>0, LenProperties
    <3>3. Len(file') <= count' /\ count' \in Nat /\ (Secure => count' <= MaxFile)
          BY <1>0, <3>1, <3>2
    <3> QED
          BY <1>0, <1>2, <2>1, <2>2, <3>1, <3>3
  <2> QED
        BY <1>4, <2>3, <2>4, <2>5, <2>6, <2>7, <2>8
<1>5. ASSUME NEW d \in Datagram,
             \/ AuthIgnores(d) \/ AuthAccepts(d)
             \/ IdleExit(d) \/ Ignore(d) \/ Finish(d)
             \/ TooLarge(d) \/ Write(d) \/ WriteFails(d)
      PROVE  Received(d)
      BY <1>5 DEF AuthIgnores, AuthAccepts, IdleExit, Ignore, Finish, TooLarge,
                  Write, WriteFails, Data
<1> QED
      BY <1>3, <1>4, <1>5 DEF ServerNext

LEMMA InitTInv == Init => TInv
<1> SUFFICES ASSUME Init PROVE TInv
    OBVIOUS
<1>1. <<>> \in Seq(Datagram) /\ <<>> \in Seq(Genuine) /\ <<>> \in Seq(Piece)
         /\ Len(<<>>) = 0 /\ \A c \in Clients : <<>> \in Seq(Of(c))
      OBVIOUS
<1>2. idle \in -1 .. IdleLimit /\ waited \in 0 .. IdleLimit /\ copies \in 0 .. Copies
      BY ConstantsAssumption DEF ConstantsAssumption, Init
<1>3. Len(queue) <= QueueLen /\ Len(file) <= count /\ (Secure => count <= MaxFile)
      BY <1>1, ConstantsAssumption DEF ConstantsAssumption, Init
<1>4. /\ cl \in [Clients -> {"token", "data", "eof", "done", "failed"}]
      /\ next \in [Clients -> Nat]
      /\ net \in [Clients -> Seq(Datagram)]
      BY <1>1 DEF Init
<1> QED
      BY <1>1, <1>2, <1>3, <1>4 DEF Init, TInv, TypeOK, Origin

LEMMA StepTInv == TInv /\ [Next]_vars => TInv'
<1> SUFFICES ASSUME TInv, [Next]_vars PROVE TInv'
    OBVIOUS
<1>1. CASE ClientNext
      BY <1>1, ClientStep DEF ClientNext
<1>2. CASE Environment
      BY <1>2, EnvironmentStep
<1>3. CASE Tick
  <2>1. idle' \in -1 .. IdleLimit /\ waited' \in 0 .. IdleLimit
        BY <1>3, ConstantsAssumption DEF Tick, TInv, TypeOK, ConstantsAssumption
  <2> QED
        BY <1>3, <2>1 DEF Tick, TInv, TypeOK, Origin, server, client
<1>4. CASE ServerNext
      BY <1>4, ServerStep
<1>5. CASE UNCHANGED vars
      BY <1>5 DEF vars, server, clock, client, TInv, TypeOK, Origin
<1> QED
      BY <1>1, <1>2, <1>3, <1>4, <1>5 DEF Next

\* In both versions every variable keeps its type; in the second the count
\* never passes MAX_FILE_BYTES.
THEOREM TransferTypeCorrect == Spec => []TypeOK
<1>1. TInv => TypeOK
      BY DEF TInv
<1> QED
      BY <1>1, InitTInv, StepTInv, PTL DEF Spec

-----------------------------------------------------------------------------
(* Who is written, and who ends the transfer                               *)

\* Only the server's steps touch what OnlyClient speaks of.
LEMMA OthersStep ==
    ASSUME OnlyClient, UNCHANGED <<state, auth_clt, file, endedBy>>
    PROVE  OnlyClient'
BY DEF OnlyClient, OthersNeverEnd

LEMMA WriteStep ==
    ASSUME TInv, OnlyClient, NEW d \in Datagram, Write(d)
    PROVE  OnlyClient'
<1>1. /\ state = "recv" /\ d.from = auth_clt
      /\ UNCHANGED <<state, auth_clt, endedBy>>
      BY DEF Write, Data, same_client
<1>2. PICK whole \in BOOLEAN : file' = Append(file, [dgram |-> d, whole |-> whole])
      BY DEF Write
<1>3. file \in Seq(Piece) /\ [dgram |-> d, whole |-> whole] \in Piece
      BY DEF TInv, TypeOK, Piece
<1>4. /\ Len(file') = Len(file) + 1
      /\ \A k \in 1 .. Len(file) : file'[k] = file[k]
      /\ file'[Len(file) + 1] = [dgram |-> d, whole |-> whole]
      BY <1>2, <1>3, AppendProperties
<1>5. ASSUME NEW k \in 1 .. Len(file') PROVE file'[k].dgram.from = auth_clt'
  <2>1. Len(file) \in Nat
        BY <1>3, LenProperties
  <2>2. CASE k = Len(file) + 1
        BY <1>1, <1>4, <2>2
  <2>3. CASE k \in 1 .. Len(file)
    <3>1. file[k].dgram.from = auth_clt
          BY <2>3 DEF OnlyClient
    <3> QED
          BY <1>1, <1>4, <2>3, <3>1
  <2> QED
        BY <1>4, <2>1, <2>2, <2>3
<1> QED
      BY <1>1, <1>5 DEF OnlyClient, OthersNeverEnd

\* With same_client() before the test for an empty datagram, as the second
\* version has it, each step of the server keeps OnlyClient.
LEMMA ServerOnlyClient ==
    ASSUME Secure, TInv, OnlyClient, ServerNext
    PROVE  OnlyClient'
<1>1. CASE OpenFile
      BY <1>1 DEF OpenFile, OnlyClient, OthersNeverEnd
<1>2. CASE OpenFails \/ Timeout
      BY <1>2 DEF OpenFails, Timeout, Fail, OnlyClient, OthersNeverEnd
<1>3. ASSUME NEW d \in Datagram, AuthIgnores(d) \/ Ignore(d) PROVE OnlyClient'
  <2>1. UNCHANGED <<state, auth_clt, file, endedBy>>
        BY <1>3 DEF AuthIgnores, Ignore, server
  <2> QED
        BY <2>1, OthersStep
<1>4. ASSUME NEW d \in Datagram, AuthAccepts(d) PROVE OnlyClient'
  <2>1. file' = <<>> /\ state' = "open"
        BY <1>4 DEF AuthAccepts, OnlyClient
  <2> QED
        BY <2>1 DEF OnlyClient, OthersNeverEnd
<1>5. ASSUME NEW d \in Datagram, IdleExit(d) \/ TooLarge(d) PROVE OnlyClient'
      BY <1>5 DEF IdleExit, TooLarge, Fail, OnlyClient, OthersNeverEnd
<1>6. ASSUME NEW d \in Datagram, Finish(d) PROVE OnlyClient'
  <2>1. d.from = auth_clt
        BY <1>6 DEF Finish, EndsFirst, same_client
  <2>2. state' = "done" /\ endedBy' = d.from /\ UNCHANGED <<auth_clt, file>>
        BY <1>6 DEF Finish
  <2> QED
        BY <2>1, <2>2 DEF OnlyClient, OthersNeverEnd
<1>7. ASSUME NEW d \in Datagram, Write(d) PROVE OnlyClient'
      BY <1>7, WriteStep
<1>8. ASSUME NEW d \in Datagram, WriteFails(d) PROVE OnlyClient'
  <2>1. state = "recv" /\ state' = "failed" /\ UNCHANGED <<auth_clt, file, endedBy>>
        BY <1>8 DEF WriteFails, Data
  <2> QED
        BY <2>1 DEF OnlyClient, OthersNeverEnd
<1> QED
      BY <1>1, <1>2, <1>3, <1>4, <1>5, <1>6, <1>7, <1>8 DEF ServerNext

LEMMA StepIInv == Secure => (IInv /\ [Next]_vars => IInv')
<1> SUFFICES ASSUME Secure, IInv, [Next]_vars PROVE IInv'
    OBVIOUS
<1>1. TInv'
      BY StepTInv DEF IInv
<1>2. CASE ServerNext
      BY <1>1, <1>2, ServerOnlyClient DEF IInv
<1>3. CASE ClientNext \/ Environment \/ Tick \/ UNCHANGED vars
  <2>1. UNCHANGED <<state, auth_clt, file, endedBy>>
        BY <1>3 DEF ClientNext, SendToken, SendChunk, FileSent, SendEof,
                    SendFails, ClientDone, Sent, Environment, Deliver,
                    Duplicate, Lose, Stray, ClockSetBack, netUnchanged, Tick,
                    vars, server
  <2> QED
        BY <1>1, <2>1, OthersStep DEF IInv
<1> QED
      BY <1>2, <1>3 DEF Next

LEMMA InitIInv == Init => IInv
<1>1. Init => OnlyClient
      BY DEF Init, OnlyClient, OthersNeverEnd
<1> QED
      BY <1>1, InitTInv DEF IInv

\* The second version writes, and is ended by, nobody but the client whose
\* token it accepted, however many strangers send to its port and whatever
\* the network loses, repeats or reorders.  The first version does not: the
\* assumption Secure is what its "while (n)" lacks.
THEOREM OnlyClientSafe == Secure => (Spec => []OnlyClient)
<1>1. IInv => OnlyClient
      BY DEF IInv
<1>2. ASSUME Secure PROVE Spec => []OnlyClient
  <2>1. IInv /\ [Next]_vars => IInv'
        BY <1>2, StepIInv
  <2> QED
        BY <1>1, <2>1, InitIInv, PTL DEF Spec
<1> QED
      BY <1>2

-----------------------------------------------------------------------------
(* What is counted                                                         *)

\* A datagram is counted when it is written: the one write() that fails ends
\* the transfer at once.
Counted == Secure /\ state # "failed" => count = Len(file)

CInv == TInv /\ Counted

\* Whatever leaves the file and the count alone, and does not revive a
\* transfer that has failed.
LEMMA CountUnchanged ==
    ASSUME Counted, UNCHANGED <<file, count>>,
           state' = "failed" \/ state # "failed"
    PROVE  Counted'
BY DEF Counted

LEMMA WriteCounts ==
    ASSUME CInv, NEW d \in Datagram, Write(d)
    PROVE  Counted'
<1>1. PICK whole \in BOOLEAN : file' = Append(file, [dgram |-> d, whole |-> whole])
      BY DEF Write
<1>2. state = "recv" /\ UNCHANGED state /\ count' = count + 1
      BY DEF Write, Data
<1>3. file \in Seq(Piece) /\ [dgram |-> d, whole |-> whole] \in Piece
      BY DEF CInv, TInv, TypeOK, Piece
<1>4. Len(file') = Len(file) + 1
      BY <1>1, <1>3, AppendProperties
<1> QED
      BY <1>2, <1>4 DEF CInv, Counted

LEMMA StepCInv == CInv /\ [Next]_vars => CInv'
<1> SUFFICES ASSUME CInv, [Next]_vars PROVE CInv'
    OBVIOUS
<1>1. TInv'
      BY StepTInv DEF CInv
<1>2. CASE ServerNext
  <2>1. CASE OpenFile \/ OpenFails \/ Timeout
    <3>1. UNCHANGED <<file, count>> /\ state # "failed"
          BY <2>1 DEF OpenFile, OpenFails, Timeout, Fail
    <3> QED
          BY <1>1, <3>1, CountUnchanged DEF CInv
  <2>2. ASSUME NEW d \in Datagram,
               \/ AuthIgnores(d) \/ AuthAccepts(d) \/ IdleExit(d)
               \/ Ignore(d) \/ Finish(d) \/ TooLarge(d)
        PROVE  Counted'
    <3>1. UNCHANGED <<file, count>> /\ state # "failed"
          BY <2>2 DEF AuthIgnores, AuthAccepts, IdleExit, Ignore, Finish,
                      TooLarge, Data, Fail, server
    <3> QED
          BY <3>1, CountUnchanged DEF CInv
  <2>3. ASSUME NEW d \in Datagram, Write(d) PROVE Counted'
        BY <2>3, WriteCounts
  <2>4. ASSUME NEW d \in Datagram, WriteFails(d) PROVE Counted'
    <3>1. state' = "failed" \/ ~Secure
          BY <2>4 DEF WriteFails
    <3>2. UNCHANGED file
          BY <2>4 DEF WriteFails
    <3> QED
          BY <3>1, <3>2 DEF CInv, Counted
  <2> QED
        BY <1>1, <1>2, <2>1, <2>2, <2>3, <2>4 DEF ServerNext, CInv, Counted
<1>3. CASE ClientNext \/ Environment \/ Tick \/ UNCHANGED vars
  <2>1. UNCHANGED <<state, file, count>>
        BY <1>3 DEF ClientNext, SendToken, SendChunk, FileSent, SendEof,
                    SendFails, ClientDone, Sent, Environment, Deliver,
                    Duplicate, Lose, Stray, ClockSetBack, netUnchanged, Tick,
                    vars, server
  <2>2. Counted'
        BY <2>1 DEF CInv, Counted
  <2> QED
        BY <1>1, <2>2 DEF CInv
<1> QED
      BY <1>2, <1>3 DEF Next

\* The second server passes over no write() that returns -1: the transfer
\* that it reports as complete has given every datagram that it counted to the
\* disk, whatever the network and the clock do.  That the disk took the whole
\* of each is not claimed, and not so: a short write() is passed over.
THEOREM CountedSafe == Spec => []CountedIsWritten
<1>1. Init => CInv
  <2>1. Init => Counted
        BY DEF Init, Counted
  <2> QED
        BY <2>1, InitTInv DEF CInv
<1>2. CInv => CountedIsWritten
      BY DEF CInv, Counted, CountedIsWritten
<1> QED
      BY <1>1, <1>2, StepCInv, PTL DEF Spec

-----------------------------------------------------------------------------
(* InOrder and CompleteUnlessLost.  Over a network that keeps the order and *)
(* makes no duplicates, what a client sent stands in one line: first what   *)
(* is in the file, then what waits in the socket, then what is under way.   *)

Rank(d) == IF d.kind = "token" THEN 0 ELSE IF d.kind = "chunk" THEN d.i ELSE Chunks + 1
Before(d, e) == Rank(d) < Rank(e) \/ (d.kind = "empty" /\ e.kind = "empty")

\* The n-th place of the line has d, of c.
Written(c, n, d) == n \in 1 .. Len(file) /\ d = file[n].dgram /\ d.from = c
Waiting(c, n, d) ==
    \E i \in 1 .. Len(queue) : n = Len(file) + i /\ d = queue[i] /\ d.from = c
UnderWayAt(c, n, d) ==
    \E i \in 1 .. Len(net[c]) : n = Len(file) + Len(queue) + i /\ d = net[c][i]
Item(c, n, d) == Written(c, n, d) \/ Waiting(c, n, d) \/ UnderWayAt(c, n, d)

\* What c may have sent by now.
Real(c, d) ==
    /\ d.kind \in {"token", "chunk", "empty"}
    /\ d.kind = "chunk" <=> d.i # 0
    /\ cl[c] # "token"
    /\ cl[c] = "data" => Rank(d) < next[c]
    /\ d.kind = "empty" => cl[c] \in {"eof", "done"}

InLine(c) ==
    /\ \A n \in Nat, d \in Datagram : Item(c, n, d) => Real(c, d)
    /\ \A n, m \in Nat, d, e \in Datagram :
          n < m /\ Item(c, n, d) /\ Item(c, m, e) => Before(d, e)
    /\ cl[c] = "data" => next[c] \in 1 .. Chunks + 1

\* The file is of the client whose token was accepted.
FileOf ==
    /\ state = "auth" => file = <<>>
    /\ state # "auth" => auth_clt \in Clients /\ cl[auth_clt] # "token"
    /\ \A k \in 1 .. Len(file) :
          file[k].dgram.from = auth_clt /\ file[k].dgram.kind # "empty"

\* That token is nowhere any more, and so is not written.
NoToken ==
    /\ FileOf
    /\ state # "auth" =>
          \A n \in Nat, d \in Datagram : Item(auth_clt, n, d) => d.kind # "token"

Line == (\A c \in Clients : InLine(c)) /\ NoToken

\* The chunks that c has sent, until it fails.
SentBy(c) ==
    IF cl[c] = "data" THEN 1 .. next[c] - 1
    ELSE IF cl[c] \in {"eof", "done"} THEN 1 .. Chunks ELSE {}
Chunk(c, i) == Dgram(c, "chunk", i)
InSystem(c, d) == \E n \in Nat : Item(c, n, d)
Kept(c) == \A i \in SentBy(c) : Chunk(c, i) \in lost \/ InSystem(c, Chunk(c, i))

\* While its token or, later, its client is at work, nothing of c is missing.
NoneMissing ==
    /\ state = "auth" =>
          \A c \in Clients : InSystem(c, Dgram(c, "token", 0)) => Kept(c)
    /\ state \in {"open", "recv"} => Kept(auth_clt)
    /\ CompleteUnlessLost

\* One more, or one less, at a place of the line.
LEMMA Longer ==
    ASSUME NEW S, NEW s \in Seq(S), NEW e \in S, NEW t, t = Append(s, e)
    PROVE  /\ Len(s) \in Nat /\ Len(t) = Len(s) + 1
           /\ \A i \in 1 .. Len(s) : t[i] = s[i]
           /\ t[Len(s) + 1] = e
BY AppendProperties, LenProperties

LEMMA Shorter ==
    ASSUME NEW S, NEW s \in Seq(S), NEW k \in 1 .. Len(s), NEW t, t = RemoveAt(s, k)
    PROVE  /\ Len(s) \in Nat /\ Len(t) = Len(s) - 1
           /\ \A i \in 1 .. Len(t) : t[i] = IF i < k THEN s[i] ELSE s[i + 1]
<1>1. Len(s) \in Nat /\ k \in Nat /\ 1 <= k /\ k <= Len(s)
  BY LenProperties
<1>a. SubSeq(s, 1, k - 1) \in Seq(S) /\ SubSeq(s, k + 1, Len(s)) \in Seq(S)
  BY SubSeqProperties
<1>2. PICK a \in Seq(S) : a = SubSeq(s, 1, k - 1)
  BY <1>a, Zenon
<1>3. PICK b \in Seq(S) : b = SubSeq(s, k + 1, Len(s))
  BY <1>a, Zenon
<1>4. Len(a) = k - 1 /\ \A i \in 1 .. k - 1 : a[i] = s[i]
  <2>1. k - 1 \in 0 .. Len(s)
    BY <1>1
  <2> QED BY <1>1, <1>2, <2>1, SubSeqProperties
<1>5. Len(b) = Len(s) - k /\ \A i \in 1 .. Len(s) - k : b[i] = s[k + i]
  BY <1>1, <1>3, SubSeqProperties
<1>6. /\ Len(t) = Len(a) + Len(b)
      /\ \A i \in 1 .. Len(t) : t[i] = IF i <= Len(a) THEN a[i] ELSE b[i - Len(a)]
  <2>1. t = a \o b
    BY <1>2, <1>3 DEF RemoveAt
  <2>2. Len(a \o b) = Len(a) + Len(b)
    BY ConcatProperties
  <2>3. \A i \in 1 .. Len(a) + Len(b) :
            (a \o b)[i] = IF i <= Len(a) THEN a[i] ELSE b[i - Len(a)]
    BY ConcatProperties
  <2> QED BY <2>1, <2>2, <2>3
<1>7. Len(t) = Len(s) - 1
  BY <1>1, <1>4, <1>5, <1>6
<1>8. ASSUME NEW i \in 1 .. Len(t)
      PROVE  t[i] = IF i < k THEN s[i] ELSE s[i + 1]
  <2>0. i \in Nat /\ i >= 1 /\ i <= Len(s) - 1
    BY <1>1, <1>7
  <2>1. CASE i < k
    <3>1. i \in 1 .. k - 1 /\ i <= Len(a)
      BY <1>1, <1>4, <2>0, <2>1
    <3> QED BY <1>4, <1>6, <2>1, <3>1
  <2>2. CASE i >= k
    <3>1. PICK j \in Nat : j = i - Len(a)
      BY <1>1, <1>4, <2>0, <2>2
    <3>2. j \in 1 .. Len(s) - k /\ k + j = i + 1 /\ ~(i <= Len(a)) /\ ~(i < k)
      BY <1>1, <1>4, <2>0, <2>2, <3>1
    <3>3. t[i] = b[j]
      BY <1>6, <3>1, <3>2
    <3>4. b[j] = s[k + j]
      BY <1>5, <3>2
    <3> QED BY <3>2, <3>3, <3>4
  <2> QED BY <1>1, <2>0, <2>1, <2>2
<1> QED BY <1>1, <1>7, <1>8

LEMMA WithoutHead ==
    ASSUME NEW S, NEW s \in Seq(S), s # <<>>, NEW t, t = Tail(s)
    PROVE  /\ Len(s) \in Nat /\ Len(s) >= 1 /\ Len(t) = Len(s) - 1 /\ Head(s) = s[1]
           /\ \A i \in 1 .. Len(t) : t[i] = s[i + 1]
BY HeadTailProperties, LenProperties, EmptySeq

LEMMA Lengths ==
    ASSUME TInv
    PROVE  /\ Len(file) \in Nat /\ Len(queue) \in Nat
           /\ \A c \in Clients : Len(net[c]) \in Nat /\ net[c] \in Seq(Datagram)
BY LenProperties DEF TInv, TypeOK

\* Each change moves the line as a whole, or from a place on.
LEMMA LineSame ==
    ASSUME NEW c, UNCHANGED <<file, queue>>, net'[c] = net[c]
    PROVE  \A n, d : Item(c, n, d)' <=> Item(c, n, d)
BY DEF Item, Written, Waiting, UnderWayAt

\* c sends d.
LEMMA LineSends ==
    ASSUME TInv, NEW c \in Clients, NEW e \in Datagram,
           UNCHANGED <<file, queue>>, net'[c] = Append(net[c], e)
    PROVE  \E m \in Nat :
               /\ \A n, d : Item(c, n, d) => n < m
               /\ \A n, d : Item(c, n, d)' <=> Item(c, n, d) \/ (n = m /\ d = e)
<1>1. /\ Len(file) \in Nat /\ Len(queue) \in Nat /\ Len(net[c]) \in Nat
      /\ Len(net'[c]) = Len(net[c]) + 1
      /\ \A i \in 1 .. Len(net[c]) : net'[c][i] = net[c][i]
      /\ net'[c][Len(net[c]) + 1] = e
  <2>1. PICK s \in Seq(Datagram) : s = net[c]
    BY Lengths
  <2>2. PICK t : t = net'[c] /\ t = Append(s, e)
    BY <2>1
  <2> QED BY <2>1, <2>2, Lengths, Longer
<1>n. Len(file) \in Nat /\ Len(queue) \in Nat /\ Len(net[c]) \in Nat
  BY Lengths
<1>f. PICK f \in Nat : f = Len(file)
  BY <1>n
<1>q. PICK q \in Nat : q = Len(queue)
  BY <1>n
<1>l. PICK l \in Nat : l = Len(net[c])
  BY <1>n
<1>0. PICK m \in Nat : m = f + q + l + 1
  OBVIOUS
<1>2. \A n, d : Item(c, n, d) => n < m
  <2>1. ASSUME NEW n, NEW d, Written(c, n, d) PROVE n < m
    <3>1. n \in Nat /\ n <= f
      BY <1>f, <2>1 DEF Written
    <3> QED BY <1>0, <3>1
  <2>2. ASSUME NEW n, NEW d, Waiting(c, n, d) PROVE n < m
    <3>1. PICK i \in 1 .. q : n = f + i
      BY <1>f, <1>q, <2>2 DEF Waiting
    <3> QED BY <1>0, <3>1
  <2>3. ASSUME NEW n, NEW d, UnderWayAt(c, n, d) PROVE n < m
    <3>1. PICK i \in 1 .. l : n = f + q + i
      BY <1>f, <1>q, <1>l, <2>3 DEF UnderWayAt
    <3> QED BY <1>0, <3>1
  <2> QED BY <2>1, <2>2, <2>3 DEF Item
<1>3. ASSUME NEW n, NEW d
      PROVE  UnderWayAt(c, n, d)' <=> UnderWayAt(c, n, d) \/ (n = m /\ d = e)
  <2>1. \A i : i \in 1 .. Len(net'[c]) <=> i \in 1 .. Len(net[c]) \/ i = Len(net[c]) + 1
    BY <1>1
  <2>2. UnderWayAt(c, n, d)' <=>
          \E i \in 1 .. Len(net'[c]) : n = Len(file) + Len(queue) + i /\ d = net'[c][i]
    BY DEF UnderWayAt
  <2>3. m = Len(file) + Len(queue) + (Len(net[c]) + 1)
    <3>1. m = f + q + (l + 1)
      BY <1>0
    <3> QED BY <1>f, <1>q, <1>l, <3>1
  <2> QED BY <1>1, <2>1, <2>2, <2>3 DEF UnderWayAt
<1>4. \A n, d : /\ Written(c, n, d)' <=> Written(c, n, d)
                /\ Waiting(c, n, d)' <=> Waiting(c, n, d)
  BY DEF Written, Waiting
<1>6. \A n, d : Item(c, n, d)' <=> Item(c, n, d) \/ (n = m /\ d = e)
  BY <1>3, <1>4 DEF Item
<1> QED BY <1>0, <1>2, <1>6

\* The first that is under way gets into the socket.
LEMMA LineArrives ==
    ASSUME TInv, NEW c \in Clients, net[c] # <<>>, net'[c] = Tail(net[c]),
           UNCHANGED file, queue' = Append(queue, net[c][1])
    PROVE  \A n, d : Item(c, n, d)' <=> Item(c, n, d)
<1>1. /\ Len(file) \in Nat /\ Len(queue) \in Nat
      /\ Len(net[c]) \in Nat /\ Len(net[c]) >= 1 /\ Len(net'[c]) = Len(net[c]) - 1
      /\ \A i \in 1 .. Len(net'[c]) : net'[c][i] = net[c][i + 1]
  BY Lengths, WithoutHead
<1>2. net[c][1] \in Datagram /\ net[c][1].from = c
  BY <1>1, UnderWay DEF Of
<1>3. /\ Len(queue') = Len(queue) + 1
      /\ \A i \in 1 .. Len(queue) : queue'[i] = queue[i]
      /\ queue'[Len(queue) + 1] = net[c][1]
  BY <1>2, Longer DEF TInv, TypeOK
<1> SUFFICES ASSUME NEW n, NEW d PROVE Item(c, n, d)' <=> Item(c, n, d)
  OBVIOUS
<1> DEFINE m == Len(file) + Len(queue) + 1
<1>4. Written(c, n, d)' <=> Written(c, n, d)
  BY DEF Written
<1>5. Waiting(c, n, d)' <=> Waiting(c, n, d) \/ (n = m /\ d = net[c][1])
  <2>1. \A i : i \in 1 .. Len(queue') <=> i \in 1 .. Len(queue) \/ i = Len(queue) + 1
    BY <1>1, <1>3
  <2>2. Waiting(c, n, d)' <=>
          \E i \in 1 .. Len(queue') : n = Len(file) + i /\ d = queue'[i] /\ d.from = c
    BY DEF Waiting
  <2>3. n = m <=> n = Len(file) + (Len(queue) + 1)
    BY <1>1
  <2> QED BY <1>1, <1>2, <1>3, <2>1, <2>2, <2>3 DEF Waiting
<1>6. UnderWayAt(c, n, d) <=> UnderWayAt(c, n, d)' \/ (n = m /\ d = net[c][1])
  <2>1. ASSUME UnderWayAt(c, n, d)
        PROVE  UnderWayAt(c, n, d)' \/ (n = m /\ d = net[c][1])
    <3>1. PICK i \in 1 .. Len(net[c]) : n = Len(file) + Len(queue) + i /\ d = net[c][i]
      BY <2>1 DEF UnderWayAt
    <3>2. CASE i = 1
      BY <1>1, <3>1, <3>2
    <3>3. CASE i # 1
      <4>1. PICK j \in Nat : j = i - 1
        BY <1>1, <3>1, <3>3
      <4>2. j \in 1 .. Len(net'[c]) /\ n = Len(file) + (Len(queue) + 1) + j /\ i = j + 1
        BY <1>1, <3>1, <3>3, <4>1
      <4> QED BY <1>1, <1>3, <3>1, <4>2 DEF UnderWayAt
    <3> QED BY <3>2, <3>3
  <2>2. ASSUME UnderWayAt(c, n, d)' PROVE UnderWayAt(c, n, d)
    <3>1. PICK j \in 1 .. Len(net'[c]) : n = Len(file) + Len(queue') + j /\ d = net'[c][j]
      BY <2>2 DEF UnderWayAt
    <3>2. PICK i \in Nat : i = j + 1
      BY <1>1, <3>1
    <3>3. i \in 1 .. Len(net[c]) /\ n = Len(file) + Len(queue) + i /\ d = net[c][i]
      BY <1>1, <1>3, <3>1, <3>2
    <3> QED BY <3>3 DEF UnderWayAt
  <2>3. ASSUME n = m, d = net[c][1] PROVE UnderWayAt(c, n, d)
    BY <1>1, <2>3 DEF UnderWayAt
  <2> QED BY <2>1, <2>2, <2>3
<1> QED BY <1>4, <1>5, <1>6 DEF Item

\* Somebody else's gets into the socket.
LEMMA LineWidens ==
    ASSUME TInv, NEW c \in Clients, NEW e \in Datagram, e.from # c, net'[c] = net[c],
           UNCHANGED file, queue' = Append(queue, e)
    PROVE  \E m \in Nat :
               /\ \A n, d : Item(c, n, d)' =>
                     \/ n < m /\ Item(c, n, d)
                     \/ n > m /\ n \in Nat /\ Item(c, n - 1, d)
               /\ \A n, d : Item(c, n, d) => Item(c, n, d)' \/ Item(c, n + 1, d)'
<1> DEFINE m == Len(file) + Len(queue) + 1
<1>1. /\ Len(file) \in Nat /\ Len(queue) \in Nat /\ Len(net[c]) \in Nat /\ m \in Nat
      /\ Len(queue') = Len(queue) + 1
      /\ \A i \in 1 .. Len(queue) : queue'[i] = queue[i]
      /\ queue'[Len(queue) + 1] = e
  BY Lengths, Longer DEF TInv, TypeOK
<1>2. \A n, d : /\ Written(c, n, d)' <=> Written(c, n, d)
                /\ Written(c, n, d) => n < m
  BY <1>1 DEF Written
<1>3. \A n, d : Waiting(c, n, d)' <=> Waiting(c, n, d)
  <2>1. \A i : i \in 1 .. Len(queue') <=> i \in 1 .. Len(queue) \/ i = Len(queue) + 1
    BY <1>1
  <2> QED BY <1>1, <2>1 DEF Waiting
<1>4. \A n, d : Waiting(c, n, d) => n < m
  BY <1>1 DEF Waiting
<1>5. ASSUME NEW n, NEW d, UnderWayAt(c, n, d)'
      PROVE  n > m /\ n \in Nat /\ UnderWayAt(c, n - 1, d)
  <2>1. PICK i \in 1 .. Len(net[c]) : n = Len(file) + Len(queue') + i /\ d = net[c][i]
    BY <1>5 DEF UnderWayAt
  <2>2. n > m /\ n \in Nat /\ n - 1 = Len(file) + Len(queue) + i
    BY <1>1, <2>1
  <2> QED BY <2>1, <2>2 DEF UnderWayAt
<1>6. ASSUME NEW n, NEW d, UnderWayAt(c, n, d) PROVE UnderWayAt(c, n + 1, d)'
  <2>1. PICK i \in 1 .. Len(net[c]) : n = Len(file) + Len(queue) + i /\ d = net[c][i]
    BY <1>6 DEF UnderWayAt
  <2>2. n + 1 = Len(file) + Len(queue') + i
    BY <1>1, <2>1
  <2> QED BY <2>1, <2>2 DEF UnderWayAt
<1>7. \A n, d : Item(c, n, d)' =>
          (n < m /\ Item(c, n, d)) \/ (n > m /\ n \in Nat /\ Item(c, n - 1, d))
  BY <1>2, <1>3, <1>4, <1>5 DEF Item
<1>8. \A n, d : Item(c, n, d) => Item(c, n, d)' \/ Item(c, n + 1, d)'
  BY <1>2, <1>3, <1>6 DEF Item
<1> QED BY <1>1, <1>7, <1>8

\* One under way is lost.
LEMMA LineLoses ==
    ASSUME TInv, NEW c \in Clients, NEW k \in 1 .. Len(net[c]),
           net'[c] = RemoveAt(net[c], k), UNCHANGED <<file, queue>>
    PROVE  \E m \in Nat :
               /\ \A n, d : Item(c, n, d)' =>
                     (n < m /\ Item(c, n, d)) \/ (n >= m /\ Item(c, n + 1, d))
               /\ \A n \in Nat : \A d : Item(c, n, d) =>
                     Item(c, n, d)' \/ Item(c, n - 1, d)' \/ d = net[c][k]
<1>1. /\ Len(file) \in Nat /\ Len(queue) \in Nat /\ Len(net[c]) \in Nat
      /\ k \in Nat /\ 1 <= k /\ k <= Len(net[c])
      /\ Len(net'[c]) = Len(net[c]) - 1
      /\ \A i \in 1 .. Len(net'[c]) :
            net'[c][i] = IF i < k THEN net[c][i] ELSE net[c][i + 1]
  <2>1. PICK s \in Seq(Datagram) : s = net[c]
    BY Lengths
  <2>2. PICK t : t = net'[c] /\ t = RemoveAt(s, k)
    BY <2>1
  <2>3. k \in 1 .. Len(s)
    BY <2>1
  <2>4. /\ Len(s) \in Nat /\ Len(t) = Len(s) - 1
        /\ \A i \in 1 .. Len(t) : t[i] = IF i < k THEN s[i] ELSE s[i + 1]
    BY <2>2, <2>3, Shorter
  <2>5. k \in Nat /\ 1 <= k /\ k <= Len(s)
    BY <2>3, <2>4
  <2> QED BY <2>1, <2>2, <2>4, <2>5, Lengths
<1>a. Len(file) + Len(queue) + k \in Nat
  BY <1>1
<1>b. PICK m \in Nat : m = Len(file) + Len(queue) + k
  BY <1>a, Zenon
<1>2. \A n, d : /\ Written(c, n, d)' <=> Written(c, n, d)
                /\ Waiting(c, n, d)' <=> Waiting(c, n, d)
                /\ Written(c, n, d) \/ Waiting(c, n, d) => n < m
  BY <1>1, <1>b DEF Written, Waiting
<1>3. ASSUME NEW n, NEW d, UnderWayAt(c, n, d)'
      PROVE  (n < m /\ UnderWayAt(c, n, d)) \/ (n >= m /\ UnderWayAt(c, n + 1, d))
  <2>1. PICK i \in 1 .. Len(net'[c]) : n = Len(file) + Len(queue) + i /\ d = net'[c][i]
    BY <1>3 DEF UnderWayAt
  <2>2. CASE i < k
    <3>1. i \in 1 .. Len(net[c]) /\ n < m /\ d = net[c][i]
      BY <1>1, <1>b, <2>1, <2>2
    <3> QED BY <2>1, <3>1 DEF UnderWayAt
  <2>3. CASE i >= k
    <3>1. PICK j \in Nat : j = i + 1
      BY <1>1, <2>1
    <3>2. j \in 1 .. Len(net[c]) /\ n + 1 = Len(file) + Len(queue) + j /\ d = net[c][j]
      BY <1>1, <2>1, <2>3, <3>1
    <3>3. n >= m
      BY <1>1, <1>b, <2>1, <2>3
    <3> QED BY <3>2, <3>3 DEF UnderWayAt
  <2> QED BY <1>1, <2>1, <2>2, <2>3
<1>4. ASSUME NEW n \in Nat, NEW d, UnderWayAt(c, n, d)
      PROVE  UnderWayAt(c, n, d)' \/ UnderWayAt(c, n - 1, d)' \/ d = net[c][k]
  <2>1. PICK i \in 1 .. Len(net[c]) : n = Len(file) + Len(queue) + i /\ d = net[c][i]
    BY <1>4 DEF UnderWayAt
  <2>2. CASE i < k
    <3>1. i \in 1 .. Len(net'[c]) /\ net'[c][i] = d
      BY <1>1, <2>1, <2>2
    <3> QED BY <2>1, <3>1 DEF UnderWayAt
  <2>3. CASE i > k
    <3>1. PICK j \in Nat : j = i - 1
      BY <1>1, <2>1, <2>3
    <3>2. j \in 1 .. Len(net'[c]) /\ n - 1 = Len(file) + Len(queue) + j /\ net'[c][j] = d
      BY <1>1, <2>1, <2>3, <3>1
    <3> QED BY <3>2 DEF UnderWayAt
  <2>4. CASE i = k
    BY <2>1, <2>4
  <2> QED BY <1>1, <2>1, <2>2, <2>3, <2>4
<1>5. \A n, d : Item(c, n, d)' =>
          (n < m /\ Item(c, n, d)) \/ (n >= m /\ Item(c, n + 1, d))
  BY <1>2, <1>3 DEF Item
<1>6. \A n \in Nat : \A d : Item(c, n, d) =>
          Item(c, n, d)' \/ Item(c, n - 1, d)' \/ d = net[c][k]
  BY <1>2, <1>4 DEF Item
<1> QED BY <1>b, <1>5, <1>6

\* The server takes the head of the queue and does not write it.
LEMMA LineTakes ==
    ASSUME TInv, NEW c \in Clients, queue # <<>>, queue' = Tail(queue),
           net'[c] = net[c], UNCHANGED file
    PROVE  /\ \A n, d : Item(c, n, d)' =>
                 \/ n < Len(file) + 1 /\ Item(c, n, d)
                 \/ n >= Len(file) + 1 /\ Item(c, n + 1, d)
           /\ \A n \in Nat : \A d : Item(c, n, d) =>
                 \/ Item(c, n, d)' \/ Item(c, n - 1, d)'
                 \/ d = Head(queue) /\ d.from = c
<1> DEFINE m == Len(file) + 1
<1>1. /\ Len(file) \in Nat /\ Len(queue) \in Nat /\ Len(net[c]) \in Nat /\ m \in Nat
      /\ Len(queue) >= 1 /\ Len(queue') = Len(queue) - 1 /\ Head(queue) = queue[1]
      /\ \A i \in 1 .. Len(queue') : queue'[i] = queue[i + 1]
  BY Lengths, WithoutHead DEF TInv, TypeOK
<1>2. \A n, d : Written(c, n, d)' <=> Written(c, n, d)
  BY DEF Written
<1>3. \A n, d : Written(c, n, d) => n < m
  BY <1>1 DEF Written
<1>4. ASSUME NEW n, NEW d, Waiting(c, n, d)' PROVE n >= m /\ Waiting(c, n + 1, d)
  <2>1. PICK i \in 1 .. Len(queue') : n = Len(file) + i /\ d = queue'[i] /\ d.from = c
    BY <1>4 DEF Waiting
  <2>2. PICK j \in Nat : j = i + 1
    BY <1>1, <2>1
  <2>3. j \in 1 .. Len(queue) /\ n + 1 = Len(file) + j /\ d = queue[j] /\ n >= m
    BY <1>1, <2>1, <2>2
  <2> QED BY <2>1, <2>3 DEF Waiting
<1>5. ASSUME NEW n, NEW d, UnderWayAt(c, n, d)' PROVE n >= m /\ UnderWayAt(c, n + 1, d)
  <2>1. PICK i \in 1 .. Len(net[c]) : n = Len(file) + Len(queue') + i /\ d = net[c][i]
    BY <1>5 DEF UnderWayAt
  <2>2. n + 1 = Len(file) + Len(queue) + i /\ n >= m
    BY <1>1, <2>1
  <2> QED BY <2>1, <2>2 DEF UnderWayAt
<1>6. ASSUME NEW n \in Nat, NEW d, Waiting(c, n, d)
      PROVE  Waiting(c, n - 1, d)' \/ (d = Head(queue) /\ d.from = c)
  <2>1. PICK i \in 1 .. Len(queue) : n = Len(file) + i /\ d = queue[i] /\ d.from = c
    BY <1>6 DEF Waiting
  <2>2. CASE i = 1
    BY <1>1, <2>1, <2>2
  <2>3. CASE i # 1
    <3>1. PICK j \in Nat : j = i - 1
      BY <1>1, <2>1, <2>3
    <3>2. j \in 1 .. Len(queue') /\ n - 1 = Len(file) + j /\ d = queue'[j]
      BY <1>1, <2>1, <2>3, <3>1
    <3> QED BY <2>1, <3>2 DEF Waiting
  <2> QED BY <2>2, <2>3
<1>7. ASSUME NEW n \in Nat, NEW d, UnderWayAt(c, n, d) PROVE UnderWayAt(c, n - 1, d)'
  <2>1. PICK i \in 1 .. Len(net[c]) : n = Len(file) + Len(queue) + i /\ d = net[c][i]
    BY <1>7 DEF UnderWayAt
  <2>2. n - 1 = Len(file) + Len(queue') + i
    BY <1>1, <2>1
  <2> QED BY <2>1, <2>2 DEF UnderWayAt
<1>8. \A n, d : Item(c, n, d)' =>
          (n < m /\ Item(c, n, d)) \/ (n >= m /\ Item(c, n + 1, d))
  BY <1>2, <1>3, <1>4, <1>5 DEF Item
<1>9. \A n \in Nat : \A d : Item(c, n, d) =>
          Item(c, n, d)' \/ Item(c, n - 1, d)' \/ (d = Head(queue) /\ d.from = c)
  BY <1>2, <1>6, <1>7 DEF Item
<1> QED BY <1>1, <1>8, <1>9

\* The server writes the head of the queue.
LEMMA LineWrites ==
    ASSUME TInv, NEW c \in Clients, queue # <<>>, queue' = Tail(queue), net'[c] = net[c],
           NEW piece \in Piece, file' = Append(file, piece), piece.dgram = Head(queue)
    PROVE  \A n \in Nat : \A d : Item(c, n, d)' <=> Item(c, n, d)
<1>1. /\ Len(file) \in Nat /\ Len(queue) \in Nat /\ Len(net[c]) \in Nat
      /\ Len(queue) >= 1 /\ Len(queue') = Len(queue) - 1 /\ Head(queue) = queue[1]
      /\ \A i \in 1 .. Len(queue') : queue'[i] = queue[i + 1]
  BY Lengths, WithoutHead DEF TInv, TypeOK
<1>2. /\ Len(file') = Len(file) + 1
      /\ \A i \in 1 .. Len(file) : file'[i] = file[i]
      /\ file'[Len(file) + 1] = piece
  BY Longer DEF TInv, TypeOK
<1> SUFFICES ASSUME NEW n \in Nat, NEW d PROVE Item(c, n, d)' <=> Item(c, n, d)
  OBVIOUS
<1> DEFINE first == n = Len(file) + 1 /\ d = Head(queue) /\ d.from = c
<1>3. Written(c, n, d)' <=> Written(c, n, d) \/ first
  <2>1. n \in 1 .. Len(file') <=> n \in 1 .. Len(file) \/ n = Len(file) + 1
    BY <1>1, <1>2
  <2>2. n \in 1 .. Len(file) => n # Len(file) + 1
    BY <1>1
  <2> QED BY <1>2, <2>1, <2>2 DEF Written
<1>4. Waiting(c, n, d) <=> Waiting(c, n, d)' \/ first
  <2>1. ASSUME Waiting(c, n, d) PROVE Waiting(c, n, d)' \/ first
    <3>1. PICK i \in 1 .. Len(queue) : n = Len(file) + i /\ d = queue[i] /\ d.from = c
      BY <2>1 DEF Waiting
    <3>2. CASE i = 1
      BY <1>1, <3>1, <3>2
    <3>3. CASE i # 1
      <4>1. PICK j \in Nat : j = i - 1
        BY <1>1, <3>1, <3>3
      <4>2. j \in 1 .. Len(queue') /\ n = Len(file') + j /\ d = queue'[j]
        BY <1>1, <1>2, <3>1, <3>3, <4>1
      <4> QED BY <3>1, <4>2 DEF Waiting
    <3> QED BY <3>2, <3>3
  <2>2. ASSUME Waiting(c, n, d)' PROVE Waiting(c, n, d)
    <3>1. PICK i \in 1 .. Len(queue') : n = Len(file') + i /\ d = queue'[i] /\ d.from = c
      BY <2>2 DEF Waiting
    <3>2. PICK j \in Nat : j = i + 1
      BY <1>1, <3>1
    <3>3. j \in 1 .. Len(queue) /\ n = Len(file) + j /\ d = queue[j]
      BY <1>1, <1>2, <3>1, <3>2
    <3> QED BY <3>1, <3>3 DEF Waiting
  <2>3. ASSUME first PROVE Waiting(c, n, d)
    <3>1. 1 \in 1 .. Len(queue)
      BY <1>1
    <3> QED BY <1>1, <2>3, <3>1 DEF Waiting
  <2> QED BY <2>1, <2>2, <2>3
<1>5. UnderWayAt(c, n, d)' <=> UnderWayAt(c, n, d)
  <2>1. Len(file') + Len(queue') = Len(file) + Len(queue)
    BY <1>1, <1>2
  <2> QED BY <2>1 DEF UnderWayAt
<1> QED BY <1>3, <1>4, <1>5 DEF Item

\* What of c is in the system was there before, in the same order.
Follows(c) ==
    /\ \A n \in Nat : \A d : Item(c, n, d)' => \E a \in Nat : Item(c, a, d)
    /\ \A n, k \in Nat : \A d, e : n < k /\ Item(c, n, d)' /\ Item(c, k, e)' =>
           \E a, b \in Nat : a < b /\ Item(c, a, d) /\ Item(c, b, e)

\* And it stays there, all but those in out.
Stays(c, out) ==
    \A n \in Nat : \A d : Item(c, n, d) => d \in out \/ \E a \in Nat : Item(c, a, d)'

LEMMA Place ==
    ASSUME TInv, NEW c \in Clients, NEW n, NEW d, Item(c, n, d)
    PROVE  n \in Nat /\ n >= 1 /\ d.from = c /\ d \in Datagram
<1>1. CASE Written(c, n, d)
  <2>1. n \in 1 .. Len(file) /\ d = file[n].dgram /\ d.from = c
    BY <1>1 DEF Written
  <2>2. file[n] \in Piece
    BY <2>1 DEF TInv, TypeOK
  <2> QED BY <2>1, <2>2, Lengths DEF Piece
<1>2. CASE Waiting(c, n, d)
  <2>1. PICK i \in 1 .. Len(queue) : n = Len(file) + i /\ d = queue[i] /\ d.from = c
    BY <1>2 DEF Waiting
  <2>2. d \in Datagram
    BY <2>1 DEF TInv, TypeOK
  <2> QED BY <2>1, <2>2, Lengths
<1>3. CASE UnderWayAt(c, n, d)
  <2>1. PICK i \in 1 .. Len(net[c]) : n = Len(file) + Len(queue) + i /\ d = net[c][i]
    BY <1>3 DEF UnderWayAt
  <2>2. d \in Datagram /\ d.from = c
    BY <2>1, UnderWay DEF Of
  <2> QED BY <2>1, <2>2, Lengths
<1> QED BY <1>1, <1>2, <1>3 DEF Item

LEMMA FollowsSame ==
    ASSUME NEW c, \A n \in Nat : \A d : Item(c, n, d)' <=> Item(c, n, d)
    PROVE  Follows(c) /\ \A out : Stays(c, out)
<1>1. \A n \in Nat : \A d : Item(c, n, d)' => \E a \in Nat : Item(c, a, d)
  OBVIOUS
<1>2. \A n, k \in Nat : \A d, e : n < k /\ Item(c, n, d)' /\ Item(c, k, e)' =>
          \E a, b \in Nat : a < b /\ Item(c, a, d) /\ Item(c, b, e)
  OBVIOUS
<1> QED BY <1>1, <1>2 DEF Follows, Stays

LEMMA FollowsShorter ==
    ASSUME NEW c, NEW m \in Nat,
           \A n \in Nat : \A d : Item(c, n, d)' =>
               (n < m /\ Item(c, n, d)) \/ (n >= m /\ Item(c, n + 1, d))
    PROVE  Follows(c)
<1>1. ASSUME NEW n \in Nat, NEW d, Item(c, n, d)' PROVE \E a \in Nat : Item(c, a, d)
  <2>1. Item(c, n, d) \/ Item(c, n + 1, d)
    BY <1>1
  <2>2. n + 1 \in Nat
    OBVIOUS
  <2> QED BY <2>1, <2>2
<1>2. ASSUME NEW n \in Nat, NEW k \in Nat, NEW d, NEW e, n < k,
             Item(c, n, d)', Item(c, k, e)'
      PROVE  \E a, b \in Nat : a < b /\ Item(c, a, d) /\ Item(c, b, e)
  <2>1. PICK a \in Nat : Item(c, a, d) /\ ((n < m /\ a = n) \/ (n >= m /\ a = n + 1))
    <3>1. n + 1 \in Nat
      OBVIOUS
    <3> QED BY <1>2, <3>1
  <2>2. PICK b \in Nat : Item(c, b, e) /\ ((k < m /\ b = k) \/ (k >= m /\ b = k + 1))
    <3>1. k + 1 \in Nat
      OBVIOUS
    <3> QED BY <1>2, <3>1
  <2>3. a < b
    BY <1>2, <2>1, <2>2
  <2> QED BY <2>1, <2>2, <2>3
<1> QED BY <1>1, <1>2 DEF Follows

LEMMA FollowsWider ==
    ASSUME NEW c, NEW m \in Nat,
           \A n, d : Item(c, n, d)' =>
               (n < m /\ Item(c, n, d)) \/ (n > m /\ n \in Nat /\ Item(c, n - 1, d))
    PROVE  Follows(c)
<1>1. ASSUME NEW n \in Nat, NEW d, Item(c, n, d)' PROVE \E a \in Nat : Item(c, a, d)
  <2>1. Item(c, n, d) \/ (n > m /\ Item(c, n - 1, d))
    BY <1>1
  <2>2. n > m => n - 1 \in Nat
    OBVIOUS
  <2> QED BY <2>1, <2>2
<1>2. ASSUME NEW n \in Nat, NEW k \in Nat, NEW d, NEW e, n < k,
             Item(c, n, d)', Item(c, k, e)'
      PROVE  \E a, b \in Nat : a < b /\ Item(c, a, d) /\ Item(c, b, e)
  <2>1. PICK a \in Nat : Item(c, a, d) /\ ((n < m /\ a = n) \/ (n > m /\ a = n - 1))
    <3>1. n > m => n - 1 \in Nat
      OBVIOUS
    <3> QED BY <1>2, <3>1
  <2>2. PICK b \in Nat : Item(c, b, e) /\ ((k < m /\ b = k) \/ (k > m /\ b = k - 1))
    <3>1. k > m => k - 1 \in Nat
      OBVIOUS
    <3> QED BY <1>2, <3>1
  <2>3. a < b
    BY <1>2, <2>1, <2>2
  <2> QED BY <2>1, <2>2, <2>3
<1> QED BY <1>1, <1>2 DEF Follows

LEMMA StaysShorter ==
    ASSUME TInv, NEW c \in Clients, NEW out,
           \A n \in Nat : \A d : Item(c, n, d) =>
               Item(c, n, d)' \/ Item(c, n - 1, d)' \/ d \in out
    PROVE  Stays(c, out)
<1> SUFFICES ASSUME NEW n \in Nat, NEW d, Item(c, n, d)
             PROVE  d \in out \/ \E a \in Nat : Item(c, a, d)'
  BY DEF Stays
<1>1. n >= 1
  BY Place
<1>2. n - 1 \in Nat
  BY <1>1
<1> QED BY <1>2

LEMMA StaysWider ==
    ASSUME NEW c, \A n, d : Item(c, n, d) => Item(c, n, d)' \/ Item(c, n + 1, d)'
    PROVE  \A out : Stays(c, out)
<1> SUFFICES ASSUME NEW n \in Nat, NEW d, Item(c, n, d)
             PROVE  \E a \in Nat : Item(c, a, d)'
  BY DEF Stays
<1>1. n + 1 \in Nat
  OBVIOUS
<1> QED BY <1>1

\* The line is kept when its client does nothing.
LEMMA LineFollows ==
    ASSUME NEW c, InLine(c), Follows(c), cl'[c] = cl[c], next'[c] = next[c]
    PROVE  InLine(c)'
<1>1. \A d : Real(c, d) <=> Real(c, d)'
  BY DEF Real
<1>2. ASSUME NEW n \in Nat, NEW d \in Datagram, Item(c, n, d)' PROVE Real(c, d)'
  <2>1. PICK a \in Nat : Item(c, a, d)
    BY <1>2 DEF Follows
  <2> QED BY <1>1, <2>1 DEF InLine
<1>3. ASSUME NEW n \in Nat, NEW m \in Nat, NEW d \in Datagram, NEW e \in Datagram,
             n < m, Item(c, n, d)', Item(c, m, e)'
      PROVE  Before(d, e)
  <2>1. PICK a \in Nat, b \in Nat : a < b /\ Item(c, a, d) /\ Item(c, b, e)
    BY <1>3 DEF Follows
  <2> QED BY <2>1 DEF InLine
<1>4. cl'[c] = "data" => next'[c] \in 1 .. Chunks + 1
  BY DEF InLine
<1> QED BY <1>2, <1>3, <1>4 DEF InLine, Before, Rank

\* Or when it only changes its phase.
LEMMA LineSameReal ==
    ASSUME NEW c, InLine(c), \A n \in Nat : \A d : Item(c, n, d)' <=> Item(c, n, d),
           \A n \in Nat, d \in Datagram : Item(c, n, d) /\ Real(c, d) => Real(c, d)',
           cl'[c] = "data" => next'[c] \in 1 .. Chunks + 1
    PROVE  InLine(c)'
BY DEF InLine, Before, Rank

\* Or sends what comes after all that it sent before.
LEMMA LineLonger ==
    ASSUME NEW c, InLine(c), NEW new \in Datagram, NEW m \in Nat,
           \A n, d : Item(c, n, d) => n < m,
           \A n, d : Item(c, n, d)' <=> Item(c, n, d) \/ (n = m /\ d = new),
           \A n \in Nat, d \in Datagram : Item(c, n, d) => Real(c, d)' /\ Before(d, new),
           Real(c, new)', cl'[c] = "data" => next'[c] \in 1 .. Chunks + 1
    PROVE  InLine(c)'
<1>1. \A n \in Nat, d \in Datagram : Item(c, n, d)' => Real(c, d)'
  OBVIOUS
<1>2. ASSUME NEW n \in Nat, NEW k \in Nat, NEW d \in Datagram, NEW e \in Datagram,
             n < k, Item(c, n, d)', Item(c, k, e)'
      PROVE  Before(d, e)
  <2>1. CASE Item(c, n, d) /\ Item(c, k, e)
    BY <1>2, <2>1 DEF InLine
  <2>2. CASE Item(c, n, d) /\ k = m /\ e = new
    BY <2>2
  <2>3. CASE n = m /\ d = new
    <3>1. k < m \/ k = m
      BY <1>2
    <3> QED BY <1>2, <2>3, <3>1
  <2> QED BY <1>2, <2>1, <2>2, <2>3
<1> QED BY <1>1, <1>2 DEF InLine, Before, Rank

\* One datagram of c is lost.
LEMMA LoseLine ==
    ASSUME TInv, NEW c \in Clients, NEW k \in 1 .. Len(net[c]),
           net'[c] = RemoveAt(net[c], k), UNCHANGED <<file, queue>>, net[c][k] \in lost'
    PROVE  Follows(c) /\ Stays(c, lost')
<1>1. PICK m \in Nat :
          /\ \A n, d : Item(c, n, d)' =>
                (n < m /\ Item(c, n, d)) \/ (n >= m /\ Item(c, n + 1, d))
          /\ \A n \in Nat : \A d : Item(c, n, d) =>
                Item(c, n, d)' \/ Item(c, n - 1, d)' \/ d = net[c][k]
  BY LineLoses
<1>2. Follows(c)
  BY <1>1, FollowsShorter
<1>3. PICK out : out = lost'
  OBVIOUS
<1>4. \A n \in Nat : \A d : Item(c, n, d) =>
          Item(c, n, d)' \/ Item(c, n - 1, d)' \/ d \in out
  BY <1>1, <1>3
<1>5. Stays(c, out)
  BY <1>4, StaysShorter
<1> QED BY <1>2, <1>3, <1>5

LEMMA RemoveFirst ==
    ASSUME NEW S, NEW s \in Seq(S), Len(s) >= 1
    PROVE  s # <<>> /\ RemoveAt(s, 1) = Tail(s)
<1>1. Len(s) \in Nat /\ s # <<>>
  BY LenProperties, EmptySeq
<1>2. Tail(s) \in Seq(S) /\ Len(Tail(s)) = Len(s) - 1
      /\ \A i \in 1 .. Len(s) - 1 : Tail(s)[i] = s[i + 1]
  BY <1>1, HeadTailProperties
<1>3. PICK r \in Seq(S) : r = RemoveAt(s, 1)
  <2>1. RemoveAt(s, 1) \in Seq(S)
    BY <1>1, RemoveAtType
  <2> QED BY <2>1, Zenon
<1>4. Len(r) = Len(s) - 1 /\ \A i \in 1 .. Len(s) - 1 : r[i] = s[i + 1]
  <2>1. 1 \in 1 .. Len(s)
    BY <1>1
  <2>2. /\ Len(r) = Len(s) - 1
        /\ \A i \in 1 .. Len(r) : r[i] = IF i < 1 THEN s[i] ELSE s[i + 1]
    BY <1>3, <2>1, Shorter
  <2> QED BY <1>1, <2>2
<1>5. r = Tail(s)
  BY <1>1, <1>2, <1>3, <1>4, SeqEqual
<1> QED BY <1>1, <1>3, <1>5

-----------------------------------------------------------------------------
(* The line at each step *)

LEMMA DeliverLine ==
    ASSUME TInv, Ordered, NEW c \in Clients, Deliver(c), NEW x \in Clients
    PROVE  Follows(x) /\ Stays(x, lost')
<1>1. PICK k \in 1 .. Len(net[c]) :
          /\ k = 1 /\ Reaches(net[c][k])
          /\ net' = [net EXCEPT ![c] = RemoveAt(net[c], k)] /\ UNCHANGED file
  BY DEF Deliver, netUnchanged, server
<1>2. /\ net[c] \in Seq(Datagram) /\ Len(net[c]) \in Nat /\ Len(net[c]) >= 1
      /\ net \in [Clients -> Seq(Datagram)] /\ 1 \in 1 .. Len(net[c])
  BY <1>1, Lengths DEF TInv, TypeOK
<1>3. net[c][1] \in Datagram /\ net[c][1].from = c
  BY <1>2, UnderWay DEF Of
<1>4. net'[c] = RemoveAt(net[c], 1) /\ (x # c => net'[x] = net[x])
  BY <1>1, <1>2
<1>5. CASE queue' = Append(queue, net[c][1])
  <2>1. CASE x = c
    <3>1. net[c] # <<>> /\ net'[c] = Tail(net[c])
      BY <1>2, <1>4, RemoveFirst
    <3>2. \A n, d : Item(c, n, d)' <=> Item(c, n, d)
      BY <1>1, <1>5, <3>1, LineArrives
    <3> QED BY <2>1, <3>2, FollowsSame
  <2>2. CASE x # c
    <3>1. net[c][1].from # x /\ net'[x] = net[x] /\ UNCHANGED file
      BY <1>1, <1>3, <1>4, <2>2
    <3>2. PICK m \in Nat :
               /\ \A n, d : Item(x, n, d)' =>
                     \/ n < m /\ Item(x, n, d)
                     \/ n > m /\ n \in Nat /\ Item(x, n - 1, d)
               /\ \A n, d : Item(x, n, d) => Item(x, n, d)' \/ Item(x, n + 1, d)'
      BY <1>3, <1>5, <3>1, LineWidens
    <3>3. Follows(x)
      BY <3>2, FollowsWider
    <3>4. Stays(x, lost')
      BY <3>2, StaysWider
    <3> QED BY <3>3, <3>4
  <2> QED BY <2>1, <2>2
<1>6. CASE UNCHANGED queue /\ net[c][1] \in lost'
  <2>1. CASE x = c
    <3> QED BY <1>1, <1>2, <1>4, <1>6, <2>1, LoseLine
  <2>2. CASE x # c
    <3>1. \A n, d : Item(x, n, d)' <=> Item(x, n, d)
      BY <1>1, <1>4, <1>6, <2>2, LineSame
    <3> QED BY <3>1, FollowsSame
  <2> QED BY <2>1, <2>2
<1> QED BY <1>1, <1>5, <1>6 DEF Reaches

LEMMA LosesLine ==
    ASSUME TInv, NEW c \in Clients, Lose(c), NEW x \in Clients
    PROVE  Follows(x) /\ Stays(x, lost')
<1>1. PICK k \in 1 .. Len(net[c]) :
          /\ lost' = lost \cup {net[c][k]}
          /\ net' = [net EXCEPT ![c] = RemoveAt(net[c], k)]
          /\ UNCHANGED <<file, queue>>
  BY DEF Lose, netUnchanged, server
<1>2. net'[c] = RemoveAt(net[c], k) /\ (x # c => net'[x] = net[x])
  BY <1>1 DEF TInv, TypeOK
<1>3. CASE x = c
  BY <1>1, <1>2, <1>3, LoseLine
<1>4. CASE x # c
  <2>1. \A n, d : Item(x, n, d)' <=> Item(x, n, d)
    BY <1>1, <1>2, <1>4, LineSame
  <2> QED BY <2>1, FollowsSame
<1> QED BY <1>3, <1>4

LEMMA StrayLine ==
    ASSUME TInv, NEW s \in Strangers, Stray(s), NEW x \in Clients
    PROVE  Follows(x) /\ Stays(x, {})
<1>1. PICK kind \in {"empty", "junk"} : queue' = Append(queue, Dgram(s, kind, 0))
  BY DEF Stray
<1>2. PICK e : e = Dgram(s, kind, 0)
  OBVIOUS
<1>3. e \in Datagram /\ e.from # x
  BY <1>2, ConstantsAssumption DEF ConstantsAssumption, Dgram, Datagram, Senders
<1>4. UNCHANGED file /\ net'[x] = net[x] /\ queue' = Append(queue, e)
  BY <1>1, <1>2 DEF Stray, netUnchanged, server
<1>5. PICK m \in Nat :
           /\ \A n, d : Item(x, n, d)' =>
                 \/ n < m /\ Item(x, n, d)
                 \/ n > m /\ n \in Nat /\ Item(x, n - 1, d)
           /\ \A n, d : Item(x, n, d) => Item(x, n, d)' \/ Item(x, n + 1, d)'
  BY <1>3, <1>4, LineWidens
<1>6. Follows(x)
  BY <1>5, FollowsWider
<1>7. Stays(x, {})
  BY <1>5, StaysWider
<1> QED BY <1>6, <1>7

\* The server takes the head and does not write it.
LEMMA TakesLine ==
    ASSUME TInv, NEW h, Received(h), UNCHANGED <<file, net>>, NEW x \in Clients
    PROVE  Follows(x) /\ Stays(x, {h})
<1>1. queue # <<>> /\ queue' = Tail(queue) /\ h = Head(queue) /\ net'[x] = net[x]
  BY DEF Received
<1>2. /\ \A n, d : Item(x, n, d)' =>
             \/ n < Len(file) + 1 /\ Item(x, n, d)
             \/ n >= Len(file) + 1 /\ Item(x, n + 1, d)
      /\ \A n \in Nat : \A d : Item(x, n, d) =>
             Item(x, n, d)' \/ Item(x, n - 1, d)' \/ (d = h /\ d.from = x)
  BY <1>1, LineTakes
<1>3. PICK m \in Nat : m = Len(file) + 1
  BY Lengths
<1>4. Follows(x)
  BY <1>2, <1>3, FollowsShorter
<1>5. \A n \in Nat : \A d : Item(x, n, d) =>
          Item(x, n, d)' \/ Item(x, n - 1, d)' \/ d \in {h}
  BY <1>2
<1>6. Stays(x, {h})
  BY <1>5, StaysShorter
<1> QED BY <1>4, <1>6

LEMMA WriteLine ==
    ASSUME TInv, NEW h, Write(h), NEW x \in Clients
    PROVE  Follows(x) /\ Stays(x, {})
<1>1. queue # <<>> /\ queue' = Tail(queue) /\ h = Head(queue) /\ net'[x] = net[x]
  BY DEF Write, Data, Received, serverUnchanged
<1>2. PICK whole \in BOOLEAN : file' = Append(file, [dgram |-> h, whole |-> whole])
  BY DEF Write
<1>3. h \in Datagram
  BY <1>1, QueueHead DEF TInv, TypeOK
<1>4. PICK piece \in Piece : file' = Append(file, piece) /\ piece.dgram = Head(queue)
  <2>1. [dgram |-> h, whole |-> whole] \in Piece
    BY <1>3 DEF Piece
  <2> QED BY <1>1, <1>2, <2>1
<1>5. \A n \in Nat : \A d : Item(x, n, d)' <=> Item(x, n, d)
  BY <1>1, <1>4, LineWrites
<1> QED BY <1>5, FollowsSame

LEMMA StillLine ==
    ASSUME UNCHANGED <<file, queue, net>>, NEW x
    PROVE  Follows(x) /\ Stays(x, {})
<1>1. \A n, d : Item(x, n, d)' <=> Item(x, n, d)
  BY LineSame
<1> QED BY <1>1, FollowsSame

-----------------------------------------------------------------------------
(* Line is inductive *)

LEMMA EnvironmentLine ==
    ASSUME TInv, Ordered, Copies = 0, Environment \/ Tick, NEW x \in Clients
    PROVE  /\ Follows(x) /\ Stays(x, lost')
           /\ UNCHANGED <<state, auth_clt, file, cl, next>> /\ lost \subseteq lost'
<1>0. ASSUME Stays(x, {}) PROVE Stays(x, lost')
  BY <1>0 DEF Stays
<1>1. CASE \E c \in Clients : Deliver(c)
  <2>1. PICK c \in Clients : Deliver(c)
    BY <1>1
  <2>2. lost \subseteq lost' /\ UNCHANGED <<state, auth_clt, file, cl, next>>
    BY <2>1 DEF Deliver, Reaches, netUnchanged, server, client
  <2> QED BY <2>1, <2>2, DeliverLine
<1>2. CASE \E c \in Clients : Duplicate(c)
  BY <1>2 DEF Duplicate, TInv, TypeOK
<1>3. CASE \E c \in Clients : Lose(c)
  <2>1. PICK c \in Clients : Lose(c)
    BY <1>3
  <2>2. lost \subseteq lost' /\ UNCHANGED <<state, auth_clt, file, cl, next>>
    BY <2>1 DEF Lose, netUnchanged, server, client
  <2> QED BY <2>1, <2>2, LosesLine
<1>4. CASE \E s \in Strangers : Stray(s)
  <2>1. PICK s \in Strangers : Stray(s)
    BY <1>4
  <2>2. lost \subseteq lost' /\ UNCHANGED <<state, auth_clt, file, cl, next>>
    BY <2>1 DEF Stray, netUnchanged, server, client
  <2> QED BY <1>0, <2>1, <2>2, StrayLine
<1>5. CASE ClockSetBack \/ Tick
  <2>1. UNCHANGED <<file, queue, net>>
    BY <1>5 DEF ClockSetBack, Tick, server
  <2>2. lost \subseteq lost' /\ UNCHANGED <<state, auth_clt, file, cl, next>>
    BY <1>5 DEF ClockSetBack, Tick, server, client
  <2> QED BY <1>0, <2>1, <2>2, StillLine
<1> QED BY <1>1, <1>2, <1>3, <1>4, <1>5 DEF Environment

\* The server's step takes the head, writes it, or takes nothing.
LEMMA ServerLine ==
    ASSUME TInv, ServerNext, NEW x \in Clients
    PROVE  Follows(x) /\ UNCHANGED <<cl, next, lost>>
<1>1. UNCHANGED <<cl, next, lost, net>>
  BY DEF ServerNext, OpenFile, OpenFails, Timeout, AuthIgnores, AuthAccepts, IdleExit,
         Ignore, Finish, TooLarge, Write, WriteFails, serverUnchanged, client
<1>2. CASE OpenFile \/ OpenFails \/ Timeout
  <2>1. UNCHANGED <<file, queue, net>>
    BY <1>2 DEF OpenFile, OpenFails, Timeout, Fail, serverUnchanged
  <2> QED BY <1>1, <2>1, StillLine
<1>3. ASSUME NEW d \in Datagram, Write(d) PROVE Follows(x)
  BY <1>3, WriteLine
<1>4. ASSUME NEW d \in Datagram,
             \/ AuthIgnores(d) \/ AuthAccepts(d) \/ IdleExit(d) \/ Ignore(d)
             \/ Finish(d) \/ TooLarge(d) \/ WriteFails(d)
      PROVE  Follows(x)
  <2>1. Received(d) /\ UNCHANGED <<file, net>>
    BY <1>4 DEF AuthIgnores, AuthAccepts, IdleExit, Ignore, Finish, TooLarge, WriteFails,
                Data, Fail, serverUnchanged, server
  <2> QED BY <2>1, TakesLine
<1> QED BY <1>1, <1>2, <1>3, <1>4 DEF ServerNext

LEMMA QuietLines ==
    ASSUME TInv, Line, \A x \in Clients : Follows(x), UNCHANGED <<cl, next>>
    PROVE  \A x \in Clients : InLine(x)'
BY LineFollows DEF Line

\* What a client's step does to the lines.
ClientMoves(c) ==
    \/ SendToken(c) \/ SendChunk(c) \/ FileSent(c) \/ SendEof(c)
    \/ SendFails(c) \/ ClientDone(c)

New(c) ==
    IF cl[c] = "token" THEN Dgram(c, "token", 0)
    ELSE IF cl[c] = "data" THEN Dgram(c, "chunk", next[c]) ELSE Dgram(c, "empty", 0)

Sending(c) == SendToken(c) \/ SendChunk(c) \/ SendEof(c)

LEMMA SendingLine ==
    ASSUME TInv, NEW c \in Clients, Sending(c)
    PROVE  /\ New(c) \in Datagram
           /\ \E m \in Nat :
                 /\ \A n, d : Item(c, n, d) => n < m
                 /\ \A n, d : Item(c, n, d)' <=> Item(c, n, d) \/ (n = m /\ d = New(c))
<1>1. Sent(c, New(c)) /\ New(c) \in Datagram
  <2>0. Chunks \in Nat /\ next[c] \in Nat
    BY ConstantsAssumption DEF ConstantsAssumption, TInv, TypeOK
  <2>1. CASE SendToken(c)
    BY <2>0, <2>1, DgramOf DEF SendToken, New, Of
  <2>2. CASE SendChunk(c)
    BY <2>0, <2>2, DgramOf DEF SendChunk, New, Of
  <2>3. CASE SendEof(c)
    BY <2>0, <2>3, DgramOf DEF SendEof, New, Of
  <2> QED BY <2>1, <2>2, <2>3 DEF Sending
<1>2. net'[c] = Append(net[c], New(c)) /\ UNCHANGED <<file, queue>>
  BY <1>1 DEF Sent, server, TInv, TypeOK
<1>3. PICK e \in Datagram : e = New(c) /\ net'[c] = Append(net[c], e)
  BY <1>1, <1>2
<1> QED BY <1>1, <1>2, <1>3, LineSends

LEMMA QuietClient ==
    ASSUME NEW c \in Clients, FileSent(c) \/ SendFails(c) \/ ClientDone(c)
    PROVE  \A n, d : Item(c, n, d)' <=> Item(c, n, d)
<1>1. UNCHANGED <<file, queue>> /\ net'[c] = net[c]
  BY DEF FileSent, SendFails, ClientDone, server
<1> QED BY <1>1, LineSame

LEMMA OtherLines ==
    ASSUME TInv, NEW c \in Clients, ClientMoves(c), NEW x \in Clients, x # c
    PROVE  /\ \A n, d : Item(x, n, d)' <=> Item(x, n, d)
           /\ cl'[x] = cl[x] /\ next'[x] = next[x]
<1>1. UNCHANGED <<file, queue>> /\ net'[x] = net[x]
  BY DEF ClientMoves, SendToken, SendChunk, FileSent, SendEof, SendFails, ClientDone,
         Sent, server, TInv, TypeOK
<1>2. cl'[x] = cl[x] /\ next'[x] = next[x]
  BY DEF ClientMoves, SendToken, SendChunk, FileSent, SendEof, SendFails, ClientDone,
         TInv, TypeOK
<1> QED BY <1>1, <1>2, LineSame

LEMMA ClientLine ==
    ASSUME TInv, Line, NEW c \in Clients, ClientMoves(c)
    PROVE  InLine(c)'
<1>0. /\ InLine(c) /\ Chunks \in Nat /\ next[c] \in Nat
      /\ cl \in [Clients -> {"token", "data", "eof", "done", "failed"}]
      /\ next \in [Clients -> Nat]
  BY ConstantsAssumption DEF ConstantsAssumption, Line, TInv, TypeOK
<1>1. \A n \in Nat, d \in Datagram : Item(c, n, d) => Real(c, d)
  BY <1>0 DEF InLine
<1>2. \A d \in Datagram : Rank(d) \in Nat /\ Rank(d) <= Chunks + 1
  BY <1>0 DEF Rank, Datagram
<1>3. CASE FileSent(c) \/ SendFails(c) \/ ClientDone(c)
  <2>1. \A d \in Datagram : Real(c, d) => Real(c, d)'
    BY <1>0, <1>3 DEF FileSent, SendFails, ClientDone, Real
  <2>2. cl'[c] # "data"
    BY <1>0, <1>3 DEF FileSent, SendFails, ClientDone
  <2>3. \A n \in Nat : \A d : Item(c, n, d)' <=> Item(c, n, d)
    BY <1>3, QuietClient
  <2>4. \A n \in Nat, d \in Datagram : Item(c, n, d) /\ Real(c, d) => Real(c, d)'
    BY <2>1
  <2> QED BY <1>0, <2>2, <2>3, <2>4, LineSameReal
<1>4. CASE Sending(c)
  <2>1. PICK new \in Datagram : new = New(c)
    BY <1>4, SendingLine
  <2>2. PICK m \in Nat : /\ \A n, d : Item(c, n, d) => n < m
                         /\ \A n, d : Item(c, n, d)' <=> Item(c, n, d) \/ (n = m /\ d = new)
    BY <1>4, <2>1, SendingLine
  <2>3. CASE SendToken(c)
    <3>1. \A n \in Nat, d \in Datagram : ~Item(c, n, d)
      BY <1>1, <2>3 DEF SendToken, Real
    <3>2. Real(c, new)'
      BY <1>0, <2>1, <2>3 DEF SendToken, Real, New, Dgram, Rank
    <3>3. next'[c] \in 1 .. Chunks + 1
      BY <1>0, <2>3 DEF SendToken
    <3> QED BY <1>0, <2>2, <3>1, <3>2, <3>3, LineLonger
  <2>4. CASE SendChunk(c)
    <3>1. /\ cl[c] = "data" /\ cl'[c] = "data" /\ next[c] \in 1 .. Chunks
          /\ next'[c] = next[c] + 1
      BY <1>0, <2>4 DEF SendChunk, InLine
    <3>2. Rank(new) = next[c]
      BY <2>1, <3>1 DEF New, Dgram, Rank
    <3>3. \A d \in Datagram : Real(c, d) => Real(c, d)' /\ Before(d, new)
      BY <1>0, <1>2, <3>1, <3>2 DEF Real, Before
    <3>4. Real(c, new)'
      BY <1>0, <2>1, <3>1, <3>2 DEF Real, New, Dgram
    <3>5. next'[c] \in 1 .. Chunks + 1
      BY <1>0, <3>1
    <3>6. \A n \in Nat, d \in Datagram : Item(c, n, d) => Real(c, d)' /\ Before(d, new)
      BY <1>1, <3>3
    <3> QED BY <1>0, <2>2, <3>4, <3>5, <3>6, LineLonger
  <2>5. CASE SendEof(c)
    <3>1. cl[c] = "eof" /\ cl'[c] = "eof"
      BY <2>5 DEF SendEof
    <3>2. new = Dgram(c, "empty", 0)
      BY <2>1, <3>1 DEF New
    <3>3. \A d \in Datagram : Real(c, d) => Real(c, d)'
      BY <3>1 DEF Real
    <3>4. \A d \in Datagram : Real(c, d) => Before(d, new)
      BY <1>0, <3>2 DEF Real, Before, Rank, Dgram, Datagram
    <3>5. Real(c, new)'
      BY <3>1, <3>2 DEF Real, Dgram
    <3>6. \A n \in Nat, d \in Datagram : Item(c, n, d) => Real(c, d)' /\ Before(d, new)
      BY <1>1, <3>3, <3>4
    <3> QED BY <1>0, <2>2, <3>1, <3>5, <3>6, LineLonger
  <2> QED BY <1>4, <2>3, <2>4, <2>5 DEF Sending
<1> QED BY <1>3, <1>4 DEF ClientMoves, Sending

\* The head of the queue has the first place after the file.
LEMMA HeadPlace ==
    ASSUME TInv, NEW c \in Clients, queue # <<>>, Head(queue).from = c
    PROVE  Item(c, Len(file) + 1, Head(queue)) /\ Head(queue) \in Datagram
<1>1. /\ Len(queue) \in Nat /\ Len(queue) >= 1 /\ Head(queue) = queue[1]
  BY WithoutHead DEF TInv, TypeOK
<1>2. 1 \in 1 .. Len(queue)
  BY <1>1
<1>3. Head(queue) \in Datagram
  BY QueueHead DEF TInv, TypeOK
<1> QED BY <1>1, <1>2, <1>3 DEF Item, Waiting

LEMMA AcceptedClient ==
    ASSUME TInv, NEW h, AuthAccepts(h)
    PROVE  h.from \in Clients /\ h.kind = "token" /\ h \in Datagram
           /\ queue # <<>> /\ h = Head(queue)
BY QueueHead DEF AuthAccepts, Received, TInv, TypeOK, Origin, Genuine

\* The first item of the one whose token is accepted goes, and with it the
\* only token.
LEMMA AcceptsNoToken ==
    ASSUME TInv, Line, NEW h, AuthAccepts(h)
    PROVE  \A n \in Nat, d \in Datagram : Item(h.from, n, d)' => d.kind # "token"
<1>1. /\ h.from \in Clients /\ h.kind = "token" /\ h \in Datagram /\ queue # <<>>
      /\ h = Head(queue)
  BY AcceptedClient
<1>2. PICK c \in Clients : c = h.from
  BY <1>1
<1>3. file = <<>> /\ Len(file) = 0
  BY DEF AuthAccepts, Line, NoToken, FileOf
<1>4. Item(c, 1, h)
  <2>1. Len(file) + 1 = 1
    BY <1>3
  <2> QED BY <1>1, <1>2, <2>1, HeadPlace
<1>5. queue' = Tail(queue) /\ net'[c] = net[c] /\ UNCHANGED file
  BY DEF AuthAccepts, Received, serverUnchanged
<1>6. \A n, d : Item(c, n, d)' =>
          \/ n < Len(file) + 1 /\ Item(c, n, d)
          \/ n >= Len(file) + 1 /\ Item(c, n + 1, d)
  BY <1>1, <1>5, LineTakes
<1>7. ASSUME NEW n \in Nat, NEW d \in Datagram, Item(c, n, d)' PROVE d.kind # "token"
  <2>1. n >= 1 /\ Item(c, n + 1, d)
    <3>1. ~(n < 1 /\ Item(c, n, d))
      BY Place
    <3> QED BY <1>3, <1>6, <1>7, <3>1
  <2>2. n + 1 \in Nat /\ 1 < n + 1
    BY <2>1
  <2>3. Before(h, d)
    BY <1>1, <1>4, <2>1, <2>2 DEF Line, InLine
  <2>4. Rank(h) = 0 /\ h.kind # "empty"
    BY <1>1 DEF Rank
  <2> QED BY <2>3, <2>4 DEF Before, Rank
<1> QED BY <1>2, <1>7

LEMMA QuietNoToken ==
    ASSUME NoToken, TInv, UNCHANGED <<state, auth_clt, file>>,
           \A c \in Clients : cl[c] # "token" => cl'[c] # "token",
           \A n \in Nat, d \in Datagram : auth_clt \in Clients /\ cl[auth_clt] # "token" =>
               (Item(auth_clt, n, d)' =>
                   (\E a \in Nat : Item(auth_clt, a, d)) \/ d.kind # "token")
    PROVE  NoToken'
<1>1. (state # "auth" =>
          /\ auth_clt \in Clients /\ cl[auth_clt] # "token"
          /\ \A n \in Nat, d \in Datagram : Item(auth_clt, n, d) => d.kind # "token")'
  <2> SUFFICES ASSUME state # "auth"
               PROVE  /\ auth_clt \in Clients /\ cl'[auth_clt] # "token"
                      /\ \A n \in Nat, d \in Datagram :
                             Item(auth_clt, n, d)' => d.kind # "token"
    OBVIOUS
  <2> QED BY DEF NoToken, FileOf
<1> QED BY <1>1 DEF NoToken, FileOf

\* It stays so at every step of the server.
LEMMA ServerFileOf ==
    ASSUME TInv, FileOf, ServerNext, \A h : AuthAccepts(h) => cl[h.from] # "token"
    PROVE  FileOf'
<1>0. UNCHANGED cl
  BY DEF ServerNext, OpenFile, OpenFails, Timeout, AuthIgnores, AuthAccepts, IdleExit,
         Ignore, Finish, TooLarge, Write, WriteFails, serverUnchanged, client
<1>1. ASSUME UNCHANGED <<auth_clt, file>>, state' = state \/ (state # "auth" /\ state' # "auth")
      PROVE  FileOf'
  BY <1>0, <1>1 DEF FileOf
<1>2. CASE OpenFile \/ OpenFails \/ Timeout
  BY <1>1, <1>2 DEF OpenFile, OpenFails, Timeout, Fail
<1>3. ASSUME NEW d, AuthIgnores(d) \/ Ignore(d) PROVE FileOf'
  BY <1>1, <1>3 DEF AuthIgnores, Ignore, server
<1>4. ASSUME NEW d, IdleExit(d) \/ Finish(d) \/ TooLarge(d) \/ WriteFails(d) PROVE FileOf'
  <2>1. state = "recv" /\ UNCHANGED <<auth_clt, file>> /\ (state' = state \/ state' # "auth")
    BY <1>4 DEF IdleExit, Finish, TooLarge, WriteFails, Data, Fail
  <2> QED BY <1>1, <2>1
<1>5. ASSUME NEW h, AuthAccepts(h) PROVE FileOf'
  <2>1. h.from \in Clients /\ queue # <<>> /\ h = Head(queue)
    BY <1>5, AcceptedClient
  <2>2. auth_clt' = h.from /\ state' = "open" /\ file = <<>> /\ file' = <<>>
    BY <1>5 DEF AuthAccepts, FileOf
  <2>3. cl[h.from] # "token"
    BY <1>5
  <2>4. \A k \in 1 .. Len(file') : FALSE
    BY <2>2
  <2> QED BY <1>0, <2>1, <2>2, <2>3, <2>4 DEF FileOf
<1>6. ASSUME NEW h, Write(h) PROVE FileOf'
  <2>1. /\ state = "recv" /\ UNCHANGED <<state, auth_clt>>
        /\ h.from = auth_clt /\ h.kind # "empty"
        /\ \E w \in BOOLEAN : file' = Append(file, [dgram |-> h, whole |-> w])
    BY <1>6 DEF Write, Data, same_client
  <2>2. PICK w \in BOOLEAN : file' = Append(file, [dgram |-> h, whole |-> w])
    BY <2>1
  <2>3. h \in Datagram
    BY <1>6, QueueHead DEF Write, Data, Received, TInv, TypeOK
  <2>4. PICK piece \in Piece : piece.dgram = h /\ file' = Append(file, piece)
    <3>1. [dgram |-> h, whole |-> w] \in Piece
      BY <2>3 DEF Piece
    <3> QED BY <2>2, <3>1
  <2>5. /\ Len(file) \in Nat /\ Len(file') = Len(file) + 1
        /\ \A i \in 1 .. Len(file) : file'[i] = file[i]
        /\ file'[Len(file) + 1] = piece
    BY <2>4, Longer DEF TInv, TypeOK
  <2>6. \A k \in 1 .. Len(file') :
            file'[k].dgram.from = auth_clt /\ file'[k].dgram.kind # "empty"
    <3>1. \A k \in 1 .. Len(file') : k \in 1 .. Len(file) \/ k = Len(file) + 1
      BY <2>5
    <3>2. \A k \in 1 .. Len(file) :
              file[k].dgram.from = auth_clt /\ file[k].dgram.kind # "empty"
      BY DEF FileOf
    <3> QED BY <2>1, <2>4, <2>5, <3>1, <3>2
  <2> QED BY <1>0, <2>1, <2>6 DEF FileOf
<1> QED BY <1>2, <1>3, <1>4, <1>5, <1>6 DEF ServerNext

LEMMA ServerNoToken ==
    ASSUME TInv, Line, ServerNext
    PROVE  NoToken'
<1>0. \A x \in Clients : Follows(x)
  BY ServerLine
<1>1. FileOf'
  <2>1. ASSUME NEW h, AuthAccepts(h) PROVE cl[h.from] # "token"
    <3>1. h.from \in Clients /\ h \in Datagram /\ Item(h.from, Len(file) + 1, h)
      BY <2>1, AcceptedClient, HeadPlace
    <3>2. Len(file) + 1 \in Nat
      BY Lengths
    <3> QED BY <3>1, <3>2 DEF Line, InLine, Real
  <2> QED BY <2>1, ServerFileOf DEF Line, NoToken
<1>2. ASSUME NEW h, AuthAccepts(h) PROVE NoToken'
  <2>1. auth_clt' = h.from
    BY <1>2 DEF AuthAccepts
  <2> QED BY <1>1, <1>2, <2>1, AcceptsNoToken DEF NoToken
<1>3. ASSUME UNCHANGED auth_clt, state' # "auth" => state # "auth" PROVE NoToken'
  <2> SUFFICES ASSUME state' # "auth", NEW n \in Nat, NEW d \in Datagram,
                      Item(auth_clt, n, d)'
               PROVE  d.kind # "token"
    BY <1>1 DEF NoToken
  <2>1. PICK c \in Clients : c = auth_clt /\ c = auth_clt'
    BY <1>3 DEF Line, NoToken, FileOf
  <2>2. \E a \in Nat : Item(c, a, d)
    BY <1>0, <2>1 DEF Follows
  <2> QED BY <1>3, <2>1, <2>2 DEF Line, NoToken
<1>4. CASE OpenFile \/ OpenFails \/ Timeout
  BY <1>3, <1>4 DEF OpenFile, OpenFails, Timeout, Fail
<1>5. ASSUME NEW d, \/ AuthIgnores(d) \/ IdleExit(d) \/ Ignore(d) \/ Finish(d)
                    \/ TooLarge(d) \/ Write(d) \/ WriteFails(d)
      PROVE  NoToken'
  <2>1. UNCHANGED auth_clt /\ (state' = state \/ state = "recv")
    BY <1>5 DEF AuthIgnores, IdleExit, Ignore, Finish, TooLarge, Write, WriteFails,
                Data, Fail, server
  <2> QED BY <1>3, <2>1
<1> QED BY <1>2, <1>4, <1>5 DEF ServerNext

LEMMA ClientNoToken ==
    ASSUME TInv, Line, NEW c \in Clients, ClientMoves(c)
    PROVE  NoToken'
<1>1. UNCHANGED <<state, auth_clt, file>>
  BY DEF ClientMoves, SendToken, SendChunk, FileSent, SendEof, SendFails, ClientDone,
         Sent, server
<1>2. \A x \in Clients : cl[x] # "token" => cl'[x] # "token"
  <2>1. cl[c] # "token" => cl'[c] # "token"
    BY DEF ClientMoves, SendToken, SendChunk, FileSent, SendEof, SendFails, ClientDone,
           TInv, TypeOK
  <2> QED BY <2>1, OtherLines
<1>3. ASSUME NEW n \in Nat, NEW d \in Datagram, auth_clt \in Clients,
             cl[auth_clt] # "token", Item(auth_clt, n, d)'
      PROVE  (\E a \in Nat : Item(auth_clt, a, d)) \/ d.kind # "token"
  <2>0. PICK x \in Clients : x = auth_clt /\ x = auth_clt'
    BY <1>1, <1>3
  <2>1. CASE x # c
    <3>1. Item(x, n, d)' <=> Item(x, n, d)
      BY <2>1, OtherLines
    <3> QED BY <1>3, <2>0, <3>1
  <2>2. CASE x = c
    <3>0. Item(c, n, d)'
      BY <1>3, <2>0, <2>2
    <3>1. CASE Sending(c)
      <4>1. Item(c, n, d) \/ d = New(c)
        BY <3>0, <3>1, SendingLine
      <4>2. New(c).kind # "token"
        BY <1>3, <2>0, <2>2 DEF New, Dgram
      <4> QED BY <2>0, <2>2, <4>1, <4>2
    <3>2. CASE FileSent(c) \/ SendFails(c) \/ ClientDone(c)
      BY <2>0, <2>2, <3>0, <3>2, QuietClient
    <3> QED BY <3>1, <3>2 DEF ClientMoves, Sending
  <2> QED BY <2>1, <2>2
<1> QED BY <1>1, <1>2, <1>3, QuietNoToken DEF Line

LEMMA StepLine ==
    ASSUME TInv, Line, Ordered, Copies = 0, [Next]_vars
    PROVE  Line'
<1>1. ASSUME NEW c \in Clients, ClientMoves(c) PROVE Line'
  <2>1. \A x \in Clients : InLine(x)'
    <3> SUFFICES ASSUME NEW x \in Clients PROVE InLine(x)'
      OBVIOUS
    <3>1. CASE x = c
      BY <1>1, <3>1, ClientLine
    <3>2. CASE x # c
      <4>1. Follows(x) /\ cl'[x] = cl[x] /\ next'[x] = next[x]
        BY <1>1, <3>2, OtherLines, FollowsSame
      <4> QED BY <4>1, LineFollows DEF Line
    <3> QED BY <3>1, <3>2
  <2> QED BY <1>1, <2>1, ClientNoToken DEF Line
<1>2. CASE Environment \/ Tick
  <2>1. \A x \in Clients : Follows(x) /\ UNCHANGED <<state, auth_clt, file, cl, next>>
    BY <1>2, EnvironmentLine
  <2>2. UNCHANGED <<state, auth_clt, file, cl, next>>
    BY <1>2 DEF Environment, Deliver, Duplicate, Lose, Stray, ClockSetBack, Tick,
                netUnchanged, server, client
  <2>3. \A x \in Clients : InLine(x)'
    BY <2>1, <2>2, QuietLines
  <2>4. NoToken'
    BY <2>1, <2>2, QuietNoToken DEF Line, Follows
  <2> QED BY <2>3, <2>4 DEF Line
<1>3. CASE ServerNext
  <2>1. \A x \in Clients : InLine(x)'
    <3>1. \A x \in Clients : Follows(x) /\ cl'[x] = cl[x] /\ next'[x] = next[x]
      BY <1>3, ServerLine
    <3> QED BY <3>1, LineFollows DEF Line
  <2> QED BY <1>3, <2>1, ServerNoToken DEF Line
<1>4. CASE UNCHANGED vars
  <2>1. UNCHANGED <<state, auth_clt, file, queue, net, cl, next>>
    BY <1>4 DEF vars, server, client
  <2>2. \A x \in Clients : Follows(x)
    BY <2>1, StillLine
  <2>3. \A x \in Clients : InLine(x)'
    BY <2>1, <2>2, QuietLines
  <2>4. NoToken'
    BY <2>1, <2>2, QuietNoToken DEF Line, Follows
  <2> QED BY <2>3, <2>4 DEF Line
<1> QED BY <1>1, <1>2, <1>3, <1>4 DEF Next, ClientNext, ClientMoves

LEMMA InitLine == Init => Line
<1> SUFFICES ASSUME Init PROVE Line
  OBVIOUS
<1>1. \A c \in Clients : \A n, d : ~Item(c, n, d)
  <2>1. Len(file) = 0 /\ Len(queue) = 0 /\ \A c \in Clients : Len(net[c]) = 0
    BY DEF Init
  <2> QED BY <2>1 DEF Item, Written, Waiting, UnderWayAt
<1>2. \A c \in Clients : InLine(c)
  BY <1>1 DEF Init, InLine
<1>3. NoToken
  BY DEF Init, NoToken, FileOf
<1> QED BY <1>2, <1>3 DEF Line

LEMMA LineInOrder ==
    ASSUME TInv, Line
    PROVE  InOrder
<1>1. ASSUME NEW k \in 1 .. Len(file)
      PROVE  /\ auth_clt \in Clients /\ k \in Nat /\ file[k].dgram \in Datagram
             /\ Item(auth_clt, k, file[k].dgram) /\ file[k].dgram.kind = "chunk"
  <2>1. Len(file) \in Nat /\ file # <<>>
    BY Lengths
  <2>2. state # "auth" /\ auth_clt \in Clients /\ file[k].dgram.from = auth_clt
        /\ file[k].dgram.kind # "empty"
    BY <2>1 DEF Line, NoToken, FileOf
  <2>3. file[k].dgram \in Datagram
    <3>1. file[k] \in Piece
      BY DEF TInv, TypeOK
    <3> QED BY <3>1 DEF Piece
  <2>4. k \in Nat /\ Item(auth_clt, k, file[k].dgram)
    BY <2>1, <2>2 DEF Item, Written
  <2>5. file[k].dgram.kind \in {"token", "chunk", "empty"}
    BY <2>2, <2>3, <2>4 DEF Line, InLine, Real
  <2>6. file[k].dgram.kind # "token"
    BY <2>2, <2>3, <2>4 DEF Line, NoToken, FileOf
  <2> QED BY <2>2, <2>3, <2>4, <2>5, <2>6
<1>2. ASSUME NEW j \in 1 .. Len(file), NEW k \in 1 .. Len(file), j < k
      PROVE  file[j].dgram.i < file[k].dgram.i
  <2>1. Before(file[j].dgram, file[k].dgram)
    BY <1>1, <1>2 DEF Line, InLine
  <2> QED BY <1>1, <2>1 DEF Before, Rank
<1> QED BY <1>1, <1>2 DEF InOrder

\* Over a network that keeps the order and makes no duplicates, the file is a
\* part of the client's file in its order.
THEOREM InOrderSafe == Ordered /\ Copies = 0 => (Spec => []InOrder)
<1> SUFFICES ASSUME Ordered, Copies = 0 PROVE Spec => []InOrder
  OBVIOUS
<1>1. Init => TInv /\ Line
  BY InitTInv, InitLine
<1>2. TInv /\ Line /\ [Next]_vars => (TInv /\ Line)'
  BY StepTInv, StepLine
<1>3. TInv /\ Line => InOrder
  BY LineInOrder
<1> QED BY <1>1, <1>2, <1>3, PTL DEF Spec

-----------------------------------------------------------------------------
(* NoneMissing is inductive *)

LEMMA KeptOn ==
    ASSUME NEW c, Kept(c), NEW out, Stays(c, out), lost \subseteq lost',
           \A i \in SentBy(c)' : i \in SentBy(c) \/ InSystem(c, Chunk(c, i))',
           \A i : Chunk(c, i) \in out => Chunk(c, i) \in lost'
    PROVE  Kept(c)'
<1> SUFFICES ASSUME NEW i \in SentBy(c)'
             PROVE  Chunk(c, i) \in lost' \/ InSystem(c, Chunk(c, i))'
  BY DEF Kept, Chunk, Dgram
<1>1. CASE i \in SentBy(c)
  <2>1. Chunk(c, i) \in lost \/ \E n \in Nat : Item(c, n, Chunk(c, i))
    BY <1>1 DEF Kept, InSystem
  <2>2. ASSUME NEW n \in Nat, Item(c, n, Chunk(c, i))
        PROVE  Chunk(c, i) \in lost' \/ InSystem(c, Chunk(c, i))'
    <3>1. PICK d : d = Chunk(c, i)
      OBVIOUS
    <3>2. d \in out \/ \E a \in Nat : Item(c, a, d)'
      BY <2>2, <3>1 DEF Stays
    <3>3. CASE \E a \in Nat : Item(c, a, d)'
      BY <3>1, <3>3 DEF InSystem, Chunk, Dgram
    <3> QED BY <3>1, <3>2, <3>3
  <2> QED BY <2>1, <2>2
<1> QED BY <1>1

LEMMA SystemFollows ==
    ASSUME NEW c, Follows(c), NEW d, InSystem(c, d)'
    PROVE  InSystem(c, d)
BY DEF Follows, InSystem

\* A client that does nothing and loses nothing but what is lost.
LEMMA QuietKept ==
    ASSUME NEW c, Follows(c), Stays(c, lost'), lost \subseteq lost',
           cl'[c] = cl[c], next'[c] = next[c], Kept(c)
    PROVE  Kept(c)'
<1>1. \A i \in SentBy(c)' : i \in SentBy(c)
  BY DEF SentBy
<1> QED BY <1>1, KeptOn

LEMMA DoneStays ==
    ASSUME CompleteUnlessLost, UNCHANGED <<state, auth_clt, file>>, lost \subseteq lost'
    PROVE  CompleteUnlessLost'
BY DEF CompleteUnlessLost, Dgram

LEMMA QuietNoneMissing ==
    ASSUME NoneMissing, NoToken, UNCHANGED <<state, auth_clt, file>>, lost \subseteq lost',
           \A c \in Clients : InSystem(c, Dgram(c, "token", 0))' =>
               InSystem(c, Dgram(c, "token", 0)) \/ Kept(c)',
           \A c \in Clients : Kept(c) => Kept(c)'
    PROVE  NoneMissing'
<1>1. (state = "auth" =>
          \A c \in Clients : InSystem(c, Dgram(c, "token", 0)) => Kept(c))'
  <2> SUFFICES ASSUME state = "auth", NEW c \in Clients, InSystem(c, Dgram(c, "token", 0))'
               PROVE  Kept(c)'
    OBVIOUS
  <2> QED BY DEF NoneMissing
<1>2. (state \in {"open", "recv"} => Kept(auth_clt))'
  <2> SUFFICES ASSUME state \in {"open", "recv"} PROVE Kept(auth_clt)'
    OBVIOUS
  <2>1. PICK c \in Clients : c = auth_clt /\ c = auth_clt'
    BY DEF NoToken, FileOf
  <2>2. Kept(c)
    BY <2>1 DEF NoneMissing
  <2>3. Kept(c)'
    BY <2>2
  <2> QED BY <2>1, <2>3
<1>3. CompleteUnlessLost'
  BY DoneStays DEF NoneMissing
<1> QED BY <1>1, <1>2, <1>3 DEF NoneMissing

LEMMA ClientKept ==
    ASSUME TInv, Line, NEW c \in Clients, ClientMoves(c), Kept(c)
    PROVE  Kept(c)'
<1>0. /\ InLine(c) /\ Chunks \in Nat /\ next[c] \in Nat /\ UNCHANGED lost
      /\ cl \in [Clients -> {"token", "data", "eof", "done", "failed"}]
      /\ next \in [Clients -> Nat]
  BY ConstantsAssumption DEF ConstantsAssumption, Line, TInv, TypeOK, ClientMoves,
     SendToken, SendChunk, FileSent, SendEof, SendFails, ClientDone, Sent
<1>1. CASE Sending(c)
  <2>1. PICK m \in Nat : \A n, d : Item(c, n, d)' <=> Item(c, n, d) \/ (n = m /\ d = New(c))
    BY <1>1, SendingLine
  <2>2. Stays(c, {})
    BY <2>1 DEF Stays
  <2>3. PICK d : d = New(c) /\ InSystem(c, d)'
    <3>1. PICK d : d = New(c)
      OBVIOUS
    <3>2. Item(c, m, d)'
      BY <2>1, <3>1
    <3> QED BY <3>1, <3>2 DEF InSystem
  <2>4. \A i \in SentBy(c)' : i \in SentBy(c) \/ InSystem(c, Chunk(c, i))'
    <3>1. CASE SendToken(c)
      BY <1>0, <3>1 DEF SendToken, SentBy
    <3>2. CASE SendChunk(c)
      <4>1. cl[c] = "data" /\ cl'[c] = "data" /\ next'[c] = next[c] + 1
        BY <1>0, <3>2 DEF SendChunk
      <4>2. \A i \in SentBy(c)' : i \in SentBy(c) \/ i = next[c]
        BY <1>0, <4>1 DEF SentBy
      <4>3. d = Chunk(c, next[c])
        BY <2>3, <4>1 DEF New, Chunk
      <4>4. \A i : i = next[c] => InSystem(c, Chunk(c, i))'
        <5> SUFFICES ASSUME NEW i, i = next[c] PROVE InSystem(c, Chunk(c, i))'
          OBVIOUS
        <5>1. d = Chunk(c, i)
          BY <4>3
        <5>2. d = Chunk(c, i)'
          BY <5>1 DEF Chunk, Dgram
        <5> QED BY <2>3, <5>2
      <4> QED BY <4>2, <4>4
    <3>3. CASE SendEof(c)
      BY <1>0, <3>3 DEF SendEof, SentBy
    <3> QED BY <1>1, <3>1, <3>2, <3>3 DEF Sending
  <2> QED BY <1>0, <2>2, <2>4, KeptOn
<1>2. CASE FileSent(c) \/ SendFails(c) \/ ClientDone(c)
  <2>1. Stays(c, {})
    BY <1>2, QuietClient, FollowsSame
  <2>2. SentBy(c)' \subseteq SentBy(c)
    BY <1>0, <1>2 DEF FileSent, SendFails, ClientDone, SentBy, InLine
  <2> QED BY <1>0, <2>1, <2>2, KeptOn
<1> QED BY <1>1, <1>2 DEF ClientMoves, Sending

LEMMA ClientNoneMissing ==
    ASSUME TInv, Line, NoneMissing, NEW c \in Clients, ClientMoves(c)
    PROVE  NoneMissing'
<1>1. UNCHANGED <<state, auth_clt, file, lost>>
  BY DEF ClientMoves, SendToken, SendChunk, FileSent, SendEof, SendFails, ClientDone,
         Sent, server
<1>2. \A x \in Clients : Kept(x) => Kept(x)'
  <2> SUFFICES ASSUME NEW x \in Clients, Kept(x) PROVE Kept(x)'
    OBVIOUS
  <2>1. CASE x = c
    BY <2>1, ClientKept
  <2>2. CASE x # c
    <3>1. cl'[x] = cl[x] /\ next'[x] = next[x] /\ Follows(x) /\ \A out : Stays(x, out)
      BY <2>2, OtherLines, FollowsSame
    <3>2. Stays(x, lost')
      BY <3>1
    <3> QED BY <1>1, <3>1, <3>2, QuietKept
  <2> QED BY <2>1, <2>2
<1>3. ASSUME NEW x \in Clients, InSystem(x, Dgram(x, "token", 0))'
      PROVE  InSystem(x, Dgram(x, "token", 0)) \/ Kept(x)'
  <2>1. CASE x # c
    <3>1. Follows(x)
      BY <2>1, OtherLines, FollowsSame
    <3> QED BY <1>3, <3>1, SystemFollows
  <2>2. CASE x = c /\ ~SendToken(c)
    <3>1. PICK n \in Nat : Item(c, n, Dgram(c, "token", 0))'
      BY <1>3, <2>2 DEF InSystem
    <3>2. PICK d : d = Dgram(c, "token", 0)
      OBVIOUS
    <3>3. Item(c, n, d)'
      BY <3>1, <3>2
    <3>4. CASE Sending(c)
      <4>1. Item(c, n, d) \/ d = New(c)
        BY <3>3, <3>4, SendingLine
      <4>2. New(c).kind # "token"
        BY <2>2, <3>4 DEF Sending, SendChunk, SendEof, New, Dgram
      <4>3. d.kind = "token"
        BY <3>2 DEF Dgram
      <4> QED BY <2>2, <3>2, <4>1, <4>2, <4>3 DEF InSystem
    <3>5. CASE FileSent(c) \/ SendFails(c) \/ ClientDone(c)
      BY <2>2, <3>2, <3>3, <3>5, QuietClient DEF InSystem
    <3> QED BY <3>4, <3>5 DEF ClientMoves, Sending
  <2>3. CASE x = c /\ SendToken(c)
    <3>1. cl'[c] = "data" /\ next'[c] = 1
      BY <2>3 DEF SendToken, TInv, TypeOK
    <3>2. SentBy(c)' = {}
      BY <3>1 DEF SentBy
    <3> QED BY <2>3, <3>2 DEF Kept
  <2> QED BY <2>1, <2>2, <2>3
<1> QED BY <1>1, <1>2, <1>3, QuietNoneMissing DEF Line

\* A datagram of a client that is not its token stands after the token.
LEMMA TokenFirst ==
    ASSUME TInv, Line, NEW c \in Clients, file = <<>>, queue # <<>>,
           Head(queue).from = c, Head(queue).kind # "token",
           InSystem(c, Dgram(c, "token", 0))
    PROVE  FALSE
<1>1. PICK d : d = Dgram(c, "token", 0)
  OBVIOUS
<1>2. d \in Datagram /\ d.kind = "token" /\ d.from = c
  BY <1>1, DgramOf, ConstantsAssumption DEF ConstantsAssumption, Of, Dgram
<1>3. PICK n \in Nat : Item(c, n, d)
  BY <1>1 DEF InSystem
<1>4. Len(file) = 0 /\ Len(queue) \in Nat /\ Head(queue) = queue[1]
  BY Lengths, WithoutHead DEF TInv, TypeOK
<1>5. Item(c, 1, Head(queue)) /\ Head(queue) \in Datagram
  <2>1. Len(file) + 1 = 1
    BY <1>4
  <2> QED BY <2>1, HeadPlace
<1>6. n >= 1
  BY <1>3, Place
<1>7. n # 1
  <2> SUFFICES ASSUME n = 1 PROVE FALSE
    OBVIOUS
  <2>1. ~Written(c, 1, d)
    BY <1>4 DEF Written
  <2>2. ~Waiting(c, 1, d)
    <3> SUFFICES ASSUME NEW i \in 1 .. Len(queue), 1 = Len(file) + i, d = queue[i]
                 PROVE  FALSE
      BY DEF Waiting
    <3>1. i = 1
      BY <1>4
    <3> QED BY <1>2, <1>4, <3>1
  <2>3. ~UnderWayAt(c, 1, d)
    <3> SUFFICES ASSUME NEW i \in 1 .. Len(net[c]), 1 = Len(file) + Len(queue) + i
                 PROVE  FALSE
      BY DEF UnderWayAt
    <3>1. Len(queue) >= 1 /\ Len(net[c]) \in Nat
      BY Lengths, WithoutHead DEF TInv, TypeOK
    <3> QED BY <1>4, <3>1
  <2> QED BY <1>3, <2>1, <2>2, <2>3 DEF Item
<1>8. Before(Head(queue), d)
  <2>1. 1 < n
    BY <1>6, <1>7
  <2> QED BY <1>2, <1>3, <1>5, <2>1 DEF Line, InLine
<1>9. Rank(d) = 0 /\ Rank(Head(queue)) \in Nat
  BY <1>2, <1>5, ConstantsAssumption DEF ConstantsAssumption, Rank, Datagram
<1> QED BY <1>2, <1>8, <1>9 DEF Before

LEMMA TakesKept ==
    ASSUME TInv, NEW h, Received(h), UNCHANGED <<file, net, cl, next, lost>>,
           NEW c \in Clients, Kept(c), \A i : h # Chunk(c, i)
    PROVE  Kept(c)'
<1>1. Stays(c, {h})
  BY TakesLine
<1>2. \A i \in SentBy(c)' : i \in SentBy(c)
  BY DEF SentBy
<1> QED BY <1>1, <1>2, KeptOn

\* The empty datagram that ends the transfer stands after every chunk.
LEMMA FinishComplete ==
    ASSUME TInv, Line, NoneMissing, Secure, NEW h, Finish(h)
    PROVE  CompleteUnlessLost'
<1>1. /\ state = "recv" /\ queue # <<>> /\ h = Head(queue) /\ h.from = auth_clt
      /\ h.kind = "empty" /\ UNCHANGED <<auth_clt, file, lost>>
  BY DEF Finish, Received, EndsFirst, same_client, serverUnchanged
<1>2. PICK c \in Clients : c = auth_clt /\ c = auth_clt'
  BY <1>1 DEF Line, NoToken, FileOf
<1>3. Item(c, Len(file) + 1, h) /\ h \in Datagram /\ Len(file) \in Nat
  BY <1>1, <1>2, HeadPlace, Lengths
<1>4. Len(file) + 1 \in Nat
  BY <1>3
<1>5. cl[c] \in {"eof", "done"}
  BY <1>1, <1>3, <1>4 DEF Line, InLine, Real
<1> SUFFICES ASSUME NEW i \in 1 .. Chunks
             PROVE  \/ Dgram(c, "chunk", i) \in lost
                    \/ \E k \in 1 .. Len(file) : file[k].dgram = Dgram(c, "chunk", i)
  BY <1>1, <1>2 DEF CompleteUnlessLost, Dgram
<1>6. i \in SentBy(c)
  BY <1>5 DEF SentBy
<1>7. Chunk(c, i) \in lost \/ \E n \in Nat : Item(c, n, Chunk(c, i))
  BY <1>1, <1>2, <1>6 DEF NoneMissing, Kept, InSystem
<1>8. ASSUME NEW n \in Nat, Item(c, n, Chunk(c, i)) PROVE Written(c, n, Chunk(c, i))
  <2>1. PICK d : d = Chunk(c, i)
    OBVIOUS
  <2>2. d.kind = "chunk" /\ Rank(d) = i /\ d.from = c /\ Item(c, n, d) /\ d \in Datagram
    <3>1. d.kind = "chunk" /\ Rank(d) = i /\ d.from = c
      BY <2>1 DEF Chunk, Dgram, Rank
    <3> QED BY <1>8, <2>1, <3>1, Place
  <2>3. ~(Len(file) + 1 < n)
    <3> SUFFICES ASSUME Len(file) + 1 < n PROVE FALSE
      OBVIOUS
    <3>1. Before(h, d)
      BY <1>3, <1>4, <2>2 DEF Line, InLine
    <3>2. Rank(h) = Chunks + 1 /\ Chunks \in Nat
      BY <1>1, ConstantsAssumption DEF ConstantsAssumption, Rank
    <3> QED BY <2>2, <3>1, <3>2 DEF Before
  <2>4. n # Len(file) + 1
    <3> SUFFICES ASSUME n = Len(file) + 1 PROVE FALSE
      OBVIOUS
    <3>0. Len(queue) \in Nat /\ Len(queue) >= 1 /\ Head(queue) = queue[1]
      BY WithoutHead, <1>1 DEF TInv, TypeOK
    <3>1. ~Written(c, n, d)
      BY <1>3 DEF Written
    <3>2. ~Waiting(c, n, d)
      <4> SUFFICES ASSUME NEW j \in 1 .. Len(queue), n = Len(file) + j, d = queue[j]
                   PROVE  FALSE
        BY DEF Waiting
      <4>1. j = 1
        BY <1>3, <3>0
      <4> QED BY <1>1, <2>2, <3>0, <4>1
    <3>3. ~UnderWayAt(c, n, d)
      <4> SUFFICES ASSUME NEW j \in 1 .. Len(net[c]), n = Len(file) + Len(queue) + j
                   PROVE  FALSE
        BY DEF UnderWayAt
      <4>1. Len(net[c]) \in Nat
        BY Lengths
      <4> QED BY <1>3, <3>0, <4>1
    <3> QED BY <2>2, <3>1, <3>2, <3>3 DEF Item
  <2>5. n <= Len(file)
    BY <1>3, <2>3, <2>4
  <2>6. ~Waiting(c, n, d) /\ ~UnderWayAt(c, n, d)
    <3>1. Len(queue) \in Nat /\ Len(net[c]) \in Nat
      BY Lengths
    <3>2. ~Waiting(c, n, d)
      BY <1>3, <2>5, <3>1 DEF Waiting
    <3>3. ~UnderWayAt(c, n, d)
      BY <1>3, <2>5, <3>1 DEF UnderWayAt
    <3> QED BY <3>2, <3>3
  <2> QED BY <2>1, <2>2, <2>6 DEF Item
<1>9. CASE \E n \in Nat : Item(c, n, Chunk(c, i))
  <2>1. PICK n \in Nat : Written(c, n, Chunk(c, i))
    BY <1>8, <1>9
  <2> QED BY <2>1 DEF Written, Chunk
<1> QED BY <1>7, <1>9 DEF Chunk

LEMMA ServerNoneMissing ==
    ASSUME TInv, Line, NoneMissing, Secure, ServerNext
    PROVE  NoneMissing'
<1>0. UNCHANGED <<cl, next, lost>> /\ \A c \in Clients : Follows(c)
  <2>1. UNCHANGED <<cl, next, lost>>
    BY DEF ServerNext, OpenFile, OpenFails, Timeout, AuthIgnores, AuthAccepts, IdleExit,
           Ignore, Finish, TooLarge, Write, WriteFails, serverUnchanged, client
  <2> QED BY <2>1, ServerLine
<1>1. ASSUME NEW h, AuthIgnores(h) PROVE NoneMissing'
  <2>1. /\ state = "auth" /\ Received(h) /\ h.kind # "token" /\ queue # <<>>
        /\ h = Head(queue) /\ UNCHANGED <<state, file, net>>
    BY <1>1 DEF AuthIgnores, Received, server, serverUnchanged
  <2>2. ASSUME NEW c \in Clients, InSystem(c, Dgram(c, "token", 0))' PROVE Kept(c)'
    <3>1. InSystem(c, Dgram(c, "token", 0))
      BY <1>0, <2>2, SystemFollows
    <3>2. h.from # c
      BY <2>1, <3>1, TokenFirst DEF Line, NoToken, FileOf
    <3>3. \A i : h # Chunk(c, i)
      BY <3>2 DEF Chunk, Dgram
    <3>4. Kept(c)
      BY <2>1, <3>1 DEF NoneMissing
    <3> QED BY <1>0, <2>1, <3>3, <3>4, TakesKept
  <2> QED BY <2>1, <2>2 DEF NoneMissing, CompleteUnlessLost
<1>2. ASSUME NEW h, AuthAccepts(h) PROVE NoneMissing'
  <2>1. /\ h.from \in Clients /\ h.kind = "token" /\ h \in Datagram
        /\ queue # <<>> /\ h = Head(queue)
    BY <1>2, AcceptedClient
  <2>2. /\ state = "auth" /\ Received(h) /\ auth_clt' = h.from /\ state' = "open"
        /\ UNCHANGED <<file, net>>
    BY <1>2 DEF AuthAccepts, serverUnchanged
  <2>3. PICK c \in Clients : c = h.from
    BY <2>1
  <2>4. Item(c, Len(file) + 1, h) /\ Len(file) + 1 \in Nat
    BY <2>1, <2>3, HeadPlace, Lengths
  <2>5. h = Dgram(c, "token", 0)
    <3>1. h.i = 0
      BY <2>1, <2>3, <2>4 DEF Line, InLine, Real
    <3> QED BY <2>1, <2>3, <3>1 DEF Datagram, Dgram
  <2>6. Kept(c)
    BY <2>2, <2>4, <2>5 DEF NoneMissing, InSystem
  <2>7. \A i : h # Chunk(c, i)
    BY <2>1 DEF Chunk, Dgram
  <2>8. Kept(c)'
    BY <1>0, <2>2, <2>6, <2>7, TakesKept
  <2>9. Kept(auth_clt)'
    BY <2>2, <2>3, <2>8
  <2> QED BY <2>2, <2>9 DEF NoneMissing, CompleteUnlessLost
<1>3. ASSUME state \in {"open", "recv"}, state' \in {"open", "recv"}, UNCHANGED auth_clt,
             \A c \in Clients : Kept(c) /\ c = auth_clt => Kept(c)'
      PROVE  NoneMissing'
  <2>1. PICK c \in Clients : c = auth_clt /\ c = auth_clt'
    BY <1>3 DEF Line, NoToken, FileOf
  <2>2. Kept(c)'
    BY <1>3, <2>1 DEF NoneMissing
  <2>3. Kept(auth_clt)'
    BY <2>1, <2>2
  <2> QED BY <1>3, <2>3 DEF NoneMissing, CompleteUnlessLost
<1>4. CASE OpenFile
  <2>1. state = "open" /\ state' = "recv" /\ UNCHANGED <<auth_clt, file, queue, net>>
    BY <1>4 DEF OpenFile, serverUnchanged
  <2>2. \A c \in Clients : Kept(c) => Kept(c)'
    <3>1. \A c \in Clients : \A out : Stays(c, out)
      BY <2>1, LineSame, FollowsSame
    <3> QED BY <1>0, <3>1, QuietKept
  <2> QED BY <1>3, <2>1, <2>2
<1>5. ASSUME state' = "failed" PROVE NoneMissing'
  BY <1>5 DEF NoneMissing, CompleteUnlessLost
<1>6. ASSUME NEW h, Ignore(h) PROVE NoneMissing'
  <2>1. /\ state = "recv" /\ Received(h) /\ h.from # auth_clt
        /\ UNCHANGED <<state, auth_clt, file, net>>
    BY <1>6 DEF Ignore, same_client, server, serverUnchanged
  <2>2. ASSUME NEW c \in Clients, Kept(c), c = auth_clt PROVE Kept(c)'
    <3>1. \A i : h # Chunk(c, i)
      BY <2>1, <2>2 DEF Chunk, Dgram
    <3> QED BY <1>0, <2>1, <2>2, <3>1, TakesKept
  <2> QED BY <1>3, <2>1, <2>2
<1>7. ASSUME NEW h, Finish(h) PROVE NoneMissing'
  <2>1. state' = "done"
    BY <1>7 DEF Finish
  <2> QED BY <1>7, <2>1, FinishComplete DEF NoneMissing
<1>8. ASSUME NEW h, Write(h) PROVE NoneMissing'
  <2>1. state = "recv" /\ UNCHANGED <<state, auth_clt>>
    BY <1>8 DEF Write, Data
  <2>2. ASSUME NEW c \in Clients, Kept(c) PROVE Kept(c)'
    <3>1. Stays(c, {})
      BY <1>8, WriteLine
    <3>2. \A i \in SentBy(c)' : i \in SentBy(c)
      BY <1>0 DEF SentBy
    <3> QED BY <1>0, <2>2, <3>1, <3>2, KeptOn
  <2> QED BY <1>3, <2>1, <2>2
<1>9. CASE OpenFails \/ Timeout
  BY <1>5, <1>9 DEF OpenFails, Timeout, Fail
<1>10. ASSUME NEW h, IdleExit(h) \/ TooLarge(h) \/ WriteFails(h) PROVE NoneMissing'
  BY <1>5, <1>10 DEF IdleExit, TooLarge, WriteFails, Fail
<1> QED BY <1>1, <1>2, <1>4, <1>6, <1>7, <1>8, <1>9, <1>10 DEF ServerNext

LEMMA StepNoneMissing ==
    ASSUME TInv, Line, NoneMissing, Secure, Ordered, Copies = 0, [Next]_vars
    PROVE  NoneMissing'
<1>1. ASSUME \A c \in Clients : Follows(c) /\ Stays(c, lost'),
             UNCHANGED <<state, auth_clt, file, cl, next>>, lost \subseteq lost'
      PROVE  NoneMissing'
  <2>1. \A c \in Clients : Kept(c) => Kept(c)'
    BY <1>1, QuietKept
  <2>2. \A c \in Clients : InSystem(c, Dgram(c, "token", 0))' =>
            InSystem(c, Dgram(c, "token", 0))
    BY <1>1, SystemFollows
  <2> QED BY <1>1, <2>1, <2>2, QuietNoneMissing DEF Line
<1>2. CASE Environment \/ Tick
  <2>1. lost \subseteq lost' /\ UNCHANGED <<state, auth_clt, file, cl, next>>
    BY <1>2 DEF Environment, Deliver, Duplicate, Lose, Stray, ClockSetBack, Tick, Reaches,
                netUnchanged, server, client
  <2>2. \A c \in Clients : Follows(c) /\ Stays(c, lost')
    BY <1>2, EnvironmentLine
  <2> QED BY <1>1, <2>1, <2>2
<1>3. CASE UNCHANGED vars
  <2>1. UNCHANGED <<state, auth_clt, file, queue, net, cl, next, lost>>
    BY <1>3 DEF vars, server, client
  <2>2. \A c \in Clients : Follows(c) /\ Stays(c, lost')
    BY <2>1, LineSame, FollowsSame
  <2> QED BY <1>1, <2>1, <2>2
<1>4. ASSUME NEW c \in Clients, ClientMoves(c) PROVE NoneMissing'
  BY <1>4, ClientNoneMissing
<1>5. CASE ServerNext
  BY <1>5, ServerNoneMissing
<1> QED BY <1>2, <1>3, <1>4, <1>5 DEF Next, ClientNext, ClientMoves

LEMMA InitNoneMissing == Init => NoneMissing
<1> SUFFICES ASSUME Init PROVE NoneMissing
  OBVIOUS
<1>1. \A c \in Clients : SentBy(c) = {}
  BY DEF Init, SentBy
<1> QED BY <1>1 DEF Init, NoneMissing, Kept, CompleteUnlessLost

\* Over such a network, the server that checks its client reports success only
\* when every chunk was written or lost on the way.
THEOREM CompleteSafe == Secure /\ Ordered /\ Copies = 0 => (Spec => []CompleteUnlessLost)
<1> SUFFICES ASSUME Secure, Ordered, Copies = 0 PROVE Spec => []CompleteUnlessLost
  OBVIOUS
<1>1. Init => TInv /\ Line /\ NoneMissing
  BY InitTInv, InitLine, InitNoneMissing
<1>2. TInv /\ Line /\ NoneMissing /\ [Next]_vars => (TInv /\ Line /\ NoneMissing)'
  BY StepTInv, StepLine, StepNoneMissing
<1>3. NoneMissing => CompleteUnlessLost
  BY DEF NoneMissing
<1> QED BY <1>1, <1>2, <1>3, PTL DEF Spec

-----------------------------------------------------------------------------
(* NoRepeat, over a network that loses, reorders and copies.  Each place of *)
(* a client's line gets a label: 0 for what the client sent, a number of    *)
(* its own for what the network added.  Then no two places with 0 have the  *)
(* same datagram, but for the empty ones, which are never written.  When a  *)
(* copy of the token is accepted, its label goes over to the one sent, so   *)
(* that a token is written only as a copy.                                  *)

Labels(c, w) ==
    /\ w \in [Nat -> Nat]
    /\ \A n \in Nat : \A d : Item(c, n, d) => w[n] <= copies
    /\ \A m, n \in Nat : \A d, e :
          m # n /\ Item(c, m, d) /\ Item(c, n, e) /\ w[m] = w[n] =>
              w[m] = 0 /\ (d # e \/ d.kind = "empty")
    /\ state # "auth" /\ auth_clt = c =>
          \A n \in Nat : \A d : Item(c, n, d) /\ w[n] = 0 => d.kind # "token"
Labelled(c) == \E w : Labels(c, w)

\* Two places with one label: it is 0, and their contents differ or are empty.
LEMMA LabelsDiffer ==
    ASSUME NEW c, NEW w, Labels(c, w), NEW m \in Nat, NEW n \in Nat, m # n,
           NEW d, NEW e, Item(c, m, d), Item(c, n, e), w[m] = w[n]
    PROVE  w[m] = 0 /\ (d # e \/ d.kind = "empty")
BY DEF Labels

Sane(c) ==
    /\ \A n \in Nat : \A d : Item(c, n, d) => Real(c, d)
    /\ cl[c] = "data" => next[c] \in 1 .. Chunks + 1

LInv == (\A c \in Clients : Sane(c) /\ Labelled(c)) /\ FileOf

\* What of c is in the system was there before, each at a place of its own.
Moves(c) ==
    \E f \in [Nat -> Nat] :
        /\ \A n \in Nat : \A d : Item(c, n, d)' => Item(c, f[n], d)
        /\ \A m, n \in Nat : \A d, e :
              m # n /\ Item(c, m, d)' /\ Item(c, n, e)' => f[m] # f[n]

LEMMA MovesSame ==
    ASSUME NEW c, \A n \in Nat : \A d : Item(c, n, d)' <=> Item(c, n, d)
    PROVE  Moves(c)
<1>1. PICK f : f = [n \in Nat |-> n]
  OBVIOUS
<1>2. f \in [Nat -> Nat] /\ \A n \in Nat : f[n] = n
  BY <1>1
<1> QED BY <1>2 DEF Moves

LEMMA MovesShorter ==
    ASSUME NEW c, NEW p \in Nat,
           \A n, d : Item(c, n, d)' =>
               (n < p /\ Item(c, n, d)) \/ (n >= p /\ Item(c, n + 1, d))
    PROVE  Moves(c)
<1>1. PICK f : f = [n \in Nat |-> IF n < p THEN n ELSE n + 1]
  OBVIOUS
<1>2. f \in [Nat -> Nat] /\ \A n \in Nat : f[n] = IF n < p THEN n ELSE n + 1
  BY <1>1
<1>3. ASSUME NEW n \in Nat, NEW d, Item(c, n, d)' PROVE Item(c, f[n], d)
  <2>1. CASE n < p
    BY <1>2, <1>3, <2>1
  <2>2. CASE ~(n < p)
    BY <1>2, <1>3, <2>2
  <2> QED BY <2>1, <2>2
<1>4. \A m, n \in Nat : m # n => f[m] # f[n]
  BY <1>2
<1> QED BY <1>2, <1>3, <1>4 DEF Moves

LEMMA MovesWider ==
    ASSUME NEW c, NEW p \in Nat,
           \A n, d : Item(c, n, d)' =>
               \/ n < p /\ Item(c, n, d)
               \/ n > p /\ n \in Nat /\ Item(c, n - 1, d)
    PROVE  Moves(c)
<1>1. PICK f : f = [n \in Nat |-> IF n <= p THEN n ELSE n - 1]
  OBVIOUS
<1>2. \A n \in Nat : f[n] = IF n <= p THEN n ELSE n - 1
  BY <1>1
<1>3. f \in [Nat -> Nat]
  <2>1. \A n \in Nat : (IF n <= p THEN n ELSE n - 1) \in Nat
    OBVIOUS
  <2> QED BY <1>1, <2>1
<1>4. ASSUME NEW n \in Nat, NEW d, Item(c, n, d)' PROVE Item(c, f[n], d) /\ n # p
  <2>1. CASE n < p /\ Item(c, n, d)
    BY <1>2, <2>1
  <2>2. CASE n > p /\ Item(c, n - 1, d)
    BY <1>2, <2>2
  <2> QED BY <1>4, <2>1, <2>2
<1>5. \A m, n \in Nat : m # n /\ m # p /\ n # p => f[m] # f[n]
  BY <1>2
<1> QED BY <1>3, <1>4, <1>5 DEF Moves

\* A datagram of c overtakes those before it on its way into the socket.
LEMMA LineOvertakes ==
    ASSUME TInv, NEW c \in Clients, NEW k \in 1 .. Len(net[c]),
           net'[c] = RemoveAt(net[c], k), UNCHANGED file,
           queue' = Append(queue, net[c][k])
    PROVE  \E p \in Nat : \A n \in Nat : \A d : Item(c, n, d)' =>
               \/ n < p /\ Item(c, n, d)
               \/ n = p /\ Item(c, p + k - 1, d)
               \/ p < n /\ n < p + k /\ Item(c, n - 1, d)
               \/ n >= p + k /\ Item(c, n, d)
<1>1. /\ Len(file) \in Nat /\ Len(queue) \in Nat /\ Len(net[c]) \in Nat
      /\ k \in Nat /\ 1 <= k /\ k <= Len(net[c])
      /\ Len(net'[c]) = Len(net[c]) - 1
      /\ \A i \in 1 .. Len(net'[c]) :
            net'[c][i] = IF i < k THEN net[c][i] ELSE net[c][i + 1]
  <2>1. PICK s \in Seq(Datagram) : s = net[c]
    BY Lengths
  <2>2. PICK t : t = net'[c] /\ t = RemoveAt(s, k)
    BY <2>1
  <2>3. k \in 1 .. Len(s)
    BY <2>1
  <2>4. /\ Len(s) \in Nat /\ Len(t) = Len(s) - 1
        /\ \A i \in 1 .. Len(t) : t[i] = IF i < k THEN s[i] ELSE s[i + 1]
    BY <2>2, <2>3, Shorter
  <2>5. k \in Nat /\ 1 <= k /\ k <= Len(s)
    BY <2>3, <2>4
  <2> QED BY <2>1, <2>2, <2>4, <2>5, Lengths
<1>2. net[c][k] \in Datagram
  BY UnderWay DEF Of
<1>3. /\ Len(queue') = Len(queue) + 1
      /\ \A i \in 1 .. Len(queue) : queue'[i] = queue[i]
      /\ queue'[Len(queue) + 1] = net[c][k]
  BY <1>2, Longer DEF TInv, TypeOK
<1>a. Len(file) + Len(queue) + 1 \in Nat
  BY <1>1
<1>b. PICK p \in Nat : p = Len(file) + Len(queue) + 1
  BY <1>a, Zenon
<1>4. \A n, d : Written(c, n, d)' => n < p /\ Written(c, n, d)
  BY <1>1, <1>b DEF Written
<1>5. ASSUME NEW n, NEW d, Waiting(c, n, d)'
      PROVE  (n < p /\ Waiting(c, n, d)) \/ (n = p /\ UnderWayAt(c, p + k - 1, d))
  <2>1. PICK i \in 1 .. Len(queue') : n = Len(file) + i /\ d = queue'[i] /\ d.from = c
    BY <1>5 DEF Waiting
  <2>2. CASE i \in 1 .. Len(queue)
    <3>1. n < p /\ d = queue[i]
      BY <1>1, <1>3, <1>b, <2>1, <2>2
    <3> QED BY <2>1, <2>2, <3>1 DEF Waiting
  <2>3. CASE i = Len(queue) + 1
    <3>1. n = p /\ p + k - 1 = Len(file) + Len(queue) + k /\ d = net[c][k]
      BY <1>1, <1>3, <1>b, <2>1, <2>3
    <3> QED BY <3>1 DEF UnderWayAt
  <2> QED BY <1>1, <1>3, <2>1, <2>2, <2>3
<1>6. ASSUME NEW n, NEW d, UnderWayAt(c, n, d)'
      PROVE  \/ p < n /\ n < p + k /\ UnderWayAt(c, n - 1, d)
             \/ n >= p + k /\ UnderWayAt(c, n, d)
  <2>1. PICK i \in 1 .. Len(net'[c]) : n = Len(file) + Len(queue') + i /\ d = net'[c][i]
    BY <1>6 DEF UnderWayAt
  <2>2. CASE i < k
    <3>1. /\ p < n /\ n < p + k /\ n - 1 = Len(file) + Len(queue) + i
          /\ i \in 1 .. Len(net[c])
      BY <1>1, <1>3, <1>b, <2>1, <2>2, SMTT(30)
    <3>2. d = net[c][i]
      BY <1>1, <2>1, <2>2
    <3> QED BY <3>1, <3>2 DEF UnderWayAt
  <2>3. CASE i >= k
    <3>1. PICK j \in Nat : j = i + 1
      BY <1>1, <2>1
    <3>2. /\ n >= p + k /\ n = Len(file) + Len(queue) + j /\ j \in 1 .. Len(net[c])
      BY <1>1, <1>3, <1>b, <2>1, <2>3, <3>1
    <3>3. d = net[c][j]
      BY <1>1, <2>1, <2>3, <3>1
    <3> QED BY <3>2, <3>3 DEF UnderWayAt
  <2> QED BY <1>1, <2>1, <2>2, <2>3
<1> QED BY <1>b, <1>4, <1>5, <1>6 DEF Item

LEMMA MovesOvertaking ==
    ASSUME NEW c, NEW p \in Nat, NEW k \in Nat, k >= 1,
           \A n \in Nat : \A d : Item(c, n, d)' =>
               \/ n < p /\ Item(c, n, d)
               \/ n = p /\ Item(c, p + k - 1, d)
               \/ p < n /\ n < p + k /\ Item(c, n - 1, d)
               \/ n >= p + k /\ Item(c, n, d)
    PROVE  Moves(c)
<1> DEFINE g(n) == IF n = p THEN p + k - 1 ELSE IF p < n /\ n < p + k THEN n - 1 ELSE n
<1>1. PICK f : f = [n \in Nat |-> g(n)]
  OBVIOUS
<1>2. \A n \in Nat : f[n] = g(n)
  BY <1>1
<1>3. f \in [Nat -> Nat]
  <2>1. \A n \in Nat : g(n) \in Nat
    OBVIOUS
  <2> HIDE DEF g
  <2> QED BY <1>1, <2>1
<1>4. ASSUME NEW n \in Nat, NEW d, Item(c, n, d)' PROVE Item(c, f[n], d)
  <2>1. CASE n < p /\ Item(c, n, d)
    BY <1>2, <2>1
  <2>2. CASE n = p /\ Item(c, p + k - 1, d)
    BY <1>2, <2>2
  <2>3. CASE p < n /\ n < p + k /\ Item(c, n - 1, d)
    BY <1>2, <2>3
  <2>4. CASE n >= p + k /\ Item(c, n, d)
    BY <1>2, <2>4
  <2> QED BY <1>4, <2>1, <2>2, <2>3, <2>4
<1>5. \A m, n \in Nat : m # n => f[m] # f[n]
  <2>1. \A m, n \in Nat : m # n => g(m) # g(n)
    OBVIOUS
  <2> QED BY <1>2, <2>1
<1> QED BY <1>3, <1>4, <1>5 DEF Moves

LEMMA MovesSane ==
    ASSUME NEW c, Moves(c), Sane(c), cl'[c] = cl[c], next'[c] = next[c]
    PROVE  Sane(c)'
<1>1. \A d : Real(c, d)' <=> Real(c, d)
  BY DEF Real
<1> QED BY <1>1 DEF Sane, Moves

\* The labels move along.
LEMMA MovesLabelled ==
    ASSUME NEW c, Moves(c), Labelled(c), copies \in Nat, copies' \in Nat, copies <= copies',
           state' # "auth" /\ auth_clt' = c => state # "auth" /\ auth_clt = c
    PROVE  Labelled(c)'
<1>1. PICK f \in [Nat -> Nat] :
          /\ \A n \in Nat : \A d : Item(c, n, d)' => Item(c, f[n], d)
          /\ \A m, n \in Nat : \A d, e :
                m # n /\ Item(c, m, d)' /\ Item(c, n, e)' => f[m] # f[n]
  BY DEF Moves
<1>2. PICK w : Labels(c, w)
  BY DEF Labelled
<1>3. PICK v : v = [n \in Nat |-> w[f[n]]]
  OBVIOUS
<1>4. v \in [Nat -> Nat] /\ \A n \in Nat : f[n] \in Nat /\ v[n] = w[f[n]] /\ v[n] \in Nat
  BY <1>1, <1>2, <1>3 DEF Labels
<1>5. ASSUME NEW n \in Nat, NEW d, Item(c, n, d)' PROVE v[n] <= copies'
  <2>1. v[n] <= copies
    BY <1>1, <1>2, <1>4, <1>5 DEF Labels
  <2> QED BY <1>4, <2>1
<1>6. ASSUME NEW m \in Nat, NEW n \in Nat, NEW d, NEW e,
             m # n, Item(c, m, d)', Item(c, n, e)', v[m] = v[n]
      PROVE  v[m] = 0 /\ (d # e \/ d.kind = "empty")
  <2>1. f[m] # f[n] /\ Item(c, f[m], d) /\ Item(c, f[n], e) /\ w[f[m]] = w[f[n]]
    BY <1>1, <1>4, <1>6
  <2> QED BY <1>2, <1>4, <2>1 DEF Labels
<1>7. ASSUME state' # "auth", auth_clt' = c, NEW n \in Nat, NEW d, Item(c, n, d)', v[n] = 0
      PROVE  d.kind # "token"
  BY <1>1, <1>2, <1>4, <1>7 DEF Labels
<1>8. Labels(c, v)'
  BY <1>4, <1>5, <1>6, <1>7 DEF Labels
<1> QED BY <1>8 DEF Labelled

\* A copy of c's gets into the socket, before what is under way.
LEMMA LineCopies ==
    ASSUME TInv, NEW c \in Clients, NEW e \in Datagram, net'[c] = net[c],
           UNCHANGED file, queue' = Append(queue, e)
    PROVE  \E p \in Nat : \A n \in Nat : \A d : Item(c, n, d)' =>
               \/ n < p /\ Item(c, n, d)
               \/ n = p
               \/ n > p /\ Item(c, n - 1, d)
<1> DEFINE m == Len(file) + Len(queue) + 1
<1>1. /\ Len(file) \in Nat /\ Len(queue) \in Nat /\ Len(net[c]) \in Nat /\ m \in Nat
      /\ Len(queue') = Len(queue) + 1
      /\ \A i \in 1 .. Len(queue) : queue'[i] = queue[i]
  BY Lengths, Longer DEF TInv, TypeOK
<1>2. \A n, d : Written(c, n, d)' => n < m /\ Written(c, n, d)
  BY <1>1 DEF Written
<1>3. ASSUME NEW n, NEW d, Waiting(c, n, d)'
      PROVE  n = m \/ (n < m /\ Waiting(c, n, d))
  <2>1. PICK i \in 1 .. Len(queue') : n = Len(file) + i /\ d = queue'[i] /\ d.from = c
    BY <1>3 DEF Waiting
  <2>2. CASE i \in 1 .. Len(queue)
    <3>1. n < m /\ d = queue[i]
      BY <1>1, <2>1, <2>2
    <3> QED BY <2>1, <2>2, <3>1 DEF Waiting
  <2>3. CASE i = Len(queue) + 1
    BY <1>1, <2>1, <2>3
  <2> QED BY <1>1, <2>1, <2>2, <2>3
<1>4. ASSUME NEW n, NEW d, UnderWayAt(c, n, d)' PROVE n > m /\ UnderWayAt(c, n - 1, d)
  <2>1. PICK i \in 1 .. Len(net[c]) : n = Len(file) + Len(queue') + i /\ d = net[c][i]
    BY <1>4 DEF UnderWayAt
  <2>2. n > m /\ n - 1 = Len(file) + Len(queue) + i
    BY <1>1, <2>1
  <2> QED BY <2>1, <2>2 DEF UnderWayAt
<1> QED BY <1>1, <1>2, <1>3, <1>4 DEF Item

\* The copy has a label of its own.
LEMMA CopyLabelled ==
    ASSUME NEW c, NEW p \in Nat, Labelled(c), copies \in Nat, copies' = copies + 1,
           \A n \in Nat : \A d : Item(c, n, d)' =>
               (n < p /\ Item(c, n, d)) \/ n = p \/ (n > p /\ Item(c, n - 1, d)),
           UNCHANGED <<state, auth_clt>>
    PROVE  Labelled(c)'
<1>1. PICK w : Labels(c, w)
  BY DEF Labelled
<1>2. PICK k \in Nat : k = copies
  OBVIOUS
<1>3. PICK f : f = [n \in Nat |-> IF n <= p THEN n ELSE n - 1]
  OBVIOUS
<1>4. \A n \in Nat : f[n] \in Nat /\ f[n] = IF n <= p THEN n ELSE n - 1
  <2>1. \A n \in Nat : (IF n <= p THEN n ELSE n - 1) \in Nat
    OBVIOUS
  <2> QED BY <1>3, <2>1
<1>5. ASSUME NEW n \in Nat, NEW d, Item(c, n, d)', n # p PROVE Item(c, f[n], d)
  <2>1. CASE n < p /\ Item(c, n, d)
    BY <1>4, <2>1
  <2>2. CASE n > p /\ Item(c, n - 1, d)
    BY <1>4, <2>2
  <2> QED BY <1>5, <2>1, <2>2
<1>6. \A m, n \in Nat : m # n /\ m # p /\ n # p => f[m] # f[n]
  BY <1>4
<1>7. w \in [Nat -> Nat]
  BY <1>1 DEF Labels
<1>8. PICK v : v = [n \in Nat |-> IF n = p THEN k + 1 ELSE w[f[n]]]
  OBVIOUS
<1>9. /\ v \in [Nat -> Nat] /\ v[p] = k + 1
      /\ \A n \in Nat : v[n] \in Nat /\ (n # p => v[n] = w[f[n]])
  <2>1. \A n \in Nat : (IF n = p THEN k + 1 ELSE w[f[n]]) \in Nat
    BY <1>4, <1>7
  <2>2. \A n \in Nat : v[n] = IF n = p THEN k + 1 ELSE w[f[n]]
    BY <1>8
  <2> QED BY <1>8, <2>1, <2>2
<1>10. ASSUME NEW n \in Nat, NEW d, Item(c, n, d)', n # p PROVE v[n] <= k
  BY <1>1, <1>2, <1>4, <1>5, <1>9, <1>10 DEF Labels
<1>11. ASSUME NEW n \in Nat, NEW d, Item(c, n, d)' PROVE v[n] <= k + 1
  <2>1. CASE n = p
    BY <1>9, <2>1
  <2>2. CASE n # p
    <3>1. v[n] <= k /\ v[n] \in Nat
      BY <1>9, <1>10, <1>11, <2>2
    <3> QED BY <3>1
  <2> QED BY <2>1, <2>2
<1>12. ASSUME NEW m \in Nat, NEW n \in Nat, NEW d, NEW e,
              m # n, Item(c, m, d)', Item(c, n, e)', v[m] = v[n]
       PROVE  v[m] = 0 /\ (d # e \/ d.kind = "empty")
  <2>1. m # p /\ n # p
    <3>1. ASSUME m = p PROVE FALSE
      <4>1. v[n] <= k /\ v[n] \in Nat /\ v[n] = k + 1
        BY <1>9, <1>10, <1>12, <3>1
      <4> QED BY <4>1
    <3>2. ASSUME n = p PROVE FALSE
      <4>1. v[m] <= k /\ v[m] \in Nat /\ v[m] = k + 1
        BY <1>9, <1>10, <1>12, <3>2
      <4> QED BY <4>1
    <3> QED BY <3>1, <3>2
  <2>2. f[m] # f[n] /\ Item(c, f[m], d) /\ Item(c, f[n], e) /\ w[f[m]] = w[f[n]]
    BY <1>5, <1>6, <1>9, <1>12, <2>1
  <2> QED BY <1>1, <1>4, <1>9, <2>1, <2>2 DEF Labels
<1>13. ASSUME state # "auth", auth_clt = c, NEW n \in Nat, NEW d, Item(c, n, d)', v[n] = 0
       PROVE  d.kind # "token"
  <2>1. n # p
    BY <1>9, <1>13
  <2>2. f[n] \in Nat /\ Item(c, f[n], d) /\ w[f[n]] = 0
    BY <1>4, <1>5, <1>9, <1>13, <2>1
  <2> QED BY <1>1, <1>13, <2>2 DEF Labels
<1>14. Labels(c, v)'
  <2>1. copies' = k + 1
    BY <1>2
  <2> QED BY <1>9, <1>11, <1>12, <1>13, <2>1 DEF Labels
<1> QED BY <1>14 DEF Labelled

\* What is sent gets the label 0.
LEMMA SendLabelled ==
    ASSUME NEW c, NEW p \in Nat, NEW new, Labelled(c), UNCHANGED <<state, auth_clt, copies>>,
           copies \in Nat,
           \A n, d : Item(c, n, d) => n < p /\ (d # new \/ new.kind = "empty"),
           \A n, d : Item(c, n, d)' <=> Item(c, n, d) \/ (n = p /\ d = new),
           state # "auth" /\ auth_clt = c => new.kind # "token"
    PROVE  Labelled(c)'
<1>1. PICK w : Labels(c, w)
  BY DEF Labelled
<1>2. PICK v : v = [n \in Nat |-> IF n = p THEN 0 ELSE w[n]]
  OBVIOUS
<1>3. w \in [Nat -> Nat]
  BY <1>1 DEF Labels
<1>4. /\ v \in [Nat -> Nat] /\ v[p] = 0
      /\ \A n \in Nat : n # p => v[n] = w[n]
  <2>1. \A n \in Nat : (IF n = p THEN 0 ELSE w[n]) \in Nat
    BY <1>3
  <2> QED BY <1>2, <2>1
<1>5. \A n \in Nat : \A d : Item(c, n, d) => n # p
  OBVIOUS
<1>6. ASSUME NEW n \in Nat, NEW d, Item(c, n, d)' PROVE v[n] <= copies
  <2>1. CASE n = p
    <3>1. 0 <= copies
      OBVIOUS
    <3> QED BY <1>4, <2>1, <3>1
  <2>2. CASE n # p
    BY <1>1, <1>4, <1>6, <2>2 DEF Labels
  <2> QED BY <2>1, <2>2
<1>7. ASSUME NEW m \in Nat, NEW n \in Nat, NEW d, NEW e,
             m # n, Item(c, m, d)', Item(c, n, e)', v[m] = v[n]
      PROVE  v[m] = 0 /\ (d # e \/ d.kind = "empty")
  <2>1. CASE m = p
    <3>1. d = new /\ Item(c, n, e)
      BY <1>5, <1>7, <2>1
    <3> QED BY <1>4, <2>1, <3>1
  <2>2. CASE n = p
    <3>1. e = new /\ Item(c, m, d)
      BY <1>5, <1>7, <2>2
    <3>2. d # e \/ d.kind = "empty"
      BY <3>1
    <3> QED BY <1>4, <1>7, <2>2, <3>2
  <2>3. CASE m # p /\ n # p
    <3>1. Item(c, m, d) /\ Item(c, n, e) /\ w[m] = w[n]
      BY <1>4, <1>7, <2>3
    <3>2. w[m] = 0 /\ (d # e \/ d.kind = "empty")
      <4>1. Labels(c, w) /\ m # n
        BY <1>1, <1>7
      <4> QED BY <3>1, <4>1, LabelsDiffer
    <3> QED BY <1>4, <2>3, <3>2
  <2> QED BY <2>1, <2>2, <2>3
<1>8. ASSUME state # "auth", auth_clt = c, NEW n \in Nat, NEW d, Item(c, n, d)', v[n] = 0
      PROVE  d.kind # "token"
  <2>1. CASE Item(c, n, d)
    BY <1>1, <1>4, <1>5, <1>8, <2>1 DEF Labels
  <2>2. CASE d = new
    BY <1>8, <2>2
  <2> QED BY <1>8, <2>1, <2>2
<1>9. Labels(c, v)'
  BY <1>4, <1>6, <1>7, <1>8 DEF Labels
<1> QED BY <1>9 DEF Labelled

\* The head's label goes over to the token that was sent, if that is still
\* on its way.
LEMMA AcceptLabelled ==
    ASSUME NEW c, NEW p \in Nat, NEW h, Labelled(c), Item(c, p, h), h.kind = "token",
           UNCHANGED copies,
           \A n \in Nat : \A d : Item(c, n, d) /\ d.kind = "token" => d = h,
           \A n, d : Item(c, n, d)' =>
               (n < p /\ Item(c, n, d)) \/ (n >= p /\ Item(c, n + 1, d))
    PROVE  Labelled(c)'
<1>1. PICK w : Labels(c, w)
  BY DEF Labelled
<1>2. PICK f : f = [n \in Nat |-> IF n < p THEN n ELSE n + 1]
  OBVIOUS
<1>3. \A n \in Nat : f[n] \in Nat /\ f[n] = (IF n < p THEN n ELSE n + 1) /\ f[n] # p
  BY <1>2
<1>4. ASSUME NEW n \in Nat, NEW d, Item(c, n, d)' PROVE Item(c, f[n], d)
  <2>1. CASE n < p
    BY <1>3, <1>4, <2>1
  <2>2. CASE ~(n < p)
    BY <1>3, <1>4, <2>2
  <2> QED BY <2>1, <2>2
<1>5. \A m, n \in Nat : m # n => f[m] # f[n]
  BY <1>3
<1> DEFINE Original(n) == w[f[n]] = 0 /\ Item(c, f[n], h)
<1>6. w \in [Nat -> Nat]
  BY <1>1 DEF Labels
<1>7. \A m, n \in Nat : Original(m) /\ Original(n) => m = n
  BY <1>1, <1>3, <1>5 DEF Labels
<1>8. \A n \in Nat : Original(n) => w[p] # 0
  BY <1>1, <1>3 DEF Labels
<1>9. PICK v : v = [n \in Nat |-> IF Original(n) THEN w[p] ELSE w[f[n]]]
  OBVIOUS
<1>10. /\ v \in [Nat -> Nat]
       /\ \A n \in Nat : (Original(n) => v[n] = w[p]) /\ (~Original(n) => v[n] = w[f[n]])
  <2>1. \A n \in Nat : (IF Original(n) THEN w[p] ELSE w[f[n]]) \in Nat
    BY <1>3, <1>6
  <2>2. \A n \in Nat : v[n] = IF Original(n) THEN w[p] ELSE w[f[n]]
    BY <1>9
  <2> HIDE DEF Original
  <2> QED BY <1>9, <2>1, <2>2
<1>11. ASSUME NEW n \in Nat, NEW d, Item(c, n, d)' PROVE v[n] <= copies
  <2>1. w[p] <= copies /\ w[f[n]] <= copies
    BY <1>1, <1>3, <1>4, <1>11 DEF Labels
  <2> HIDE DEF Original
  <2> QED BY <1>10, <2>1
<1>12. \A n \in Nat : \A d : Item(c, n, d)' => w[f[n]] # w[p] \/ w[p] = 0
  BY <1>1, <1>3, <1>4 DEF Labels
<1>13. ASSUME NEW m \in Nat, NEW n \in Nat, NEW d, NEW e,
              m # n, Item(c, m, d)', Item(c, n, e)', v[m] = v[n]
       PROVE  v[m] = 0 /\ (d # e \/ d.kind = "empty")
  <2> HIDE DEF Original
  <2>1. ~(Original(m) /\ Original(n))
    BY <1>7, <1>13
  <2>2. ~(Original(m) /\ ~Original(n)) /\ ~(~Original(m) /\ Original(n))
    BY <1>8, <1>10, <1>12, <1>13
  <2>3. v[m] = w[f[m]] /\ w[f[m]] = w[f[n]]
    BY <1>10, <1>13, <2>1, <2>2
  <2>4. f[m] # f[n] /\ Item(c, f[m], d) /\ Item(c, f[n], e)
    BY <1>4, <1>5, <1>13
  <2> QED BY <1>1, <1>3, <2>3, <2>4 DEF Labels
<1>14. ASSUME NEW n \in Nat, NEW d, Item(c, n, d)', v[n] = 0
       PROVE  d.kind # "token"
  <2>1. SUFFICES ASSUME d.kind = "token" PROVE FALSE
    OBVIOUS
  <2>2. Item(c, f[n], h)
    BY <1>3, <1>4, <1>14, <2>1
  <2>3. CASE w[f[n]] = 0
    <3>1. Original(n)
      BY <2>2, <2>3
    <3> HIDE DEF Original
    <3> QED BY <1>8, <1>10, <1>14, <3>1
  <2>4. CASE w[f[n]] # 0
    <3>1. ~Original(n)
      BY <2>4
    <3> HIDE DEF Original
    <3> QED BY <1>10, <1>14, <2>4, <3>1
  <2> QED BY <2>3, <2>4
<1>15. Labels(c, v)'
  BY <1>10, <1>11, <1>13, <1>14 DEF Labels
<1> QED BY <1>15 DEF Labelled

-----------------------------------------------------------------------------
(* LInv at each step *)

LEMMA CopiesNat ==
    ASSUME TInv
    PROVE  copies \in Nat
BY ConstantsAssumption DEF ConstantsAssumption, TInv, TypeOK

LEMMA DeliverMoves ==
    ASSUME TInv, NEW c \in Clients, Deliver(c), NEW x \in Clients
    PROVE  Moves(x)
<1>1. PICK k \in 1 .. Len(net[c]) :
          /\ Reaches(net[c][k])
          /\ net' = [net EXCEPT ![c] = RemoveAt(net[c], k)] /\ UNCHANGED file
  BY DEF Deliver, netUnchanged, server
<1>2. net'[c] = RemoveAt(net[c], k) /\ (x # c => net'[x] = net[x])
  BY <1>1 DEF TInv, TypeOK
<1>3. net[c][k] \in Datagram /\ net[c][k].from = c
  BY <1>1, UnderWay DEF Of
<1>4. k \in Nat /\ k >= 1
  BY <1>1, Lengths
<1>5. CASE queue' = Append(queue, net[c][k])
  <2>1. CASE x = c
    <3>1. PICK p \in Nat : \A n \in Nat : \A d : Item(c, n, d)' =>
               \/ n < p /\ Item(c, n, d)
               \/ n = p /\ Item(c, p + k - 1, d)
               \/ p < n /\ n < p + k /\ Item(c, n - 1, d)
               \/ n >= p + k /\ Item(c, n, d)
      BY <1>1, <1>2, <1>5, LineOvertakes
    <3> QED BY <1>4, <2>1, <3>1, MovesOvertaking
  <2>2. CASE x # c
    <3>1. net[c][k].from # x /\ net'[x] = net[x]
      BY <1>2, <1>3, <2>2
    <3>2. PICK p \in Nat : \A n, d : Item(x, n, d)' =>
               \/ n < p /\ Item(x, n, d)
               \/ n > p /\ n \in Nat /\ Item(x, n - 1, d)
      BY <1>1, <1>3, <1>5, <3>1, LineWidens
    <3> QED BY <3>2, MovesWider
  <2> QED BY <2>1, <2>2
<1>6. CASE UNCHANGED queue
  <2>1. CASE x = c
    <3>1. PICK p \in Nat : \A n, d : Item(c, n, d)' =>
              (n < p /\ Item(c, n, d)) \/ (n >= p /\ Item(c, n + 1, d))
      BY <1>1, <1>2, <1>6, LineLoses
    <3> QED BY <2>1, <3>1, MovesShorter
  <2>2. CASE x # c
    <3>1. \A n, d : Item(x, n, d)' <=> Item(x, n, d)
      BY <1>1, <1>2, <1>6, <2>2, LineSame
    <3> QED BY <3>1, MovesSame
  <2> QED BY <2>1, <2>2
<1> QED BY <1>1, <1>5, <1>6 DEF Reaches

LEMMA LoseMoves ==
    ASSUME TInv, NEW c \in Clients, Lose(c), NEW x \in Clients
    PROVE  Moves(x)
<1>1. PICK k \in 1 .. Len(net[c]) :
          /\ net' = [net EXCEPT ![c] = RemoveAt(net[c], k)]
          /\ UNCHANGED <<file, queue>>
  BY DEF Lose, netUnchanged, server
<1>2. net'[c] = RemoveAt(net[c], k) /\ (x # c => net'[x] = net[x])
  BY <1>1 DEF TInv, TypeOK
<1>3. CASE x = c
  <2>1. PICK p \in Nat : \A n, d : Item(c, n, d)' =>
            (n < p /\ Item(c, n, d)) \/ (n >= p /\ Item(c, n + 1, d))
    BY <1>1, <1>2, LineLoses
  <2> QED BY <1>3, <2>1, MovesShorter
<1>4. CASE x # c
  <2>1. \A n, d : Item(x, n, d)' <=> Item(x, n, d)
    BY <1>1, <1>2, <1>4, LineSame
  <2> QED BY <2>1, MovesSame
<1> QED BY <1>3, <1>4

LEMMA StrayMoves ==
    ASSUME TInv, NEW s \in Strangers, Stray(s), NEW x \in Clients
    PROVE  Moves(x)
<1>1. PICK kind \in {"empty", "junk"} : queue' = Append(queue, Dgram(s, kind, 0))
  BY DEF Stray
<1>2. PICK e : e = Dgram(s, kind, 0)
  OBVIOUS
<1>3. e \in Datagram /\ e.from # x
  BY <1>2, ConstantsAssumption DEF ConstantsAssumption, Dgram, Datagram, Senders
<1>4. UNCHANGED file /\ net'[x] = net[x] /\ queue' = Append(queue, e)
  BY <1>1, <1>2 DEF Stray, netUnchanged, server
<1>5. PICK p \in Nat : \A n, d : Item(x, n, d)' =>
           \/ n < p /\ Item(x, n, d)
           \/ n > p /\ n \in Nat /\ Item(x, n - 1, d)
  BY <1>3, <1>4, LineWidens
<1> QED BY <1>5, MovesWider

LEMMA StillMoves ==
    ASSUME UNCHANGED <<file, queue, net>>, NEW x
    PROVE  Moves(x)
<1>1. \A n, d : Item(x, n, d)' <=> Item(x, n, d)
  BY LineSame
<1> QED BY <1>1, MovesSame

\* Only what the network copies may have a new label.
LEMMA DuplicateLabels ==
    ASSUME TInv, NEW c \in Clients, Duplicate(c), NEW x \in Clients, Sane(x), Labelled(x)
    PROVE  Sane(x)' /\ Labelled(x)'
<1>1. PICK k \in 1 .. Len(net[c]) : Reaches(net[c][k])
  BY DEF Duplicate
<1>2. copies' = copies + 1 /\ UNCHANGED <<state, auth_clt, file, net, cl, next>>
  BY DEF Duplicate, netUnchanged, server, client
<1>3. copies \in Nat /\ copies' \in Nat /\ copies <= copies'
  BY <1>2, CopiesNat
<1>4. net[c][k] \in Datagram /\ net[c][k].from = c
  BY <1>1, UnderWay DEF Of
<1>5. ASSUME Moves(x) PROVE Sane(x)' /\ Labelled(x)'
  BY <1>2, <1>3, <1>5, MovesSane, MovesLabelled
<1>6. CASE queue' = Append(queue, net[c][k])
  <2>1. CASE x = c
    <3>1. PICK p \in Nat : \A n \in Nat : \A d : Item(c, n, d)' =>
              (n < p /\ Item(c, n, d)) \/ n = p \/ (n > p /\ Item(c, n - 1, d))
      BY <1>2, <1>4, <1>6, LineCopies
    <3>2. Labelled(c)'
      BY <1>2, <1>3, <2>1, <3>1, CopyLabelled
    <3>3. ASSUME NEW n \in Nat, NEW d, Item(c, n, d)' PROVE Real(c, d)'
      <4>1. \E m \in Nat : Item(c, m, d)
        <5>1. CASE Written(c, n, d)'
          BY <1>2, <5>1 DEF Item, Written
        <5>2. CASE UnderWayAt(c, n, d)'
          <6>1. PICK i \in 1 .. Len(net[c]) : d = net[c][i]
            BY <1>2, <5>2 DEF UnderWayAt
          <6>2. UnderWayAt(c, Len(file) + Len(queue) + i, d)
            BY <6>1 DEF UnderWayAt
          <6>3. Len(file) + Len(queue) + i \in Nat
            BY <6>1, Lengths
          <6> QED BY <6>2, <6>3 DEF Item
        <5>3. CASE Waiting(c, n, d)'
          <6>1. PICK i \in 1 .. Len(queue') : d = queue'[i] /\ d.from = c
            BY <5>3 DEF Waiting
          <6>2. /\ Len(queue) \in Nat /\ Len(queue') = Len(queue) + 1
                /\ \A j \in 1 .. Len(queue) : queue'[j] = queue[j]
                /\ queue'[Len(queue) + 1] = net[c][k]
            BY <1>4, <1>6, Longer, SMTT(30) DEF TInv, TypeOK
          <6>3. CASE i \in 1 .. Len(queue)
            <7>1. Waiting(c, Len(file) + i, d) /\ Len(file) + i \in Nat
              BY <6>1, <6>2, <6>3, Lengths DEF Waiting
            <7> QED BY <7>1 DEF Item
          <6>4. CASE i = Len(queue) + 1
            <7>1. UnderWayAt(c, Len(file) + Len(queue) + k, d)
              BY <1>1, <6>1, <6>2, <6>4 DEF UnderWayAt
            <7>2. Len(file) + Len(queue) + k \in Nat
              BY <1>1, Lengths
            <7> QED BY <7>1, <7>2 DEF Item
          <6> QED BY <6>1, <6>2, <6>3, <6>4
        <5> QED BY <3>3, <5>1, <5>2, <5>3 DEF Item
      <4>2. Real(c, d)
        BY <2>1, <4>1 DEF Sane
      <4> QED BY <1>2, <4>2 DEF Real
    <3>4. Sane(c)'
      BY <1>2, <2>1, <3>3 DEF Sane
    <3> QED BY <2>1, <3>2, <3>4
  <2>2. CASE x # c
    <3>1. net[c][k].from # x
      BY <1>4, <2>2
    <3>2. PICK p \in Nat : \A n, d : Item(x, n, d)' =>
               \/ n < p /\ Item(x, n, d)
               \/ n > p /\ n \in Nat /\ Item(x, n - 1, d)
      BY <1>2, <1>4, <1>6, <3>1, LineWidens
    <3>3. Moves(x)
      BY <3>2, MovesWider
    <3> QED BY <1>5, <3>3
  <2> QED BY <2>1, <2>2
<1>7. CASE UNCHANGED queue
  BY <1>2, <1>5, <1>7, StillMoves
<1> QED BY <1>1, <1>6, <1>7 DEF Reaches

LEMMA EnvironmentLabels ==
    ASSUME TInv, Environment \/ Tick, NEW x \in Clients, Sane(x), Labelled(x)
    PROVE  Sane(x)' /\ Labelled(x)'
<1>1. UNCHANGED <<state, auth_clt, cl, next>>
  BY DEF Environment, Deliver, Duplicate, Lose, Stray, ClockSetBack, Tick,
         netUnchanged, server, client
<1>2. ASSUME Moves(x), UNCHANGED copies PROVE Sane(x)' /\ Labelled(x)'
  <2>1. copies \in Nat /\ copies <= copies
    BY CopiesNat
  <2> QED BY <1>1, <1>2, <2>1, MovesSane, MovesLabelled
<1>3. ASSUME NEW c \in Clients, Deliver(c) PROVE Moves(x) /\ UNCHANGED copies
  BY <1>3, DeliverMoves DEF Deliver
<1>4. ASSUME NEW c \in Clients, Lose(c) PROVE Moves(x) /\ UNCHANGED copies
  BY <1>4, LoseMoves DEF Lose
<1>5. ASSUME NEW s \in Strangers, Stray(s) PROVE Moves(x) /\ UNCHANGED copies
  BY <1>5, StrayMoves DEF Stray
<1>6. ASSUME ClockSetBack \/ Tick PROVE Moves(x) /\ UNCHANGED copies
  BY <1>6, StillMoves DEF ClockSetBack, Tick, server
<1> QED BY <1>2, <1>3, <1>4, <1>5, <1>6, DuplicateLabels DEF Environment

\* A step of the client's own.
LEMMA ClientLabels ==
    ASSUME TInv, FileOf, NEW c \in Clients, ClientMoves(c), Sane(c), Labelled(c)
    PROVE  Sane(c)' /\ Labelled(c)'
<1>0. /\ Chunks \in Nat /\ next[c] \in Nat /\ copies \in Nat /\ copies <= copies
      /\ cl \in [Clients -> {"token", "data", "eof", "done", "failed"}]
      /\ next \in [Clients -> Nat]
  BY CopiesNat, ConstantsAssumption DEF ConstantsAssumption, TInv, TypeOK
<1>1. UNCHANGED <<state, auth_clt, copies>>
  BY DEF ClientMoves, SendToken, SendChunk, FileSent, SendEof, SendFails, ClientDone,
         Sent, server
<1>2. CASE FileSent(c) \/ SendFails(c) \/ ClientDone(c)
  <2>1. \A n, d : Item(c, n, d)' <=> Item(c, n, d)
    BY <1>2, QuietClient
  <2>2. \A d : Real(c, d) => Real(c, d)'
    BY <1>0, <1>2 DEF FileSent, SendFails, ClientDone, Real
  <2>3. cl'[c] # "data"
    BY <1>0, <1>2 DEF FileSent, SendFails, ClientDone
  <2>4. Labelled(c)'
    BY <1>0, <1>1, <2>1, MovesSame, MovesLabelled
  <2> QED BY <2>1, <2>2, <2>3, <2>4 DEF Sane
<1>3. CASE Sending(c)
  <2>1. PICK new \in Datagram : new = New(c)
    BY <1>3, SendingLine
  <2>2. PICK p \in Nat : /\ \A n, d : Item(c, n, d) => n < p
                         /\ \A n, d : Item(c, n, d)' <=> Item(c, n, d) \/ (n = p /\ d = new)
    BY <1>3, <2>1, SendingLine
  <2>3. \A d \in Datagram : Real(c, d) => Real(c, d)' /\ (d # new \/ new.kind = "empty")
    <3>1. CASE SendToken(c)
      BY <3>1 DEF SendToken, Real
    <3>2. CASE SendChunk(c)
      <4>1. cl[c] = "data" /\ cl'[c] = "data" /\ next'[c] = next[c] + 1
        BY <1>0, <3>2 DEF SendChunk
      <4>2. Rank(new) = next[c]
        BY <2>1, <4>1 DEF New, Dgram, Rank
      <4>3. \A d \in Datagram : Rank(d) \in Nat
        BY <1>0 DEF Rank, Datagram
      <4> QED BY <1>0, <4>1, <4>2, <4>3 DEF Real
    <3>3. CASE SendEof(c)
      <4>1. cl[c] = "eof" /\ cl'[c] = "eof" /\ new.kind = "empty"
        BY <2>1, <3>3 DEF SendEof, New, Dgram
      <4> QED BY <4>1 DEF Real
    <3> QED BY <1>3, <3>1, <3>2, <3>3 DEF Sending
  <2>4. Real(c, new)' /\ (cl'[c] = "data" => next'[c] \in 1 .. Chunks + 1)
    <3>1. CASE SendToken(c)
      BY <1>0, <2>1, <3>1 DEF SendToken, Real, New, Dgram, Rank
    <3>2. CASE SendChunk(c)
      <4>1. /\ cl[c] = "data" /\ cl'[c] = "data" /\ next[c] \in 1 .. Chunks
            /\ next'[c] = next[c] + 1
        BY <1>0, <3>2 DEF SendChunk, Sane
      <4> QED BY <1>0, <2>1, <4>1 DEF Real, New, Dgram, Rank
    <3>3. CASE SendEof(c)
      BY <1>0, <2>1, <3>3 DEF SendEof, Real, New, Dgram
    <3> QED BY <1>3, <3>1, <3>2, <3>3 DEF Sending
  <2>5. ASSUME NEW n, NEW d, Item(c, n, d)
        PROVE  n < p /\ Real(c, d)' /\ (d # new \/ new.kind = "empty")
    <3>1. n \in Nat /\ d \in Datagram
      BY <2>5, Place
    <3> QED BY <2>2, <2>3, <2>5, <3>1 DEF Sane
  <2>6. state # "auth" /\ auth_clt = c => new.kind # "token"
    BY <2>1 DEF FileOf, New, Dgram
  <2>7. Labelled(c)'
    BY <1>0, <1>1, <2>2, <2>5, <2>6, SendLabelled
  <2>8. Sane(c)'
    BY <2>2, <2>4, <2>5 DEF Sane
  <2> QED BY <2>7, <2>8
<1> QED BY <1>2, <1>3 DEF ClientMoves, Sending

LEMMA TakeMoves ==
    ASSUME TInv, NEW h, Received(h), UNCHANGED <<file, net>>, NEW x \in Clients
    PROVE  Moves(x)
<1>1. queue # <<>> /\ queue' = Tail(queue) /\ net'[x] = net[x]
  BY DEF Received
<1>2. PICK p \in Nat : p = Len(file) + 1
  BY Lengths
<1>3. \A n, d : Item(x, n, d)' =>
          (n < Len(file) + 1 /\ Item(x, n, d)) \/ (n >= Len(file) + 1 /\ Item(x, n + 1, d))
  BY <1>1, LineTakes
<1>4. \A n, d : Item(x, n, d)' =>
          (n < p /\ Item(x, n, d)) \/ (n >= p /\ Item(x, n + 1, d))
  BY <1>2, <1>3
<1> QED BY <1>4, MovesShorter

LEMMA WriteMoves ==
    ASSUME TInv, NEW h, Write(h), NEW x \in Clients
    PROVE  Moves(x)
<1>1. queue # <<>> /\ queue' = Tail(queue) /\ h = Head(queue) /\ net'[x] = net[x]
  BY DEF Write, Data, Received, serverUnchanged
<1>2. PICK whole \in BOOLEAN : file' = Append(file, [dgram |-> h, whole |-> whole])
  BY DEF Write
<1>3. h \in Datagram
  BY <1>1, QueueHead DEF TInv, TypeOK
<1>4. PICK piece \in Piece : file' = Append(file, piece) /\ piece.dgram = Head(queue)
  <2>1. [dgram |-> h, whole |-> whole] \in Piece
    BY <1>3 DEF Piece
  <2> QED BY <1>1, <1>2, <2>1
<1>5. \A n \in Nat : \A d : Item(x, n, d)' <=> Item(x, n, d)
  BY <1>1, <1>4, LineWrites
<1> QED BY <1>5, MovesSame

\* The token that is accepted goes; if it is a copy, the one sent takes its
\* label.
LEMMA AcceptLabels ==
    ASSUME TInv, NEW h, AuthAccepts(h), Sane(h.from), Labelled(h.from)
    PROVE  Labelled(h.from)'
<1>1. PICK c \in Clients : c = h.from
  BY AcceptedClient
<1>2. h.kind = "token" /\ h \in Datagram /\ queue # <<>> /\ h = Head(queue)
  BY AcceptedClient
<1>3. Len(file) + 1 \in Nat
  BY Lengths
<1>4. PICK p \in Nat : p = Len(file) + 1
  BY <1>3
<1>5. Item(c, p, h)
  BY <1>1, <1>2, <1>4, HeadPlace
<1>6. queue' = Tail(queue) /\ net'[c] = net[c] /\ UNCHANGED <<file, copies>>
  BY DEF AuthAccepts, Received, serverUnchanged
<1>7. \A n, d : Item(c, n, d)' =>
          (n < Len(file) + 1 /\ Item(c, n, d)) \/ (n >= Len(file) + 1 /\ Item(c, n + 1, d))
  BY <1>2, <1>6, LineTakes
<1>8. \A n, d : Item(c, n, d)' =>
          (n < p /\ Item(c, n, d)) \/ (n >= p /\ Item(c, n + 1, d))
  BY <1>4, <1>7
<1>9. \A n \in Nat : \A d : Item(c, n, d) /\ d.kind = "token" => d = h
  <2>1. \A n \in Nat : \A d : Item(c, n, d) => d \in Datagram /\ d.from = c /\ Real(c, d)
    BY <1>1, Place DEF Sane
  <2>2. h.from = c /\ h.i = 0
    BY <1>1, <1>2, <1>5, <2>1 DEF Real
  <2> QED BY <1>2, <2>1, <2>2 DEF Real, Datagram
<1>10. Labelled(c)'
  BY <1>1, <1>2, <1>5, <1>6, <1>8, <1>9, AcceptLabelled
<1>11. \E x \in Clients : x = h.from /\ Labelled(x)'
  BY <1>1, <1>10
<1> QED BY <1>11

LEMMA ServerLabels ==
    ASSUME TInv, ServerNext, NEW c \in Clients, Sane(c), Labelled(c)
    PROVE  Sane(c)' /\ Labelled(c)'
<1>1. UNCHANGED <<cl, next, net, copies>>
  BY DEF ServerNext, OpenFile, OpenFails, Timeout, AuthIgnores, AuthAccepts, IdleExit,
         Ignore, Finish, TooLarge, Write, WriteFails, serverUnchanged, client
<1>2. copies \in Nat /\ copies <= copies
  BY CopiesNat
<1>3. ASSUME Moves(c), state' # "auth" /\ auth_clt' = c => state # "auth" /\ auth_clt = c
      PROVE  Sane(c)' /\ Labelled(c)'
  BY <1>1, <1>2, <1>3, MovesSane, MovesLabelled
<1>4. CASE OpenFile \/ OpenFails \/ Timeout
  <2>1. UNCHANGED <<file, queue, net, auth_clt>> /\ state # "auth"
    BY <1>4 DEF OpenFile, OpenFails, Timeout, Fail, serverUnchanged
  <2> QED BY <1>3, <2>1, StillMoves
<1>5. ASSUME NEW d \in Datagram, Write(d) PROVE Sane(c)' /\ Labelled(c)'
  <2>1. UNCHANGED <<state, auth_clt>>
    BY <1>5 DEF Write
  <2> QED BY <1>3, <1>5, <2>1, WriteMoves
<1>6. ASSUME NEW d \in Datagram,
             AuthIgnores(d) \/ IdleExit(d) \/ Ignore(d) \/ Finish(d) \/ TooLarge(d) \/ WriteFails(d)
      PROVE  Sane(c)' /\ Labelled(c)'
  <2>1. Received(d) /\ UNCHANGED <<file, net, auth_clt>> /\ (state' = state \/ state # "auth")
    BY <1>6 DEF AuthIgnores, IdleExit, Ignore, Finish, TooLarge, WriteFails,
                Data, Fail, serverUnchanged, server
  <2> QED BY <1>3, <2>1, TakeMoves
<1>7. ASSUME NEW d \in Datagram, AuthAccepts(d) PROVE Sane(c)' /\ Labelled(c)'
  <2>1. Received(d) /\ UNCHANGED <<file, net>> /\ auth_clt' = d.from
    BY <1>7 DEF AuthAccepts, serverUnchanged
  <2>2. Moves(c)
    BY <2>1, TakeMoves
  <2>3. CASE c = d.from
    <3>1. Sane(c)'
      BY <1>1, <2>2, MovesSane
    <3>2. Labelled(d.from)'
      BY <1>7, <2>3, AcceptLabels
    <3> QED BY <2>3, <3>1, <3>2
  <2>4. CASE c # d.from
    BY <1>3, <2>1, <2>2, <2>4
  <2> QED BY <2>3, <2>4
<1> QED BY <1>4, <1>5, <1>6, <1>7 DEF ServerNext

LEMMA StepLInv ==
    ASSUME TInv, LInv, [Next]_vars
    PROVE  LInv'
<1>0. ASSUME UNCHANGED <<state, auth_clt, file>>,
             \A x \in Clients : cl[x] # "token" => cl'[x] # "token"
      PROVE  FileOf'
  BY <1>0 DEF LInv, FileOf
<1>1. ASSUME NEW c \in Clients, ClientMoves(c) PROVE LInv'
  <2>1. UNCHANGED <<state, auth_clt, file, copies>>
    BY <1>1 DEF ClientMoves, SendToken, SendChunk, FileSent, SendEof, SendFails, ClientDone,
           Sent, server
  <2>2. ASSUME NEW x \in Clients, x # c
        PROVE  Sane(x)' /\ Labelled(x)' /\ cl'[x] = cl[x]
    <3>1. /\ \A n, d : Item(x, n, d)' <=> Item(x, n, d)
          /\ cl'[x] = cl[x] /\ next'[x] = next[x]
      BY <1>1, <2>2, OtherLines
    <3>2. Moves(x)
      BY <3>1, MovesSame
    <3>3. copies \in Nat /\ copies <= copies
      BY CopiesNat
    <3> QED BY <2>1, <3>1, <3>2, <3>3, MovesSane, MovesLabelled DEF LInv
  <2>3. Sane(c)' /\ Labelled(c)'
    BY <1>1, ClientLabels DEF LInv
  <2>4. cl[c] # "token" => cl'[c] # "token"
    BY <1>1 DEF ClientMoves, SendToken, SendChunk, FileSent, SendEof, SendFails, ClientDone,
           TInv, TypeOK
  <2>5. FileOf'
    BY <1>0, <2>1, <2>2, <2>4
  <2> QED BY <2>2, <2>3, <2>5 DEF LInv
<1>2. CASE Environment \/ Tick
  <2>1. UNCHANGED <<state, auth_clt, file, cl>>
    BY <1>2 DEF Environment, Deliver, Duplicate, Lose, Stray, ClockSetBack, Tick,
                netUnchanged, server, client
  <2> QED BY <1>0, <1>2, <2>1, EnvironmentLabels DEF LInv
<1>3. CASE ServerNext
  <2>1. ASSUME NEW h, AuthAccepts(h) PROVE cl[h.from] # "token"
    <3>1. h.from \in Clients /\ Item(h.from, Len(file) + 1, h) /\ Len(file) + 1 \in Nat
      BY <2>1, AcceptedClient, HeadPlace, Lengths
    <3> QED BY <3>1 DEF LInv, Sane, Real
  <2> QED BY <1>3, <2>1, ServerLabels, ServerFileOf DEF LInv
<1>4. CASE UNCHANGED vars
  <2>1. UNCHANGED <<state, auth_clt, file, queue, net, cl, next, copies>>
    BY <1>4 DEF vars, server, client
  <2>2. copies \in Nat /\ copies <= copies
    BY CopiesNat
  <2>3. \A x \in Clients : Sane(x)' /\ Labelled(x)'
    BY <2>1, <2>2, StillMoves, MovesSane, MovesLabelled DEF LInv
  <2> QED BY <1>0, <2>1, <2>3 DEF LInv
<1> QED BY <1>1, <1>2, <1>3, <1>4 DEF Next, ClientNext, ClientMoves

LEMMA InitLInv == Init => LInv
<1> SUFFICES ASSUME Init PROVE LInv
  OBVIOUS
<1>1. \A c \in Clients : \A n, d : ~Item(c, n, d)
  <2>1. Len(file) = 0 /\ Len(queue) = 0 /\ \A c \in Clients : Len(net[c]) = 0
    BY DEF Init
  <2> QED BY <2>1 DEF Item, Written, Waiting, UnderWayAt
<1>2. PICK w : w = [n \in Nat |-> 0]
  OBVIOUS
<1>3. ASSUME NEW c \in Clients PROVE Sane(c) /\ Labels(c, w)
  BY <1>1, <1>2 DEF Init, Sane, Labels
<1>4. FileOf
  BY DEF Init, FileOf
<1> QED BY <1>3, <1>4 DEF LInv, Labelled

\* The pieces with the label 0 are chunks that differ, the others no more
\* than the copies.
LEMMA LabelsNoRepeat ==
    ASSUME TInv, LInv
    PROVE  NoRepeat
<1> DEFINE F == 1 .. Len(file)
           C == {d \in {file[k].dgram : k \in F} : d.kind = "chunk"}
<1>0. Len(file) \in Nat /\ copies \in Nat
  BY Lengths, CopiesNat
<1>1. CASE file = <<>>
  <2>1. F = {} /\ Len(file) = 0
    BY <1>1
  <2>2. C = {}
    BY <2>1
  <2>3. Cardinality(C) = 0
    BY <2>2, FS_EmptySet
  <2> QED BY <1>0, <2>1, <2>3 DEF NoRepeat
<1>2. CASE file # <<>>
  <2>1. state # "auth" /\ auth_clt \in Clients
    BY <1>2 DEF LInv, FileOf
  <2>2. PICK c \in Clients : c = auth_clt
    BY <2>1
  <2>3. PICK w : Labels(c, w)
    BY DEF LInv, Labelled
  <2>4. ASSUME NEW k \in F
        PROVE  /\ k \in Nat /\ Item(c, k, file[k].dgram) /\ w[k] \in Nat /\ w[k] <= copies
               /\ w[k] = 0 => file[k].dgram.kind = "chunk"
               /\ file[k].dgram.kind # "empty"
    <3>1. k \in Nat /\ file[k].dgram.from = c /\ file[k].dgram.kind # "empty"
      BY <1>0, <2>2 DEF LInv, FileOf
    <3>2. Item(c, k, file[k].dgram)
      BY <3>1 DEF Item, Written
    <3>3. Real(c, file[k].dgram)
      BY <3>1, <3>2 DEF LInv, Sane
    <3> QED BY <2>1, <2>2, <2>3, <3>1, <3>2, <3>3 DEF Labels, Real
  <2>5. ASSUME NEW j \in F, NEW k \in F, j # k, w[j] = w[k]
        PROVE  w[j] = 0 /\ file[j].dgram # file[k].dgram
    <3>1. /\ j \in Nat /\ Item(c, j, file[j].dgram) /\ file[j].dgram.kind # "empty"
          /\ k \in Nat /\ Item(c, k, file[k].dgram)
      BY <2>4
    <3> HIDE DEF F
    <3> QED BY <2>3, <2>5, <3>1 DEF Labels
  <2> DEFINE A == {k \in F : w[k] = 0}
             B == {k \in F : w[k] # 0}
  <2>6. IsFiniteSet(F) /\ Cardinality(F) = Len(file)
    <3>1. PICK n \in Nat : n = Len(file)
      BY <1>0
    <3>2. IsFiniteSet(1 .. n) /\ Cardinality(1 .. n) = n
      BY FS_Interval
    <3> QED BY <3>1, <3>2
  <2>7. IsFiniteSet(C)
    <3>1. PICK g : g = [k \in F |-> file[k].dgram]
      OBVIOUS
    <3>2. g \in Surjection(F, {file[k].dgram : k \in F})
      BY <3>1 DEF Surjection
    <3>3. IsFiniteSet({file[k].dgram : k \in F})
      BY <2>6, <3>2, FS_Surjection
    <3> QED BY <3>3, FS_Subset
  <2>8. IsFiniteSet(A) /\ Cardinality(A) <= Cardinality(C)
    <3>1. PICK g : g = [k \in A |-> file[k].dgram]
      OBVIOUS
    <3>2. g \in [A -> C] /\ \A k \in A : g[k] = file[k].dgram
      BY <2>4, <3>1
    <3>3. \A j, k \in A : g[j] = g[k] => j = k
      BY <2>5, <3>2
    <3>4. g \in Injection(A, C)
      BY <3>2, <3>3 DEF Injection, IsInjective
    <3> QED BY <2>7, <3>4, FS_Injection
  <2>9. IsFiniteSet(B) /\ Cardinality(B) <= copies
    <3>1. PICK n \in Nat : n = copies
      BY <1>0
    <3>2. PICK g : g = [k \in B |-> w[k]]
      OBVIOUS
    <3>3. \A k \in B : w[k] \in 1 .. n
      <4>1. ASSUME NEW k \in B PROVE w[k] \in 1 .. n
        <5>1. w[k] \in Nat /\ w[k] <= n /\ w[k] # 0
          BY <2>4, <3>1
        <5> QED BY <5>1
      <4> QED BY <4>1
    <3>4. g \in [B -> 1 .. n] /\ \A k \in B : g[k] = w[k]
      BY <3>2, <3>3
    <3>5. \A j, k \in B : g[j] = g[k] => j = k
      BY <2>5, <3>4
    <3>6. g \in Injection(B, 1 .. n)
      BY <3>4, <3>5 DEF Injection, IsInjective
    <3>7. IsFiniteSet(1 .. n) /\ Cardinality(1 .. n) = n
      BY FS_Interval
    <3> QED BY <3>1, <3>6, <3>7, FS_Injection
  <2>10. F = A \cup B /\ A \cap B = {}
    OBVIOUS
  <2>11. Cardinality(F) = Cardinality(A) + Cardinality(B)
    <3>1. Cardinality(A \cup B) = Cardinality(A) + Cardinality(B) - Cardinality(A \cap B)
      BY <2>8, <2>9, FS_Union
    <3>2. Cardinality(A \cap B) = 0
      BY <2>10, FS_EmptySet
    <3>3. Cardinality(A) \in Nat /\ Cardinality(B) \in Nat
      BY <2>8, <2>9, FS_CardinalityType
    <3> HIDE DEF A, B, F
    <3>4. PICK a, b \in Nat : a = Cardinality(A) /\ b = Cardinality(B)
      BY <3>3
    <3>5. Cardinality(F) = a + b - 0
      BY <2>10, <3>1, <3>2, <3>4
    <3> QED BY <3>4, <3>5
  <2>12. Cardinality(A) \in Nat /\ Cardinality(B) \in Nat /\ Cardinality(C) \in Nat
    BY <2>7, <2>8, <2>9, FS_CardinalityType
  <2>13. Len(file) <= Cardinality(C) + copies
    <3> HIDE DEF A, B, C, F
    <3>1. PICK a, b, n \in Nat : a = Cardinality(A) /\ b = Cardinality(B) /\ n = Cardinality(C)
      BY <2>12
    <3>2. a <= n /\ b <= copies /\ Len(file) = a + b
      BY <2>6, <2>8, <2>9, <2>11, <3>1
    <3>3. Len(file) <= n + copies
      BY <1>0, <3>2
    <3> QED BY <3>1, <3>3
  <2> QED BY <2>13 DEF NoRepeat
<1> QED BY <1>1, <1>2

\* Without a copy made by the network neither server writes a datagram twice,
\* nor the token, even when datagrams overtake others; and each copy adds one
\* piece at most.
THEOREM NoRepeatSafe == Spec => []NoRepeat
<1>1. LInv /\ TInv /\ [Next]_vars => LInv'
  BY StepLInv
<1>2. LInv /\ TInv => NoRepeat
  BY LabelsNoRepeat
<1> QED BY <1>1, <1>2, InitTInv, InitLInv, StepTInv, PTL DEF Spec
=============================================================================
