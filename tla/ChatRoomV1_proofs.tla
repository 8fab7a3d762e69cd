-------------------------- MODULE ChatRoomV1_proofs --------------------------
(***************************************************************************)
(* ChatRoomV1 for any number of clients and lines and any size of the      *)
(* sockets' buffers: the types, which clients write before message[], and  *)
(* that a client is shown the lines of another in order and without gaps.  *)
(*                                                                         *)
(* For the last, HInv counts the lines that the server has taken from each *)
(* client: those after them wait in the connection, the last of them is    *)
(* what the server sends, and what a client knows ends where the server's  *)
(* sends to it have got.                                                   *)
(***************************************************************************)
EXTENDS ChatRoomV1, SequenceTheorems, TLAPS

InputTypeOK ==
    /\ at \in [Clients -> {"off", "name", "select", "scan", "sending", "ended"}]
    /\ typed \in [Clients -> Nat] /\ stdio \in [Clients -> Nat]
    /\ eof \in [Clients -> BOOLEAN] /\ name \in [Clients -> {"none", "nul", "text"}]

\* Past the prompt for the name, a client without one has no line, and will
\* get none.
NoMore(c) == eof[c] /\ stdio[c] = 0 /\ typed[c] = 0
Empty == \A c \in Clients :
    at[c] \in {"select", "scan", "sending"} /\ name[c] = "none"
        => NoMore(c) /\ at[c] # "sending"
Nul == \A c \in Clients : name[c] = "nul" => c \in NulNames

NInv == InputTypeOK /\ Empty /\ Nul

\* The server does not touch a client's input, nor where the client is.
LEMMA ServerStep ==
    ASSUME ServerNext
    PROVE  UNCHANGED <<at, typed, stdio, eof, name>>
BY DEF ServerNext, ServerSelect, ServerScanDone, AllSent, Accept, AcceptFails, Recv,
    RecvHangup, SendTo, SendToGone, Sigpipe, clientVars, input

\* A client that moves on with its input as it was keeps the invariant,
\* unless it starts to send or leaves the prompt.
LEMMA Moves ==
    ASSUME NInv, NEW c \in Clients, UNCHANGED input,
           NEW to \in {"name", "select", "scan", "ended"}, at' = Set(at, c, to),
           to \in {"select", "scan"} => at[c] \in {"select", "scan", "sending"}
    PROVE  NInv'
<1>1. InputTypeOK'
      BY DEF NInv, InputTypeOK, input, Set
<1>2. ASSUME NEW d \in Clients PROVE at'[d] = IF d = c THEN to ELSE at[d]
      BY DEF NInv, InputTypeOK, Set
<1>3. Empty' /\ Nul'
      BY <1>2 DEF NInv, Empty, Nul, NoMore, input
<1> QED
      BY <1>1, <1>3 DEF NInv

\* fgets() takes a line only where there is one.
LEMMA Takes ==
    ASSUME InputTypeOK, NEW c \in Clients, TakeLine(c)
    PROVE  /\ typed' \in [Clients -> Nat] /\ stdio' \in [Clients -> Nat]
           /\ \A d \in Clients \ {c} : typed'[d] = typed[d] /\ stdio'[d] = stdio[d]
<1>1. CASE stdio[c] > 0 /\ stdio' = Set(stdio, c, stdio[c] - 1) /\ UNCHANGED typed
      BY <1>1 DEF InputTypeOK, Set
<1>2. CASE \E k \in 1 .. typed[c] :
              typed' = Set(typed, c, typed[c] - k) /\ stdio' = Set(stdio, c, k - 1)
  <2>1. PICK k \in 1 .. typed[c] :
           typed' = Set(typed, c, typed[c] - k) /\ stdio' = Set(stdio, c, k - 1)
        BY <1>2
  <2>2. typed[c] \in Nat /\ typed[c] - k \in Nat /\ k - 1 \in Nat
        BY <2>1 DEF InputTypeOK
  <2> QED
        BY <2>1, <2>2 DEF InputTypeOK, Set
<1> QED
      BY <1>1, <1>2 DEF TakeLine

LEMMA NameStep ==
    ASSUME NInv, NEW c \in Clients, ReadName(c)
    PROVE  NInv'
<1>1. at' = Set(at, c, "select") /\ UNCHANGED eof
      BY DEF ReadName
<1>2. \A d \in Clients : at'[d] = IF d = c THEN "select" ELSE at[d]
      BY <1>1 DEF NInv, InputTypeOK, Set
<1>3. CASE /\ HasLine(c) /\ TakeLine(c)
           /\ name' = Set(name, c, IF c \in NulNames THEN "nul" ELSE "text")
  <2>1. InputTypeOK'
        BY <1>1, <1>3, Takes DEF NInv, InputTypeOK, Set
  <2>2. /\ \A d \in Clients \ {c} : /\ typed'[d] = typed[d] /\ stdio'[d] = stdio[d]
                                    /\ name'[d] = name[d]
        /\ name'[c] = IF c \in NulNames THEN "nul" ELSE "text"
        BY <1>3, Takes DEF NInv, InputTypeOK, Set
  <2>3. Empty' /\ Nul'
        BY <1>1, <1>2, <2>2 DEF NInv, Empty, Nul, NoMore
  <2> QED
        BY <2>1, <2>3 DEF NInv
<1>4. CASE ~HasLine(c) /\ eof[c] /\ UNCHANGED <<typed, stdio, name>>
  <2>1. stdio[c] = 0 /\ typed[c] = 0
        BY <1>4 DEF HasLine, NInv, InputTypeOK
  <2>2. InputTypeOK'
        BY <1>1, <1>4 DEF NInv, InputTypeOK, Set
  <2>3. Empty' /\ Nul'
        BY <1>1, <1>2, <1>4, <2>1 DEF NInv, Empty, Nul, NoMore
  <2> QED
        BY <2>2, <2>3 DEF NInv
<1> QED
      BY <1>3, <1>4 DEF ReadName

LEMMA StdinStep ==
    ASSUME NInv, NEW c \in Clients, ScanStdin(c)
    PROVE  NInv'
<1>1. /\ at[c] = "scan" /\ HasLine(c) /\ TakeLine(c) /\ UNCHANGED <<eof, name>>
      /\ at' = Set(at, c, "ended") \/ at' = Set(at, c, "sending")
      BY DEF ScanStdin, Hangup
<1>2. name[c] # "none"
      BY <1>1 DEF HasLine, NInv, InputTypeOK, Empty, NoMore
<1>3. InputTypeOK'
      BY <1>1, Takes DEF NInv, InputTypeOK, Set
<1>4. \A d \in Clients \ {c} : /\ at'[d] = at[d]
                               /\ typed'[d] = typed[d] /\ stdio'[d] = stdio[d]
      BY <1>1, Takes DEF NInv, InputTypeOK, Set
<1>5. Empty' /\ Nul'
      BY <1>1, <1>2, <1>4 DEF NInv, Empty, Nul, NoMore
<1> QED
      BY <1>3, <1>5 DEF NInv

LEMMA UserStep ==
    ASSUME NInv, NEW c \in Clients, Type(c) \/ InputEnds(c)
    PROVE  NInv'
<1>1. CASE Type(c)
  <2>1. /\ ~eof[c] /\ typed' = [typed EXCEPT ![c] = typed[c] + 1]
        /\ UNCHANGED <<at, stdio, eof, name>>
        BY <1>1 DEF Type, Set
  <2> QED
        BY <2>1 DEF NInv, InputTypeOK, Empty, Nul, NoMore
<1>2. CASE InputEnds(c)
  <2>1. eof' = [eof EXCEPT ![c] = TRUE] /\ UNCHANGED <<at, stdio, typed, name>>
        BY <1>2 DEF InputEnds, Set
  <2> QED
        BY <2>1 DEF NInv, InputTypeOK, Empty, Nul, NoMore
<1> QED
      BY <1>1, <1>2

LEMMA ClientStep ==
    ASSUME NInv, NEW c \in Clients, ClientNext(c)
    PROVE  NInv'
<1>1. CASE Connect(c)
      BY <1>1, Moves DEF Connect
<1>2. CASE Select(c)
      BY <1>2, Moves DEF Select
<1>3. CASE FgetsNull(c) \/ ScanDone(c)
      BY <1>3, Moves DEF FgetsNull, ScanDone
<1>4. CASE Send(c)
      BY <1>4, Moves DEF Send, Hangup
<1>5. CASE ScanSocket(c)
  <2>1. UNCHANGED <<at, input>>
        BY <1>5 DEF ScanSocket
  <2> QED
        BY <2>1 DEF NInv, InputTypeOK, Empty, Nul, NoMore, input
<1>6. CASE RecvEnds(c)
      BY <1>6, Moves DEF RecvEnds, Hangup
<1> QED
      BY <1>1, <1>2, <1>3, <1>4, <1>5, <1>6, UserStep, NameStep, StdinStep
         DEF ClientNext, ClientRuns

LEMMA StepNInv == NInv /\ [Next]_vars => NInv'
<1> SUFFICES ASSUME NInv, [Next]_vars PROVE NInv'
    OBVIOUS
<1>1. CASE ServerNext \/ UNCHANGED vars
  <2>1. UNCHANGED <<at, typed, stdio, eof, name>>
        BY <1>1, ServerStep DEF vars, clientVars, input
  <2> QED
        BY <2>1 DEF NInv, InputTypeOK, Empty, Nul, NoMore
<1>2. ASSUME NEW c \in Clients, ClientNext(c) PROVE NInv'
      BY <1>2, ClientStep
<1> QED
      BY <1>1, <1>2 DEF Next

\* The byte before message[] is written only by a client whose user began the
\* nickname with a zero byte: with no name at all no line gets that far.
THEOREM NameSafe == Spec => []NameInLine
<1>1. Init => NInv
      BY DEF Init, NInv, InputTypeOK, Empty, Nul, NoMore
<1>2. NInv => NameInLine
      BY DEF NInv, InputTypeOK, Empty, Nul, NameInLine, BeforeMessage
<1> QED
      BY <1>1, <1>2, StepNInv, PTL DEF Spec

-----------------------------------------------------------------------------
(* Types.  What a user typed is in the kernel, in the buffer of stdin, in   *)
(* the client's hands, or said.                                             *)

InHand(c) == IF at[c] = "sending" THEN 1 ELSE 0
Budget(c) ==
    typed[c] + stdio[c] + InHand(c) + said[c] <= lines[c] /\ lines[c] <= MaxLines
UserInv ==
    /\ said \in [Clients -> Nat] /\ lines \in [Clients -> Nat]
    /\ see \in [Clients -> SUBSET {"stdin", "socket"}]
    /\ \A c \in Clients : Budget(c)

Unit == Clients \X Nat
RoomTypes ==
    /\ up \in [Clients -> Seq(Unit)] /\ down \in [Clients -> Seq(Unit)]
    /\ said \in [Clients -> Nat] /\ heard \in [Clients -> [Clients -> Nat]]
    /\ srv \in {"select", "scan", "sending", "killed"}
    /\ list \subseteq Clients /\ ready \subseteq Clients /\ todo \subseteq list
    /\ pending \subseteq Clients \ list
    /\ todo # {} => srv = "sending"
    /\ srv = "sending" => unit \in Unit
Room(c) == Len(up[c]) <= BufLen /\ Len(down[c]) <= BufLen
RInv ==
    /\ RoomTypes /\ broken \in [Clients -> BOOLEAN]
    /\ \A c \in Clients : Room(c)
    /\ \A c \in list \cup pending : at[c] # "off"

TInv == NInv /\ UserInv /\ RInv

LEMMA Append1 ==
    ASSUME NEW S, NEW s \in Seq(S), NEW e \in S, NEW t, t = Append(s, e)
    PROVE  /\ t \in Seq(S) /\ Len(s) \in Nat /\ Len(t) = Len(s) + 1
           /\ \A i \in 1 .. Len(s) : t[i] = s[i]
           /\ t[Len(s) + 1] = e
BY AppendProperties, LenProperties

LEMMA Tail1 ==
    ASSUME NEW S, NEW s \in Seq(S), s # <<>>, NEW t, t = Tail(s)
    PROVE  /\ t \in Seq(S) /\ Len(s) \in Nat /\ Len(s) >= 1 /\ Len(t) = Len(s) - 1
           /\ Head(s) = s[1] /\ s[1] \in S
           /\ \A i \in 1 .. Len(t) : t[i] = s[i + 1]
BY HeadTailProperties, LenProperties, EmptySeq

LEMMA TakesOne ==
    ASSUME InputTypeOK, NEW c \in Clients, TakeLine(c)
    PROVE  /\ typed'[c] \in Nat /\ stdio'[c] \in Nat
           /\ typed'[c] + stdio'[c] + 1 = typed[c] + stdio[c]
<1>1. CASE stdio[c] > 0 /\ stdio' = Set(stdio, c, stdio[c] - 1) /\ UNCHANGED typed
      BY <1>1 DEF InputTypeOK, Set
<1>2. CASE \E k \in 1 .. typed[c] : /\ typed' = Set(typed, c, typed[c] - k)
                                    /\ stdio' = Set(stdio, c, k - 1) /\ stdio[c] = 0
  <2>1. PICK k \in 1 .. typed[c] : /\ typed' = Set(typed, c, typed[c] - k)
                                   /\ stdio' = Set(stdio, c, k - 1) /\ stdio[c] = 0
        BY <1>2
  <2> QED
        BY <2>1 DEF InputTypeOK, Set
<1> QED
      BY <1>1, <1>2 DEF TakeLine

\* The budget of the client that moves is all that matters.
LEMMA OthersBudget ==
    ASSUME UserInv, NEW c \in Clients, Budget(c)',
           said' \in [Clients -> Nat], lines' \in [Clients -> Nat],
           see' \in [Clients -> SUBSET {"stdin", "socket"}],
           \A d \in Clients \ {c} :
               /\ typed'[d] = typed[d] /\ stdio'[d] = stdio[d] /\ at'[d] = at[d]
               /\ said'[d] = said[d] /\ lines'[d] = lines[d]
    PROVE  UserInv'
<1>1. ASSUME NEW d \in Clients PROVE Budget(d)'
  <2>1. CASE d = c
        BY <2>1
  <2>2. CASE d # c
        BY <2>2 DEF UserInv, Budget, InHand
  <2> QED
        BY <2>1, <2>2
<1> QED
      BY <1>1 DEF UserInv

LEMMA Numbers ==
    ASSUME InputTypeOK, UserInv, NEW c \in Clients
    PROVE  typed[c] \in Nat /\ stdio[c] \in Nat /\ said[c] \in Nat /\ lines[c] \in Nat
           /\ MaxLines \in Nat
BY ConstantsAssumption DEF ConstantsAssumption, InputTypeOK, UserInv

LEMMA UserTypes ==
    ASSUME InputTypeOK, UserInv, NEW c \in Clients, Type(c) \/ InputEnds(c)
    PROVE  UserInv'
<1>1. CASE Type(c)
  <2>1. /\ typed' = [typed EXCEPT ![c] = typed[c] + 1]
        /\ lines' = [lines EXCEPT ![c] = lines[c] + 1]
        /\ lines[c] < MaxLines /\ UNCHANGED <<at, see, stdio, said>>
        BY <1>1 DEF Type, Set
  <2>2. typed'[c] = typed[c] + 1 /\ lines'[c] = lines[c] + 1 /\ lines' \in [Clients -> Nat]
        BY <2>1 DEF InputTypeOK, UserInv
  <2>3. Budget(c)'
        BY <2>1, <2>2, Numbers DEF UserInv, Budget, InHand
  <2> QED
        BY <2>1, <2>2, <2>3, OthersBudget DEF UserInv, InputTypeOK
<1>2. CASE InputEnds(c)
      BY <1>2 DEF InputEnds, UserInv, Budget, InHand
<1> QED
      BY <1>1, <1>2

\* A client that moves on without a line.
LEMMA MovesOn ==
    ASSUME InputTypeOK, UserInv, NEW c \in Clients, UNCHANGED <<typed, stdio, lines, said>>,
           NEW to \in {"name", "select", "scan", "ended"}, at' = Set(at, c, to),
           see' \in [Clients -> SUBSET {"stdin", "socket"}]
    PROVE  UserInv'
<1>1. at'[c] = to /\ \A d \in Clients \ {c} : at'[d] = at[d]
      BY DEF InputTypeOK, Set
<1>2. Budget(c)'
  <2>1. InHand(c)' = 0 /\ InHand(c) \in {0, 1}
        BY <1>1 DEF InHand
  <2>2. typed[c] + stdio[c] + InHand(c) + said[c] <= lines[c] /\ lines[c] <= MaxLines
        BY DEF UserInv, Budget
  <2>3. typed[c] + stdio[c] + 0 + said[c] <= lines[c]
        BY <2>1, <2>2, Numbers
  <2> QED
        BY <2>1, <2>2, <2>3 DEF Budget
<1> QED
      BY <1>1, <1>2, OthersBudget DEF UserInv

LEMMA TakesLine ==
    ASSUME InputTypeOK, UserInv, NEW c \in Clients, TakeLine(c), UNCHANGED <<lines, said>>,
           NEW to \in {"select", "ended", "sending"}, at' = Set(at, c, to),
           at[c] # "sending",
           see' \in [Clients -> SUBSET {"stdin", "socket"}]
    PROVE  UserInv'
<1>1. at'[c] = to /\ \A d \in Clients \ {c} : at'[d] = at[d]
      BY DEF InputTypeOK, Set
<1>2. \A d \in Clients \ {c} : typed'[d] = typed[d] /\ stdio'[d] = stdio[d]
      BY Takes
<1>3. Budget(c)'
  <2>1. InHand(c)' \in {0, 1} /\ InHand(c) = 0
        BY DEF InHand
  <2>2. typed[c] + stdio[c] + InHand(c) + said[c] <= lines[c] /\ lines[c] <= MaxLines
        BY DEF UserInv, Budget
  <2>3. /\ typed'[c] \in Nat /\ stdio'[c] \in Nat
        /\ typed'[c] + stdio'[c] + 1 = typed[c] + stdio[c]
        BY TakesOne
  <2>4. typed'[c] + stdio'[c] + InHand(c)' + said[c] <= lines[c]
        BY <2>1, <2>2, <2>3, Numbers
  <2> QED
        BY <2>2, <2>4 DEF Budget
<1> QED
      BY <1>1, <1>2, <1>3, OthersBudget DEF UserInv

LEMMA ClientTypes ==
    ASSUME InputTypeOK, UserInv, NEW c \in Clients, ClientNext(c)
    PROVE  UserInv'
<1>0. see \in [Clients -> SUBSET {"stdin", "socket"}]
      BY DEF UserInv
<1>1. CASE Type(c) \/ InputEnds(c)
      BY <1>1, UserTypes
<1>2. CASE Connect(c) \/ Select(c) \/ FgetsNull(c) \/ RecvEnds(c) \/ ScanDone(c)
  <2>1. see' \in [Clients -> SUBSET {"stdin", "socket"}]
        BY <1>0, <1>2 DEF Connect, Select, FgetsNull, RecvEnds, ScanDone, Hangup, Set,
           Reported
  <2>2. UNCHANGED <<typed, stdio, lines, said>>
        BY <1>2 DEF Connect, Select, FgetsNull, RecvEnds, ScanDone, Hangup, input
  <2>3. \E to \in {"name", "select", "scan", "ended"} : at' = Set(at, c, to)
        BY <1>2 DEF Connect, Select, FgetsNull, RecvEnds, ScanDone, Hangup
  <2> QED
        BY <2>1, <2>2, <2>3, MovesOn
<1>3. CASE ReadName(c)
  <2>1. at[c] = "name" /\ at' = Set(at, c, "select") /\ UNCHANGED <<see, lines, said>>
        BY <1>3 DEF ReadName
  <2>2. CASE TakeLine(c)
        BY <1>0, <2>1, <2>2, TakesLine
  <2>3. CASE UNCHANGED <<typed, stdio>>
        BY <1>0, <2>1, <2>3, MovesOn
  <2> QED
        BY <1>3, <2>2, <2>3 DEF ReadName
<1>4. CASE ScanStdin(c)
  <2>1. /\ at[c] = "scan" /\ TakeLine(c) /\ UNCHANGED <<lines, said>>
        /\ at' = Set(at, c, "ended") \/ at' = Set(at, c, "sending")
        BY <1>4 DEF ScanStdin, Hangup
  <2>2. see' \in [Clients -> SUBSET {"stdin", "socket"}]
        BY <1>0, <1>4 DEF ScanStdin, Hangup, Set
  <2> QED
        BY <2>1, <2>2, TakesLine
<1>5. CASE Send(c)
  <2>1. CASE srv = "killed" /\ Hangup(c) /\ UNCHANGED input
    <3>1. see' \in [Clients -> SUBSET {"stdin", "socket"}]
          BY <1>0, <2>1 DEF Hangup, Set
    <3>2. UNCHANGED <<typed, stdio, lines, said>> /\ at' = Set(at, c, "ended")
          BY <2>1 DEF Hangup, input
    <3> QED
          BY <3>1, <3>2, MovesOn
  <2>2. CASE /\ said' = Set(said, c, said[c] + 1) /\ at' = Set(at, c, "scan")
             /\ UNCHANGED see /\ UNCHANGED input
    <3>1. /\ at[c] = "sending" /\ at'[c] = "scan" /\ said'[c] = said[c] + 1
          /\ \A d \in Clients \ {c} : at'[d] = at[d] /\ said'[d] = said[d]
          /\ said' \in [Clients -> Nat]
          BY <1>5, <2>2 DEF Send, InputTypeOK, UserInv, Set
    <3>2. Budget(c)'
      <4>1. InHand(c) = 1 /\ InHand(c)' = 0
            BY <3>1 DEF InHand
      <4>2. typed[c] + stdio[c] + InHand(c) + said[c] <= lines[c] /\ lines[c] <= MaxLines
            BY DEF UserInv, Budget
      <4>3. typed[c] + stdio[c] + 0 + (said[c] + 1) <= lines[c]
            BY <4>1, <4>2, Numbers
      <4> QED
            BY <2>2, <3>1, <4>1, <4>2, <4>3 DEF Budget, input
    <3> QED
          BY <1>0, <2>2, <3>1, <3>2, OthersBudget DEF UserInv, input
  <2>3. CASE at' = Set(at, c, "scan") /\ UNCHANGED <<see, said>> /\ UNCHANGED input
        BY <1>0, <2>3, MovesOn DEF input
  <2> QED
        BY <1>5, <2>1, <2>2, <2>3 DEF Send
<1>6. CASE ScanSocket(c)
  <2>1. /\ UNCHANGED <<at, typed, stdio, lines, said>>
        /\ see' \in [Clients -> SUBSET {"stdin", "socket"}]
        BY <1>0, <1>6 DEF ScanSocket, input, Set
  <2> QED
        BY <2>1 DEF UserInv, Budget, InHand
<1> QED
      BY <1>1, <1>2, <1>3, <1>4, <1>5, <1>6 DEF ClientNext, ClientRuns

-----------------------------------------------------------------------------
(* The connections                                                         *)

LEMMA RoomLengths ==
    ASSUME RoomTypes, NEW c \in Clients
    PROVE  /\ up[c] \in Seq(Unit) /\ down[c] \in Seq(Unit)
           /\ Len(up[c]) \in Nat /\ Len(down[c]) \in Nat
BY LenProperties DEF RoomTypes

LEMMA NothingFits ==
    ASSUME NEW S
    PROVE  <<>> \in Seq(S) /\ Len(<<>>) = 0 /\ BufLen \in Nat
BY ConstantsAssumption, EmptySeq DEF ConstantsAssumption

\* A queue that grows by a unit has room for it; one that loses its head or
\* is emptied has.
LEMMA UpLonger ==
    ASSUME RInv, NEW c \in Clients, NEW u \in Unit, Len(up[c]) < BufLen,
           up' = Set(up, c, Append(up[c], u))
    PROVE  up' \in [Clients -> Seq(Unit)] /\ \A d \in Clients : Len(up'[d]) <= BufLen
<1>1. PICK s \in Seq(Unit) : s = up[c]
      BY RoomLengths DEF RInv
<1>2. PICK t : t = Append(s, u)
      OBVIOUS
<1>3. t \in Seq(Unit) /\ Len(s) \in Nat /\ Len(t) = Len(s) + 1
      BY <1>1, <1>2, Append1
<1>4. Len(t) <= BufLen
      BY <1>1, <1>3, NothingFits
<1>5. up' = [up EXCEPT ![c] = t]
      BY <1>1, <1>2 DEF Set
<1> QED
      BY <1>3, <1>4, <1>5 DEF RInv, RoomTypes, Room

LEMMA UpShorter ==
    ASSUME RInv, NEW c \in Clients, up[c] # <<>>, up' = Set(up, c, Tail(up[c]))
    PROVE  /\ up' \in [Clients -> Seq(Unit)] /\ \A d \in Clients : Len(up'[d]) <= BufLen
           /\ Head(up[c]) \in Unit
<1>1. PICK s \in Seq(Unit) : s = up[c]
      BY RoomLengths DEF RInv
<1>2. PICK t : t = Tail(s)
      OBVIOUS
<1>3. t \in Seq(Unit) /\ Len(s) \in Nat /\ Len(t) = Len(s) - 1 /\ Head(s) \in Unit
      BY <1>1, <1>2, Tail1
<1>4. Len(t) <= BufLen
  <2>1. Len(s) <= BufLen
        BY <1>1 DEF RInv, Room
  <2> QED
        BY <1>3, <2>1, NothingFits
<1>5. up' = [up EXCEPT ![c] = t]
      BY <1>1, <1>2 DEF Set
<1> QED
      BY <1>1, <1>3, <1>4, <1>5 DEF RInv, RoomTypes, Room

LEMMA UpEmpty ==
    ASSUME RInv, \/ \E c \in Clients : up' = Set(up, c, <<>>)
                 \/ up' = [c \in Clients |-> <<>>]
    PROVE  up' \in [Clients -> Seq(Unit)] /\ \A d \in Clients : Len(up'[d]) <= BufLen
<1>1. PICK e \in Seq(Unit) : e = <<>> /\ Len(e) <= BufLen
  <2>1. <<>> \in Seq(Unit) /\ Len(<<>>) = 0 /\ BufLen \in Nat
        BY NothingFits
  <2>2. Len(<<>>) <= BufLen
        BY <2>1
  <2> QED
        BY <2>1, <2>2
<1>2. up \in [Clients -> Seq(Unit)] /\ \A d \in Clients : Len(up[d]) <= BufLen
      BY DEF RInv, RoomTypes, Room
<1>3. ASSUME NEW c \in Clients, up' = Set(up, c, <<>>)
      PROVE  up' \in [Clients -> Seq(Unit)] /\ \A d \in Clients : Len(up'[d]) <= BufLen
  <2>1. up' = [up EXCEPT ![c] = e]
        BY <1>1, <1>3 DEF Set
  <2> QED
        BY <1>1, <1>2, <2>1
<1>4. CASE up' = [c \in Clients |-> <<>>]
  <2>1. up' = [c \in Clients |-> e]
        BY <1>1, <1>4
  <2> QED
        BY <1>1, <2>1
<1> QED
      BY <1>3, <1>4

LEMMA DownLonger ==
    ASSUME RInv, NEW c \in Clients, NEW u \in Unit, Len(down[c]) < BufLen,
           down' = Set(down, c, Append(down[c], u))
    PROVE  down' \in [Clients -> Seq(Unit)] /\ \A d \in Clients : Len(down'[d]) <= BufLen
<1>1. PICK s \in Seq(Unit) : s = down[c]
      BY RoomLengths DEF RInv
<1>2. PICK t : t = Append(s, u)
      OBVIOUS
<1>3. t \in Seq(Unit) /\ Len(s) \in Nat /\ Len(t) = Len(s) + 1
      BY <1>1, <1>2, Append1
<1>4. Len(t) <= BufLen
      BY <1>1, <1>3, NothingFits
<1>5. down' = [down EXCEPT ![c] = t]
      BY <1>1, <1>2 DEF Set
<1> QED
      BY <1>3, <1>4, <1>5 DEF RInv, RoomTypes, Room

LEMMA DownShorter ==
    ASSUME RInv, NEW c \in Clients, down[c] # <<>>, down' = Set(down, c, Tail(down[c]))
    PROVE  /\ down' \in [Clients -> Seq(Unit)]
           /\ \A d \in Clients : Len(down'[d]) <= BufLen
           /\ Head(down[c]) \in Unit
<1>1. PICK s \in Seq(Unit) : s = down[c]
      BY RoomLengths DEF RInv
<1>2. PICK t : t = Tail(s)
      OBVIOUS
<1>3. t \in Seq(Unit) /\ Len(s) \in Nat /\ Len(t) = Len(s) - 1 /\ Head(s) \in Unit
      BY <1>1, <1>2, Tail1
<1>4. Len(t) <= BufLen
  <2>1. Len(s) <= BufLen
        BY <1>1 DEF RInv, Room
  <2> QED
        BY <1>3, <2>1, NothingFits
<1>5. down' = [down EXCEPT ![c] = t]
      BY <1>1, <1>2 DEF Set
<1> QED
      BY <1>1, <1>3, <1>4, <1>5 DEF RInv, RoomTypes, Room

LEMMA HangupTypes ==
    ASSUME RInv, InputTypeOK, NEW c \in Clients, Hangup(c)
    PROVE  RInv'
<1>1. /\ down' = [down EXCEPT ![c] = <<>>]
      /\ broken' = [broken EXCEPT ![c] = (down[c] # <<>>)]
      /\ UNCHANGED <<said, heard, up, pending, srv, list, ready, unit, todo>>
      BY DEF Hangup, serverVars, Set
<1>2. down' \in [Clients -> Seq(Unit)] /\ \A d \in Clients : Len(down'[d]) <= BufLen
      BY <1>1, NothingFits DEF RInv, RoomTypes, Room
<1>3. broken' \in [Clients -> BOOLEAN]
      BY <1>1 DEF RInv
<1>4. \A d \in list \cup pending : at'[d] # "off"
      BY DEF Hangup, InputTypeOK, RInv, RoomTypes, Set
<1> QED
      BY <1>1, <1>2, <1>3, <1>4 DEF RInv, RoomTypes, Room

LEMMA ClientRoom ==
    ASSUME RInv, InputTypeOK, UserInv, NEW c \in Clients, ClientNext(c)
    PROVE  RInv'
<1>0. ASSUME UNCHANGED pending,
             at' = at \/ \E to : to # "off" /\ at' = Set(at, c, to)
      PROVE  \A d \in list \cup pending : at'[d] # "off"
      BY <1>0 DEF InputTypeOK, RInv, RoomTypes, Set
<1>1. ASSUME UNCHANGED <<said, heard, net, serverVars>>,
             at' = at \/ \E to : to # "off" /\ at' = Set(at, c, to)
      PROVE  RInv'
  <2>1. UNCHANGED <<said, heard, up, down, broken, pending, srv, list, ready, unit, todo>>
        BY <1>1 DEF net, serverVars
  <2> QED
        BY <1>0, <1>1, <2>1 DEF RInv, RoomTypes, Room
<1>2. CASE Type(c) \/ InputEnds(c) \/ ReadName(c) \/ Select(c) \/ FgetsNull(c)
              \/ ScanDone(c)
  <2>1. UNCHANGED <<said, heard, net, serverVars>>
        BY <1>2 DEF Type, InputEnds, ReadName, Select, FgetsNull, ScanDone
  <2>2. at' = at \/ \E to : to # "off" /\ at' = Set(at, c, to)
        BY <1>2 DEF Type, InputEnds, ReadName, Select, FgetsNull, ScanDone
  <2> QED
        BY <1>1, <2>1, <2>2
<1>7. CASE Connect(c)
  <2>1. /\ at[c] = "off" /\ at' = [at EXCEPT ![c] = "name"]
        /\ pending' = pending \cup {c}
        /\ UNCHANGED <<said, heard, up, down, broken, srv, list, ready, unit, todo>>
        BY <1>7 DEF Connect, serverVars, Set
  <2>2. c \notin list /\ \A d \in list \cup pending' : at'[d] # "off"
        BY <2>1 DEF InputTypeOK, RInv, RoomTypes
  <2> QED
        BY <2>1, <2>2 DEF RInv, RoomTypes, Room
<1>3. CASE ScanStdin(c)
  <2>1. CASE at' = Set(at, c, "sending") /\ UNCHANGED <<said, heard, net, serverVars>>
        BY <1>1, <2>1
  <2> QED
        BY <1>3, <2>1, HangupTypes DEF ScanStdin
<1>4. CASE RecvEnds(c)
      BY <1>4, HangupTypes DEF RecvEnds
<1>5. CASE Send(c)
  <2>1. CASE Hangup(c)
        BY <2>1, HangupTypes
  <2>2. CASE /\ Len(up[c]) < BufLen
             /\ up' = Set(up, c, Append(up[c], <<c, said[c] + 1>>))
             /\ said' = Set(said, c, said[c] + 1) /\ at' = Set(at, c, "scan")
             /\ UNCHANGED <<heard, down, broken, pending, serverVars>>
    <3>1. said[c] \in Nat /\ <<c, said[c] + 1>> \in Unit
          BY DEF UserInv, Unit
    <3>2. up' \in [Clients -> Seq(Unit)] /\ \A d \in Clients : Len(up'[d]) <= BufLen
          BY <2>2, <3>1, UpLonger
    <3>3. said' \in [Clients -> Nat]
          BY <2>2, <3>1 DEF UserInv, Set
    <3>4. \A d \in list \cup pending : at'[d] # "off"
          BY <1>0, <2>2
    <3> QED
          BY <2>2, <3>2, <3>3, <3>4 DEF RInv, RoomTypes, Room, serverVars
  <2>3. CASE at' = Set(at, c, "scan") /\ UNCHANGED <<said, heard, net, serverVars>>
        BY <1>1, <2>3
  <2> QED
        BY <1>5, <2>1, <2>2, <2>3 DEF Send
<1>6. CASE ScanSocket(c)
  <2>1. /\ down[c] # <<>> /\ down' = Set(down, c, Tail(down[c]))
        /\ heard' = [heard EXCEPT ![c][Head(down[c])[1]] = Head(down[c])[2]]
        /\ UNCHANGED <<at, said, up, broken, pending, srv, list, ready, unit, todo>>
        BY <1>6 DEF ScanSocket, serverVars
  <2>2. /\ down' \in [Clients -> Seq(Unit)] /\ Head(down[c]) \in Unit
        /\ \A d \in Clients : Len(down'[d]) <= BufLen
        BY <2>1, DownShorter
  <2>3. Head(down[c])[1] \in Clients /\ Head(down[c])[2] \in Nat
        BY <2>2 DEF Unit
  <2>4. heard' \in [Clients -> [Clients -> Nat]]
        BY <2>1, <2>3 DEF RInv, RoomTypes
  <2> QED
        BY <2>1, <2>2, <2>4 DEF RInv, RoomTypes, Room
<1> QED
      BY <1>2, <1>3, <1>4, <1>5, <1>6, <1>7 DEF ClientNext, ClientRuns

LEMMA ServerRoom ==
    ASSUME RInv, ServerNext
    PROVE  RInv'
<1>0. /\ list \subseteq Clients /\ ready \subseteq Clients /\ todo \subseteq list
      /\ pending \subseteq Clients \ list /\ \A c \in list \cup pending : at[c] # "off"
      /\ srv \in {"select", "scan", "sending", "killed"} /\ todo # {} => srv = "sending"
      BY DEF RInv, RoomTypes
<1>1. UNCHANGED <<at, said, heard>>
      BY DEF ServerNext, ServerSelect, ServerScanDone, AllSent, Accept, AcceptFails, Recv,
         RecvHangup, SendTo, SendToGone, Sigpipe, clientVars
<1>2. CASE ServerSelect \/ ServerScanDone \/ AllSent \/ AcceptFails
      BY <1>0, <1>1, <1>2 DEF ServerSelect, ServerScanDone, AllSent, AcceptFails, net, RInv, RoomTypes, Room
<1>3. ASSUME NEW c \in Clients, Accept(c) PROVE RInv'
      BY <1>0, <1>1, <1>3 DEF Accept, net, RInv, RoomTypes, Room
<1>4. ASSUME NEW c \in Clients, Recv(c) PROVE RInv'
  <2>1. /\ srv = "scan" /\ up[c] # <<>> /\ unit' = Head(up[c])
        /\ up' = Set(up, c, Tail(up[c])) /\ todo' = list \ {c} /\ srv' = "sending"
        /\ ready' = ready \ {c} /\ UNCHANGED <<down, broken, pending, list>>
        BY <1>4 DEF Recv
  <2>2. /\ up' \in [Clients -> Seq(Unit)] /\ Head(up[c]) \in Unit
        /\ \A d \in Clients : Len(up'[d]) <= BufLen
        BY <2>1, UpShorter
  <2> QED
        BY <1>0, <1>1, <2>1, <2>2 DEF RInv, RoomTypes, Room
<1>5. ASSUME NEW c \in Clients, RecvHangup(c) PROVE RInv'
  <2>1. /\ srv = "scan" /\ todo = {} /\ up' = Set(up, c, <<>>)
        /\ list' = list \ {c} /\ ready' = ready \ {c}
        /\ UNCHANGED <<down, broken, pending, srv, unit, todo>>
        BY <1>0, <1>5 DEF RecvHangup
  <2>2. up' \in [Clients -> Seq(Unit)] /\ \A d \in Clients : Len(up'[d]) <= BufLen
        BY <2>1, UpEmpty
  <2> QED
        BY <1>0, <1>1, <2>1, <2>2 DEF RInv, RoomTypes, Room
<1>6. ASSUME NEW c \in Clients, SendTo(c) PROVE RInv'
  <2>1. /\ srv = "sending" /\ Len(down[c]) < BufLen
        /\ down' = Set(down, c, Append(down[c], unit)) /\ todo' = todo \ {c}
        /\ UNCHANGED <<up, broken, pending, srv, list, ready, unit>>
        BY <1>6 DEF SendTo
  <2>2. down' \in [Clients -> Seq(Unit)] /\ \A d \in Clients : Len(down'[d]) <= BufLen
        BY <2>1, DownLonger DEF RInv, RoomTypes
  <2> QED
        BY <1>0, <1>1, <2>1, <2>2 DEF RInv, RoomTypes, Room
<1>7. ASSUME NEW c \in Clients, SendToGone(c) PROVE RInv'
      BY <1>0, <1>1, <1>7 DEF SendToGone, Set, RInv, RoomTypes, Room
<1>8. ASSUME NEW c \in Clients, Sigpipe(c) PROVE RInv'
  <2>1. /\ srv' = "killed" /\ list' = {} /\ ready' = {} /\ todo' = {}
        /\ up' = [d \in Clients |-> <<>>] /\ pending' = {}
        /\ UNCHANGED <<down, broken, unit>>
        BY <1>8 DEF Sigpipe
  <2>2. up' \in [Clients -> Seq(Unit)] /\ \A d \in Clients : Len(up'[d]) <= BufLen
        BY <2>1, UpEmpty
  <2> QED
        BY <1>1, <2>1, <2>2 DEF RInv, RoomTypes, Room
<1> QED
      BY <1>2, <1>3, <1>4, <1>5, <1>6, <1>7, <1>8 DEF ServerNext

LEMMA StepTInv == TInv /\ [Next]_vars => TInv'
<1> SUFFICES ASSUME TInv, [Next]_vars PROVE TInv'
    OBVIOUS
<1>1. NInv'
      BY StepNInv DEF TInv
<1>2. CASE ServerNext
  <2>1. RInv'
        BY <1>2, ServerRoom DEF TInv
  <2>2. UNCHANGED <<at, see, typed, stdio, lines, said>>
        BY <1>2 DEF ServerNext, ServerSelect, ServerScanDone, AllSent, Accept, AcceptFails, Recv,
           RecvHangup, SendTo, SendToGone, Sigpipe, clientVars, input
  <2>3. UserInv'
        BY <2>2 DEF TInv, UserInv, Budget, InHand
  <2> QED
        BY <1>1, <2>1, <2>3 DEF TInv
<1>3. ASSUME NEW c \in Clients, ClientNext(c) PROVE TInv'
      BY <1>1, <1>3, ClientRoom, ClientTypes DEF TInv, NInv
<1>4. CASE UNCHANGED vars
  <2>1. RInv'
        BY <1>4 DEF vars, net, clientVars, serverVars, TInv, RInv, RoomTypes, Room
  <2>2. UserInv'
        BY <1>4 DEF vars, clientVars, input, TInv, UserInv, Budget, InHand
  <2> QED
        BY <1>1, <2>1, <2>2 DEF TInv
<1> QED
      BY <1>2, <1>3, <1>4 DEF Next

LEMMA InitTInv == Init => TInv
<1> SUFFICES ASSUME Init PROVE TInv
    OBVIOUS
<1>1. NInv
      BY DEF Init, NInv, InputTypeOK, Empty, Nul, NoMore
<1>2. UserInv
      BY ConstantsAssumption DEF ConstantsAssumption, Init, UserInv, Budget, InHand
<1>3. RInv
      BY NothingFits DEF Init, RInv, RoomTypes, Room
<1> QED
      BY <1>1, <1>2, <1>3 DEF TInv

\* No buffer holds more than it can, nothing is said that was not typed, and
\* the server sends only to connections of its list.
THEOREM RoomTypeCorrect == Spec => []TypeOK
<1>1. TInv => TypeOK
  <2> SUFFICES ASSUME TInv PROVE TypeOK
      OBVIOUS
  <2>1. ASSUME NEW c \in Clients
        PROVE  {typed[c], stdio[c], lines[c], said[c]} \subseteq 0 .. MaxLines
    <3>1. typed[c] + stdio[c] + InHand(c) + said[c] <= lines[c] /\ lines[c] <= MaxLines
          BY DEF TInv, UserInv, Budget
    <3>2. InHand(c) \in {0, 1}
          BY DEF InHand
    <3>3. PICK t \in Nat, s \in Nat, h \in Nat, d \in Nat, l \in Nat :
              /\ t = typed[c] /\ s = stdio[c] /\ h = InHand(c) /\ d = said[c] /\ l = lines[c]
          BY <3>2, Numbers DEF TInv, NInv
    <3>4. t + s + h + d <= l /\ l <= MaxLines
          BY <3>1, <3>3
    <3>5. t <= MaxLines /\ s <= MaxLines /\ d <= MaxLines
          BY <3>4, Numbers DEF TInv, NInv
    <3> QED
          BY <3>3, <3>4, <3>5
  <2> QED
        BY <2>1 DEF TInv, NInv, InputTypeOK, UserInv, RInv, RoomTypes, Room, TypeOK
<1> QED
      BY <1>1, InitTInv, StepTInv, PTL DEF Spec

-----------------------------------------------------------------------------
(* HeardInOrder                                                            *)

\* What is under way to the server are the last lines that were said, in
\* order; what the server sends comes right before them.
Taken(d) == said[d] - Len(up[d])
GoingUp ==
    \A d \in Clients :
        /\ Taken(d) \in Nat
        /\ \A k \in 1 .. Len(up[d]) : up[d][k] = <<d, Taken(d) + k>>
InTheServer ==
    srv = "sending" =>
        \E d \in list \ todo : Taken(d) > 0 /\ unit = <<d, Taken(d)>>

\* Nothing was taken yet from a connection that is not accepted yet, although
\* its client may have closed it, and nothing sent to it.
Unaccepted ==
    srv # "killed" =>
        \A c \in Clients \ list :
            /\ at[c] # "ended" \/ c \in pending => Taken(c) = 0
            /\ at[c] # "ended" => \A d \in Clients, n \in Nat : ~Known(c, d, n)

\* What c knows of d.
Ascends(c) == \A i, j \in 1 .. Len(down[c]) :
    i < j /\ down[c][i][1] = down[c][j][1] => down[c][i][2] < down[c][j][2]
NoGap(c, d) ==
    /\ \A n \in Nat : Coming(c, d, n) => n > heard[c][d]
    /\ \A m, n, k \in Nat :
          Known(c, d, m) /\ Known(c, d, n) /\ m <= k /\ k <= n => Known(c, d, k)
    /\ \A n \in Nat : Known(c, d, n) => n <= LastSent(c, d)
UpToNow(c, d) ==
    srv # "killed" /\ d \in list =>
        \A n \in Nat : Known(c, d, n) => Known(c, d, LastSent(c, d))
NotOwn(c) == \A n \in Nat : ~Known(c, c, n)
ShownTo(c) ==
    Ascends(c) /\ NotOwn(c) /\ \A d \in Clients : NoGap(c, d) /\ UpToNow(c, d)
Shown == \A c \in Clients : at[c] # "ended" => ShownTo(c)

HInv == RoomTypes /\ GoingUp /\ InTheServer /\ Unaccepted /\ Shown

LEMMA Lengths ==
    ASSUME RoomTypes, NEW c \in Clients
    PROVE  /\ Len(up[c]) \in Nat /\ Len(down[c]) \in Nat /\ said[c] \in Nat
           /\ up[c] \in Seq(Unit) /\ down[c] \in Seq(Unit)
           /\ \A d \in Clients : heard[c][d] \in Nat
BY LenProperties DEF RoomTypes

\* What a client knows of another stays, while the other has said more, or
\* what it said goes on.
SameKnown(c) == down'[c] = down[c] /\ heard'[c] = heard[c]

LEMMA KnownSame ==
    ASSUME NEW c, SameKnown(c)
    PROVE  /\ \A d, n : Known(c, d, n)' <=> Known(c, d, n)
           /\ \A d, n : Coming(c, d, n)' <=> Coming(c, d, n)
BY DEF SameKnown, Known, Coming

LEMMA AscendsSame ==
    ASSUME NEW c, SameKnown(c), Ascends(c)
    PROVE  Ascends(c)'
BY DEF SameKnown, Ascends

LEMMA NoGapSame ==
    ASSUME NEW c, NEW d, SameKnown(c), NoGap(c, d),
           LastSent(c, d) \in Int, LastSent(c, d)' \in Int,
           LastSent(c, d) <= LastSent(c, d)'
    PROVE  NoGap(c, d)'
<1>1. \A n : Known(c, d, n)' <=> Known(c, d, n)
      BY KnownSame
<1>2. \A n : Coming(c, d, n)' <=> Coming(c, d, n)
      BY KnownSame
<1>3. heard'[c][d] = heard[c][d]
      BY DEF SameKnown
<1>4. \A n \in Nat : Known(c, d, n)' => n <= LastSent(c, d)'
  <2> SUFFICES ASSUME NEW n \in Nat, Known(c, d, n)' PROVE n <= LastSent(c, d)'
      OBVIOUS
  <2>1. n <= LastSent(c, d)
        BY <1>1 DEF NoGap
  <2>2. PICK l \in Int : l = LastSent(c, d)'
        OBVIOUS
  <2>3. PICK k \in Int : k = LastSent(c, d)
        OBVIOUS
  <2>4. n <= k /\ k <= l
        BY <2>1, <2>2, <2>3
  <2>5. n <= l
        BY <2>4
  <2> QED
        BY <2>2, <2>5
<1> QED
      BY <1>1, <1>2, <1>3, <1>4 DEF NoGap

LEMMA UpToNowSame ==
    ASSUME NEW c, NEW d, SameKnown(c), UpToNow(c, d), srv' # "killed" => srv # "killed",
           d \in list' => d \in list, LastSent(c, d)' = LastSent(c, d)
    PROVE  UpToNow(c, d)'
<1>1. \A n : Known(c, d, n)' <=> Known(c, d, n)
      BY KnownSame
<1>2. PICK l : l = LastSent(c, d) /\ l = LastSent(c, d)'
      OBVIOUS
<1>3. Known(c, d, l)' <=> Known(c, d, l)
      BY <1>1
<1> QED
      BY <1>1, <1>2, <1>3 DEF UpToNow

LEMMA LastSentInt ==
    ASSUME RoomTypes, NEW c \in Clients, NEW d \in Clients
    PROVE  Taken(d) \in Int /\ LastSent(c, d) \in Int
BY Lengths DEF Taken, LastSent, InServer

LEMMA LastSentIntNext ==
    ASSUME RoomTypes', NEW c \in Clients, NEW d \in Clients
    PROVE  LastSent(c, d)' \in Int
<1>1. said'[d] \in Nat /\ Len(up'[d]) \in Nat
      BY LenProperties DEF RoomTypes
<1> QED
      BY <1>1 DEF LastSent, InServer

\* Nothing is known of a client from which nothing was taken.
LEMMA KnownAbove ==
    ASSUME RoomTypes, NEW c \in Clients, NEW d \in Clients, NoGap(c, d), NEW n \in Nat,
           Known(c, d, n)
    PROVE  n > 0
<1>1. CASE Coming(c, d, n)
  <2>1. PICK h \in Nat : h = heard[c][d]
        BY DEF RoomTypes
  <2>2. n > h
        BY <1>1, <2>1 DEF NoGap
  <2> QED
        BY <2>1, <2>2
<1> QED
      BY <1>1 DEF Known

LEMMA NothingKnown ==
    ASSUME RoomTypes, NEW c \in Clients, NEW d \in Clients, NoGap(c, d),
           LastSent(c, d) <= 0
    PROVE  \A n \in Nat : ~Known(c, d, n)
<1> SUFFICES ASSUME NEW n \in Nat, Known(c, d, n) PROVE FALSE
    OBVIOUS
<1>1. n > 0 /\ n <= LastSent(c, d)
      BY KnownAbove DEF NoGap
<1>2. PICK l \in Int : l = LastSent(c, d)
      BY LastSentInt
<1> QED
      BY <1>1, <1>2

\* A client keeps what it was shown in order while the lines it is sent only
\* grow; of a client of which it knows nothing more may be sent than it gets.
LEMMA ShownSame ==
    ASSUME RoomTypes, RoomTypes', NEW c \in Clients, SameKnown(c), ShownTo(c),
           srv' # "killed" => srv # "killed",
           \A d \in Clients :
               /\ LastSent(c, d) <= LastSent(c, d)'
               /\ srv' # "killed" /\ d \in list' =>
                     \/ \A n \in Nat : ~Known(c, d, n)
                     \/ d \in list /\ LastSent(c, d)' = LastSent(c, d)
    PROVE  ShownTo(c)'
<1>1. Ascends(c)'
      BY AscendsSame DEF ShownTo
<1>2. NotOwn(c)'
      BY KnownSame DEF ShownTo, NotOwn
<1>3. ASSUME NEW d \in Clients PROVE NoGap(c, d)' /\ UpToNow(c, d)'
  <2>1. NoGap(c, d) /\ UpToNow(c, d)
        BY DEF ShownTo
  <2>2. LastSent(c, d) \in Int /\ LastSent(c, d)' \in Int
        BY LastSentInt, LastSentIntNext
  <2>3. NoGap(c, d)'
        BY <2>1, <2>2, NoGapSame
  <2>4. CASE d \in list /\ LastSent(c, d)' = LastSent(c, d)
    <3>1. srv' # "killed" => srv # "killed"
          OBVIOUS
    <3>2. d \in list' => d \in list
          BY <2>4
    <3>3. UpToNow(c, d)'
          BY <2>1, <2>4, <3>1, <3>2, UpToNowSame
    <3> QED
          BY <2>3, <3>3
  <2>5. CASE \A n \in Nat : ~Known(c, d, n)
    <3>1. \A n \in Nat : ~Known(c, d, n)'
          BY <2>5, KnownSame
    <3> QED
          BY <2>3, <3>1 DEF UpToNow
  <2>6. CASE ~(srv' # "killed" /\ d \in list')
        BY <2>3, <2>6 DEF UpToNow
  <2> QED
        BY <2>3, <2>4, <2>5, <2>6
<1> QED
      BY <1>1, <1>2, <1>3 DEF ShownTo

-----------------------------------------------------------------------------
(* A step that leaves the lines alone: some client is elsewhere or gone, the *)
(* server goes on, accepts, or does not send to a client that is gone.       *)

LEMMA Quiet ==
    ASSUME HInv, RoomTypes', UNCHANGED <<up, said, unit>>,
           \A c \in Clients : at'[c] # "ended" =>
               at[c] # "ended" /\ SameKnown(c) /\ (c \in todo' <=> c \in todo),
           \A c \in pending' \ list' : at[c] # "ended" \/ c \in pending,
           list \subseteq list', list' \ list \subseteq pending, todo' \subseteq todo,
           srv' = "sending" => srv = "sending", srv' # "killed" => srv # "killed"
    PROVE  HInv'
<1>0. list' \subseteq Clients /\ pending' \subseteq Clients /\ pending \subseteq Clients
      BY DEF RoomTypes, HInv
<1>1. \A d : Taken(d)' = Taken(d)
      BY DEF Taken
<1>2. GoingUp'
      BY <1>1 DEF HInv, GoingUp
<1>3. InTheServer'
      BY <1>1 DEF HInv, InTheServer
<1>4. Unaccepted'
  <2> SUFFICES ASSUME srv' # "killed", NEW c \in Clients \ list'
               PROVE  /\ at'[c] # "ended" \/ c \in pending' => Taken(c)' = 0
                      /\ at'[c] # "ended" => \A d \in Clients, n \in Nat : ~Known(c, d, n)'
      BY DEF Unaccepted
  <2>1. c \in Clients \ list /\ srv # "killed"
        OBVIOUS
  <2>2. /\ at[c] # "ended" \/ c \in pending => Taken(c) = 0
        /\ at[c] # "ended" => \A d \in Clients, n \in Nat : ~Known(c, d, n)
        BY <2>1 DEF HInv, Unaccepted
  <2>3. at'[c] # "ended" \/ c \in pending' => Taken(c)' = 0
        BY <2>2, <1>1
  <2>4. at'[c] # "ended" => \A d \in Clients, n \in Nat : ~Known(c, d, n)'
        BY <2>2, KnownSame
  <2> QED
        BY <2>3, <2>4
<1>5. Shown'
  <2> SUFFICES ASSUME NEW c \in Clients, at'[c] # "ended" PROVE ShownTo(c)'
      BY DEF Shown
  <2>1. ShownTo(c)
        BY DEF HInv, Shown
  <2>2. \A d : LastSent(c, d)' = LastSent(c, d)
        BY DEF LastSent, InServer
  <2>3. \A d \in Clients : LastSent(c, d) \in Int
        BY LastSentInt DEF HInv
  <2>4. ASSUME NEW d \in Clients, srv' # "killed", d \in list'
        PROVE  (\A n \in Nat : ~Known(c, d, n)) \/ d \in list
    <3>1. CASE d \notin list
      <4>1. Taken(d) = 0
            BY <2>4, <3>1 DEF HInv, Unaccepted
      <4>2. InServer(c, d) \in {0, 1} /\ LastSent(c, d) = Taken(d) - InServer(c, d)
            BY DEF InServer, LastSent, Taken
      <4>3. LastSent(c, d) <= 0
            BY <4>1, <4>2
      <4>4. NoGap(c, d)
            BY <2>1 DEF ShownTo
      <4> QED
            BY <4>3, <4>4, NothingKnown DEF HInv
    <3> QED
          BY <3>1
  <2>5. \A d \in Clients : LastSent(c, d) <= LastSent(c, d)'
        BY <2>2, <2>3
  <2> QED
        BY <2>1, <2>2, <2>4, <2>5, ShownSame DEF HInv
<1> QED
      BY <1>2, <1>3, <1>4, <1>5 DEF HInv

-----------------------------------------------------------------------------
(* The steps that move a line                                              *)

LEMMA WayOf ==
    ASSUME RoomTypes, NEW c \in Clients
    PROVE  \E s \in Seq(Unit), l \in Nat, n \in Nat :
               s = up[c] /\ l = Len(s) /\ n = said[c] /\ Taken(c) = n - l
<1>1. PICK s \in Seq(Unit) : s = up[c]
      BY Lengths
<1>2. PICK l \in Nat : l = Len(s)
      BY <1>1, Lengths
<1>3. PICK n \in Nat : n = said[c]
      BY Lengths
<1> QED
      BY <1>1, <1>2, <1>3 DEF Taken

\* send(): the line goes to the end of the queue.
LEMMA Says ==
    ASSUME HInv, InputTypeOK, RoomTypes', NEW c \in Clients,
           up' = Set(up, c, Append(up[c], <<c, said[c] + 1>>)),
           said' = Set(said, c, said[c] + 1), at[c] = "sending",
           at' = Set(at, c, "scan"), UNCHANGED <<heard, down, pending, serverVars>>
    PROVE  HInv'
<1>1. PICK s \in Seq(Unit), l \in Nat, n \in Nat :
          s = up[c] /\ l = Len(s) /\ n = said[c] /\ Taken(c) = n - l
      BY WayOf DEF HInv
<1>2. PICK e \in Unit : e = <<c, n + 1>>
      BY <1>1 DEF Unit
<1>3. PICK t : t = Append(s, e)
      OBVIOUS
<1>4. /\ Len(t) = l + 1 /\ \A i \in 1 .. l : t[i] = s[i]
      /\ t[l + 1] = e
      BY <1>1, <1>3, Append1
<1>5. /\ up'[c] = t /\ said'[c] = n + 1
      /\ \A d \in Clients \ {c} : up'[d] = up[d] /\ said'[d] = said[d]
      BY <1>1, <1>2, <1>3 DEF HInv, RoomTypes, Set
<1>6. PICK k \in Nat : k = n - l /\ k = Taken(c)
      BY <1>1 DEF HInv, GoingUp
<1>7. Taken(c)' = k
  <2>1. Taken(c)' = (n + 1) - (l + 1)
        BY <1>4, <1>5 DEF Taken
  <2> QED
        BY <1>6, <2>1
<1>8. ASSUME NEW d \in Clients PROVE Taken(d)' = Taken(d)
      BY <1>5, <1>6, <1>7 DEF Taken
<1>9. GoingUp'
  <2> SUFFICES ASSUME NEW d \in Clients
               PROVE  /\ Taken(d)' \in Nat
                      /\ \A i \in 1 .. Len(up'[d]) : up'[d][i] = <<d, Taken(d)' + i>>
      BY DEF GoingUp
  <2>1. /\ Taken(d) \in Nat
        /\ \A i \in 1 .. Len(up[d]) : up[d][i] = <<d, Taken(d) + i>>
        BY DEF HInv, GoingUp
  <2>2. CASE d # c
        BY <1>5, <1>8, <2>1, <2>2
  <2>3. CASE d = c
    <3> SUFFICES ASSUME NEW i \in 1 .. l + 1 PROVE t[i] = <<c, k + i>>
        BY <1>4, <1>5, <1>6, <1>7, <2>3
    <3>1. CASE i = l + 1
      <4>1. k + i = n + 1
            BY <1>6, <3>1
      <4> QED
            BY <1>2, <1>4, <3>1, <4>1
    <3>2. CASE i # l + 1
      <4>1. i \in 1 .. l
            BY <3>2
      <4> QED
            BY <1>1, <1>4, <1>6, <2>1, <2>3, <4>1
    <3> QED
        BY <3>1, <3>2
  <2> QED
        BY <2>2, <2>3
<1>10. \A d \in Clients : at'[d] # "ended" => at[d] # "ended" /\ SameKnown(d)
      BY DEF InputTypeOK, Set, SameKnown
<1>11. \A d \in Clients : at[d] # "ended" <=> at'[d] # "ended"
      BY DEF InputTypeOK, Set
<1>12. InTheServer'
      BY <1>8 DEF HInv, InTheServer, serverVars, RoomTypes
<1>13. Unaccepted'
  <2> SUFFICES ASSUME srv' # "killed", NEW d \in Clients \ list'
               PROVE  /\ at'[d] # "ended" \/ d \in pending' => Taken(d)' = 0
                      /\ at'[d] # "ended" => \A x \in Clients, m \in Nat : ~Known(d, x, m)'
      BY DEF Unaccepted
  <2>1. /\ at[d] # "ended" \/ d \in pending => Taken(d) = 0
        /\ at[d] # "ended" => \A x \in Clients, m \in Nat : ~Known(d, x, m)
        BY DEF HInv, Unaccepted, serverVars
  <2>2. at'[d] # "ended" \/ d \in pending' => Taken(d)' = 0
        BY <2>1, <1>8, <1>11 DEF serverVars
  <2>3. at'[d] # "ended" => \A x \in Clients, m \in Nat : ~Known(d, x, m)'
        BY <2>1, <1>10, KnownSame
  <2> QED
        BY <2>2, <2>3
<1>14. Shown'
  <2> SUFFICES ASSUME NEW x \in Clients, at'[x] # "ended" PROVE ShownTo(x)'
      BY DEF Shown
  <2>1. ShownTo(x) /\ SameKnown(x)
        BY <1>10 DEF HInv, Shown
  <2>2. ASSUME NEW d \in Clients PROVE LastSent(x, d)' = LastSent(x, d)
    <3>1. LastSent(x, d) = Taken(d) - InServer(x, d)
          BY DEF LastSent, Taken
    <3>2. LastSent(x, d)' = Taken(d)' - InServer(x, d)'
          BY DEF LastSent, Taken
    <3>3. InServer(x, d)' = InServer(x, d)
          BY DEF InServer, serverVars
    <3> QED
          BY <1>8, <3>1, <3>2, <3>3
  <2>3. \A d \in Clients : LastSent(x, d) \in Int
        BY LastSentInt DEF HInv
  <2>4. \A d \in Clients : LastSent(x, d) <= LastSent(x, d)'
        BY <2>2, <2>3
  <2>5. list' = list /\ srv' = srv
        BY DEF serverVars
  <2> QED
        BY <2>1, <2>2, <2>4, <2>5, ShownSame DEF HInv
<1> QED
      BY <1>9, <1>12, <1>13, <1>14 DEF HInv

\* The client shows the oldest unit: what it knows, less the line of the
\* same client that it showed before.
LEMMA ShowsKnown ==
    ASSUME RoomTypes, NEW c \in Clients, down[c] # <<>>, ShownTo(c),
           down' = Set(down, c, Tail(down[c])),
           heard' = [heard EXCEPT ![c][Head(down[c])[1]] = Head(down[c])[2]]
    PROVE  \E d \in Clients, h \in Nat :
               /\ d # c /\ Known(c, d, h) /\ h > heard[c][d]
               /\ heard'[c] = [heard[c] EXCEPT ![d] = h]
               /\ \A x \in Clients \ {c} : SameKnown(x)
               /\ Ascends(c)'
               /\ \A n \in Nat : Coming(c, d, n)' => n > h /\ Coming(c, d, n)
               /\ \A n \in Nat : Coming(c, d, n) => n = h \/ Coming(c, d, n)'
               /\ \A x \in Clients \ {d}, n \in Nat : Coming(c, x, n)' <=> Coming(c, x, n)
<1>1. PICK s \in Seq(Unit) : s = down[c]
      BY Lengths
<1>2. PICK t : t = Tail(s)
      OBVIOUS
<1>3. PICK l \in Nat : l = Len(s)
      BY <1>1, Lengths
<1>4. /\ l >= 1 /\ Len(t) = l - 1 /\ Head(s) = s[1] /\ s[1] \in Unit
      /\ \A i \in 1 .. l - 1 : t[i] = s[i + 1]
      BY <1>1, <1>2, <1>3, Tail1
<1>5. PICK d \in Clients, h \in Nat : s[1] = <<d, h>>
      BY <1>4 DEF Unit
<1>6. down'[c] = t /\ \A x \in Clients \ {c} : down'[x] = down[x]
      BY <1>1, <1>2 DEF RoomTypes, Set
<1>7. Head(down[c]) = <<d, h>>
      BY <1>1, <1>4, <1>5
<1>8. /\ heard'[c] = [heard[c] EXCEPT ![d] = h]
      /\ \A x \in Clients \ {c} : heard'[x] = heard[x]
  <2>1. PICK u : u = Head(down[c]) /\ u[1] = d /\ u[2] = h
        BY <1>7
  <2>2. heard' = [heard EXCEPT ![c][d] = h]
        BY <2>1
  <2> QED
        BY <2>2 DEF RoomTypes
<1>9. Coming(c, d, h)
      BY <1>1, <1>3, <1>4, <1>5 DEF Coming
<1>10. Known(c, d, h) /\ h > heard[c][d]
      BY <1>9 DEF Known, ShownTo, NoGap
<1>11. d # c
      BY <1>10 DEF ShownTo, NotOwn
<1>12. \A i, j \in 1 .. l : i < j /\ s[i][1] = s[j][1] => s[i][2] < s[j][2]
      BY <1>1, <1>3 DEF ShownTo, Ascends
<1>13. ASSUME NEW i \in 1 .. l - 1 PROVE i + 1 \in 1 .. l /\ i + 1 > 1 /\ t[i] = s[i + 1]
      BY <1>4
<1>14. ASSUME NEW i \in 1 .. l, i # 1 PROVE i - 1 \in 1 .. l - 1 /\ t[i - 1] = s[i]
  <2>1. i - 1 \in 1 .. l - 1 /\ (i - 1) + 1 = i
        BY <1>14
  <2> QED
        BY <2>1, <1>4
<1>15. Ascends(c)'
  <2> SUFFICES ASSUME NEW i \in 1 .. l - 1, NEW j \in 1 .. l - 1, i < j,
                      t[i][1] = t[j][1]
               PROVE  t[i][2] < t[j][2]
      BY <1>4, <1>6 DEF Ascends
  <2>1. i + 1 < j + 1
        OBVIOUS
  <2> QED
        BY <2>1, <1>12, <1>13
<1>16. ASSUME NEW x \in Clients, NEW n \in Nat, Coming(c, x, n)'
       PROVE  Coming(c, x, n) /\ (x = d => n > h)
  <2>1. PICK i \in 1 .. l - 1 : t[i] = <<x, n>>
        BY <1>4, <1>6, <1>16 DEF Coming
  <2>2. i + 1 \in 1 .. l /\ 1 < i + 1 /\ s[i + 1] = <<x, n>>
        BY <2>1, <1>13
  <2>3. Coming(c, x, n)
        BY <2>2, <1>1, <1>3 DEF Coming
  <2>4. x = d => h < n
    <3>1. 1 \in 1 .. l
          BY <1>4
    <3>2. PICK j \in 1 .. l : 1 < j /\ s[j] = <<x, n>>
          BY <2>2
    <3>3. s[1][1] = d /\ s[1][2] = h /\ s[j][1] = x /\ s[j][2] = n
          BY <1>5, <3>2
    <3>4. s[1][1] = s[j][1] => s[1][2] < s[j][2]
          BY <3>1, <3>2, <1>12
    <3> QED
          BY <3>3, <3>4
  <2> QED
        BY <2>3, <2>4
<1>17. ASSUME NEW x \in Clients, NEW n \in Nat, Coming(c, x, n)
       PROVE  Coming(c, x, n)' \/ (x = d /\ n = h)
  <2>1. PICK i \in 1 .. l : s[i] = <<x, n>>
        BY <1>1, <1>3, <1>17 DEF Coming
  <2>2. CASE i = 1
        BY <2>1, <2>2, <1>5
  <2>3. CASE i # 1
    <3>1. i - 1 \in 1 .. Len(t) /\ t[i - 1] = <<x, n>>
          BY <2>1, <2>3, <1>4, <1>14
    <3> QED
          BY <3>1, <1>6 DEF Coming
  <2> QED
        BY <2>2, <2>3
<1>18. \A x \in Clients \ {c} : SameKnown(x)
      BY <1>6, <1>8 DEF SameKnown
<1>19. \A n \in Nat : Coming(c, d, n)' => n > h /\ Coming(c, d, n)
      BY <1>16
<1>20. \A n \in Nat : Coming(c, d, n) => n = h \/ Coming(c, d, n)'
      BY <1>17
<1>21. \A x \in Clients \ {d}, n \in Nat : Coming(c, x, n)' <=> Coming(c, x, n)
      BY <1>16, <1>17
<1> QED
      BY <1>8, <1>10, <1>11, <1>15, <1>18, <1>19, <1>20, <1>21

LEMMA Shows ==
    ASSUME HInv, RoomTypes', NEW c \in Clients, ScanSocket(c)
    PROVE  HInv'
<1>1. /\ down[c] # <<>> /\ down' = Set(down, c, Tail(down[c])) /\ at[c] = "scan"
      /\ heard' = [heard EXCEPT ![c][Head(down[c])[1]] = Head(down[c])[2]]
      /\ UNCHANGED <<at, said, up, pending, srv, list, ready, unit, todo>>
      BY DEF ScanSocket, serverVars
<1>2. RoomTypes /\ ShownTo(c)
      BY <1>1 DEF HInv, Shown
<1>3. PICK d \in Clients, h \in Nat :
               /\ d # c /\ Known(c, d, h) /\ h > heard[c][d]
               /\ heard'[c] = [heard[c] EXCEPT ![d] = h]
               /\ \A x \in Clients \ {c} : SameKnown(x)
               /\ Ascends(c)'
               /\ \A n \in Nat : Coming(c, d, n)' => n > h /\ Coming(c, d, n)
               /\ \A n \in Nat : Coming(c, d, n) => n = h \/ Coming(c, d, n)'
               /\ \A x \in Clients \ {d}, n \in Nat : Coming(c, x, n)' <=> Coming(c, x, n)
      BY <1>1, <1>2, ShowsKnown
<1>4. heard'[c][d] = h /\ \A x \in Clients \ {d} : heard'[c][x] = heard[c][x]
      BY <1>2, <1>3 DEF RoomTypes
<1>5. PICK o \in Nat : o = heard[c][d] /\ h > o
      BY <1>2, <1>3, Lengths
<1>6. ASSUME NEW x \in Clients \ {d}, NEW n \in Nat PROVE Known(c, x, n)' <=> Known(c, x, n)
      BY <1>3, <1>4 DEF Known
<1>7. ASSUME NEW n \in Nat PROVE Known(c, d, n)' <=> Known(c, d, n) /\ n >= h
  <2>1. Known(c, d, n)' <=> Coming(c, d, n)' \/ (n > 0 /\ n = h)
        BY <1>4 DEF Known
  <2>2. Known(c, d, n) <=> Coming(c, d, n) \/ (n > 0 /\ n = o)
        BY <1>5 DEF Known
  <2>3. h > 0
        BY <1>5
  <2>4. CASE n = h
        BY <2>1, <2>3, <2>4, <1>3
  <2>5. CASE n # h
    <3>1. Coming(c, d, n)' <=> Coming(c, d, n)
          BY <2>5, <1>3
    <3>2. Coming(c, d, n)' => n > h
          BY <1>3
    <3>3. n = o => ~(n >= h)
          BY <1>5
    <3>4. n > h => n >= h
          BY <1>5
    <3> QED
          BY <2>1, <2>2, <2>5, <3>1, <3>2, <3>3, <3>4
  <2> QED
        BY <2>4, <2>5
<1>8. \A y, x : LastSent(y, x)' = LastSent(y, x)
      BY <1>1 DEF LastSent, InServer
<1>9. \A x : Taken(x)' = Taken(x)
      BY <1>1 DEF Taken
<1>10. ASSUME NEW x \in Clients PROVE NoGap(c, x)' /\ UpToNow(c, x)'
  <2>1. NoGap(c, x) /\ UpToNow(c, x)
        BY <1>2 DEF ShownTo
  <2>2. PICK l \in Int : l = LastSent(c, x) /\ l = LastSent(c, x)'
        BY <1>2, <1>8, LastSentInt
  <2>3. CASE x # d
    <3>1. NoGap(c, x)'
          BY <1>3, <1>4, <1>6, <2>1, <2>2, <2>3 DEF NoGap
    <3>2. UpToNow(c, x)'
      <4> SUFFICES ASSUME srv' # "killed", x \in list', NEW n \in Nat, Known(c, x, n)'
                   PROVE  Known(c, x, l)'
          BY <2>2 DEF UpToNow
      <4>1. Known(c, x, n)
            BY <1>6, <2>3
      <4>2. Known(c, x, l)
            BY <4>1, <1>1, <2>1, <2>2 DEF UpToNow
      <4>3. n > 0 /\ n <= l
            BY <4>1, <1>2, <2>1, <2>2, KnownAbove DEF NoGap
      <4>4. l \in Nat
            BY <4>3
      <4> QED
            BY <4>2, <4>4, <1>6, <2>3
    <3> QED
          BY <3>1, <3>2
  <2>4. CASE x = d
    <3>1. \A n \in Nat : Coming(c, d, n)' => n > heard'[c][d]
          BY <1>3, <1>4
    <3>2. ASSUME NEW m \in Nat, NEW n \in Nat, NEW k \in Nat,
                 Known(c, d, m)', Known(c, d, n)', m <= k, k <= n
          PROVE  Known(c, d, k)'
      <4>1. Known(c, d, m) /\ Known(c, d, n) /\ m >= h
            BY <3>2, <1>7
      <4>2. k >= h
            BY <3>2, <4>1
      <4>3. Known(c, d, k)
            BY <3>2, <4>1, <2>1, <2>4 DEF NoGap
      <4> QED
            BY <4>2, <4>3, <1>7
    <3>3. \A n \in Nat : Known(c, d, n)' => n <= LastSent(c, d)'
          BY <1>7, <2>1, <2>2, <2>4 DEF NoGap
    <3>4. NoGap(c, d)'
          BY <3>1, <3>2, <3>3 DEF NoGap
    <3>5. ASSUME srv' # "killed", d \in list' PROVE Known(c, d, l)'
      <4>1. Known(c, d, l)
            BY <3>5, <1>1, <1>3, <2>1, <2>2, <2>4 DEF UpToNow
      <4>2. h <= l
            BY <1>3, <2>1, <2>2, <2>4 DEF NoGap
      <4>3. l \in Nat /\ l >= h
            BY <4>2
      <4> QED
            BY <4>1, <4>3, <1>7
    <3>6. UpToNow(c, d)'
          BY <3>5, <2>2, <2>4 DEF UpToNow
    <3> QED
          BY <2>4, <3>4, <3>6
  <2> QED
        BY <2>3, <2>4
<1>11. NotOwn(c)'
      BY <1>2, <1>3, <1>6 DEF ShownTo, NotOwn
<1>12. Shown'
  <2> SUFFICES ASSUME NEW x \in Clients, at'[x] # "ended" PROVE ShownTo(x)'
      BY DEF Shown
  <2>1. CASE x = c
        BY <2>1, <1>3, <1>10, <1>11 DEF ShownTo
  <2>2. CASE x # c
    <3>1. ShownTo(x) /\ SameKnown(x)
          BY <2>2, <1>1, <1>3 DEF HInv, Shown
    <3>2. \A y \in Clients : LastSent(x, y) <= LastSent(x, y)'
      <4>1. \A y \in Clients : LastSent(x, y) \in Int
            BY <1>2, LastSentInt
      <4> QED
            BY <4>1, <1>8
    <3> QED
          BY <3>1, <3>2, <1>1, <1>2, <1>8, ShownSame
  <2> QED
        BY <2>1, <2>2
<1>13. GoingUp' /\ InTheServer'
      BY <1>1, <1>9 DEF HInv, GoingUp, InTheServer
<1>14. Unaccepted'
  <2> SUFFICES ASSUME srv' # "killed", NEW y \in Clients \ list'
               PROVE  /\ at'[y] # "ended" \/ y \in pending' => Taken(y)' = 0
                      /\ at'[y] # "ended" => \A x \in Clients, m \in Nat : ~Known(y, x, m)'
      BY DEF Unaccepted
  <2>1. /\ at[y] # "ended" \/ y \in pending => Taken(y) = 0
        /\ at[y] # "ended" => \A x \in Clients, m \in Nat : ~Known(y, x, m)
        BY <1>1 DEF HInv, Unaccepted
  <2>2. y # c
        BY <2>1, <1>1, <1>3
  <2> QED
        BY <2>1, <2>2, <1>1, <1>3, <1>9, KnownSame
<1> QED
      BY <1>12, <1>13, <1>14 DEF HInv

\* recv(): the oldest unit goes from the queue into the server's hands.
LEMMA Receives ==
    ASSUME HInv, RoomTypes', NEW c \in Clients, Recv(c)
    PROVE  HInv'
<1>1. /\ srv = "scan" /\ c \in ready \cap list /\ up[c] # <<>> /\ unit' = Head(up[c])
      /\ up' = Set(up, c, Tail(up[c])) /\ todo' = list \ {c} /\ srv' = "sending"
      /\ UNCHANGED <<at, said, heard, down, pending, list>>
      BY DEF Recv, clientVars
<1>2. RoomTypes /\ todo = {}
      BY <1>1 DEF HInv, RoomTypes
<1>3. PICK s \in Seq(Unit), l \in Nat, n \in Nat :
          s = up[c] /\ l = Len(s) /\ n = said[c] /\ Taken(c) = n - l
      BY <1>2, WayOf
<1>4. PICK t : t = Tail(s)
      OBVIOUS
<1>5. /\ l >= 1 /\ Len(t) = l - 1 /\ Head(s) = s[1]
      /\ \A i \in 1 .. l - 1 : t[i] = s[i + 1]
      BY <1>1, <1>3, <1>4, Tail1
<1>6. PICK k \in Nat : k = n - l /\ k = Taken(c)
      BY <1>3 DEF HInv, GoingUp
<1>7. \A i \in 1 .. l : s[i] = <<c, k + i>>
      BY <1>3, <1>6 DEF HInv, GoingUp
<1>8. unit' = <<c, k + 1>>
  <2>1. 1 \in 1 .. l
        BY <1>5
  <2> QED
        BY <2>1, <1>1, <1>3, <1>5, <1>7
<1>9. up'[c] = t /\ \A d \in Clients \ {c} : up'[d] = up[d]
      BY <1>1, <1>2, <1>3, <1>4 DEF RoomTypes, Set
<1>10. Taken(c)' = k + 1
  <2>1. Taken(c)' = n - (l - 1)
        BY <1>1, <1>3, <1>5, <1>9 DEF Taken
  <2> QED
        BY <1>6, <2>1
<1>11. \A d \in Clients \ {c} : Taken(d)' = Taken(d)
      BY <1>1, <1>9 DEF Taken
<1>12. GoingUp'
  <2> SUFFICES ASSUME NEW d \in Clients
               PROVE  /\ Taken(d)' \in Nat
                      /\ \A i \in 1 .. Len(up'[d]) : up'[d][i] = <<d, Taken(d)' + i>>
      BY DEF GoingUp
  <2>1. CASE d # c
        BY <2>1, <1>9, <1>11 DEF HInv, GoingUp
  <2>2. CASE d = c
    <3>0. up'[d] = t /\ Len(up'[d]) = l - 1 /\ Taken(d)' = k + 1 /\ k + 1 \in Nat
          BY <1>5, <1>9, <1>10, <2>2
    <3> SUFFICES ASSUME NEW i \in 1 .. l - 1 PROVE t[i] = <<c, (k + 1) + i>>
        BY <2>2, <3>0, Zenon
    <3>1. i + 1 \in 1 .. l /\ k + (i + 1) = (k + 1) + i
          OBVIOUS
    <3>2. t[i] = s[i + 1] /\ s[i + 1] = <<c, k + (i + 1)>>
          BY <3>1, <1>5, <1>7
    <3> QED
          BY <3>1, <3>2
  <2> QED
        BY <2>1, <2>2
<1>13. InTheServer'
  <2>1. c \in list' \ todo' /\ Taken(c)' > 0 /\ unit' = <<c, Taken(c)'>>
        BY <1>1, <1>8, <1>10
  <2> QED
        BY <2>1 DEF InTheServer
<1>14. \A x : SameKnown(x)
      BY <1>1 DEF SameKnown
<1>15. Unaccepted'
  <2> SUFFICES ASSUME NEW y \in Clients \ list'
               PROVE  /\ at'[y] # "ended" \/ y \in pending' => Taken(y)' = 0
                      /\ at'[y] # "ended" => \A x \in Clients, m \in Nat : ~Known(y, x, m)'
      BY DEF Unaccepted
  <2>1. /\ at[y] # "ended" \/ y \in pending => Taken(y) = 0
        /\ at[y] # "ended" => \A x \in Clients, m \in Nat : ~Known(y, x, m)
        BY <1>1 DEF HInv, Unaccepted
  <2> QED
        BY <2>1, <1>1, <1>11, <1>14, KnownSame
<1>16. Shown'
  <2> SUFFICES ASSUME NEW x \in Clients, at'[x] # "ended" PROVE ShownTo(x)'
      BY DEF Shown
  <2>1. ShownTo(x) /\ SameKnown(x)
        BY <1>1, <1>14 DEF HInv, Shown
  <2>2. ASSUME NEW d \in Clients
        PROVE  /\ LastSent(x, d) <= LastSent(x, d)'
               /\ d \in list' =>
                     \/ \A m \in Nat : ~Known(x, d, m)
                     \/ d \in list /\ LastSent(x, d)' = LastSent(x, d)
    <3>1. LastSent(x, d) = Taken(d) - InServer(x, d) /\ InServer(x, d) = 0
          BY <1>2 DEF LastSent, Taken, InServer
    <3>2. LastSent(x, d)' = Taken(d)' - InServer(x, d)'
          BY DEF LastSent, Taken
    <3>3. Taken(d) \in Nat /\ LastSent(x, d) = Taken(d)
          BY <3>1 DEF HInv, GoingUp
    <3>4. CASE d # c
      <4>1. InServer(x, d)' = 0
            BY <1>8, <3>4 DEF InServer
      <4>2. LastSent(x, d)' = LastSent(x, d)
            BY <4>1, <3>2, <3>3, <3>4, <1>11
      <4> QED
            BY <4>2, <3>3, <1>1
    <3>5. CASE d = c /\ x \in list \ {c}
      <4>1. InServer(x, d)' = 1
            BY <1>1, <1>8, <3>5 DEF InServer
      <4>2. LastSent(x, d)' = LastSent(x, d)
            BY <4>1, <3>2, <3>3, <3>5, <1>6, <1>10
      <4> QED
            BY <4>2, <3>3, <1>1
    <3>6. CASE d = c /\ (x \notin list \/ x = c)
      <4>1. InServer(x, d)' = 0
            BY <1>1, <3>6 DEF InServer
      <4>2. LastSent(x, d) <= LastSent(x, d)'
            BY <4>1, <3>2, <3>3, <3>6, <1>6, <1>10
      <4>3. \A m \in Nat : ~Known(x, d, m)
            BY <3>6, <2>1, <1>1 DEF HInv, Unaccepted, ShownTo, NotOwn
      <4> QED
            BY <4>2, <4>3
    <3> QED
          BY <3>4, <3>5, <3>6
  <2> QED
        BY <2>1, <2>2, <1>1, <1>2, ShownSame
<1> QED
      BY <1>12, <1>13, <1>15, <1>16 DEF HInv

\* Queues that are thrown away: what was in them counts as taken.
LEMMA Discards ==
    ASSUME HInv, RoomTypes', NEW X \in SUBSET Clients,
           up' = [c \in Clients |-> IF c \in X THEN <<>> ELSE up[c]],
           UNCHANGED <<at, said, heard, down, unit>>,
           (srv' # "sending" /\ todo = {}) \/ srv' = "killed",
           todo' = {}, list' \subseteq list \ X, pending' \subseteq pending \ X,
           srv' # "killed" => srv # "killed" /\ list' = list \ X,
           \A c \in X : srv' # "killed" => at[c] = "ended"
    PROVE  HInv'
<1>1. RoomTypes
      BY DEF HInv
<1>2. \A d \in Clients : Taken(d) \in Nat
      BY DEF HInv, GoingUp
<1>3. ASSUME NEW d \in X PROVE Taken(d)' = said[d] /\ up'[d] = <<>> /\ Taken(d) <= Taken(d)'
  <2>1. up'[d] = <<>>
        OBVIOUS
  <2>2. Taken(d)' = said[d] - 0
        BY <2>1, EmptySeq DEF Taken
  <2>3. PICK s \in Seq(Unit), l \in Nat, n \in Nat :
            s = up[d] /\ l = Len(s) /\ n = said[d] /\ Taken(d) = n - l
        BY <1>1, WayOf
  <2>4. Taken(d)' = n /\ n - l <= n
        BY <2>2, <2>3
  <2> QED
        BY <2>1, <2>3, <2>4
<1>4. ASSUME NEW d \in Clients \ X PROVE Taken(d)' = Taken(d) /\ up'[d] = up[d]
      BY DEF Taken
<1>5. GoingUp'
  <2> SUFFICES ASSUME NEW d \in Clients
               PROVE  /\ Taken(d)' \in Nat
                      /\ \A i \in 1 .. Len(up'[d]) : up'[d][i] = <<d, Taken(d)' + i>>
      BY DEF GoingUp
  <2>1. CASE d \in X
    <3>1. Taken(d)' = said[d] /\ up'[d] = <<>> /\ said[d] \in Nat
          BY <2>1, <1>1, <1>3 DEF RoomTypes
    <3>2. Len(<<>>) = 0
          BY EmptySeq
    <3> QED
          BY <3>1, <3>2
  <2>2. CASE d \notin X
        BY <2>2, <1>4 DEF HInv, GoingUp
  <2> QED
        BY <2>1, <2>2
<1>6. InTheServer'
      BY DEF InTheServer
<1>7. \A x : SameKnown(x)
      BY DEF SameKnown
<1>8. Unaccepted'
  <2> SUFFICES ASSUME srv' # "killed", NEW y \in Clients \ list'
               PROVE  /\ at'[y] # "ended" \/ y \in pending' => Taken(y)' = 0
                      /\ at'[y] # "ended" => \A x \in Clients, m \in Nat : ~Known(y, x, m)'
      BY DEF Unaccepted
  <2>1. CASE y \in X
        BY <2>1
  <2>2. CASE y \notin X
    <3>1. /\ at[y] # "ended" \/ y \in pending => Taken(y) = 0
          /\ at[y] # "ended" => \A x \in Clients, m \in Nat : ~Known(y, x, m)
          BY <2>2 DEF HInv, Unaccepted
    <3> QED
          BY <3>1, <2>2, <1>4, <1>7, KnownSame
  <2> QED
        BY <2>1, <2>2
<1>9. Shown'
  <2> SUFFICES ASSUME NEW x \in Clients, at'[x] # "ended" PROVE ShownTo(x)'
      BY DEF Shown
  <2>1. ShownTo(x) /\ SameKnown(x)
        BY <1>7 DEF HInv, Shown
  <2>2. ASSUME NEW d \in Clients
        PROVE  /\ LastSent(x, d) <= LastSent(x, d)'
               /\ srv' # "killed" /\ d \in list' =>
                     \/ \A m \in Nat : ~Known(x, d, m)
                     \/ d \in list /\ LastSent(x, d)' = LastSent(x, d)
    <3>1. LastSent(x, d) = Taken(d) - InServer(x, d) /\ InServer(x, d) \in {0, 1}
          BY DEF LastSent, Taken, InServer
    <3>2. LastSent(x, d)' = Taken(d)' - InServer(x, d)' /\ InServer(x, d)' = 0
          BY DEF LastSent, Taken, InServer
    <3>3. Taken(d)' \in Nat /\ Taken(d) \in Nat
          BY <1>5, <1>2 DEF GoingUp
    <3>4. Taken(d) <= Taken(d)'
      <4>1. CASE d \in X
            BY <4>1, <1>3
      <4>2. CASE d \notin X
            BY <4>2, <1>4, <3>3
      <4> QED
            BY <4>1, <4>2
    <3>5. LastSent(x, d) <= LastSent(x, d)'
      <4>1. PICK a \in Nat, b \in Nat, i \in {0, 1} :
                a = Taken(d) /\ b = Taken(d)' /\ i = InServer(x, d)
            BY <3>1, <3>3
      <4>2. a <= b
            BY <4>1, <3>4
      <4>3. a - i <= b - 0
            BY <4>2
      <4> QED
            BY <4>1, <4>3, <3>1, <3>2
    <3>6. ASSUME srv' # "killed", d \in list'
          PROVE  d \in list /\ LastSent(x, d)' = LastSent(x, d)
      <4>1. d \in list \ X /\ InServer(x, d) = 0
            BY <3>6 DEF InServer
      <4> QED
            BY <4>1, <3>1, <3>2, <1>4
    <3> QED
          BY <3>5, <3>6
  <2>3. srv' # "killed" => srv # "killed"
        OBVIOUS
  <2> QED
        BY <2>1, <2>2, <2>3, <1>1, ShownSame
<1> QED
      BY <1>5, <1>6, <1>8, <1>9 DEF HInv

\* send() to a client: the unit in the server's hands is the next of its
\* sender for this client.
LEMMA Forwards ==
    ASSUME HInv, RoomTypes', NEW c \in Clients, SendTo(c)
    PROVE  HInv'
<1>1. /\ srv = "sending" /\ c \in todo /\ at[c] # "ended"
      /\ down' = Set(down, c, Append(down[c], unit)) /\ todo' = todo \ {c}
      /\ UNCHANGED <<at, said, heard, up, pending, srv, list, ready, unit>>
      BY DEF SendTo, clientVars
<1>2. RoomTypes /\ ShownTo(c)
      BY <1>1 DEF HInv, Shown
<1>3. PICK d \in list \ todo : Taken(d) > 0 /\ unit = <<d, Taken(d)>>
      BY <1>1 DEF HInv, InTheServer
<1>4. PICK k \in Nat : k = Taken(d) /\ k > 0
      BY <1>2, <1>3 DEF HInv, GoingUp, RoomTypes
<1>5. d \in Clients /\ d # c /\ d \in list /\ unit = <<d, k>>
      BY <1>1, <1>2, <1>3, <1>4 DEF RoomTypes
<1>6. PICK s \in Seq(Unit) : s = down[c]
      BY <1>2, Lengths
<1>7. PICK e \in Unit : e = <<d, k>>
      BY <1>5 DEF Unit
<1>8. PICK t : t = Append(s, e)
      OBVIOUS
<1>9. PICK l \in Nat : l = Len(s)
      BY <1>2, <1>6, Lengths
<1>10. Len(t) = l + 1 /\ t[l + 1] = e /\ \A i \in 1 .. l : t[i] = s[i]
      BY <1>8, <1>9, Append1
<1>11. down'[c] = t /\ \A x \in Clients \ {c} : down'[x] = down[x]
      BY <1>1, <1>2, <1>5, <1>6, <1>7, <1>8 DEF RoomTypes, Set
<1>12. ASSUME NEW x \in Clients, NEW n \in Nat
       PROVE  Coming(c, x, n)' <=> Coming(c, x, n) \/ (x = d /\ n = k)
  <2>1. Coming(c, x, n) <=> \E i \in 1 .. l : s[i] = <<x, n>>
        BY <1>6, <1>9 DEF Coming
  <2>2. Coming(c, x, n)' <=> \E i \in 1 .. l + 1 : t[i] = <<x, n>>
        BY <1>10, <1>11 DEF Coming
  <2>3. \A i \in 1 .. l + 1 : i \in 1 .. l \/ i = l + 1
        OBVIOUS
  <2>4. \A i \in 1 .. l : i \in 1 .. l + 1
        OBVIOUS
  <2>5. l + 1 \in 1 .. l + 1
        OBVIOUS
  <2>6. t[l + 1] = <<x, n>> <=> x = d /\ n = k
        BY <1>7, <1>10
  <2> QED
        BY <2>1, <2>2, <2>3, <2>4, <2>5, <2>6, <1>10
<1>13. ASSUME NEW x \in Clients, NEW n \in Nat
       PROVE  Known(c, x, n)' <=> Known(c, x, n) \/ (x = d /\ n = k)
      BY <1>1, <1>12 DEF Known
<1>14. \A x \in Clients \ {c} : SameKnown(x)
      BY <1>1, <1>11 DEF SameKnown
<1>15. LastSent(c, d) = k - 1 /\ LastSent(c, d)' = k
  <2>1. InServer(c, d) = 1 /\ InServer(c, d)' = 0
        BY <1>1, <1>5 DEF InServer
  <2>2. LastSent(c, d) = Taken(d) - InServer(c, d)
        BY DEF LastSent, Taken
  <2>3. LastSent(c, d)' = Taken(d) - InServer(c, d)'
        BY <1>1 DEF LastSent, Taken
  <2> QED
        BY <1>4, <2>1, <2>2, <2>3
<1>16. ASSUME NEW y \in Clients, NEW x \in Clients, ~(y = c /\ x = d)
       PROVE  LastSent(y, x)' = LastSent(y, x) /\ LastSent(y, x) <= LastSent(y, x)'
  <2>1. InServer(y, x)' = InServer(y, x)
        BY <1>1, <1>5, <1>16 DEF InServer
  <2>2. LastSent(y, x)' = LastSent(y, x)
        BY <2>1, <1>1 DEF LastSent
  <2>3. LastSent(y, x) \in Int
        BY <1>2, LastSentInt
  <2> QED
        BY <2>2, <2>3
<1>17. NoGap(c, d) /\ UpToNow(c, d)
      BY <1>2, <1>5 DEF ShownTo
<1>18. \A n \in Nat : Known(c, d, n) => n <= k - 1 /\ Known(c, d, k - 1)
      BY <1>1, <1>3, <1>15, <1>17 DEF NoGap, UpToNow
<1>19. NoGap(c, d)'
  <2>1. ASSUME NEW n \in Nat, Coming(c, d, n)' PROVE n > heard'[c][d]
    <3>1. CASE Coming(c, d, n)
          BY <3>1, <1>1, <1>17 DEF NoGap
    <3>2. CASE n = k
      <4>1. PICK h \in Nat : h = heard[c][d]
            BY <1>2, <1>5, Lengths
      <4>2. h > 0 => Known(c, d, h)
            BY <4>1 DEF Known
      <4>3. h > 0 => h <= k - 1
            BY <4>2, <1>18
      <4>4. k > h
            BY <4>3, <1>4
      <4> QED
            BY <3>2, <4>1, <4>4, <1>1
    <3> QED
          BY <2>1, <3>1, <3>2, <1>5, <1>12
  <2>2. ASSUME NEW m \in Nat, NEW n \in Nat, NEW i \in Nat,
               Known(c, d, m)', Known(c, d, n)', m <= i, i <= n
        PROVE  Known(c, d, i)'
    <3>1. (Known(c, d, m) \/ m = k) /\ (Known(c, d, n) \/ n = k)
          BY <2>2, <1>5, <1>13
    <3>2. CASE i = k
          BY <3>2, <1>5, <1>13
    <3>3. CASE i # k
      <4>1. n = k \/ n <= k - 1
            BY <3>1, <1>18
      <4>2. i <= k - 1
            BY <4>1, <3>3, <2>2
      <4>3. m # k
            BY <4>2, <2>2
      <4>4. Known(c, d, m) /\ Known(c, d, k - 1) /\ k - 1 \in Nat
            BY <4>3, <3>1, <1>4, <1>18
      <4>5. Known(c, d, i)
            BY <4>2, <4>4, <2>2, <1>17 DEF NoGap
      <4> QED
            BY <4>5, <1>5, <1>13
    <3> QED
          BY <3>2, <3>3
  <2>3. ASSUME NEW n \in Nat, Known(c, d, n)' PROVE n <= LastSent(c, d)'
    <3>1. Known(c, d, n) \/ n = k
          BY <2>3, <1>5, <1>13
    <3>2. n <= k
          BY <3>1, <1>18
    <3> QED
          BY <3>2, <1>15
  <2> QED
        BY <2>1, <2>2, <2>3 DEF NoGap
<1>20. UpToNow(c, d)'
  <2>1. Known(c, d, k)'
        BY <1>5, <1>13
  <2>2. Known(c, d, LastSent(c, d))'
    <3>1. PICK x : x = LastSent(c, d)' /\ x = k
          BY <1>15
    <3> QED
          BY <2>1, <3>1
  <2> QED
        BY <2>2 DEF UpToNow
<1>21. ASSUME NEW x \in Clients, x # d PROVE NoGap(c, x)' /\ UpToNow(c, x)'
  <2>1. NoGap(c, x) /\ UpToNow(c, x)
        BY <1>2 DEF ShownTo
  <2>2. PICK z \in Int : z = LastSent(c, x) /\ z = LastSent(c, x)'
        BY <1>2, <1>16, <1>21, LastSentInt
  <2>3. \A n \in Nat : /\ Known(c, x, n)' <=> Known(c, x, n)
                       /\ Coming(c, x, n)' <=> Coming(c, x, n)
        BY <1>12, <1>13, <1>21
  <2>4. NoGap(c, x)'
        BY <1>1, <2>1, <2>2, <2>3 DEF NoGap
  <2>5. ASSUME srv' # "killed", x \in list', NEW n \in Nat, Known(c, x, n)'
        PROVE  Known(c, x, z)'
    <3>1. Known(c, x, n)
          BY <2>3, <2>5
    <3>2. Known(c, x, z)
          BY <3>1, <2>5, <1>1, <2>1, <2>2 DEF UpToNow
    <3>3. n > 0 /\ n <= z
          BY <3>1, <1>2, <2>1, <2>2, KnownAbove DEF NoGap
    <3>4. z \in Nat
          BY <3>3
    <3> QED
          BY <3>2, <3>4, <2>3
  <2>6. UpToNow(c, x)'
        BY <2>2, <2>5 DEF UpToNow
  <2> QED
        BY <2>4, <2>6
<1>22. Ascends(c)'
  <2> SUFFICES ASSUME NEW i \in 1 .. l + 1, NEW j \in 1 .. l + 1, i < j,
                      t[i][1] = t[j][1]
               PROVE  t[i][2] < t[j][2]
      BY <1>10, <1>11 DEF Ascends
  <2>1. i \in 1 .. l /\ t[i] = s[i] /\ s[i] \in Unit
    <3>1. i \in 1 .. l
          OBVIOUS
    <3> QED
          BY <3>1, <1>9, <1>10, ElementOfSeq
  <2>2. CASE j = l + 1
    <3>1. PICK x \in Clients, n \in Nat : s[i] = <<x, n>>
          BY <2>1 DEF Unit
    <3>2. t[j][1] = d /\ t[j][2] = k
          BY <2>2, <1>7, <1>10
    <3>3. x = d
          BY <2>1, <3>1, <3>2
    <3>4. Known(c, d, n)
          BY <2>1, <3>1, <3>3, <1>6, <1>9 DEF Known, Coming
    <3>5. n <= k - 1
          BY <3>4, <1>18
    <3>6. n < k
          BY <3>5
    <3> QED
          BY <2>1, <3>1, <3>2, <3>6
  <2>3. CASE j # l + 1
    <3>1. j \in 1 .. l /\ t[j] = s[j]
          BY <2>3, <1>10
    <3> QED
          BY <3>1, <2>1, <1>2, <1>6, <1>9 DEF ShownTo, Ascends
  <2> QED
        BY <2>2, <2>3
<1>23. NotOwn(c)'
      BY <1>2, <1>5, <1>13 DEF ShownTo, NotOwn
<1>24. Shown'
  <2> SUFFICES ASSUME NEW x \in Clients, at'[x] # "ended" PROVE ShownTo(x)'
      BY DEF Shown
  <2>1. CASE x = c
        BY <2>1, <1>19, <1>20, <1>21, <1>22, <1>23 DEF ShownTo
  <2>2. CASE x # c
    <3>1. ShownTo(x) /\ SameKnown(x)
          BY <2>2, <1>1, <1>14 DEF HInv, Shown
    <3> QED
          BY <2>2, <3>1, <1>1, <1>2, <1>16, ShownSame
  <2> QED
        BY <2>1, <2>2
<1>25. \A x : Taken(x)' = Taken(x)
      BY <1>1 DEF Taken
<1>26. GoingUp' /\ InTheServer'
      BY <1>1, <1>25 DEF HInv, GoingUp, InTheServer
<1>27. Unaccepted'
  <2> SUFFICES ASSUME srv' # "killed", NEW y \in Clients \ list'
               PROVE  /\ at'[y] # "ended" \/ y \in pending' => Taken(y)' = 0
                      /\ at'[y] # "ended" => \A x \in Clients, m \in Nat : ~Known(y, x, m)'
      BY DEF Unaccepted
  <2>1. /\ at[y] # "ended" \/ y \in pending => Taken(y) = 0
        /\ at[y] # "ended" => \A x \in Clients, m \in Nat : ~Known(y, x, m)
        BY <1>1 DEF HInv, Unaccepted
  <2>2. y # c
        BY <1>1, <1>2 DEF RoomTypes
  <2> QED
        BY <2>1, <2>2, <1>1, <1>14, <1>25, KnownSame
<1> QED
      BY <1>24, <1>26, <1>27 DEF HInv

-----------------------------------------------------------------------------
(* All steps                                                               *)

LEMMA Stays ==
    ASSUME HInv, RoomTypes', UNCHANGED <<up, said, unit>>, UNCHANGED serverVars,
           \A c \in pending' : at[c] # "ended" \/ c \in pending,
           \A c \in Clients : at'[c] # "ended" => at[c] # "ended" /\ SameKnown(c)
    PROVE  HInv'
<1>1. UNCHANGED <<list, todo, srv>>
      BY DEF serverVars
<1>2. \A c \in pending' \ list' : at[c] # "ended" \/ c \in pending
      BY <1>1
<1>3. \A c \in Clients : at'[c] # "ended" =>
          at[c] # "ended" /\ SameKnown(c) /\ (c \in todo' <=> c \in todo)
      BY <1>1
<1>4. /\ list \subseteq list' /\ list' \ list \subseteq pending /\ todo' \subseteq todo
      /\ srv' = "sending" => srv = "sending"
      /\ srv' # "killed" => srv # "killed"
      BY <1>1
<1> QED
      BY <1>2, <1>3, <1>4, Quiet

LEMMA HangsUp ==
    ASSUME HInv, RoomTypes', InputTypeOK, NEW c \in Clients, Hangup(c)
    PROVE  HInv'
<1>1. /\ at' = [at EXCEPT ![c] = "ended"] /\ down' = [down EXCEPT ![c] = <<>>]
      /\ UNCHANGED <<said, heard, up, pending, serverVars>>
      BY DEF Hangup, Set
<1>2. \A d \in Clients : at'[d] # "ended" => at[d] # "ended" /\ SameKnown(d)
      BY <1>1 DEF InputTypeOK, HInv, RoomTypes, SameKnown
<1> QED
      BY <1>1, <1>2, Stays DEF serverVars

LEMMA ClientHInv ==
    ASSUME HInv, RoomTypes', InputTypeOK, NEW c \in Clients, ClientNext(c)
    PROVE  HInv'
<1>1. ASSUME UNCHANGED <<said, heard, up, down, serverVars>>,
             pending' \subseteq pending \cup {c},
             \/ at' = at /\ pending' = pending
             \/ at[c] # "ended" /\ \E to : at' = Set(at, c, to)
      PROVE  HInv'
  <2>1. \A d \in Clients : at'[d] # "ended" => at[d] # "ended"
    <3>1. CASE at' = at
          BY <3>1
    <3>2. CASE at[c] # "ended" /\ \E to : at' = Set(at, c, to)
          BY <3>2 DEF InputTypeOK, Set
    <3> QED
          BY <1>1, <3>1, <3>2
  <2>2. \A d : SameKnown(d)
        BY <1>1 DEF SameKnown
  <2>3. \A d \in pending' : at[d] # "ended" \/ d \in pending
        BY <1>1
  <2> QED
        BY <1>1, <2>1, <2>2, <2>3, Stays DEF serverVars
<1>2. CASE Type(c) \/ InputEnds(c)
      BY <1>1, <1>2 DEF Type, InputEnds, net
<1>3. CASE ReadName(c) \/ Select(c) \/ FgetsNull(c) \/ ScanDone(c)
      BY <1>1, <1>3 DEF ReadName, Select, FgetsNull, ScanDone, net
<1>8. CASE Connect(c)
      BY <1>1, <1>8 DEF Connect
<1>4. CASE ScanStdin(c)
  <2>1. CASE Hangup(c)
        BY <2>1, HangsUp
  <2>2. CASE at' = Set(at, c, "sending") /\ UNCHANGED <<said, heard, net, serverVars>>
        BY <1>1, <1>4, <2>2 DEF ScanStdin, net
  <2> QED
        BY <1>4, <2>1, <2>2 DEF ScanStdin
<1>5. CASE RecvEnds(c)
      BY <1>5, HangsUp DEF RecvEnds
<1>6. CASE Send(c)
  <2>1. CASE Hangup(c)
        BY <2>1, HangsUp
  <2>2. CASE /\ up' = Set(up, c, Append(up[c], <<c, said[c] + 1>>))
             /\ said' = Set(said, c, said[c] + 1) /\ at' = Set(at, c, "scan")
             /\ UNCHANGED <<see, heard, down, broken, pending, serverVars>>
        BY <1>6, <2>2, Says DEF Send
  <2>3. CASE at' = Set(at, c, "scan") /\ UNCHANGED <<said, heard, net, serverVars>>
        BY <1>1, <1>6, <2>3 DEF Send, net
  <2> QED
        BY <1>6, <2>1, <2>2, <2>3 DEF Send
<1>7. CASE ScanSocket(c)
      BY <1>7, Shows
<1> QED
      BY <1>2, <1>3, <1>4, <1>5, <1>6, <1>7, <1>8 DEF ClientNext, ClientRuns

LEMMA ServerHInv ==
    ASSUME HInv, RoomTypes', ServerNext
    PROVE  HInv'
<1>0. /\ list \subseteq Clients /\ pending \subseteq Clients \ list /\ todo \subseteq list
      /\ todo # {} => srv = "sending"
      BY DEF HInv, RoomTypes
<1>1. /\ UNCHANGED <<at, said, heard>>
      BY DEF ServerNext, ServerSelect, ServerScanDone, AllSent, Accept, AcceptFails, Recv,
         RecvHangup, SendTo, SendToGone, Sigpipe, clientVars
<1>2. ASSUME UNCHANGED <<up, down, unit>>,
             \A c \in Clients : at[c] # "ended" => (c \in todo' <=> c \in todo),
             \A c \in pending' \ list' : at[c] # "ended" \/ c \in pending,
             list \subseteq list', list' \ list \subseteq pending, todo' \subseteq todo,
             srv' = "sending" => srv = "sending", srv' # "killed" => srv # "killed"
      PROVE  HInv'
  <2>1. \A c : SameKnown(c)
        BY <1>1, <1>2 DEF SameKnown
  <2>2. \A c \in Clients : at'[c] # "ended" =>
            at[c] # "ended" /\ SameKnown(c) /\ (c \in todo' <=> c \in todo)
        BY <1>1, <1>2, <2>1
  <2> QED
        BY <1>1, <1>2, <2>2, Quiet
<1>3. CASE ServerSelect \/ ServerScanDone \/ AllSent \/ AcceptFails
  <2>1. /\ srv \in {"select", "scan", "sending"} /\ srv' \in {"select", "scan"}
        /\ UNCHANGED <<up, down, pending, list, unit, todo>>
        BY <1>3 DEF ServerSelect, ServerScanDone, AllSent, AcceptFails, net
  <2> QED
        BY <1>2, <2>1
<1>5. ASSUME NEW c \in Clients, Accept(c) PROVE HInv'
  <2>1. /\ c \in pending /\ list' = list \cup {c} /\ pending' = pending \ {c}
        /\ UNCHANGED <<up, down, srv, unit, todo>>
        BY <1>5 DEF Accept
  <2>2. /\ \A d \in pending' \ list' : d \in pending
        /\ list' \ list \subseteq pending
        BY <2>1
  <2> QED
        BY <1>2, <2>1, <2>2
<1>6. ASSUME NEW c \in Clients, Recv(c) PROVE HInv'
      BY <1>6, Receives
<1>7. ASSUME NEW c \in Clients, RecvHangup(c) PROVE HInv'
  <2>1. /\ srv = "scan" /\ c \in ready \cap list /\ at[c] = "ended"
        /\ list' = list \ {c} /\ up' = Set(up, c, <<>>)
        /\ UNCHANGED <<down, pending, srv, unit, todo>>
        BY <1>7 DEF RecvHangup
  <2>2. PICK X \in SUBSET Clients : X = {c}
        OBVIOUS
  <2>3. up' = [d \in Clients |-> IF d \in X THEN <<>> ELSE up[d]]
        BY <2>1, <2>2 DEF HInv, RoomTypes, Set
  <2>4. /\ todo = {} /\ todo' = {} /\ srv' = "scan" /\ srv' # "sending" /\ srv' # "killed"
        /\ list' = list \ X /\ list' \subseteq list \ X /\ pending' \subseteq pending \ X
        /\ srv # "killed" /\ \A d \in X : at[d] = "ended"
        BY <1>0, <2>1, <2>2
  <2> QED
        BY <1>1, <2>1, <2>3, <2>4, Discards
<1>8. ASSUME NEW c \in Clients, SendTo(c) PROVE HInv'
      BY <1>8, Forwards
<1>9. ASSUME NEW c \in Clients, SendToGone(c) PROVE HInv'
  <2>1. /\ srv = "sending" /\ at[c] = "ended" /\ todo' = todo \ {c}
        /\ UNCHANGED <<up, down, pending, srv, list, unit>>
        BY <1>9 DEF SendToGone
  <2> QED
        BY <1>2, <2>1
<1>10. ASSUME NEW c \in Clients, Sigpipe(c) PROVE HInv'
  <2>1. /\ srv' = "killed" /\ list' = {} /\ pending' = {} /\ todo' = {}
        /\ up' = [d \in Clients |-> <<>>] /\ UNCHANGED <<down, unit>>
        BY <1>10 DEF Sigpipe
  <2>2. PICK X \in SUBSET Clients : X = Clients
        OBVIOUS
  <2>3. up' = [d \in Clients |-> IF d \in X THEN <<>> ELSE up[d]]
        BY <2>1, <2>2
  <2>4. list' \subseteq list \ X /\ pending' \subseteq pending \ X
        BY <2>1
  <2> QED
        BY <1>1, <2>1, <2>3, <2>4, Discards
<1> QED
      BY <1>3, <1>5, <1>6, <1>7, <1>8, <1>9, <1>10 DEF ServerNext

LEMMA StepHInv == TInv /\ TInv' /\ HInv /\ [Next]_vars => HInv'
<1> SUFFICES ASSUME TInv, TInv', HInv, [Next]_vars PROVE HInv'
    OBVIOUS
<1>1. InputTypeOK /\ RoomTypes'
      BY DEF TInv, NInv, RInv
<1>2. CASE UNCHANGED vars
  <2>1. /\ UNCHANGED <<up, said, unit>> /\ UNCHANGED serverVars
        /\ UNCHANGED <<at, down, heard, pending>>
        BY <1>2 DEF vars, net, clientVars, serverVars
  <2> QED
        BY <1>1, <2>1, Stays DEF SameKnown
<1> QED
      BY <1>1, <1>2, ClientHInv, ServerHInv DEF Next

LEMMA InitHInv == Init /\ RoomTypes => HInv
<1> SUFFICES ASSUME Init, RoomTypes PROVE HInv
    OBVIOUS
<1>1. /\ \A c \in Clients : /\ Len(up[c]) = 0 /\ Len(down[c]) = 0 /\ said[c] = 0
                            /\ \A d \in Clients : heard[c][d] = 0
      /\ srv = "select" /\ list = {} /\ todo = {}
      BY EmptySeq DEF Init
<1>2. ASSUME NEW c \in Clients PROVE Taken(c) = 0
  <2>1. said[c] = 0 /\ Len(up[c]) = 0
        BY <1>1
  <2>2. Taken(c) = 0 - 0
        BY <2>1 DEF Taken
  <2> QED
        BY <2>2
<1>3. \A c, d \in Clients, n \in Nat : ~Coming(c, d, n) /\ ~Known(c, d, n)
      BY <1>1 DEF Known, Coming
<1>4. GoingUp /\ InTheServer
      BY <1>1, <1>2 DEF GoingUp, InTheServer
<1>5. Unaccepted
      BY <1>2, <1>3 DEF Unaccepted
<1>6. Shown
      BY <1>1, <1>3 DEF Shown, ShownTo, Ascends, NotOwn, NoGap, UpToNow
<1> QED
      BY <1>4, <1>5, <1>6 DEF HInv

LEMMA HInvImpliesHeard == HInv => HeardInOrder
<1> SUFFICES ASSUME HInv, NEW c \in Clients, NEW d \in Clients, Alive(c)
    PROVE /\ \A i, j \in 1 .. Len(down[c]) :
                i < j /\ down[c][i][1] = d /\ down[c][j][1] = d
                    => down[c][i][2] < down[c][j][2]
          /\ \A n \in 1 .. MaxLines : Coming(c, d, n) => n > heard[c][d]
          /\ \A m, n \in 1 .. MaxLines : Known(c, d, m) /\ Known(c, d, n) =>
                \A k \in m .. n : Known(c, d, k)
          /\ Alive(d) /\ srv # "killed" =>
                \A n \in 1 .. MaxLines : Known(c, d, n) =>
                    n <= LastSent(c, d) /\ Known(c, d, LastSent(c, d))
    BY DEF HeardInOrder
<1>0. \A m, n \in 1 .. MaxLines : \A k \in m .. n : k \in Nat
      BY ConstantsAssumption DEF ConstantsAssumption
<1>1. \A n \in 1 .. MaxLines : n \in Nat
      BY ConstantsAssumption DEF ConstantsAssumption
<1>2. RoomTypes /\ Ascends(c) /\ NoGap(c, d) /\ UpToNow(c, d)
      BY DEF HInv, Shown, ShownTo, Alive
<1>3. \A i, j \in 1 .. Len(down[c]) :
          i < j /\ down[c][i][1] = d /\ down[c][j][1] = d => down[c][i][2] < down[c][j][2]
      BY <1>2 DEF Ascends
<1>4. \A n \in 1 .. MaxLines : Coming(c, d, n) => n > heard[c][d]
      BY <1>1, <1>2 DEF NoGap
<1>5. ASSUME NEW m \in 1 .. MaxLines, NEW n \in 1 .. MaxLines,
             Known(c, d, m), Known(c, d, n), NEW k \in m .. n
      PROVE  Known(c, d, k)
  <2>1. m \in Nat /\ n \in Nat /\ k \in Nat /\ m <= k /\ k <= n
        BY <1>1, <1>0
  <2> QED
        BY <1>2, <1>5, <2>1 DEF NoGap
<1>6. ASSUME Alive(d), srv # "killed", NEW n \in 1 .. MaxLines, Known(c, d, n)
      PROVE  n <= LastSent(c, d) /\ Known(c, d, LastSent(c, d))
  <2>1. n \in Nat /\ n <= LastSent(c, d)
        BY <1>1, <1>2, <1>6 DEF NoGap
  <2>2. CASE d \in list
        BY <1>2, <1>6, <2>1, <2>2 DEF UpToNow
  <2>3. CASE d \notin list
    <3>1. Taken(d) = 0
          BY <1>6, <2>3 DEF HInv, Unaccepted, Alive
    <3>2. InServer(c, d) \in {0, 1} /\ LastSent(c, d) = Taken(d) - InServer(c, d)
          BY DEF InServer, LastSent, Taken
    <3>3. LastSent(c, d) <= 0
          BY <3>1, <3>2
    <3>4. ~Known(c, d, n)
          BY <1>2, <2>1, <3>3, NothingKnown
    <3> QED
          BY <1>6, <3>4
  <2> QED
        BY <2>1, <2>2, <2>3
<1> QED
      BY <1>3, <1>4, <1>5, <1>6

\* A client is shown another's lines in order, and none is left out between
\* the first that it is sent and the last that the server received.
THEOREM HeardSafe == Spec => []HeardInOrder
<1>1. Init => TInv /\ HInv
      BY InitTInv, InitHInv DEF TInv, RInv
<1>2. (TInv /\ HInv) /\ [Next]_vars => (TInv /\ HInv)'
      BY StepTInv, StepHInv
<1>3. TInv /\ HInv => HeardInOrder
      BY HInvImpliesHeard
<1> QED
      BY <1>1, <1>2, <1>3, PTL DEF Spec
=============================================================================
