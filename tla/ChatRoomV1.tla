----------------------------- MODULE ChatRoomV1 -----------------------------
(***************************************************************************)
(* The first chat room: its server, whose send() blocks, with the clients  *)
(* as they are.  A client waits in select() for stdin and its socket but   *)
(* reads stdin with fgets(), which may take more from the kernel than the  *)
(* line it returns.  The loop of the second client is the same.            *)
(*                                                                         *)
(* A line is what one fgets() returns, and one unit on the way: it is sent *)
(* with one send(), and cutting and joining play no role here (see         *)
(* ChatServer).  It may begin with a zero byte, for which strlen() is 0.   *)
(***************************************************************************)
EXTENDS Integers, Sequences

CONSTANTS
    Clients,
    MaxLines,    \* bound: lines that each user types, the nickname included
    NulNames,    \* the clients whose user begins the nickname with a zero byte
    BufLen       \* units that a socket's buffer holds, each way

ASSUME ConstantsAssumption == MaxLines \in Nat \ {0} /\ BufLen \in Nat \ {0}

VARIABLES
    at,          \* at[c]: where client c is
    see,         \* see[c]: what its select() reported, not yet looked at
    typed,       \* typed[c]: lines that wait in the kernel
    stdio,       \* stdio[c]: lines that wait in the buffer of stdin
    lines,       \* lines[c]: lines typed in all
    eof,         \* eof[c]: nothing more will be typed
    name,        \* name[c]: "none" until a nickname is read, then "text", or
                 \* "nul" if it begins with a zero byte
    said,        \* said[c]: lines sent
    heard,       \* heard[c][d]: the last line of d that c showed
    up, down,    \* units on their way to the server, and to the client
    broken,      \* broken[c]: the connection was reset by the client's side
    pending,     \* the connections that wait for accept()
    srv,         \* "select", "scan", "sending", or "killed"
    list,        \* the connections in its fd_set
    ready,       \* what its select() reported, not yet looked at
    unit,        \* the unit that is broadcast
    todo         \* to whom it is still to be sent

input == <<typed, stdio, lines, eof, name>>
clientVars == <<at, see, input, said, heard>>
serverVars == <<srv, list, ready, unit, todo>>
net == <<up, down, broken, pending>>
vars == <<clientVars, net, serverVars>>

Init ==
    /\ at = [c \in Clients |-> "off"] /\ see = [c \in Clients |-> {}]
    /\ typed = [c \in Clients |-> 0] /\ stdio = [c \in Clients |-> 0]
    /\ lines = [c \in Clients |-> 0] /\ eof = [c \in Clients |-> FALSE]
    /\ name = [c \in Clients |-> "none"] /\ said = [c \in Clients |-> 0]
    /\ heard = [c \in Clients |-> [d \in Clients |-> 0]]
    /\ up = [c \in Clients |-> <<>>] /\ down = [c \in Clients |-> <<>>]
    /\ broken = [c \in Clients |-> FALSE] /\ pending = {}
    /\ srv = "select" /\ list = {} /\ ready = {} /\ unit = <<>> /\ todo = {}

Set(f, c, v) == [f EXCEPT ![c] = v]

-----------------------------------------------------------------------------
(* The user                                                                *)

Type(c) ==
    /\ at[c] \notin {"off", "ended"} /\ ~eof[c] /\ lines[c] < MaxLines
    /\ typed' = Set(typed, c, typed[c] + 1) /\ lines' = Set(lines, c, lines[c] + 1)
    /\ UNCHANGED <<at, see, stdio, eof, name, said, heard, net, serverVars>>

InputEnds(c) ==
    /\ at[c] \notin {"off", "ended"} /\ ~eof[c]
    /\ eof' = Set(eof, c, TRUE)
    /\ UNCHANGED <<at, see, typed, stdio, lines, name, said, heard, net, serverVars>>

-----------------------------------------------------------------------------
(* The client                                                              *)

Alive(c) == at[c] \notin {"off", "ended"}

\* connect() ends when the server's kernel has the connection.
Connect(c) ==
    /\ at[c] = "off" /\ srv # "killed"
    /\ at' = Set(at, c, "name") /\ pending' = pending \cup {c}
    /\ UNCHANGED <<see, input, said, heard, up, down, broken, serverVars>>

\* fgets(): from the buffer, or from the kernel, of which it may take more
\* than a line.
HasLine_NotAtEof(c) == ~eof[c] /\ stdio[c] + typed[c] > 0
HasLine(c) == stdio[c] + typed[c] > 0
TakeLine(c) ==
    \/ stdio[c] > 0
       /\ stdio' = Set(stdio, c, stdio[c] - 1) /\ UNCHANGED typed
    \/ stdio[c] = 0
       /\ \E k \in 1 .. typed[c] :
             typed' = Set(typed, c, typed[c] - k) /\ stdio' = Set(stdio, c, k - 1)

\* Without a line the name stays empty; a line may make it so, too.
ReadName_Later(c) ==
    /\ at[c] = "name"
    /\ at' = Set(at, c, "select")
    /\ UNCHANGED <<see, input, said, heard, net, serverVars>>
ReadName(c) ==
    /\ at[c] = "name"
    /\ \/ HasLine(c) /\ TakeLine(c)
          /\ name' = Set(name, c, IF c \in NulNames THEN "nul" ELSE "text")
       \/ ~HasLine(c) /\ eof[c] /\ UNCHANGED <<typed, stdio, name>>
    /\ at' = Set(at, c, "select")
    /\ UNCHANGED <<see, lines, eof, said, heard, net, serverVars>>

Reported(c) ==
    (IF typed[c] > 0 \/ eof[c] THEN {"stdin"} ELSE {})
        \cup (IF down[c] # <<>> \/ srv = "killed" THEN {"socket"} ELSE {})
Select(c) ==
    /\ at[c] = "select" /\ Reported(c) # {}
    /\ see' = Set(see, c, Reported(c)) /\ at' = Set(at, c, "scan")
    /\ UNCHANGED <<input, said, heard, net, serverVars>>

\* close(), or exit(): what was not read makes it a reset.
Hangup(c) ==
    /\ at' = Set(at, c, "ended") /\ see' = Set(see, c, {})
    /\ broken' = Set(broken, c, down[c] # <<>>) /\ down' = Set(down, c, <<>>)
    /\ UNCHANGED <<said, heard, up, pending, serverVars>>

\* stdin comes first.  "/quit" ends; any other line is sent, with the name
\* before it and ':' in place of the name's last byte.  With an empty name
\* that is message[-1]: nothing that the loop reads again, it is taken here.
ScanStdin(c) ==
    /\ at[c] = "scan" /\ "stdin" \in see[c] /\ HasLine(c)
    /\ TakeLine(c) /\ UNCHANGED <<lines, eof, name>>
    /\ \/ Hangup(c)
       \/ at' = Set(at, c, "sending") /\ see' = Set(see, c, see[c] \ {"stdin"})
          /\ UNCHANGED <<said, heard, net, serverVars>>

\* fgets() returns NULL: break leaves the scan, not the program.
FgetsNull(c) ==
    /\ at[c] = "scan" /\ "stdin" \in see[c] /\ ~HasLine(c)
    /\ at' = Set(at, c, "select") /\ see' = Set(see, c, {})
    /\ UNCHANGED <<input, said, heard, net, serverVars>>

\* An empty name and a line that begins with a zero byte make an empty
\* message, of which send() sends nothing.
Send(c) ==
    /\ at[c] = "sending"
    /\ \/ srv # "killed" /\ Len(up[c]) < BufLen
          /\ up' = Set(up, c, Append(up[c], <<c, said[c] + 1>>))
          /\ said' = Set(said, c, said[c] + 1)
          /\ at' = Set(at, c, "scan")
          /\ UNCHANGED <<see, heard, down, broken, pending, serverVars>>
       \/ name[c] = "nul" /\ at' = Set(at, c, "scan")
          /\ UNCHANGED <<see, said, heard, net, serverVars>>
       \/ srv = "killed" /\ Hangup(c)
    /\ UNCHANGED input

ScanSocket_BelowMax(c) == FALSE
ScanSocket(c) ==
    /\ at[c] = "scan" /\ "stdin" \notin see[c] /\ "socket" \in see[c]
    /\ down[c] # <<>>
    /\ LET u == Head(down[c]) IN heard' = [heard EXCEPT ![c][u[1]] = u[2]]
    /\ down' = Set(down, c, Tail(down[c]))
    /\ see' = Set(see, c, {})
    /\ UNCHANGED <<at, input, said, up, broken, pending, serverVars>>

\* recv() returns 0 or -1.
RecvEnds(c) ==
    /\ at[c] = "scan" /\ "stdin" \notin see[c] /\ "socket" \in see[c]
    /\ srv = "killed" /\ down[c] = <<>>
    /\ Hangup(c) /\ UNCHANGED input

ScanDone(c) ==
    /\ at[c] = "scan" /\ see[c] = {}
    /\ at' = Set(at, c, "select")
    /\ UNCHANGED <<see, input, said, heard, net, serverVars>>

ClientRuns(c) ==
    \/ ReadName(c) \/ Select(c) \/ ScanStdin(c) \/ FgetsNull(c) \/ Send(c)
    \/ ScanSocket(c) \/ RecvEnds(c) \/ ScanDone(c)
ClientNext(c) == Type(c) \/ InputEnds(c) \/ Connect(c) \/ ClientRuns(c)

-----------------------------------------------------------------------------
(* The server                                                              *)

\* A connection waits for accept() also when its client has closed it since.
Waiting(c) == IF c \in list THEN up[c] # <<>> \/ at[c] = "ended" ELSE c \in pending

ServerSelect ==
    /\ srv = "select" /\ \E c \in Clients : Waiting(c)
    /\ ready' = {c \in Clients : Waiting(c)} /\ srv' = "scan"
    /\ UNCHANGED <<clientVars, net, list, unit, todo>>

\* One accept() in a scan.  It fails for want of descriptors or memory; the
\* connection waits on, as none here is reset before it is accepted.
Accept(c) ==
    /\ srv = "scan" /\ c \in ready \cap pending
    /\ list' = list \cup {c} /\ pending' = pending \ {c}
    /\ ready' = ready \ pending
    /\ UNCHANGED <<clientVars, up, down, broken, srv, unit, todo>>

AcceptFails ==
    /\ srv = "scan" /\ ready \cap pending # {}
    /\ ready' = ready \ pending
    /\ UNCHANGED <<clientVars, net, srv, list, unit, todo>>

\* One recv(), and a send() to every other connection in the list.
Recv_AllDescriptors(c) ==
    /\ srv = "scan" /\ c \in ready \cap list /\ up[c] # <<>>
    /\ unit' = Head(up[c]) /\ up' = Set(up, c, Tail(up[c]))
    /\ todo' = Clients \ {c} /\ srv' = "sending" /\ ready' = ready \ {c}
    /\ UNCHANGED <<clientVars, down, broken, pending, list>>
Recv(c) ==
    /\ srv = "scan" /\ c \in ready \cap list /\ up[c] # <<>>
    /\ unit' = Head(up[c]) /\ up' = Set(up, c, Tail(up[c]))
    /\ todo' = list \ {c} /\ srv' = "sending" /\ ready' = ready \ {c}
    /\ UNCHANGED <<clientVars, down, broken, pending, list>>

\* 0, or -1: the error of a reset may come before what was received.
RecvHangup(c) ==
    /\ srv = "scan" /\ c \in ready \cap list /\ at[c] = "ended"
    /\ up[c] = <<>> \/ broken[c]
    /\ list' = list \ {c} /\ ready' = ready \ {c}
    /\ up' = Set(up, c, <<>>)
    /\ UNCHANGED <<clientVars, down, broken, pending, srv, unit, todo>>

ServerScanDone ==
    /\ srv = "scan" /\ ready = {}
    /\ srv' = "select"
    /\ UNCHANGED <<clientVars, net, list, ready, unit, todo>>

\* send() waits until there is room.
SendTo_DontWait(d) ==
    /\ srv = "sending" /\ d \in todo /\ at[d] # "ended"
    /\ down' = IF Len(down[d]) < BufLen THEN Set(down, d, Append(down[d], unit)) ELSE down
    /\ todo' = todo \ {d}
    /\ UNCHANGED <<clientVars, up, broken, pending, srv, list, ready, unit>>
SendTo(d) ==
    /\ srv = "sending" /\ d \in todo /\ at[d] # "ended" /\ Len(down[d]) < BufLen
    /\ down' = Set(down, d, Append(down[d], unit))
    /\ todo' = todo \ {d}
    /\ UNCHANGED <<clientVars, up, broken, pending, srv, list, ready, unit>>

\* The first unit for a client that has closed is answered with a reset;
\* after that send() fails, which is printed, or raises SIGPIPE.
SendToGone_Waits(d) == FALSE
SendToGone(d) ==
    /\ srv = "sending" /\ d \in todo /\ at[d] = "ended"
    /\ broken' = Set(broken, d, TRUE) /\ todo' = todo \ {d}
    /\ UNCHANGED <<clientVars, up, down, pending, srv, list, ready, unit>>
Sigpipe(d) ==
    /\ srv = "sending" /\ d \in todo /\ at[d] = "ended" /\ broken[d]
    /\ srv' = "killed" /\ list' = {} /\ ready' = {} /\ todo' = {}
    /\ up' = [c \in Clients |-> <<>>] /\ pending' = {}
    /\ UNCHANGED <<clientVars, down, broken, unit>>

AllSent ==
    /\ srv = "sending" /\ todo = {}
    /\ srv' = "scan"
    /\ UNCHANGED <<clientVars, net, list, ready, unit, todo>>

ServerNext ==
    \/ ServerSelect \/ ServerScanDone \/ AllSent \/ AcceptFails
    \/ \E c \in Clients : Accept(c) \/ Recv(c) \/ RecvHangup(c) \/ SendTo(c)
                             \/ SendToGone(c) \/ Sigpipe(c)

Next == ServerNext \/ \E c \in Clients : ClientNext(c)
Spec == Init /\ [][Next]_vars

\* The programs run; nobody has to type.
FairSpec == Spec /\ WF_vars(ServerNext) /\ \A c \in Clients : WF_vars(ClientRuns(c))

-----------------------------------------------------------------------------
\* Every variable has its type, no buffer holds more than it can, a connection
\* is accepted once, and the server sends only to connections of its list.
TypeOK ==
    /\ at \in [Clients -> {"off", "name", "select", "scan", "sending", "ended"}]
    /\ see \in [Clients -> SUBSET {"stdin", "socket"}]
    /\ \A c \in Clients : {typed[c], stdio[c], lines[c], said[c]} \subseteq 0 .. MaxLines
    /\ eof \in [Clients -> BOOLEAN] /\ name \in [Clients -> {"none", "nul", "text"}]
    /\ pending \subseteq Clients \ list
    /\ broken \in [Clients -> BOOLEAN]
    /\ srv \in {"select", "scan", "sending", "killed"}
    /\ list \subseteq Clients /\ ready \subseteq Clients /\ todo \subseteq list
    /\ \A c \in Clients : Len(up[c]) <= BufLen /\ Len(down[c]) <= BufLen

\* strlen(nickName) is 0, so that ':' is written to message[-1].
BeforeMessage(c) == at[c] = "sending" /\ name[c] # "text"

\* Only a nickname that begins with a zero byte makes the client write before
\* message[]: where stdin ended at the prompt, fgets() returns no line later.
NameInLine == \A c \in Clients : BeforeMessage(c) => c \in NulNames

\* A client shows the lines of another in order and, from the first that it
\* is sent, all of them: each that d has said since is shown, on its way to
\* the client, still to be sent to it, or on its way to the server.
Coming(c, d, n) == \E i \in 1 .. Len(down[c]) : down[c][i] = <<d, n>>
Known(c, d, n) == Coming(c, d, n) \/ (n > 0 /\ n = heard[c][d])
InServer(c, d) == IF c \in todo /\ unit[1] = d THEN 1 ELSE 0
LastSent(c, d) == said[d] - Len(up[d]) - InServer(c, d)
HeardInOrder ==
    \A c, d \in Clients : Alive(c) =>
        /\ \A i, j \in 1 .. Len(down[c]) :
              i < j /\ down[c][i][1] = d /\ down[c][j][1] = d => down[c][i][2] < down[c][j][2]
        /\ \A n \in 1 .. MaxLines : Coming(c, d, n) => n > heard[c][d]
        /\ \A m, n \in 1 .. MaxLines : Known(c, d, m) /\ Known(c, d, n) =>
              \A k \in m .. n : Known(c, d, k)
        /\ Alive(d) /\ srv # "killed" =>
              \A n \in 1 .. MaxLines : Known(c, d, n) =>
                  n <= LastSent(c, d) /\ Known(c, d, LastSent(c, d))

\* A client that does not read: its user has not given a name, it is in a
\* send() that waits, or stdin has ended, which select() reports for ever.
NotReading(c) == at[c] \in {"name", "sending"} \/ eof[c]

\* The server stays in send() only for a recipient that does not read.
HeldByClient == <>[](srv = "sending") => <>[](\E c \in todo : NotReading(c))

\* A client reads what the server sends, and ends when the server is gone,
\* until its own input holds it.
SocketRead == \A c \in Clients :
    <>[]((down[c] # <<>> \/ srv = "killed") /\ Alive(c)) => <>[](NotReading(c))

\* Lines stay unsent only in a client that cannot send, or in the buffer of
\* stdin while the kernel has nothing more to report; at the end of the input
\* all are sent.
LinesGoOut == \A c \in Clients :
    <>[](stdio[c] + typed[c] > 0 /\ Alive(c))
        => <>[](at[c] = "sending" \/ (typed[c] = 0 /\ ~eof[c]))
=============================================================================
