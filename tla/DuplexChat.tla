----------------------------- MODULE DuplexChat -----------------------------
(***************************************************************************)
(* The duplex chat of the second version: duplex_chat_clientV2.c and       *)
(* duplex_chat_serverV2.c.  On each side a parent reads stdin and sends,   *)
(* and a child receives, over one socket that the two share: it is closed  *)
(* when both are gone.  The client's processes signal each other; the      *)
(* server's do not.                                                        *)
(*                                                                         *)
(* Bytes are counted.  A signal is taken at once by the process it is sent *)
(* to.  The growth of the client's buffer is the subject of RecvBuffer.    *)
(***************************************************************************)
EXTENDS Naturals

CONSTANTS
    SockBuf,     \* bytes that wait between a send() and the other's recv()
    LineLen,     \* bytes of the longest line that fgets() returns; the others
                 \* have at least one
    MaxMsg,      \* MAX_MSG_SIZE of the client
    Faults       \* what may fail: "fork", "malloc", "break" (the connection)

ASSUME ConstantsAssumption ==
    /\ {SockBuf, LineLen, MaxMsg} \subseteq Nat \ {0}
    /\ Faults \subseteq {"fork", "malloc", "break"}

Sides == {"client", "server"}
Other(s) == IF s = "client" THEN "server" ELSE "client"

VARIABLES
    parent,      \* parent[s]: "fork", "fgets", "send", "leave", "exit" or "gone"
    child,       \* child[s]: "none", "recv", "end" (nothing more to read),
                 \* "closed", "exit", then "ended", "failed" or "killed"
    stdin,       \* stdin[s]: "open" or "end"
    todo,        \* todo[s]: what send_all() has still to send
    inbox,       \* inbox[s]: bytes sent to s and not yet read
    total,       \* what the client's child has received and not shown
    eof,         \* eof[s]: the other's FIN has arrived
    err,         \* err[s]: the connection's error: "none", "pending", "taken"
    late,        \* late[s]: s has sent to a socket that no longer exists
    shut         \* shut[s]: s's last close() has been noticed by the network

conn == <<eof, err, late, shut>>
vars == <<parent, child, stdin, todo, inbox, total, conn>>

Init ==
    /\ parent = [s \in Sides |-> "fork"]
    /\ child = [s \in Sides |-> "none"]
    /\ stdin = [s \in Sides |-> "open"]
    /\ todo = [s \in Sides |-> 0]
    /\ inbox = [s \in Sides |-> 0]
    /\ total = 0
    /\ eof = [s \in Sides |-> FALSE]
    /\ err = [s \in Sides |-> "none"]
    /\ late = [s \in Sides |-> FALSE]
    /\ shut = [s \in Sides |-> FALSE]

-----------------------------------------------------------------------------
(* The socket                                                              *)

\* A child holds the socket; it has something to do before it exits.
Holding == {"recv", "end"}
Running == Holding \cup {"closed"}

Closed(s) == parent[s] = "gone" /\ child[s] \notin Holding

\* What is sent to s now is answered by a reset.
Unreachable(s) == Closed(s) \/ err[s] # "none"

\* recv() returns 0; it returns -1.
AtEnd(s) == inbox[s] = 0 /\ (eof[s] \/ err[s] = "taken")
AtError(s) == inbox[s] = 0 /\ ~eof[s] /\ err[s] = "pending"

\* send() fails with EPIPE rather than with ECONNRESET.
Epipe(s) == eof[s] \/ err[s] = "taken"

\* A reset may overtake data that is still under way.
BreakAt(s) ==
    /\ err' = [err EXCEPT ![s] = IF @ = "none" THEN "pending" ELSE @]
    /\ \E k \in 0 .. inbox[s] : inbox' = [inbox EXCEPT ![s] = k]

\* The last close(): a FIN, or a reset if something was not read.
Shut(s) ==
    /\ Closed(s) /\ ~shut[s] /\ err[s] = "none"
    /\ shut' = [shut EXCEPT ![s] = TRUE]
    /\ \/ inbox[s] = 0 /\ eof' = [eof EXCEPT ![Other(s)] = TRUE]
          /\ UNCHANGED <<err, inbox>>
       \/ inbox[s] > 0 /\ BreakAt(Other(s)) /\ UNCHANGED eof
    /\ UNCHANGED <<parent, child, stdin, todo, total, late>>

\* The answer to what was sent to a socket that no longer exists.
Reset(s) ==
    /\ late[s] /\ err[s] = "none"
    /\ BreakAt(s)
    /\ UNCHANGED <<parent, child, stdin, todo, total, eof, late, shut>>

\* The connection breaks as one side sees it.
Break(s) ==
    /\ "break" \in Faults /\ err[s] = "none"
    /\ BreakAt(s)
    /\ UNCHANGED <<parent, child, stdin, todo, total, eof, late, shut>>

Network(s) == Shut(s) \/ Reset(s)

-----------------------------------------------------------------------------
(* The users: a line, the end of the input, ^C to both processes.          *)

\* fgets() returns a line; the server sends its '\0', too.
Type(s) ==
    /\ parent[s] = "fgets" /\ stdin[s] = "open"
    /\ \E len \in 1 .. LineLen :
          todo' = [todo EXCEPT ![s] = IF s = "server" THEN len + 1 ELSE len]
    /\ parent' = [parent EXCEPT ![s] = "send"]
    /\ UNCHANGED <<child, stdin, inbox, total, conn>>

InputEnds(s) ==
    /\ stdin[s] = "open"
    /\ stdin' = [stdin EXCEPT ![s] = "end"]
    /\ UNCHANGED <<parent, child, todo, inbox, total, conn>>

Killed(c) == IF c \in Running \cup {"exit"} THEN "killed" ELSE c

Interrupt(s) ==
    /\ parent[s] # "gone"
    /\ parent' = [parent EXCEPT ![s] = "gone"]
    /\ child' = [child EXCEPT ![s] = Killed(@)]
    /\ UNCHANGED <<stdin, todo, inbox, total, conn>>

-----------------------------------------------------------------------------
(* The parents                                                             *)

\* The client gives up when fork() fails; the server becomes a parent
\* without a child.
Fork(s) ==
    /\ parent[s] = "fork"
    /\ \/ parent' = [parent EXCEPT ![s] = "fgets"]
          /\ child' = [child EXCEPT ![s] = "recv"]
       \/ /\ "fork" \in Faults
          /\ parent' = [parent EXCEPT ![s] = IF s = "client" THEN "gone" ELSE "fgets"]
          /\ UNCHANGED child
    /\ UNCHANGED <<stdin, todo, inbox, total, conn>>

\* fgets() returns NULL: the client leaves its loop; the server does not
\* look, and sends the empty string.
FgetsNull(s) ==
    /\ parent[s] = "fgets" /\ stdin[s] = "end"
    /\ \/ s = "client" /\ parent' = [parent EXCEPT ![s] = "leave"]
          /\ UNCHANGED todo
       \/ s = "server" /\ parent' = [parent EXCEPT ![s] = "send"]
          /\ todo' = [todo EXCEPT ![s] = 1]
    /\ UNCHANGED <<child, stdin, inbox, total, conn>>

\* send_all(): a byte goes out.
SendByte(s) ==
    /\ parent[s] = "send" /\ todo[s] > 0 /\ err[s] = "none"
    /\ todo' = [todo EXCEPT ![s] = @ - 1]
    /\ \/ /\ Unreachable(Other(s))
          /\ late' = [late EXCEPT ![s] = TRUE]
          /\ UNCHANGED inbox
       \/ /\ ~Unreachable(Other(s)) /\ inbox[Other(s)] < SockBuf
          /\ inbox' = [inbox EXCEPT ![Other(s)] = @ + 1]
          /\ UNCHANGED late
    /\ UNCHANGED <<parent, child, stdin, total, eof, err, shut>>

\* send() returns -1.  SIGPIPE kills the server's parent, which otherwise
\* does not look at the result.
AfterError_NoSigpipe(s) == IF s = "client" THEN "leave" ELSE "fgets"
AfterError(s) ==
    IF s = "client" THEN "leave" ELSE IF Epipe(s) THEN "gone" ELSE "fgets"

SendFails(s) ==
    /\ parent[s] = "send" /\ todo[s] > 0 /\ err[s] # "none"
    /\ parent' = [parent EXCEPT ![s] = AfterError(s)]
    /\ todo' = [todo EXCEPT ![s] = 0]
    /\ err' = [err EXCEPT ![s] = "taken"]
    /\ UNCHANGED <<child, stdin, inbox, total, eof, late, shut>>

SendDone(s) ==
    /\ parent[s] = "send" /\ todo[s] = 0
    /\ parent' = [parent EXCEPT ![s] = "fgets"]
    /\ UNCHANGED <<child, stdin, todo, inbox, total, conn>>

\* kill(cpid, SIGTERM); then close() and the parent's end.
Leave_NoKill ==
    /\ parent["client"] = "leave"
    /\ parent' = [parent EXCEPT !["client"] = "exit"]
    /\ UNCHANGED <<child, stdin, todo, inbox, total, conn>>
Leave ==
    /\ parent["client"] = "leave"
    /\ parent' = [parent EXCEPT !["client"] = "exit"]
    /\ child' = [child EXCEPT !["client"] = Killed(@)]
    /\ UNCHANGED <<stdin, todo, inbox, total, conn>>

ParentExits ==
    /\ parent["client"] = "exit"
    /\ parent' = [parent EXCEPT !["client"] = "gone"]
    /\ UNCHANGED <<child, stdin, todo, inbox, total, conn>>

Parent(s) ==
    \/ Fork(s) \/ FgetsNull(s) \/ SendByte(s) \/ SendFails(s) \/ SendDone(s)
    \/ s = "client" /\ (Leave \/ ParentExits)

-----------------------------------------------------------------------------
(* The client's child                                                      *)

ChildFails(s) == child' = [child EXCEPT ![s] = "failed"]

\* The buffer is full and may not grow.
TooLong(n) == n = MaxMsg

\* recv() returns n > 0.
ClientRecv ==
    /\ child["client"] = "recv"
    /\ \E n \in 1 .. inbox["client"] :
          /\ total + n <= MaxMsg
          /\ inbox' = [inbox EXCEPT !["client"] = @ - n]
          /\ \/ ~TooLong(total + n) /\ total' = total + n /\ UNCHANGED child
             \/ TooLong(total + n) /\ total' = 0 /\ ChildFails("client")
    /\ UNCHANGED <<parent, stdin, todo, conn>>

\* malloc() or realloc() fails.
ClientAllocFails ==
    /\ "malloc" \in Faults
    /\ child["client"] = "recv"
    /\ total' = 0 /\ ChildFails("client")
    /\ UNCHANGED <<parent, stdin, todo, inbox, conn>>

\* recv() returns 0: what was received is shown, and recv() is tried again;
\* if there was nothing, this is the end.
ClientEnd ==
    /\ child["client"] = "recv" /\ AtEnd("client")
    /\ \/ total > 0 /\ total' = 0 /\ UNCHANGED child
       \/ total = 0 /\ child' = [child EXCEPT !["client"] = "end"] /\ UNCHANGED total
    /\ UNCHANGED <<parent, stdin, todo, inbox, conn>>

\* recv() returns -1; what was received is dropped, the parent not told.
ClientError ==
    /\ child["client"] = "recv" /\ AtError("client")
    /\ err' = [err EXCEPT !["client"] = "taken"]
    /\ total' = 0 /\ ChildFails("client")
    /\ UNCHANGED <<parent, stdin, todo, inbox, eof, late, shut>>

Silent == inbox["client"] = 0 /\ ~eof["client"] /\ err["client"] = "none"

\* Nothing came for RECV_TIMEOUT_SEC; what was received is dropped, the
\* parent not told.
ClientTimeout_IsEnd ==
    /\ child["client"] = "recv" /\ Silent
    /\ \/ total > 0 /\ total' = 0 /\ UNCHANGED child
       \/ total = 0 /\ child' = [child EXCEPT !["client"] = "end"] /\ UNCHANGED total
    /\ UNCHANGED <<parent, stdin, todo, inbox, conn>>
ClientTimeout ==
    /\ child["client"] = "recv" /\ Silent
    /\ total' = 0 /\ ChildFails("client")
    /\ UNCHANGED <<parent, stdin, todo, inbox, conn>>

\* "Server disconnected": close(), kill(getppid(), SIGUSR1), and the child's
\* end, each after the other while the parent goes on.
ChildCloses ==
    /\ child["client"] = "end"
    /\ child' = [child EXCEPT !["client"] = "closed"]
    /\ UNCHANGED <<parent, stdin, todo, inbox, total, conn>>

Disconnected_KeepsParent ==
    /\ child["client"] = "closed"
    /\ child' = [child EXCEPT !["client"] = "exit"]
    /\ UNCHANGED <<parent, stdin, todo, inbox, total, conn>>
Disconnected ==
    /\ child["client"] = "closed"
    /\ parent' = [parent EXCEPT !["client"] = "gone"]
    /\ child' = [child EXCEPT !["client"] = "exit"]
    /\ UNCHANGED <<stdin, todo, inbox, total, conn>>

ChildExits ==
    /\ child["client"] = "exit"
    /\ child' = [child EXCEPT !["client"] = "ended"]
    /\ UNCHANGED <<parent, stdin, todo, inbox, total, conn>>

-----------------------------------------------------------------------------
(* The server's child                                                      *)

\* recv_chunk() returns n > 0, and the chunk is shown.
ServerRecv_Once ==
    /\ child["server"] = "recv"
    /\ \E n \in 1 .. inbox["server"] : inbox' = [inbox EXCEPT !["server"] = @ - n]
    /\ child' = [child EXCEPT !["server"] = "ended"]
    /\ UNCHANGED <<parent, stdin, todo, total, conn>>
ServerRecv ==
    /\ child["server"] = "recv"
    /\ \E n \in 1 .. inbox["server"] : inbox' = [inbox EXCEPT !["server"] = @ - n]
    /\ UNCHANGED <<parent, child, stdin, todo, total, conn>>

\* recv_chunk() returns 0 or -1: the child ends, the parent is not told.
ServerEnd ==
    /\ child["server"] = "recv"
    /\ \/ AtEnd("server") /\ UNCHANGED err
          /\ child' = [child EXCEPT !["server"] = "ended"]
       \/ AtError("server") /\ err' = [err EXCEPT !["server"] = "taken"]
          /\ ChildFails("server")
    /\ UNCHANGED <<parent, stdin, todo, inbox, total, eof, late, shut>>

ClientChild ==
    \/ ClientRecv \/ ClientAllocFails \/ ClientEnd \/ ClientError
    \/ ClientTimeout \/ ChildCloses \/ Disconnected \/ ChildExits
ServerChild == ServerRecv \/ ServerEnd

-----------------------------------------------------------------------------
Next ==
    \/ \E s \in Sides :
          Parent(s) \/ Network(s) \/ Break(s) \/ Type(s) \/ InputEnds(s) \/ Interrupt(s)
    \/ ClientChild \/ ServerChild

Spec == Init /\ [][Next]_vars

\* The four processes and the network run; the users need not do anything.
FairSpec ==
    /\ Spec
    /\ \A s \in Sides : WF_vars(Parent(s)) /\ WF_vars(Network(s))
    /\ WF_vars(ClientChild) /\ WF_vars(ServerChild)

-----------------------------------------------------------------------------
\* Every variable has its type, and the receive queues and the client's
\* buffer keep within their sizes.
TypeOK ==
    /\ parent \in [Sides -> {"fork", "fgets", "send", "leave", "exit", "gone"}]
    /\ child \in [Sides -> {"none", "recv", "end", "closed", "exit", "ended",
                            "failed", "killed"}]
    /\ stdin \in [Sides -> {"open", "end"}]
    /\ todo \in [Sides -> 0 .. LineLen + 1]
    /\ inbox \in [Sides -> 0 .. SockBuf]
    /\ total \in 0 .. MaxMsg - 1
    /\ eof \in [Sides -> BOOLEAN] /\ late \in [Sides -> BOOLEAN]
    /\ shut \in [Sides -> BOOLEAN]
    /\ err \in [Sides -> {"none", "pending", "taken"}]

\* The client never leaves its reader behind, whichever process goes first
\* and however, and whatever the other does between its kill() and its exit();
\* so kill(getppid()) finds the parent there, and a child whose parent is gone
\* has nothing to do but exit().
NoOrphan == parent["client"] = "gone" => child["client"] \notin Running

\* A side takes the other for disconnected only when both processes of the
\* other are gone and all that it sent was read and shown, unless the
\* connection was reset: silence is not taken for the end.
SawEnd == {"end", "closed", "exit", "ended"}
EndIsReal ==
    \A s \in Sides :
        child[s] \in SawEnd /\ err[s] = "none" =>
            /\ Closed(Other(s)) /\ inbox[s] = 0
            /\ s = "client" => total = 0

\* When one side is gone the other stops: a client whose reader still runs
\* ends as a whole, or its reader reports an error; a server that sends empty
\* strings at the end of its input goes, too.
DisconnectSeen ==
    /\ shut["server"] /\ child["client"] = "recv"
          ~> parent["client"] = "gone" \/ child["client"] = "failed"
    /\ stdin["server"] = "end" /\ Closed("client") ~> Closed("server")

\* What the client sends is taken by the server, also when the server's
\* parent is blocked itself because nobody reads what it sends; only a
\* server whose fork() failed has nobody to read.
NoReader == child["server"] = "none" /\ parent["server"] # "fork"
SendReturns ==
    parent["client"] = "send" ~> parent["client"] # "send" \/ NoReader

\* "the send part ... won't close, and the connection will remain open" was
\* the defect of the first version: when the server is gone, the client's
\* parent ends, too.
SendPartEnds == shut["server"] ~> parent["client"] = "gone"
=============================================================================
