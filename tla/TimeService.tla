---------------------------- MODULE TimeService ----------------------------
(***************************************************************************)
(* The second time service: the iterative server of time_serverV2.c, which *)
(* serves the connections of its backlog one after another, with the       *)
(* client of TCP_time_clientV2.c, whose reading is that of RecvBuffer, as  *)
(* one of them.  The others may leave at any moment.                       *)
(***************************************************************************)
EXTENDS RecvBuffer, Sequences

CONSTANTS
    Reader,      \* the connection of the client of RecvBuffer
    Others,      \* connections of other clients
    Nobody, Exited,
    TimeLen      \* bytes of the answer

ASSUME TimeAssumption ==
    /\ Reader \notin Others /\ {Nobody, Exited} \cap (Others \cup {Reader}) = {}
    /\ TimeLen \in 1 .. MaxMsg - 1 /\ TimeLen <= MaxSend

VARIABLES
    backlog,     \* connections not yet accepted
    serving,     \* the connection that is served
    out,         \* bytes of the answer that send() has taken
    held,        \* descriptors of clients that the server holds
    met,         \* connections that were ever made
    gone,        \* connections that their clients have reset
    served       \* connections that the server has closed

server == <<serving, out, held, served>>
serviceVars == <<vars, backlog, met, gone, server>>

TimeInit ==
    /\ Init
    /\ backlog = <<>> /\ serving = Nobody /\ out = 0 /\ held = 0
    /\ met = {} /\ gone = {} /\ served = {}

-----------------------------------------------------------------------------
(* The clients *)

Connect(c) ==
    /\ c \in (Others \cup {Reader}) \ met
    /\ backlog' = Append(backlog, c) /\ met' = met \cup {c}
    /\ UNCHANGED <<vars, gone, server>>

\* Another client leaves, or the reader has given up.
Abort(c) ==
    /\ c \in met \ gone
    /\ c \in Others \/ (c = Reader /\ pc \in {"timeout", "failed"})
    /\ gone' = gone \cup {c}
    /\ UNCHANGED <<vars, backlog, met, server>>

Reads ==
    /\ Reader \in met /\ ClientNext
    /\ UNCHANGED <<backlog, met, gone, server>>

-----------------------------------------------------------------------------
(* The server *)

\* accept(); one that fails is printed, and the loop goes on.
Accept ==
    /\ serving = Nobody /\ backlog # <<>>
    /\ serving' = Head(backlog) /\ backlog' = Tail(backlog)
    /\ out' = 0 /\ held' = held + 1
    /\ UNCHANGED <<vars, met, gone, served>>

\* The kernel takes a connection that was reset out of the backlog.
AcceptAborted ==
    /\ serving = Nobody /\ backlog # <<>> /\ Head(backlog) \in gone
    /\ backlog' = Tail(backlog) /\ served' = served \cup {Head(backlog)}
    /\ UNCHANGED <<vars, met, gone, serving, out, held>>

\* send_all(): a send() takes a part.
Send ==
    /\ serving \in met /\ out < TimeLen
    /\ out' = out + 1
    /\ IF serving = Reader /\ Reader \notin gone
       THEN sent' = sent + 1 /\ arrived' = arrived + 1 /\ UNCHANGED <<client, peer>>
       ELSE UNCHANGED vars
    /\ UNCHANGED <<backlog, met, gone, serving, held, served>>

CloseClient ==
    /\ held' = held - 1 /\ serving' = Nobody /\ served' = served \cup {serving}
    /\ peer' = IF serving = Reader THEN "fin" ELSE peer
    /\ UNCHANGED <<client, sent, arrived, backlog, met, gone, out>>

\* perror(), close(), continue.
SendFails_Exits ==
    /\ serving \in gone /\ out < TimeLen
    /\ serving' = Exited /\ held' = 0
    /\ UNCHANGED <<vars, backlog, met, gone, out, served>>
SendFails ==
    /\ serving \in gone /\ out < TimeLen
    /\ CloseClient

Sent_Once == out > 0
Sent == out = TimeLen
Answered ==
    /\ serving \in met /\ Sent
    /\ CloseClient

ServerNext == Accept \/ AcceptAborted \/ Send \/ SendFails \/ Answered

TimeNext ==
    \/ \E c \in Others \cup {Reader} : Connect(c) \/ Abort(c)
    \/ Reads \/ ServerNext

TimeSpec == TimeInit /\ [][TimeNext]_serviceVars

\* Both programs run.
TimeFairness == WF_serviceVars(Reads) /\ WF_serviceVars(ServerNext)

-----------------------------------------------------------------------------
\* The server holds the descriptor of the client that it serves and no other,
\* however its clients leave.
NoneLeaked == held = IF serving \in {Nobody, Exited} THEN 0 ELSE 1

\* The time that the reader shows is the whole answer, although it has no
\* length and comes in parts, and the timeout may fire between them.
TimeIsWhole == Reader \in met /\ pc = "done" => total = TimeLen

\* "it gonna try another time": a client that fails does not keep the server
\* from the next; every connection is served in the end.
EveryoneServed == \A c \in Others \cup {Reader} : c \in met ~> c \in served
=============================================================================
