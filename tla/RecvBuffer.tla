----------------------------- MODULE RecvBuffer -----------------------------
(***************************************************************************)
(* How the clients of the second generation read a message that has no     *)
(* length: recv() into a buffer that doubles when it is full, up to a      *)
(* limit, until the peer closes.  TCP_clientV2.c does this without a       *)
(* timeout, TCP_time_clientV2.c with SO_RCVTIMEO (Timed); the readers of   *)
(* duplex_chat_clientV2.c and chat_room_serverV2.c repeat the same code.   *)
(* Bytes are counted; their values play no role.                           *)
(***************************************************************************)
EXTENDS Naturals

CONSTANTS
    InitialBuf,  \* INITIAL_BUF_SIZE
    MaxMsg,      \* MAX_MSG_SIZE
    Timed,       \* whether SO_RCVTIMEO is set
    MaxSend      \* bound: the bytes that the peer sends

ASSUME ConstantsAssumption ==
    /\ InitialBuf \in Nat /\ InitialBuf >= 1
    /\ MaxMsg \in Nat /\ InitialBuf <= MaxMsg
    /\ MaxSend \in Nat
    /\ Timed \in BOOLEAN

VARIABLES
    pc,          \* "malloc", "recv", "end" (recv() returned 0), then
                 \* "done", "toobig", "failed" or "timeout"
    cap,         \* bytes allocated
    total,       \* bytes received
    peer,        \* the peer's side: "open", "fin" or "rst"
    sent,        \* bytes that the peer sent
    arrived      \* bytes that wait for recv()

client == <<pc, cap, total>>
vars == <<client, peer, sent, arrived>>

Init ==
    /\ pc = "malloc" /\ cap = 0 /\ total = 0
    /\ peer = "open" /\ sent = 0 /\ arrived = 0

-----------------------------------------------------------------------------
(* The peer.  Nothing makes it send or close.                              *)

Arrive ==
    /\ peer = "open" /\ sent < MaxSend
    /\ sent' = sent + 1 /\ arrived' = arrived + 1
    /\ UNCHANGED <<client, peer>>

\* close(), or the loss of the connection.
PeerEnds ==
    /\ peer = "open"
    /\ peer' \in {"fin", "rst"}
    /\ UNCHANGED <<client, sent, arrived>>

-----------------------------------------------------------------------------
(* The client *)

Malloc ==
    /\ pc = "malloc"
    /\ \/ pc' = "recv" /\ cap' = InitialBuf
       \/ pc' = "failed" /\ UNCHANGED cap
    /\ UNCHANGED <<total, peer, sent, arrived>>

\* What recv() is asked for, and what it then takes.
Room == cap - total
Taken == IF arrived < Room THEN arrived ELSE Room

\* realloc() to twice the size, or to the limit.
NewCap == IF cap * 2 > MaxMsg THEN MaxMsg ELSE cap * 2

\* The buffer is full; it grows before the next recv(), if it can.
GrowAt_TooLate(t) == t > cap
GrowAt(t) == t = cap

AtLimit == cap >= MaxMsg

\* recv() returns n > 0.
RecvData ==
    /\ pc = "recv" /\ Taken > 0
    /\ LET t == total + Taken IN
         /\ total' = t
         /\ \/ ~GrowAt(t) /\ UNCHANGED <<pc, cap>>
            \/ GrowAt(t) /\ AtLimit /\ pc' = "toobig" /\ UNCHANGED cap
            \/ GrowAt(t) /\ ~AtLimit /\ cap' = NewCap /\ UNCHANGED pc
            \/ GrowAt(t) /\ ~AtLimit /\ pc' = "failed" /\ UNCHANGED cap
    /\ arrived' = arrived - Taken
    /\ UNCHANGED <<peer, sent>>

\* recv() returns 0: the peer has closed, or nothing was asked for.
RecvEnd ==
    /\ pc = "recv"
    /\ Room = 0 \/ (arrived = 0 /\ peer = "fin")
    /\ pc' = "end"
    /\ UNCHANGED <<cap, total, peer, sent, arrived>>

\* recv() returns -1, which may be before what had arrived was read.
RecvFails_IsEnd ==
    /\ pc = "recv" /\ peer = "rst"
    /\ pc' = "end"
    /\ UNCHANGED <<cap, total, peer, sent, arrived>>
RecvFails ==
    /\ pc = "recv" /\ peer = "rst"
    /\ pc' = "failed"
    /\ UNCHANGED <<cap, total, peer, sent, arrived>>

\* Nothing arrived for RECV_TIMEOUT_SEC.
Timeout_Retries ==
    /\ Timed /\ pc = "recv" /\ peer = "open" /\ arrived = 0
    /\ UNCHANGED vars
Timeout ==
    /\ Timed /\ pc = "recv" /\ peer = "open" /\ arrived = 0
    /\ pc' = "timeout"
    /\ UNCHANGED <<cap, total, peer, sent, arrived>>

\* buf[total] = '\0', after one more realloc() if the buffer is full.
Terminate ==
    /\ pc = "end"
    /\ \/ pc' = "done" /\ cap' = IF total = cap THEN cap + 1 ELSE cap
       \/ total = cap /\ pc' = "failed" /\ UNCHANGED cap
    /\ UNCHANGED <<total, peer, sent, arrived>>

ClientNext ==
    Malloc \/ RecvData \/ RecvEnd \/ RecvFails \/ Timeout \/ Terminate

-----------------------------------------------------------------------------
Next == Arrive \/ PeerEnds \/ ClientNext

Spec == Init /\ [][Next]_vars

\* The client runs, and a timeout that is due fires.
FairSpec == Spec /\ WF_vars(ClientNext)

-----------------------------------------------------------------------------
\* Every variable has its type; what is received is inside the buffer, and
\* the buffer inside the limit.
TypeOK ==
    /\ pc \in {"malloc", "recv", "end", "done", "toobig", "failed", "timeout"}
    /\ cap \in 0 .. MaxMsg
    /\ total \in 0 .. cap
    /\ peer \in {"open", "fin", "rst"}
    /\ sent \in 0 .. MaxSend
    /\ arrived \in Nat

\* "we always leave room": recv() is never asked for 0 bytes, and the '\0'
\* that is written after the last byte is inside the buffer.
LeavesRoom == pc \in {"recv", "end", "done"} => total < cap

\* A message that is shown is the whole message: a full buffer is never
\* taken for its end (recv() of 0 bytes returns 0), nor is a broken
\* connection.
WholeMessage == pc = "done" => peer = "fin" /\ total = sent

\* A message is refused for its size only when MAX_MSG_SIZE bytes arrived.
RefusedAtLimit == pc = "toobig" => total = MaxMsg

\* With a timeout the client ends, whether the peer is silent or sends a
\* byte at a time; without one, a silent peer would hold it.
Ended == {"done", "toobig", "failed", "timeout"}
Ends == pc = "recv" ~> pc \in Ended
=============================================================================
