------------------------------ MODULE ChatRoom ------------------------------
(***************************************************************************)
(* What the chat room promises its members, whatever the sockets do.       *)
(*                                                                         *)
(* A room is one numbered record of what was said.  A member that joins    *)
(* hears, from then on, everything the others say, in the order of the     *)
(* record and with nothing missing, until it leaves; it never hears        *)
(* itself.  Who is cut off, and when, is not promised: a member may leave  *)
(* at any time, of its own will or because the server drops it.            *)
(***************************************************************************)
EXTENDS Naturals, Sequences

CONSTANT Conns          \* connection lifetimes: one element per connect()

VARIABLES present,      \* the connections in the room now
          past,         \* the connections that were in the room and left
          said,         \* said[n] is the connection that spoke the n-th line
          since,        \* since[c]: how much had been said when c joined
          heard         \* heard[c]: the numbers of the lines c has heard

roomVars == <<present, past, said, since, heard>>

RoomInit == /\ present = {}
            /\ past = {}
            /\ said = <<>>
            /\ since = [c \in Conns |-> 0]
            /\ heard = [c \in Conns |-> <<>>]

\* The last line that c has heard, or that was said before it came.
Reached(c) == IF heard[c] = <<>> THEN since[c] ELSE heard[c][Len(heard[c])]

Join(c) == /\ c \notin present \cup past
           /\ present' = present \cup {c}
           /\ since' = [since EXCEPT ![c] = Len(said)]
           /\ UNCHANGED <<past, said, heard>>

\* Nobody speaks while a present member still has a line to hear: the room
\* is as slow as the broadcast of one line.
Settled(c) == \A n \in Reached(c) + 1 .. Len(said) : said[n] = c

Say(c) == /\ c \in present
          /\ \A d \in present : Settled(d)
          /\ said' = Append(said, c)
          /\ UNCHANGED <<present, past, since, heard>>

\* c hears the next line of somebody else: not an older one, and none skipped.
Hear(c) == \E n \in Reached(c) + 1 .. Len(said) :
             /\ c \in present
             /\ said[n] # c
             /\ \A m \in Reached(c) + 1 .. n - 1 : said[m] = c
             /\ heard' = [heard EXCEPT ![c] = Append(@, n)]
             /\ UNCHANGED <<present, past, said, since>>

Leave(c) == /\ c \in present
            /\ present' = present \ {c}
            /\ past' = past \cup {c}
            /\ UNCHANGED <<said, since, heard>>

RoomNext == \E c \in Conns : Join(c) \/ Say(c) \/ Hear(c) \/ Leave(c)

RoomSpec == RoomInit /\ [][RoomNext]_roomVars
=============================================================================
