------------------------------- MODULE TcpFile -------------------------------
(***************************************************************************)
(* The file transfer over TCP: the client sends a name, the server answers *)
(* with a byte and, if it has such a file, with the file, and closes.      *)
(* The name has no end: it is what the server's only read() returns.       *)
(***************************************************************************)
EXTENDS Integers

CONSTANTS
    NameLen,     \* bytes of the name
    FileLen      \* chunks of the file

ASSUME FileAssumption == NameLen \in Nat \ {0} /\ FileLen \in Nat \ {0}

VARIABLES
    has,         \* has[n]: the server has a file by the first n bytes of the name
    asking,      \* client: "ask", "answer", "download", "done", "none" or "failed"
    giving,      \* server: "read", "answer", "sending", "closing" or "ended"
    inNet,       \* bytes of the name on their way
    unread,      \* bytes of the name in the server's socket
    took,        \* bytes of the name that read() returned
    pos,         \* chunks that the server has sent
    reply,       \* the answer in the client's socket: "", "y" or "n"
    coming,      \* chunks in the client's socket
    got,         \* chunks that the client read
    kept,        \* those that are on its disk
    reset,       \* the connection was reset
    faults       \* what failed: the connection ("cut"), the server's fread()
                 \* ("read"), the client's fwrite() or fclose() ("disk")

serverFile == <<giving, took, pos>>
clientFile == <<asking, got, kept>>
fileVars == <<has, serverFile, clientFile, inNet, unread, reply, coming, reset, faults>>

FileInit ==
    /\ has \in [1 .. NameLen -> BOOLEAN]
    /\ asking = "ask" /\ giving = "read"
    /\ inNet = 0 /\ unread = 0 /\ took = 0 /\ pos = 0
    /\ reply = "" /\ coming = 0 /\ got = 0 /\ kept = {}
    /\ reset = FALSE /\ faults = {}

-----------------------------------------------------------------------------
(* The network *)

\* The name arrives in any parts; a part that nobody will read resets the
\* connection.
NameArrives ==
    /\ inNet > 0 /\ ~reset
    /\ \E k \in 1 .. inNet :
          /\ inNet' = inNet - k
          /\ IF giving = "ended" THEN reset' = TRUE /\ UNCHANGED unread
             ELSE unread' = unread + k /\ UNCHANGED reset
    /\ UNCHANGED <<has, serverFile, clientFile, reply, coming, faults>>

Cut ==
    /\ faults' = faults \cup {"cut"} /\ reset' = TRUE
    /\ UNCHANGED <<has, serverFile, clientFile, inNet, unread, reply, coming>>

-----------------------------------------------------------------------------
(* The server *)

\* One read(); 0 or -1 ends the program.
ReadName ==
    /\ giving = "read"
    /\ \/ unread > 0 /\ took' = unread /\ unread' = 0 /\ giving' = "answer"
       \/ ((unread = 0 /\ asking = "failed") \/ reset) /\ giving' = "ended"
          /\ UNCHANGED <<took, unread>>
    /\ UNCHANGED <<has, pos, clientFile, inNet, reply, coming, reset, faults>>

Answer ==
    /\ giving = "answer"
    /\ giving' = IF has[took] THEN "sending" ELSE "closing"
    /\ reply' = IF has[took] THEN "y" ELSE "n"
    /\ UNCHANGED <<has, took, pos, clientFile, inNet, unread, coming, reset, faults>>

FileSent_OneChunk == pos > 0
FileSent == pos = FileLen

\* fread() and send(), which is not checked; to a connection that is reset,
\* or a client that has left, it may raise SIGPIPE.
SendChunk ==
    /\ giving = "sending" /\ ~FileSent
    /\ \/ pos' = pos + 1 /\ coming' = (IF reset THEN coming ELSE coming + 1)
          /\ UNCHANGED giving
       \/ (reset \/ asking = "failed") /\ giving' = "ended" /\ UNCHANGED <<pos, coming>>
    /\ UNCHANGED <<has, took, clientFile, inNet, unread, reply, reset, faults>>

\* fread() returns 0 on an error too, at once for a directory, which fopen()
\* opens: the loop ends as at the end of the file.
ReadFails ==
    /\ giving = "sending" /\ ~FileSent
    /\ giving' = "closing" /\ faults' = faults \cup {"read"}
    /\ UNCHANGED <<has, took, pos, clientFile, inNet, unread, reply, coming, reset>>

\* close() with bytes of the name unread resets the connection.
CloseBoth ==
    /\ giving = "closing" \/ (giving = "sending" /\ FileSent)
    /\ giving' = "ended" /\ reset' = (reset \/ unread > 0)
    /\ UNCHANGED <<has, took, pos, clientFile, inNet, unread, reply, coming, faults>>

-----------------------------------------------------------------------------
(* The client *)

Request ==
    /\ asking = "ask"
    /\ \/ asking' = "answer" /\ inNet' = NameLen
       \/ asking' = "failed" /\ UNCHANGED inNet
    /\ UNCHANGED <<has, serverFile, got, kept, unread, reply, coming, reset, faults>>

\* What had arrived may be lost with the connection.
ReadAnswer ==
    /\ asking = "answer"
    /\ \/ reply = "y" /\ asking' \in {"download", "failed"}
       \/ reply = "n" /\ asking' = "none"
       \/ ((reply = "" /\ giving = "ended") \/ reset) /\ asking' = "failed"
    /\ UNCHANGED <<has, serverFile, got, kept, inNet, unread, reply, coming, reset, faults>>

\* What fwrite() returns is not looked at.
Download ==
    /\ asking = "download" /\ coming > 0
    /\ got' = got + 1 /\ coming' = coming - 1
    /\ \/ kept' = kept \cup {got + 1} /\ UNCHANGED faults
       \/ faults' = faults \cup {"disk"} /\ UNCHANGED kept
    /\ UNCHANGED <<has, serverFile, asking, inNet, unread, reply, reset>>

\* read() returns 0 or -1: "Done ^_^" either way, also when fclose() fails to
\* write what stdio still holds.
DownloadEnds ==
    /\ asking = "download"
    /\ reset \/ (coming = 0 /\ giving = "ended")
    /\ asking' = "done"
    /\ \/ UNCHANGED <<kept, faults>>
       \/ kept' \in SUBSET kept /\ faults' = faults \cup {"disk"}
    /\ UNCHANGED <<has, serverFile, got, inNet, unread, reply, coming, reset>>

FileNext ==
    \/ NameArrives \/ Cut
    \/ ReadName \/ Answer \/ SendChunk \/ ReadFails \/ CloseBoth
    \/ Request \/ ReadAnswer \/ Download \/ DownloadEnds

FileSpec == FileInit /\ [][FileNext]_fileVars

-----------------------------------------------------------------------------
\* A download that is reported as done misses something only for one of the
\* reasons that the programs pass over.  Chunks are missing at its end because
\* the network cut the connection, the server's fread() failed, or TCP split
\* the name, so that its unread rest resets the connection; chunks are missing
\* before that because the client's fwrite() or fclose() failed.  What is sent,
\* or refused, is the file by what the server took for the name.
DownloadIsWhole ==
    /\ asking = "done" =>
          /\ has[took]
          /\ took = NameLen /\ faults \cap {"cut", "read"} = {} => got = FileLen
          /\ "disk" \notin faults => kept = 1 .. got
    /\ asking = "none" => ~has[took]
=============================================================================
