----------------------------- MODULE MCPrograms -----------------------------
(***************************************************************************)
(* The programs that are checked one at a time: the way of every program   *)
(* to its socket, the reader with a peer that does anything, the reader    *)
(* with the time server, the TCP file transfer, and the web page.          *)
(***************************************************************************)
EXTENDS TimeService, TcpFile, FetchPage, Startup

VARIABLE running   \* which of them this behaviour is about

MCInit ==
    /\ running \in {"start", "any", "time", "file", "page"}
    /\ TimeInit /\ PageInit /\ FileInit /\ StartInit
    /\ running # "file" => has = [n \in 1 .. NameLen |-> FALSE]
    /\ running # "start" =>
          program = TCP_server /\ arg.number = 80 /\ works = <<TRUE>>

MCNext ==
    /\ UNCHANGED running
    /\ \/ running = "start" /\ StartNext
          /\ UNCHANGED <<serviceVars, fileVars, pageVars>>
       \/ running = "any" /\ Next
          /\ UNCHANGED <<backlog, met, gone, server, fileVars, pageVars, startVars>>
       \/ running = "time" /\ TimeNext
          /\ UNCHANGED <<fileVars, pageVars, startVars>>
       \/ running = "file" /\ FileNext
          /\ UNCHANGED <<serviceVars, pageVars, startVars>>
       \/ running = "page" /\ PageNext
          /\ UNCHANGED <<serviceVars, fileVars, startVars>>

mcVars == <<running, serviceVars, fileVars, pageVars, startVars>>

MCSpec ==
    /\ MCInit /\ [][MCNext]_mcVars
    /\ WF_vars(running = "any" /\ ClientNext)
    /\ running = "time" => TimeFairness
    /\ running = "page" => PageFairness
=============================================================================
