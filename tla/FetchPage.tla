------------------------------ MODULE FetchPage ------------------------------
(***************************************************************************)
(* recv_timeout() of fetch_web_page.c: a loop that does not wait.  It calls *)
(* recv() on the non-blocking socket when twice the time limit has passed   *)
(* since the last data, and leaves when it has data and one limit passed.   *)
(***************************************************************************)
EXTENDS Integers

CONSTANTS
    PageLen,     \* bound: bytes that the web server sends
    CHUNK_SIZE

ASSUME PageAssumption == PageLen \in Nat /\ CHUNK_SIZE \in Nat \ {0}

VARIABLES
    left,        \* the loop was left
    age,         \* since `begin`: 0 up to timeout, 1 up to twice that, 2 beyond
    total_size,
    web,         \* the web server: "open", "fin" or "rst"
    webSent,     \* bytes it has sent
    waiting      \* bytes in the socket

pageVars == <<left, age, total_size, web, webSent, waiting>>

PageInit ==
    /\ left = FALSE /\ age = 0 /\ total_size = 0
    /\ web = "open" /\ webSent = 0 /\ waiting = 0

WebSends ==
    /\ web = "open" /\ webSent < PageLen
    /\ webSent' = webSent + 1 /\ waiting' = waiting + 1
    /\ UNCHANGED <<left, age, total_size, web>>

\* A reset discards what waits.
WebEnds ==
    /\ web = "open"
    /\ \/ web' = "fin" /\ UNCHANGED waiting
       \/ web' = "rst" /\ waiting' = 0
    /\ UNCHANGED <<left, age, total_size, webSent>>

TimePasses ==
    /\ ~left /\ age < 2
    /\ age' = age + 1
    /\ UNCHANGED <<left, total_size, web, webSent, waiting>>

\* total_size > 0 && timediff > timeout
Enough == total_size > 0 /\ age >= 1
Break ==
    /\ ~left /\ Enough
    /\ left' = TRUE
    /\ UNCHANGED <<age, total_size, web, webSent, waiting>>

\* recv() returns a chunk, or 0 at the end; -1 is tried again.
RecvChunk_NoTotal ==
    /\ ~left /\ ~Enough /\ age = 2 /\ (waiting > 0 \/ web # "open")
    /\ LET n == IF waiting < CHUNK_SIZE THEN waiting ELSE CHUNK_SIZE IN
          waiting' = waiting - n
    /\ age' = 0
    /\ UNCHANGED <<left, total_size, web, webSent>>
RecvChunk ==
    /\ ~left /\ ~Enough /\ age = 2 /\ (waiting > 0 \/ web # "open")
    /\ LET n == IF waiting < CHUNK_SIZE THEN waiting ELSE CHUNK_SIZE IN
          total_size' = total_size + n /\ waiting' = waiting - n
    /\ age' = 0
    /\ UNCHANGED <<left, web, webSent>>

PageRuns == TimePasses \/ Break \/ RecvChunk
PageNext == WebSends \/ WebEnds \/ PageRuns

\* Time passes, and the loop turns.
PageFairness == WF_pageVars(PageRuns)

-----------------------------------------------------------------------------
\* The loop ends when the web server has sent anything, unless a reset
\* discards it; a server that closes without data holds it for ever.
PageEnds == webSent > 0 ~> left \/ web = "rst"
=============================================================================
