---------------------------- MODULE TcpFile_proofs ----------------------------
(***************************************************************************)
(* TcpFile for names and files of any length, with every fault of the      *)
(* connection, of the server's fread() and of the client's disk: what a    *)
(* download that is reported as done can miss, and for which reason only.  *)
(***************************************************************************)
EXTENDS TcpFile, TLAPS

FileTypes ==
    /\ has \in [1 .. NameLen -> BOOLEAN]
    /\ asking \in {"ask", "answer", "download", "done", "none", "failed"}
    /\ giving \in {"read", "answer", "sending", "closing", "ended"}
    /\ inNet \in Nat /\ unread \in Nat /\ took \in Nat
    /\ pos \in Nat /\ coming \in Nat /\ got \in Nat /\ kept \subseteq 1 .. got
    /\ reply \in {"", "y", "n"} /\ reset \in BOOLEAN
    /\ faults \subseteq {"cut", "read", "disk"}

\* The bytes of the name are on their way, unread, or taken by one read().
Name ==
    /\ inNet + unread + took <= NameLen
    /\ asking = "ask" => inNet = 0 /\ unread = 0 /\ took = 0
    /\ giving = "read" => took = 0
    /\ giving \in {"answer", "sending", "closing"} => took > 0

\* The server answers what it took.
Answered ==
    /\ giving \in {"read", "answer"} \/ took = 0 => reply = ""
    /\ giving \in {"sending", "closing"} => reply # ""
    /\ giving = "sending" => reply = "y"
    /\ giving = "closing" => reply = "n" \/ "read" \in faults
    /\ reply = "y" => took > 0 /\ has[took]
    /\ reply = "n" => took > 0 /\ ~has[took]

\* The client does what the answer says.
Obeyed ==
    /\ asking \in {"download", "done"} => reply = "y"
    /\ asking = "none" => reply = "n"

\* Only a part of the name, or the network, resets the connection, and not
\* before the server has ended.
NoReset == "cut" \notin faults /\ reset => giving = "ended" /\ took # NameLen

\* Without a reset no chunk is lost.
Chunks ==
    ~reset =>
        /\ got + coming = pos
        /\ reply = "y" /\ giving = "ended" /\ "read" \notin faults =>
              pos = FileLen \/ asking = "failed"
        /\ asking = "done" => giving = "ended" /\ coming = 0

\* A disk that does not fail keeps all that was read.
Stored == "disk" \notin faults => kept = 1 .. got

FInv == FileTypes /\ Name /\ Answered /\ Obeyed /\ NoReset /\ Chunks /\ Stored

\* What is left of the name when some of it is elsewhere.
LEMMA Parts ==
    ASSUME FInv
    PROVE  \E a, b, d, n \in Nat :
               /\ a = inNet /\ b = unread /\ d = took /\ n = NameLen /\ n > 0
               /\ a + b + d <= n
<1>1. inNet \in Nat /\ unread \in Nat /\ took \in Nat
      BY DEF FInv, FileTypes
<1>2. NameLen \in Nat /\ NameLen > 0
      BY FileAssumption DEF FileAssumption
<1>3. inNet + unread + took <= NameLen
      BY DEF FInv, Name
<1> QED
      BY <1>1, <1>2, <1>3

LEMMA InitFInv == FileInit => FInv
<1> SUFFICES ASSUME FileInit PROVE FInv
    OBVIOUS
<1>1. inNet = 0 /\ unread = 0 /\ took = 0 /\ coming = 0 /\ got = 0 /\ pos = 0
      BY DEF FileInit
<1>2. Name
  <2>1. NameLen \in Nat
        BY FileAssumption DEF FileAssumption
  <2>2. inNet + unread + took <= NameLen
        BY <1>1, <2>1
  <2> QED
        BY <1>1, <2>2 DEF FileInit, Name
<1>3. FileTypes /\ Answered /\ Obeyed /\ NoReset /\ Stored
  <2>1. kept = {} /\ 1 .. got = {}
    <3>1. 1 .. 0 = {}
          OBVIOUS
    <3> QED
          BY <1>1, <3>1 DEF FileInit
  <2>2. FileTypes
    <3>1. kept \subseteq 1 .. got
          BY <2>1
    <3>2. faults \subseteq {"cut", "read", "disk"}
          BY DEF FileInit
    <3>3. inNet \in Nat /\ unread \in Nat /\ took \in Nat /\ pos \in Nat
              /\ coming \in Nat /\ got \in Nat
          BY <1>1
    <3> QED
          BY <3>1, <3>2, <3>3 DEF FileInit, FileTypes
  <2>3. Answered /\ Obeyed /\ NoReset
        BY DEF FileInit, Answered, Obeyed, NoReset
  <2>4. Stored
        BY <2>1 DEF Stored
  <2> QED
        BY <2>2, <2>3, <2>4
<1>4. Chunks
  <2>1. got + coming = pos
        BY <1>1
  <2> QED
        BY <2>1 DEF FileInit, Chunks
<1> QED
      BY <1>2, <1>3, <1>4 DEF FInv

LEMMA NetworkFInv ==
    ASSUME FInv, NameArrives \/ Cut
    PROVE  FInv'
<1>1. CASE NameArrives
  <2>1. PICK k \in 1 .. inNet :
            /\ inNet' = inNet - k
            /\ IF giving = "ended" THEN reset' = TRUE /\ UNCHANGED unread
               ELSE unread' = unread + k /\ UNCHANGED reset
        BY <1>1 DEF NameArrives
  <2>2. /\ inNet > 0 /\ ~reset
        /\ UNCHANGED <<has, giving, took, pos, asking, got, kept, reply, coming, faults>>
        BY <1>1 DEF NameArrives, serverFile, clientFile
  <2>3. PICK a, b, d, n \in Nat :
            /\ a = inNet /\ b = unread /\ d = took /\ n = NameLen /\ n > 0
            /\ a + b + d <= n
        BY Parts
  <2>4. a - k \in Nat /\ b + k \in Nat /\ (a - k) + (b + k) + d <= n
            /\ (a - k) + b + d <= n /\ d # n
        BY <2>2, <2>3
  <2>5. /\ inNet' \in Nat /\ unread' \in Nat /\ inNet' + unread' + took <= NameLen
        /\ took # NameLen
        BY <2>1, <2>3, <2>4
  <2>6. asking # "ask"
        BY <2>2 DEF FInv, Name
  <2>7. FileTypes' /\ Name'
        BY <2>1, <2>2, <2>5, <2>6 DEF FInv, FileTypes, Name
  <2> QED
        BY <2>1, <2>2, <2>5, <2>7
           DEF FInv, FileTypes, Name, Answered, Obeyed, NoReset, Chunks, Stored
<1>2. CASE Cut
      BY <1>2 DEF Cut, serverFile, clientFile, FInv, FileTypes, Name, Answered, Obeyed,
         NoReset, Chunks, Stored
<1> QED
      BY <1>1, <1>2

LEMMA ServerFInv ==
    ASSUME FInv, ReadName \/ Answer \/ SendChunk \/ ReadFails \/ CloseBoth
    PROVE  FInv'
<1>0. NameLen \in Nat /\ NameLen > 0
      BY FileAssumption DEF FileAssumption
<1>1. CASE ReadName
  <2>1. /\ giving = "read" /\ took = 0 /\ reply = "" /\ giving' # "read"
        /\ UNCHANGED <<has, pos, asking, got, kept, inNet, reply, coming, reset, faults>>
        BY <1>1 DEF ReadName, clientFile, FInv, Name, Answered
  <2>2. CASE unread > 0 /\ took' = unread /\ unread' = 0 /\ giving' = "answer"
    <3>1. PICK a, b, d, n \in Nat :
              /\ a = inNet /\ b = unread /\ d = took /\ n = NameLen /\ n > 0
              /\ a + b + d <= n
          BY Parts
    <3>2. a + 0 + b <= n
          BY <3>1
    <3>3. inNet' + unread' + took' <= NameLen
          BY <2>1, <2>2, <3>1, <3>2
    <3>4. FileTypes' /\ Name'
          BY <2>1, <2>2, <3>3 DEF FInv, FileTypes, Name
    <3>5. Answered' /\ Obeyed'
          BY <2>1, <2>2 DEF FInv, Answered, Obeyed
    <3>6. NoReset' /\ Chunks' /\ Stored'
          BY <2>1, <2>2 DEF FInv, NoReset, Chunks, Stored
    <3> QED
          BY <3>4, <3>5, <3>6 DEF FInv
  <2>3. CASE giving' = "ended" /\ UNCHANGED <<took, unread>>
        BY <1>0, <2>1, <2>3 DEF FInv, FileTypes, Name, Answered, Obeyed, NoReset, Chunks, Stored
  <2> QED
        BY <1>1, <2>2, <2>3 DEF ReadName
<1>2. CASE Answer
  <2>1. /\ giving = "answer" /\ took > 0 /\ reply = ""
        /\ UNCHANGED <<has, took, pos, asking, got, kept, inNet, unread, coming, reset, faults>>
        BY <1>2 DEF Answer, clientFile, FInv, Name, Answered
  <2>2. CASE has[took] /\ giving' = "sending" /\ reply' = "y"
    <3>1. FileTypes' /\ Name'
          BY <2>1, <2>2 DEF FInv, FileTypes, Name
    <3>2. took' > 0 /\ took' # 0
      <4>1. PICK t \in Nat : t = took
            BY DEF FInv, FileTypes
      <4>2. t > 0 /\ took' = t
            BY <2>1, <4>1
      <4>3. t # 0
            BY <4>2
      <4> QED
            BY <4>2, <4>3
    <3>3. Answered'
          BY <2>1, <2>2, <3>2 DEF Answered
    <3>4. Obeyed'
          BY <2>1, <2>2 DEF FInv, Obeyed
    <3>5. NoReset' /\ Chunks' /\ Stored'
          BY <2>1, <2>2 DEF FInv, NoReset, Chunks, Stored
    <3> QED
          BY <3>1, <3>3, <3>4, <3>5 DEF FInv
  <2>3. CASE ~has[took] /\ giving' = "closing" /\ reply' = "n"
    <3>1. FileTypes' /\ Name'
          BY <2>1, <2>3 DEF FInv, FileTypes, Name
    <3>2. took' > 0 /\ took' # 0
      <4>1. PICK t \in Nat : t = took
            BY DEF FInv, FileTypes
      <4>2. t > 0 /\ took' = t
            BY <2>1, <4>1
      <4>3. t # 0
            BY <4>2
      <4> QED
            BY <4>2, <4>3
    <3>3. Answered'
          BY <2>1, <2>3, <3>2 DEF Answered
    <3>4. Obeyed'
          BY <2>1, <2>3 DEF FInv, Obeyed
    <3>5. NoReset' /\ Chunks' /\ Stored'
          BY <2>1, <2>3 DEF FInv, NoReset, Chunks, Stored
    <3> QED
          BY <3>1, <3>3, <3>4, <3>5 DEF FInv
  <2> QED
        BY <1>2, <2>2, <2>3 DEF Answer
<1>3. CASE SendChunk
  <2>1. /\ giving = "sending" /\ reply = "y" /\ took > 0
        /\ UNCHANGED <<has, took, asking, got, kept, inNet, unread, reply, reset, faults>>
        BY <1>3 DEF SendChunk, clientFile, FInv, Name, Answered
  <2>2. CASE pos' = pos + 1 /\ coming' = (IF reset THEN coming ELSE coming + 1)
             /\ UNCHANGED giving
        BY <1>0, <2>1, <2>2 DEF FInv, FileTypes, Name, Answered, Obeyed, NoReset, Chunks, Stored
  <2>3. CASE (reset \/ asking = "failed") /\ giving' = "ended" /\ UNCHANGED <<pos, coming>>
        BY <1>0, <2>1, <2>3 DEF FInv, FileTypes, Name, Answered, Obeyed, NoReset, Chunks, Stored
  <2> QED
        BY <1>3, <2>2, <2>3 DEF SendChunk
<1>4. CASE CloseBoth
  <2>1. /\ giving = "closing" \/ (giving = "sending" /\ pos = FileLen)
        /\ giving' = "ended" /\ reset' = (reset \/ unread > 0)
        /\ UNCHANGED <<has, took, pos, asking, got, kept, inNet, unread, reply, coming, faults>>
        BY <1>4 DEF CloseBoth, clientFile, FileSent
  <2>2. unread > 0 => took # NameLen
    <3>1. PICK a, b, d, n \in Nat :
              /\ a = inNet /\ b = unread /\ d = took /\ n = NameLen /\ n > 0
              /\ a + b + d <= n
          BY Parts
    <3>2. b > 0 => d # n
          BY <3>1
    <3> QED
          BY <3>1, <3>2
  <2>3. took > 0 /\ reset' \in BOOLEAN
        BY <2>1 DEF FInv, Name
  <2>4. FileTypes' /\ Name' /\ Answered' /\ Obeyed'
        BY <2>1, <2>3 DEF FInv, FileTypes, Name, Answered, Obeyed
  <2>5. NoReset'
        BY <2>1, <2>2 DEF FInv, NoReset
  <2>6. Chunks' /\ Stored'
        BY <2>1 DEF FInv, FileTypes, Answered, Chunks, Stored
  <2> QED
        BY <2>4, <2>5, <2>6 DEF FInv
<1>5. CASE ReadFails
  <2>1. /\ giving = "sending" /\ reply = "y" /\ took > 0 /\ giving' = "closing"
        /\ faults' = faults \cup {"read"}
        /\ UNCHANGED <<has, took, pos, asking, got, kept, inNet, unread, reply, coming, reset>>
        BY <1>5 DEF ReadFails, clientFile, FInv, Name, Answered
  <2>2. FileTypes' /\ Name' /\ Answered' /\ Obeyed'
        BY <2>1 DEF FInv, FileTypes, Name, Answered, Obeyed
  <2>3. NoReset' /\ Chunks' /\ Stored'
        BY <2>1 DEF FInv, NoReset, Chunks, Stored
  <2> QED
        BY <2>2, <2>3 DEF FInv
<1> QED
      BY <1>1, <1>2, <1>3, <1>4, <1>5

LEMMA ClientFInv ==
    ASSUME FInv, Request \/ ReadAnswer \/ Download \/ DownloadEnds
    PROVE  FInv'
<1>0. NameLen \in Nat /\ NameLen > 0
      BY FileAssumption DEF FileAssumption
<1>1. CASE Request
  <2>1. /\ asking = "ask" /\ inNet = 0 /\ unread = 0 /\ took = 0 /\ reply = ""
        /\ asking' \in {"answer", "failed"} /\ inNet' \in {0, NameLen}
        /\ UNCHANGED <<has, giving, took, pos, got, kept, unread, reply, coming, reset, faults>>
        BY <1>1 DEF Request, serverFile, FInv, Name, Answered
  <2>2. inNet' + unread' + took' = inNet' + 0 + 0
        BY <2>1
  <2>3. inNet' \in Nat /\ inNet' + 0 + 0 <= NameLen
    <3>1. NameLen + 0 + 0 <= NameLen /\ 0 + 0 + 0 <= NameLen
          BY <1>0
    <3>2. CASE inNet' = NameLen
          BY <1>0, <3>1, <3>2
    <3>3. CASE inNet' = 0
          BY <3>1, <3>3
    <3> QED
          BY <2>1, <3>2, <3>3
  <2>4. FileTypes' /\ Name'
        BY <2>1, <2>2, <2>3 DEF FInv, FileTypes, Name
  <2>5. Answered' /\ Obeyed' /\ NoReset'
        BY <2>1 DEF FInv, Answered, Obeyed, NoReset
  <2>6. Chunks' /\ Stored'
        BY <2>1 DEF FInv, Chunks, Stored
  <2> QED
        BY <2>4, <2>5, <2>6 DEF FInv
<1>2. CASE ReadAnswer
      BY <1>0, <1>2 DEF ReadAnswer, serverFile, FInv, FileTypes, Name, Answered, Obeyed,
         NoReset, Chunks, Stored
<1>3. CASE Download
  <2>1. /\ asking = "download" /\ coming > 0 /\ got' = got + 1 /\ coming' = coming - 1
        /\ \/ kept' = kept \cup {got + 1} /\ faults' = faults
           \/ faults' = faults \cup {"disk"} /\ kept' = kept
        /\ UNCHANGED <<has, giving, took, pos, asking, inNet, unread, reply, reset>>
        BY <1>3 DEF Download, serverFile
  <2>2. got \in Nat /\ coming \in Nat /\ kept \subseteq 1 .. got
        BY DEF FInv, FileTypes
  <2>3. kept' \subseteq 1 .. got' /\ Stored'
    <3>1. 1 .. got + 1 = (1 .. got) \cup {got + 1}
          BY <2>2
    <3> QED
          BY <2>1, <2>2, <3>1 DEF FInv, Stored
  <2>4. FileTypes' /\ Name' /\ Answered' /\ Obeyed' /\ NoReset' /\ Chunks'
    <3>1. coming' \in Nat /\ got' \in Nat /\ got' + coming' = got + coming
          BY <2>1, <2>2
    <3>2. FileTypes'
          BY <2>1, <2>3, <3>1 DEF FInv, FileTypes
    <3>3. Name' /\ Answered' /\ Obeyed' /\ NoReset'
          BY <2>1 DEF FInv, Name, Answered, Obeyed, NoReset
    <3>4. Chunks'
          BY <2>1, <3>1 DEF FInv, Chunks
    <3> QED
          BY <3>2, <3>3, <3>4
  <2> QED
        BY <2>3, <2>4 DEF FInv
<1>4. CASE DownloadEnds
      BY <1>0, <1>4 DEF DownloadEnds, serverFile, FInv, FileTypes, Name, Answered, Obeyed,
         NoReset, Chunks, Stored
<1> QED
      BY <1>1, <1>2, <1>3, <1>4

LEMMA StepFInv == FInv /\ [FileNext]_fileVars => FInv'
<1> SUFFICES ASSUME FInv, [FileNext]_fileVars PROVE FInv'
    OBVIOUS
<1>1. CASE UNCHANGED fileVars
  <2>1. UNCHANGED <<has, giving, took, pos, asking, got, kept, inNet, unread, reply, coming,
                    reset, faults>>
        BY <1>1 DEF fileVars, serverFile, clientFile
  <2>2. FileTypes'
        BY <2>1 DEF FInv, FileTypes
  <2>3. Name'
        BY <2>1 DEF FInv, Name
  <2>4. Answered'
        BY <2>1 DEF FInv, Answered
  <2>5. Obeyed' /\ NoReset'
        BY <2>1 DEF FInv, Obeyed, NoReset
  <2>6. Chunks' /\ Stored'
        BY <2>1 DEF FInv, Chunks, Stored
  <2> QED
        BY <2>2, <2>3, <2>4, <2>5, <2>6 DEF FInv
<1> QED
      BY <1>1, NetworkFInv, ServerFInv, ClientFInv DEF FileNext

\* For any name and file, any way in which TCP cuts them, and any fault: a
\* download that is reported as done ends early only because the connection
\* was cut, the server's fread() failed or TCP split the name, has gaps only
\* because the client's disk failed, and is, as a refusal, about the file by
\* what the server took for the name.
THEOREM DownloadSafe == FileSpec => []DownloadIsWhole
<1>1. FInv => DownloadIsWhole
  <2> SUFFICES ASSUME FInv PROVE DownloadIsWhole
      OBVIOUS
  <2>1. ASSUME asking = "done" PROVE has[took] /\ reply = "y"
        BY <2>1 DEF FInv, Obeyed, Answered
  <2>2. ASSUME asking = "done", took = NameLen, faults \cap {"cut", "read"} = {}
        PROVE  got = FileLen
    <3>1. reply = "y" /\ ~reset /\ "read" \notin faults
          BY <2>1, <2>2 DEF FInv, NoReset
    <3>2. giving = "ended" /\ coming = 0 /\ pos = FileLen /\ got + coming = pos
          BY <2>2, <3>1 DEF FInv, Chunks
    <3>3. got \in Nat
          BY DEF FInv, FileTypes
    <3> QED
          BY <3>2, <3>3
  <2>3. ASSUME asking = "none" PROVE ~has[took]
        BY <2>3 DEF FInv, Obeyed, Answered
  <2> QED
        BY <2>1, <2>2, <2>3 DEF DownloadIsWhole, FInv, Stored
<1> QED
      BY <1>1, InitFInv, StepFInv, PTL DEF FileSpec
=============================================================================
