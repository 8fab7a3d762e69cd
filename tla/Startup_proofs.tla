--------------------------- MODULE Startup_proofs ---------------------------
(***************************************************************************)
(* Startup for every number that a user may write and every number of      *)
(* addresses: the programs that check their port use what was written,     *)
(* none holds more than one socket, and none runs past its list.           *)
(***************************************************************************)
EXTENDS Startup, TLAPS

-----------------------------------------------------------------------------
(* The port                                                                *)

LEMMA NumbersAreNat ==
    ASSUME NEW n \in Numbers
    PROVE  n \in Nat
BY StartupAssumption DEF StartupAssumption

\* What parse_port() does not refuse is the number itself, without a minus
\* before it or anything after it.
LEMMA Parsed ==
    ASSUME NEW a \in Arg, parse_port(a) # -1
    PROVE  /\ parse_port(a) = a.number
           /\ a.number \in Nat /\ 1 <= a.number /\ a.number <= MaxPort
           /\ ~a.tail /\ a.lead \in {"none", "zero", "plus", "blank"}
<1>1. a.lead \in Leads /\ a.number \in Nat
      BY NumbersAreNat DEF Arg
<1>2. Converts(a) /\ ~a.tail /\ 1 <= strtol(a) /\ strtol(a) <= MaxPort
      BY DEF parse_port
<1>3. parse_port(a) = strtol(a)
      BY <1>2 DEF parse_port
<1>4. a.lead # "letter"
      BY <1>2 DEF Converts
<1>5. a.lead # "minus" /\ strtol(a) = a.number
      BY <1>1, <1>2 DEF strtol
<1> QED
      BY <1>1, <1>2, <1>3, <1>4, <1>5 DEF Leads

\* htons() is exact on the numbers of ports.
LEMMA Exact ==
    ASSUME NEW n \in Nat, n <= MaxPort
    PROVE  htons(n) = n
BY DEF htons, MaxPort

LEMMA Accepted ==
    ASSUME arg \in Arg, program.port \in CheckedPort,
           NEW n \in PortOf(program, arg), n # -1
    PROVE  Written(program.port, htons(n))
<1>1. CASE program.port = "parse_port"
  <2>1. n = parse_port(arg)
        BY <1>1 DEF PortOf
  <2> QED
        BY <1>1, <2>1, Parsed, Exact DEF Written
<1>2. CASE program.port = "check_port"
  <2>1. n = check_port(arg)
        BY <1>2 DEF PortOf
  <2>2. n = parse_port(arg) /\ arg.lead \in {"none", "zero"}
        BY <2>1 DEF check_port
  <2> QED
        BY <1>2, <2>2, Parsed, Exact DEF Written
<1>3. CASE program.port = "strict"
  <2>1. n = check_port_NoZero(arg)
        BY <1>3 DEF PortOf
  <2>2. n = parse_port(arg) /\ arg.lead = "none"
        BY <2>1 DEF check_port_NoZero
  <2> QED
        BY <1>3, <2>2, Parsed, Exact DEF Written
<1>4. CASE program.port = "service"
  <2>1. n = IF parse_port(arg) = -1 THEN -1 ELSE service(arg)
        BY <1>4 DEF PortOf
  <2>2. parse_port(arg) # -1 /\ n = arg.number
        BY <2>1 DEF service
  <2> QED
        BY <1>4, <2>2, Parsed, Exact DEF Written
<1> QED
      BY <1>1, <1>2, <1>3, <1>4 DEF CheckedPort

PInv == arg \in Arg /\ PortAsWritten

LEMMA StepPInv == PInv /\ [StartNext]_startVars => PInv'
<1> SUFFICES ASSUME PInv, [StartNext]_startVars PROVE PInv'
    OBVIOUS
<1>1. CASE ReadPort
  <2>1. UNCHANGED <<program, arg>> /\ arg \in Arg
        BY <1>1 DEF ReadPort, setup, PInv
  <2>2. PICK n \in PortOf(program, arg) :
           /\ status' = IF Refused(n) THEN "exited" ELSE "calls"
           /\ port' = htons(n)
        BY <1>1 DEF ReadPort
  <2>3. CASE Refused(n) \/ program.port \notin CheckedPort
        BY <2>1, <2>2, <2>3 DEF PInv, PortAsWritten, CheckedPort
  <2>4. CASE ~Refused(n) /\ program.port \in CheckedPort
    <3>1. n # -1
          BY <2>4 DEF Refused, CheckedPort
    <3>2. Written(program.port, port')
          BY <2>1, <2>2, <2>4, <3>1, Accepted
    <3> QED
          BY <2>1, <3>2 DEF PInv, PortAsWritten, Written
  <2> QED
        BY <2>3, <2>4
<1>2. CASE Runs
      BY <1>2 DEF Runs, setup, PInv, PortAsWritten, Written
<1>3. ASSUME NEW i \in 1 .. Len(program.calls),
             LET c == program.calls[i] IN
                Succeeds(c) \/ FailsAndEnds(c) \/ FailsIgnored(c) \/ NextAddress(c)
      PROVE  PInv'
  <2>1. /\ status = "calls" /\ status' \in {"calls", "exited"}
        /\ UNCHANGED <<program, arg, port>>
        BY <1>3 DEF Succeeds, FailsAndEnds, FailsIgnored, NextAddress, AtCall, setup
  <2> QED
        BY <2>1 DEF PInv, PortAsWritten, Written
<1>4. CASE UNCHANGED startVars
      BY <1>4 DEF startVars, setup, PInv, PortAsWritten, Written
<1> QED
      BY <1>1, <1>2, <1>3, <1>4 DEF StartNext

\* A program that checks its port never works with another one than the user
\* wrote, whatever the user writes: no sign, no rest of a text, no number
\* beyond 16 bits gets through.
THEOREM PortSafe == StartSpec => []PortAsWritten
<1>1. StartInit => PInv
      BY DEF StartInit, PInv, PortAsWritten
<1>2. PInv => PortAsWritten
      BY DEF PInv
<1> QED
      BY <1>1, <1>2, StepPInv, PTL DEF StartSpec

-----------------------------------------------------------------------------
(* The sockets                                                             *)

\* The k-th call is the one socket() of program p; before it there is nothing
\* to close, and what closes after it comes after a socket() that is checked.
Shape(p, k) ==
    /\ Len(p.calls) \in Nat /\ k \in 1 .. Len(p.calls)
    /\ p.calls[k].fails # "close"
    /\ \A i \in 1 .. Len(p.calls) :
          /\ p.calls[i].call = "socket" <=> i = k
          /\ i < k => p.calls[i].fails = "exit"
          /\ i > k /\ p.calls[i].fails \in {"close", "next"}
                => p.calls[k].fails # "ignore"

LEMMA SocketFirst ==
    /\ Shape(duplexChatClient, 1) /\ Shape(duplex_chat_serverV2, 1)
    /\ Shape(duplex_chat_server, 1) /\ Shape(TCP_serverV2, 1)
    /\ Shape(TCP_server, 1) /\ Shape(TCP_clientV2, 1) /\ Shape(TCP_client, 1)
    /\ Shape(time_serverV2, 1) /\ Shape(TimeServer, 1)
    /\ Shape(TCP_time_clientV2, 1) /\ Shape(TCP_time_client, 1)
BY DEF Shape, Program, On, duplexChatClient, duplex_chat_serverV2,
    duplex_chat_server, TCP_serverV2, TCP_server, TCP_clientV2, TCP_client,
    time_serverV2, TimeServer, TCP_time_clientV2, TCP_time_client

LEMMA AfterResolving ==
    /\ Shape(chat_room_serverV2, 3) /\ Shape(chat_room_server, 2)
    /\ Shape(chat_room_clientV2, 2) /\ Shape(chat_room_client, 2)
    /\ Shape(file_server, 2) /\ Shape(file_client, 2)
    /\ Shape(fetch_web_page, 2) /\ Shape(port_scanner, 2)
    /\ Shape(duplex_chat_clientV2, 2)
BY DEF Shape, Program, On, chat_room_serverV2, chat_room_server,
    chat_room_clientV2, chat_room_client, file_server, file_client,
    fetch_web_page, port_scanner, duplex_chat_clientV2

LEMMA AfterAddress ==
    /\ Shape(command_execution_server, 2) /\ Shape(command_execution_client, 2)
    /\ Shape(load_server, 2) /\ Shape(load_client, 2)
    /\ Shape(basic_udp_serverV2, 2) /\ Shape(basic_udp_server, 2)
    /\ Shape(basic_udp_clientV2, 2) /\ Shape(basic_udp_client, 2)
BY DEF Shape, Program, On, command_execution_server, command_execution_client,
    load_server, load_client, basic_udp_serverV2, basic_udp_server,
    basic_udp_clientV2, basic_udp_client

LEMMA AfterInput ==
    /\ Shape(file_transfer_serverV2, 4) /\ Shape(file_transfer_server, 4)
    /\ Shape(file_transfer_client, 5)
BY DEF Shape, Program, On, file_transfer_serverV2, file_transfer_server,
    file_transfer_client

LEMMA SocketOnce ==
    ASSUME program \in Programs
    PROVE  Shape(program, FirstCall)
<1>1. PICK k : Shape(program, k)
      BY SocketFirst, AfterResolving, AfterAddress, AfterInput DEF Programs
<1>2. \E i \in 1 .. Len(program.calls) : program.calls[i].call = "socket"
      BY <1>1 DEF Shape
<1>3. /\ FirstCall \in 1 .. Len(program.calls)
      /\ program.calls[FirstCall].call = "socket"
      BY <1>2 DEF FirstCall
<1>4. FirstCall = k
      BY <1>1, <1>3 DEF Shape
<1> QED
      BY <1>1, <1>4

\* Up to the call of socket() there is no socket, and after it one, unless
\* the program does not look whether it failed.
HeldAt(k) ==
    /\ step <= k => open = 0
    /\ step > k /\ program.calls[k].fails # "ignore" => open = 1

SInv ==
    /\ program \in Programs
    /\ status \in {"args", "calls", "running", "exited"}
    /\ open \in {0, 1}
    /\ step \in Nat \ {0}
    /\ status = "args" => step = 1
    /\ status # "exited" => \A k : Shape(program, k) => HeldAt(k)
    /\ status = "exited" /\ program.calls[step].fails \in {"close", "next"}
          => open = 0

\* What a program does at a call leads from one such state to another.
LEMMA CallStep ==
    ASSUME SInv, NEW i \in 1 .. Len(program.calls), NEW c, c = program.calls[i],
           Succeeds(c) \/ FailsAndEnds(c) \/ FailsIgnored(c) \/ NextAddress(c)
    PROVE  SInv'
<1>1. PICK k : k = FirstCall /\ Shape(program, k) /\ \A j : Shape(program, j) => j = k
  <2>1. Shape(program, FirstCall)
        BY SocketOnce DEF SInv
  <2> QED
        BY <2>1 DEF Shape
<1>2. /\ program.calls[step] = c /\ status = "calls" /\ program' = program
      /\ step \in Nat /\ 1 <= step /\ step <= Len(program.calls)
      BY DEF AtCall, Succeeds, FailsAndEnds, FailsIgnored, NextAddress, setup, SInv
<1>3. HeldAt(k) /\ open \in {0, 1}
      BY <1>1, <1>2 DEF SInv
<1>4. k \in Nat /\ 1 <= k
      BY <1>1 DEF Shape
<1>5. /\ c.call = "socket" <=> step = k
      /\ step < k => c.fails = "exit"
      /\ step > k /\ c.fails \in {"close", "next"} => program.calls[k].fails # "ignore"
      /\ program.calls[k].fails # "close"
      BY <1>1, <1>2, <1>4 DEF Shape
<1>6. ASSUME HeldAt(k)', status' = "calls", open' \in {0, 1}, step' \in Nat \ {0}
      PROVE  SInv'
      BY <1>1, <1>2, <1>6 DEF SInv
<1>7. CASE Succeeds(c)
  <2>1. /\ step' = step + 1 /\ status' = status
        /\ open' = IF step = k THEN open + 1 ELSE open
        BY <1>5, <1>7 DEF Succeeds
  <2> QED
        BY <1>2, <1>3, <1>4, <1>5, <1>6, <2>1 DEF HeldAt
<1>8. CASE FailsAndEnds(c)
  <2>1. /\ status' = "exited" /\ step' = step /\ c.fails \in {"exit", "close"}
        /\ open' = IF c.fails = "close" THEN open - 1 ELSE open
        BY <1>8 DEF FailsAndEnds
  <2>2. c.fails = "close" => open = 1
        BY <1>2, <1>3, <1>4, <1>5 DEF HeldAt
  <2>3. open' \in {0, 1} /\ (c.fails = "close" => open' = 0)
        BY <1>3, <2>1, <2>2
  <2> QED
        BY <1>2, <2>1, <2>3 DEF SInv
<1>9. CASE FailsIgnored(c)
  <2>1. /\ step' = step + 1 /\ UNCHANGED <<status, open>> /\ c.fails = "ignore"
        BY <1>9 DEF FailsIgnored
  <2> QED
        BY <1>2, <1>3, <1>4, <1>5, <1>6, <2>1 DEF HeldAt
<1>10. CASE NextAddress(c)
  <2>1. /\ open' = (IF step = k THEN open ELSE open - 1) /\ c.fails = "next"
        /\ \/ step' = k /\ status' = status
           \/ step' = step /\ status' = "exited"
        BY <1>1, <1>5, <1>10 DEF NextAddress, Closed
  <2>2. open' = 0
        BY <1>2, <1>3, <1>4, <1>5, <2>1 DEF HeldAt
  <2>3. CASE step' = k /\ status' = status
        BY <1>2, <1>4, <1>6, <2>2, <2>3 DEF HeldAt
  <2>4. CASE step' = step /\ status' = "exited"
        BY <1>2, <2>2, <2>4 DEF SInv
  <2> QED
        BY <2>1, <2>3, <2>4
<1> QED
      BY <1>7, <1>8, <1>9, <1>10

LEMMA StepSInv == SInv /\ [StartNext]_startVars => SInv'
<1> SUFFICES ASSUME SInv, [StartNext]_startVars PROVE SInv'
    OBVIOUS
<1>1. CASE ReadPort
  <2>1. /\ status = "args" /\ status' \in {"calls", "exited"}
        /\ UNCHANGED <<program, step, open>>
        BY <1>1 DEF ReadPort, setup
  <2>2. open = 0
    <3>1. Shape(program, FirstCall) /\ HeldAt(FirstCall) /\ step = 1
          BY <2>1, SocketOnce DEF SInv
    <3> QED
          BY <3>1 DEF Shape, HeldAt
  <2> QED
        BY <2>1, <2>2 DEF SInv, HeldAt
<1>2. CASE Runs
      BY <1>2 DEF Runs, setup, SInv, HeldAt
<1>3. ASSUME NEW i \in 1 .. Len(program.calls),
             LET c == program.calls[i] IN
                Succeeds(c) \/ FailsAndEnds(c) \/ FailsIgnored(c) \/ NextAddress(c)
      PROVE  SInv'
      BY <1>3, CallStep
<1>4. CASE UNCHANGED startVars
      BY <1>4 DEF startVars, setup, SInv, HeldAt
<1> QED
      BY <1>1, <1>2, <1>3, <1>4 DEF StartNext

LEMMA InitSInv == StartInit => SInv
<1> SUFFICES ASSUME StartInit PROVE SInv
    OBVIOUS
<1>1. \A k : Shape(program, k) => HeldAt(k)
      BY DEF StartInit, Shape, HeldAt
<1> QED
      BY <1>1 DEF StartInit, SInv

\* No program holds two sockets, or keeps one of an address that it has given
\* up, however long the list of addresses is and wherever a call fails.
THEOREM OneSocketSafe == StartSpec => []OneSocket
<1>1. StartInit => SInv
      BY InitSInv
<1>2. SInv => OneSocket
      BY DEF SInv, OneSocket
<1> QED
      BY <1>1, <1>2, StepSInv, PTL DEF StartSpec

-----------------------------------------------------------------------------
(* Types                                                                   *)

LEMMA PortIsInt ==
    ASSUME NEW p, NEW a \in Arg, NEW n \in PortOf(p, a)
    PROVE  n \in Int
<1>1. a.number \in Nat
      BY NumbersAreNat DEF Arg
<1>2. strtol(a) \in Int
      BY <1>1 DEF strtol
<1>3. parse_port(a) \in Int
      BY <1>2 DEF parse_port
<1>4. check_port(a) \in Int /\ check_port_NoZero(a) \in Int
      BY <1>3 DEF check_port, check_port_NoZero
<1>5. atoi(a) \subseteq Int
      BY <1>2 DEF atoi
<1>5a. service(a) \in Int
      BY <1>1 DEF service
<1>6. \/ n \in {parse_port(a), check_port(a), check_port_NoZero(a), a.number}
      \/ n = IF parse_port(a) = -1 THEN -1 ELSE service(a)
      \/ n \in atoi(a)
      BY Zenon DEF PortOf
<1>7. CASE n \in {parse_port(a), check_port(a), check_port_NoZero(a), a.number}
      BY <1>1, <1>3, <1>4, <1>7
<1>8. CASE n \in atoi(a)
      BY <1>5, <1>8
<1>9. CASE n = IF parse_port(a) = -1 THEN -1 ELSE service(a)
      BY <1>5a, <1>9
<1> QED
      BY <1>6, <1>7, <1>8, <1>9

LEMMA SixteenBits ==
    ASSUME NEW n \in Int
    PROVE  htons(n) \in 0 .. MaxPort
<1>1. PICK k \in Nat : k = MaxPort /\ k + 1 = 65536
      BY DEF MaxPort
<1>2. htons(n) = n % 65536
      BY <1>1 DEF htons
<1>3. n % 65536 \in Int /\ 0 <= n % 65536 /\ n % 65536 < k + 1
      BY <1>1
<1>4. htons(n) \in 0 .. k
      BY <1>2, <1>3
<1> QED
      BY <1>1, <1>4

LEMMA SocketLength ==
    ASSUME program \in Programs
    PROVE  Len(program.calls) \in Nat \ {0}
BY SocketOnce DEF Shape

\* Beside the types: there are calls to make, and an address to try.
Lists ==
    /\ Len(program.calls) \in Nat \ {0} /\ Len(works) \in Nat
TInv == StartTypeOK /\ Lists /\ SInv

LEMMA StepTInv == TInv /\ [StartNext]_startVars => TInv'
<1> SUFFICES ASSUME TInv, [StartNext]_startVars PROVE TInv'
    OBVIOUS
<1>0. SInv' /\ open' \in Nat
  <2>1. SInv'
        BY StepSInv DEF TInv
  <2> QED
        BY <2>1 DEF SInv
<1>1. CASE ReadPort
  <2>1. PICK n \in PortOf(program, arg) : port' = htons(n)
        BY <1>1 DEF ReadPort
  <2>2. port' \in 0 .. MaxPort
        BY <2>1, PortIsInt, SixteenBits DEF TInv, StartTypeOK
  <2>3. status' \in {"calls", "exited"} /\ UNCHANGED <<setup, step, addr, open>>
        BY <1>1 DEF ReadPort
  <2> QED
        BY <1>0, <2>2, <2>3 DEF TInv, StartTypeOK, Lists, setup
<1>2. CASE Runs
      BY <1>0, <1>2 DEF Runs, setup, TInv, StartTypeOK, Lists
<1>3. ASSUME NEW i \in 1 .. Len(program.calls), NEW c, c = program.calls[i],
             Succeeds(c) \/ FailsAndEnds(c) \/ FailsIgnored(c) \/ NextAddress(c)
      PROVE  TInv'
  <2>1. /\ UNCHANGED <<setup, port>> /\ status' \in {"calls", "exited"}
        /\ step \in 1 .. Len(program.calls)
        BY <1>3 DEF Succeeds, FailsAndEnds, FailsIgnored, NextAddress, AtCall,
           TInv, StartTypeOK, Lists
  <2>2. program.calls' = program.calls /\ works' = works /\ program' = program
        BY <2>1 DEF setup
  <2>3. /\ step' \in {step, step + 1, FirstCall}
        /\ addr' \in {addr, addr + 1} /\ (addr' = addr + 1 => addr' <= Len(works))
        BY <1>3 DEF Succeeds, FailsAndEnds, FailsIgnored, NextAddress, TInv, StartTypeOK, Lists
  <2>4. FirstCall \in 1 .. Len(program.calls)
        BY SocketOnce DEF TInv, StartTypeOK, Shape
  <2> QED
        BY <1>0, <2>1, <2>2, <2>3, <2>4 DEF TInv, StartTypeOK, Lists, setup
<1>4. CASE UNCHANGED startVars
      BY <1>0, <1>4 DEF startVars, setup, TInv, StartTypeOK, Lists
<1> QED
      BY <1>1, <1>2, <1>3, <1>4 DEF StartNext

LEMMA InitTInv == StartInit => TInv
<1> SUFFICES ASSUME StartInit PROVE TInv
    OBVIOUS
<1>1. PICK n \in 1 .. MaxAddrs :
         works \in [1 .. (IF program.list THEN n ELSE 1) -> BOOLEAN]
      BY DEF StartInit
<1>2. Len(works) \in Nat /\ 1 <= Len(works)
      BY <1>1, StartupAssumption DEF StartupAssumption
<1>3. Len(program.calls) \in Nat \ {0}
      BY SocketLength DEF StartInit
<1>4. SInv
      BY InitSInv
<1>5. /\ program \in Programs /\ arg \in Arg /\ status = "args"
      /\ port = 0 /\ step = 1 /\ addr = 1 /\ open = 0
      BY DEF StartInit
<1> QED
      BY <1>2, <1>3, <1>4, <1>5 DEF TInv, StartTypeOK, Lists, MaxPort

\* The calls and the addresses are never run past, and a port has 16 bits,
\* whatever the argument.
THEOREM StartTypeCorrect == StartSpec => []StartTypeOK
<1>1. StartInit => TInv
      BY InitTInv
<1>2. TInv => StartTypeOK
      BY DEF TInv
<1> QED
      BY <1>1, <1>2, StepTInv, PTL DEF StartSpec

-----------------------------------------------------------------------------
(* What the main part finds                                                *)

\* Beside its shape: nothing works with a socket before there is one; who
\* goes through the addresses does so at every call that depends on them;
\* and of the calls that a program needs only socket() may fail unnoticed,
\* when one that needs the socket comes later and is looked at.
Address == {"socket", "bind", "connect"}
Essential == {"socket", "bind", "listen", "connect"}
Notices(p, j) == p.calls[j].fails = "exit" /\ p.calls[j].call \in OnSocket

Careful(p, k, needed) ==
    /\ \A i \in 1 .. Len(p.calls) : i < k => p.calls[i].call \notin OnSocket
    /\ (\E i \in 1 .. Len(p.calls) : p.calls[i].fails = "next") =>
          /\ k > 1
          /\ \A i \in 1 .. Len(p.calls) :
                p.calls[i].fails = "next" <=> p.calls[i].call \in Address
    /\ \A i \in 1 .. Len(p.calls) :
          p.calls[i].fails = "ignore" /\ p.calls[i].call \in needed =>
              i = k /\ \E j \in 1 .. Len(p.calls) : k < j /\ Notices(p, j)

LEMMA CarefulFirst ==
    /\ Careful(duplexChatClient, 1, Essential) /\ Careful(duplex_chat_serverV2, 1, Essential)
    /\ Careful(duplex_chat_server, 1, Essential) /\ Careful(TCP_serverV2, 1, Essential)
    /\ Careful(TCP_server, 1, {}) /\ Careful(TCP_clientV2, 1, Essential)
    /\ Careful(TCP_client, 1, {}) /\ Careful(time_serverV2, 1, Essential)
    /\ Careful(TimeServer, 1, Essential) /\ Careful(TCP_time_clientV2, 1, Essential)
    /\ Careful(TCP_time_client, 1, Essential)
<1>1. Careful(duplexChatClient, 1, Essential)
      BY DEF Careful, Notices, Address, Essential, OnSocket, Program, On, duplexChatClient
<1>2. Careful(duplex_chat_serverV2, 1, Essential)
      BY DEF Careful, Notices, Address, Essential, OnSocket, Program, On, duplex_chat_serverV2
<1>3. Careful(duplex_chat_server, 1, Essential)
      BY DEF Careful, Notices, Address, Essential, OnSocket, Program, On, duplex_chat_server
<1>4. Careful(TCP_serverV2, 1, Essential)
      BY DEF Careful, Notices, Address, Essential, OnSocket, Program, On, TCP_serverV2
<1>5. Careful(TCP_server, 1, {})
      BY DEF Careful, Notices, Address, Essential, OnSocket, Program, On, TCP_server
<1>6. Careful(TCP_clientV2, 1, Essential)
      BY DEF Careful, Notices, Address, Essential, OnSocket, Program, On, TCP_clientV2
<1>7. Careful(TCP_client, 1, {})
      BY DEF Careful, Notices, Address, Essential, OnSocket, Program, On, TCP_client
<1>8. Careful(time_serverV2, 1, Essential)
      BY DEF Careful, Notices, Address, Essential, OnSocket, Program, On, time_serverV2
<1>9. Careful(TimeServer, 1, Essential)
      BY DEF Careful, Notices, Address, Essential, OnSocket, Program, On, TimeServer
<1>10. Careful(TCP_time_clientV2, 1, Essential)
      BY DEF Careful, Notices, Address, Essential, OnSocket, Program, On, TCP_time_clientV2
<1>11. Careful(TCP_time_client, 1, Essential)
      BY DEF Careful, Notices, Address, Essential, OnSocket, Program, On, TCP_time_client
<1> QED
      BY <1>1, <1>2, <1>3, <1>4, <1>5, <1>6, <1>7, <1>8, <1>9, <1>10, <1>11

LEMMA CarefulResolving ==
    /\ Careful(chat_room_serverV2, 3, Essential) /\ Careful(chat_room_server, 2, Essential)
    /\ Careful(chat_room_clientV2, 2, Essential) /\ Careful(chat_room_client, 2, Essential)
    /\ Careful(file_server, 2, Essential) /\ Careful(file_client, 2, Essential)
    /\ Careful(fetch_web_page, 2, Essential)
    /\ Careful(port_scanner, 2, Essential \ {"connect"})
    /\ Careful(duplex_chat_clientV2, 2, Essential)
<1>1. Careful(chat_room_serverV2, 3, Essential)
      BY DEF Careful, Notices, Address, Essential, OnSocket, Program, On, chat_room_serverV2
<1>2. Careful(chat_room_server, 2, Essential)
      BY DEF Careful, Notices, Address, Essential, OnSocket, Program, On, chat_room_server
<1>3. Careful(chat_room_clientV2, 2, Essential)
      BY DEF Careful, Notices, Address, Essential, OnSocket, Program, On, chat_room_clientV2
<1>4. Careful(chat_room_client, 2, Essential)
      BY DEF Careful, Notices, Address, Essential, OnSocket, Program, On, chat_room_client
<1>5. Careful(file_server, 2, Essential)
      BY DEF Careful, Notices, Address, Essential, OnSocket, Program, On, file_server
<1>6. Careful(file_client, 2, Essential)
      BY DEF Careful, Notices, Address, Essential, OnSocket, Program, On, file_client
<1>7. Careful(fetch_web_page, 2, Essential)
      BY DEF Careful, Notices, Address, Essential, OnSocket, Program, On, fetch_web_page
<1>8. Careful(port_scanner, 2, Essential \ {"connect"})
      BY DEF Careful, Notices, Address, Essential, OnSocket, Program, On, port_scanner
<1>9. Careful(duplex_chat_clientV2, 2, Essential)
      BY DEF Careful, Notices, Address, Essential, OnSocket, Program, On, duplex_chat_clientV2
<1> QED
      BY <1>1, <1>2, <1>3, <1>4, <1>5, <1>6, <1>7, <1>8, <1>9

LEMMA CarefulAddress ==
    /\ Careful(command_execution_server, 2, Essential)
    /\ Careful(command_execution_client, 2, Essential)
    /\ Careful(load_server, 2, Essential) /\ Careful(load_client, 2, Essential)
    /\ Careful(basic_udp_serverV2, 2, Essential) /\ Careful(basic_udp_server, 2, Essential)
    /\ Careful(basic_udp_clientV2, 2, Essential) /\ Careful(basic_udp_client, 2, Essential)
<1>1. Careful(command_execution_server, 2, Essential)
      BY DEF Careful, Notices, Address, Essential, OnSocket, Program, On, command_execution_server
<1>2. Careful(command_execution_client, 2, Essential)
      BY DEF Careful, Notices, Address, Essential, OnSocket, Program, On, command_execution_client
<1>3. Careful(load_server, 2, Essential)
      BY DEF Careful, Notices, Address, Essential, OnSocket, Program, On, load_server
<1>4. Careful(load_client, 2, Essential)
      BY DEF Careful, Notices, Address, Essential, OnSocket, Program, On, load_client
<1>5. Careful(basic_udp_serverV2, 2, Essential)
      BY DEF Careful, Notices, Address, Essential, OnSocket, Program, On, basic_udp_serverV2
<1>6. Careful(basic_udp_server, 2, Essential)
      BY DEF Careful, Notices, Address, Essential, OnSocket, Program, On, basic_udp_server
<1>7. Careful(basic_udp_clientV2, 2, Essential)
      BY DEF Careful, Notices, Address, Essential, OnSocket, Program, On, basic_udp_clientV2
<1>8. Careful(basic_udp_client, 2, Essential)
      BY DEF Careful, Notices, Address, Essential, OnSocket, Program, On, basic_udp_client
<1> QED
      BY <1>1, <1>2, <1>3, <1>4, <1>5, <1>6, <1>7, <1>8

LEMMA CarefulInput ==
    /\ Careful(file_transfer_serverV2, 4, Essential)
    /\ Careful(file_transfer_server, 4, Essential)
    /\ Careful(file_transfer_client, 5, Essential)
BY DEF Careful, Notices, Address, Essential, OnSocket, Program, On,
    file_transfer_serverV2, file_transfer_server, file_transfer_client

NeededBy == {c \in Essential : c = "connect" => program # port_scanner}

LEMMA NeedsIt ==
    ASSUME NEW c, Needs(c)
    PROVE  c.call \in NeededBy
BY DEF Needs, NeededBy, Essential

LEMMA ProgramIsCareful ==
    ASSUME program \in Programs
    PROVE  Careful(program, FirstCall, IF program \in Unchecked THEN {} ELSE NeededBy)
<1> DEFINE needed == IF program \in Unchecked THEN {} ELSE NeededBy
<1>1. ASSUME NEW k, NEW k2, Shape(program, k), Shape(program, k2) PROVE k = k2
      BY <1>1 DEF Shape
<1>2. Shape(program, FirstCall)
      BY SocketOnce
<1>3. ASSUME NEW k, Shape(program, k), NEW s, Careful(program, k, s), needed \subseteq s
      PROVE  Careful(program, FirstCall, needed)
  <2>1. k = FirstCall
        BY <1>1, <1>2, <1>3
  <2> QED
        BY <1>3, <2>1 DEF Careful
<1>4. needed \subseteq Essential
      BY DEF NeededBy
<1>5. CASE program \in {TCP_server, TCP_client}
  <2>1. needed = {} /\ Shape(program, 1) /\ Careful(program, 1, {})
        BY <1>5, SocketFirst, CarefulFirst DEF Unchecked
  <2> QED
        BY <1>3, <2>1
<1>6. CASE program = port_scanner
  <2>1. needed \subseteq Essential \ {"connect"}
        BY <1>6 DEF NeededBy
  <2> QED
        BY <1>3, <1>6, <2>1, AfterResolving, CarefulResolving
<1>7. CASE program \notin {TCP_server, TCP_client, port_scanner}
  <2>1. \E k : Shape(program, k) /\ Careful(program, k, Essential)
        BY <1>7, SocketFirst, AfterResolving, AfterAddress, AfterInput, CarefulFirst,
           CarefulResolving, CarefulAddress, CarefulInput DEF Programs
  <2> QED
        BY <1>3, <1>4, <2>1
<1> QED
      BY <1>5, <1>6, <1>7

\* What a program needs was done, but for a socket() whose failure nothing
\* has noticed yet; and no address works that it has given up.
Skipped(k) ==
    /\ program.calls[k].fails = "ignore" /\ open = 0
    /\ \A j \in 1 .. Len(program.calls) : k < j /\ j < step => ~Notices(program, j)
DoneSoFar(k) == \A i \in 1 .. Len(program.calls) :
    i < step /\ Needs(program.calls[i]) =>
        program.calls[i].call \in done \/ (i = k /\ Skipped(k))

NInv ==
    /\ status = "calls" /\ program \notin Unchecked => DoneSoFar(FirstCall)
    /\ status # "exited" => \A a \in 1 .. Len(works) : a < addr => ~works[a]
    /\ SocketOrNone

LEMMA CallNInv ==
    ASSUME TInv, NInv, NEW i \in 1 .. Len(program.calls), NEW c, c = program.calls[i],
           Succeeds(c) \/ FailsAndEnds(c) \/ FailsIgnored(c) \/ NextAddress(c)
    PROVE  NInv'
<1>0. PICK k : k = FirstCall /\ k = FirstCall'
  <2>1. UNCHANGED program
        BY DEF Succeeds, FailsAndEnds, FailsIgnored, NextAddress, setup
  <2> QED
        BY <2>1 DEF FirstCall
<1>1. /\ Shape(program, k)
      /\ Careful(program, k, IF program \in Unchecked THEN {} ELSE NeededBy)
      BY <1>0, SocketOnce, ProgramIsCareful DEF TInv, StartTypeOK
<1>2. /\ c = program.calls[step] /\ status = "calls" /\ UNCHANGED <<program, works>>
      /\ step \in 1 .. Len(program.calls) /\ Len(program.calls) \in Nat
      /\ addr \in 1 .. Len(works) /\ Len(works) \in Nat /\ k \in 1 .. Len(program.calls)
      BY <1>1 DEF AtCall, Succeeds, FailsAndEnds, FailsIgnored, NextAddress, setup, TInv,
         Lists, StartTypeOK, Shape
<1>3. HeldAt(k)
      BY <1>1, <1>2 DEF TInv, SInv
<1>4. /\ program \notin Unchecked => DoneSoFar(k)
      /\ \A a \in 1 .. Len(works) : a < addr => ~works[a]
      BY <1>0, <1>2 DEF NInv
<1>5. step # k => c.call # "socket"
      BY <1>1, <1>2 DEF Shape
<1>6. ASSUME status' = "calls", program \notin Unchecked => DoneSoFar(k)',
             \A a \in 1 .. Len(works) : a < addr' => ~works[a]
      PROVE  NInv'
  <2>1. SocketOrNone'
        BY <1>6 DEF SocketOrNone
  <2> QED
        BY <1>0, <1>2, <1>6, <2>1 DEF NInv
<1>7. CASE Succeeds(c)
  <2>1. /\ step' = step + 1 /\ UNCHANGED <<status, addr>> /\ done' = done \cup {c.call}
        /\ (step # k => open' = open) /\ (c.call \in OnSocket => open > 0)
        BY <1>5, <1>7 DEF Succeeds, MaySucceed
  <2>2. ASSUME program \notin Unchecked, NEW n \in 1 .. Len(program.calls), n < step',
               Needs(program.calls[n])
        PROVE  program.calls[n].call \in done' \/ (n = k /\ Skipped(k)')
    <3>1. CASE n = step
          BY <1>2, <2>1, <3>1
    <3>2. CASE n < step
      <4>1. program.calls[n].call \in done \/ (n = k /\ Skipped(k))
            BY <1>4, <2>2, <3>2 DEF DoneSoFar
      <4>2. CASE n = k /\ Skipped(k)
        <5>1. open' = 0 /\ program.calls[k].fails = "ignore" /\ c.call \notin OnSocket
              BY <2>1, <3>2, <4>2 DEF Skipped
        <5>2. \A j \in 1 .. Len(program.calls) : k < j /\ j < step' => ~Notices(program, j)
          <6>1. \A j \in 1 .. Len(program.calls) : j < step' => j < step \/ j = step
                BY <1>2, <2>1
          <6>2. ~Notices(program, step)
                BY <1>2, <5>1 DEF Notices
          <6> QED
                BY <4>2, <6>1, <6>2 DEF Skipped
        <5> QED
              BY <1>2, <4>2, <5>1, <5>2 DEF Skipped, Notices
      <4> QED
            BY <2>1, <4>1, <4>2
    <3> QED
          BY <1>2, <2>1, <2>2, <3>1, <3>2
  <2>3. program \notin Unchecked => DoneSoFar(k)'
        BY <1>2, <2>2 DEF DoneSoFar, Needs
  <2> QED
        BY <1>2, <1>4, <1>6, <2>1, <2>3
<1>8. CASE FailsIgnored(c)
  <2>1. /\ step' = step + 1 /\ UNCHANGED <<status, addr, done, open>> /\ c.fails = "ignore"
        BY <1>8 DEF FailsIgnored
  <2>2. ASSUME program \notin Unchecked, NEW n \in 1 .. Len(program.calls), n < step',
               Needs(program.calls[n])
        PROVE  program.calls[n].call \in done' \/ (n = k /\ Skipped(k)')
    <3>1. CASE n = step
      <4>1. n = k
            BY <1>1, <1>2, <2>1, <2>2, <3>1, NeedsIt DEF Careful
      <4>2. open = 0
            BY <1>2, <1>3, <3>1, <4>1 DEF HeldAt
      <4>3. \A j \in 1 .. Len(program.calls) : ~(k < j /\ j < step')
            BY <1>2, <2>1, <3>1, <4>1
      <4> QED
            BY <1>2, <2>1, <3>1, <4>1, <4>2, <4>3 DEF Skipped
    <3>2. CASE n < step
      <4>1. program.calls[n].call \in done \/ (n = k /\ Skipped(k))
            BY <1>4, <2>2, <3>2 DEF DoneSoFar
      <4>2. CASE n = k /\ Skipped(k)
        <5>1. \A j \in 1 .. Len(program.calls) : k < j /\ j < step' => ~Notices(program, j)
          <6>1. \A j \in 1 .. Len(program.calls) : j < step' => j < step \/ j = step
                BY <1>2, <2>1
          <6>2. ~Notices(program, step)
                BY <1>2, <2>1 DEF Notices
          <6> QED
                BY <4>2, <6>1, <6>2 DEF Skipped
        <5> QED
              BY <1>2, <2>1, <4>2, <5>1 DEF Skipped, Notices
      <4> QED
            BY <2>1, <4>1, <4>2
    <3> QED
          BY <1>2, <2>1, <2>2, <3>1, <3>2
  <2>3. program \notin Unchecked => DoneSoFar(k)'
        BY <1>2, <2>2 DEF DoneSoFar, Needs
  <2> QED
        BY <1>2, <1>4, <1>6, <2>1, <2>3
<1>9. CASE FailsAndEnds(c)
  <2>1. status' = "exited" /\ step' = step /\ c.fails \in {"exit", "close"}
        BY <1>9 DEF FailsAndEnds
  <2>2. SocketOrNone'
    <3>1. (\E n \in 1 .. Len(program.calls) : program.calls[n].fails = "next") =>
              c.call \notin Address
          BY <1>1, <1>2, <2>1 DEF Careful
    <3> QED
          BY <1>2, <2>1, <3>1 DEF SocketOrNone, Address
  <2> QED
        BY <2>1, <2>2 DEF NInv
<1>10. CASE NextAddress(c)
  <2>1. /\ c.fails = "next" /\ MayFail(c.call)
        /\ \/ addr < Len(works) /\ addr' = addr + 1 /\ step' = k /\ status' = status
           \/ addr = Len(works) /\ status' = "exited" /\ step' = step
        BY <1>0, <1>10 DEF NextAddress
  <2>2. ~works[addr]
    <3>1. c.call \in Address
          BY <1>1, <1>2, <2>1 DEF Careful
    <3>2. c.call # "socket" => open # 0
      <4>1. c.call # "socket" => step > k
            BY <1>1, <1>2, <2>1 DEF Shape
      <4>2. step > k => program.calls[k].fails # "ignore"
            BY <1>1, <1>2, <2>1 DEF Shape
      <4> QED
            BY <1>3, <4>1, <4>2 DEF HeldAt
    <3> QED
          BY <2>1, <3>1, <3>2 DEF MayFail, Address
  <2>3. CASE addr' = addr + 1 /\ step' = k /\ status' = status
    <3>1. \A n \in 1 .. Len(program.calls) : n < k => ~Needs(program.calls[n])
      <4>1. \A n \in 1 .. Len(program.calls) : n < k =>
                program.calls[n].call \notin OnSocket /\ program.calls[n].call # "socket"
            BY <1>1, <1>2 DEF Careful, Shape
      <4> QED
            BY <4>1 DEF Needs, OnSocket
    <3>2. DoneSoFar(k)'
          BY <1>2, <2>3, <3>1 DEF DoneSoFar, Needs
    <3>3. \A a \in 1 .. Len(works) : a < addr' => a < addr \/ a = addr
          BY <1>2, <2>3
    <3>4. \A a \in 1 .. Len(works) : a < addr' => ~works[a]
          BY <1>4, <2>2, <3>3
    <3> QED
          BY <1>2, <1>6, <2>3, <3>2, <3>4
  <2>4. CASE addr = Len(works) /\ status' = "exited" /\ step' = step
    <3>1. \A a \in 1 .. Len(works) : a < addr \/ a = addr
          BY <1>2, <2>4
    <3>2. \A a \in 1 .. Len(works) : ~works[a]
          BY <1>4, <2>2, <3>1
    <3> QED
          BY <1>2, <2>4, <3>2 DEF NInv, SocketOrNone
  <2> QED
        BY <2>1, <2>3, <2>4
<1> QED
      BY <1>7, <1>8, <1>9, <1>10

LEMMA StepNInv == TInv /\ NInv /\ [StartNext]_startVars => NInv'
<1> SUFFICES ASSUME TInv, NInv, [StartNext]_startVars PROVE NInv'
    OBVIOUS
<1>0. Shape(program, FirstCall)
      /\ Careful(program, FirstCall, IF program \in Unchecked THEN {} ELSE NeededBy)
      BY SocketOnce, ProgramIsCareful DEF TInv, StartTypeOK
<1>1. CASE ReadPort
  <2>1. /\ status' \in {"calls", "exited"} /\ step = 1 /\ Len(program.calls) \in Nat \ {0}
        /\ UNCHANGED <<program, works, step, addr>> /\ status = "args"
        BY <1>1 DEF ReadPort, setup, TInv, SInv, Lists
  <2>2. DoneSoFar(FirstCall)'
        BY <2>1 DEF DoneSoFar
  <2>3. SocketOrNone'
    <3>1. (\E i \in 1 .. Len(program.calls) : program.calls[i].fails = "next") =>
              program.calls[1].call \notin Address
      <4>1. 1 \in 1 .. Len(program.calls) /\ 1 < FirstCall =>
                program.calls[1].call \notin OnSocket /\ program.calls[1].call # "socket"
            BY <1>0 DEF Careful, Shape
      <4>2. 1 \in 1 .. Len(program.calls)
            BY <2>1
      <4>3. (\E i \in 1 .. Len(program.calls) : program.calls[i].fails = "next") =>
                1 < FirstCall
            BY <1>0 DEF Careful, Shape
      <4> QED
            BY <4>1, <4>2, <4>3 DEF Address, OnSocket
    <3> QED
          BY <2>1, <3>1 DEF SocketOrNone, Address
  <2> QED
        BY <2>1, <2>2, <2>3 DEF NInv
<1>2. CASE Runs
  <2>1. /\ status = "calls" /\ step > Len(program.calls) /\ status' = "running"
        /\ UNCHANGED <<program, works, step, addr, done, open>>
        /\ Len(program.calls) \in Nat /\ step \in Nat
        BY <1>2 DEF Runs, setup, TInv, SInv, Lists
  <2>2. ASSUME program \notin Unchecked, NEW i \in 1 .. Len(program.calls),
               Needs(program.calls[i])
        PROVE  program.calls[i].call \in done
    <3>1. program.calls[i].call \in done \/ (i = FirstCall /\ Skipped(FirstCall))
          BY <2>1, <2>2 DEF NInv, DoneSoFar
    <3>2. CASE i = FirstCall /\ Skipped(FirstCall)
      <4>1. \E j \in 1 .. Len(program.calls) : FirstCall < j /\ Notices(program, j)
            BY <1>0, <2>2, <3>2, NeedsIt DEF Careful, Skipped
      <4>2. \A j \in 1 .. Len(program.calls) : j < step
            BY <2>1
      <4> QED
            BY <3>2, <4>1, <4>2 DEF Skipped
    <3> QED
          BY <3>1, <3>2
  <2>3. SocketOrNone'
        BY <2>1, <2>2 DEF SocketOrNone, Needs
  <2> QED
        BY <2>1, <2>3 DEF NInv
<1>3. ASSUME NEW i \in 1 .. Len(program.calls),
             LET c == program.calls[i] IN
                Succeeds(c) \/ FailsAndEnds(c) \/ FailsIgnored(c) \/ NextAddress(c)
      PROVE  NInv'
      BY <1>3, CallNInv
<1>4. CASE UNCHANGED startVars
      BY <1>4 DEF startVars, setup, NInv, DoneSoFar, Skipped, SocketOrNone, Needs,
         FirstCall
<1> QED
      BY <1>1, <1>2, <1>3, <1>4 DEF StartNext

\* A program starts its main part only with a socket on which all that it
\* needs has succeeded, also where it does not look at what socket()
\* returns; and one that goes through the addresses gives up only when none
\* of them works.
THEOREM SocketSafe == StartSpec => []SocketOrNone
<1>1. StartInit => TInv /\ NInv
  <2>1. StartInit => NInv
        BY DEF StartInit, NInv, SocketOrNone
  <2> QED
        BY <2>1, InitTInv
<1>2. TInv /\ NInv => SocketOrNone
      BY DEF NInv
<1>3. TInv /\ NInv /\ [StartNext]_startVars => (TInv /\ NInv)'
      BY StepTInv, StepNInv
<1> QED
      BY <1>1, <1>2, <1>3, PTL DEF StartSpec
=============================================================================
