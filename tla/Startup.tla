------------------------------ MODULE Startup ------------------------------
(***************************************************************************)
(* How every program of the repository gets from its arguments to the      *)
(* socket that its main part works with.  A program is a record: how it    *)
(* takes the port, whether it goes through the list of addresses of        *)
(* getaddrinfo(), and the calls it makes in order, each with what the      *)
(* program does when the call fails.  One machine runs all of them.        *)
(*                                                                         *)
(* An address works or not: if not, the calls that depend on it (socket(), *)
(* bind(), connect()) do not all succeed.  Any other call may fail.        *)
(***************************************************************************)
EXTENDS Integers, Sequences

CONSTANTS
    MaxAddrs,    \* bound: addresses that getaddrinfo() returns
    Numbers,     \* bound: the numbers that a user may write as a port
    IntMax,      \* INT_MAX
    LongMax      \* LONG_MAX

MaxPort == 65535

ASSUME StartupAssumption ==
    /\ MaxAddrs \in Nat \ {0}
    /\ Numbers \subseteq Nat
    /\ {IntMax, LongMax} \subseteq Nat /\ MaxPort < IntMax /\ IntMax <= LongMax

-----------------------------------------------------------------------------
(* The port.  An argument is a number with what stands around it.          *)

Leads == {"none", "zero", "plus", "minus", "blank", "letter"}
Arg == [lead : Leads, number : Numbers, tail : BOOLEAN]
Fixed == "fixed"

\* strtol(): blanks, a sign, leading zeros, and digits as far as they go.
Converts(a) == a.lead # "letter" /\ a.number <= LongMax
strtol(a) == IF a.lead = "minus" THEN -a.number ELSE a.number

parse_port_NoRange(a) == IF Converts(a) /\ ~a.tail THEN strtol(a) ELSE -1
parse_port(a) ==
    IF Converts(a) /\ ~a.tail /\ 1 <= strtol(a) /\ strtol(a) <= MaxPort
    THEN strtol(a) ELSE -1

\* The first character must be a digit.
check_port(a) == IF a.lead \in {"none", "zero"} THEN parse_port(a) ELSE -1

\* The same, but not 0.
check_port_NoZero(a) == IF a.lead = "none" THEN parse_port(a) ELSE -1

\* getaddrinfo() reads its service again, as strtoul() does; what is no number
\* is a name, which it looks up.
service(a) == IF Converts(a) /\ ~a.tail /\ a.lead # "minus" THEN a.number ELSE -1

\* htons(): the low 16 bits.
htons(n) == n % (MaxPort + 1)

\* atoi() checks nothing; what does not fit an int has any value.
atoi(a) ==
    IF a.lead = "letter" THEN {0}
    ELSE IF a.number <= IntMax THEN {strtol(a)} ELSE {0, -1}

\* The values that a program may get for its port; -1 is refused by those
\* that check.
PortOf(p, a) ==
    IF p.port \in {"parse_port", "ignored"} THEN {parse_port(a)}
    ELSE IF p.port = "service" THEN {IF parse_port(a) = -1 THEN -1 ELSE service(a)}
    ELSE IF p.port = "check_port" THEN {check_port(a)}
    ELSE IF p.port = "strict" THEN {check_port_NoZero(a)}
    ELSE IF p.port = "atoi" THEN atoi(a)
    ELSE {a.number}

-----------------------------------------------------------------------------
(* The calls.  What a failure leads to:                                    *)
(*   "exit"    the program ends as it is;                                  *)
(*   "close"   it closes the socket and ends;                              *)
(*   "next"    it closes the socket, if there is one, and takes the next   *)
(*             address; without one it ends;                               *)
(*   "ignore"  it does not look.                                           *)

On(call, fails) == [call |-> call, fails |-> fails]
Program(port, list, calls) == [port |-> port, list |-> list, calls |-> calls]

\* The chat room
chat_room_serverV2_First == Program(Fixed, TRUE,
    <<On("token", "exit"), On("resolve", "exit"), On("socket", "next"),
      On("option", "ignore"), On("option", "ignore"), On("bind", "close"),
      On("listen", "exit")>>)
chat_room_serverV2 == Program(Fixed, TRUE,
    <<On("token", "exit"), On("resolve", "exit"), On("socket", "next"),
      On("option", "ignore"), On("option", "ignore"), On("bind", "next"),
      On("listen", "exit")>>)
chat_room_server == Program(Fixed, TRUE,
    <<On("resolve", "exit"), On("socket", "next"), On("option", "ignore"),
      On("bind", "next"), On("listen", "exit")>>)
chat_room_clientV2 == Program(Fixed, TRUE,
    <<On("resolve", "exit"), On("socket", "next"), On("connect", "next"),
      On("auth", "close")>>)
chat_room_client == Program(Fixed, TRUE,
    <<On("resolve", "exit"), On("socket", "next"), On("connect", "next")>>)

\* The TCP file transfer, the web page and the port scanner's host
file_server == Program(Fixed, TRUE,
    <<On("resolve", "exit"), On("socket", "next"), On("option", "ignore"),
      On("bind", "next"), On("listen", "exit")>>)
file_client == Program(Fixed, TRUE,
    <<On("resolve", "exit"), On("socket", "next"), On("connect", "next")>>)
fetch_web_page == Program(Fixed, TRUE,
    <<On("resolve", "exit"), On("socket", "exit"), On("connect", "exit")>>)
port_scanner == Program("atoi", FALSE,
    <<On("resolve", "exit"), On("socket", "exit"), On("connect", "ignore")>>)

\* The duplex chat: the second client takes the port that parse_port() accepts
\* from the argument again, as the service of getaddrinfo().
duplex_chat_clientV2 == Program("service", TRUE,
    <<On("resolve", "exit"), On("socket", "next"), On("option", "ignore"),
      On("option", "ignore"), On("connect", "next")>>)
duplexChatClient == Program(Fixed, FALSE,
    <<On("socket", "exit"), On("connect", "exit")>>)
duplex_chat_serverV2 == Program(Fixed, FALSE,
    <<On("socket", "exit"), On("option", "exit"), On("option", "exit"),
      On("bind", "exit"), On("listen", "exit")>>)
duplex_chat_server == Program(Fixed, FALSE,
    <<On("socket", "ignore"), On("bind", "exit"), On("listen", "exit")>>)

\* The first TCP programs
TCP_serverV2 == Program(Fixed, FALSE,
    <<On("socket", "exit"), On("option", "close"), On("bind", "close"),
      On("listen", "close")>>)
TCP_server == Program(Fixed, FALSE,
    <<On("socket", "ignore"), On("bind", "ignore"), On("listen", "ignore")>>)
TCP_clientV2 == Program(Fixed, FALSE,
    <<On("socket", "exit"), On("connect", "close")>>)
TCP_client == Program(Fixed, FALSE,
    <<On("socket", "ignore"), On("connect", "ignore")>>)

\* The time service: the second client does not look at what parse_port()
\* returns.
time_serverV2 == Program("parse_port", FALSE,
    <<On("socket", "exit"), On("option", "close"), On("bind", "close"),
      On("listen", "close")>>)
TimeServer == Program("atoi", FALSE,
    <<On("socket", "ignore"), On("bind", "exit"), On("listen", "exit")>>)
TCP_time_clientV2 == Program("ignored", FALSE,
    <<On("socket", "exit"), On("connect", "close"), On("option", "close")>>)
TCP_time_client == Program("atoi", FALSE,
    <<On("socket", "ignore"), On("connect", "exit")>>)

\* The UDP programs
command_execution_server == Program("check_port", FALSE,
    <<On("address", "exit"), On("socket", "exit"), On("option", "close"),
      On("option", "close"), On("bind", "close")>>)
command_execution_client == Program("check_port", FALSE,
    <<On("address", "exit"), On("socket", "exit"), On("option", "close"),
      On("option", "close"), On("connect", "close")>>)
load_server == Program("check_port", FALSE,
    <<On("address", "exit"), On("socket", "exit"), On("option", "close"),
      On("option", "close"), On("bind", "close")>>)
load_client == Program("check_port", FALSE,
    <<On("address", "exit"), On("socket", "exit"), On("option", "close"),
      On("option", "close")>>)
basic_udp_serverV2 == Program("strict", FALSE,
    <<On("address", "exit"), On("socket", "exit"), On("option", "ignore"),
      On("bind", "close")>>)
basic_udp_server == Program("parse_port", FALSE,
    <<On("address", "exit"), On("socket", "exit")>>)
basic_udp_clientV2 == Program("check_port", FALSE,
    <<On("address", "exit"), On("socket", "exit"), On("connect", "close"),
      On("option", "close")>>)
basic_udp_client == Program("parse_port", FALSE,
    <<On("address", "exit"), On("socket", "exit"), On("bind", "close")>>)
file_transfer_serverV2 == Program("strict", FALSE,
    <<On("input", "exit"), On("token", "exit"), On("address", "exit"),
      On("socket", "exit"), On("option", "ignore"), On("bind", "close")>>)
file_transfer_server == Program("strict", FALSE,
    <<On("input", "exit"), On("token", "exit"), On("address", "exit"),
      On("socket", "exit"), On("option", "ignore"), On("bind", "close")>>)
file_transfer_client == Program("strict", FALSE,
    <<On("input", "exit"), On("address", "exit"), On("token", "exit"),
      On("file", "exit"), On("socket", "exit")>>)

Programs ==
    {chat_room_serverV2, chat_room_server, chat_room_clientV2, chat_room_client,
     file_server, file_client, fetch_web_page, port_scanner,
     duplex_chat_clientV2, duplexChatClient, duplex_chat_serverV2,
     duplex_chat_server, TCP_serverV2, TCP_server, TCP_clientV2, TCP_client,
     time_serverV2, TimeServer, TCP_time_clientV2, TCP_time_client,
     command_execution_server, command_execution_client, load_server,
     load_client, basic_udp_serverV2, basic_udp_server, basic_udp_clientV2,
     basic_udp_client, file_transfer_serverV2, file_transfer_server,
     file_transfer_client}

-----------------------------------------------------------------------------
VARIABLES
    program,     \* the program that is run
    arg,         \* the port as the user wrote it
    works,       \* works[k]: the k-th address works
    status,      \* "args", "calls", "running" or "exited"
    port,        \* the port in the socket's address
    step,          \* the call at hand
    addr,        \* the address at hand
    open,        \* sockets open
    done         \* the calls that succeeded, those on the open socket included

setup == <<program, arg, works>>
startVars == <<setup, status, port, step, addr, open, done>>

StartInit ==
    /\ program \in Programs
    /\ arg \in Arg
    /\ program.port = Fixed =>
          arg.lead = "none" /\ ~arg.tail /\ arg.number \in 1 .. MaxPort
    /\ \E n \in 1 .. MaxAddrs :
          works \in [1 .. (IF program.list THEN n ELSE 1) -> BOOLEAN]
    /\ status = "args" /\ port = 0 /\ step = 1 /\ addr = 1
    /\ open = 0 /\ done = {}

\* The port is taken; a program that checks it ends when it is refused.
Refused(n) == n = -1 /\ program.port \notin {"ignored", "atoi"}
ReadPort ==
    /\ status = "args"
    /\ \E n \in PortOf(program, arg) :
          /\ status' = IF Refused(n) THEN "exited" ELSE "calls"
          /\ port' = htons(n)
    /\ UNCHANGED <<setup, step, addr, open, done>>

AtCall(c) == status = "calls" /\ step <= Len(program.calls) /\ c = program.calls[step]

\* The calls that are made on the socket.
OnSocket == {"option", "bind", "listen", "connect", "auth"}

\* listen() binds a socket that has no port to any; the calls that use the
\* address succeed when it works.
MaySucceed(call) ==
    /\ call \in OnSocket => open > 0
    /\ call \in {"bind", "connect"} => works[addr]
MayFail(call) ==
    call \in {"socket", "bind", "connect"} => ~works[addr] \/ (call # "socket" /\ open = 0)

Succeeds(c) ==
    /\ AtCall(c) /\ MaySucceed(c.call)
    /\ done' = done \cup {c.call}
    /\ open' = IF c.call = "socket" THEN open + 1 ELSE open
    /\ step' = step + 1
    /\ UNCHANGED <<setup, status, port, addr>>

FailsAndEnds(c) ==
    /\ AtCall(c) /\ MayFail(c.call) /\ c.fails \in {"exit", "close"}
    /\ status' = "exited"
    /\ open' = IF c.fails = "close" THEN open - 1 ELSE open
    /\ UNCHANGED <<setup, port, step, addr, done>>

FailsIgnored(c) ==
    /\ AtCall(c) /\ MayFail(c.call) /\ c.fails = "ignore"
    /\ step' = step + 1
    /\ UNCHANGED <<setup, status, port, addr, open, done>>

\* close() if there is a socket, and continue.
Closed_Never(c) == open
Closed(c) == IF c.call = "socket" THEN open ELSE open - 1

FirstCall == CHOOSE i \in 1 .. Len(program.calls) : program.calls[i].call = "socket"

NextAddress(c) ==
    /\ AtCall(c) /\ MayFail(c.call) /\ c.fails = "next"
    /\ open' = Closed(c)
    /\ done' = done \ (OnSocket \cup {"socket"})
    /\ \/ addr < Len(works) /\ addr' = addr + 1 /\ step' = FirstCall
          /\ UNCHANGED status
       \/ addr = Len(works) /\ status' = "exited" /\ UNCHANGED <<addr, step>>
    /\ UNCHANGED <<setup, port>>

\* The main part begins.
Runs ==
    /\ status = "calls" /\ step > Len(program.calls)
    /\ status' = "running"
    /\ UNCHANGED <<setup, port, step, addr, open, done>>

StartNext ==
    \/ ReadPort \/ Runs
    \/ \E i \in 1 .. Len(program.calls) : LET c == program.calls[i] IN
          Succeeds(c) \/ FailsAndEnds(c) \/ FailsIgnored(c) \/ NextAddress(c)

StartSpec == StartInit /\ [][StartNext]_startVars

-----------------------------------------------------------------------------
\* Every variable has its type.
StartTypeOK ==
    /\ program \in Programs
    /\ arg \in Arg
    /\ status \in {"args", "calls", "running", "exited"}
    /\ port \in 0 .. MaxPort
    /\ step \in 1 .. Len(program.calls) + 1
    /\ addr \in 1 .. Len(works)
    /\ open \in Nat

\* A program that checks its port and gets past that uses the number that
\* the user wrote, and nothing else was written around it; check_port()
\* takes no sign and no blank, the strictest one no leading zero.
Written(how, n) ==
    /\ n = arg.number /\ n > 0 /\ ~arg.tail
    /\ how \in {"parse_port", "service"} => arg.lead \in {"none", "zero", "plus", "blank"}
    /\ how = "check_port" => arg.lead \in {"none", "zero"}
    /\ how = "strict" => arg.lead = "none"
CheckedPort == {"parse_port", "service", "check_port", "strict"}
PortAsWritten ==
    status \in {"calls", "running"} /\ program.port \in CheckedPort =>
        Written(program.port, port)

\* However many addresses fail, at most one socket is open, and a program
\* that has run through its list holds none.
OneSocket ==
    /\ open <= 1
    /\ status = "exited" /\ program.calls[step].fails \in {"close", "next"} => open = 0

\* The first basic TCP programs check nothing; the scanner wants to know
\* whether connect() fails.
Unchecked == {TCP_server, TCP_client}
Needs(c) ==
    \/ c.call \in {"socket", "bind", "listen"}
    \/ c.call = "connect" /\ program # port_scanner

\* A program either starts its main part with one socket on which all that
\* it needs has succeeded, not one step on a socket that was replaced nor on
\* a socket() that failed, though some programs do not check it; or it gives
\* up, and then, if it goes through the list of addresses, none of them works.
SocketOrNone ==
    /\ status = "running" /\ program \notin Unchecked =>
          \A i \in 1 .. Len(program.calls) :
              Needs(program.calls[i]) => program.calls[i].call \in done
    /\ status = "exited" /\ program.calls[step].call \in {"socket", "bind", "connect"}
          /\ (\E i \in 1 .. Len(program.calls) : program.calls[i].fails = "next")
          => \A k \in 1 .. Len(works) : ~works[k]
=============================================================================
