-------------------------- MODULE DuplexChat_proofs --------------------------
(***************************************************************************)
(* DuplexChat for every size of buffers and lines, and all faults: no      *)
(* process of the client outlives its partner, and a disconnection that is *)
(* reported has happened.                                                  *)
(***************************************************************************)
EXTENDS DuplexChat, TLAPS

LEMMA OtherSide == \A s \in Sides : Other(s) \in Sides /\ Other(s) # s
BY DEF Sides, Other

-----------------------------------------------------------------------------
LEMMA InitType == Init => TypeOK
BY ConstantsAssumption DEF ConstantsAssumption, Init, TypeOK, Sides

\* What a reset leaves of the data that is under way fits the queue.
LEMMA BreakType ==
    ASSUME TypeOK, NEW s \in Sides, BreakAt(s)
    PROVE  /\ inbox' \in [Sides -> 0 .. SockBuf]
           /\ err' \in [Sides -> {"none", "pending", "taken"}]
BY ConstantsAssumption DEF ConstantsAssumption, TypeOK, BreakAt

LEMMA StepType == TypeOK /\ [Next]_vars => TypeOK'
<1> SUFFICES ASSUME TypeOK, [Next]_vars PROVE TypeOK'
    OBVIOUS
<1> USE ConstantsAssumption DEF ConstantsAssumption, conn
<1>s. "client" \in Sides /\ "server" \in Sides
      BY DEF Sides
<1>1. ASSUME NEW s \in Sides, Parent(s) PROVE TypeOK'
  <2>1. CASE Fork(s)
        BY <2>1 DEF Fork, TypeOK
  <2>2. CASE FgetsNull(s)
        BY <2>2 DEF FgetsNull, TypeOK
  <2>3. CASE SendByte(s)
    <3>1. todo' \in [Sides -> 0 .. LineLen + 1]
          BY <2>3 DEF SendByte, TypeOK
    <3>2. inbox' \in [Sides -> 0 .. SockBuf]
          BY <2>3, OtherSide DEF SendByte, TypeOK
    <3> QED
          BY <2>3, <3>1, <3>2 DEF SendByte, TypeOK
  <2>4. CASE SendFails(s)
        BY <2>4 DEF SendFails, AfterError, TypeOK
  <2>5. CASE SendDone(s)
        BY <2>5 DEF SendDone, TypeOK
  <2>6. CASE Leave
        BY <2>6, <1>s DEF Leave, Killed, TypeOK
  <2>7. CASE ParentExits
        BY <2>7, <1>s DEF ParentExits, TypeOK
  <2> QED
        BY <1>1, <2>1, <2>2, <2>3, <2>4, <2>5, <2>6, <2>7 DEF Parent
<1>2. ASSUME NEW s \in Sides, Shut(s) PROVE TypeOK'
  <2>1. CASE eof' = [eof EXCEPT ![Other(s)] = TRUE] /\ UNCHANGED <<err, inbox>>
        BY <1>2, <2>1 DEF Shut, TypeOK
  <2>2. CASE BreakAt(Other(s)) /\ UNCHANGED eof
        BY <1>2, <2>2, OtherSide, BreakType DEF Shut, TypeOK
  <2> QED
        BY <1>2, <2>1, <2>2 DEF Shut
<1>3. ASSUME NEW s \in Sides, Reset(s) \/ Break(s) PROVE TypeOK'
      BY <1>3, BreakType DEF Reset, Break, TypeOK
<1>4. ASSUME NEW s \in Sides, Type(s) \/ InputEnds(s) \/ Interrupt(s)
      PROVE  TypeOK'
      BY <1>4 DEF Type, InputEnds, Interrupt, Killed, TypeOK
<1>5. CASE ClientChild
  <2>1. CASE ClientRecv
        BY <2>1, <1>s DEF ClientRecv, TooLong, ChildFails, TypeOK
  <2>2. CASE ClientEnd
        BY <2>2, <1>s DEF ClientEnd, TypeOK
  <2>3. CASE ClientAllocFails \/ ClientError \/ ClientTimeout
        BY <2>3, <1>s DEF ClientAllocFails, ClientError, ClientTimeout, ChildFails, TypeOK
  <2>4. CASE ChildCloses \/ Disconnected \/ ChildExits
        BY <2>4, <1>s DEF ChildCloses, Disconnected, ChildExits, TypeOK
  <2> QED
        BY <1>5, <2>1, <2>2, <2>3, <2>4 DEF ClientChild
<1>6. CASE ServerChild
      BY <1>6, <1>s DEF ServerChild, ServerRecv, ServerEnd, ChildFails, TypeOK
<1>7. CASE UNCHANGED vars
      BY <1>7 DEF vars, TypeOK
<1> QED
    BY <1>1, <1>2, <1>3, <1>4, <1>5, <1>6, <1>7 DEF Next, Network

\* Every variable keeps its type; what is sent ahead fits the receive queue,
\* and the client's buffer stays below its limit.
THEOREM DuplexTypeCorrect == Spec => []TypeOK
<1>1. TypeOK /\ [Next]_vars => TypeOK'
      BY StepType
<1> QED
    BY InitType, <1>1, PTL DEF Spec

-----------------------------------------------------------------------------
\* A FIN comes from a side both of whose processes are gone; a side has no
\* child before it forks.
FinIsReal ==
    \A s \in Sides :
        /\ eof[s] => Closed(Other(s))
        /\ parent[s] = "fork" => child[s] = "none"

\* The client's parent kills the child before it exits.
NoneLeft == parent["client"] \in {"exit", "gone"} => child["client"] \notin Running

\* The inductive invariant.
DInv == TypeOK /\ FinIsReal /\ NoneLeft /\ EndIsReal

LEMMA InitDInv == Init => DInv
<1> SUFFICES ASSUME Init PROVE DInv
    OBVIOUS
<1>1. TypeOK
      BY InitType
<1> QED
    BY <1>1, OtherSide DEF DInv, Init, FinIsReal, NoneLeft, EndIsReal, Running, Holding, SawEnd, Sides

\* Once both processes of a side are gone they stay so: only a fork() makes
\* a process, and only a parent forks.
LEMMA ClosedStays ==
    ASSUME TypeOK, FinIsReal, [Next]_vars, NEW s \in Sides, Closed(s)
    PROVE  Closed(s)'
<1> USE DEF Closed, Running, Holding, conn
<1>s. "client" \in Sides /\ "server" \in Sides
      BY DEF Sides
<1>1. ASSUME NEW t \in Sides, Parent(t) PROVE Closed(s)'
      BY <1>1, <1>s DEF Parent, Fork, FgetsNull, SendByte, SendFails, SendDone,
         Leave, ParentExits, Killed, TypeOK, AfterError
<1>2. ASSUME NEW t \in Sides, Network(t) \/ Break(t) PROVE Closed(s)'
      BY <1>2 DEF Network, Shut, Reset, Break
<1>3. ASSUME NEW t \in Sides, Type(t) \/ InputEnds(t) \/ Interrupt(t)
      PROVE  Closed(s)'
      BY <1>3 DEF Type, InputEnds, Interrupt, Killed, TypeOK
<1>4. CASE ClientChild
      BY <1>4, <1>s DEF ClientChild, ClientRecv, ClientAllocFails, ClientEnd,
         ClientError, ClientTimeout, ChildCloses, Disconnected, ChildExits, ChildFails, TypeOK
<1>5. CASE ServerChild
      BY <1>5, <1>s DEF ServerChild, ServerRecv, ServerEnd, ChildFails, TypeOK
<1>6. CASE UNCHANGED vars
      BY <1>6 DEF vars
<1> QED
    BY <1>1, <1>2, <1>3, <1>4, <1>5, <1>6 DEF Next

\* What the steps of the processes have in common: none delivers a FIN, and
\* none but fork() starts a process.  Who comes to the end has read 0 bytes.
LEMMA Keeps ==
    ASSUME FinIsReal, EndIsReal,
           \A s \in Sides : Closed(s) => Closed(s)',
           eof' = eof,
           \A s \in Sides : parent'[s] = "fork" => parent[s] = "fork" /\ child'[s] = child[s],
           parent'["client"] \in {"exit", "gone"} => child'["client"] \notin Running,
           \A s \in Sides : child'[s] \in SawEnd /\ err'[s] = "none" =>
               /\ err[s] = "none" /\ inbox'[s] = inbox[s]
               /\ s = "client" => total' = total
               /\ \/ child[s] \in SawEnd
                  \/ eof[s] /\ inbox[s] = 0 /\ (s = "client" => total = 0)
    PROVE  FinIsReal' /\ NoneLeft' /\ EndIsReal'
<1>1. FinIsReal'
      BY OtherSide DEF FinIsReal
<1>2. NoneLeft'
      BY DEF NoneLeft
<1>3. EndIsReal'
      BY OtherSide DEF EndIsReal, FinIsReal
<1> QED
    BY <1>1, <1>2, <1>3

\* A process that is killed is neither running nor at its end.
LEMMA KilledEnds ==
    \A c : /\ Killed(c) \notin Running
           /\ Killed(c) # c => Killed(c) = "killed"
           /\ "killed" \notin SawEnd
BY DEF Killed, Running, Holding, SawEnd

LEMMA StepDInv == DInv /\ [Next]_vars => DInv'
<1> SUFFICES ASSUME DInv, [Next]_vars PROVE DInv'
    OBVIOUS
<1> USE DEF conn
<1>s. "client" \in Sides /\ "server" \in Sides
      BY DEF Sides
<1>t. TypeOK /\ FinIsReal /\ NoneLeft /\ EndIsReal
      BY DEF DInv
<1>t1. TypeOK'
      BY <1>t, StepType
<1>c. \A s \in Sides : Closed(s) => Closed(s)'
      BY <1>t, ClosedStays
<1>f. \A s \in Sides : parent[s] = "fork" => child[s] = "none"
      BY <1>t DEF FinIsReal
<1>o. parent["client"] \in {"exit", "gone"} => child["client"] \notin Running
      BY <1>t DEF NoneLeft
<1>e. \A s \in Sides : child[s] \in SawEnd /\ err[s] = "none" => Closed(Other(s))
      BY <1>t DEF EndIsReal
<1> DEFINE Good == FinIsReal' /\ NoneLeft' /\ EndIsReal'
<1> DEFINE NoNewChild == \A s \in Sides : parent'[s] = "fork" =>
                              parent[s] = "fork" /\ child'[s] = child[s]
<1> DEFINE ToEnd == \A s \in Sides : child'[s] \in SawEnd /\ err'[s] = "none" =>
               /\ err[s] = "none" /\ inbox'[s] = inbox[s]
               /\ s = "client" => total' = total
               /\ \/ child[s] \in SawEnd
                  \/ eof[s] /\ inbox[s] = 0 /\ (s = "client" => total = 0)
<1>k. ASSUME NoNewChild, ToEnd, eof' = eof,
             parent'["client"] \in {"exit", "gone"} => child'["client"] \notin Running
      PROVE  Good
      BY <1>k, <1>t, <1>c, Keeps
<1>1. ASSUME NEW t \in Sides, Parent(t) PROVE Good
  <2>1. CASE Fork(t)
        BY <2>1, <1>t, <1>c, <1>f, <1>o, <1>s, Keeps DEF Fork, TypeOK, Running, Holding, SawEnd
  <2>2. CASE FgetsNull(t) \/ SendDone(t)
        BY <2>2, <1>t, <1>c, <1>o, <1>s, Keeps DEF FgetsNull, SendDone, TypeOK
  <2>3. CASE SendByte(t)
    <3>1. \A s \in Sides : child[s] \in SawEnd /\ err[s] = "none"
              => inbox'[s] = inbox[s]
          BY <2>3, <1>t, <1>e, OtherSide DEF SendByte, Unreachable, Closed, Other, Sides, TypeOK
    <3> QED
          BY <2>3, <3>1, <1>t, <1>c, <1>o, Keeps DEF SendByte
  <2>4. CASE SendFails(t)
        BY <2>4, <1>t, <1>c, <1>o, <1>s, Keeps DEF SendFails, AfterError, TypeOK
  <2>5. CASE Leave
        BY <2>5, <1>t, <1>c, <1>s, KilledEnds, Keeps DEF Leave, TypeOK
  <2>6. CASE ParentExits
        BY <2>6, <1>t, <1>c, <1>o, <1>s, Keeps DEF ParentExits, TypeOK
  <2> QED
        BY <1>1, <2>1, <2>2, <2>3, <2>4, <2>5, <2>6 DEF Parent
<1>2. ASSUME NEW t \in Sides, Network(t) \/ Break(t) PROVE Good
  <2>1. ASSUME NEW s \in Sides, BreakAt(s)
        PROVE  \A r \in Sides : err'[r] = "none" => err[r] = "none" /\ inbox'[r] = inbox[r]
        BY <2>1, <1>t DEF BreakAt, TypeOK
  <2>2. \A r \in Sides : err'[r] = "none" => err[r] = "none" /\ inbox'[r] = inbox[r]
        BY <1>2, <2>1, OtherSide DEF Network, Shut, Reset, Break
  <2>3. /\ parent' = parent /\ child' = child /\ total' = total
        /\ \A r \in Sides : eof'[r] => eof[r] \/ Closed(Other(r))
        BY <1>2, <1>t, OtherSide DEF Network, Shut, Reset, Break, TypeOK, Other, Sides
  <2>4. FinIsReal'
        BY <2>3, <1>t, <1>c, OtherSide DEF FinIsReal
  <2>5. NoneLeft' /\ EndIsReal'
        BY <2>2, <2>3, <1>t, <1>c, OtherSide DEF NoneLeft, EndIsReal
  <2> QED
        BY <2>4, <2>5
<1>3. ASSUME NEW t \in Sides, Type(t) \/ InputEnds(t) \/ Interrupt(t) PROVE Good
  <2>1. CASE Type(t) \/ InputEnds(t)
        BY <2>1, <1>t, <1>c, <1>o, <1>s, Keeps DEF Type, InputEnds, TypeOK
  <2>2. CASE Interrupt(t)
        BY <2>2, <1>t, <1>c, <1>o, <1>s, KilledEnds, Keeps DEF Interrupt, TypeOK
  <2> QED
        BY <1>3, <2>1, <2>2
<1>4. CASE ClientChild
  <2>1. NoNewChild
        BY <1>4, <1>f, <1>t, <1>s DEF ClientChild, ClientRecv, ClientAllocFails,
           ClientEnd, ClientError, ClientTimeout, ChildCloses, Disconnected, ChildExits,
           ChildFails, TypeOK
  <2>2. eof' = eof /\ (parent'["client"] \in {"exit", "gone"} => child'["client"] \notin Running)
        BY <1>4, <1>o, <1>t, <1>s DEF ClientChild, ClientRecv, ClientAllocFails,
           ClientEnd, ClientError, ClientTimeout, ChildCloses, Disconnected, ChildExits,
           ChildFails, TypeOK,
           Running, Holding
  <2>3. ToEnd
    <3>1. CASE ClientEnd
          BY <3>1, <1>t, <1>s DEF ClientEnd, AtEnd, TypeOK, SawEnd
    <3>2. CASE ChildCloses \/ Disconnected \/ ChildExits
          BY <3>2, <1>t, <1>s DEF ChildCloses, Disconnected, ChildExits, TypeOK, SawEnd
    <3>3. CASE ClientRecv
          BY <3>3, <1>t, <1>s DEF ClientRecv, ChildFails, TypeOK, SawEnd
    <3>4. CASE ClientAllocFails \/ ClientError \/ ClientTimeout
          BY <3>4, <1>t, <1>s
          DEF ClientAllocFails, ClientError, ClientTimeout, ChildFails, TypeOK, SawEnd
    <3> QED
          BY <1>4, <3>1, <3>2, <3>3, <3>4 DEF ClientChild
  <2> QED
        BY <2>1, <2>2, <2>3, <1>k, <1>t1 DEF DInv
<1>5. CASE ServerChild
  <2>1. NoNewChild
        BY <1>5, <1>f, <1>t, <1>s DEF ServerChild, ServerRecv, ServerEnd, ChildFails, TypeOK
  <2>2. eof' = eof /\ (parent'["client"] \in {"exit", "gone"} => child'["client"] \notin Running)
        BY <1>5, <1>o, <1>t, <1>s DEF ServerChild, ServerRecv, ServerEnd, ChildFails, TypeOK
  <2>3. ToEnd
        BY <1>5, <1>t, <1>s DEF ServerChild, ServerRecv, ServerEnd, AtEnd, ChildFails, TypeOK, SawEnd
  <2> QED
        BY <2>1, <2>2, <2>3, <1>k, <1>t1 DEF DInv
<1>6. CASE UNCHANGED vars
      BY <1>6, <1>o, <1>k, <1>t1 DEF vars, DInv
<1> QED
    BY <1>t1, <1>1, <1>2, <1>3, <1>4, <1>5, <1>6 DEF Next, DInv

\* The client's processes end together: neither an error, a signal, nor ^C
\* leaves its reader alone, so a SIGUSR1 never goes to a stranger.
THEOREM DuplexLeavesNoOrphan == Spec => []NoOrphan
<1>1. DInv => NoOrphan
      BY DEF DInv, NoneLeft, NoOrphan
<1> QED
    BY InitDInv, StepDInv, <1>1, PTL DEF Spec

\* Who reports the other as disconnected has read and shown all that the
\* other sent, and the other is gone, unless the connection was reset.
THEOREM DuplexEndIsReal == Spec => []EndIsReal
<1>1. DInv => EndIsReal
      BY DEF DInv
<1> QED
    BY InitDInv, StepDInv, <1>1, PTL DEF Spec
=============================================================================
