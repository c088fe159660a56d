--------------------------- MODULE TimeServersProofs -------------------------
(***************************************************************************)
(* Theorems of the three TCP time servers, for every number of clients,    *)
(* threads and steps: their types, that a client which is alone gets a     *)
(* port nobody else has from the pool, and that the thread made for a      *)
(* client which is alone serves it.                                        *)
(***************************************************************************)
EXTENDS TimeServers, FiniteSetTheorems, TLAPS

-----------------------------------------------------------------------------
(* The pool.                                                                *)

\* What the types rest on: registr counts down from a positive number and
\* scans for a client it has accepted; a serving thread has a client.
Counted ==
    /\ rpc \in {"create", "accept", "scan"} => step > 0
    /\ rpc = "scan" => client \in Clients
    /\ \A i \in Threads : tpc[i] \in {"flag", "serve"} => conn[i] \in Clients

Typed == TypeOK /\ Counted

LEMMA ThreadZero == 0 \in Threads
BY NThreadsAssumption DEF Threads

\* The loops over threads[] stay within it.
LEMMA NextThreadType ==
    ASSUME ri \in Threads, NEW then, NextThread(then)
    PROVE  ri' \in Threads /\ rpc' \in {rpc, then}
<1>1. CASE ri = NThreads - 1
  BY <1>1, ThreadZero DEF NextThread, LastThread
<1>2. CASE ri # NThreads - 1
  <2>1. ri + 1 \in Threads
    BY <1>2, NThreadsAssumption DEF Threads
  <2> QED
    BY <1>2, <2>1 DEF NextThread, LastThread
<1> QED
  BY <1>1, <1>2

LEMMA InitTyped == Init => Typed
BY ThreadZero, StepsAssumption DEF Init, Typed, TypeOK, Counted

\* A step of a client keeps the types.
LEMMA ClientTyped ==
    ASSUME Typed, NEW c \in Clients, Connect(c) \/ ConnectRefused(c) \/ GoesOn(c)
    PROVE  Typed'
<1> USE DEF Typed, TypeOK, Counted, registrVars, threadVars
<1>1. CASE Connect(c)
  BY <1>1 DEF Connect
<1>2. CASE ConnectRefused(c)
  BY <1>2 DEF ConnectRefused
<1>3. CASE Dial(c)
  <2>1. backlog' \in [Threads -> Seq(Clients)]
    BY <1>3 DEF Dial
  <2> QED
    BY <1>3, <2>1 DEF Dial
<1>4. CASE DialRefused(c)
  BY <1>4 DEF DialRefused
<1>5. CASE HangUp(c)
  <2>1. cpc' \in [Clients -> {"start", "port", "dial", "date", "done", "failed", "epoch"}]
    BY <1>5 DEF HangUp
  <2> QED
    BY <1>5, <2>1 DEF HangUp
<1> QED
  BY <1>1, <1>2, <1>3, <1>4, <1>5 DEF GoesOn

\* A step of registr keeps the types.
LEMMA RegistrTyped == ASSUME Typed, Registr PROVE Typed'
<1> USE DEF Typed, TypeOK, Counted, registrVars, threadVars
<1>1. CASE CreateThread
  <2>1. ri' \in Threads /\ rpc' \in {"create", "accept"}
    BY <1>1, NextThreadType DEF CreateThread
  <2> QED
    BY <1>1, <2>1 DEF CreateThread
<1>2. CASE Accept
  BY <1>2 DEF Accept
<1>3. CASE GivePort
  BY <1>3, ThreadZero DEF GivePort, AfterClient
<1>4. CASE SkipThread
  <2>1. ri' \in Threads /\ rpc' \in {"scan", AfterClient}
    BY <1>4, NextThreadType DEF SkipThread
  <2>2. LastThread(ri) => rpc' = AfterClient
    BY <1>4 DEF SkipThread, NextThread
  <2>3. ~LastThread(ri) => rpc' = "scan"
    BY <1>4 DEF SkipThread, NextThread
  <2> QED
    BY <1>4, <2>1, <2>2, <2>3 DEF SkipThread, AfterClient
<1>5. CASE Drain
  <2>1. ri' \in Threads
    BY <1>5, NThreadsAssumption DEF Drain, LastThread, Threads
  <2> QED
    BY <1>5, <2>1 DEF Drain
<1> QED
  BY <1>1, <1>2, <1>3, <1>4, <1>5 DEF Registr

\* A step of a pool thread keeps the types.
LEMMA ProcesTyped == ASSUME Typed, NEW i \in Threads, Proces(i) PROVE Typed'
<1> USE DEF Typed, TypeOK, Counted, registrVars
<1>1. CASE Listen(i)
  BY <1>1 DEF Listen
<1>2. CASE AcceptRequest(i)
  <2>1. backlog[i] \in Seq(Clients) /\ backlog[i] # <<>>
    BY <1>2 DEF AcceptRequest
  <2>2. Head(backlog[i]) \in Clients /\ Tail(backlog[i]) \in Seq(Clients)
    BY <2>1
  <2> QED
    BY <1>2, <2>2 DEF AcceptRequest
<1>3. CASE RaiseFlag(i)
  BY <1>3 DEF RaiseFlag
<1>4. CASE Serve(i)
  BY <1>4 DEF Serve, FlagsInSleep
<1>5. CASE Finish(i)
  BY <1>5 DEF Finish, FlagAfterService, AfterService
<1> QED
  BY <1>1, <1>2, <1>3, <1>4, <1>5 DEF Proces

LEMMA NextTyped == Typed /\ [Next]_vars => Typed'
<1> SUFFICES ASSUME Typed, [Next]_vars PROVE Typed'
  OBVIOUS
<1>1. CASE UNCHANGED vars
  BY <1>1 DEF vars, registrVars, threadVars, Typed, TypeOK, Counted
<1>2. CASE ServerExit
  BY <1>2 DEF ServerExit, registrVars, threadVars, Typed, TypeOK, Counted
<1> QED
  BY <1>1, <1>2, ClientTyped, RegistrTyped, ProcesTyped DEF Next

\* Every reachable state is well typed: the loops of registr never leave
\* threads[] and its count of clients never goes below zero
\* (server_2.c:118-161).
THEOREM TypeCorrect == Spec => []TypeOK
<1>1. Typed => TypeOK
  BY DEF Typed
<1> QED
  BY <1>1, InitTyped, NextTyped, PTL DEF Spec

-----------------------------------------------------------------------------
(* A client that is alone.                                                  *)

Asks(c, i) == cpc[c] = "date" /\ port[c] = i

\* Only one client is under way, and it is in one place: waiting, being
\* scanned for, in a backlog, or with a thread.  Between its service and the
\* end of the sleep a thread's flag is up.
OneUnderWay == \A c, d \in Clients : UnderWay(c) /\ UnderWay(d) => c = d
InWaiting == waiting # <<>> => \E c \in Clients : waiting = <<c>> /\ cpc[c] = "port"
InScan == rpc = "scan" => cpc[client] = "port" /\ waiting = <<>>
InBacklog(i) == backlog[i] # <<>> => \E c \in Clients : backlog[i] = <<c>> /\ Asks(c, i)
InService(i) == tpc[i] \in {"flag", "serve"} => backlog[i] = <<>> /\ Asks(conn[i], i)
Flagged(i) == tpc[i] \in {"serve", "sleep"} => average[i] = 1
NobodyAsleep(i) == tpc[i] = "sleep" => \A c \in Clients : ~HasPort(c, i)
ThreadAlone(i) == InBacklog(i) /\ InService(i) /\ Flagged(i) /\ NobodyAsleep(i)

Alone == OneUnderWay /\ InWaiting /\ InScan /\ \A i \in Threads : ThreadAlone(i)
WhenAlone == server = "up" /\ alone = "yes" => Alone

LEMMA InitAlone == Init => WhenAlone
BY DEF Init, WhenAlone, Alone, OneUnderWay, UnderWay, InWaiting, InScan, ThreadAlone,
       InBacklog, InService, Flagged, NobodyAsleep

\* A step of a client keeps it so.
LEMMA ClientAlone ==
    ASSUME Typed, Alone, server = "up", alone' = "yes", NEW c \in Clients,
           Connect(c) \/ ConnectRefused(c) \/ GoesOn(c)
    PROVE  Alone'
<1> USE DEF Typed, TypeOK, Counted, registrVars, threadVars, Alone, OneUnderWay, UnderWay
<1>1. CASE Connect(c)
  <2>1. \A d \in Clients : ~UnderWay(d)
    BY <1>1 DEF Connect
  <2>2. waiting = <<>> /\ rpc # "scan"
    BY <2>1 DEF InWaiting, InScan
  <2>3. waiting' = <<c>> /\ cpc'[c] = "port"
    BY <1>1, <2>2 DEF Connect
  <2>4. \A i \in Threads : backlog[i] = <<>> /\ tpc[i] \notin {"flag", "serve"}
    BY <2>1 DEF ThreadAlone, InBacklog, InService, Asks
  <2>5. OneUnderWay' /\ InWaiting' /\ InScan'
    BY <1>1, <2>1, <2>2, <2>3 DEF Connect, InWaiting, InScan
  <2>6. \A i \in Threads : ThreadAlone(i)'
    BY <1>1, <2>1, <2>4 DEF Connect, ThreadAlone, InBacklog, InService, Flagged, NobodyAsleep, HasPort
  <2> QED
    BY <2>5, <2>6
<1>2. CASE ConnectRefused(c)
  <2>1. OneUnderWay' /\ InWaiting' /\ InScan'
    BY <1>2 DEF ConnectRefused, InWaiting, InScan
  <2>2. \A i \in Threads : ThreadAlone(i)'
    BY <1>2 DEF ConnectRefused, ThreadAlone, InBacklog, InService, Flagged, NobodyAsleep, HasPort, Asks
  <2> QED
    BY <2>1, <2>2
<1>3. CASE Dial(c)
  <2>1. \A i \in Threads : backlog[i] = <<>> /\ tpc[i] \notin {"flag", "serve"}
    BY <1>3 DEF Dial, ThreadAlone, InBacklog, InService, Asks
  <2>2. waiting = <<>> /\ rpc # "scan"
    BY <1>3 DEF Dial, InWaiting, InScan
  <2>3. backlog'[port[c]] = <<c>> /\ \A i \in Threads \ {port[c]} : backlog'[i] = <<>>
    <3>1. port[c] \in Threads /\ backlog[port[c]] = <<>>
      BY <2>1
    <3>2. backlog' = [backlog EXCEPT ![port[c]] = Append(backlog[port[c]], c)]
      BY <1>3 DEF Dial
    <3>3. Append(<<>>, c) = <<c>>
      OBVIOUS
    <3> QED
      BY <2>1, <3>1, <3>2, <3>3
  <2>4. \A i \in Threads : ThreadAlone(i)'
    BY <1>3, <2>1, <2>3 DEF Dial, ThreadAlone, InBacklog, InService, Flagged, NobodyAsleep, HasPort, Asks
  <2> QED
    BY <1>3, <2>2, <2>4 DEF Dial, InWaiting, InScan
<1>4. CASE DialRefused(c)
  <2>1. OneUnderWay' /\ InWaiting' /\ InScan'
    BY <1>4 DEF DialRefused, InWaiting, InScan
  <2>2. \A i \in Threads : ThreadAlone(i)'
    BY <1>4 DEF DialRefused, ThreadAlone, InBacklog, InService, Flagged, NobodyAsleep, HasPort, Asks
  <2> QED
    BY <2>1, <2>2
<1> QED
  BY <1>1, <1>2, <1>3, <1>4 DEF GoesOn, HangUp

\* A step of registr: the port it gives has no thread in service or asleep.
LEMMA RegistrAlone ==
    ASSUME Typed, Alone, server = "up", Registr
    PROVE  Alone'
<1> USE DEF Typed, TypeOK, Counted, registrVars, threadVars, Alone, OneUnderWay, UnderWay
<1>1. CASE CreateThread
  <2>1. ri' \in Threads /\ rpc' \in {"create", "accept"}
    BY <1>1, NextThreadType DEF CreateThread
  <2>2. \A i \in Threads : ThreadAlone(i)'
    BY <1>1 DEF CreateThread, ThreadAlone, InBacklog, InService, Flagged, NobodyAsleep, HasPort, Asks
  <2> QED
    BY <1>1, <2>1, <2>2 DEF CreateThread, InWaiting, InScan
<1>2. CASE Accept
  <2>1. PICK c \in Clients : waiting = <<c>> /\ cpc[c] = "port"
    BY <1>2 DEF Accept, InWaiting
  <2>2. client' = c /\ waiting' = <<>>
    BY <1>2, <2>1 DEF Accept
  <2>3. \A i \in Threads : ThreadAlone(i)'
    BY <1>2 DEF Accept, ThreadAlone, InBacklog, InService, Flagged, NobodyAsleep, HasPort, Asks
  <2> QED
    BY <1>2, <2>1, <2>2, <2>3 DEF Accept, InWaiting, InScan
<1>3. CASE GivePort
  <2>1. client \in Clients /\ cpc[client] = "port" /\ waiting = <<>>
    BY <1>3 DEF GivePort, InScan
  <2>2. \A i \in Threads : backlog[i] = <<>> /\ tpc[i] \notin {"flag", "serve"}
    BY <2>1 DEF ThreadAlone, InBacklog, InService, Asks
  <2>3. tpc[ri] # "sleep"
    BY <1>3 DEF GivePort, ThreadAlone, Flagged
  <2>4. \A i \in Threads : ThreadAlone(i)'
    BY <1>3, <2>1, <2>2, <2>3
    DEF GivePort, ThreadAlone, InBacklog, InService, Flagged, NobodyAsleep, HasPort
  <2>5. OneUnderWay' /\ waiting' = <<>> /\ rpc' # "scan"
    BY <1>3, <2>1 DEF GivePort, AfterClient
  <2> QED
    BY <2>4, <2>5 DEF InWaiting, InScan
<1>4. CASE SkipThread
  <2>1. \A i \in Threads : ThreadAlone(i)'
    BY <1>4 DEF SkipThread, ThreadAlone, InBacklog, InService, Flagged, NobodyAsleep, HasPort, Asks
  <2> QED
    BY <1>4, <2>1 DEF SkipThread, InWaiting, InScan
<1>5. CASE Drain
  <2>1. \A i \in Threads : ThreadAlone(i)'
    BY <1>5 DEF Drain, ThreadAlone, InBacklog, InService, Flagged, NobodyAsleep, HasPort, Asks
  <2> QED
    BY <1>5, <2>1 DEF Drain, InWaiting, InScan
<1> QED
  BY <1>1, <1>2, <1>3, <1>4, <1>5 DEF Registr

\* A step of a pool thread: whoever it has served is no longer under way.
LEMMA ProcesAlone ==
    ASSUME Typed, Alone, server = "up", NEW i \in Threads, Proces(i)
    PROVE  Alone'
<1> USE DEF Typed, TypeOK, Counted, registrVars, Alone, OneUnderWay, UnderWay
<1>1. CASE Listen(i)
  BY <1>1 DEF Listen, InWaiting, InScan, ThreadAlone, InBacklog, InService, Flagged,
              NobodyAsleep, HasPort, Asks
<1>2. CASE AcceptRequest(i)
  <2>1. PICK c \in Clients : backlog[i] = <<c>> /\ Asks(c, i)
    BY <1>2 DEF AcceptRequest, ThreadAlone, InBacklog
  <2>2. conn'[i] = c /\ backlog'[i] = <<>>
    BY <1>2, <2>1 DEF AcceptRequest
  <2>3. ThreadAlone(i)'
    BY <1>2, <2>1, <2>2 DEF AcceptRequest, ThreadAlone, InBacklog, InService, Flagged,
                            NobodyAsleep, HasPort, Asks
  <2>4. \A j \in Threads \ {i} : ThreadAlone(j)'
    BY <1>2 DEF AcceptRequest, ThreadAlone, InBacklog, InService, Flagged, NobodyAsleep,
                HasPort, Asks
  <2> QED
    BY <1>2, <2>3, <2>4 DEF AcceptRequest, InWaiting, InScan
<1>3. CASE RaiseFlag(i)
  BY <1>3 DEF RaiseFlag, InWaiting, InScan, ThreadAlone, InBacklog, InService, Flagged,
              NobodyAsleep, HasPort, Asks
<1>4. CASE Serve(i)
  <2>1. Asks(conn[i], i) /\ backlog[i] = <<>> /\ average[i] = 1 /\ conn[i] \in Clients
    BY <1>4 DEF Serve, ThreadAlone, InService, Flagged
  <2>2. \A d \in Clients : ~UnderWay(d)'
    BY <1>4, <2>1 DEF Serve, Asks
  <2>3. waiting = <<>> /\ rpc # "scan"
    BY <2>1 DEF InWaiting, InScan, Asks
  <2>4. \A j \in Threads \ {i} : backlog[j] = <<>> /\ tpc[j] \notin {"flag", "serve"}
    BY <2>1 DEF ThreadAlone, InBacklog, InService, Asks
  <2>5. \A j \in Threads : ThreadAlone(j)'
    BY <1>4, <2>1, <2>2, <2>4 DEF Serve, FlagsInSleep, ThreadAlone, InBacklog, InService,
                                  Flagged, NobodyAsleep, HasPort
  <2> QED
    BY <1>4, <2>2, <2>3, <2>5 DEF Serve, InWaiting, InScan
<1>5. CASE Finish(i)
  BY <1>5 DEF Finish, FlagAfterService, AfterService, InWaiting, InScan, ThreadAlone, InBacklog,
              InService, Flagged, NobodyAsleep, HasPort, Asks
<1> QED
  BY <1>1, <1>2, <1>3, <1>4, <1>5 DEF Proces

\* The server does not come back, and who was not alone stays so.
LEMMA StillAlone ==
    ASSUME [Next]_vars, server' = "up", alone' = "yes"
    PROVE  server = "up" /\ alone = "yes"
BY DEF Next, vars, registrVars, threadVars, Connect, ConnectRefused, GoesOn, Dial, DialRefused,
       HangUp, Registr, CreateThread, Accept, GivePort, SkipThread, Drain, Proces, Listen,
       AcceptRequest, RaiseFlag, Serve, Finish, ServerExit

\* A client that starts when no other is under way is handed a port that no
\* other client has and whose thread can serve it next (server_2.c:53, 72-74,
\* 137-142).
THEOREM PortsNewWhenAlone == Spec => []NewPortWhenAlone
<1>1. Typed /\ WhenAlone /\ [Next]_vars => WhenAlone'
  <2> SUFFICES ASSUME Typed, WhenAlone, [Next]_vars, server' = "up", alone' = "yes"
               PROVE  Alone'
    BY DEF WhenAlone
  <2>1. Alone /\ server = "up"
    BY StillAlone DEF WhenAlone
  <2>2. CASE UNCHANGED vars
    BY <2>1, <2>2 DEF vars, registrVars, threadVars, Alone, OneUnderWay, UnderWay, InWaiting,
          InScan, ThreadAlone, InBacklog, InService, Flagged, NobodyAsleep, HasPort, Asks
  <2>3. ~ServerExit
    BY DEF ServerExit
  <2> QED
    BY <2>1, <2>2, <2>3, ClientAlone, RegistrAlone, ProcesAlone DEF Next
<1>2. Typed /\ WhenAlone => NewPortWhenAlone
  BY DEF Typed, TypeOK, WhenAlone, Alone, OneUnderWay, UnderWay, ThreadAlone, NobodyAsleep,
         NewPortWhenAlone, NewPort, HasPort
<1> QED
  BY <1>1, <1>2, InitTyped, NextTyped, InitAlone, PTL DEF Spec

-----------------------------------------------------------------------------
(* The types of the other two servers.                                      *)

\* A step of the server with a thread for every client keeps its types.
LEMMA ThreadsTyped == PerClient!TypeOK /\ [PerClient!Next]_(PerClient!vars) => PerClient!TypeOK'
<1> SUFFICES ASSUME PerClient!TypeOK, [PerClient!Next]_(PerClient!vars) PROVE PerClient!TypeOK'
  OBVIOUS
<1> USE DEF PerClient!TypeOK, PerClient!registrVars, PerClient!threadVars
<1>1. CASE UNCHANGED PerClient!vars
  BY <1>1 DEF PerClient!vars
<1>2. ASSUME NEW c \in Clients, PerClient!Connect(c) \/ PerClient!ConnectRefused(c) \/ PerClient!GoesOn(c)
      PROVE  PerClient!TypeOK'
  <2>1. CASE PerClient!Connect(c)
    BY <2>1 DEF PerClient!Connect
  <2>2. CASE PerClient!ConnectRefused(c)
    BY <2>2 DEF PerClient!ConnectRefused
  <2>3. CASE PerClient!Dial(c)
    <3>1. conn1' \in [PerClient!Threads -> Clients \cup {NoClient}]
      BY <2>3 DEF PerClient!Dial
    <3> QED
      BY <2>3, <3>1 DEF PerClient!Dial
  <2>4. CASE PerClient!DialRefused(c)
    BY <2>4 DEF PerClient!DialRefused
  <2>5. CASE PerClient!HangUp(c)
    <3>1. cpc1' \in [Clients -> {"start", "port", "dial", "date", "done", "failed", "epoch"}]
      BY <2>5 DEF PerClient!HangUp
    <3> QED
      BY <2>5, <3>1 DEF PerClient!HangUp
  <2> QED
    BY <1>2, <2>1, <2>2, <2>3, <2>4, <2>5 DEF PerClient!GoesOn
<1>3. CASE PerClient!Registr
  <2>1. CASE PerClient!Accept
    BY <2>1 DEF PerClient!Accept
  <2>2. n \in PerClient!Threads
    BY <1>3, MaxClientsAssumption
    DEF PerClient!Registr, PerClient!Accept, PerClient!Store, PerClient!CreateThread,
        PerClient!SendPort, PerClient!Threads
  <2>3. CASE PerClient!Store
    BY <2>2, <2>3 DEF PerClient!Store, PerClient!Stored
  <2>4. CASE PerClient!CreateThread
    BY <2>4 DEF PerClient!CreateThread
  <2>5. CASE PerClient!SendPort
    <3>1. /\ n + 1 \in 0 .. MaxClients /\ (n + 1 # MaxClients => n + 1 < MaxClients)
          /\ n' = n + 1 /\ server1' = IF n + 1 = MaxClients THEN "down" ELSE server1
      BY <2>2, <2>5, MaxClientsAssumption DEF PerClient!SendPort, PerClient!Threads
    <3> QED
      BY <2>2, <2>5, <3>1 DEF PerClient!SendPort
  <2> QED
    BY <1>3, <2>1, <2>3, <2>4, <2>5 DEF PerClient!Registr
<1>4. ASSUME NEW i \in PerClient!Threads, PerClient!Proces(i) PROVE PerClient!TypeOK'
  BY <1>4
  DEF PerClient!Proces, PerClient!ReadPort, PerClient!BindPort, PerClient!BindFails,
      PerClient!AcceptRequest, PerClient!Serve, PerClient!DateSent
<1>5. CASE PerClient!ServerExit
  BY <1>5 DEF PerClient!ServerExit
<1> QED
  BY <1>1, <1>2, <1>3, <1>4, <1>5 DEF PerClient!Next

LEMMA SameCardinality == \A S : Epoll!Cardinality(S) = Cardinality(S)
BY DEF Epoll!Cardinality, Cardinality

\* epoll_wait returns one event for each ready socket, two at most.
LEMMA Events ==
    ASSUME Epoll!TypeOK, Epoll!Poll
    PROVE  events' \in Seq({"tcp", "udp"}) /\ Len(events') <= 2 /\ events' # <<>>
<1> DEFINE R == Epoll!ReadySockets
<1>1. R \in {{"tcp"}, {"udp"}, {"tcp", "udp"}}
  BY DEF Epoll!Poll, Epoll!ReadySockets
<1>2. Cardinality(R) \in 1 .. 2
  <2>1. Cardinality({"tcp"}) = 1 /\ Cardinality({"udp"}) = 1
    BY FS_Singleton
  <2>2. Cardinality({"tcp"} \cup {"udp"}) = 2
    <3>1. IsFiniteSet({"tcp"}) /\ "udp" \notin {"tcp"}
      BY FS_Singleton
    <3>2. Cardinality({"tcp"} \cup {"udp"}) = Cardinality({"tcp"}) + 1
      BY <3>1, FS_AddElement
    <3> QED
      BY <2>1, <3>2
  <2>3. {"tcp"} \cup {"udp"} = {"tcp", "udp"}
    OBVIOUS
  <2> QED
    BY <1>1, <2>1, <2>2, <2>3
<1>3. events' \in [1 .. Cardinality(R) -> R]
  <2>1. events' \in {s \in [1 .. Cardinality(Epoll!ReadySockets) -> Epoll!ReadySockets] :
                          {s[k] : k \in DOMAIN s} = Epoll!ReadySockets}
    BY Zenon, SameCardinality DEF Epoll!Poll
  <2> QED
    BY Zenon, <2>1
<1> HIDE DEF R
<1>4. events' \in Seq({"tcp", "udp"}) /\ Len(events') = Cardinality(R)
  BY <1>1, <1>2, <1>3
<1> QED
  BY <1>2, <1>4

\* After the event there is one less, and the loop polls after the last.
LEMMA OneLess ==
    ASSUME Epoll!TypeOK, spc # "poll", Epoll!NextEvent
    PROVE  /\ events' \in Seq({"tcp", "udp"}) /\ Len(events') <= 2
           /\ spc' \in {"poll", "loop"} /\ (spc' = "poll") = (events' = <<>>)
<1>1. events \in Seq({"tcp", "udp"}) /\ events # <<>> /\ Len(events) <= 2
  BY DEF Epoll!TypeOK
<1>2. /\ events' \in Seq({"tcp", "udp"}) /\ Len(events') = Len(events) - 1
      /\ Len(events) \in Nat
  BY <1>1 DEF Epoll!NextEvent
<1>3. events' = <<>> <=> Len(events) = 1
  BY <1>2
<1> QED
  BY <1>1, <1>2, <1>3 DEF Epoll!NextEvent

\* A step of the server with one loop keeps its types.
LEMMA LoopTyped == Epoll!TypeOK /\ [Epoll!Next]_(Epoll!vars) => Epoll!TypeOK'
<1> SUFFICES ASSUME Epoll!TypeOK, [Epoll!Next]_(Epoll!vars) PROVE Epoll!TypeOK'
  OBVIOUS
<1>0. Epoll!Poll => events' \in Seq({"tcp", "udp"}) /\ Len(events') <= 2 /\ events' # <<>>
  BY Events
<1> USE DEF Epoll!TypeOK
<1>1. CASE UNCHANGED Epoll!vars
  BY <1>1 DEF Epoll!vars
<1>2. ASSUME NEW c \in Epoll!Everyone, Epoll!Client(c) PROVE Epoll!TypeOK'
  <2>1. CASE Epoll!Connect(c)
    <3>1. listening' \in Seq(Clients)
      BY <2>1 DEF Epoll!Connect
    <3> QED
      BY <2>1, <3>1 DEF Epoll!Connect, Epoll!Goes
  <2>4. CASE Epoll!Refused(c)
    BY <2>4 DEF Epoll!Refused, Epoll!Goes
  <2>5. CASE Epoll!WriteDate(c)
    BY <2>5 DEF Epoll!WriteDate, Epoll!Goes
  <2>6. CASE Epoll!ReadNothing(c)
    BY <2>6 DEF Epoll!ReadNothing, Epoll!Goes
  <2>2. CASE Epoll!Stop(c) \/ Epoll!Die(c)
    BY <2>2 DEF Epoll!Stop, Epoll!Die, Epoll!Goes, Epoll!Fault
  <2>3. CASE Epoll!SendDate(c)
    <3>1. CASE arrived' = Append(arrived, c) /\ UNCHANGED faults4
      <4>1. arrived' \in Seq(UdpClients)
        BY <2>3, <3>1 DEF Epoll!SendDate
      <4> QED
        BY <2>3, <3>1, <4>1 DEF Epoll!SendDate, Epoll!Goes
    <3>2. CASE Epoll!Fault /\ UNCHANGED arrived
      BY <2>3, <3>2 DEF Epoll!SendDate, Epoll!Goes, Epoll!Fault
    <3> QED
      BY <2>3, <3>1, <3>2 DEF Epoll!SendDate
  <2> QED
    BY <1>2, <2>1, <2>2, <2>3, <2>4, <2>5, <2>6 DEF Epoll!Client, Epoll!GoesOn
<1>3. CASE Epoll!Poll
  <2>1. events' \in Seq({"tcp", "udp"}) /\ Len(events') <= 2 /\ events' # <<>>
    BY <1>0, <1>3
  <2>2. /\ spc = "poll" /\ spc' = "loop"
        /\ UNCHANGED <<server4, client4, listening, arrived, cpc4, faults4>>
    BY <1>3 DEF Epoll!Poll
  <2> QED
    BY <2>1, <2>2
<1>4. CASE Epoll!AcceptTcp
  <2>1. Head(listening) \in Clients /\ Tail(listening) \in Seq(Clients) /\ Head(listening) # NoClient
    BY <1>4, NoClientAssumption DEF Epoll!AcceptTcp
  <2> QED
    BY <1>4, <2>1 DEF Epoll!AcceptTcp
<1>5. CASE Epoll!ServeTcp
  <2>1. cpc4' \in [Epoll!Everyone -> {"start", "connected", "silent", "gone", "date", "done", "failed"}]
    BY <1>5 DEF Epoll!ServeTcp, Epoll!Goes
  <2>2. spc # "poll" /\ Epoll!NextEvent
    BY <1>5 DEF Epoll!ServeTcp
  <2> QED
    BY <1>5, <2>1, <2>2, OneLess DEF Epoll!ServeTcp
<1>6. CASE Epoll!ServeUdp
  <2>1. cpc4' \in [Epoll!Everyone -> {"start", "connected", "silent", "gone", "date", "done", "failed"}]
    BY <1>6 DEF Epoll!ServeUdp, Epoll!Goes
  <2>2. Tail(arrived) \in Seq(UdpClients)
    BY <1>6 DEF Epoll!ServeUdp
  <2>3. spc # "poll" /\ Epoll!NextEvent
    BY <1>6 DEF Epoll!ServeUdp
  <2> QED
    BY <1>6, <2>1, <2>2, <2>3, OneLess DEF Epoll!ServeUdp
<1>7. CASE Epoll!ServerExit
  BY <1>7 DEF Epoll!ServerExit, Epoll!Fault
<1> QED
  BY <1>1, <1>2, <1>3, <1>4, <1>5, <1>6, <1>7 DEF Epoll!Next, Epoll!Processing

-----------------------------------------------------------------------------
(* One of the three runs, and the others stay as they are.                  *)

LEMMA ServersStart == ServersInit => Init /\ PerClient!Init /\ Epoll!Init
BY DEF ServersInit

LEMMA ServersStep ==
    ASSUME [ServersNext]_serversVars
    PROVE  [Next]_vars /\ [PerClient!Next]_(PerClient!vars) /\ [Epoll!Next]_(Epoll!vars)
<1>1. UNCHANGED threadsVars => UNCHANGED PerClient!vars
  BY DEF threadsVars, PerClient!vars, PerClient!registrVars, PerClient!threadVars
<1>2. UNCHANGED epollVars => UNCHANGED Epoll!vars
  BY DEF epollVars, Epoll!vars
<1>3. CASE UNCHANGED serversVars
  BY <1>1, <1>2, <1>3 DEF serversVars
<1>4. CASE Pool(Next)
  BY <1>1, <1>2, <1>4 DEF Pool
<1>5. CASE PerThread(PerClient!Next)
  BY <1>2, <1>5 DEF PerThread
<1>6. CASE OneLoop(Epoll!Next)
  BY <1>1, <1>6 DEF OneLoop
<1> QED
  BY <1>3, <1>4, <1>5, <1>6 DEF ServersNext

LEMMA ThreadsInitTyped == PerClient!Init => PerClient!TypeOK
BY MaxClientsAssumption DEF PerClient!Init, PerClient!TypeOK, PerClient!Threads

LEMMA LoopInitTyped == Epoll!Init => Epoll!TypeOK
BY DEF Epoll!Init, Epoll!TypeOK

\* Whichever server runs, every variable keeps its type: registr of server_1.c stays
\* within thread[], and events[] has room for both sockets (server_1.c:102, 121,
\* server_2.c:118-161, server_4.c:78).
THEOREM ServersTypeCorrect == ServersSpec => []ServersTypeOK
<1>1. ServersInit => Typed /\ PerClient!TypeOK /\ Epoll!TypeOK
  BY ServersStart, InitTyped, ThreadsInitTyped, LoopInitTyped
<1>2. Typed /\ PerClient!TypeOK /\ Epoll!TypeOK /\ [ServersNext]_serversVars
          => (Typed /\ PerClient!TypeOK /\ Epoll!TypeOK)'
  BY ServersStep, NextTyped, ThreadsTyped, LoopTyped
<1>3. Typed /\ PerClient!TypeOK /\ Epoll!TypeOK => ServersTypeOK
  BY DEF Typed, ServersTypeOK
<1> QED
  BY <1>1, <1>2, <1>3, PTL DEF ServersSpec
-----------------------------------------------------------------------------
(* A thread for every client.                                               *)

\* The one client under way waits for registr, or registr has it in hand.
InRegistr ==
    /\ \A c, d \in Clients : PerClient!UnderWay(c) /\ PerClient!UnderWay(d) => c = d
    /\ waiting1 # <<>> =>
           rpc1 = "accept" /\ \E c \in Clients : waiting1 = <<c>> /\ cpc1[c] = "port"
    /\ rpc1 # "accept" => client1 \in Clients /\ cpc1[client1] = "port"
    /\ rpc1 = "create" => threads = n

\* Thread i was made for the i-th client, and reads the port i, which is still in registr's
\* variable: whoever it was made for has not got its date.
MadeFor(i) ==
    /\ tpc1[i] = "none" <=> i > n \/ (i = n /\ rpc1 # "send")
    /\ tpc1[i] = "start" => threads = i
    /\ tpc1[i] \in {"bind", "accept", "recv", "done"} => bound[i] = i
    /\ tpc1[i] \in {"start", "bind", "accept", "recv"} =>
           \/ i = n
           \/ \E c \in Clients : cpc1[c] \in {"dial", "date"} /\ port1[c] = i
    /\ i = n \/ tpc1[i] \in {"none", "start", "bind"} => conn1[i] = NoClient
    /\ tpc1[i] = "recv" => conn1[i] \in Clients
    /\ i = n => tpc1[i] # "done"

\* Whoever has a port finds its thread on the way to it, and is then its client.
Follows(c) ==
    /\ cpc1[c] \notin {"failed", "epoch"}
    /\ cpc1[c] = "dial" =>
           /\ port1[c] \in 0 .. n - 1 /\ conn1[port1[c]] = NoClient
           /\ tpc1[port1[c]] \in {"start", "bind", "accept"}
    /\ cpc1[c] = "date" =>
           /\ port1[c] \in 0 .. n - 1 /\ conn1[port1[c]] = c
           /\ tpc1[port1[c]] \in {"accept", "recv"}

OneEach ==
    /\ server1 = "up" /\ InRegistr
    /\ (\A i \in PerClient!Threads : MadeFor(i)) /\ \A c \in Clients : Follows(c)
OneEachAlone == alone1 = "yes" /\ faults1 = 0 /\ n < MaxClients => OneEach

LEMMA InitOneEach == PerClient!Init => OneEachAlone
<1> SUFFICES ASSUME PerClient!Init, n < MaxClients PROVE OneEach
  BY DEF OneEachAlone
<1>1. \A i \in PerClient!Threads : MadeFor(i)
  BY MaxClientsAssumption DEF PerClient!Init, PerClient!Threads, MadeFor
<1>2. \A c \in Clients : Follows(c)
  BY DEF PerClient!Init, Follows
<1> QED
  BY <1>1, <1>2 DEF PerClient!Init, OneEach, InRegistr, PerClient!UnderWay

\* A client that has a port finds its thread at work for it and for nobody else.
LEMMA ClientOneEach ==
    ASSUME PerClient!TypeOK, OneEach, NEW c \in Clients, alone1' = "yes",
           PerClient!Connect(c) \/ PerClient!ConnectRefused(c) \/ PerClient!GoesOn(c)
    PROVE  OneEach'
<1> USE DEF PerClient!TypeOK, PerClient!registrVars, PerClient!threadVars, OneEach,
            PerClient!UnderWay
<1>1. CASE PerClient!Connect(c)
  <2>1. /\ \A d \in Clients : ~PerClient!UnderWay(d)
        /\ cpc1[c] = "start" /\ cpc1' = [cpc1 EXCEPT ![c] = "port"]
        /\ waiting1' = Append(waiting1, c)
        /\ UNCHANGED <<server1, rpc1, n, threads, client1, tpc1, bound, conn1, port1, faults1>>
    BY <1>1 DEF PerClient!Connect
  <2>2. waiting1 = <<>> /\ rpc1 = "accept"
    BY <2>1 DEF InRegistr
  <2>3. waiting1' = <<c>>
    BY <2>1, <2>2
  <2>4. InRegistr'
    BY <2>1, <2>2, <2>3 DEF InRegistr
  <2>5. \A i \in PerClient!Threads : MadeFor(i)'
    BY <2>1 DEF MadeFor
  <2>6. \A d \in Clients : Follows(d)'
    BY <2>1 DEF Follows
  <2> QED
    BY <2>1, <2>4, <2>5, <2>6
<1>2. CASE PerClient!Dial(c)
  <2>1. /\ cpc1[c] = "dial" /\ cpc1' = [cpc1 EXCEPT ![c] = "date"]
        /\ UNCHANGED <<server1, rpc1, n, threads, client1, waiting1, tpc1, bound, port1, faults1>>
    BY <1>2 DEF PerClient!Dial
  <2>2. PICK i \in PerClient!Threads :
            PerClient!ListensOn(i, port1[c]) /\ conn1' = [conn1 EXCEPT ![i] = c]
    BY <1>2 DEF PerClient!Dial
  <2>3. i = port1[c] /\ tpc1[i] = "accept"
    BY <2>2 DEF MadeFor, PerClient!ListensOn
  <2>4. i \in 0 .. n - 1 /\ i # n
    BY <2>1, <2>3 DEF Follows
  <2>5. rpc1 = "accept" /\ waiting1 = <<>>
    BY <2>1 DEF InRegistr
  <2>6. InRegistr'
    BY <2>1, <2>5 DEF InRegistr
  <2>7. \A j \in PerClient!Threads : MadeFor(j)'
    BY <2>1, <2>2, <2>3, <2>4 DEF MadeFor
  <2>8. \A d \in Clients \ {c} : ~PerClient!UnderWay(d)
    BY <2>1 DEF InRegistr
  <2>9. \A d \in Clients : Follows(d)'
    BY <2>1, <2>2, <2>3, <2>8 DEF Follows
  <2> QED
    BY <2>1, <2>6, <2>7, <2>9
<1>3. ~PerClient!DialRefused(c)
  <2> SUFFICES ASSUME PerClient!DialRefused(c) PROVE FALSE
    OBVIOUS
  <2>1. cpc1[c] = "dial" /\ tpc1[port1[c]] \notin {"start", "bind"}
        /\ \A i \in PerClient!Threads : ~PerClient!ListensOn(i, port1[c])
    BY DEF PerClient!DialRefused, PerClient!Slept
  <2>2. port1[c] \in 0 .. n - 1 /\ tpc1[port1[c]] = "accept"
    BY <2>1 DEF Follows
  <2>3. port1[c] \in PerClient!Threads
    BY <2>2, MaxClientsAssumption DEF PerClient!Threads
  <2> QED
    BY <2>1, <2>2, <2>3 DEF MadeFor, PerClient!ListensOn
<1>4. ~PerClient!ConnectRefused(c) /\ ~PerClient!HangUp(c)
  BY DEF PerClient!ConnectRefused, PerClient!HangUp
<1> QED
  BY <1>1, <1>2, <1>3, <1>4 DEF PerClient!GoesOn

\* registr writes the next port only when the last thread has read its own.
LEMMA RegistrOneEach ==
    ASSUME PerClient!TypeOK, OneEach, PerClient!Registr, n < MaxClients, n' < MaxClients
    PROVE  OneEach'
<1> USE DEF PerClient!TypeOK, PerClient!registrVars, PerClient!threadVars, OneEach,
            PerClient!UnderWay
<1>0. n \in PerClient!Threads /\ \A i \in PerClient!Threads : i \in Nat
  BY MaxClientsAssumption DEF PerClient!Threads
<1>1. CASE PerClient!Accept
  <2>1. PICK c \in Clients : waiting1 = <<c>> /\ cpc1[c] = "port" /\ rpc1 = "accept"
    BY <1>1 DEF PerClient!Accept, InRegistr
  <2>2. /\ client1' = c /\ waiting1' = <<>> /\ rpc1' = "store"
        /\ UNCHANGED <<server1, n, threads, tpc1, bound, conn1, cpc1, port1>>
    BY <1>1, <2>1 DEF PerClient!Accept
  <2>3. InRegistr'
    BY <2>1, <2>2 DEF InRegistr
  <2>4. \A i \in PerClient!Threads : MadeFor(i)'
    BY <2>1, <2>2 DEF MadeFor
  <2>5. \A d \in Clients : Follows(d)'
    BY <2>2 DEF Follows
  <2> QED
    BY <2>2, <2>3, <2>4, <2>5
<1>2. CASE PerClient!Store
  <2>1. /\ rpc1 = "store" /\ threads' = n /\ rpc1' = "create"
        /\ UNCHANGED <<server1, n, client1, waiting1, tpc1, bound, conn1, cpc1, port1>>
    BY <1>2 DEF PerClient!Store, PerClient!Stored
  <2>2. \A d \in Clients : cpc1[d] \notin {"dial", "date"}
    BY <2>1 DEF InRegistr
  <2>3. \A i \in PerClient!Threads : tpc1[i] # "start"
    BY <2>1, <2>2 DEF MadeFor
  <2>4. InRegistr'
    BY <2>1 DEF InRegistr
  <2>5. \A i \in PerClient!Threads : MadeFor(i)'
    BY <2>1, <2>3 DEF MadeFor
  <2>6. \A d \in Clients : Follows(d)'
    BY <2>1 DEF Follows
  <2> QED
    BY <2>1, <2>4, <2>5, <2>6
<1>3. CASE PerClient!CreateThread
  <2>1. /\ rpc1 = "create" /\ tpc1' = [tpc1 EXCEPT ![n] = "start"] /\ rpc1' = "send"
        /\ UNCHANGED <<server1, n, threads, client1, waiting1, bound, conn1, cpc1, port1>>
    BY <1>3 DEF PerClient!CreateThread
  <2>2. InRegistr'
    BY <2>1 DEF InRegistr
  <2>3. ASSUME NEW i \in PerClient!Threads PROVE MadeFor(i)'
    BY <1>0, <2>1 DEF MadeFor, InRegistr
  <2>4. \A d \in Clients : Follows(d)'
    BY <1>0, <2>1 DEF Follows
  <2> QED
    BY <2>1, <2>2, <2>3, <2>4
<1>4. CASE PerClient!SendPort
  <2>1. /\ rpc1 = "send" /\ port1' = [port1 EXCEPT ![client1] = n]
        /\ cpc1' = [cpc1 EXCEPT ![client1] = "dial"] /\ n' = n + 1 /\ rpc1' = "accept"
        /\ UNCHANGED <<threads, client1, waiting1, tpc1, bound, conn1>>
    BY <1>4 DEF PerClient!SendPort
  <2>2. server1' = "up"
    BY <1>4, <2>1 DEF PerClient!SendPort
  <2>3. client1 \in Clients /\ cpc1[client1] = "port" /\ waiting1 = <<>>
    BY <2>1 DEF InRegistr
  <2>4. InRegistr'
    BY <2>1, <2>3 DEF InRegistr
  <2>5. conn1[n] = NoClient /\ tpc1[n] \in {"start", "bind", "accept"}
    BY <1>0, <2>1, NoClientAssumption DEF MadeFor
  <2>6. ASSUME NEW i \in PerClient!Threads PROVE MadeFor(i)'
    BY <1>0, <2>1, <2>3, <2>5 DEF MadeFor
  <2>7. ASSUME NEW d \in Clients PROVE Follows(d)'
    <3>1. CASE d = client1
      BY <1>0, <2>1, <2>3, <2>5, <3>1 DEF Follows
    <3>2. CASE d # client1
      BY <1>0, <2>1, <2>3, <3>2 DEF Follows
    <3> QED
      BY <3>1, <3>2
  <2> QED
    BY <2>2, <2>4, <2>6, <2>7
<1> QED
  BY <1>1, <1>2, <1>3, <1>4 DEF PerClient!Registr

\* The thread serves the client it was made for; two never bind one port.
LEMMA ProcesOneEach ==
    ASSUME PerClient!TypeOK, OneEach, n < MaxClients, NEW i \in PerClient!Threads,
           PerClient!Proces(i)
    PROVE  OneEach'
<1> USE DEF PerClient!TypeOK, PerClient!registrVars, PerClient!threadVars, OneEach,
            PerClient!UnderWay
<1>0. n \in PerClient!Threads /\ i \in Nat
  BY MaxClientsAssumption DEF PerClient!Threads
<1>1. CASE PerClient!ReadPort(i)
  <2>1. /\ tpc1[i] = "start" /\ bound' = [bound EXCEPT ![i] = threads]
        /\ tpc1' = [tpc1 EXCEPT ![i] = "bind"]
        /\ UNCHANGED <<server1, rpc1, n, threads, client1, waiting1, conn1, cpc1, port1>>
    BY <1>1 DEF PerClient!ReadPort
  <2>2. \A j \in PerClient!Threads : MadeFor(j)'
    BY <2>1 DEF MadeFor
  <2>3. \A d \in Clients : Follows(d)'
    BY <2>1 DEF Follows
  <2> QED
    BY <2>1, <2>2, <2>3 DEF InRegistr
<1>2. CASE PerClient!BindPort(i)
  <2>1. /\ tpc1[i] = "bind" /\ tpc1' = [tpc1 EXCEPT ![i] = "accept"]
        /\ UNCHANGED <<server1, rpc1, n, threads, client1, waiting1, bound, conn1, cpc1, port1>>
    BY <1>2 DEF PerClient!BindPort
  <2>2. \A j \in PerClient!Threads : MadeFor(j)'
    BY <2>1 DEF MadeFor
  <2>3. \A d \in Clients : Follows(d)'
    BY <2>1 DEF Follows
  <2> QED
    BY <2>1, <2>2, <2>3 DEF InRegistr
<1>3. ~PerClient!BindFails(i)
  BY DEF PerClient!BindFails, PerClient!Bound, MadeFor
<1>4. CASE PerClient!AcceptRequest(i)
  <2>1. /\ tpc1[i] = "accept" /\ conn1[i] # NoClient /\ tpc1' = [tpc1 EXCEPT ![i] = "recv"]
        /\ UNCHANGED <<server1, rpc1, n, threads, client1, waiting1, bound, conn1, cpc1, port1>>
    BY <1>4 DEF PerClient!AcceptRequest
  <2>2. conn1[i] \in Clients /\ i # n
    BY <2>1 DEF MadeFor
  <2>3. \A j \in PerClient!Threads : MadeFor(j)'
    BY <2>1, <2>2 DEF MadeFor
  <2>4. \A d \in Clients : Follows(d)'
    BY <2>1 DEF Follows
  <2> QED
    BY <2>1, <2>3, <2>4 DEF InRegistr
<1>5. CASE PerClient!Serve(i)
  <2> DEFINE c == conn1[i]
  <2>1. /\ tpc1[i] = "recv" /\ cpc1' = [cpc1 EXCEPT ![c] = "done"]
        /\ conn1' = [conn1 EXCEPT ![i] = NoClient] /\ tpc1' = [tpc1 EXCEPT ![i] = "done"]
        /\ UNCHANGED <<server1, rpc1, n, threads, client1, waiting1, bound, port1>>
    BY <1>5 DEF PerClient!Serve, PerClient!DateSent
  <2>2. c \in Clients /\ i # n /\ c # NoClient
    BY <2>1, NoClientAssumption DEF MadeFor
  <2>3. cpc1[c] = "date" /\ port1[c] = i
    BY <2>1, <2>2 DEF MadeFor, Follows
  <2> HIDE DEF c
  <2>4. \A d \in Clients : ~PerClient!UnderWay(d)'
    BY <2>1, <2>2, <2>3 DEF InRegistr
  <2>5. waiting1 = <<>> /\ rpc1 = "accept"
    BY <2>2, <2>3 DEF InRegistr
  <2>6. InRegistr'
    BY <2>1, <2>4, <2>5 DEF InRegistr
  <2>7. \A j \in PerClient!Threads \ {i} : j = n \/ tpc1[j] \notin {"start", "bind", "accept", "recv"}
    BY <2>2, <2>3 DEF InRegistr, MadeFor
  <2>8. \A j \in PerClient!Threads : MadeFor(j)'
    BY <2>1, <2>2, <2>7 DEF MadeFor
  <2>9. \A d \in Clients : Follows(d)'
    BY <2>1, <2>2, <2>4 DEF Follows
  <2> QED
    BY <2>1, <2>6, <2>8, <2>9
<1> QED
  BY <1>1, <1>2, <1>3, <1>4, <1>5 DEF PerClient!Proces

\* Who was not alone stays so; faults and clients are only counted up.
LEMMA StillAlone1 ==
    ASSUME PerClient!TypeOK, [PerClient!Next]_(PerClient!vars),
           alone1' = "yes", faults1' = 0, n' < MaxClients
    PROVE  alone1 = "yes" /\ faults1 = 0 /\ n < MaxClients
<1>1. n \in Nat /\ faults1 \in Nat /\ MaxClients \in Nat
  BY MaxClientsAssumption DEF PerClient!TypeOK
<1> QED
  BY <1>1 DEF PerClient!Next, PerClient!vars, PerClient!registrVars, PerClient!threadVars,
       PerClient!Connect, PerClient!ConnectRefused, PerClient!GoesOn, PerClient!Dial,
       PerClient!DialRefused, PerClient!HangUp, PerClient!Registr, PerClient!CreateThread,
       PerClient!Accept, PerClient!Store, PerClient!SendPort, PerClient!Proces,
       PerClient!ReadPort, PerClient!BindPort, PerClient!BindFails, PerClient!AcceptRequest,
       PerClient!Serve, PerClient!ServerExit

\* A client that starts when no other is under way is served by the thread made for
\* it, although the port travels through a variable that registr uses again
\* (server_1.c:20, 120-121).
THEOREM OwnThreads == ServersSpec => []ServedByOwnThread
<1>1. PerClient!TypeOK /\ OneEachAlone /\ [PerClient!Next]_(PerClient!vars) => OneEachAlone'
  <2> SUFFICES ASSUME PerClient!TypeOK, OneEachAlone, [PerClient!Next]_(PerClient!vars),
                      alone1' = "yes", faults1' = 0, n' < MaxClients
               PROVE  OneEach'
    BY DEF OneEachAlone
  <2>1. OneEach /\ n < MaxClients /\ faults1 = 0
    BY StillAlone1 DEF OneEachAlone
  <2>2. CASE UNCHANGED PerClient!vars
    BY <2>1, <2>2 DEF PerClient!vars, PerClient!registrVars, PerClient!threadVars, OneEach,
        InRegistr, MadeFor, Follows, PerClient!UnderWay
  <2>3. ~PerClient!ServerExit
    BY <2>1 DEF PerClient!ServerExit
  <2> QED
    BY <2>1, <2>2, <2>3, ClientOneEach, RegistrOneEach, ProcesOneEach DEF PerClient!Next
<1>2. OneEachAlone => ServedByOwnThread
  BY DEF OneEachAlone, OneEach, Follows, ServedByOwnThread, PerClient!ServedWhenAlone
<1>3. ServersInit => PerClient!TypeOK /\ OneEachAlone
  BY ServersStart, ThreadsInitTyped, InitOneEach
<1>4. PerClient!TypeOK /\ OneEachAlone /\ [ServersNext]_serversVars => (PerClient!TypeOK /\ OneEachAlone)'
  BY <1>1, ServersStep, ThreadsTyped
<1> QED
  BY <1>2, <1>3, <1>4, PTL DEF ServersSpec

\* What is proved of each program holds of it among the others.
THEOREM EachByItself == ServersSpec => Spec /\ PerClient!Spec /\ Epoll!Spec
BY ServersStart, ServersStep, PTL DEF ServersSpec, Spec, PerClient!Spec, Epoll!Spec
=============================================================================
