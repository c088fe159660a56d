---------------------------- MODULE TimeServers ----------------------------
(***************************************************************************)
(* The three TCP time servers of homework_16/second: a pool of threads     *)
(* (server_2.c), a thread for every client (server_1.c) and one loop with  *)
(* epoll (server_4.c).  All of them bind port 48888, so that only one can  *)
(* run on a host; which one is chosen at the start.                        *)
(***************************************************************************)
EXTENDS TcpPool

CONSTANTS
    MaxClients,  \* how many clients server_1.c accepts
    UdpClients   \* the clients of server_4.c that come over UDP

ASSUME MaxClientsAssumption == MaxClients \in Nat \ {0}
ASSUME UdpAssumption == UdpClients \cap (Clients \cup {NoClient}) = {}

VARIABLES
    started,  \* the program that was started
    \* server_1.c and client_1.c
    server1, rpc1, n, threads, waiting1, client1, tpc1, bound, conn1, cpc1, port1, alone1,
    \* server_4.c and its clients
    server4, spc, events, client4, listening, arrived, cpc4,
    faults1, faults4

threadsVars == <<server1, rpc1, n, threads, waiting1, client1, tpc1, bound, conn1, cpc1,
                 port1, alone1, faults1>>
epollVars == <<server4, spc, events, client4, listening, arrived, cpc4, faults4>>

PerClient == INSTANCE TcpThreads
    WITH server <- server1, rpc <- rpc1, waiting <- waiting1, client <- client1,
         tpc <- tpc1, conn <- conn1, cpc <- cpc1, port <- port1, alone <- alone1,
         faults <- faults1

Epoll == INSTANCE EpollServer
    WITH TcpClients <- Clients, server <- server4, client <- client4, cpc <- cpc4,
         faults <- faults4

serversVars == <<started, vars, threadsVars, epollVars>>

ServersInit ==
    /\ started \in {"server_1", "server_2", "server_4"}
    /\ Init /\ PerClient!Init /\ Epoll!Init
    /\ started # "server_2" => \A s \in Steps : step <= s

\* A step of one program leaves the others, which were not started, alone.
Pool(A) == started = "server_2" /\ A /\ UNCHANGED <<started, threadsVars, epollVars>>
PerThread(A) == started = "server_1" /\ A /\ UNCHANGED <<started, vars, epollVars>>
OneLoop(A) == started = "server_4" /\ A /\ UNCHANGED <<started, vars, threadsVars>>

ServersNext == Pool(Next) \/ PerThread(PerClient!Next) \/ OneLoop(Epoll!Next)

ServersSpec == ServersInit /\ [][ServersNext]_serversVars

\* The fairness of the modules, for the program that runs: its threads run, and
\* a client that was started goes on.  As they do so a bounded number of times,
\* one condition for all of them is enough.
Runs ==
    \/ Pool(Registr \/ (\E i \in Threads : Proces(i)) \/ \E c \in Clients : GoesOn(c))
    \/ PerThread(\/ PerClient!Registr \/ \E i \in PerClient!Threads : PerClient!Proces(i)
                 \/ \E c \in Clients : PerClient!GoesOn(c))
    \/ OneLoop(Epoll!Processing \/ \E c \in Clients : Epoll!GoesOn(c))

ServersFairSpec == ServersSpec /\ WF_serversVars(Runs)

-----------------------------------------------------------------------------
(* Properties.                                                              *)

\* The types of all three.
ServersTypeOK == TypeOK /\ PerClient!TypeOK /\ Epoll!TypeOK

\* A client that starts alone is served by a thread of its own (server_1.c).
ServedByOwnThread == PerClient!ServedWhenAlone

\* Whichever server runs, whoever has come so far that a thread or the loop has
\* the request is answered, unless the server ends or, with the loop, a silent
\* client holds it up.  Every client asks once: as long as somebody waits,
\* there comes a time when nobody does (server_1.c:44-69, server_2.c:35-75,
\* server_4.c:78-134).
SomebodyWaits ==
    \/ \E c \in Clients : Waits(c) \/ PerClient!Waits(c)
    \/ \E c \in Clients \cup UdpClients : Epoll!Waits(c)
EveryoneServed == SomebodyWaits ~> ~SomebodyWaits
=============================================================================
