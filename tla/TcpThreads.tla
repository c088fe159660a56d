----------------------------- MODULE TcpThreads ----------------------------
(***************************************************************************)
(* The TCP time server that makes a thread for every client                *)
(* (homework_16/second/server_1.c) and its clients (client_1.c).           *)
(*                                                                         *)
(* registr accepts a client, puts the next port into its variable threads, *)
(* starts a thread on it and sends the client that port.  The thread is    *)
(* given the address of threads, which registr fills in again for the next *)
(* client, and reads the port from there when it gets to run.  The client  *)
(* sleeps a second, connects to its port and asks for the date.  After the *)
(* last client registr ends the process at once.                           *)
(*                                                                         *)
(* Of the clients it is assumed that, once started, they run on: nobody    *)
(* stops between the second connect and the request (client_1.c), so that  *)
(* both are one step; one that stopped would keep its own thread in recv.  *)
(* And of a thread, that it gets to run while its client sleeps.           *)
(*                                                                         *)
(* Port 59999 + i is represented by i, the thread made for it is thread i. *)
(***************************************************************************)
EXTENDS Integers, Sequences

CONSTANTS
    Clients,    \* the client processes (client_1.c)
    NoClient,
    MaxClients, \* how many clients registr accepts (10 in the code)
    MaxFaults   \* bound: failing calls of the server

Threads == 0 .. MaxClients - 1
NoPort == -1

VARIABLES
    server,   \* "up" or "down"
    rpc,      \* registr: "accept", "store", "create" or "send"
    n,        \* clients it has accepted; its variable port is 59999 + n
    threads,  \* the port in its variable threads
    waiting,  \* connections to its socket not yet accepted
    client,   \* the client it is serving
    tpc,      \* thread: "none", "start", "bind", "accept", "recv" or "done"
    conn,     \* the client that has connected to thread i's socket
    bound,    \* the port thread i has read from threads
    cpc,      \* where client c is
    port,     \* client c's variable port
    alone,    \* history: "yes" while no two clients were under way together
    faults    \* faults so far

registrVars == <<rpc, n, threads, client>>
threadVars == <<tpc, bound, conn>>
vars == <<server, registrVars, waiting, threadVars, cpc, port, alone, faults>>

Init ==
    /\ server = "up"
    /\ rpc = "accept" /\ n = 0 /\ threads = NoPort /\ client = NoClient
    /\ waiting = <<>>
    /\ tpc = [i \in Threads |-> "none"]
    /\ bound = [i \in Threads |-> NoPort]
    /\ conn = [i \in Threads |-> NoClient]
    /\ cpc = [c \in Clients |-> "start"]
    /\ port = [c \in Clients |-> NoPort]
    /\ alone = "yes" /\ faults = 0

-----------------------------------------------------------------------------
(* The client.                                                              *)

UnderWay(c) == cpc[c] \in {"port", "dial", "date"}

Connect(c) ==
    /\ cpc[c] = "start" /\ server = "up"
    /\ waiting' = Append(waiting, c)
    /\ cpc' = [cpc EXCEPT ![c] = "port"]
    /\ alone' = IF \E d \in Clients : UnderWay(d) THEN "no" ELSE alone
    /\ UNCHANGED <<server, registrVars, threadVars, port, faults>>

\* After its second of sleep a client finds that the thread made for it has
\* come to wait for it, or for nobody.
Slept(c) == tpc[port[c]] \notin {"start", "bind"}

ListensOn(i, p) == server = "up" /\ tpc[i] = "accept" /\ bound[i] = p

\* The second connect, and the request behind it, as no client stops in between.
Dial(c) ==
    /\ cpc[c] = "dial" /\ Slept(c)
    /\ \E i \in Threads : ListensOn(i, port[c]) /\ conn' = [conn EXCEPT ![i] = c]
    /\ cpc' = [cpc EXCEPT ![c] = "date"]
    /\ UNCHANGED <<server, registrVars, waiting, tpc, bound, port, alone, faults>>

DialRefused(c) ==
    /\ cpc[c] = "dial" /\ (server = "up" => Slept(c))
    /\ \A i \in Threads : ~ListensOn(i, port[c])
    /\ cpc' = [cpc EXCEPT ![c] = "failed"]
    /\ UNCHANGED <<server, registrVars, waiting, threadVars, port, alone, faults>>

\* Nobody listens on the registration port any more.
ConnectRefused(c) ==
    /\ cpc[c] = "start" /\ server = "down"
    /\ cpc' = [cpc EXCEPT ![c] = "failed"]
    /\ UNCHANGED <<server, registrVars, waiting, threadVars, port, alone, faults>>

\* The server has ended: without a port the client cannot connect, instead of
\* the date it prints that of the epoch.
HangUp(c) ==
    /\ cpc[c] \in {"port", "date"} /\ server = "down"
    /\ cpc' = [cpc EXCEPT ![c] = IF @ = "port" THEN "failed" ELSE "epoch"]
    /\ UNCHANGED <<server, registrVars, waiting, threadVars, port, alone, faults>>

GoesOn(c) == Dial(c) \/ DialRefused(c) \/ HangUp(c)

-----------------------------------------------------------------------------
(* registr                                                                  *)

Accept ==
    /\ server = "up" /\ rpc = "accept" /\ waiting # <<>>
    /\ client' = Head(waiting) /\ waiting' = Tail(waiting)
    /\ rpc' = "store"
    /\ UNCHANGED <<server, n, threads, threadVars, cpc, port, alone, faults>>

OneBehind == n - 1                     \* mutant of Stored
Stored == n
Store ==
    /\ server = "up" /\ rpc = "store"
    /\ threads' = Stored
    /\ rpc' = "create"
    /\ UNCHANGED <<server, n, client, waiting, threadVars, cpc, port, alone, faults>>

CreateThread ==
    /\ server = "up" /\ rpc = "create"
    /\ tpc' = [tpc EXCEPT ![n] = "start"]
    /\ rpc' = "send"
    /\ UNCHANGED <<server, n, threads, client, waiting, bound, conn, cpc, port,
                   alone, faults>>

\* The port is sent, and after the last one exit(0) follows at once, whoever
\* is still to be served.
SendPort ==
    /\ server = "up" /\ rpc = "send"
    /\ port' = [port EXCEPT ![client] = n]
    /\ cpc' = [cpc EXCEPT ![client] = "dial"]
    /\ n' = n + 1 /\ rpc' = "accept"
    /\ server' = IF n + 1 = MaxClients THEN "down" ELSE server
    /\ UNCHANGED <<threads, client, waiting, threadVars, alone, faults>>

Registr == Accept \/ Store \/ CreateThread \/ SendPort

-----------------------------------------------------------------------------
(* proces                                                                   *)

ReadPort(i) ==
    /\ server = "up" /\ tpc[i] = "start"
    /\ bound' = [bound EXCEPT ![i] = threads]
    /\ tpc' = [tpc EXCEPT ![i] = "bind"]
    /\ UNCHANGED <<server, registrVars, waiting, conn, cpc, port, alone, faults>>

\* The other threads that have bound the port that thread i has read.
Bound(i) == {k \in Threads \ {i} : bound[k] = bound[i] /\ tpc[k] \in {"accept", "recv", "done"}}

BindPort(i) ==
    /\ server = "up" /\ tpc[i] = "bind" /\ \A k \in Bound(i) : tpc[k] = "done"
    /\ tpc' = [tpc EXCEPT ![i] = "accept"]
    /\ UNCHANGED <<server, registrVars, waiting, bound, conn, cpc, port, alone, faults>>

\* Another thread has the port, or has had it a moment ago: exit(1).
BindFails(i) ==
    /\ server = "up" /\ tpc[i] = "bind" /\ Bound(i) # {}
    /\ server' = "down"
    /\ UNCHANGED <<registrVars, waiting, threadVars, cpc, port, alone, faults>>

AcceptRequest(i) ==
    /\ server = "up" /\ tpc[i] = "accept" /\ conn[i] # NoClient
    /\ tpc' = [tpc EXCEPT ![i] = "recv"]
    /\ UNCHANGED <<server, registrVars, waiting, bound, conn, cpc, port, alone, faults>>

NotSent(c) == cpc                      \* mutant of DateSent
DateSent(c) == [cpc EXCEPT ![c] = "done"]

\* The request is received and answered, and the thread ends.
Serve(i) ==
    /\ server = "up" /\ tpc[i] = "recv"
    /\ cpc' = DateSent(conn[i])
    /\ conn' = [conn EXCEPT ![i] = NoClient]
    /\ tpc' = [tpc EXCEPT ![i] = "done"]
    /\ UNCHANGED <<server, registrVars, waiting, bound, port, alone, faults>>

Proces(i) == ReadPort(i) \/ BindPort(i) \/ BindFails(i) \/ AcceptRequest(i) \/ Serve(i)

\* Another call of the server fails: exit(1).
ServerExit ==
    /\ server = "up" /\ faults < MaxFaults
    /\ faults' = faults + 1 /\ server' = "down"
    /\ UNCHANGED <<registrVars, waiting, threadVars, cpc, port, alone>>

Next ==
    \/ \E c \in Clients : Connect(c) \/ ConnectRefused(c) \/ GoesOn(c)
    \/ Registr
    \/ \E i \in Threads : Proces(i)
    \/ ServerExit

Spec == Init /\ [][Next]_vars

-----------------------------------------------------------------------------
(* Properties.                                                              *)

\* Every variable keeps its type; thread[n] stays within the array
\* (server_1.c:102, 121).
TypeOK ==
    /\ server \in {"up", "down"}
    /\ rpc \in {"accept", "store", "create", "send"}
    /\ n \in 0 .. MaxClients /\ (server = "up" => n < MaxClients)
    /\ threads \in Threads \cup {NoPort}
    /\ client \in Clients \cup {NoClient} /\ waiting \in Seq(Clients)
    /\ tpc \in [Threads -> {"none", "start", "bind", "accept", "recv", "done"}]
    /\ bound \in [Threads -> Threads \cup {NoPort}]
    /\ conn \in [Threads -> Clients \cup {NoClient}]
    /\ cpc \in [Clients -> {"start", "port", "dial", "date", "done", "failed", "epoch"}]
    /\ port \in [Clients -> Threads \cup {NoPort}]
    /\ alone \in {"no", "yes"} /\ faults \in Nat

\* As long as a client starts only when the last one has its date, everybody
\* is served until registr has accepted its last client: the thread has read
\* its port before registr writes the next one over it (server_1.c:20, 120-121).
ServedWhenAlone ==
    alone = "yes" /\ faults = 0 /\ n < MaxClients =>
        \A c \in Clients : cpc[c] \notin {"failed", "epoch"}

\* Who has connected to a thread and has not got the date, while the server is
\* there (server_1.c:44-69).
Waits(c) == cpc[c] = "date" /\ server = "up"
=============================================================================
