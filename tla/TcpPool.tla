------------------------------- MODULE TcpPool -----------------------------
(***************************************************************************)
(* The TCP time server with a pool of threads (homework_16/second/         *)
(* server_2.c) and its clients (client_2.c).                               *)
(*                                                                         *)
(* Every pool thread (proces) listens on a port of its own.  A client      *)
(* connects to registr, is sent the port of the first thread whose flag    *)
(* "average" is 0, connects to that port, asks for the date and gets it.   *)
(* The thread raises its flag after it has accepted the connection.  After *)
(* "step" clients registr waits for the flags and ends the process.        *)
(*                                                                         *)
(* Of the clients it is assumed that, once started, they run on: nobody    *)
(* stops between the second connect and the request (client_2.c:54, 62),   *)
(* so that both are one step.  A client that stopped there would keep a    *)
(* thread in recv (server_2.c:55) with its flag up, and the clients in its *)
(* backlog and the shutdown waiting behind it.                             *)
(*                                                                         *)
(* Thread i's port is 59999 + i and is represented by i.                   *)
(***************************************************************************)
EXTENDS Integers, Sequences, FiniteSets

CONSTANTS
    Clients,    \* the client processes (client_2.c)
    NoClient,
    NThreads,   \* size of the pool (n, 5 in the code)
    Steps,      \* how many clients registr accepts (step, 5 in the code)
    MaxFaults   \* bound: failing calls of the server

ASSUME NThreadsAssumption == NThreads \in Nat \ {0}
ASSUME StepsAssumption == Steps \subseteq Nat \ {0}
ASSUME NoClientAssumption == NoClient \notin Clients
ASSUME BoundAssumption == MaxFaults \in Nat

Threads == 0 .. NThreads - 1

VARIABLES
    server,   \* "up" or "down"
    rpc,      \* registr: "create", "accept", "scan" or "drain"
    ri,       \* its loop variable i
    step,     \* clients it has still to accept
    waiting,  \* connections to its socket not yet accepted
    client,   \* the client it is serving
    tpc,      \* thread: "none", "start", "accept", "flag", "serve", "sleep"
    average,  \* threads[i].average
    backlog,  \* connections to thread i's socket not yet accepted
    conn,     \* the client thread i has accepted
    cpc,      \* where client c is
    port,     \* client c's variable port
    alone,    \* history: "yes" while no two clients were under way together
    faults    \* faults so far

registrVars == <<rpc, ri, step, client>>
threadVars == <<tpc, average, conn>>
vars == <<server, registrVars, waiting, threadVars, backlog, cpc, port, alone, faults>>

Init ==
    /\ server = "up"
    /\ rpc = "create" /\ ri = 0 /\ step \in Steps /\ client = NoClient
    /\ waiting = <<>>
    /\ tpc = [i \in Threads |-> "none"]
    /\ average = [i \in Threads |-> 0]
    /\ backlog = [i \in Threads |-> <<>>]
    /\ conn = [i \in Threads |-> NoClient]
    /\ cpc = [c \in Clients |-> "start"]
    /\ port = [c \in Clients |-> 0]
    /\ alone = "yes" /\ faults = 0

-----------------------------------------------------------------------------
(* The client.                                                              *)

\* Between its two connects and the date.
UnderWay(c) == cpc[c] \in {"port", "dial", "date"}

Connect(c) ==
    /\ cpc[c] = "start" /\ server = "up" /\ rpc # "create"
    /\ waiting' = Append(waiting, c)
    /\ cpc' = [cpc EXCEPT ![c] = "port"]
    /\ alone' = IF \E d \in Clients : UnderWay(d) THEN "no" ELSE alone
    /\ UNCHANGED <<server, registrVars, threadVars, backlog, port, faults>>

\* Nobody listens on the registration port.
ConnectRefused(c) ==
    /\ cpc[c] = "start" /\ (server = "down" \/ rpc = "create")
    /\ cpc' = [cpc EXCEPT ![c] = "failed"]
    /\ UNCHANGED <<server, registrVars, waiting, threadVars, backlog, port, alone, faults>>

Listens(i) == server = "up" /\ tpc[i] \notin {"none", "start"}

\* The second connect, and the request behind it, as no client stops in between.
Dial(c) ==
    /\ cpc[c] = "dial" /\ Listens(port[c])
    /\ backlog' = [backlog EXCEPT ![port[c]] = Append(@, c)]
    /\ cpc' = [cpc EXCEPT ![c] = "date"]
    /\ UNCHANGED <<server, registrVars, waiting, threadVars, port, alone, faults>>

DialRefused(c) ==
    /\ cpc[c] = "dial" /\ ~Listens(port[c])
    /\ cpc' = [cpc EXCEPT ![c] = "failed"]
    /\ UNCHANGED <<server, registrVars, waiting, threadVars, backlog, port, alone, faults>>

\* The server has ended: instead of a port the client has 0 and cannot connect;
\* instead of a date it has 0 and prints that of the epoch.
HangUp(c) ==
    /\ cpc[c] \in {"port", "date"} /\ server = "down"
    /\ cpc' = [cpc EXCEPT ![c] = IF @ = "port" THEN "failed" ELSE "epoch"]
    /\ UNCHANGED <<server, registrVars, waiting, threadVars, backlog, port, alone, faults>>

GoesOn(c) == Dial(c) \/ DialRefused(c) \/ HangUp(c)

-----------------------------------------------------------------------------
(* registr                                                                  *)

PastLastThread(i) == i = NThreads      \* mutant of LastThread
LastThread(i) == i = NThreads - 1

\* The end of a loop over threads[]: on to "then" with i = 0 again.
NextThread(then) ==
    IF LastThread(ri) THEN ri' = 0 /\ rpc' = then
                      ELSE ri' = ri + 1 /\ UNCHANGED rpc

CreateThread ==
    /\ server = "up" /\ rpc = "create"
    /\ tpc' = [tpc EXCEPT ![ri] = "start"]
    /\ NextThread("accept")
    /\ UNCHANGED <<server, step, client, waiting, average, conn, backlog, cpc, port,
                   alone, faults>>

Accept ==
    /\ server = "up" /\ rpc = "accept" /\ waiting # <<>>
    /\ client' = Head(waiting) /\ waiting' = Tail(waiting)
    /\ rpc' = "scan"
    /\ UNCHANGED <<server, ri, step, threadVars, backlog, cpc, port, alone, faults>>

AfterClient == IF step = 1 THEN "drain" ELSE "accept"

GivePort ==
    /\ server = "up" /\ rpc = "scan" /\ average[ri] = 0
    /\ port' = [port EXCEPT ![client] = ri]
    /\ cpc' = [cpc EXCEPT ![client] = "dial"]
    /\ step' = step - 1 /\ rpc' = AfterClient /\ ri' = 0
    /\ UNCHANGED <<server, client, waiting, threadVars, backlog, alone, faults>>

\* After the last thread the client is left without an answer, its connection
\* open.
SkipThread ==
    /\ server = "up" /\ rpc = "scan" /\ average[ri] # 0
    /\ NextThread(AfterClient)
    /\ step' = IF LastThread(ri) THEN step - 1 ELSE step
    /\ UNCHANGED <<server, client, waiting, threadVars, backlog, cpc, port, alone, faults>>

\* The wait for thread i's flag; after the last one exit(0).
Drain ==
    /\ server = "up" /\ rpc = "drain" /\ average[ri] = 0
    /\ IF LastThread(ri) THEN server' = "down" /\ UNCHANGED ri
                         ELSE ri' = ri + 1 /\ UNCHANGED server
    /\ UNCHANGED <<rpc, step, client, waiting, threadVars, backlog, cpc, port, alone, faults>>

Registr == CreateThread \/ Accept \/ GivePort \/ SkipThread \/ Drain

-----------------------------------------------------------------------------
(* proces                                                                   *)

Listen(i) ==
    /\ server = "up" /\ tpc[i] = "start"
    /\ tpc' = [tpc EXCEPT ![i] = "accept"]
    /\ UNCHANGED <<server, registrVars, waiting, average, conn, backlog, cpc, port,
                   alone, faults>>

AcceptRequest(i) ==
    /\ server = "up" /\ tpc[i] = "accept" /\ backlog[i] # <<>>
    /\ conn' = [conn EXCEPT ![i] = Head(backlog[i])]
    /\ backlog' = [backlog EXCEPT ![i] = Tail(@)]
    /\ tpc' = [tpc EXCEPT ![i] = "flag"]
    /\ UNCHANGED <<server, registrVars, waiting, average, cpc, port, alone, faults>>

RaiseFlag(i) ==
    /\ server = "up" /\ tpc[i] = "flag"
    /\ average' = [average EXCEPT ![i] = 1]
    /\ tpc' = [tpc EXCEPT ![i] = "serve"]
    /\ UNCHANGED <<server, registrVars, waiting, conn, backlog, cpc, port, alone, faults>>

LowerBeforeSleep(i) == [average EXCEPT ![i] = 0]   \* mutant of FlagsInSleep
FlagsInSleep(i) == average

\* The request is received and answered.
Serve(i) ==
    /\ server = "up" /\ tpc[i] = "serve"
    /\ cpc' = [cpc EXCEPT ![conn[i]] = "done"]
    /\ average' = FlagsInSleep(i)
    /\ tpc' = [tpc EXCEPT ![i] = "sleep"]
    /\ UNCHANGED <<server, registrVars, waiting, conn, backlog, port, alone, faults>>

Ended == "none"                        \* mutant of AfterService
AfterService == "accept"
FlagKept == 1                          \* mutant of FlagAfterService
FlagAfterService == 0

\* sleep(5), close, and the flag goes down.
Finish(i) ==
    /\ server = "up" /\ tpc[i] = "sleep"
    /\ average' = [average EXCEPT ![i] = FlagAfterService]
    /\ tpc' = [tpc EXCEPT ![i] = AfterService]
    /\ UNCHANGED <<server, registrVars, waiting, conn, backlog, cpc, port, alone, faults>>

Proces(i) == Listen(i) \/ AcceptRequest(i) \/ RaiseFlag(i) \/ Serve(i) \/ Finish(i)

\* A call of the server fails: exit(1).
ServerExit ==
    /\ server = "up" /\ faults < MaxFaults
    /\ faults' = faults + 1 /\ server' = "down"
    /\ UNCHANGED <<registrVars, waiting, threadVars, backlog, cpc, port, alone>>

Next ==
    \/ \E c \in Clients : Connect(c) \/ ConnectRefused(c) \/ GoesOn(c)
    \/ Registr
    \/ \E i \in Threads : Proces(i)
    \/ ServerExit

Spec == Init /\ [][Next]_vars

-----------------------------------------------------------------------------
(* Properties.                                                              *)

\* Every variable keeps its type; i stays within threads[] (server_2.c:135, 153).
TypeOK ==
    /\ server \in {"up", "down"}
    /\ rpc \in {"create", "accept", "scan", "drain"} /\ ri \in Threads
    /\ step \in Nat /\ client \in Clients \cup {NoClient}
    /\ waiting \in Seq(Clients)
    /\ tpc \in [Threads -> {"none", "start", "accept", "flag", "serve", "sleep"}]
    /\ average \in [Threads -> {0, 1}]
    /\ backlog \in [Threads -> Seq(Clients)]
    /\ conn \in [Threads -> Clients \cup {NoClient}]
    /\ cpc \in [Clients -> {"start", "port", "dial", "date", "done", "failed", "epoch"}]
    /\ port \in [Clients -> Threads]
    /\ alone \in {"no", "yes"} /\ faults \in Nat

\* The clients on whom thread i's time is spent or will be.
HasPort(c, i) == cpc[c] \in {"dial", "date"} /\ port[c] = i

\* A port that was handed out is nobody else's: no other client has it and its
\* thread is not in the sleep that ends another service (server_2.c:137-142).
NewPort ==
    \A i \in Threads :
        /\ \A c, d \in Clients : HasPort(c, i) /\ HasPort(d, i) => c = d
        /\ \A c \in Clients : HasPort(c, i) => tpc[i] # "sleep"

\* The same as long as a client starts only when the last one has its date: its
\* thread keeps the flag up until it can serve again (server_2.c:53, 72-74).
NewPortWhenAlone == server = "up" /\ alone = "yes" => NewPort

\* Who has connected to a thread and has not got the date, while the server is
\* there: however many share the thread, each is to be served
\* (server_2.c:35-75).
Waits(c) == cpc[c] = "date" /\ server = "up"

\* When its last client is accepted the server ends: every flag goes down
\* (server_2.c:153-161).
ShutdownEnds == (rpc = "drain") ~> (server = "down")
=============================================================================
