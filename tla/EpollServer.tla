---------------------------- MODULE EpollServer ----------------------------
(***************************************************************************)
(* The time server with one thread and epoll (homework_16/second/          *)
(* server_4.c) and its clients, over TCP (client_tcp_4.c, client_4.c) and  *)
(* over UDP (client_udp_4.c).                                              *)
(*                                                                         *)
(* The loop waits for at most two events, one for each socket, and handles *)
(* them one after another.  A connection that has been accepted is read    *)
(* with a blocking recv: until its client writes, everybody waits.         *)
(***************************************************************************)
EXTENDS Integers, Sequences, FiniteSets

CONSTANTS
    TcpClients, UdpClients,
    NoClient,
    MaxFaults   \* bound: lost datagrams, stopped clients, failing calls

Everyone == TcpClients \cup UdpClients

VARIABLES
    server,    \* "up" or "down"
    spc,       \* processing: "poll", "loop", "recv"
    events,    \* the sockets of events[n .. chk-1], still to be handled
    client,    \* the connection in recv
    listening, \* connections to sock_tcp not yet accepted
    arrived,   \* datagrams in sock_udp
    cpc,       \* where client c is
    faults     \* faults so far

vars == <<server, spc, events, client, listening, arrived, cpc, faults>>

Init ==
    /\ server = "up" /\ spc = "poll" /\ events = <<>> /\ client = NoClient
    /\ listening = <<>> /\ arrived = <<>>
    /\ cpc = [c \in Everyone |-> "start"]
    /\ faults = 0

Fault == faults < MaxFaults /\ faults' = faults + 1

-----------------------------------------------------------------------------
(* The clients.                                                             *)

Goes(c, from, to) == cpc[c] = from /\ cpc' = [cpc EXCEPT ![c] = to]

Connect(c) ==
    /\ c \in TcpClients /\ server = "up" /\ Goes(c, "start", "connected")
    /\ listening' = Append(listening, c)
    /\ UNCHANGED <<server, spc, events, client, arrived, faults>>

\* Nobody listens; or, over UDP, nobody is there to receive.
Refused(c) ==
    /\ server = "down" /\ Goes(c, "start", "failed")
    /\ UNCHANGED <<server, spc, events, client, listening, arrived, faults>>

WriteDate(c) ==
    /\ Goes(c, "connected", "date")
    /\ UNCHANGED <<server, spc, events, client, listening, arrived, faults>>

\* The client is stopped, or its host is, with the connection open.
Stop(c) ==
    /\ Goes(c, "connected", "silent") /\ Fault
    /\ UNCHANGED <<server, spc, events, client, listening, arrived>>

\* The client ends before it has written anything.
Die(c) ==
    /\ Goes(c, "connected", "gone") /\ Fault
    /\ UNCHANGED <<server, spc, events, client, listening, arrived>>

SendDate(c) ==
    /\ c \in UdpClients /\ server = "up" /\ Goes(c, "start", "date")
    /\ \/ arrived' = Append(arrived, c) /\ UNCHANGED faults
       \/ Fault /\ UNCHANGED arrived
    /\ UNCHANGED <<server, spc, events, client, listening>>

\* The connection ends without a date: the client prints what was in its
\* variable.  Over UDP it waits for ever.
ReadNothing(c) ==
    /\ c \in TcpClients /\ server = "down"
    /\ Goes(c, "date", "failed")
    /\ UNCHANGED <<server, spc, events, client, listening, arrived, faults>>

-----------------------------------------------------------------------------
(* processing                                                               *)

TcpOnly == IF listening # <<>> THEN {"tcp"} ELSE {}     \* mutant of ReadySockets
ReadySockets ==
    (IF listening # <<>> THEN {"tcp"} ELSE {}) \cup (IF arrived # <<>> THEN {"udp"} ELSE {})

\* epoll_wait: in whichever order the sockets became ready.
Poll ==
    /\ server = "up" /\ spc = "poll" /\ ReadySockets # {}
    /\ events' \in {s \in [1 .. Cardinality(ReadySockets) -> ReadySockets] :
                        {s[k] : k \in DOMAIN s} = ReadySockets}
    /\ spc' = "loop"
    /\ UNCHANGED <<server, client, listening, arrived, cpc, faults>>

\* The event is handled; after the last one the loop polls again.
NextEvent == /\ events' = Tail(events)
             /\ spc' = IF Len(events) = 1 THEN "poll" ELSE "loop"

AcceptTcp ==
    /\ server = "up" /\ spc = "loop" /\ Head(events) = "tcp" /\ listening # <<>>
    /\ client' = Head(listening) /\ listening' = Tail(listening)
    /\ spc' = "recv"
    /\ UNCHANGED <<server, events, arrived, cpc, faults>>

\* recv returns the request, or 0 when the client has ended: there is nobody
\* to answer then.
ServeTcp ==
    /\ server = "up" /\ spc = "recv"
    /\ Goes(client, "date", "done") \/ (cpc[client] = "gone" /\ UNCHANGED cpc)
    /\ client' = NoClient /\ NextEvent
    /\ UNCHANGED <<server, listening, arrived, faults>>

ServeUdp ==
    /\ server = "up" /\ spc = "loop" /\ Head(events) = "udp" /\ arrived # <<>>
    /\ Goes(Head(arrived), "date", "done") /\ arrived' = Tail(arrived)
    /\ NextEvent
    /\ UNCHANGED <<server, client, listening, faults>>

Processing == Poll \/ AcceptTcp \/ ServeTcp \/ ServeUdp

\* A call of the server fails: exit(1).
ServerExit ==
    /\ server = "up" /\ Fault
    /\ server' = "down"
    /\ UNCHANGED <<spc, events, client, listening, arrived, cpc>>

GoesOn(c) == WriteDate(c) \/ ReadNothing(c)
Client(c) == GoesOn(c) \/ Connect(c) \/ Refused(c) \/ Stop(c) \/ Die(c) \/ SendDate(c)

Next == (\E c \in Everyone : Client(c)) \/ Processing \/ ServerExit

Spec == Init /\ [][Next]_vars

-----------------------------------------------------------------------------
(* Properties.                                                              *)

\* Every variable keeps its type; events[] has room for both (server_4.c:78).
TypeOK ==
    /\ server \in {"up", "down"}
    /\ spc \in {"poll", "loop", "recv"}
    /\ events \in Seq({"tcp", "udp"}) /\ Len(events) <= 2
    /\ (spc = "poll") = (events = <<>>)
    /\ client \in TcpClients \cup {NoClient} /\ (client = NoClient) = (spc # "recv")
    /\ listening \in Seq(TcpClients) /\ arrived \in Seq(UdpClients)
    /\ cpc \in [Everyone -> {"start", "connected", "silent", "gone", "date", "done",
                          "failed"}]
    /\ faults \in Nat

\* Who has asked and was not answered, while the server is there and nobody has
\* connected and says nothing (server_4.c:78-134).
Waits(c) ==
    /\ cpc[c] = "date" /\ server = "up" /\ \A d \in Everyone : cpc[d] # "silent"
    /\ c \in UdpClients => \E k \in 1 .. Len(arrived) : arrived[k] = c
=============================================================================
