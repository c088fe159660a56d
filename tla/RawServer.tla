----------------------------- MODULE RawServer -----------------------------
(***************************************************************************)
(* The raw-socket echo server of final_task/first and its clients.         *)
(*                                                                         *)
(* func.c runs one control thread (server_control) and up to NThreads      *)
(* workers (processed).  A client sends "Connect" to the control port, is  *)
(* told the port of a worker, and then exchanges texts with that worker,   *)
(* which numbers every echo.  "exit" hands the worker back.                *)
(*                                                                         *)
(* Every socket is AF_PACKET/SOCK_RAW/ETH_P_ALL: it gets each frame on the *)
(* wire and the code keeps the ones its filter accepts.  All clients share *)
(* one address and one source port, so a frame "to a client" is delivered  *)
(* to every client whose filter lets it through.  A queue below holds only *)
(* the frames its owner's filter accepts; a frame sent while no socket is  *)
(* open is gone.                                                           *)
(*                                                                         *)
(* Thread i of the code's array is slot i; its port is                     *)
(* START_SERVER_PORT + i and is represented by i.                          *)
(***************************************************************************)
EXTENDS Integers, Sequences, FiniteSets

CONSTANTS
    Clients,     \* the client processes (client.c)
    NThreads,    \* size of the array thread[] (5 in the code)
    Inputs,      \* what a user may type, "exit" included
    OneAtATime,  \* TRUE: a client is started only when no other is connecting
    MaxTyped,    \* bound: lines a user types in one session
    MaxFaults    \* bound: lost frames, failed calls and killed clients

ASSUME NThreadsAssumption == NThreads \in Nat \ {0}
ASSUME InputsAssumption == Inputs \subseteq STRING /\ "exit" \in Inputs
ASSUME EnvironmentAssumption == OneAtATime \in BOOLEAN
ASSUME BoundsAssumption == MaxTyped \in Nat /\ MaxFaults \in Nat

Slots == 0 .. NThreads - 1

\* info_threads.state
NotCreated == 0
Free == 1
Working == 2

VARIABLES
    threadState,  \* thread[i].state
    processed,    \* worker i: "none", "start" (no socket yet) or "recv"
    msg_count,    \* worker i's local counter
    inbox,        \* frames waiting in worker i's socket
    ctlPc,        \* where server_control is: "recv", "scan", "mark", "send"
    ctlI,         \* its loop variable i
    connects,     \* "Connect" frames waiting in its socket
    server,       \* "up", or "down" after any exit(1) of the server process
    cpc,          \* where client c is
    port,         \* client c's variable port
    offers,       \* frames of the control port waiting in c's first socket
    replies,      \* frames of c's worker waiting in c's second socket
    payload_snd,  \* what c sent last
    typed,        \* lines c typed in its session
    faults        \* faults so far

workerVars == <<processed, msg_count, inbox>>
controlVars == <<ctlPc, ctlI, connects>>
clientVars == <<cpc, port, offers, replies, payload_snd, typed>>
vars == <<threadState, workerVars, controlVars, server, clientVars, faults>>

ClientPcs == {"start", "opened", "wait", "closed", "input", "reply", "done"}

Init ==
    /\ threadState = [i \in Slots |-> NotCreated]
    /\ processed = [i \in Slots |-> "none"]
    /\ msg_count = [i \in Slots |-> 1]
    /\ inbox = [i \in Slots |-> <<>>]
    /\ ctlPc = "recv" /\ ctlI = 0 /\ connects = 0
    /\ server = "up"
    /\ cpc = [c \in Clients |-> "start"]
    /\ port = [c \in Clients |-> 0]
    /\ offers = [c \in Clients |-> <<>>]
    /\ replies = [c \in Clients |-> <<>>]
    /\ payload_snd = [c \in Clients |-> "Connect"]
    /\ typed = [c \in Clients |-> 0]
    /\ faults = 0

-----------------------------------------------------------------------------
(* What is on the wire.                                                     *)

Connecting(c) == cpc[c] \in {"opened", "wait"}   \* c's first socket is open
InSession(c) == cpc[c] \in {"input", "reply"}    \* c's second socket is open

\* A fault happens now; Works: nothing goes wrong.
Fault == faults < MaxFaults /\ faults' = faults + 1
Works == UNCHANGED faults

\* server_control keeps every frame of the clients' source port whose payload
\* is "Connect", whatever port it was sent to.
ConnectsAfter(m) == IF server = "up" /\ m = "Connect" THEN connects + 1 ELSE connects

\* Worker i keeps the frames sent to its own port once its socket exists.
InboxAfter(i, m) ==
    IF server = "up" /\ processed[i] = "recv"
    THEN [inbox EXCEPT ![i] = Append(@, m)]
    ELSE inbox

-----------------------------------------------------------------------------
(* The client.                                                              *)

MayStart == OneAtATime => \A d \in Clients : ~Connecting(d)

OpenSocket(c) ==
    /\ cpc[c] = "start" /\ MayStart
    /\ cpc' = [cpc EXCEPT ![c] = "opened"]
    /\ UNCHANGED <<threadState, workerVars, controlVars, server, port,
                   offers, replies, payload_snd, typed, faults>>

SendConnect(c) ==
    /\ cpc[c] = "opened"
    /\ cpc' = [cpc EXCEPT ![c] = "wait"]
    /\ \/ Works /\ connects' = ConnectsAfter("Connect")
       \/ Fault /\ UNCHANGED connects
    /\ UNCHANGED <<threadState, workerVars, ctlPc, ctlI, server, port,
                   offers, replies, payload_snd, typed>>

\* The first frame of the control port is taken for the answer, and the
\* socket is closed with whatever else it holds.
ReceivePort(c) ==
    /\ cpc[c] = "wait" /\ offers[c] # <<>>
    /\ port' = [port EXCEPT ![c] = Head(offers[c])]
    /\ offers' = [offers EXCEPT ![c] = <<>>]
    /\ cpc' = [cpc EXCEPT ![c] = "closed"]
    /\ UNCHANGED <<threadState, workerVars, controlVars, server, replies,
                   payload_snd, typed, faults>>

OpenSession(c) ==
    /\ cpc[c] = "closed"
    /\ cpc' = [cpc EXCEPT ![c] = "input"]
    /\ UNCHANGED <<threadState, workerVars, controlVars, server, port,
                   offers, replies, payload_snd, typed, faults>>

\* One line from the user goes out on the wire: to the worker at port[c] and,
\* when it reads "Connect", to server_control as well.
SendInput(c, m) ==
    /\ cpc[c] = "input" /\ typed[c] < MaxTyped /\ m # "exit"
    /\ typed' = [typed EXCEPT ![c] = @ + 1]
    /\ payload_snd' = [payload_snd EXCEPT ![c] = m]
    /\ \/ Works /\ inbox' = InboxAfter(port[c], m) /\ connects' = ConnectsAfter(m)
       \/ Fault /\ UNCHANGED <<inbox, connects>>
    /\ cpc' = [cpc EXCEPT ![c] = "reply"]
    /\ UNCHANGED <<threadState, processed, msg_count, ctlPc, ctlI, server,
                   port, offers, replies>>

\* The process ends; what it knew and what its sockets held is gone.
ClientEnds(c) ==
    /\ cpc' = [cpc EXCEPT ![c] = "done"]
    /\ port' = [port EXCEPT ![c] = 0]
    /\ offers' = [offers EXCEPT ![c] = <<>>]
    /\ replies' = [replies EXCEPT ![c] = <<>>]
    /\ payload_snd' = [payload_snd EXCEPT ![c] = "Connect"]
    /\ typed' = [typed EXCEPT ![c] = 0]

\* "exit" goes out like any other line, but the client does not wait.
SendExit(c) ==
    /\ cpc[c] = "input" /\ typed[c] < MaxTyped /\ ClientEnds(c)
    /\ \/ Works /\ inbox' = InboxAfter(port[c], "exit")
       \/ Fault /\ UNCHANGED inbox
    /\ UNCHANGED <<threadState, processed, msg_count, controlVars, server>>

ReceiveReply(c) ==
    /\ cpc[c] = "reply" /\ replies[c] # <<>>
    /\ replies' = [replies EXCEPT ![c] = Tail(@)]
    /\ cpc' = [cpc EXCEPT ![c] = "input"]
    /\ UNCHANGED <<threadState, workerVars, controlVars, server, port,
                   offers, payload_snd, typed, faults>>

\* The user kills the client, or one of its calls fails and it exits.
Kill(c) ==
    /\ cpc[c] \notin {"start", "done"} /\ Fault /\ ClientEnds(c)
    /\ UNCHANGED <<threadState, workerVars, controlVars, server>>

Client(c) ==
    \/ OpenSocket(c) \/ SendConnect(c) \/ ReceivePort(c) \/ OpenSession(c)
    \/ \E m \in Inputs : SendInput(c, m)
    \/ SendExit(c) \/ ReceiveReply(c) \/ Kill(c)

-----------------------------------------------------------------------------
(* server_control.                                                          *)

ReceiveConnect ==
    /\ server = "up" /\ ctlPc = "recv" /\ connects > 0
    /\ connects' = connects - 1
    /\ ctlPc' = "scan" /\ ctlI' = 0
    /\ UNCHANGED <<threadState, workerVars, server, clientVars, faults>>

\* pthread_create; its result is ignored, so a failure leaves a slot that is
\* marked and offered like any other but has no thread.
CreateThread ==
    /\ server = "up" /\ ctlPc = "scan" /\ threadState[ctlI] = NotCreated
    /\ \/ Works /\ processed' = [processed EXCEPT ![ctlI] = "start"]
       \/ Fault /\ UNCHANGED processed
    /\ ctlPc' = "mark"
    /\ UNCHANGED <<threadState, msg_count, inbox, ctlI, connects, server,
                   clientVars>>

MarkWorking ==
    /\ server = "up" /\ ctlPc = "mark"
    /\ threadState' = [threadState EXCEPT ![ctlI] = Working]
    /\ ctlPc' = "send"
    /\ UNCHANGED <<workerVars, ctlI, connects, server, clientVars, faults>>

AnyThread(i) == threadState[i] # NotCreated   \* mutant of Reusable
Reusable(i) == threadState[i] = Free

UnmarkedReuse ==                               \* mutant of ReuseThread
    /\ server = "up" /\ ctlPc = "scan" /\ Reusable(ctlI)
    /\ ctlPc' = "send"
    /\ UNCHANGED <<threadState, workerVars, ctlI, connects, server, clientVars,
                   faults>>

ReuseThread ==
    /\ server = "up" /\ ctlPc = "scan" /\ Reusable(ctlI)
    /\ threadState' = [threadState EXCEPT ![ctlI] = Working]
    /\ ctlPc' = "send"
    /\ UNCHANGED <<workerVars, ctlI, connects, server, clientVars, faults>>

PastLastSlot(i) == i = NThreads                \* mutants of LastSlot
BeforeLastSlot(i) == i = NThreads - 2
LastSlot(i) == i = NThreads - 1

\* With the last slot busy the request is dropped: the client is not told.
SkipBusy ==
    /\ server = "up" /\ ctlPc = "scan" /\ threadState[ctlI] = Working
    /\ IF LastSlot(ctlI) THEN ctlPc' = "recv" /\ UNCHANGED ctlI
                        ELSE ctlI' = ctlI + 1 /\ UNCHANGED ctlPc
    /\ UNCHANGED <<threadState, workerVars, connects, server, clientVars,
                   faults>>

SendPort ==
    /\ server = "up" /\ ctlPc = "send"
    /\ \/ /\ Works
          /\ offers' = [c \in Clients |-> IF Connecting(c)
                                          THEN Append(offers[c], ctlI)
                                          ELSE offers[c]]
       \/ Fault /\ UNCHANGED offers
    /\ ctlPc' = "recv"
    /\ UNCHANGED <<threadState, workerVars, ctlI, connects, server, cpc, port,
                   replies, payload_snd, typed>>

Control ==
    \/ ReceiveConnect \/ CreateThread \/ MarkWorking \/ ReuseThread
    \/ SkipBusy \/ SendPort

-----------------------------------------------------------------------------
(* processed.                                                               *)

\* The worker opens its own socket: frames sent to its port earlier are lost.
StartProcessed(i) ==
    /\ server = "up" /\ processed[i] = "start"
    /\ processed' = [processed EXCEPT ![i] = "recv"]
    /\ UNCHANGED <<threadState, msg_count, inbox, controlVars, server,
                   clientVars, faults>>

\* What "exit" leaves in the worker: its counter and thread[i].state.
SameCount(n) == n                              \* mutant of CountAfterExit
CountAfterExit(n) == 1
StateAfterExit == Free

ReceiveExit(i) ==
    /\ server = "up" /\ processed[i] = "recv"
    /\ inbox[i] # <<>> /\ Head(inbox[i]) = "exit"
    /\ inbox' = [inbox EXCEPT ![i] = Tail(@)]
    /\ msg_count' = [msg_count EXCEPT ![i] = CountAfterExit(@)]
    /\ threadState' = [threadState EXCEPT ![i] = StateAfterExit]
    /\ UNCHANGED <<processed, controlVars, server, clientVars, faults>>

Echo(i) ==
    /\ server = "up" /\ processed[i] = "recv"
    /\ inbox[i] # <<>> /\ Head(inbox[i]) # "exit"
    /\ inbox' = [inbox EXCEPT ![i] = Tail(@)]
    /\ \/ /\ Works
          /\ LET frame == [body |-> Head(inbox[i]), n |-> msg_count[i]] IN
             replies' = [c \in Clients |-> IF InSession(c) /\ port[c] = i
                                           THEN Append(replies[c], frame)
                                           ELSE replies[c]]
       \/ Fault /\ UNCHANGED replies
    /\ msg_count' = [msg_count EXCEPT ![i] = @ + 1]
    /\ UNCHANGED <<threadState, processed, controlVars, server, cpc, port,
                   offers, payload_snd, typed>>

\* A call of the control thread or of a worker fails: exit(1) ends them all.
ServerExit ==
    /\ server = "up" /\ Fault
    /\ server' = "down"
    /\ inbox' = [i \in Slots |-> <<>>] /\ connects' = 0
    /\ UNCHANGED <<threadState, processed, msg_count, ctlPc, ctlI, clientVars>>

Worker(i) == StartProcessed(i) \/ ReceiveExit(i) \/ Echo(i)

Next ==
    \/ \E c \in Clients : Client(c)
    \/ Control
    \/ \E i \in Slots : Worker(i)
    \/ ServerExit

Spec == Init /\ [][Next]_vars

\* Threads that can run do run, and a client that is not waiting for its user
\* goes on; nothing forces a user to start a client or to type.  As users type
\* a bounded number of lines, one condition for all of them is enough.
GoesOn(c) == SendConnect(c) \/ ReceivePort(c) \/ OpenSession(c) \/ ReceiveReply(c)
Fairness ==
    WF_vars(Control \/ (\E i \in Slots : Worker(i)) \/ (\E c \in Clients : GoesOn(c)))

FairSpec == Spec /\ Fairness

-----------------------------------------------------------------------------
(* Properties.                                                              *)

Bodies == Inputs \cup {"Connect"}
Frames == [body : Inputs, n : Nat \ {0}]

\* Every variable keeps its type; ctlI stays within thread[] (func.c:104).
TypeOK ==
    /\ threadState \in [Slots -> {NotCreated, Free, Working}]
    /\ processed \in [Slots -> {"none", "start", "recv"}]
    /\ msg_count \in [Slots -> Nat \ {0}]
    /\ inbox \in [Slots -> Seq(Inputs)]
    /\ ctlPc \in {"recv", "scan", "mark", "send"}
    /\ ctlI \in Slots
    /\ connects \in Nat
    /\ server \in {"up", "down"}
    /\ cpc \in [Clients -> ClientPcs]
    /\ port \in [Clients -> Slots]
    /\ offers \in [Clients -> Seq(Slots)]
    /\ replies \in [Clients -> Seq(Frames)]
    /\ payload_snd \in [Clients -> Bodies]
    /\ typed \in [Clients -> Nat]
    /\ faults \in Nat

\* The claims on slot i: a client that uses its port, an offer on its way, an
\* "exit" its worker has not read, an offer about to be sent.
Holds(c, i) == cpc[c] \in {"closed", "input", "reply"} /\ port[c] = i
Offered(c, i) == \E k \in 1 .. Len(offers[c]) : offers[c][k] = i
Exiting(i) == \E k \in 1 .. Len(inbox[i]) : inbox[i][k] = "exit"
Pending(i) == ctlPc = "send" /\ ctlI = i

\* No two clients are ever in a session on the same worker port: server_control
\* hands every client a "new port" (client.c:71, func.c:108).
PortExclusive ==
    \A c, d \in Clients : \A i \in Slots : Holds(c, i) /\ Holds(d, i) => c = d

\* Why ports stay exclusive: at every moment a slot has at most one claim, and
\* only a slot marked as working has one.  The control thread may therefore
\* give a slot that is not marked to anybody (func.c:106-133, 215-219).
AtMostOneConnecting == \A c, d \in Clients : Connecting(c) /\ Connecting(d) => c = d
OffersToConnecting == \A c \in Clients : offers[c] # <<>> => Connecting(c)
OffersDistinct ==
    \A c \in Clients : \A k, l \in 1 .. Len(offers[c]) :
        offers[c][k] = offers[c][l] => k = l
OneExit ==
    \A i \in Slots : \A k, l \in 1 .. Len(inbox[i]) :
        inbox[i][k] = "exit" /\ inbox[i][l] = "exit" => k = l
ClaimedIsWorking ==
    \A i \in Slots :
        (Exiting(i) \/ Pending(i) \/ \E c \in Clients : Holds(c, i) \/ Offered(c, i))
            => threadState[i] = Working
ClaimsDisjoint ==
    \A i \in Slots :
        /\ ~(Exiting(i) /\ Pending(i))
        /\ \A c \in Clients :
               /\ Holds(c, i) \/ Offered(c, i) => ~Exiting(i) /\ ~Pending(i)
               /\ Holds(c, i) => \A d \in Clients : ~Offered(d, i)

OneClaim ==
    /\ AtMostOneConnecting /\ OffersToConnecting /\ OffersDistinct /\ OneExit
    /\ ClaimedIsWorking /\ ClaimsDisjoint /\ PortExclusive
    /\ ctlPc = "mark" => threadState[ctlI] = NotCreated

\* What a waiting client is about to print is the echo of the line it sent
\* last, numbered with how many lines it sent: echoes are neither mixed up
\* between sessions nor miscounted when a worker is reused (func.c:215-245).
Echoed(c) == [body |-> payload_snd[c], n |-> typed[c]]
EchoNumbers ==
    \A c \in Clients :
        cpc[c] = "reply" /\ replies[c] # <<>> => Head(replies[c]) = Echoed(c)

\* Why the numbers are right: a slot that may be handed out has an empty socket
\* and a counter of 1, an "exit" comes last, and within a session counter,
\* socket and client go in step (func.c:204-246).
Quiet(i) == inbox[i] = <<>> /\ msg_count[i] = 1
Unused(i) == threadState[i] # Working \/ Pending(i) \/ \E c \in Clients : Offered(c, i)
FreshSlots ==
    \A i \in Slots :
        (Unused(i) => Quiet(i)) /\ (Exiting(i) => inbox[i] = <<"exit">>)
FreshClients == \A c \in Clients : ~InSession(c) => replies[c] = <<>> /\ typed[c] = 0
InStep(c, i) ==
    \/ cpc[c] = "closed" /\ Quiet(i)
    \/ cpc[c] = "input" /\ inbox[i] = <<>> /\ replies[c] = <<>> /\ msg_count[i] = typed[c] + 1
    \/ cpc[c] = "reply" /\ inbox[i] = <<payload_snd[c]>> /\ replies[c] = <<>>
       /\ msg_count[i] = typed[c]
    \/ cpc[c] = "reply" /\ inbox[i] = <<>> /\ replies[c] = <<Echoed(c)>>
       /\ msg_count[i] = typed[c] + 1
    \/ cpc[c] = "reply" /\ inbox[i] = <<>> /\ replies[c] = <<>>   \* something was lost
SessionsInStep == \A c \in Clients, i \in Slots : Holds(c, i) => InStep(c, i)
Counted == FreshSlots /\ FreshClients /\ SessionsInStep

\* The place of a client, as SessionPool sees it: from the frame that brings
\* it a port to its "exit".
LeaseOf == [c \in Clients |-> IF cpc[c] \in {"closed", "input", "reply"}
                              THEN port[c] ELSE -1]
Pool == INSTANCE SessionPool WITH lease <- LeaseOf, NoSlot <- -1

\* The server is a pool of exclusive places: a client takes one that nobody
\* has, and only its own "exit", or its end, gives it back, however frames are
\* lost and threads overlap (func.c:104-136, 215-219; client.c:67-86, 103-107).
ImplementsPool == Pool!Spec

\* Whatever a client waits for, without a timeout, comes, unless something
\* fails: a session, if its "Connect" has not been read while some worker is
\* unused; the echo of every line that has reached its worker's socket, "the
\* first message of the client" included (func.c:104-133, 204; client.c:113-127).
Unanswered(c) ==
    \/ cpc[c] = "wait" /\ connects > 0 /\ \E i \in Slots : threadState[i] # Working
    \/ cpc[c] = "reply" /\ inbox[port[c]] # <<>>
Answered == \A c \in Clients : Unanswered(c) ~> (cpc[c] = "input" \/ faults > 0)
=============================================================================
