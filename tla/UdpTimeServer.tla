---------------------------- MODULE UdpTimeServer ---------------------------
(***************************************************************************)
(* The UDP time server of homework_16/second/server_3.c and its clients    *)
(* (client_3.c).                                                           *)
(*                                                                         *)
(* A registration thread takes each datagram from the server's socket and  *)
(* copies it into a record in shared memory; a named semaphore wakes one   *)
(* of the worker threads, which answers the client and wipes the record.   *)
(* No lock covers the records: memcpy and memset write a record part by    *)
(* part, in an order the C library chooses, while other threads use it.    *)
(*                                                                         *)
(* The registration loop looks at its records from the first one and       *)
(* leaves at that one, either way: only record 0 is ever written.  The     *)
(* shared memory is zeroed at every start, the semaphore is not: main's    *)
(* sem_unlink comes after joins of threads that never return.              *)
(***************************************************************************)
EXTENDS Integers, Sequences, FiniteSets

CONSTANTS
    Clients,      \* the client processes, one request each
    QUEUE_SIZE,   \* records searched, and number of workers (2 in the code)
    NoClient,     \* the address of a wiped record
    MaxStops      \* bound: stops of the server, its own exits included

ASSUME QueueSizeAssumption == QUEUE_SIZE \in Nat \ {0}
ASSUME NoClientAssumption == NoClient \notin Clients
ASSUME BoundAssumption == MaxStops \in Nat

Records == 0 .. QUEUE_SIZE - 1
Workers == 0 .. QUEUE_SIZE - 1
Parts == {"status", "client"}   \* what memcpy and memset write separately

VARIABLES
    queue,     \* the shared records: [status, client]
    sem,       \* value of the semaphore "/server"
    server,    \* "up" or "down"
    stops,     \* how often the server stopped
    socket,    \* datagrams waiting in the registration socket
    rpc,       \* registr: "bind", "recv", "check", "copy", "post"
    clnt,      \* registr's variable clnt: the sender of its datagram
    rleft,     \* parts of the record registr has still to copy
    wpc,       \* worker: "wait", "scan", "send", "clear"
    memory,    \* worker's variable memory: the record it looks at
    wleft,     \* parts of that record the worker has still to wipe
    cpc,       \* client: "start", "wait", "done"
    answers,   \* history: answers sent to the client
    calm       \* history: "yes" while clients ask an idle server and no user stops it

registrVars == <<rpc, clnt, rleft>>
workerVars == <<wpc, memory, wleft>>
clientVars == <<cpc, answers>>
vars == <<queue, sem, server, stops, socket, registrVars, workerVars, clientVars, calm>>

Empty == [status |-> 0, client |-> NoClient]

\* memInit zeroes the memory.
Zeroed == [j \in Records |-> Empty]

Init ==
    /\ queue = Zeroed /\ sem = 0
    /\ server = "up" /\ stops = 0 /\ socket = <<>>
    /\ rpc = "bind" /\ clnt = NoClient /\ rleft = {}
    /\ wpc = [w \in Workers |-> "wait"]
    /\ memory = [w \in Workers |-> 0]
    /\ wleft = [w \in Workers |-> {}]
    /\ cpc = [c \in Clients |-> "start"]
    /\ answers = [c \in Clients |-> 0]
    /\ calm = "yes"

-----------------------------------------------------------------------------
(* client_3.c                                                               *)

Idle ==
    /\ rpc = "recv" /\ socket = <<>> /\ sem = 0
    /\ \A w \in Workers : wpc[w] = "wait"

\* A datagram to a port nobody has bound is gone; the client waits for ever.
Ask(c) ==
    /\ cpc[c] = "start"
    /\ cpc' = [cpc EXCEPT ![c] = "wait"]
    /\ socket' = IF server = "up" /\ rpc # "bind" THEN Append(socket, c) ELSE socket
    /\ calm' = IF Idle THEN calm ELSE "no"
    /\ UNCHANGED <<queue, sem, server, stops, registrVars, workerVars, answers>>

-----------------------------------------------------------------------------
(* registr                                                                  *)

Bind ==
    /\ server = "up" /\ rpc = "bind"
    /\ rpc' = "recv"
    /\ UNCHANGED <<queue, sem, server, stops, socket, clnt, rleft, workerVars,
                   clientVars, calm>>

Receive ==
    /\ server = "up" /\ rpc = "recv" /\ socket # <<>>
    /\ clnt' = Head(socket) /\ socket' = Tail(socket)
    /\ rpc' = "check"
    /\ UNCHANGED <<queue, sem, server, stops, rleft, workerVars, clientVars, calm>>

Always(j) == TRUE                        \* mutant of Available
Available(j) == queue[j].status # 1
PostAtOnce == "post"                     \* mutant of AfterCheck
AfterCheck == "copy"

FindRecord ==
    /\ server = "up" /\ rpc = "check" /\ Available(0)
    /\ rpc' = AfterCheck /\ rleft' = Parts
    /\ UNCHANGED <<queue, sem, server, stops, socket, clnt, workerVars, clientVars, calm>>

\* Record 0 is taken: "Queue is full!" and exit(EXIT_FAILURE).
QueueIsFull ==
    /\ server = "up" /\ rpc = "check" /\ queue[0].status = 1
    /\ stops < MaxStops /\ stops' = stops + 1
    /\ server' = "down"
    /\ UNCHANGED <<queue, sem, socket, registrVars, workerVars, clientVars, calm>>

\* One part of memcpy(msg_queue, &message, ...).
CopyPart(p) ==
    /\ server = "up" /\ rpc = "copy" /\ p \in rleft
    /\ queue' = [queue EXCEPT ![0] =
                    IF p = "status" THEN [@ EXCEPT !.status = 1]
                                    ELSE [@ EXCEPT !.client = clnt]]
    /\ rleft' = rleft \ {p}
    /\ rpc' = IF rleft' = {} THEN "post" ELSE "copy"
    /\ UNCHANGED <<sem, server, stops, socket, clnt, workerVars, clientVars, calm>>

Post ==
    /\ server = "up" /\ rpc = "post"
    /\ sem' = sem + 1
    /\ rpc' = "recv"
    /\ UNCHANGED <<queue, server, stops, socket, clnt, rleft, workerVars, clientVars, calm>>

Registr == Bind \/ Receive \/ FindRecord \/ QueueIsFull
           \/ (\E p \in Parts : CopyPart(p)) \/ Post

-----------------------------------------------------------------------------
(* processing_server                                                        *)

SemWait(w) ==
    /\ server = "up" /\ wpc[w] = "wait" /\ sem > 0
    /\ sem' = sem - 1
    /\ wpc' = [wpc EXCEPT ![w] = "scan"]
    /\ memory' = [memory EXCEPT ![w] = 0]
    /\ UNCHANGED <<queue, server, stops, socket, registrVars, wleft, clientVars, calm>>

PastLast(j) == j = QUEUE_SIZE            \* mutant of LastRecord
LastRecord(j) == j = QUEUE_SIZE - 1

\* The end of the loop body: the next record, or back to sem_wait.
NextRecord(w) ==
    IF LastRecord(memory[w])
    THEN wpc' = [wpc EXCEPT ![w] = "wait"] /\ UNCHANGED memory
    ELSE wpc' = [wpc EXCEPT ![w] = "scan"] /\ memory' = [memory EXCEPT ![w] = @ + 1]

\* "memory->status == 0;" changes nothing: the record stays taken.
FindMessage(w) ==
    /\ server = "up" /\ wpc[w] = "scan" /\ queue[memory[w]].status = 1
    /\ wpc' = [wpc EXCEPT ![w] = "send"]
    /\ UNCHANGED <<queue, sem, server, stops, socket, registrVars, memory, wleft,
                   clientVars, calm>>

SkipRecord(w) ==
    /\ server = "up" /\ wpc[w] = "scan" /\ queue[memory[w]].status # 1
    /\ NextRecord(w)
    /\ UNCHANGED <<queue, sem, server, stops, socket, registrVars, wleft, clientVars, calm>>

\* The address is read when the answer is sent; a wiped one is nobody's.
SendTime(w) ==
    /\ server = "up" /\ wpc[w] = "send"
    /\ LET to == queue[memory[w]].client IN
       IF to = NoClient
       THEN UNCHANGED clientVars
       ELSE /\ cpc' = [cpc EXCEPT ![to] = "done"]
            /\ answers' = [answers EXCEPT ![to] = @ + 1]
    /\ wpc' = [wpc EXCEPT ![w] = "clear"]
    /\ wleft' = [wleft EXCEPT ![w] = Parts]
    /\ UNCHANGED <<queue, sem, server, stops, socket, registrVars, memory, calm>>

StatusKept == 1                          \* mutant of WipedStatus
WipedStatus == 0

\* One part of memset(memory, 0, sizeof(struct message)).
ClearPart(w, p) ==
    /\ server = "up" /\ wpc[w] = "clear" /\ p \in wleft[w]
    /\ queue' = [queue EXCEPT ![memory[w]] =
                    IF p = "status" THEN [@ EXCEPT !.status = WipedStatus]
                                    ELSE [@ EXCEPT !.client = NoClient]]
    /\ wleft' = [wleft EXCEPT ![w] = @ \ {p}]
    /\ IF wleft[w] = {p} THEN NextRecord(w) ELSE UNCHANGED <<wpc, memory>>
    /\ UNCHANGED <<sem, server, stops, socket, registrVars, clientVars, calm>>

Worker(w) == SemWait(w) \/ FindMessage(w) \/ SkipRecord(w) \/ SendTime(w)
             \/ \E p \in Parts : ClearPart(w, p)

-----------------------------------------------------------------------------
(* The process.                                                             *)

\* The user interrupts the server: its loops have no other end.
Interrupt ==
    /\ server = "up" /\ stops < MaxStops
    /\ server' = "down" /\ stops' = stops + 1 /\ calm' = "no"
    /\ UNCHANGED <<queue, sem, socket, registrVars, workerVars, clientVars>>

\* sem_open(O_CREAT) of a semaphore that exists keeps its value.
SemInit(counter) == sem

Restart ==
    /\ server = "down" /\ server' = "up"
    /\ queue' = Zeroed /\ sem' = SemInit(0) /\ socket' = <<>>
    /\ rpc' = "bind" /\ clnt' = NoClient /\ rleft' = {}
    /\ wpc' = [w \in Workers |-> "wait"]
    /\ memory' = [w \in Workers |-> 0]
    /\ wleft' = [w \in Workers |-> {}]
    /\ UNCHANGED <<stops, clientVars, calm>>

Next ==
    \/ \E c \in Clients : Ask(c)
    \/ Registr
    \/ \E w \in Workers : Worker(w)
    \/ Interrupt \/ Restart

Spec == Init /\ [][Next]_vars

\* The threads of the server run; nothing forces a client to ask or a user to
\* start the server again.
FairSpec == Spec /\ WF_vars(Registr) /\ \A w \in Workers : WF_vars(Worker(w))

-----------------------------------------------------------------------------
(* Properties.                                                              *)

\* Every variable keeps its type; a worker never looks past the last record.
TypeOK ==
    /\ queue \in [Records -> [status : {0, 1}, client : Clients \cup {NoClient}]]
    /\ sem \in Nat
    /\ server \in {"up", "down"}
    /\ stops \in Nat
    /\ socket \in Seq(Clients)
    /\ rpc \in {"bind", "recv", "check", "copy", "post"}
    /\ clnt \in Clients \cup {NoClient}
    /\ rleft \in SUBSET Parts
    /\ wpc \in [Workers -> {"wait", "scan", "send", "clear"}]
    /\ memory \in [Workers -> Records]
    /\ wleft \in [Workers -> SUBSET Parts]
    /\ cpc \in [Clients -> {"start", "wait", "done"}]
    /\ answers \in [Clients -> Nat]
    /\ calm \in {"no", "yes"}

\* The message in record 0 is owed an answer by whoever is about to post it, by
\* the semaphore, or by the worker it woke, until that worker wipes its status.
Woken(w) ==
    \/ wpc[w] \in {"scan", "send"} /\ memory[w] = 0
    \/ wpc[w] = "clear" /\ memory[w] = 0 /\ "status" \in wleft[w]

\* In the first life of the server a worker that sem_wait lets through finds
\* the message it was woken for (server_3.c:109-110, 155-160).
WakeFindsMessage ==
    stops = 0 => \A w \in Workers :
        wpc[w] = "scan" /\ memory[w] = 0 => queue[0].status = 1

\* A worker never answers a client whose request another worker is answering:
\* two workers are never between finding record 0 and wiping its status
\* (server_3.c:160-174, in the first life).
OneWoken ==
    stops = 0 => \A v, w \in Workers : Woken(v) /\ Woken(w) => v = w

\* Why that is so: in the first life the message in record 0 has one owner at a
\* time, registr that writes it, the semaphore, or a woken worker, and an owner
\* keeps the record taken; the other records are never written.
OneOwner ==
    stops = 0 =>
        /\ server = "up"
        /\ sem \in {0, 1}
        /\ sem = 1 \/ rpc = "post" \/ (rpc = "copy" /\ "status" \notin rleft)
               => queue[0].status = 1
        /\ rpc \in {"copy", "post"} => sem = 0
        /\ \A w \in Workers :
               /\ Woken(w) => /\ queue[0].status = 1 /\ sem = 0
                              /\ rpc \notin {"copy", "post"}
               /\ memory[w] # 0 => wpc[w] \in {"wait", "scan"}
        /\ \A j \in Records \ {0} : queue[j] = Empty
        /\ OneWoken

\* The same of every life: the semaphore is initialised with the memory
\* (server_3.c:184-186).
EveryWakeFindsMessage ==
    \A w \in Workers : wpc[w] = "scan" /\ memory[w] = 0 => queue[0].status = 1

\* In the first life of the server nobody is answered twice, although a record
\* stays taken while it is answered and is wiped without a lock
\* (server_3.c:160-174).
OneAnswer == stops = 0 => \A c \in Clients : answers[c] <= 1

\* As long as clients ask an idle server and no user stops it, every client gets
\* the date: the record and the worker of the last one can be used again
\* (server_3.c:84-111, 153-177).
AnsweredWhenCalm ==
    \A c \in Clients :
        (cpc[c] = "wait" /\ calm = "yes") ~> (cpc[c] = "done" \/ calm = "no")
=============================================================================
