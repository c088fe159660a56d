------------------------ MODULE UdpTimeServerProofs ------------------------
(***************************************************************************)
(* Theorems of UdpTimeServer, for every number of clients, records,        *)
(* workers and stops: the type invariant, and what the semaphore           *)
(* guarantees in the first life of the server.                             *)
(***************************************************************************)
EXTENDS UdpTimeServer, TLAPS

\* The queue has a first record.
LEMMA RecordZero == 0 \in Records
BY QueueSizeAssumption DEF Records

\* Going to the next record stays within the queue.
LEMMA NextRecordType ==
    ASSUME TypeOK, NEW w \in Workers, NextRecord(w)
    PROVE  /\ wpc' \in [Workers -> {"wait", "scan", "send", "clear"}]
           /\ memory' \in [Workers -> Records]
<1>1. CASE memory[w] = QUEUE_SIZE - 1
  BY <1>1 DEF NextRecord, LastRecord, TypeOK
<1>2. CASE memory[w] # QUEUE_SIZE - 1
  <2>1. memory[w] + 1 \in Records
    BY <1>2, QueueSizeAssumption DEF TypeOK, Records
  <2> QED
    BY <1>2, <2>1 DEF NextRecord, LastRecord, TypeOK
<1> QED
  BY <1>1, <1>2

\* Init has the types.
LEMMA InitType == Init => TypeOK
BY RecordZero DEF Init, TypeOK, Zeroed, Empty

\* A step of a client keeps the types.
LEMMA AskType ==
    ASSUME TypeOK, NEW c \in Clients, Ask(c)
    PROVE  TypeOK'
BY DEF Ask, TypeOK, registrVars, workerVars

\* A step of the registration thread keeps the types.
LEMMA RegistrType ==
    ASSUME TypeOK, Registr
    PROVE  TypeOK'
<1>1. CASE Bind
  BY <1>1 DEF Bind, TypeOK, workerVars, clientVars
<1>2. CASE Receive
  BY <1>2 DEF Receive, TypeOK, workerVars, clientVars
<1>3. CASE FindRecord
  BY <1>3 DEF FindRecord, Available, AfterCheck, TypeOK, workerVars, clientVars
<1>4. CASE QueueIsFull
  BY <1>4 DEF QueueIsFull, TypeOK, registrVars, workerVars, clientVars
<1>5. ASSUME NEW p \in Parts, CopyPart(p) PROVE TypeOK'
  <2>1. queue' \in [Records -> [status : {0, 1}, client : Clients \cup {NoClient}]]
    BY <1>5, RecordZero DEF CopyPart, TypeOK
  <2> QED
    BY <1>5, <2>1 DEF CopyPart, TypeOK, workerVars, clientVars
<1>6. CASE Post
  BY <1>6 DEF Post, TypeOK, workerVars, clientVars
<1> QED
  BY <1>1, <1>2, <1>3, <1>4, <1>5, <1>6 DEF Registr

\* A step of a worker keeps the types.
LEMMA WorkerType ==
    ASSUME TypeOK, NEW w \in Workers, Worker(w)
    PROVE  TypeOK'
<1>1. CASE SemWait(w)
  BY <1>1, RecordZero DEF SemWait, TypeOK, registrVars, clientVars
<1>2. CASE FindMessage(w)
  BY <1>2 DEF FindMessage, TypeOK, registrVars, clientVars
<1>3. CASE SkipRecord(w)
  BY <1>3, NextRecordType DEF SkipRecord, TypeOK, registrVars, clientVars
<1>4. CASE SendTime(w)
  <2>1. cpc' \in [Clients -> {"start", "wait", "done"}] /\ answers' \in [Clients -> Nat]
    <3> DEFINE to == queue[memory[w]].client
    <3>1. to \in Clients \cup {NoClient}
      BY DEF TypeOK
    <3>2. CASE to = NoClient
      BY <1>4, <3>2 DEF SendTime, TypeOK, clientVars
    <3>3. CASE to # NoClient
      <4>1. /\ to \in Clients /\ cpc' = [cpc EXCEPT ![to] = "done"]
            /\ answers' = [answers EXCEPT ![to] = @ + 1]
        BY <1>4, <3>1, <3>3 DEF SendTime
      <4> HIDE DEF to
      <4> QED
        BY <4>1 DEF TypeOK
    <3> QED
      BY <3>2, <3>3
  <2> QED
    BY <1>4, <2>1 DEF SendTime, TypeOK, registrVars
<1>5. ASSUME NEW p \in Parts, ClearPart(w, p) PROVE TypeOK'
  <2>1. queue' \in [Records -> [status : {0, 1}, client : Clients \cup {NoClient}]]
    BY <1>5 DEF ClearPart, WipedStatus, TypeOK
  <2>2. /\ wpc' \in [Workers -> {"wait", "scan", "send", "clear"}]
        /\ memory' \in [Workers -> Records]
    BY <1>5, NextRecordType DEF ClearPart, WipedStatus, TypeOK
  <2> QED
    BY <1>5, <2>1, <2>2 DEF ClearPart, TypeOK, registrVars, clientVars
<1> QED
  BY <1>1, <1>2, <1>3, <1>4, <1>5 DEF Worker

\* Every reachable state is well typed; in particular no worker looks past the
\* last record (server_3.c:157-158).
THEOREM TypeCorrect == Spec => []TypeOK
<1>1. TypeOK /\ [Next]_vars => TypeOK'
  <2> SUFFICES ASSUME TypeOK, [Next]_vars PROVE TypeOK'
    OBVIOUS
  <2>1. CASE Interrupt
    BY <2>1 DEF Interrupt, TypeOK, registrVars, workerVars, clientVars
  <2>2. CASE Restart
    BY <2>2, RecordZero DEF Restart, SemInit, TypeOK, Zeroed, Empty, clientVars
  <2>3. CASE UNCHANGED vars
    BY <2>3 DEF vars, TypeOK, registrVars, workerVars, clientVars
  <2> QED
    BY <2>1, <2>2, <2>3, AskType, RegistrType, WorkerType DEF Next
<1> QED
  BY <1>1, InitType, PTL DEF Spec

-----------------------------------------------------------------------------
(* The first life of the server.                                            *)

\* A step that only moves a worker w that was not woken, and leaves it so.
LEMMA Bystander ==
    ASSUME TypeOK, OneOwner, stops' = stops, server' = server,
           queue' = queue, sem' = sem, rpc' = rpc, rleft' = rleft,
           \A w \in Workers : /\ Woken(w)' => Woken(w)
                              /\ (memory[w] # 0 => wpc[w] \in {"wait", "scan"})'
    PROVE  OneOwner'
BY DEF OneOwner, OneWoken

\* A step of the registration thread keeps one owner.
LEMMA RegistrOwner ==
    ASSUME TypeOK, OneOwner, Registr
    PROVE  OneOwner'
<1>0. CASE QueueIsFull
  BY <1>0 DEF QueueIsFull, OneOwner, TypeOK
<1> SUFFICES ASSUME stops = 0, stops' = stops, server' = server, workerVars' = workerVars
             PROVE  OneOwner'
  BY <1>0 DEF Registr, Bind, Receive, FindRecord, CopyPart, Post, OneOwner
<1>1. /\ \A w \in Workers : Woken(w)' <=> Woken(w)
      /\ \A w \in Workers : memory'[w] = memory[w] /\ wpc'[w] = wpc[w]
  BY DEF Woken, workerVars
<1>2. CASE Bind
  BY <1>1, <1>2 DEF Bind, OneOwner, OneWoken
<1>3. CASE Receive
  BY <1>1, <1>3 DEF Receive, OneOwner, OneWoken
<1>4. CASE FindRecord
  BY <1>1, <1>4 DEF FindRecord, Available, AfterCheck, OneOwner, OneWoken, Parts
<1>5. ASSUME NEW p \in Parts, CopyPart(p) PROVE OneOwner'
  <2>1. /\ rpc = "copy" /\ sem' = sem /\ sem = 0 /\ p \in rleft /\ rleft' = rleft \ {p}
        /\ rpc' = IF rleft' = {} THEN "post" ELSE "copy"
        /\ \A w \in Workers : ~Woken(w)
    BY <1>5 DEF CopyPart, OneOwner
  <2>2. "status" \notin rleft' => queue'[0].status = 1
    <3>1. CASE p = "status"
      BY <1>5, <3>1, RecordZero DEF CopyPart, TypeOK
    <3>2. CASE p # "status"
      <4>1. "status" \notin rleft' => queue[0].status = 1
        BY <2>1, <3>2 DEF OneOwner
      <4> QED
        BY <1>5, <3>2, <4>1, RecordZero DEF CopyPart, TypeOK
    <3> QED
      BY <3>1, <3>2
  <2>3. \A j \in Records \ {0} : queue'[j] = Empty
    BY <1>5 DEF CopyPart, OneOwner, TypeOK
  <2> QED
    BY <1>1, <2>1, <2>2, <2>3 DEF OneOwner, OneWoken
<1>6. CASE Post
  BY <1>1, <1>6 DEF Post, OneOwner, OneWoken, TypeOK
<1> QED
  BY <1>0, <1>2, <1>3, <1>4, <1>5, <1>6 DEF Registr

\* A step of a worker keeps one owner: sem_wait hands the record to the worker,
\* and the worker gives it up when it wipes the status.
LEMMA WorkerOwner ==
    ASSUME TypeOK, OneOwner, NEW w \in Workers, Worker(w)
    PROVE  OneOwner'
<1> SUFFICES ASSUME stops = 0, stops' = stops, server' = server,
                    rpc' = rpc, rleft' = rleft
             PROVE  OneOwner'
  BY DEF Worker, SemWait, FindMessage, SkipRecord, SendTime, ClearPart, registrVars, OneOwner
<1>1. \A v \in Workers : v # w => /\ Woken(v)' <=> Woken(v)
                                  /\ memory'[v] = memory[v] /\ wpc'[v] = wpc[v]
  BY DEF Worker, SemWait, FindMessage, SkipRecord, SendTime, ClearPart, NextRecord, Woken, TypeOK
<1>2. CASE SemWait(w)
  <2>1. /\ sem = 1 /\ sem' = 0 /\ queue' = queue /\ queue[0].status = 1
        /\ \A v \in Workers : ~Woken(v)
        /\ rpc \notin {"copy", "post"} /\ memory'[w] = 0
    BY <1>2 DEF SemWait, OneOwner, TypeOK
  <2> QED
    BY <1>1, <2>1 DEF OneOwner, OneWoken
<1>3. CASE FindMessage(w)
  <2>1. memory[w] = 0
    BY <1>3 DEF FindMessage, OneOwner, TypeOK, Empty
  <2>2. Woken(w) /\ memory'[w] = 0 /\ queue' = queue /\ sem' = sem
    BY <1>3, <2>1 DEF FindMessage, Woken
  <2> QED
    BY <1>1, <2>2, Bystander DEF OneOwner
<1>4. CASE SkipRecord(w)
  <2>1. /\ queue' = queue /\ sem' = sem /\ ~Woken(w)
        /\ wpc[w] = "scan" /\ memory[w] # 0
    BY <1>4 DEF SkipRecord, OneOwner, Woken
  <2>2. wpc'[w] \in {"wait", "scan"} /\ memory'[w] # 0
    BY <1>4, <2>1 DEF SkipRecord, NextRecord, LastRecord, TypeOK, Records
  <2> QED
    BY <1>1, <2>1, <2>2, Bystander DEF OneOwner, Woken
<1>5. CASE SendTime(w)
  <2>1. memory[w] = 0 /\ memory' = memory /\ queue' = queue /\ sem' = sem /\ Woken(w)
    BY <1>5 DEF SendTime, OneOwner, Woken
  <2> QED
    BY <1>1, <2>1, Bystander DEF OneOwner
<1>6. ASSUME NEW p \in Parts, ClearPart(w, p) PROVE OneOwner'
  <2>1. /\ memory[w] = 0 /\ wpc[w] = "clear" /\ sem' = sem /\ p \in wleft[w]
        /\ wleft'[w] = wleft[w] \ {p}
        /\ \A j \in Records \ {0} : queue'[j] = Empty
    BY <1>6 DEF ClearPart, WipedStatus, OneOwner, TypeOK
  <2>2. /\ memory'[w] # 0 => wpc'[w] \in {"wait", "scan"}
        /\ memory'[w] = 0 => wpc'[w] = "wait" \/ (wpc'[w] = "clear" /\ wleft[w] # {p})
    <3>1. CASE wleft[w] = {p}
      BY <1>6, <2>1, <3>1, QueueSizeAssumption DEF ClearPart, NextRecord, LastRecord, TypeOK
    <3>2. CASE wleft[w] # {p}
      BY <1>6, <2>1, <3>2 DEF ClearPart
    <3> QED
      BY <3>1, <3>2
  <2>3. CASE p = "status"
    <3>1. Woken(w) /\ ~Woken(w)'
      BY <2>1, <2>2, <2>3 DEF Woken
    <3> QED
      BY <1>1, <2>1, <2>2, <3>1 DEF OneOwner, OneWoken
  <2>4. CASE p = "client"
    <3>1. queue'[0].status = queue[0].status
      BY <1>6, <2>1, <2>4, RecordZero DEF ClearPart, WipedStatus, TypeOK
    <3>2. Woken(w)' => Woken(w)
      BY <2>1, <2>2, <2>4 DEF Woken
    <3> QED
      BY <1>1, <2>1, <2>2, <3>1, <3>2 DEF OneOwner, OneWoken
  <2> QED
    BY <2>3, <2>4 DEF Parts
<1> QED
  BY <1>2, <1>3, <1>4, <1>5, <1>6 DEF Worker

\* In the first life of the server the message in record 0 has one owner, which
\* keeps the record taken.
THEOREM RecordHasOneOwner == Spec => []OneOwner
<1>1. Init => OneOwner
  BY DEF Init, OneOwner, OneWoken, Woken, Zeroed
<1>2. TypeOK /\ OneOwner /\ [Next]_vars => OneOwner'
  <2> SUFFICES ASSUME TypeOK, OneOwner, [Next]_vars PROVE OneOwner'
    OBVIOUS
  <2>1. ASSUME NEW c \in Clients, Ask(c) PROVE OneOwner'
    BY <2>1, Bystander DEF Ask, registrVars, workerVars, Woken, OneOwner
  <2>2. CASE Interrupt
    BY <2>2 DEF Interrupt, OneOwner, TypeOK
  <2>3. CASE Restart
    BY <2>3 DEF Restart, OneOwner
  <2>4. CASE UNCHANGED vars
    BY <2>4 DEF vars, registrVars, workerVars, Woken, OneOwner, OneWoken
  <2> QED
    BY <2>1, <2>2, <2>3, <2>4, RegistrOwner, WorkerOwner DEF Next
<1> QED
  BY <1>1, <1>2, TypeCorrect, PTL DEF Spec

\* In the first life of the server a worker that is woken finds its message
\* (server_3.c:109-110, 155-160).
THEOREM WokenFindsMessage == Spec => []WakeFindsMessage
<1>1. OneOwner => WakeFindsMessage
  BY DEF OneOwner, WakeFindsMessage, Woken
<1> QED
  BY <1>1, RecordHasOneOwner, PTL

\* In the first life of the server two workers never answer the same record
\* (server_3.c:160-174).
THEOREM WokenAlone == Spec => []OneWoken
<1>1. OneOwner => OneWoken
  BY DEF OneOwner, OneWoken
<1> QED
  BY <1>1, RecordHasOneOwner, PTL

-----------------------------------------------------------------------------
(* One answer.                                                              *)

\* Where the request of c may be in the first life: in the socket, with registr,
\* or in record 0 until it is answered.
InSocket(c) == \E k \in 1 .. Len(socket) : socket[k] = c
AtRegistr(c) == clnt = c /\ rpc \in {"check", "copy", "post"}
Served == sem = 1 \/ \E w \in Workers : wpc[w] \in {"scan", "send"} /\ memory[w] = 0
InRecord(c) == queue[0].client = c /\ Served

\* A request is in one of these places, and was not answered while it is there.
OnePlace(c) ==
    /\ InSocket(c) => ~AtRegistr(c) /\ ~InRecord(c)
    /\ ~(AtRegistr(c) /\ InRecord(c))
    /\ InSocket(c) \/ AtRegistr(c) \/ InRecord(c) => answers[c] = 0 /\ cpc[c] # "start"
    /\ cpc[c] = "start" => answers[c] = 0

\* A record that is posted holds the address of the datagram, or none if the last
\* worker wiped it late.
Copied ==
    /\ rpc = "post" => rleft = {}
    /\ rpc \in {"copy", "post"} /\ "client" \notin rleft => queue[0].client \in {clnt, NoClient}

OneRequest ==
    stops = 0 =>
        /\ \A i, j \in 1 .. Len(socket) : socket[i] = socket[j] => i = j
        /\ \A c \in Clients : OnePlace(c) /\ answers[c] <= 1
        /\ Copied

\* A step that leaves the requests where they are.
LEMMA RequestsStay ==
    ASSUME TypeOK, OneRequest, stops' = stops, socket' = socket,
           clnt' = clnt, rleft' = rleft, clientVars' = clientVars,
           rpc' \in {"check", "copy", "post"} => rpc \in {"check", "copy", "post"},
           rpc' \in {"copy", "post"} => rpc' = rpc,
           queue'[0].client \in {queue[0].client, NoClient},
           Served' => Served
    PROVE  OneRequest'
<1> SUFFICES ASSUME stops = 0 PROVE OneRequest'
  BY DEF OneRequest
<1>1. Copied'
  BY DEF OneRequest, Copied
<1>2. \A c \in Clients : /\ InSocket(c)' <=> InSocket(c)
                         /\ AtRegistr(c)' => AtRegistr(c)
                         /\ InRecord(c)' => InRecord(c)
  BY NoClientAssumption DEF InSocket, AtRegistr, InRecord
<1>3. ASSUME NEW c \in Clients PROVE OnePlace(c)' /\ answers'[c] <= 1
  BY <1>2 DEF OneRequest, OnePlace, clientVars
<1> QED
  BY <1>1, <1>3 DEF OneRequest

\* A client asks once.
LEMMA AskRequest ==
    ASSUME TypeOK, OneRequest, NEW c \in Clients, Ask(c)
    PROVE  OneRequest'
<1> SUFFICES ASSUME stops = 0 PROVE OneRequest'
  BY DEF OneRequest, Ask
<1>1. /\ rpc' = rpc /\ clnt' = clnt /\ rleft' = rleft /\ queue' = queue
      /\ Served' <=> Served
      /\ answers' = answers
      /\ cpc'[c] = "wait" /\ \A d \in Clients \ {c} : cpc'[d] = cpc[d]
      /\ cpc[c] = "start"
  BY DEF Ask, registrVars, workerVars, Served, TypeOK
<1>2. /\ ~InSocket(c) /\ ~AtRegistr(c) /\ ~InRecord(c) /\ answers[c] = 0
  BY <1>1 DEF OneRequest, OnePlace
<1>3. \A d \in Clients : /\ AtRegistr(d)' <=> AtRegistr(d)
                         /\ InRecord(d)' <=> InRecord(d)
  BY <1>1 DEF AtRegistr, InRecord
<1>4. Copied'
  BY <1>1 DEF OneRequest, Copied
<1>5. /\ \A i, j \in 1 .. Len(socket') : socket'[i] = socket'[j] => i = j
      /\ \A d \in Clients \ {c} : InSocket(d)' <=> InSocket(d)
  BY <1>2 DEF Ask, TypeOK, InSocket, OneRequest
<1>6. OnePlace(c)' /\ answers'[c] <= 1
  BY <1>1, <1>2, <1>3 DEF OnePlace
<1>7. ASSUME NEW d \in Clients \ {c} PROVE OnePlace(d)' /\ answers'[d] <= 1
  BY <1>1, <1>3, <1>5 DEF OnePlace, OneRequest
<1> QED
  BY <1>4, <1>5, <1>6, <1>7 DEF OneRequest

\* registr takes a datagram from the socket, and posts the record it has filled.
LEMMA RegistrRequest ==
    ASSUME TypeOK, OneOwner, OneRequest, Registr
    PROVE  OneRequest'
<1>0. CASE QueueIsFull
  BY <1>0 DEF QueueIsFull, OneRequest, TypeOK
<1> SUFFICES ASSUME stops = 0, stops' = stops, workerVars' = workerVars, clientVars' = clientVars
             PROVE  OneRequest'
  BY <1>0 DEF Registr, Bind, Receive, FindRecord, CopyPart, Post, OneRequest
<1>1. CASE Bind
  BY <1>1, RequestsStay DEF Bind, Served, workerVars
<1>2. CASE Receive
  <2>1. /\ rpc = "recv" /\ rpc' = "check" /\ socket # <<>> /\ clnt' = Head(socket)
        /\ socket' = Tail(socket) /\ queue' = queue /\ (Served' <=> Served)
    BY <1>2 DEF Receive, Served, workerVars
  <2>2. /\ clnt' \in Clients /\ InSocket(clnt')
        /\ Len(socket') = Len(socket) - 1
        /\ \A k \in 1 .. Len(socket') : socket'[k] = socket[k + 1]
    BY <2>1 DEF TypeOK, InSocket
  <2>3. \A i, j \in 1 .. Len(socket') : socket'[i] = socket'[j] => i = j
    BY <2>2 DEF OneRequest, TypeOK
  <2>4. ASSUME NEW c \in Clients, InSocket(c)' PROVE InSocket(c) /\ c # clnt'
    <3>1. PICK k \in 1 .. Len(socket') : socket'[k] = c
      BY <2>4 DEF InSocket
    <3>2. /\ k + 1 \in 1 .. Len(socket) /\ socket[k + 1] = c
          /\ 1 \in 1 .. Len(socket) /\ socket[1] = clnt' /\ k + 1 # 1
      BY <2>1, <2>2, <3>1 DEF TypeOK
    <3> QED
      BY <3>2 DEF InSocket, OneRequest
  <2>5. \A c \in Clients : /\ AtRegistr(c)' <=> c = clnt'
                           /\ InRecord(c)' <=> InRecord(c)
    BY <2>1 DEF AtRegistr, InRecord
  <2>6. ASSUME NEW c \in Clients PROVE OnePlace(c)' /\ answers'[c] <= 1
    <3>1. OnePlace(c) /\ answers[c] <= 1 /\ answers' = answers /\ cpc' = cpc
      BY DEF OneRequest, clientVars
    <3>2. CASE c = clnt'
      <4>1. InSocket(c)
        BY <2>2, <3>2
      <4>2. ~InSocket(c)'
        BY <2>4, <3>2
      <4> QED
        BY <2>5, <3>1, <4>1, <4>2 DEF OnePlace
    <3>3. CASE c # clnt'
      BY <2>4, <2>5, <3>1, <3>3 DEF OnePlace
    <3> QED
      BY <3>2, <3>3
  <2>7. Copied'
    BY <2>1 DEF Copied
  <2> QED
    BY <2>3, <2>6, <2>7 DEF OneRequest
<1>3. CASE FindRecord
  <2>1. /\ rpc = "check" /\ rpc' = "copy" /\ rleft' = Parts /\ socket' = socket
        /\ clnt' = clnt /\ queue' = queue /\ (Served' <=> Served)
    BY <1>3 DEF FindRecord, AfterCheck, Served, workerVars
  <2>2. \A c \in Clients : /\ InSocket(c)' <=> InSocket(c)
                           /\ AtRegistr(c)' <=> AtRegistr(c)
                           /\ InRecord(c)' <=> InRecord(c)
    BY <2>1 DEF InSocket, AtRegistr, InRecord
  <2>3. Copied'
    BY <2>1 DEF Copied, Parts
  <2>4. ASSUME NEW c \in Clients PROVE OnePlace(c)' /\ answers'[c] <= 1
    BY <2>2 DEF OneRequest, OnePlace, clientVars
  <2> QED
    BY <2>1, <2>3, <2>4 DEF OneRequest
<1>4. ASSUME NEW p \in Parts, CopyPart(p) PROVE OneRequest'
  <2>1. /\ rpc = "copy" /\ rleft' = rleft \ {p}
        /\ rpc' = IF rleft' = {} THEN "post" ELSE "copy"
        /\ socket' = socket /\ clnt' = clnt /\ sem' = sem
    BY <1>4 DEF CopyPart
  <2>2. sem = 0 /\ \A w \in Workers : ~Woken(w)
    BY <2>1 DEF OneOwner
  <2>3. ~Served /\ ~Served'
    BY <2>1, <2>2 DEF Served, Woken, workerVars
  <2>4. Copied'
    <3>1. CASE p = "client"
      <4>1. queue'[0].client = clnt
        BY <1>4, <3>1, RecordZero DEF CopyPart, TypeOK
      <4> QED
        BY <2>1, <4>1 DEF Copied
    <3>2. CASE p # "client"
      <4>1. queue'[0].client = queue[0].client
        BY <1>4, <3>2, RecordZero DEF CopyPart, TypeOK, Parts
      <4> QED
        BY <2>1, <3>2, <4>1 DEF Copied, OneRequest
    <3> QED
      BY <3>1, <3>2
  <2>5. \A c \in Clients : /\ InSocket(c)' <=> InSocket(c)
                           /\ AtRegistr(c)' <=> AtRegistr(c)
                           /\ ~InRecord(c)' /\ ~InRecord(c)
    BY <2>1, <2>3 DEF InSocket, AtRegistr, InRecord
  <2>6. ASSUME NEW c \in Clients PROVE OnePlace(c)' /\ answers'[c] <= 1
    BY <2>5 DEF OneRequest, OnePlace, clientVars
  <2> QED
    BY <2>1, <2>4, <2>6 DEF OneRequest
<1>5. CASE Post
  <2>1. /\ rpc = "post" /\ rpc' = "recv" /\ socket' = socket /\ clnt' = clnt
        /\ rleft' = rleft /\ queue' = queue
    BY <1>5 DEF Post
  <2>2. queue[0].client \in {clnt, NoClient}
    BY <2>1 DEF OneRequest, Copied
  <2>3. \A c \in Clients : /\ InSocket(c)' <=> InSocket(c)
                           /\ ~AtRegistr(c)'
                           /\ InRecord(c)' => AtRegistr(c)
    BY <2>1, <2>2, NoClientAssumption DEF InSocket, AtRegistr, InRecord
  <2>4. ASSUME NEW c \in Clients PROVE OnePlace(c)' /\ answers'[c] <= 1
    BY <2>3 DEF OneRequest, OnePlace, clientVars
  <2>5. Copied'
    BY <2>1 DEF Copied
  <2> QED
    BY <2>1, <2>4, <2>5 DEF OneRequest
<1> QED
  BY <1>0, <1>1, <1>2, <1>3, <1>4, <1>5 DEF Registr

\* A worker answers the one in the record it was woken for, and the record serves
\* nobody then.
LEMMA WorkerRequest ==
    ASSUME TypeOK, OneOwner, OneRequest, NEW w \in Workers, Worker(w)
    PROVE  OneRequest'
<1> SUFFICES ASSUME stops = 0, stops' = stops, socket' = socket, rpc' = rpc,
                    clnt' = clnt, rleft' = rleft
             PROVE  OneRequest'
  BY DEF Worker, SemWait, FindMessage, SkipRecord, SendTime, ClearPart, registrVars, OneRequest
<1>1. \A v \in Workers : v # w => memory'[v] = memory[v] /\ wpc'[v] = wpc[v]
  BY DEF Worker, SemWait, FindMessage, SkipRecord, SendTime, ClearPart, NextRecord, TypeOK
<1>2. CASE SemWait(w)
  <2>1. sem > 0 /\ queue' = queue /\ clientVars' = clientVars
    BY <1>2 DEF SemWait
  <2>2. Served
    BY <2>1 DEF OneOwner, Served
  <2> QED
    BY <2>1, <2>2, RequestsStay
<1>3. CASE FindMessage(w)
  <2>1. Served' => Served
    BY <1>1, <1>3 DEF FindMessage, Served
  <2> QED
    BY <1>3, <2>1, RequestsStay DEF FindMessage
<1>4. CASE SkipRecord(w)
  <2>1. memory[w] # 0 /\ memory'[w] # 0
    BY <1>4 DEF SkipRecord, NextRecord, OneOwner, Woken, TypeOK, Records
  <2>2. Served' => Served
    BY <1>1, <1>4, <2>1 DEF SkipRecord, Served
  <2> QED
    BY <1>4, <2>2, RequestsStay DEF SkipRecord
<1>5. CASE SendTime(w)
  <2>1. memory[w] = 0 /\ memory' = memory /\ queue' = queue /\ sem' = sem /\ Woken(w)
        /\ wpc'[w] = "clear" /\ wpc[w] = "send"
    BY <1>5 DEF SendTime, OneOwner, Woken, TypeOK
  <2>2. Served /\ ~Served'
    BY <1>1, <2>1 DEF Served, OneOwner, OneWoken, Woken
  <2>3. Copied'
    BY <2>1 DEF Copied, OneRequest
  <2>4. \A c \in Clients : /\ InSocket(c)' <=> InSocket(c)
                           /\ AtRegistr(c)' <=> AtRegistr(c)
                           /\ ~InRecord(c)'
    BY <2>2 DEF InSocket, AtRegistr, InRecord
  <2>5. ASSUME NEW c \in Clients PROVE OnePlace(c)' /\ answers'[c] <= 1
    <3>1. OnePlace(c) /\ answers[c] <= 1
      BY DEF OneRequest
    <3>2. CASE queue[0].client = c
      <4>1. InRecord(c)
        BY <2>2, <3>2 DEF InRecord
      <4>2. answers[c] = 0 /\ ~InSocket(c) /\ ~AtRegistr(c)
        BY <3>1, <4>1 DEF OnePlace
      <4>3. cpc'[c] = "done" /\ answers'[c] = 1
        BY <1>5, <2>1, <3>2, <4>2, NoClientAssumption DEF SendTime, TypeOK
      <4> QED
        BY <2>4, <4>2, <4>3 DEF OnePlace
    <3>3. CASE queue[0].client # c
      <4>1. cpc'[c] = cpc[c] /\ answers'[c] = answers[c]
        BY <1>5, <2>1, <3>3 DEF SendTime, TypeOK, clientVars
      <4> QED
        BY <2>4, <3>1, <4>1 DEF OnePlace
    <3> QED
      BY <3>2, <3>3
  <2> QED
    BY <2>3, <2>5 DEF OneRequest
<1>6. ASSUME NEW p \in Parts, ClearPart(w, p) PROVE OneRequest'
  <2>1. memory[w] = 0 /\ wpc[w] = "clear" /\ sem' = sem /\ clientVars' = clientVars
    BY <1>6 DEF ClearPart, OneOwner, TypeOK
  <2>2. memory'[w] = 0 => wpc'[w] \in {"wait", "clear"}
    BY <1>6, <2>1, QueueSizeAssumption DEF ClearPart, NextRecord, TypeOK
  <2>3. Served' => Served
    BY <1>1, <2>1, <2>2 DEF Served
  <2>4. queue'[0].client \in {queue[0].client, NoClient}
    BY <1>6, <2>1, RecordZero DEF ClearPart, TypeOK
  <2> QED
    BY <2>1, <2>3, <2>4, RequestsStay
<1> QED
  BY <1>2, <1>3, <1>4, <1>5, <1>6 DEF Worker

\* In the first life of the server nobody is answered twice (server_3.c:160-174).
THEOREM AnsweredOnce == Spec => []OneAnswer
<1>1. Init => OneRequest
  BY DEF Init, OneRequest, OnePlace, Copied, InSocket, AtRegistr, InRecord, Served
<1>2. TypeOK /\ OneOwner /\ OneRequest /\ [Next]_vars => OneRequest'
  <2> SUFFICES ASSUME TypeOK, OneOwner, OneRequest, [Next]_vars PROVE OneRequest'
    OBVIOUS
  <2>1. CASE Interrupt
    BY <2>1 DEF Interrupt, OneRequest, TypeOK
  <2>2. CASE Restart
    BY <2>2 DEF Restart, OneRequest, OneOwner
  <2>3. CASE UNCHANGED vars
    BY <2>3, RequestsStay DEF vars, registrVars, workerVars, Served
  <2> QED
    BY <2>1, <2>2, <2>3, AskRequest, RegistrRequest, WorkerRequest DEF Next
<1>3. OneRequest => OneAnswer
  BY DEF OneRequest, OneAnswer
<1> QED
  BY <1>1, <1>2, <1>3, TypeCorrect, RecordHasOneOwner, PTL DEF Spec
=============================================================================
