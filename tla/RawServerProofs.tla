-------------------------- MODULE RawServerProofs --------------------------
(***************************************************************************)
(* Theorems of RawServer, for every number of clients, threads, lines and  *)
(* faults: the type invariant, and, when clients connect one at a time,    *)
(* the exclusive use of worker ports, the pool of sessions it implements,  *)
(* and the numbers of the echoes.                                          *)
(***************************************************************************)
EXTENDS RawServer, TLAPS

-----------------------------------------------------------------------------
(* Sequences.                                                               *)

\* Reading the head of a socket's queue.
LEMMA HeadTail ==
    ASSUME NEW S, NEW s \in Seq(S), s # <<>>
    PROVE  /\ Head(s) \in S /\ Head(s) = s[1] /\ Tail(s) \in Seq(S)
           /\ Len(s) \in Nat \ {0} /\ Len(Tail(s)) = Len(s) - 1
           /\ \A k \in 1 .. Len(s) - 1 : Tail(s)[k] = s[k + 1]
OBVIOUS

\* Delivering a frame to a socket's queue.
LEMMA Deliver ==
    ASSUME NEW S, NEW s \in Seq(S), NEW e \in S
    PROVE  /\ Append(s, e) \in Seq(S)
           /\ Len(s) \in Nat /\ Len(Append(s, e)) = Len(s) + 1
           /\ \A k \in 1 .. Len(s) : Append(s, e)[k] = s[k]
           /\ Append(s, e)[Len(s) + 1] = e
OBVIOUS

-----------------------------------------------------------------------------
(* Types.                                                                   *)

\* The thread array has at least one slot, so ctlI can start at 0.
LEMMA SlotZero == 0 \in Slots
BY NThreadsAssumption DEF Slots

\* What a frame on the wire leaves in a worker's socket.
LEMMA InboxType ==
    ASSUME TypeOK, NEW i \in Slots, NEW m \in Inputs
    PROVE  InboxAfter(i, m) \in [Slots -> Seq(Inputs)]
BY DEF TypeOK, InboxAfter

\* The fault counter stays a natural number.
LEMMA FaultType == TypeOK /\ (Works \/ Fault) => faults' \in Nat
BY DEF TypeOK, Works, Fault

\* Init has the types.
LEMMA InitType == Init => TypeOK
BY SlotZero DEF Init, TypeOK, ClientPcs, Bodies, NotCreated, Free, Working

\* A process that ends leaves variables with the types.
LEMMA EndsType ==
    ASSUME TypeOK, NEW c \in Clients, ClientEnds(c)
    PROVE  /\ cpc' \in [Clients -> ClientPcs] /\ port' \in [Clients -> Slots]
           /\ offers' \in [Clients -> Seq(Slots)] /\ replies' \in [Clients -> Seq(Frames)]
           /\ payload_snd' \in [Clients -> Bodies] /\ typed' \in [Clients -> Nat]
BY SlotZero DEF TypeOK, ClientEnds, ClientPcs, Bodies

\* A step of a client keeps the types.
LEMMA ClientType ==
    ASSUME TypeOK, NEW c \in Clients, Client(c)
    PROVE  TypeOK'
<1>1. CASE OpenSocket(c)
  BY <1>1 DEF OpenSocket, TypeOK, ClientPcs, workerVars, controlVars
<1>2. CASE SendConnect(c)
  BY <1>2 DEF SendConnect, TypeOK, ClientPcs, workerVars, Works, Fault, ConnectsAfter
<1>3. CASE ReceivePort(c)
  <2>1. Head(offers[c]) \in Slots
    BY <1>3, HeadTail DEF ReceivePort, TypeOK
  <2> QED
    BY <1>3, <2>1 DEF ReceivePort, TypeOK, ClientPcs, workerVars, controlVars
<1>4. CASE OpenSession(c)
  BY <1>4 DEF OpenSession, TypeOK, ClientPcs, workerVars, controlVars
<1>5. ASSUME NEW m \in Inputs, SendInput(c, m) PROVE TypeOK'
  <2>1. port[c] \in Slots /\ InboxAfter(port[c], m) \in [Slots -> Seq(Inputs)]
    BY InboxType DEF TypeOK
  <2>2. inbox' \in [Slots -> Seq(Inputs)]
    BY <1>5, <2>1 DEF SendInput, TypeOK
  <2>4. connects' \in Nat
    BY <1>5 DEF SendInput, TypeOK, ConnectsAfter
  <2>3. faults' \in Nat
    BY <1>5, FaultType DEF SendInput
  <2> QED
    BY <1>5, <2>2, <2>3, <2>4 DEF SendInput, TypeOK, ClientPcs, Bodies
<1>8. CASE SendExit(c)
  <2>1. port[c] \in Slots /\ InboxAfter(port[c], "exit") \in [Slots -> Seq(Inputs)]
    BY InboxType, InputsAssumption DEF TypeOK
  <2>2. inbox' \in [Slots -> Seq(Inputs)] /\ faults' \in Nat
    BY <1>8, <2>1, FaultType DEF SendExit, TypeOK
  <2>3. ClientEnds(c) /\ UNCHANGED <<threadState, processed, msg_count, ctlPc, ctlI, connects, server>>
    BY <1>8 DEF SendExit, controlVars
  <2>4. /\ cpc' \in [Clients -> ClientPcs] /\ port' \in [Clients -> Slots]
        /\ offers' \in [Clients -> Seq(Slots)] /\ replies' \in [Clients -> Seq(Frames)]
        /\ payload_snd' \in [Clients -> Bodies] /\ typed' \in [Clients -> Nat]
    BY <2>3, EndsType
  <2> QED
    BY <2>2, <2>3, <2>4 DEF TypeOK
<1>6. CASE ReceiveReply(c)
  <2>1. Tail(replies[c]) \in Seq(Frames)
    BY <1>6, HeadTail DEF ReceiveReply, TypeOK
  <2> QED
    BY <1>6, <2>1 DEF ReceiveReply, TypeOK, ClientPcs, workerVars, controlVars
<1>7. CASE Kill(c)
  <2>1. ClientEnds(c) /\ faults' \in Nat
    BY <1>7, FaultType DEF Kill
  <2>2. /\ cpc' \in [Clients -> ClientPcs] /\ port' \in [Clients -> Slots]
        /\ offers' \in [Clients -> Seq(Slots)] /\ replies' \in [Clients -> Seq(Frames)]
        /\ payload_snd' \in [Clients -> Bodies] /\ typed' \in [Clients -> Nat]
    BY <2>1, EndsType
  <2> QED
    BY <1>7, <2>1, <2>2 DEF Kill, TypeOK, workerVars, controlVars
<1> QED
  BY <1>1, <1>2, <1>3, <1>4, <1>5, <1>6, <1>7, <1>8 DEF Client

\* A step of server_control keeps the types.
LEMMA ControlType ==
    ASSUME TypeOK, Control
    PROVE  TypeOK'
<1>1. CASE ReceiveConnect
  BY <1>1, SlotZero DEF ReceiveConnect, TypeOK, workerVars, clientVars
<1>2. CASE CreateThread
  <2>1. processed' \in [Slots -> {"none", "start", "recv"}]
    BY <1>2 DEF CreateThread, TypeOK
  <2>2. faults' \in Nat
    BY <1>2, FaultType DEF CreateThread
  <2> QED
    BY <1>2, <2>1, <2>2 DEF CreateThread, TypeOK, clientVars
<1>3. CASE MarkWorking
  BY <1>3 DEF MarkWorking, TypeOK, workerVars, clientVars, Working
<1>4. CASE ReuseThread
  BY <1>4 DEF ReuseThread, TypeOK, workerVars, clientVars, Working
<1>5. CASE SkipBusy
  <2>1. ctlI' \in Slots
    BY <1>5, NThreadsAssumption DEF SkipBusy, LastSlot, TypeOK, Slots
  <2> QED
    BY <1>5, <2>1 DEF SkipBusy, TypeOK, workerVars, clientVars
<1>6. CASE SendPort
  <2>1. offers' \in [Clients -> Seq(Slots)]
    <3>1. \A c \in Clients : Append(offers[c], ctlI) \in Seq(Slots)
      BY Deliver DEF TypeOK
    <3>2. CASE UNCHANGED offers
      BY <3>2 DEF TypeOK
    <3>3. CASE offers' = [c \in Clients |-> IF Connecting(c)
                                           THEN Append(offers[c], ctlI)
                                           ELSE offers[c]]
      <4>1. \A c \in Clients : offers[c] \in Seq(Slots)
        BY DEF TypeOK
      <4> QED
        BY <3>1, <3>3, <4>1
    <3> QED
      BY <1>6, <3>2, <3>3 DEF SendPort
  <2>2. faults' \in Nat
    BY <1>6, FaultType DEF SendPort
  <2> QED
    BY <1>6, <2>1, <2>2 DEF SendPort, TypeOK, workerVars
<1> QED
  BY <1>1, <1>2, <1>3, <1>4, <1>5, <1>6 DEF Control

\* A step of a worker keeps the types.
LEMMA WorkerType ==
    ASSUME TypeOK, NEW i \in Slots, Worker(i)
    PROVE  TypeOK'
<1>1. CASE StartProcessed(i)
  BY <1>1 DEF StartProcessed, TypeOK, controlVars, clientVars
<1>2. CASE ReceiveExit(i)
  <2>1. Tail(inbox[i]) \in Seq(Inputs)
    BY <1>2, HeadTail DEF ReceiveExit, TypeOK
  <2> QED
    BY <1>2, <2>1 DEF ReceiveExit, TypeOK, controlVars, clientVars, Free, StateAfterExit, CountAfterExit
<1>3. CASE Echo(i)
  <2>1. Tail(inbox[i]) \in Seq(Inputs) /\ Head(inbox[i]) \in Inputs
    BY <1>3, HeadTail DEF Echo, TypeOK
  <2>2. [body |-> Head(inbox[i]), n |-> msg_count[i]] \in Frames
    BY <2>1 DEF TypeOK, Frames
  <2>3. replies' \in [Clients -> Seq(Frames)]
    <3> DEFINE frame == [body |-> Head(inbox[i]), n |-> msg_count[i]]
    <3>1. \A c \in Clients : replies[c] \in Seq(Frames)
                            /\ Append(replies[c], frame) \in Seq(Frames)
      BY <2>2, Deliver DEF TypeOK
    <3>2. CASE UNCHANGED replies
      BY <3>2 DEF TypeOK
    <3>3. CASE replies' = [c \in Clients |-> IF InSession(c) /\ port[c] = i
                                            THEN Append(replies[c], frame)
                                            ELSE replies[c]]
      <4> HIDE DEF frame
      <4> QED
        BY <3>1, <3>3
    <3> QED
      BY <1>3, <3>2, <3>3 DEF Echo
  <2>5. faults' \in Nat
    BY <1>3, FaultType DEF Echo
  <2>4. inbox' \in [Slots -> Seq(Inputs)] /\ msg_count' \in [Slots -> Nat \ {0}]
    BY <1>3, <2>1 DEF Echo, TypeOK
  <2> QED
    BY <1>3, <2>3, <2>4, <2>5 DEF Echo, TypeOK, controlVars
<1> QED
  BY <1>1, <1>2, <1>3 DEF Worker

\* Every step keeps the types.
LEMMA NextType == TypeOK /\ [Next]_vars => TypeOK'
<1> SUFFICES ASSUME TypeOK, [Next]_vars PROVE TypeOK'
  OBVIOUS
<1>1. CASE ServerExit
  BY <1>1 DEF ServerExit, TypeOK, clientVars, Fault
<1>2. CASE UNCHANGED vars
  BY <1>2 DEF vars, TypeOK, workerVars, controlVars, clientVars
<1> QED
  BY <1>1, <1>2, ClientType, ControlType, WorkerType DEF Next

\* Every reachable state is well typed; in particular the control loop never
\* leaves thread[] (func.c:104-136).
THEOREM TypeCorrect == Spec => []TypeOK
BY InitType, NextType, PTL DEF Spec

-----------------------------------------------------------------------------
(* One claim per slot.                                                      *)

\* OneClaim is preserved by a step that makes no claim and marks no slot, and
\* that keeps the facts about the queues.
LEMMA NoNewClaim ==
    ASSUME OneClaim, threadState' = threadState, (ctlPc = "mark" => threadState[ctlI] = NotCreated)',
           (AtMostOneConnecting /\ OffersToConnecting /\ OffersDistinct /\ OneExit)',
           \A i \in Slots : (Exiting(i)' => Exiting(i)) /\ (Pending(i)' => Pending(i)),
           \A c \in Clients, i \in Slots :
               (Holds(c, i)' => Holds(c, i)) /\ (Offered(c, i)' => Offered(c, i))
    PROVE  OneClaim'
<1>1. ClaimedIsWorking'
  BY DEF OneClaim, ClaimedIsWorking
<1>2. ClaimsDisjoint'
  BY DEF OneClaim, ClaimsDisjoint
<1>3. PortExclusive'
  BY DEF OneClaim, PortExclusive
<1> QED
  BY <1>1, <1>2, <1>3 DEF OneClaim

\* A step that leaves the workers' sockets alone reads and sends no "exit".
LEMMA SameInbox ==
    ASSUME OneExit, inbox' = inbox
    PROVE  OneExit' /\ \A i \in Slots : Exiting(i)' <=> Exiting(i)
BY DEF OneExit, Exiting

\* A step that leaves the clients' first sockets alone makes and takes no offer.
LEMMA SameOffers ==
    ASSUME OffersDistinct, offers' = offers
    PROVE  OffersDistinct' /\ \A c \in Clients, i \in Slots : Offered(c, i)' <=> Offered(c, i)
BY DEF OffersDistinct, Offered

\* A worker that reads its socket leaves at most the "exit" that was there.
LEMMA ReadInbox ==
    ASSUME TypeOK, OneExit, NEW i \in Slots, inbox[i] # <<>>,
           inbox' = [inbox EXCEPT ![i] = Tail(@)]
    PROVE  /\ OneExit'
           /\ \A j \in Slots : Exiting(j)' => Exiting(j)
           /\ Head(inbox[i]) = "exit" => ~Exiting(i)'
<1>1. /\ Len(inbox[i]) \in Nat \ {0} /\ Len(Tail(inbox[i])) = Len(inbox[i]) - 1
      /\ Head(inbox[i]) = inbox[i][1]
      /\ \A k \in 1 .. Len(inbox[i]) - 1 : Tail(inbox[i])[k] = inbox[i][k + 1]
  BY HeadTail DEF TypeOK
<1>2. /\ inbox'[i] = Tail(inbox[i])
      /\ \A j \in Slots : j # i => inbox'[j] = inbox[j]
  BY DEF TypeOK
<1>3. \A k \in 1 .. Len(inbox'[i]) : /\ k + 1 \in 1 .. Len(inbox[i]) /\ k + 1 # 1
                                     /\ inbox'[i][k] = inbox[i][k + 1]
  <2> SUFFICES ASSUME NEW k \in 1 .. Len(Tail(inbox[i]))
               PROVE  /\ k + 1 \in 1 .. Len(inbox[i]) /\ k + 1 # 1
                      /\ Tail(inbox[i])[k] = inbox[i][k + 1]
    BY <1>2
  <2> DEFINE n == Len(inbox[i])
  <2>1. n \in Nat /\ k \in 1 .. n - 1
    BY <1>1
  <2> HIDE DEF n
  <2>2. k + 1 \in 1 .. n /\ k + 1 # 1
    BY <2>1
  <2> QED
    BY <1>1, <2>1, <2>2 DEF n
<1>4. OneExit'
  <2> SUFFICES ASSUME NEW j \in Slots, NEW k \in 1 .. Len(inbox'[j]), NEW l \in 1 .. Len(inbox'[j]),
                      inbox'[j][k] = "exit", inbox'[j][l] = "exit"
               PROVE  k = l
    BY DEF OneExit
  <2>1. CASE j = i
    BY <2>1, <1>3 DEF OneExit
  <2>2. CASE j # i
    BY <2>2, <1>2 DEF OneExit
  <2> QED
    BY <2>1, <2>2
<1>5. ASSUME NEW j \in Slots, Exiting(j)' PROVE Exiting(j)
  <2>1. CASE j = i
    BY <2>1, <1>3, <1>5 DEF Exiting
  <2>2. CASE j # i
    BY <2>2, <1>2, <1>5 DEF Exiting
  <2> QED
    BY <2>1, <2>2
<1>6. ASSUME Head(inbox[i]) = "exit" PROVE ~Exiting(i)'
  <2>1. \A k \in 1 .. Len(inbox[i]) : inbox[i][k] = "exit" => k = 1
    BY <1>1, <1>6 DEF OneExit
  <2> QED
    BY <2>1, <1>3 DEF Exiting
<1> QED
  BY <1>4, <1>5, <1>6

\* A line that reaches a worker adds an "exit" only if it is one.
LEMMA WriteInbox ==
    ASSUME TypeOK, OneExit, NEW i \in Slots, NEW m \in Inputs,
           inbox' = [inbox EXCEPT ![i] = Append(@, m)],
           m = "exit" => ~Exiting(i)
    PROVE  /\ OneExit'
           /\ \A j \in Slots : Exiting(j)' => Exiting(j) \/ (j = i /\ m = "exit")
<1> DEFINE n == Len(inbox[i])
<1>1. /\ n \in Nat /\ Len(inbox'[i]) = n + 1 /\ inbox'[i][n + 1] = m
      /\ \A k \in 1 .. n : inbox'[i][k] = inbox[i][k]
  BY Deliver DEF TypeOK
<1>2. \A j \in Slots : j # i => inbox'[j] = inbox[j]
  BY DEF TypeOK
<1>3. \A k \in 1 .. Len(inbox'[i]) :
         inbox'[i][k] = "exit" => \/ k \in 1 .. n /\ inbox[i][k] = "exit"
                                  \/ k = n + 1 /\ m = "exit"
  <2> HIDE DEF n
  <2> QED
    BY <1>1
<1>4. OneExit'
  <2> SUFFICES ASSUME NEW j \in Slots, NEW k \in 1 .. Len(inbox'[j]), NEW l \in 1 .. Len(inbox'[j]),
                      inbox'[j][k] = "exit", inbox'[j][l] = "exit"
               PROVE  k = l
    BY DEF OneExit
  <2>1. CASE j = i
    <3>1. CASE m = "exit"
      BY <2>1, <3>1, <1>3 DEF Exiting
    <3>2. CASE m # "exit"
      BY <2>1, <3>2, <1>3 DEF OneExit
    <3> QED
      BY <3>1, <3>2
  <2>2. CASE j # i
    BY <2>2, <1>2 DEF OneExit
  <2> QED
    BY <2>1, <2>2
<1>5. ASSUME NEW j \in Slots, Exiting(j)' PROVE Exiting(j) \/ (j = i /\ m = "exit")
  <2>1. CASE j = i
    BY <2>1, <1>3, <1>5 DEF Exiting
  <2>2. CASE j # i
    BY <2>2, <1>2, <1>5 DEF Exiting
  <2> QED
    BY <2>1, <2>2
<1> QED
  BY <1>4, <1>5

\* The port of a slot nobody was offered is offered to those that connect.
LEMMA SendOffer ==
    ASSUME TypeOK, OffersDistinct,
           offers' = [c \in Clients |-> IF Connecting(c) THEN Append(offers[c], ctlI)
                                                        ELSE offers[c]],
           \A c \in Clients : ~Offered(c, ctlI)
    PROVE  /\ OffersDistinct'
           /\ \A c \in Clients, i \in Slots :
                  Offered(c, i)' => Offered(c, i) \/ (i = ctlI /\ Connecting(c))
<1>1. ASSUME NEW c \in Clients, NEW k \in 1 .. Len(offers'[c])
      PROVE  \/ k \in 1 .. Len(offers[c]) /\ offers'[c][k] = offers[c][k]
             \/ k = Len(offers[c]) + 1 /\ offers'[c][k] = ctlI /\ Connecting(c)
  <2>1. CASE Connecting(c)
    <3> DEFINE n == Len(offers[c])
    <3>1. /\ n \in Nat /\ Len(offers'[c]) = n + 1 /\ offers'[c][n + 1] = ctlI
          /\ \A l \in 1 .. n : offers'[c][l] = offers[c][l]
      BY <2>1, Deliver DEF TypeOK
    <3> HIDE DEF n
    <3>2. k \in 1 .. n \/ k = n + 1
      BY <3>1
    <3> QED
      BY <2>1, <3>1, <3>2 DEF n
  <2>2. CASE ~Connecting(c)
    BY <2>2
  <2> QED
    BY <2>1, <2>2
<1>2. OffersDistinct'
  <2> SUFFICES ASSUME NEW c \in Clients, NEW k \in 1 .. Len(offers'[c]), NEW l \in 1 .. Len(offers'[c]),
                      offers'[c][k] = offers'[c][l]
               PROVE  k = l
    BY DEF OffersDistinct
  <2>1. \A h \in 1 .. Len(offers[c]) : offers[c][h] # ctlI
    BY DEF Offered
  <2> QED
    BY <1>1, <2>1 DEF OffersDistinct
<1>3. ASSUME NEW c \in Clients, NEW i \in Slots, Offered(c, i)'
      PROVE  Offered(c, i) \/ (i = ctlI /\ Connecting(c))
  BY <1>1, <1>3 DEF Offered
<1> QED
  BY <1>2, <1>3

-----------------------------------------------------------------------------
(* The steps.                                                               *)

\* The control thread offers the slot of its loop, which nobody claims, and no
\* slot before it marks it.
LEMMA UnmarkedUnclaimed ==
    ASSUME TypeOK, OneClaim, NEW i \in Slots, threadState[i] # Working
    PROVE  ~Exiting(i) /\ \A c \in Clients : ~Holds(c, i) /\ ~Offered(c, i)
BY DEF OneClaim, ClaimedIsWorking

\* A step of the control thread keeps one claim per slot.
LEMMA ControlClaim ==
    ASSUME TypeOK, OneClaim, Control
    PROVE  OneClaim'
<1>1. CASE ReceiveConnect
  <2>1. inbox' = inbox /\ offers' = offers /\ cpc' = cpc /\ port' = port /\ threadState' = threadState
    BY <1>1 DEF ReceiveConnect, workerVars, clientVars
  <2> QED
    BY <1>1, <2>1, SameInbox, SameOffers, NoNewClaim
    DEF ReceiveConnect, OneClaim, AtMostOneConnecting, OffersToConnecting, Connecting, Holds, Pending
<1>2. CASE CreateThread
  <2>1. inbox' = inbox /\ offers' = offers /\ cpc' = cpc /\ port' = port /\ threadState' = threadState
    BY <1>2 DEF CreateThread, clientVars
  <2> QED
    BY <1>2, <2>1, SameInbox, SameOffers, NoNewClaim
    DEF CreateThread, OneClaim, AtMostOneConnecting, OffersToConnecting, Connecting, Holds, Pending
<1>3. CASE SkipBusy
  <2>1. inbox' = inbox /\ offers' = offers /\ cpc' = cpc /\ port' = port /\ threadState' = threadState
    BY <1>3 DEF SkipBusy, workerVars, clientVars
  <2>2. ctlPc' # "mark" /\ ctlPc' # "send"
    BY <1>3 DEF SkipBusy
  <2> QED
    BY <2>1, <2>2, SameInbox, SameOffers, NoNewClaim
    DEF OneClaim, AtMostOneConnecting, OffersToConnecting, Connecting, Holds, Pending
<1>4. CASE MarkWorking \/ ReuseThread
  <2>1. /\ inbox' = inbox /\ offers' = offers /\ cpc' = cpc /\ port' = port /\ ctlI' = ctlI
        /\ threadState[ctlI] # Working /\ ctlPc # "send"
        /\ threadState' = [threadState EXCEPT ![ctlI] = Working] /\ ctlPc' = "send"
    BY <1>4 DEF MarkWorking, ReuseThread, Reusable, OneClaim, workerVars, clientVars, NotCreated, Free, Working
  <2>2. /\ ctlI \in Slots /\ ~Exiting(ctlI)
        /\ \A c \in Clients : ~Holds(c, ctlI) /\ ~Offered(c, ctlI)
    BY <2>1, UnmarkedUnclaimed DEF TypeOK
  <2>3. /\ OneExit' /\ OffersDistinct'
        /\ \A i \in Slots : Exiting(i)' <=> Exiting(i)
        /\ \A c \in Clients, i \in Slots : Offered(c, i)' <=> Offered(c, i)
    BY <2>1, SameInbox, SameOffers DEF OneClaim
  <2>4. /\ \A c \in Clients, i \in Slots : Holds(c, i)' <=> Holds(c, i)
        /\ \A i \in Slots : Pending(i)' => i = ctlI
    BY <2>1 DEF Holds, Pending
  <2>5. ClaimedIsWorking'
    BY <2>1, <2>2, <2>3, <2>4 DEF OneClaim, ClaimedIsWorking, TypeOK
  <2>6. ClaimsDisjoint' /\ PortExclusive'
    BY <2>2, <2>3, <2>4 DEF OneClaim, ClaimsDisjoint, PortExclusive
  <2>7. AtMostOneConnecting' /\ OffersToConnecting'
    BY <2>1 DEF OneClaim, AtMostOneConnecting, OffersToConnecting, Connecting
  <2> QED
    BY <2>1, <2>3, <2>5, <2>6, <2>7 DEF OneClaim
<1>5. CASE SendPort
  <2>1. /\ inbox' = inbox /\ cpc' = cpc /\ port' = port /\ threadState' = threadState
        /\ ctlPc = "send" /\ ctlPc' = "recv" /\ ctlI \in Slots
    BY <1>5 DEF SendPort, workerVars, TypeOK
  <2>2. AtMostOneConnecting' /\ OneExit' /\ \A i \in Slots : Exiting(i)' <=> Exiting(i)
    BY <2>1, SameInbox DEF OneClaim, AtMostOneConnecting, Connecting
  <2>3. /\ \A c \in Clients, i \in Slots : Holds(c, i)' <=> Holds(c, i)
        /\ \A i \in Slots : ~Pending(i)'
    BY <2>1 DEF Holds, Pending
  <2>4. Pending(ctlI)
    BY <2>1 DEF Pending
  <2>5. ~Exiting(ctlI) /\ \A c \in Clients : ~Holds(c, ctlI) /\ ~Offered(c, ctlI)
    BY <2>1, <2>4 DEF OneClaim, ClaimsDisjoint
  <2>6. CASE offers' = offers
    BY <2>1, <2>2, <2>3, <2>6, SameOffers, NoNewClaim
    DEF OneClaim, OffersToConnecting, Connecting
  <2>7. CASE offers' = [c \in Clients |-> IF Connecting(c) THEN Append(offers[c], ctlI)
                                                          ELSE offers[c]]
    <3>1. /\ OffersDistinct'
          /\ \A c \in Clients, i \in Slots :
                 Offered(c, i)' => Offered(c, i) \/ (i = ctlI /\ Connecting(c))
      BY <2>7, <2>5, SendOffer DEF OneClaim
    <3>2. OffersToConnecting'
      BY <2>1, <2>7 DEF OneClaim, OffersToConnecting, Connecting
    <3>3. ClaimedIsWorking'
      BY <2>1, <2>2, <2>3, <2>4, <3>1 DEF OneClaim, ClaimedIsWorking
    <3>4. ClaimsDisjoint' /\ PortExclusive'
      BY <2>2, <2>3, <2>5, <3>1 DEF OneClaim, ClaimsDisjoint, PortExclusive
    <3> QED
      BY <2>1, <2>2, <3>1, <3>2, <3>3, <3>4 DEF OneClaim
  <2> QED
    BY <1>5, <2>6, <2>7 DEF SendPort
<1> QED
  BY <1>1, <1>2, <1>3, <1>4, <1>5 DEF Control

\* A step of a worker keeps one claim per slot: the slot it frees loses the
\* only claim it had.
LEMMA WorkerClaim ==
    ASSUME TypeOK, OneClaim, NEW i \in Slots, Worker(i)
    PROVE  OneClaim'
<1>1. CASE StartProcessed(i)
  <2>1. /\ inbox' = inbox /\ offers' = offers /\ cpc' = cpc /\ port' = port
        /\ threadState' = threadState /\ ctlPc' = ctlPc /\ ctlI' = ctlI
    BY <1>1 DEF StartProcessed, controlVars, clientVars
  <2> QED
    BY <2>1, SameInbox, SameOffers, NoNewClaim
    DEF OneClaim, AtMostOneConnecting, OffersToConnecting, Connecting, Holds, Pending
<1>2. CASE ReceiveExit(i) \/ Echo(i)
  <2>1. /\ inbox[i] # <<>> /\ inbox' = [inbox EXCEPT ![i] = Tail(@)]
        /\ offers' = offers /\ cpc' = cpc /\ port' = port /\ ctlPc' = ctlPc /\ ctlI' = ctlI
    BY <1>2 DEF ReceiveExit, Echo, controlVars, clientVars
  <2>2. /\ OneExit' /\ OffersDistinct' /\ AtMostOneConnecting' /\ OffersToConnecting'
        /\ \A j \in Slots : (Exiting(j)' => Exiting(j)) /\ (Pending(j)' <=> Pending(j))
        /\ \A c \in Clients, j \in Slots :
               (Holds(c, j)' <=> Holds(c, j)) /\ (Offered(c, j)' <=> Offered(c, j))
    BY <2>1, ReadInbox, SameOffers
    DEF OneClaim, AtMostOneConnecting, OffersToConnecting, Connecting, Holds, Pending
  <2>3. CASE threadState' = threadState
    BY <2>1, <2>2, <2>3, NoNewClaim DEF OneClaim
  <2>4. CASE ReceiveExit(i)
    <3>1. threadState' = [threadState EXCEPT ![i] = Free] /\ Head(inbox[i]) = "exit"
      BY <2>4 DEF ReceiveExit, StateAfterExit
    <3>2. Exiting(i) /\ ~Exiting(i)'
      <4>1. 1 \in 1 .. Len(inbox[i]) /\ inbox[i][1] = "exit"
        BY <2>1, <3>1, HeadTail DEF TypeOK
      <4> QED
        BY <4>1, <2>1, <3>1, ReadInbox DEF Exiting, OneClaim
    <3>3. ~Pending(i) /\ \A c \in Clients : ~Holds(c, i) /\ ~Offered(c, i)
      BY <3>2 DEF OneClaim, ClaimsDisjoint
    <3>4. ClaimedIsWorking'
      BY <2>2, <3>1, <3>2, <3>3 DEF OneClaim, ClaimedIsWorking, TypeOK
    <3>5. ClaimsDisjoint' /\ PortExclusive'
      BY <2>2 DEF OneClaim, ClaimsDisjoint, PortExclusive
    <3>6. (ctlPc = "mark" => threadState[ctlI] = NotCreated)'
      BY <2>1, <3>1, <3>2 DEF OneClaim, ClaimedIsWorking, TypeOK, NotCreated, Working
    <3> QED
      BY <2>2, <3>4, <3>5, <3>6 DEF OneClaim
  <2> QED
    BY <1>2, <2>3, <2>4 DEF Echo
<1> QED
  BY <1>1, <1>2 DEF Worker

\* A process that ends gives up its claims.
LEMMA EndsClaim ==
    ASSUME TypeOK, OneClaim, NEW c \in Clients, ClientEnds(c)
    PROVE  /\ (AtMostOneConnecting /\ OffersToConnecting /\ OffersDistinct)'
           /\ \A d \in Clients, j \in Slots :
                  /\ Offered(d, j)' => Offered(d, j)
                  /\ Holds(d, j)' => Holds(d, j) /\ d # c
<1>1. \A d \in Clients :
         /\ offers'[d] = <<>> \/ (d # c /\ offers'[d] = offers[d])
         /\ Connecting(d)' <=> Connecting(d) /\ d # c
  BY DEF ClientEnds, Connecting, TypeOK
<1>2. OffersDistinct' /\ \A d \in Clients, j \in Slots : Offered(d, j)' => Offered(d, j)
  BY <1>1 DEF OneClaim, OffersDistinct, Offered
<1>3. \A d \in Clients, j \in Slots : Holds(d, j)' => Holds(d, j) /\ d # c
  BY DEF ClientEnds, Holds, TypeOK
<1>4. AtMostOneConnecting' /\ OffersToConnecting'
  BY <1>1 DEF OneClaim, AtMostOneConnecting, OffersToConnecting
<1> QED
  BY <1>2, <1>3, <1>4

\* A step of a client keeps one claim per slot: a client that takes an offer,
\* or says "exit", turns its only claim into another one.
LEMMA ClientClaim ==
    ASSUME OneAtATime, TypeOK, OneClaim, NEW c \in Clients, Client(c)
    PROVE  OneClaim'
<1>1. CASE OpenSocket(c)
  <2>1. /\ inbox' = inbox /\ offers' = offers /\ port' = port
        /\ threadState' = threadState /\ ctlPc' = ctlPc /\ ctlI' = ctlI
        /\ cpc' = [cpc EXCEPT ![c] = "opened"] /\ \A d \in Clients : ~Connecting(d)
    BY <1>1 DEF OpenSocket, MayStart, workerVars, controlVars
  <2>2. /\ \A d \in Clients : Connecting(d)' => d = c
        /\ \A d \in Clients, i \in Slots : Holds(d, i)' => Holds(d, i)
    BY <2>1 DEF Connecting, Holds, TypeOK
  <2>3. AtMostOneConnecting' /\ OffersToConnecting'
    BY <2>1, <2>2 DEF OneClaim, AtMostOneConnecting, OffersToConnecting
  <2> QED
    BY <2>1, <2>2, <2>3, SameInbox, SameOffers, NoNewClaim DEF OneClaim, Pending
<1>2. CASE SendConnect(c) \/ OpenSession(c) \/ ReceiveReply(c)
  <2>1. /\ inbox' = inbox /\ offers' = offers /\ port' = port
        /\ threadState' = threadState /\ ctlPc' = ctlPc /\ ctlI' = ctlI
    BY <1>2 DEF SendConnect, OpenSession, ReceiveReply, workerVars, controlVars
  <2>2. /\ \A d \in Clients : Connecting(d)' <=> Connecting(d)
        /\ \A d \in Clients, i \in Slots : Holds(d, i)' <=> Holds(d, i)
    BY <1>2, <2>1 DEF SendConnect, OpenSession, ReceiveReply, Connecting, Holds, TypeOK
  <2>3. AtMostOneConnecting' /\ OffersToConnecting'
    BY <2>1, <2>2 DEF OneClaim, AtMostOneConnecting, OffersToConnecting
  <2> QED
    BY <2>1, <2>2, <2>3, SameInbox, SameOffers, NoNewClaim DEF OneClaim, Pending
<1>3. CASE ReceivePort(c)
  <2> DEFINE h == Head(offers[c])
  <2>1. /\ inbox' = inbox /\ threadState' = threadState /\ ctlPc' = ctlPc /\ ctlI' = ctlI
        /\ cpc[c] = "wait" /\ cpc' = [cpc EXCEPT ![c] = "closed"]
        /\ port' = [port EXCEPT ![c] = h] /\ offers' = [offers EXCEPT ![c] = <<>>]
    BY <1>3 DEF ReceivePort, workerVars, controlVars
  <2>2. h \in Slots /\ Offered(c, h)
    <3>1. h \in Slots /\ h = offers[c][1] /\ 1 \in 1 .. Len(offers[c])
      BY <1>3, HeadTail DEF ReceivePort, TypeOK
    <3> QED
      BY <3>1 DEF Offered
  <2>3. ~Exiting(h) /\ ~Pending(h) /\ \A d \in Clients : ~Holds(d, h)
    BY <2>2 DEF OneClaim, ClaimsDisjoint
  <2>4. \A d \in Clients : offers'[d] # <<>> => d # c /\ offers'[d] = offers[d] /\ Connecting(d)
    BY <2>1 DEF TypeOK, OneClaim, OffersToConnecting
  <2>5. \A d \in Clients : offers[d] # <<>> => d = c
    BY <2>1 DEF OneClaim, OffersToConnecting, AtMostOneConnecting, Connecting
  <2>6. \A d \in Clients : offers'[d] = <<>>
    BY <2>4, <2>5
  <2>7. OffersDistinct' /\ \A d \in Clients, i \in Slots : ~Offered(d, i)'
    BY <2>6 DEF OffersDistinct, Offered
  <2>8. /\ \A d \in Clients : Connecting(d)' => Connecting(d)
        /\ \A d \in Clients, i \in Slots : Holds(d, i)' => Holds(d, i) \/ (d = c /\ i = h)
    BY <2>1 DEF Connecting, Holds, TypeOK
  <2>9. AtMostOneConnecting' /\ OffersToConnecting'
    BY <2>6, <2>8 DEF OneClaim, AtMostOneConnecting, OffersToConnecting
  <2>10. /\ OneExit' /\ \A i \in Slots : (Exiting(i)' <=> Exiting(i)) /\ (Pending(i)' <=> Pending(i))
    BY <2>1, SameInbox DEF OneClaim, Pending
  <2> HIDE DEF h
  <2>11. ClaimedIsWorking'
    BY <2>1, <2>2, <2>7, <2>8, <2>10 DEF OneClaim, ClaimedIsWorking
  <2>12. ClaimsDisjoint' /\ PortExclusive'
    BY <2>2, <2>3, <2>7, <2>8, <2>10 DEF OneClaim, ClaimsDisjoint, PortExclusive
  <2> QED
    BY <2>1, <2>7, <2>9, <2>10, <2>11, <2>12 DEF OneClaim
<1>4. ASSUME NEW m \in Inputs, SendInput(c, m) PROVE OneClaim'
  <2>1. /\ offers' = offers /\ port' = port /\ threadState' = threadState
        /\ ctlPc' = ctlPc /\ ctlI' = ctlI /\ cpc[c] = "input" /\ m # "exit"
        /\ cpc' = [cpc EXCEPT ![c] = "reply"] /\ port[c] \in Slots
        /\ inbox' \in {inbox, [inbox EXCEPT ![port[c]] = Append(@, m)]}
    BY <1>4 DEF SendInput, InboxAfter, TypeOK
  <2>2. OneExit' /\ \A j \in Slots : Exiting(j)' => Exiting(j)
    BY <2>1, SameInbox, WriteInbox DEF OneClaim
  <2>3. /\ \A d \in Clients : Connecting(d)' <=> Connecting(d)
        /\ \A d \in Clients, j \in Slots : Holds(d, j)' <=> Holds(d, j)
    BY <2>1 DEF Connecting, Holds, TypeOK
  <2>4. AtMostOneConnecting' /\ OffersToConnecting'
    BY <2>1, <2>3 DEF OneClaim, AtMostOneConnecting, OffersToConnecting
  <2> QED
    BY <2>1, <2>2, <2>3, <2>4, SameOffers, NoNewClaim DEF OneClaim, Pending
<1>5. CASE SendExit(c)
  <2>0. PICK i \in Slots : i = port[c]
    BY DEF TypeOK
  <2>1. /\ threadState' = threadState /\ ctlPc' = ctlPc /\ ctlI' = ctlI /\ cpc[c] = "input"
        /\ ClientEnds(c) /\ inbox' \in {inbox, [inbox EXCEPT ![i] = Append(@, "exit")]}
    BY <1>5, <2>0 DEF SendExit, InboxAfter, controlVars
  <2>2. Holds(c, i)
    BY <2>0, <2>1 DEF Holds
  <2>3. /\ ~Exiting(i) /\ ~Pending(i) /\ \A d \in Clients : ~Offered(d, i)
        /\ \A d \in Clients : Holds(d, i) => d = c
    BY <2>1, <2>2 DEF OneClaim, ClaimsDisjoint, PortExclusive
  <2>4. OneExit' /\ \A j \in Slots : Exiting(j)' => Exiting(j) \/ j = i
    BY <2>1, <2>3, SameInbox, WriteInbox, InputsAssumption DEF OneClaim
  <2>5. /\ (AtMostOneConnecting /\ OffersToConnecting /\ OffersDistinct)'
        /\ \A d \in Clients, j \in Slots :
               /\ Offered(d, j)' => Offered(d, j) 
               /\ Holds(d, j)' => Holds(d, j) /\ d # c
    BY <2>1, EndsClaim
  <2>6. \A j \in Slots : Pending(j)' <=> Pending(j)
    BY <2>1 DEF Pending
  <2>8. ClaimedIsWorking'
    BY <2>1, <2>2, <2>4, <2>5, <2>6 DEF OneClaim, ClaimedIsWorking
  <2>9. ClaimsDisjoint'
    <3>1. ASSUME NEW j \in Slots, Exiting(j)'
          PROVE  ~Pending(j)' /\ \A d \in Clients : ~Holds(d, j)' /\ ~Offered(d, j)'
      <4>1. CASE Exiting(j)
        BY <4>1, <2>5, <2>6 DEF OneClaim, ClaimsDisjoint
      <4>2. CASE j = i
        BY <4>2, <2>3, <2>5, <2>6
      <4> QED
        BY <3>1, <4>1, <4>2, <2>4
    <3>2. \A d \in Clients, j \in Slots :
             /\ Holds(d, j)' \/ Offered(d, j)' => ~Pending(j)'
             /\ Holds(d, j)' => \A e \in Clients : ~Offered(e, j)'
      BY <2>5, <2>6 DEF OneClaim, ClaimsDisjoint
    <3> QED
      BY <3>1, <3>2 DEF ClaimsDisjoint
  <2>10. PortExclusive'
    BY <2>5 DEF OneClaim, PortExclusive
  <2> QED
    BY <2>1, <2>4, <2>5, <2>8, <2>9, <2>10 DEF OneClaim
<1>6. CASE Kill(c)
  <2>1. /\ inbox' = inbox /\ threadState' = threadState /\ ctlPc' = ctlPc /\ ctlI' = ctlI
        /\ ClientEnds(c)
    BY <1>6 DEF Kill, workerVars, controlVars
  <2>2. /\ (AtMostOneConnecting /\ OffersToConnecting /\ OffersDistinct)'
        /\ \A d \in Clients, j \in Slots :
               (Offered(d, j)' => Offered(d, j)) /\ (Holds(d, j)' => Holds(d, j))
    BY <2>1, EndsClaim
  <2> QED
    BY <2>1, <2>2, SameInbox, NoNewClaim DEF OneClaim, Pending
<1> QED
  BY <1>1, <1>2, <1>3, <1>4, <1>5, <1>6 DEF Client

-----------------------------------------------------------------------------
\* When clients connect one at a time, a slot never has two claims, whatever is
\* lost, killed or typed.
THEOREM SlotsClaimedOnce ==
    ASSUME OneAtATime
    PROVE  Spec => []OneClaim
<1>1. Init => OneClaim
  BY DEF Init, OneClaim, AtMostOneConnecting, OffersToConnecting, OffersDistinct, OneExit,
         ClaimedIsWorking, ClaimsDisjoint, PortExclusive, Connecting, Holds, Offered, Exiting, Pending
<1>2. TypeOK /\ OneClaim /\ [Next]_vars => OneClaim'
  <2> SUFFICES ASSUME TypeOK, OneClaim, [Next]_vars PROVE OneClaim'
    OBVIOUS
  <2>1. CASE ServerExit \/ UNCHANGED vars
    <3>1. /\ offers' = offers /\ cpc' = cpc /\ port' = port
          /\ threadState' = threadState /\ ctlPc' = ctlPc /\ ctlI' = ctlI
      BY <2>1 DEF ServerExit, vars, controlVars, clientVars
    <3>2. OneExit' /\ \A i \in Slots : Exiting(i)' => Exiting(i)
      <4>1. CASE inbox' = inbox
        BY <4>1, SameInbox DEF OneClaim
      <4>2. CASE \A i \in Slots : inbox'[i] = <<>>
        BY <4>2 DEF OneExit, Exiting
      <4> QED
        BY <2>1, <4>1, <4>2 DEF ServerExit, vars, workerVars
    <3> QED
      BY <3>1, <3>2, SameOffers, NoNewClaim
      DEF OneClaim, AtMostOneConnecting, OffersToConnecting, Connecting, Holds, Pending
  <2> QED
    BY <2>1, ClientClaim, ControlClaim, WorkerClaim DEF Next
<1> QED
  BY <1>1, <1>2, TypeCorrect, PTL DEF Spec

\* When clients connect one at a time, no two of them are ever in a session on
\* the same port: the port a client is given is new (client.c:71, func.c:108).
THEOREM PortsExclusive ==
    ASSUME OneAtATime
    PROVE  Spec => []PortExclusive
<1>1. OneClaim => PortExclusive
  BY DEF OneClaim
<1> QED
  BY <1>1, SlotsClaimedOnce, PTL

-----------------------------------------------------------------------------
(* The pool of places.                                                      *)

\* A step that takes no client into or out of a session, and leaves its port
\* alone while it is in one, is none of the pool.
LEMMA SameLease ==
    ASSUME \A c \in Clients : /\ cpc'[c] \in {"closed", "input", "reply"}
                                  <=> cpc[c] \in {"closed", "input", "reply"}
                             /\ port'[c] = port[c]
    PROVE  LeaseOf' = LeaseOf
BY DEF LeaseOf

\* A client's step is a lease, a release or none.
LEMMA ClientLease ==
    ASSUME TypeOK, OneClaim, NEW c \in Clients, Client(c)
    PROVE  Pool!Next \/ LeaseOf' = LeaseOf
<1>1. CASE OpenSocket(c) \/ SendConnect(c) \/ OpenSession(c) \/ ReceiveReply(c)
            \/ \E m \in Inputs : SendInput(c, m)
  <2>1. PICK s \in ClientPcs : /\ cpc' = [cpc EXCEPT ![c] = s] /\ port' = port
                               /\ s \in {"closed", "input", "reply"}
                                  <=> cpc[c] \in {"closed", "input", "reply"}
    BY <1>1 DEF OpenSocket, SendConnect, OpenSession, ReceiveReply, SendInput, ClientPcs
  <2> QED
    BY <2>1, SameLease DEF TypeOK
<1>2. CASE ReceivePort(c)
  <2>1. PICK h \in Slots : /\ Offered(c, h) /\ port' = [port EXCEPT ![c] = h]
                           /\ cpc[c] = "wait" /\ cpc' = [cpc EXCEPT ![c] = "closed"]
    <3>1. /\ Head(offers[c]) \in Slots /\ Head(offers[c]) = offers[c][1]
          /\ 1 \in 1 .. Len(offers[c])
      BY <1>2, HeadTail DEF ReceivePort, TypeOK
    <3> QED
      BY <1>2, <3>1 DEF ReceivePort, Offered
  <2>2. \A d \in Clients : ~Holds(d, h)
    BY <2>1 DEF OneClaim, ClaimsDisjoint
  <2>3. h # -1
    BY DEF Slots
  <2>4. Pool!Lease(c, h)
    BY <2>1, <2>2, <2>3 DEF Pool!Lease, LeaseOf, Holds, TypeOK
  <2> QED
    BY <2>4 DEF Pool!Next
<1>3. CASE SendExit(c) \/ Kill(c)
  <2>1. ClientEnds(c)
    BY <1>3 DEF SendExit, Kill
  <2>2. LeaseOf' = [LeaseOf EXCEPT ![c] = -1]
    BY <2>1 DEF ClientEnds, LeaseOf, TypeOK
  <2>3. CASE LeaseOf[c] = -1
    BY <2>2, <2>3 DEF LeaseOf
  <2>4. CASE LeaseOf[c] # -1
    BY <2>2, <2>4 DEF Pool!Next, Pool!Release
  <2> QED
    BY <2>3, <2>4
<1> QED
  BY <1>1, <1>2, <1>3 DEF Client

\* When clients connect one at a time, the server with its threads, table and
\* lost frames is the pool of SessionPool: nobody is given a place another has
\* (func.c:104-136, 215-219).
THEOREM PoolImplemented ==
    ASSUME OneAtATime
    PROVE  Spec => ImplementsPool
<1>1. Init => Pool!Init
  BY DEF Init, Pool!Init, LeaseOf
<1>2. TypeOK /\ OneClaim /\ [Next]_vars => [Pool!Next]_LeaseOf
  <2> SUFFICES ASSUME TypeOK, OneClaim, [Next]_vars
               PROVE  Pool!Next \/ LeaseOf' = LeaseOf
    OBVIOUS
  <2>1. ASSUME Control \/ ServerExit \/ UNCHANGED vars \/ \E i \in Slots : Worker(i)
        PROVE  LeaseOf' = LeaseOf
    <3>1. cpc' = cpc /\ port' = port
      BY <2>1 DEF Control, ReceiveConnect, CreateThread, MarkWorking, ReuseThread, SkipBusy,
             SendPort, ServerExit, Worker, StartProcessed, ReceiveExit, Echo, vars, clientVars
    <3> QED
      BY <3>1, SameLease
  <2> QED
    BY <2>1, ClientLease DEF Next
<1> QED
  BY <1>1, <1>2, TypeCorrect, SlotsClaimedOnce, PTL DEF Spec, ImplementsPool, Pool!Spec

-----------------------------------------------------------------------------
(* The numbers of the echoes.                                               *)

\* A queue of one frame.
LEMMA OneFrame ==
    ASSUME NEW S, NEW e \in S
    PROVE  /\ Append(<<>>, e) = <<e>> /\ Head(<<e>>) = e /\ Tail(<<e>>) = <<>>
           /\ <<e>> # <<>> /\ Len(<<e>>) = 1 /\ <<e>>[1] = e
OBVIOUS

\* Counted is kept by a step after which every slot and client is as fresh, or
\* as much in step, as the ones it leaves alone.
LEMMA SameCounts ==
    ASSUME Counted,
           inbox' = inbox, msg_count' = msg_count, replies' = replies, typed' = typed,
           \A i \in Slots : Unused(i)' => Quiet(i),
           \A c \in Clients :
               /\ InSession(c) => InSession(c)'
               /\ payload_snd'[c] = payload_snd[c]
               /\ \A i \in Slots : Holds(c, i)' => 
                     \/ Holds(c, i) /\ cpc'[c] = cpc[c]
                     \/ cpc'[c] = "closed" /\ Quiet(i)
    PROVE  Counted'
<1>1. \A i \in Slots : (Quiet(i)' <=> Quiet(i)) /\ (Exiting(i)' <=> Exiting(i))
  BY DEF Quiet, Exiting
<1>2. FreshSlots'
  BY <1>1 DEF Counted, FreshSlots
<1>3. FreshClients'
  BY DEF Counted, FreshClients
<1>4. ASSUME NEW c \in Clients, NEW i \in Slots, Holds(c, i)' PROVE InStep(c, i)'
  <2>1. CASE Holds(c, i) /\ cpc'[c] = cpc[c]
    BY <1>1, <2>1 DEF Counted, SessionsInStep, InStep, Echoed
  <2>2. CASE cpc'[c] = "closed" /\ Quiet(i)
    BY <1>1, <2>2 DEF InStep
  <2> QED
    BY <1>4, <2>1, <2>2
<1> QED
  BY <1>2, <1>3, <1>4 DEF Counted, SessionsInStep

\* A step of the control thread hands out a slot that is fresh.
LEMMA ControlCounted ==
    ASSUME TypeOK, OneClaim, Counted, Control
    PROVE  Counted'
<1>1. /\ UNCHANGED <<inbox, msg_count, cpc, port, replies, payload_snd, typed>>
  BY DEF Control, ReceiveConnect, CreateThread, MarkWorking, ReuseThread, SkipBusy, SendPort,
         workerVars, clientVars
<1>2. ASSUME NEW i \in Slots, Unused(i)' PROVE Unused(i)
  <2>1. CASE ReceiveConnect \/ CreateThread \/ SkipBusy
    BY <1>2, <2>1 DEF Unused, Pending, Offered, ReceiveConnect, CreateThread, SkipBusy,
           workerVars, clientVars
  <2>2. CASE MarkWorking \/ ReuseThread
    <3>1. /\ threadState[ctlI] # Working /\ ctlI' = ctlI /\ offers' = offers
          /\ \A j \in Slots : threadState'[j] # Working => threadState[j] # Working
      BY <2>2 DEF MarkWorking, ReuseThread, Reusable, OneClaim, TypeOK, clientVars, NotCreated,
             Free, Working
    <3> QED
      BY <1>2, <3>1 DEF Unused, Pending, Offered
  <2>3. CASE SendPort
    <3>1. /\ threadState' = threadState /\ ctlPc = "send" /\ ctlPc' = "recv" /\ ctlI \in Slots
      BY <2>3 DEF SendPort, TypeOK
    <3>2. \A c \in Clients : Offered(c, i)' => Offered(c, i) \/ i = ctlI
      <4>1. CASE offers' = offers
        BY <4>1 DEF Offered
      <4>2. CASE offers' = [c \in Clients |-> IF Connecting(c) THEN Append(offers[c], ctlI)
                                                              ELSE offers[c]]
        <5>1. Pending(ctlI)
          BY <3>1 DEF Pending
        <5>2. \A c \in Clients : ~Offered(c, ctlI)
          BY <3>1, <5>1 DEF OneClaim, ClaimsDisjoint
        <5> QED
          BY <4>2, <5>2, SendOffer DEF OneClaim
      <4> QED
        BY <2>3, <4>1, <4>2 DEF SendPort
    <3> QED
      BY <1>2, <3>1, <3>2 DEF Unused, Pending
  <2> QED
    BY <2>1, <2>2, <2>3 DEF Control
<1>3. \A i \in Slots : Unused(i)' => Quiet(i)
  BY <1>2 DEF Counted, FreshSlots
<1>4. \A c \in Clients : /\ InSession(c) => InSession(c)'
                        /\ \A i \in Slots : Holds(c, i)' => Holds(c, i) /\ cpc'[c] = cpc[c]
  BY <1>1 DEF InSession, Holds
<1> QED
  BY <1>1, <1>3, <1>4, SameCounts

\* A client that holds a slot is alone with its worker.
LEMMA AloneInSession ==
    ASSUME OneClaim, NEW c \in Clients, NEW i \in Slots, Holds(c, i)
    PROVE  /\ ~Unused(i) /\ ~Exiting(i)
           /\ \A d \in Clients : Holds(d, i) => d = c
BY DEF OneClaim, ClaimedIsWorking, ClaimsDisjoint, PortExclusive, Unused

\* Whatever happens to client c and to slot i, a client in session on another
\* slot stays in step.
LEMMA OthersInStep ==
    ASSUME Counted, NEW c, NEW i,
           \A d \in Clients : d # c =>
               /\ cpc'[d] = cpc[d] /\ port'[d] = port[d] /\ replies'[d] = replies[d]
               /\ payload_snd'[d] = payload_snd[d] /\ typed'[d] = typed[d],
           \A j \in Slots : j # i => inbox'[j] = inbox[j] /\ msg_count'[j] = msg_count[j],
           \A d \in Clients : Holds(d, i) => d = c,
           NEW d \in Clients, NEW j \in Slots, d # c, Holds(d, j)'
    PROVE  InStep(d, j)'
<1>1. Holds(d, j) /\ j # i
  BY DEF Holds
<1>2. InStep(d, j)
  BY <1>1 DEF Counted, SessionsInStep
<1> QED
  BY <1>1, <1>2 DEF InStep, Quiet, Echoed

\* A worker that echoes a line counts it; one that reads "exit" is fresh again.
LEMMA WorkerCounted ==
    ASSUME TypeOK, OneClaim, Counted, NEW i \in Slots, Worker(i)
    PROVE  Counted'
<1>1. CASE StartProcessed(i)
  <2>1. UNCHANGED <<threadState, msg_count, inbox, controlVars, clientVars>>
    BY <1>1 DEF StartProcessed
  <2>2. \A j \in Slots : Unused(j)' => Quiet(j)
    BY <2>1 DEF Unused, Pending, Offered, controlVars, clientVars, Counted, FreshSlots
  <2> QED
    BY <2>1, <2>2, SameCounts DEF clientVars, InSession, Holds
<1>2. CASE ReceiveExit(i) \/ Echo(i)
  <2>1. /\ cpc' = cpc /\ port' = port /\ typed' = typed /\ payload_snd' = payload_snd
        /\ inbox[i] # <<>> /\ inbox' = [inbox EXCEPT ![i] = Tail(@)]
        /\ ctlPc' = ctlPc /\ ctlI' = ctlI /\ offers' = offers
    BY <1>2 DEF ReceiveExit, Echo, controlVars, clientVars
  <2>2. /\ \A j \in Slots : j # i => inbox'[j] = inbox[j] /\ msg_count'[j] = msg_count[j]
                                     /\ threadState'[j] = threadState[j]
        /\ inbox'[i] = Tail(inbox[i])
    BY <1>2, <2>1 DEF ReceiveExit, Echo, TypeOK
  <2>3. /\ \A d \in Clients, j \in Slots : Holds(d, j)' <=> Holds(d, j)
        /\ \A j \in Slots : j # i => (Unused(j)' => Unused(j))
    BY <2>1, <2>2 DEF Holds, Unused, Pending, Offered
  <2>4. \A j \in Slots : j # i => /\ Unused(j)' => Quiet(j)'
                                  /\ Exiting(j)' => inbox'[j] = <<"exit">>
    BY <2>2, <2>3 DEF Counted, FreshSlots, Quiet, Exiting
  <2>5. CASE ReceiveExit(i)
    <3>1. /\ Head(inbox[i]) = "exit" /\ replies' = replies
          /\ msg_count' = [msg_count EXCEPT ![i] = 1]
      BY <2>5 DEF ReceiveExit, CountAfterExit, clientVars
    <3>2. Exiting(i)
      <4>1. 1 \in 1 .. Len(inbox[i]) /\ inbox[i][1] = "exit"
        BY <2>1, <3>1, HeadTail DEF TypeOK
      <4> QED
        BY <4>1 DEF Exiting
    <3>3. Quiet(i)' /\ ~Exiting(i)'
      <4>1. inbox'[i] = <<>> /\ msg_count'[i] = 1
        BY <2>2, <3>1, <3>2, OneFrame DEF Counted, FreshSlots, TypeOK
      <4> QED
        BY <4>1 DEF Quiet, Exiting
    <3>4. FreshSlots' /\ FreshClients'
      BY <2>1, <2>4, <3>1, <3>3 DEF FreshSlots, FreshClients, Counted, InSession
    <3>5. \A d \in Clients : ~Holds(d, i)
      BY <3>2 DEF OneClaim, ClaimsDisjoint
    <3>6. SessionsInStep'
      <4> SUFFICES ASSUME NEW d \in Clients, NEW j \in Slots, Holds(d, j)'
                   PROVE  InStep(d, j)'
        BY DEF SessionsInStep
      <4>1. j # i /\ InStep(d, j)
        BY <2>3, <3>5 DEF Counted, SessionsInStep
      <4> QED
        BY <4>1, <2>1, <2>2, <3>1 DEF InStep, Quiet, Echoed
    <3> QED
      BY <3>4, <3>6 DEF Counted
  <2>6. CASE Echo(i)
    <3> DEFINE frame == [body |-> Head(inbox[i]), n |-> msg_count[i]]
    <3>1. /\ Head(inbox[i]) # "exit" /\ threadState' = threadState
          /\ msg_count' = [msg_count EXCEPT ![i] = @ + 1]
          /\ \/ replies' = replies
             \/ replies' = [c \in Clients |-> IF InSession(c) /\ port[c] = i
                                             THEN Append(replies[c], frame) ELSE replies[c]]
      BY <2>6 DEF Echo
    <3>2. ~Exiting(i) /\ ~Unused(i)
      BY <2>1, <3>1, OneFrame DEF Counted, FreshSlots, Quiet
    <3>3. ~Exiting(i)' /\ ~Unused(i)'
      BY <2>1, <3>1, <3>2, ReadInbox DEF OneClaim, Unused, Pending, Offered
    <3>4. FreshSlots'
      BY <2>4, <3>3 DEF FreshSlots
    <3>5. \A d \in Clients : ~(InSession(d) /\ port[d] = i) => replies'[d] = replies[d]
      BY <3>1
    <3>6. FreshClients'
      BY <2>1, <3>5 DEF FreshClients, Counted, InSession
    <3>7. ASSUME NEW d \in Clients, NEW j \in Slots, Holds(d, j)', j # i PROVE InStep(d, j)'
      <4>1. replies'[d] = replies[d] /\ InStep(d, j)
        BY <2>3, <3>5, <3>7 DEF Holds, Counted, SessionsInStep
      <4> QED
        BY <4>1, <3>7, <2>1, <2>2 DEF InStep, Quiet, Echoed
    <3>8. ASSUME NEW d \in Clients, Holds(d, i)' PROVE InStep(d, i)'
      <4>1. /\ cpc[d] = "reply" /\ inbox[i] = <<payload_snd[d]>> /\ replies[d] = <<>>
            /\ msg_count[i] = typed[d] /\ port[d] = i
        BY <2>1, <2>3, <3>8 DEF Counted, SessionsInStep, InStep, Quiet, Holds
      <4>2. /\ inbox'[i] = <<>> /\ msg_count'[i] = typed[d] + 1
            /\ frame = Echoed(d)
        BY <2>2, <3>1, <4>1, OneFrame DEF TypeOK, Echoed
      <4>5. Append(<<>>, Echoed(d)) = <<Echoed(d)>>
        OBVIOUS
      <4> HIDE DEF frame
      <4>3. replies'[d] \in {<<>>, <<Echoed(d)>>}
        BY <3>1, <4>1, <4>2, <4>5 DEF InSession
      <4> QED
        BY <2>1, <4>1, <4>2, <4>3 DEF InStep, Echoed
    <3>9. SessionsInStep'
      BY <3>7, <3>8 DEF SessionsInStep
    <3> QED
      BY <3>4, <3>6, <3>9 DEF Counted
  <2> QED
    BY <1>2, <2>5, <2>6
<1> QED
  BY <1>1, <1>2 DEF Worker

\* A step of a client keeps it in step with its worker.
LEMMA ClientCounted ==
    ASSUME OneAtATime, TypeOK, OneClaim, Counted, NEW c \in Clients, Client(c)
    PROVE  Counted'
<1>1. CASE OpenSocket(c) \/ SendConnect(c)
  <2>1. PICK s \in {"opened", "wait"} :
           /\ cpc' = [cpc EXCEPT ![c] = s] /\ cpc[c] \in {"start", "opened"}
           /\ UNCHANGED <<threadState, msg_count, inbox, ctlPc, ctlI, port, offers, replies,
                          payload_snd, typed>>
    BY <1>1 DEF OpenSocket, SendConnect, workerVars, controlVars
  <2>2. \A i \in Slots : Unused(i)' => Quiet(i)
    BY <2>1 DEF Unused, Pending, Offered, Counted, FreshSlots
  <2>3. \A d \in Clients : /\ InSession(d) => InSession(d)'
                          /\ \A i \in Slots : Holds(d, i)' => Holds(d, i) /\ cpc'[d] = cpc[d]
    BY <2>1 DEF InSession, Holds, TypeOK
  <2> QED
    BY <2>1, <2>2, <2>3, SameCounts
<1>2. CASE ReceivePort(c)
  <2>1. PICK h \in Slots :
           /\ Offered(c, h) /\ port' = [port EXCEPT ![c] = h] /\ cpc[c] = "wait"
           /\ cpc' = [cpc EXCEPT ![c] = "closed"] /\ offers' = [offers EXCEPT ![c] = <<>>]
           /\ UNCHANGED <<threadState, msg_count, inbox, ctlPc, ctlI, replies, payload_snd, typed>>
    <3>1. /\ Head(offers[c]) \in Slots /\ Head(offers[c]) = offers[c][1]
          /\ 1 \in 1 .. Len(offers[c])
      BY <1>2, HeadTail DEF ReceivePort, TypeOK
    <3> QED
      BY <1>2, <3>1 DEF ReceivePort, Offered, workerVars, controlVars
  <2>2. Quiet(h)
    BY <2>1 DEF Counted, FreshSlots, Unused
  <2>3. \A d \in Clients : offers'[d] = <<>> \/ offers'[d] = offers[d]
    BY <2>1 DEF TypeOK
  <2>4. \A i \in Slots : Unused(i)' => Quiet(i)
    BY <2>1, <2>3 DEF Unused, Pending, Offered, Counted, FreshSlots
  <2>5. \A d \in Clients :
           /\ InSession(d) => InSession(d)'
           /\ \A i \in Slots :
                  Holds(d, i)' =>
                      \/ Holds(d, i) /\ cpc'[d] = cpc[d]
                      \/ cpc'[d] = "closed" /\ i = h
    BY <2>1 DEF InSession, Holds, TypeOK
  <2> QED
    BY <2>1, <2>2, <2>4, <2>5, SameCounts
<1>3. CASE OpenSession(c) \/ ReceiveReply(c) \/ \E m \in Inputs : SendInput(c, m)
  <2>0. PICK i \in Slots : i = port[c]
    BY DEF TypeOK
  <2>1. /\ cpc[c] \in {"closed", "input", "reply"} /\ cpc'[c] \in {"input", "reply"}
        /\ UNCHANGED <<threadState, msg_count, ctlPc, ctlI, port, offers>>
        /\ \A j \in Slots : j # i => inbox'[j] = inbox[j]
        /\ \A d \in Clients : d # c =>
               /\ cpc'[d] = cpc[d] /\ replies'[d] = replies[d]
               /\ payload_snd'[d] = payload_snd[d] /\ typed'[d] = typed[d]
    BY <1>3, <2>0 DEF OpenSession, ReceiveReply, SendInput, InboxAfter, workerVars, controlVars, TypeOK
  <2>2. Holds(c, i) /\ InStep(c, i)
    BY <2>0, <2>1 DEF Holds, Counted, SessionsInStep
  <2>3. /\ ~Unused(i) /\ ~Exiting(i) /\ \A d \in Clients : Holds(d, i) => d = c
    BY <2>2, AloneInSession
  <2>4. \A j \in Slots : Unused(j)' <=> Unused(j)
    BY <2>1 DEF Unused, Pending, Offered
  <2>5. ~Exiting(i)' /\ InStep(c, i)'
    <3>1. CASE OpenSession(c)
      <4>1. cpc[c] = "closed" /\ cpc'[c] = "input" /\ UNCHANGED <<inbox, replies, typed>>
        BY <3>1 DEF OpenSession, TypeOK, workerVars
      <4> QED
        BY <4>1, <2>1, <2>2, <2>3 DEF InStep, Quiet, Exiting, Counted, FreshClients, InSession
    <3>2. CASE ReceiveReply(c)
      <4>1. /\ cpc[c] = "reply" /\ cpc'[c] = "input" /\ UNCHANGED <<inbox, typed>>
            /\ replies[c] # <<>> /\ replies'[c] = Tail(replies[c])
        BY <3>2 DEF ReceiveReply, TypeOK, workerVars
      <4>2. replies[c] = <<Echoed(c)>> /\ inbox[i] = <<>> /\ msg_count[i] = typed[c] + 1
        BY <4>1, <2>2 DEF InStep
      <4>3. replies'[c] = <<>>
        BY <4>1, <4>2
      <4> QED
        BY <4>1, <4>2, <4>3, <2>1, <2>3 DEF InStep, Exiting
    <3>3. ASSUME NEW m \in Inputs, SendInput(c, m) PROVE ~Exiting(i)' /\ InStep(c, i)'
      <4>1. /\ cpc[c] = "input" /\ cpc'[c] = "reply" /\ m # "exit" /\ replies' = replies
            /\ typed'[c] = typed[c] + 1 /\ payload_snd'[c] = m
            /\ \/ inbox' = inbox 
               \/ inbox'[i] = Append(inbox[i], m)
        BY <3>3, <2>0 DEF SendInput, InboxAfter, TypeOK
      <4>2. inbox[i] = <<>> /\ replies[c] = <<>> /\ msg_count[i] = typed[c] + 1
        BY <4>1, <2>2 DEF InStep
      <4>3. inbox'[i] = <<>> \/ inbox'[i] = <<m>>
        BY <4>1, <4>2
      <4>4. ~Exiting(i)'
        BY <4>1, <4>3 DEF Exiting
      <4> QED
        BY <4>1, <4>2, <4>3, <4>4, <2>1 DEF InStep
    <3> QED
      BY <1>3, <3>1, <3>2, <3>3
  <2>6. FreshSlots'
    <3>1. \A j \in Slots : j # i => /\ Unused(j)' => Quiet(j)'
                                    /\ Exiting(j)' => inbox'[j] = <<"exit">>
      BY <2>1, <2>4 DEF Counted, FreshSlots, Quiet, Exiting
    <3> QED
      BY <3>1, <2>3, <2>4, <2>5 DEF FreshSlots
  <2>7. FreshClients'
    BY <2>1 DEF FreshClients, Counted, InSession
  <2>8. \A d \in Clients, j \in Slots : d # c /\ Holds(d, j)' => InStep(d, j)'
    BY <2>1, <2>3, OthersInStep
  <2>9. \A j \in Slots : Holds(c, j)' => j = i
    BY <2>0, <2>1 DEF Holds
  <2> QED
    BY <2>5, <2>6, <2>7, <2>8, <2>9 DEF Counted, SessionsInStep
<1>4. CASE SendExit(c) \/ Kill(c)
  <2>1. /\ ClientEnds(c) /\ UNCHANGED <<threadState, msg_count, ctlPc, ctlI>>
        /\ \/ inbox' = inbox
           \/ /\ cpc[c] = "input" /\ port[c] \in Slots
              /\ inbox' = [inbox EXCEPT ![port[c]] = Append(@, "exit")]
    BY <1>4 DEF SendExit, Kill, InboxAfter, workerVars, controlVars, TypeOK
  <2>2. /\ \A d \in Clients : d # c => 
               /\ cpc'[d] = cpc[d] /\ port'[d] = port[d] /\ replies'[d] = replies[d]
               /\ payload_snd'[d] = payload_snd[d] /\ typed'[d] = typed[d]
        /\ cpc'[c] = "done" /\ replies'[c] = <<>> /\ typed'[c] = 0
        /\ \A j \in Slots : ~Holds(c, j)'
        /\ \A d \in Clients : offers'[d] = <<>> \/ offers'[d] = offers[d]
    BY <2>1 DEF ClientEnds, TypeOK, Holds
  <2>3. FreshClients'
    BY <2>2 DEF FreshClients, Counted, InSession
  <2>4. \A j \in Slots : Unused(j)' => Unused(j)
    BY <2>1, <2>2 DEF Unused, Pending, Offered
  <2>5. CASE inbox' = inbox
    <3>1. FreshSlots'
      BY <2>1, <2>4, <2>5 DEF Counted, FreshSlots, Quiet, Exiting
    <3>2. \A d \in Clients, j \in Slots : Holds(d, j)' => InStep(d, j)'
      <4> SUFFICES ASSUME NEW d \in Clients, NEW j \in Slots, Holds(d, j)' PROVE InStep(d, j)'
        OBVIOUS
      <4>1. d # c /\ InStep(d, j)
        BY <2>2 DEF Holds, Counted, SessionsInStep
      <4> QED
        BY <4>1, <2>1, <2>2, <2>5 DEF InStep, Quiet, Echoed
    <3> QED
      BY <2>3, <3>1, <3>2 DEF Counted, SessionsInStep
  <2>6. CASE /\ cpc[c] = "input" /\ port[c] \in Slots
             /\ inbox' = [inbox EXCEPT ![port[c]] = Append(@, "exit")]
    <3>0. PICK i \in Slots : i = port[c]
      BY <2>6
    <3>1. Holds(c, i) /\ InStep(c, i)
      BY <2>6, <3>0 DEF Holds, Counted, SessionsInStep
    <3>2. inbox[i] = <<>> /\ ~Unused(i) /\ \A d \in Clients : Holds(d, i) => d = c
      BY <2>6, <3>1, AloneInSession DEF InStep
    <3>3. inbox'[i] = <<"exit">> /\ \A j \in Slots : j # i => inbox'[j] = inbox[j]
      BY <2>6, <3>0, <3>2 DEF TypeOK
    <3>4. FreshSlots'
      <4>1. \A j \in Slots : j # i => /\ Unused(j)' => Quiet(j)'
                                      /\ Exiting(j)' => inbox'[j] = <<"exit">>
        BY <2>1, <2>4, <3>3 DEF Counted, FreshSlots, Quiet, Exiting
      <4> QED
        BY <4>1, <2>4, <3>2, <3>3 DEF FreshSlots
    <3>5. ASSUME NEW d \in Clients, NEW j \in Slots, Holds(d, j)' PROVE InStep(d, j)'
      <4>1. d # c /\ msg_count' = msg_count
        BY <2>1, <2>2, <3>5
      <4> QED
        BY <4>1, <2>2, <3>2, <3>3, <3>5, OthersInStep
    <3> QED
      BY <2>3, <3>4, <3>5 DEF Counted, SessionsInStep
  <2> QED
    BY <2>1, <2>5, <2>6
<1> QED
  BY <1>1, <1>2, <1>3, <1>4 DEF Client

\* When clients connect one at a time, the echo a client is about to print is
\* that of its last line, with the number of that line in its session
\* (func.c:215-245).
THEOREM EchoesNumbered ==
    ASSUME OneAtATime
    PROVE  Spec => []EchoNumbers
<1>1. Init => Counted
  BY DEF Init, Counted, FreshSlots, FreshClients, SessionsInStep, Quiet, Unused, Exiting, Holds,
         Pending, Offered
<1>2. TypeOK /\ OneClaim /\ Counted /\ [Next]_vars => Counted'
  <2> SUFFICES ASSUME TypeOK, OneClaim, Counted, [Next]_vars PROVE Counted'
    OBVIOUS
  <2>1. CASE UNCHANGED vars
    <3>1. UNCHANGED <<threadState, msg_count, inbox, ctlPc, ctlI, cpc, port, offers, replies,
                      payload_snd, typed>>
      BY <2>1 DEF vars, workerVars, controlVars, clientVars
    <3>2. \A i \in Slots : Unused(i)' => Quiet(i)
      BY <3>1 DEF Unused, Pending, Offered, Counted, FreshSlots
    <3> QED
      BY <3>1, <3>2, SameCounts DEF InSession, Holds
  <2>2. CASE ServerExit
    <3>1. /\ UNCHANGED <<threadState, msg_count, ctlPc, ctlI, cpc, port, offers, replies,
                         payload_snd, typed>>
          /\ inbox' = [i \in Slots |-> <<>>]
      BY <2>2 DEF ServerExit, clientVars
    <3>2. FreshSlots'
      BY <3>1 DEF Counted, FreshSlots, Unused, Quiet, Exiting, Pending, Offered
    <3>3. FreshClients'
      BY <3>1 DEF Counted, FreshClients, InSession
    <3>4. \A c \in Clients, i \in Slots : Holds(c, i)' => InStep(c, i)'
      BY <3>1 DEF Counted, SessionsInStep, InStep, Holds, Quiet, Echoed
    <3> QED
      BY <3>2, <3>3, <3>4 DEF Counted, SessionsInStep
  <2> QED
    BY <2>1, <2>2, ClientCounted, ControlCounted, WorkerCounted DEF Next
<1>3. TypeOK /\ Counted => EchoNumbers
  <2> SUFFICES ASSUME TypeOK, Counted, NEW c \in Clients, cpc[c] = "reply", replies[c] # <<>>
               PROVE  Head(replies[c]) = Echoed(c)
    BY DEF EchoNumbers
  <2>1. Holds(c, port[c]) /\ port[c] \in Slots
    BY DEF Holds, TypeOK
  <2>2. replies[c] = <<Echoed(c)>>
    BY <2>1 DEF Counted, SessionsInStep, InStep
  <2> QED
    BY <2>2
<1> QED
  BY <1>1, <1>2, <1>3, TypeCorrect, SlotsClaimedOnce, PTL DEF Spec
=============================================================================
