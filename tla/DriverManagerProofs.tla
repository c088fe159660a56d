------------------------- MODULE DriverManagerProofs -------------------------
(***************************************************************************)
(* Theorems of DriverManager, for every number of drivers, tasks and       *)
(* seconds.                                                                *)
(***************************************************************************)
EXTENDS DriverManager, FiniteSetTheorems, SequenceTheorems, TLAPS

-----------------------------------------------------------------------------
(* The type invariant.                                                      *)

\* Who works has something to do, and nobody has another's name before its first
\* message.
AtWork ==
    \A d \in Drivers :
        /\ dpc[d] = "work" => driver[d].timer # 0
        /\ dpc[d] \in {"none", "hello", "first"} => driver[d].pid = d

Typed == TypeOK /\ AtWork

-----------------------------------------------------------------------------
(* Work that was ordered.                                                   *)

\* A message for d on its way orders at least k seconds.
Sent(d, k) ==
    \/ \E i \in 1 .. Len(queue) : queue[i].pid = d /\ k <= queue[i].timer
    \/ \E e \in Drivers : given[e] # Nothing /\ given[e].pid = d /\ k <= given[e].timer

\* d has to work the k-th second from the end of its task, or may be told to: while
\* it works or naps its own reports are on their way, which look like tasks.
Claimed(d, k) ==
    \/ dpc[d] \in {"work", "nap"} /\ k <= driver[d].timer
    \/ dpc[d] \notin {"work", "nap"} /\ Sent(d, k)

Claims == {c \in Drivers \X Nat : c[2] # 0 /\ Claimed(c[1], c[2])}

\* Every second worked, and every one still to work, was ordered.
Paid ==
    Prompt /\ OwnIdentities /\ Managing =>
        IsFiniteSet(Claims) /\ worked + Cardinality(Claims) <= ordered
-----------------------------------------------------------------------------
(* A driver that is the only one.                                           *)

\* A message that orders work says busy.
Says(m) == m.timer # 0 => m.status = Busy

Honest ==
    /\ \A i \in 1 .. Len(queue) : Says(queue[i])
    /\ \A d \in Drivers : given[d] # Nothing => Says(given[d])
    /\ \A d \in Drivers : Says(driver[d])
    /\ task_msg # Nothing => Says(task_msg)

\* m is d's, and links to no other driver.
Own(d, m) == m.pid = d /\ m.next \notin Drivers

\* Nothing was ever sent.
Quiet ==
    /\ \A d \in Drivers : dpc[d] = "none" /\ given[d] = Nothing /\ Own(d, driver[d])
    /\ queue = <<>> /\ blocked = <<>> /\ task_msg = Nothing

\* All messages are d's, and it waits only when there is none.
Single(d) ==
    /\ \A e \in Drivers : dpc[e] # "none" <=> e = d
    /\ \A i \in 1 .. Len(queue) : Own(d, queue[i])
    /\ \A e \in Drivers : given[e] # Nothing => e = d /\ Own(d, given[e])
    /\ task_msg # Nothing => Own(d, task_msg)
    /\ Own(d, driver[d]) /\ Own(d, node[d])
    /\ blocked # <<>> =>
           /\ blocked = <<d>> /\ dpc[d] \in {"first", "recv"}
           /\ queue = <<>> /\ given[d] = Nothing

\* While d naps in its task the last message says so, which is the one the manager
\* has in task_msg when the queue is empty.
BusyLast(d) ==
    dpc[d] = "nap" /\ driver[d].timer # 0 =>
        IF queue = <<>> THEN task_msg # Nothing /\ task_msg.status = Busy /\ node[d].status = Busy
        ELSE queue[Len(queue)].status = Busy

OneAtMost == \A d, e \in Drivers : dpc[d] # "none" /\ dpc[e] # "none" => d = e

Sole ==
    OneAtMost /\ Managing =>
        \/ drivers = NULL /\ Quiet
        \/ drivers \in Drivers /\ Single(drivers) /\ BusyLast(drivers)

-----------------------------------------------------------------------------
(* Types.                                                                   *)

\* The fields of a message, once and for all.
LEMMA Fields ==
    ASSUME NEW m \in Processing
    PROVE  /\ m.pid \in Drivers /\ m.id \in Nat /\ m.status \in {New, Available, Busy}
           /\ m.timer \in Nat /\ m.exit \in {0, 1} /\ m.next \in Links
BY DEF Processing

\* A new timer and status leave the rest of the message as it was.
Rewrite(m, t, s) == [m EXCEPT !.timer = t, !.status = s]

LEMMA Rewritten ==
    ASSUME NEW m \in Processing, NEW t \in Nat, NEW s \in {New, Available, Busy}
    PROVE  LET r == Rewrite(m, t, s)
           IN  /\ r \in Processing /\ r.timer = t /\ r.status = s
               /\ r.pid = m.pid /\ r.id = m.id /\ r.exit = m.exit /\ r.next = m.next
BY DEF Processing, Rewrite

\* f with a new timer and status for d.
Retimed(f, d, t, s) == [f EXCEPT ![d].timer = t, ![d].status = s]

LEMMA RetimedFields ==
    ASSUME NEW f \in [Drivers -> Processing], NEW d \in Drivers, NEW t \in Nat,
           NEW s \in {New, Available, Busy}
    PROVE  LET g == Retimed(f, d, t, s)
           IN  /\ g \in [Drivers -> Processing]
               /\ \A e \in Drivers \ {d} : g[e] = f[e]
               /\ g[d].timer = t /\ g[d].status = s
               /\ g[d].pid = f[d].pid /\ g[d].id = f[d].id /\ g[d].exit = f[d].exit
               /\ g[d].next = f[d].next
<1> DEFINE g == Retimed(f, d, t, s)
<1>1. f[d] \in Processing
  OBVIOUS
<1>3. g[d] = [f[d] EXCEPT !.timer = t, !.status = s]
  BY DEF Retimed
<1>4. DOMAIN g = Drivers /\ \A e \in Drivers \ {d} : g[e] = f[e]
  BY DEF Retimed
<1>5. g = [e \in Drivers |-> g[e]]
  BY DEF Retimed
<1> HIDE DEF g
<1>6. PICK r : r = Rewrite(f[d], t, s)
  OBVIOUS
<1>7. /\ r \in Processing /\ r.timer = t /\ r.status = s /\ r.pid = f[d].pid
      /\ r.id = f[d].id /\ r.exit = f[d].exit /\ r.next = f[d].next
  BY <1>1, <1>6, Rewritten
<1>8. g[d] = r
  BY <1>3, <1>6 DEF Rewrite
<1>9. \A e \in Drivers : g[e] \in Processing
  BY <1>4, <1>7, <1>8
<1>10. g \in [Drivers -> Processing]
  BY <1>5, <1>9
<1> QED
  BY <1>4, <1>7, <1>8, <1>10 DEF g

\* msgsnd keeps the queue's types.
LEMMA Queued ==
    ASSUME TypeOK, NEW m \in Processing, Send(m)
    PROVE  /\ queue' \in Seq(Processing) /\ blocked' \in Seq(Drivers)
           /\ given' \in [Drivers -> Processing \cup {Nothing}]
<1>1. queue \in Seq(Processing) /\ blocked \in Seq(Drivers)
      /\ given \in [Drivers -> Processing \cup {Nothing}]
  BY DEF TypeOK
<1>2. CASE blocked = <<>>
  BY <1>1, <1>2, AppendProperties DEF Send
<1>3. CASE blocked # <<>>
  <2>1. Tail(blocked) \in Seq(Drivers)
    BY <1>1, <1>3, HeadTailProperties
  <2> QED
    BY <1>1, <1>3, <2>1 DEF Send
<1> QED
  BY <1>2, <1>3

\* So does msgrcv, and what d gets is a message.
LEMMA Received ==
    ASSUME TypeOK, NEW d \in Drivers, Receive(d)
    PROVE  /\ queue' \in Seq(Processing) /\ blocked' = blocked
           /\ given' \in [Drivers -> Processing \cup {Nothing}]
           /\ Message(d) \in Processing
<1>1. queue \in Seq(Processing) /\ given \in [Drivers -> Processing \cup {Nothing}]
  BY DEF TypeOK
<1>2. CASE given[d] # Nothing
  BY <1>1, <1>2 DEF Receive, Message
<1>3. CASE given[d] = Nothing
  <2>1. queue # <<>>
    BY <1>3 DEF Receive, Ready
  <2>2. Head(queue) \in Processing /\ Tail(queue) \in Seq(Processing)
    BY <1>1, <2>1, HeadTailProperties
  <2> QED
    BY <1>1, <1>3, <2>2 DEF Receive, Message
<1> QED
  BY <1>2, <1>3

LEMMA InitTyped == Init => Typed
<1> SUFFICES ASSUME Init PROVE Typed
  OBVIOUS
<1>1. \A d \in Drivers : Blank(d) \in Processing /\ Blank(d).pid = d
  BY DEF Blank, Processing, New, Links
<1>2. driver = [d \in Drivers |-> Blank(d)] /\ node = [d \in Drivers |-> Blank(d)]
  BY DEF Init
<1>3. driver \in [Drivers -> Processing] /\ node \in [Drivers -> Processing]
      /\ \A d \in Drivers : driver[d].pid = d
  BY <1>1, <1>2
<1>4. queue \in Seq(Processing) /\ blocked \in Seq(Drivers)
  BY DEF Init
<1> QED
  BY <1>3, <1>4 DEF Init, Typed, TypeOK, AtWork

\* What a driver does keeps the types.
LEMMA ProcessTyped == ASSUME Typed, NEW d \in Drivers, Process(d) PROVE Typed'
<1> USE DEF queueVars, managerVars, driverVars, historyVars
<1>0. TypeOK /\ AtWork
  BY DEF Typed
<1>1. ASSUME NEW next \in {NULL, Wild}, Hello(d, next) PROVE Typed'
  <2> DEFINE m == [Blank(d) EXCEPT !.next = next]
  <2>1. m \in Processing /\ m.pid = d
    BY DEF Blank, Processing, New, Links
  <2>2. driver' = [driver EXCEPT ![d] = m] /\ Send(driver'[d])
    BY <1>1 DEF Hello
  <2> HIDE DEF m
  <2>3. driver' \in [Drivers -> Processing] /\ driver'[d] = m
        /\ \A e \in Drivers \ {d} : driver'[e] = driver[e]
    BY <1>0, <2>1, <2>2 DEF TypeOK
  <2>4. /\ queue' \in Seq(Processing) /\ blocked' \in Seq(Drivers)
        /\ given' \in [Drivers -> Processing \cup {Nothing}]
    BY <1>0, <2>1, <2>2, <2>3, Queued
  <2>5. AtWork'
    BY <1>0, <1>1, <2>1, <2>3 DEF Hello, TypeOK, AtWork
  <2> QED
    BY <1>0, <1>1, <2>3, <2>4, <2>5 DEF Hello, TypeOK, Typed
<1>2. CASE Block(d)
  <2>1. blocked' \in Seq(Drivers)
    BY <1>0, <1>2 DEF Block, TypeOK
  <2> QED
    BY <1>0, <1>2, <2>1 DEF Block, TypeOK, Typed, AtWork
<1>3. CASE First(d) \/ Drop(d) \/ StartWork(d) \/ Return(d)
  <2>1. Receive(d)
    BY <1>3 DEF First, Drop, StartWork, Return
  <2>2. /\ queue' \in Seq(Processing) /\ blocked' = blocked
        /\ given' \in [Drivers -> Processing \cup {Nothing}] /\ Message(d) \in Processing
    BY <1>0, <2>1, Received
  <2>3. CASE First(d)
    BY <1>0, <2>2, <2>3 DEF First, TypeOK, Typed, AtWork
  <2>4. CASE Drop(d)
    BY <1>0, <2>2, <2>4 DEF Drop, TypeOK, Typed, AtWork
  <2>5. CASE StartWork(d)
    BY <1>0, <2>2, <2>5 DEF StartWork, HasWork, TypeOK, Typed, AtWork
  <2>6. CASE Return(d)
    BY <1>0, <2>2, <2>6 DEF Return, TypeOK, Typed, AtWork
  <2> QED
    BY <1>3, <2>3, <2>4, <2>5, <2>6
<1>4. CASE Work(d)
  <2>1. PICK left : left = driver[d].timer - 1
    OBVIOUS
  <2>2. /\ dpc[d] = "work" /\ dpc' = [dpc EXCEPT ![d] = "nap"] /\ worked' = worked + 1
        /\ driver' = [driver EXCEPT ![d].timer = left, ![d].status = StatusAt(d, left)]
        /\ Send(driver'[d]) /\ UNCHANGED <<managerVars, ordered, tasks>>
    BY <1>4, <2>1 DEF Work
  <2>3. driver[d] \in Processing /\ driver[d].timer # 0
    BY <1>0, <2>2 DEF TypeOK, AtWork
  <2>4. left \in Nat /\ StatusAt(d, left) \in {New, Available, Busy}
    BY <2>1, <2>3, Fields DEF StatusAt
  <2>5. driver' \in [Drivers -> Processing] /\ \A e \in Drivers \ {d} : driver'[e] = driver[e]
    <3>1. driver \in [Drivers -> Processing]
      BY <1>0 DEF TypeOK
    <3>2. driver' = Retimed(driver, d, left, StatusAt(d, left))
      BY <2>2 DEF Retimed
    <3> QED
      BY <2>4, <3>1, <3>2, RetimedFields
  <2>6. /\ queue' \in Seq(Processing) /\ blocked' \in Seq(Drivers)
        /\ given' \in [Drivers -> Processing \cup {Nothing}]
    BY <1>0, <2>2, <2>5, Queued
  <2>7. AtWork'
    BY <1>0, <2>2, <2>5 DEF TypeOK, AtWork
  <2> QED
    BY <1>0, <2>2, <2>5, <2>6, <2>7 DEF TypeOK, Typed
<1>5. CASE Nap(d)
  BY <1>0, <1>5 DEF Nap, TypeOK, Typed, AtWork
<1>6. CASE Steal(d)
  <2>1. queue' \in Seq(Processing)
    BY <1>0, <1>6, HeadTailProperties DEF Steal, TypeOK
  <2> QED
    BY <1>0, <1>6, <2>1 DEF Steal, TypeOK, Typed, AtWork
<1> QED
  BY <1>1, <1>2, <1>3, <1>4, <1>5, <1>6 DEF Process

LEMMA CreatedTyped ==
    ASSUME NEW d \in Drivers, NEW id \in Nat
    PROVE  Created(d, id) \in Processing /\ Created(d, id).pid = d /\ Created(d, id).timer = 0
BY DEF Created, Blank, Processing, New, Available, Links

\* A message of type 0 is not sent.
LEMMA QueuedTyped ==
    ASSUME TypeOK, NEW m \in Processing, NEW type, SendTyped(type, m)
    PROVE  /\ queue' \in Seq(Processing) /\ blocked' \in Seq(Drivers)
           /\ given' \in [Drivers -> Processing \cup {Nothing}]
BY Queued DEF SendTyped, queueVars, TypeOK

\* What the manager does keeps the types.
LEMMA CommandTyped == ASSUME Typed, Command PROVE Typed'
<1> USE DEF queueVars, managerVars, driverVars, historyVars
<1>0. TypeOK /\ AtWork
  BY DEF Typed
<1>1. ASSUME NEW d \in Drivers, CreateFirst(d) PROVE Typed'
  <2>1. node' \in [Drivers -> Processing]
    BY <1>0, <1>1, CreatedTyped DEF CreateFirst, TypeOK
  <2>2. dpc' = [dpc EXCEPT ![d] = "hello"] /\ dpc[d] = "none"
    BY <1>1 DEF CreateFirst, Fork
  <2>3. AtWork'
    BY <1>0, <1>1, <2>2 DEF CreateFirst, AtWork, TypeOK
  <2> QED
    BY <1>0, <1>1, <2>1, <2>2, <2>3 DEF CreateFirst, TypeOK, Typed
<1>2. ASSUME NEW d \in Drivers, CreateSecond(d) PROVE Typed'
  <2>1. drivers \in Drivers /\ node[drivers].id \in Nat
    BY <1>0, <1>2, Fields DEF CreateSecond, TypeOK
  <2>2. node' \in [Drivers -> Processing]
    <3> DEFINE f == [node EXCEPT ![d] = Created(d, node[drivers].id)]
    <3>1. f \in [Drivers -> Processing]
      BY <1>0, <2>1, CreatedTyped DEF TypeOK
    <3>2. node' = [f EXCEPT ![drivers].next = d]
      BY <1>2 DEF CreateSecond
    <3> HIDE DEF f
    <3> QED
      BY <2>1, <3>1, <3>2 DEF Processing, Links
  <2>3. dpc' = [dpc EXCEPT ![d] = "hello"] /\ dpc[d] = "none"
    BY <1>2 DEF CreateSecond, Fork
  <2>4. AtWork'
    BY <1>0, <1>2, <2>3 DEF CreateSecond, AtWork, TypeOK
  <2> QED
    BY <1>0, <1>2, <2>2, <2>3, <2>4 DEF CreateSecond, TypeOK, Typed
<1>3. CASE CreateFails
  BY <1>0, <1>3 DEF CreateFails, TypeOK, Typed, AtWork
<1>4. ASSUME NEW p \in Drivers, SendTaskFails(p) PROVE Typed'
  BY <1>0, <1>4 DEF SendTaskFails, TypeOK, Typed, AtWork
<1>5. ASSUME NEW p \in Drivers, NEW t \in Times, SendTask(p, t) PROVE Typed'
  <2>1. t \in Nat /\ node' = Retimed(node, p, t, Busy) /\ SendTyped(node[p].id, node'[p])
    BY <1>5, TimesAssumption DEF SendTask, Retimed
  <2>2. node' \in [Drivers -> Processing]
    BY <1>0, <2>1, RetimedFields DEF TypeOK
  <2>3. /\ queue' \in Seq(Processing) /\ blocked' \in Seq(Drivers)
        /\ given' \in [Drivers -> Processing \cup {Nothing}]
    BY <1>0, <2>1, <2>2, QueuedTyped
  <2>4. /\ tasks' = tasks + 1 /\ ordered' = ordered + t /\ mpc' = "poll"
        /\ UNCHANGED <<drivers, task_msg, driverVars, worked>>
    BY <1>5 DEF SendTask
  <2> QED
    BY <1>0, <2>1, <2>2, <2>3, <2>4 DEF TypeOK, Typed, AtWork
<1>6. CASE Exit
  <2>1. drivers \in Drivers
    BY <1>0, <1>6 DEF Exit, TypeOK
  <2>2. node' \in [Drivers -> Processing]
    <3>1. node \in [Drivers -> Processing] /\ node' = [node EXCEPT ![drivers].exit = 1]
      BY <1>0, <1>6 DEF Exit, TypeOK
    <3> QED
      BY <2>1, <3>1 DEF Processing
  <2>3. /\ queue' \in Seq(Processing) /\ blocked' \in Seq(Drivers)
        /\ given' \in [Drivers -> Processing \cup {Nothing}]
    <3>1. SendTyped(node[drivers].id, node'[drivers]) /\ node'[drivers] \in Processing
      BY <1>6, <2>1, <2>2 DEF Exit
    <3> QED
      BY <1>0, <3>1, QueuedTyped
  <2> QED
    BY <1>0, <1>6, <2>2, <2>3 DEF Exit, TypeOK, Typed, AtWork
<1>7. CASE ExitAtOnce
  BY <1>0, <1>7 DEF ExitAtOnce, TypeOK, Typed, AtWork
<1> QED
  BY <1>1, <1>2, <1>3, <1>4, <1>5, <1>6, <1>7 DEF Command

\* What Poll takes from the queue, and what it makes of it.
LEMMA Polled ==
    ASSUME TypeOK, Poll
    PROVE  /\ queue' \in Seq(Processing) /\ task_msg' \in Processing \cup {Nothing}
           /\ node' \in [Drivers -> Processing]
<1>1. queue \in Seq(Processing) /\ task_msg \in Processing \cup {Nothing}
      /\ node \in [Drivers -> Processing]
  BY DEF TypeOK
<1>2. queue' \in Seq(Processing) /\ task_msg' \in Processing \cup {Nothing}
  <2>1. CASE queue = <<>>
    BY <1>1, <2>1 DEF Poll
  <2>2. CASE queue # <<>>
    BY <1>1, <2>2, HeadTailProperties DEF Poll
  <2> QED
    BY <2>1, <2>2
<1>3. CASE task_msg' = Nothing
  BY <1>1, <1>2, <1>3 DEF Poll
<1>4. CASE task_msg' # Nothing
  <2>1. task_msg' \in Processing
    BY <1>2, <1>4
  <2>2. \/ node' = [node EXCEPT ![task_msg'.pid] = task_msg']
        \/ node' = node
    BY <1>4 DEF Poll
  <2>3. task_msg'.pid \in Drivers
    BY <2>1, Fields
  <2>4. node' \in [Drivers -> Processing]
    BY <1>1, <2>1, <2>2, <2>3
  <2> QED
    BY <1>2, <2>4
<1> QED
  BY <1>3, <1>4

LEMMA NextTyped == Typed /\ [Next]_vars => Typed'
<1> SUFFICES ASSUME Typed, [Next]_vars PROVE Typed'
  OBVIOUS
<1>1. CASE Poll
  <2>1. /\ queue' \in Seq(Processing) /\ task_msg' \in Processing \cup {Nothing}
        /\ node' \in [Drivers -> Processing]
    BY <1>1, Polled DEF Typed
  <2>2. /\ mpc' \in {"loop", "crash"}
        /\ UNCHANGED <<blocked, given, drivers, driverVars, historyVars>>
    BY <1>1 DEF Poll
  <2> QED
    BY <2>1, <2>2 DEF Typed, TypeOK, AtWork, driverVars, historyVars
<1>2. CASE UNCHANGED vars
  BY <1>2 DEF vars, queueVars, managerVars, driverVars, historyVars, Typed, TypeOK, AtWork
<1> QED
  BY <1>1, <1>2, CommandTyped, ProcessTyped DEF Next

\* The programs keep their types whoever takes whose message, and no timer runs
\* below zero (main.c:40-88, main_func.c:40-84).
THEOREM TypeCorrect == Spec => []TypeOK
<1>1. Typed => TypeOK
  BY DEF Typed
<1> QED
  BY <1>1, InitTyped, NextTyped, PTL DEF Spec

-----------------------------------------------------------------------------
(* Nobody works longer than was ordered.                                    *)

\* Who has another's name keeps it, and who is stuck stays so.
LEMMA StillOwn ==
    ASSUME Typed, [Next]_vars, OwnIdentities', Managing'
    PROVE  OwnIdentities /\ Managing
<1>1. Managing
  BY DEF Managing, Next, vars, managerVars, driverVars, queueVars, historyVars, Command, CreateFirst,
         CreateSecond, CreateFails, SendTaskFails, SendTask, Exit, ExitAtOnce, Poll, Process,
         Hello, Block, First, Drop, StartWork, Return, Work, Nap, Steal
<1>2. ASSUME NEW d \in Drivers, Process(d) PROVE OwnIdentities
  <2>0. /\ driver \in [Drivers -> Processing] /\ \A e \in Drivers : driver'[e].pid = e
        /\ dpc[d] \in {"none", "hello", "first"} => driver[d].pid = d
    BY DEF Typed, TypeOK, AtWork, OwnIdentities
  <2>1. \A e \in Drivers \ {d} : driver'[e] = driver[e]
    BY <1>2, <2>0 DEF Process, Hello, Block, First, Drop, StartWork, Return, Work, Nap, Steal, driverVars
  <2>2. CASE dpc[d] \in {"none", "hello", "first"}
    BY <2>0, <2>1, <2>2 DEF OwnIdentities
  <2>3. CASE dpc[d] \notin {"none", "hello", "first"}
    <3>1. driver'[d].pid = driver[d].pid
      <4>1. CASE StartWork(d)
        BY <2>0, <4>1 DEF StartWork, IsFor
      <4>2. CASE Work(d)
        <5>1. driver' = Retimed(driver, d, driver[d].timer - 1, StatusAt(d, driver[d].timer - 1))
          BY <4>2 DEF Work, Retimed
        <5>2. /\ driver[d].timer - 1 \in Nat
              /\ StatusAt(d, driver[d].timer - 1) \in {New, Available, Busy}
          <6>1. driver[d] \in Processing /\ driver[d].timer # 0
            BY <2>0, <4>2 DEF Work, Typed, AtWork
          <6> QED
            BY <6>1, Fields DEF StatusAt
        <5> QED
          BY <2>0, <5>1, <5>2, RetimedFields
      <4> QED
        BY <1>2, <2>3, <4>1, <4>2 DEF Process, Hello, Block, First, Drop, Return, Nap, Steal, driverVars
    <3> QED
      BY <2>0, <2>1, <3>1 DEF OwnIdentities
  <2> QED
    BY <2>2, <2>3
<1>3. CASE UNCHANGED driver
  BY <1>1, <1>3 DEF OwnIdentities
<1>4. CASE Command \/ Poll \/ UNCHANGED vars
  BY <1>3, <1>4 DEF vars, driverVars, Command, CreateFirst, CreateSecond, CreateFails,
         SendTaskFails, SendTask, Exit, ExitAtOnce, Poll
<1> QED
  BY <1>1, <1>2, <1>4 DEF Next

LEMMA SentByNobody ==
    ASSUME TypeOK, queue = <<>>, given = [d \in Drivers |-> Nothing]
    PROVE  \A d \in Drivers, k \in Nat : ~Sent(d, k)
BY DEF Sent, TypeOK

\* A message more asks for its own seconds only.
LEMMA SentMore ==
    ASSUME TypeOK, NEW m \in Processing, Send(m), NEW d \in Drivers, NEW k \in Nat, Sent(d, k)'
    PROVE  Sent(d, k) \/ (m.pid = d /\ k <= m.timer)
<1>1. queue \in Seq(Processing) /\ blocked \in Seq(Drivers)
      /\ given \in [Drivers -> Processing \cup {Nothing}]
  BY DEF TypeOK
<1>2. CASE blocked = <<>>
  <2>1. queue' = Append(queue, m) /\ given' = given
    BY <1>2 DEF Send
  <2>2. /\ Len(queue') = Len(queue) + 1 /\ queue'[Len(queue) + 1] = m /\ Len(queue) \in Nat
        /\ \A i \in 1 .. Len(queue) : queue'[i] = queue[i]
    BY <1>1, <2>1, AppendProperties
  <2>3. \A i \in 1 .. Len(queue') : i \in 1 .. Len(queue) \/ i = Len(queue) + 1
    BY <2>2
  <2> QED
    BY <2>1, <2>2, <2>3 DEF Sent
<1>3. CASE blocked # <<>>
  <2>1. given' = [given EXCEPT ![Head(blocked)] = m] /\ queue' = queue
    BY <1>3 DEF Send
  <2>2. \A e \in Drivers : given'[e] = m \/ given'[e] = given[e]
    BY <1>1, <2>1
  <2> QED
    BY <2>1, <2>2 DEF Sent
<1> QED
  BY <1>2, <1>3

\* Taking one away asks for none.
LEMMA SentFewer ==
    ASSUME TypeOK, NEW d \in Drivers, NEW k \in Nat, Sent(d, k)',
           \/ queue # <<>> /\ queue' = Tail(queue) /\ UNCHANGED given
           \/ UNCHANGED queue /\ \A e \in Drivers : given'[e] = Nothing \/ given'[e] = given[e]
    PROVE  Sent(d, k)
<1>1. queue \in Seq(Processing)
  BY DEF TypeOK
<1>2. CASE queue # <<>> /\ queue' = Tail(queue) /\ UNCHANGED given
  <2>1. /\ Len(queue') = Len(queue) - 1 /\ Len(queue) \in Nat
        /\ \A i \in 1 .. Len(queue') : queue'[i] = queue[i + 1]
    BY <1>1, <1>2, HeadTailProperties
  <2>2. \A i \in 1 .. Len(queue') : i + 1 \in 1 .. Len(queue)
    BY <2>1
  <2> QED
    BY <1>2, <2>1, <2>2 DEF Sent
<1>3. CASE UNCHANGED queue /\ \A e \in Drivers : given'[e] = Nothing \/ given'[e] = given[e]
  BY <1>3 DEF Sent
<1> QED
  BY <1>2, <1>3

LEMMA SentReceived ==
    ASSUME TypeOK, NEW d \in Drivers, Receive(d)
    PROVE  /\ \A e \in Drivers, k \in Nat : Sent(e, k)' => Sent(e, k)
           /\ \A k \in Nat : k <= Message(d).timer => Sent(Message(d).pid, k)
<1>1. queue \in Seq(Processing) /\ given \in [Drivers -> Processing \cup {Nothing}]
  BY DEF TypeOK
<1>2. \/ queue # <<>> /\ queue' = Tail(queue) /\ UNCHANGED given
      \/ UNCHANGED queue /\ \A e \in Drivers : given'[e] = Nothing \/ given'[e] = given[e]
  BY <1>1 DEF Receive, Ready
<1>3. ASSUME NEW e \in Drivers, NEW k \in Nat, Sent(e, k)' PROVE Sent(e, k)
  BY <1>2, <1>3, SentFewer
<1>4. ASSUME NEW k \in Nat, k <= Message(d).timer PROVE Sent(Message(d).pid, k)
  <2>1. CASE given[d] # Nothing
    BY <1>4, <2>1 DEF Message, Sent
  <2>2. CASE given[d] = Nothing
    <3>1. queue # <<>> /\ Head(queue) = queue[1] /\ 1 \in 1 .. Len(queue)
      BY <1>1, <2>2 DEF Receive, Ready
    <3> QED
      BY <1>4, <2>2, <3>1 DEF Message, Sent
  <2> QED
    BY <2>1, <2>2
<1> QED
  BY <1>3, <1>4

LEMMA InitPaid == Init => Paid
<1> SUFFICES ASSUME Init PROVE IsFiniteSet(Claims) /\ worked + Cardinality(Claims) <= ordered
  BY DEF Paid
<1>1. \A d \in Drivers, k \in Nat : ~Claimed(d, k)
  BY DEF Init, Claimed, Sent
<1>2. Claims = {}
  BY <1>1 DEF Claims
<1> QED
  BY <1>2, FS_EmptySet DEF Init

\* Nobody claims what was not claimed before.
Kept == \A d \in Drivers, k \in Nat : k # 0 /\ Claimed(d, k)' => Claimed(d, k)

LEMMA KeptPaid ==
    ASSUME TypeOK, Paid, Prompt, OwnIdentities, Managing, UNCHANGED <<worked, ordered>>, Kept
    PROVE  Paid'
<1>1. IsFiniteSet(Claims) /\ worked + Cardinality(Claims) <= ordered
  BY DEF Paid
<1>2. Claims' \in SUBSET Claims
  <2> SUFFICES ASSUME NEW c \in Claims' PROVE c \in Claims
    OBVIOUS
  <2>1. c \in Drivers \X Nat /\ c[1] \in Drivers /\ c[2] \in Nat /\ c[2] # 0
    BY DEF Claims
  <2>2. Claimed(c[1], c[2])'
    BY DEF Claims
  <2> QED
    BY <2>1, <2>2 DEF Kept, Claims
<1>3. IsFiniteSet(Claims') /\ Cardinality(Claims') <= Cardinality(Claims)
  BY <1>1, <1>2, FS_Subset
<1>4. worked' + Cardinality(Claims') <= ordered'
  <2>1. PICK a, b : a = Cardinality(Claims) /\ b = Cardinality(Claims')
    OBVIOUS
  <2>2. a \in Nat /\ b \in Nat
    BY <1>1, <1>3, <2>1, FS_CardinalityType
  <2>3. worked \in Nat /\ ordered \in Nat
    BY DEF TypeOK
  <2> QED
    BY <1>1, <1>3, <2>1, <2>2, <2>3
<1> QED
  BY <1>3, <1>4 DEF Paid

\* A driver claims no more by what it does, except that a second worked is no
\* longer claimed.
LEMMA ProcessPaid ==
    ASSUME Typed, Paid, Prompt, OwnIdentities, Managing, OwnIdentities',
           NEW d \in Drivers, Process(d)
    PROVE  Paid'
<1>0. /\ TypeOK /\ AtWork
      /\ driver \in [Drivers -> Processing]
      /\ dpc \in [Drivers -> {"none", "hello", "first", "recv", "work", "nap", "returned"}]
  BY DEF Typed, TypeOK
<1>1. ASSUME NEW next \in {NULL, Wild}, Hello(d, next) PROVE Paid'
  <2> DEFINE m == [Blank(d) EXCEPT !.next = next]
  <2>1. m \in Processing /\ m.pid = d /\ m.timer = 0
    BY DEF Blank, Processing, New, Links
  <2>2. /\ driver' = [driver EXCEPT ![d] = m] /\ Send(driver'[d])
        /\ dpc[d] = "hello" /\ dpc' = [dpc EXCEPT ![d] = "first"]
        /\ UNCHANGED <<worked, ordered>>
    BY <1>1 DEF Hello, historyVars
  <2> HIDE DEF m
  <2>3. Send(m)
    BY <1>0, <2>2
  <2>4. \A e \in Drivers, k \in Nat : k # 0 /\ Sent(e, k)' => Sent(e, k)
    BY <1>0, <2>1, <2>3, SentMore
  <2>5. \A e \in Drivers : dpc'[e] \in {"work", "nap"} => dpc[e] = dpc'[e] /\ driver'[e] = driver[e]
    BY <1>0, <2>2
  <2>6. \A e \in Drivers : dpc'[e] \notin {"work", "nap"} => dpc[e] \notin {"work", "nap"}
    BY <1>0, <2>2
  <2>7. Kept
    BY <2>4, <2>5, <2>6 DEF Kept, Claimed
  <2> QED
    BY <1>0, <2>2, <2>7, KeptPaid
<1>2. CASE Block(d)
  BY <1>0, <1>2, KeptPaid DEF Block, Kept, Claimed, Sent, driverVars, historyVars
<1>3. CASE First(d) \/ Drop(d) \/ StartWork(d) \/ Return(d)
  <2>1. Receive(d) /\ UNCHANGED <<worked, ordered>>
    BY <1>3 DEF First, Drop, StartWork, Return, historyVars
  <2>2. /\ \A e \in Drivers, k \in Nat : Sent(e, k)' => Sent(e, k)
        /\ \A k \in Nat : k <= Message(d).timer => Sent(Message(d).pid, k)
    BY <1>0, <2>1, SentReceived
  <2>3. /\ \A e \in Drivers \ {d} : dpc'[e] = dpc[e] /\ driver'[e] = driver[e]
        /\ dpc[d] \in {"first", "recv"} /\ dpc'[d] # "nap"
    BY <1>0, <1>3 DEF First, Drop, StartWork, Return, driverVars
  <2>4. dpc'[d] = "work" => driver'[d] = Message(d) /\ Message(d).pid = d
    <3>1. CASE StartWork(d)
      BY <1>0, <3>1 DEF StartWork, IsFor, OwnIdentities
    <3> QED
      BY <1>0, <1>3, <3>1 DEF First, Drop, Return, driverVars
  <2>5. ASSUME NEW e \in Drivers, NEW k \in Nat, k # 0, Claimed(e, k)' PROVE Claimed(e, k)
    <3>1. CASE e # d
      BY <2>2, <2>3, <2>5, <3>1 DEF Claimed
    <3>2. CASE e = d /\ dpc'[d] = "work"
      BY <2>2, <2>3, <2>4, <2>5, <3>2 DEF Claimed
    <3>3. CASE e = d /\ dpc'[d] # "work"
      BY <2>2, <2>3, <2>5, <3>3 DEF Claimed
    <3> QED
      BY <3>1, <3>2, <3>3
  <2>6. Kept
    BY <2>5 DEF Kept
  <2> QED
    BY <1>0, <2>1, <2>6, KeptPaid
<1>4. CASE Work(d)
  <2>1. PICK left : left = driver[d].timer - 1
    OBVIOUS
  <2>2. /\ dpc[d] = "work" /\ dpc' = [dpc EXCEPT ![d] = "nap"] /\ worked' = worked + 1
        /\ driver' = Retimed(driver, d, left, StatusAt(d, left))
        /\ Send(driver'[d]) /\ ordered' = ordered /\ CaughtUp
    BY <1>4, <2>1 DEF Work, Retimed
  <2>3. driver[d] \in Processing /\ driver[d].timer \in Nat /\ driver[d].timer # 0
    BY <1>0, <2>2, Fields DEF AtWork
  <2>4. left \in Nat /\ StatusAt(d, left) \in {New, Available, Busy}
    BY <2>1, <2>3, Fields DEF StatusAt
  <2>5. /\ driver' \in [Drivers -> Processing] /\ \A e \in Drivers \ {d} : driver'[e] = driver[e]
        /\ driver'[d].timer = left /\ driver'[d].pid = d
    BY <1>0, <2>2, <2>4, RetimedFields DEF OwnIdentities
  <2>6. \A e \in Drivers, k \in Nat : ~Sent(e, k)
    BY <1>0, <2>2, SentByNobody DEF CaughtUp
  <2>7. \A e \in Drivers, k \in Nat : Sent(e, k)' => e = d
    BY <1>0, <2>2, <2>5, <2>6, SentMore
  <2> DEFINE c == <<d, driver[d].timer>>
  <2>8. c \in Claims
    BY <2>2, <2>3 DEF Claims, Claimed
  <2>9. Claims' \subseteq Claims \ {c}
    <3> SUFFICES ASSUME NEW b \in Claims' PROVE b \in Claims /\ b # c
      OBVIOUS
    <3>1. b \in Drivers \X Nat /\ b[1] \in Drivers /\ b[2] \in Nat /\ b[2] # 0
          /\ Claimed(b[1], b[2])'
      BY DEF Claims
    <3>2. CASE b[1] = d
      <4>1. b[2] <= left
        BY <1>0, <2>2, <2>5, <3>1, <3>2 DEF Claimed
      <4>2. b[2] <= driver[d].timer /\ b[2] # driver[d].timer
        BY <2>1, <2>3, <3>1, <4>1
      <4> QED
        BY <2>2, <3>1, <3>2, <4>2 DEF Claims, Claimed
    <3>3. CASE b[1] # d
      <4>1. dpc'[b[1]] = dpc[b[1]] /\ driver'[b[1]] = driver[b[1]] /\ ~Sent(b[1], b[2])'
        BY <1>0, <2>2, <2>5, <2>7, <3>1, <3>3
      <4> QED
        BY <3>1, <3>3, <4>1 DEF Claims, Claimed
    <3> QED
      BY <3>2, <3>3
  <2> HIDE DEF c
  <2>10. IsFiniteSet(Claims) /\ worked + Cardinality(Claims) <= ordered
    BY DEF Paid
  <2>11. IsFiniteSet(Claims \ {c}) /\ Cardinality(Claims \ {c}) = Cardinality(Claims) - 1
    BY <2>8, <2>10, FS_RemoveElement
  <2>12. IsFiniteSet(Claims') /\ Cardinality(Claims') <= Cardinality(Claims \ {c})
    BY <2>9, <2>11, FS_Subset
  <2>13. PICK x, y : x = Cardinality(Claims) /\ y = Cardinality(Claims')
    OBVIOUS
  <2>14. x \in Nat /\ y \in Nat
    BY <2>10, <2>12, <2>13, FS_CardinalityType
  <2>15. worked \in Nat /\ ordered \in Nat
    BY <1>0 DEF TypeOK
  <2>16. worked' + Cardinality(Claims') <= ordered'
    BY <2>2, <2>10, <2>11, <2>12, <2>13, <2>14, <2>15
  <2> QED
    BY <2>12, <2>16 DEF Paid
<1>5. CASE Nap(d)
  <2>1. /\ queue = <<>> /\ given = [e \in Drivers |-> Nothing] /\ dpc[d] = "nap"
        /\ dpc' = [dpc EXCEPT ![d] = IF driver[d].timer # 0 THEN "work" ELSE "recv"]
        /\ UNCHANGED <<queue, given, driver, worked, ordered>>
    BY <1>5 DEF Nap, CaughtUp, queueVars, historyVars
  <2>2. \A e \in Drivers, k \in Nat : ~Sent(e, k)
    BY <1>0, <2>1, SentByNobody
  <2>3. \A e \in Drivers, k \in Nat : Sent(e, k)' = Sent(e, k)
    BY <2>1 DEF Sent
  <2>4. Kept
    BY <1>0, <2>1, <2>2, <2>3 DEF Kept, Claimed
  <2> QED
    BY <1>0, <2>1, <2>4, KeptPaid
<1>6. CASE Steal(d)
  <2>1. queue # <<>> /\ queue' = Tail(queue) /\ UNCHANGED <<given, dpc, driver, worked, ordered>>
    BY <1>6 DEF Steal, driverVars, historyVars
  <2>2. \A e \in Drivers, k \in Nat : Sent(e, k)' => Sent(e, k)
    BY <1>0, <2>1, SentFewer
  <2>3. Kept
    BY <2>1, <2>2 DEF Kept, Claimed
  <2> QED
    BY <1>0, <2>1, <2>3, KeptPaid
<1> QED
  BY <1>1, <1>2, <1>3, <1>4, <1>5, <1>6 DEF Process

\* The manager orders what it sends, and takes messages away.
LEMMA ManagerPaid ==
    ASSUME Typed, Paid, Prompt, OwnIdentities, Managing, Managing', Command \/ Poll
    PROVE  Paid'
<1>0. /\ TypeOK /\ driver \in [Drivers -> Processing]
      /\ dpc \in [Drivers -> {"none", "hello", "first", "recv", "work", "nap", "returned"}]
  BY DEF Typed, TypeOK
<1>1. ASSUME NEW d \in Drivers, CreateFirst(d) \/ CreateSecond(d) PROVE Paid'
  <2>1. /\ dpc[d] = "none" /\ dpc' = [dpc EXCEPT ![d] = "hello"]
        /\ UNCHANGED <<queue, given, driver, worked, ordered>>
    BY <1>1 DEF CreateFirst, CreateSecond, Fork, queueVars, historyVars
  <2>2. Kept
    BY <1>0, <2>1 DEF Kept, Claimed, Sent
  <2> QED
    BY <1>0, <2>1, <2>2, KeptPaid
<1>2. ASSUME NEW p \in Drivers, NEW t \in Times, SendTask(p, t) PROVE Paid'
  <2>1. /\ t \in Nat /\ node' = Retimed(node, p, t, Busy) /\ SendTyped(node[p].id, node'[p])
        /\ ordered' = ordered + t /\ UNCHANGED <<dpc, driver, worked>>
    BY <1>2, TimesAssumption DEF SendTask, Retimed, driverVars
  <2>2. PICK m \in Processing : m = node'[p] /\ m.timer = t
    BY <1>0, <2>1, RetimedFields DEF TypeOK
  <2>3. \A e \in Drivers, k \in Nat : Sent(e, k)' => Sent(e, k) \/ (e = m.pid /\ k <= t)
    <3>1. CASE Send(m)
      BY <1>0, <2>2, <3>1, SentMore
    <3>2. CASE UNCHANGED queueVars
      BY <3>2 DEF Sent, queueVars
    <3> QED
      BY <2>1, <2>2, <3>1, <3>2 DEF SendTyped
  <2> DEFINE N == {m.pid} \X (1 .. t)
  <2>4. Claims' \subseteq Claims \cup N
    <3> SUFFICES ASSUME NEW b \in Claims', b \notin N PROVE b \in Claims
      OBVIOUS
    <3>1. b \in Drivers \X Nat /\ b[1] \in Drivers /\ b[2] \in Nat /\ b[2] # 0
          /\ Claimed(b[1], b[2])'
      BY DEF Claims
    <3>2. ~(b[1] = m.pid /\ b[2] <= t)
      BY <2>1, <3>1
    <3>3. Sent(b[1], b[2])' => Sent(b[1], b[2])
      BY <2>3, <3>1, <3>2
    <3> QED
      BY <2>1, <3>1, <3>3 DEF Claims, Claimed
  <2>5. IsFiniteSet(N) /\ Cardinality(N) = t
    <3>1. IsFiniteSet({m.pid}) /\ Cardinality({m.pid}) = 1
      BY FS_Singleton
    <3>2. IsFiniteSet(1 .. t) /\ Cardinality(1 .. t) = t
      BY <2>1, FS_Interval
    <3>3. IsFiniteSet(N) /\ Cardinality(N) = Cardinality({m.pid}) * Cardinality(1 .. t)
      <4>1. \A S, T : IsFiniteSet(S) /\ IsFiniteSet(T) =>
                IsFiniteSet(S \X T) /\ Cardinality(S \X T) = Cardinality(S) * Cardinality(T)
        BY FS_Product
      <4> QED
        BY Zenon, <3>1, <3>2, <4>1
    <3> QED
      BY <2>1, <3>1, <3>2, <3>3
  <2> HIDE DEF N
  <2>6. IsFiniteSet(Claims) /\ worked + Cardinality(Claims) <= ordered
    BY DEF Paid
  <2>7. /\ IsFiniteSet(Claims \cup N)
        /\ Cardinality(Claims \cup N) = Cardinality(Claims) + t - Cardinality(Claims \cap N)
    BY <2>5, <2>6, FS_Union
  <2>8. Cardinality(Claims) \in Nat /\ Cardinality(Claims \cap N) \in Nat
    BY <2>6, FS_Subset, FS_CardinalityType
  <2>9. IsFiniteSet(Claims') /\ Cardinality(Claims') <= Cardinality(Claims \cup N)
    BY <2>4, <2>7, FS_Subset
  <2>10. PICK x, y, z : x = Cardinality(Claims) /\ y = Cardinality(Claims') /\ z = Cardinality(Claims \cap N)
    OBVIOUS
  <2>11. x \in Nat /\ y \in Nat /\ z \in Nat /\ worked \in Nat /\ ordered \in Nat
    BY <1>0, <2>8, <2>9, <2>10, FS_CardinalityType DEF TypeOK
  <2>12. y <= x + t - z /\ worked + x <= ordered
    BY <2>6, <2>7, <2>9, <2>10
  <2>13. worked' + Cardinality(Claims') <= ordered'
    BY <2>1, <2>10, <2>11, <2>12
  <2> QED
    BY <2>9, <2>13 DEF Paid
<1>3. CASE Poll
  <2>1. /\ (queue # <<>> /\ queue' = Tail(queue)) \/ UNCHANGED queue
        /\ UNCHANGED <<given, dpc, driver, worked, ordered>>
    BY <1>3 DEF Poll, driverVars, historyVars
  <2>2. \A e \in Drivers, k \in Nat : Sent(e, k)' => Sent(e, k)
    BY <1>0, <2>1, SentFewer
  <2>3. Kept
    BY <2>1, <2>2 DEF Kept, Claimed
  <2> QED
    BY <1>0, <2>1, <2>3, KeptPaid
<1> QED
  BY <1>1, <1>2, <1>3 DEF Command, CreateFails, SendTaskFails, Exit, ExitAtOnce, Managing

\* As long as every driver has its own identity and the manager manages, and it polls
\* faster than the drivers sleep, nobody works longer than was ordered: no driver
\* takes its own report, which looks like a task, for one (main_func.c:58-69).
THEOREM NobodyOverworked == Prompt => (Spec => []NoOverwork)
<1>1. Typed /\ Prompt /\ Paid /\ [Next]_vars => Paid'
  <2> SUFFICES ASSUME Typed, Prompt, Paid, [Next]_vars, OwnIdentities', Managing' PROVE Paid'
    BY DEF Paid
  <2>1. OwnIdentities /\ Managing
    BY StillOwn
  <2>2. CASE UNCHANGED vars
    <3>1. Kept /\ UNCHANGED <<worked, ordered>>
      BY <2>2 DEF vars, queueVars, driverVars, historyVars, Kept, Claimed, Sent
    <3> QED
      BY <2>1, <3>1, KeptPaid DEF Typed
  <2> QED
    BY <2>1, <2>2, ProcessPaid, ManagerPaid DEF Next
<1>2. Typed /\ Prompt /\ Paid => NoOverwork
  <2> SUFFICES ASSUME Typed, Prompt, Paid, OwnIdentities, Managing PROVE worked <= ordered
    BY DEF NoOverwork
  <2>1. IsFiniteSet(Claims) /\ worked + Cardinality(Claims) <= ordered
    BY DEF Paid
  <2>2. Cardinality(Claims) \in Nat /\ worked \in Nat /\ ordered \in Nat
    BY <2>1, FS_CardinalityType DEF Typed, TypeOK
  <2> QED
    BY <2>1, <2>2
<1>3. Prompt => (Spec => []NoOverwork)
  <2> SUFFICES ASSUME Prompt PROVE Spec => []NoOverwork
    OBVIOUS
  <2>1. Typed /\ Paid /\ [Next]_vars => (Typed /\ Paid)'
    BY <1>1, NextTyped
  <2>2. Typed /\ Paid => NoOverwork
    BY <1>2
  <2> QED
    BY <2>1, <2>2, InitTyped, InitPaid, PTL DEF Spec
<1> QED
  BY <1>3

-----------------------------------------------------------------------------
(* A driver that is the only one is shown busy.                             *)

\* Where the messages after a send come from.
LEMMA SendSources ==
    ASSUME TypeOK, NEW m \in Processing, Send(m)
    PROVE  /\ \A i \in 1 .. Len(queue') :
                  queue'[i] = m \/ \E j \in 1 .. Len(queue) : queue'[i] = queue[j]
           /\ \A e \in Drivers : given'[e] = m \/ given'[e] = given[e]
<1>1. queue \in Seq(Processing) /\ given \in [Drivers -> Processing \cup {Nothing}]
  BY DEF TypeOK
<1>2. CASE blocked = <<>>
  <2>1. queue' = Append(queue, m) /\ given' = given
    BY <1>2 DEF Send
  <2>2. /\ Len(queue') = Len(queue) + 1 /\ queue'[Len(queue) + 1] = m /\ Len(queue) \in Nat
        /\ \A i \in 1 .. Len(queue) : queue'[i] = queue[i]
    BY <1>1, <2>1, AppendProperties
  <2>3. \A i \in 1 .. Len(queue') : i \in 1 .. Len(queue) \/ i = Len(queue) + 1
    BY <2>2
  <2> QED
    BY <2>1, <2>2, <2>3
<1>3. CASE blocked # <<>>
  BY <1>1, <1>3 DEF Send
<1> QED
  BY <1>2, <1>3

\* And after a receive, which takes one of them.
LEMMA TailSources ==
    ASSUME NEW s \in Seq(Processing), s # <<>>
    PROVE  /\ \A i \in 1 .. Len(Tail(s)) : \E j \in 1 .. Len(s) : Tail(s)[i] = s[j]
           /\ \E j \in 1 .. Len(s) : Head(s) = s[j]
           /\ Tail(s) # <<>> => Tail(s)[Len(Tail(s))] = s[Len(s)]
           /\ Tail(s) = <<>> => Head(s) = s[Len(s)]
<1>1. /\ Len(Tail(s)) = Len(s) - 1 /\ Len(s) \in Nat \ {0} /\ Tail(s) \in Seq(Processing)
      /\ \A i \in 1 .. Len(Tail(s)) : Tail(s)[i] = s[i + 1]
  BY HeadTailProperties, LenProperties
<1>2. \A i \in 1 .. Len(Tail(s)) : i + 1 \in 1 .. Len(s)
  BY <1>1
<1>3. Head(s) = s[1] /\ 1 \in 1 .. Len(s)
  BY <1>1
<1>4. Tail(s) = <<>> => Len(s) = 1
  <2>1. Tail(s) \in Seq(Processing)
    BY <1>1
  <2>2. Tail(s) = <<>> => Len(Tail(s)) = 0
    BY <2>1, EmptySeq, LenProperties
  <2> QED
    BY <1>1, <2>2
<1>5. Tail(s) # <<>> => Len(Tail(s)) \in 1 .. Len(Tail(s)) /\ Len(Tail(s)) + 1 = Len(s)
  <2>1. Tail(s) # <<>> => Len(Tail(s)) # 0
    BY <1>1, EmptySeq
  <2> QED
    BY <1>1, <2>1
<1> QED
  BY <1>1, <1>2, <1>3, <1>4, <1>5

LEMMA ReceiveSources ==
    ASSUME TypeOK, NEW d \in Drivers, Receive(d)
    PROVE  /\ \A i \in 1 .. Len(queue') : \E j \in 1 .. Len(queue) : queue'[i] = queue[j]
           /\ \A e \in Drivers : given'[e] = Nothing \/ given'[e] = given[e]
           /\ \/ given[d] # Nothing /\ Message(d) = given[d]
              \/ \E j \in 1 .. Len(queue) : Message(d) = queue[j]
<1>1. queue \in Seq(Processing) /\ given \in [Drivers -> Processing \cup {Nothing}]
  BY DEF TypeOK
<1>2. CASE given[d] # Nothing
  BY <1>1, <1>2 DEF Receive, Message
<1>3. CASE given[d] = Nothing
  <2>1. queue # <<>> /\ queue' = Tail(queue) /\ given' = given /\ Message(d) = Head(queue)
    BY <1>3 DEF Receive, Ready, Message
  <2> QED
    BY <1>1, <2>1, TailSources
<1> QED
  BY <1>2, <1>3

Trusted == Managing => Honest

LEMMA InitTrusted == Init => Trusted
<1> SUFFICES ASSUME Init PROVE Honest
  BY DEF Trusted
<1>1. \A d \in Drivers : driver[d] = Blank(d) /\ Says(Blank(d))
  BY DEF Init, Blank, Says
<1> QED
  BY <1>1 DEF Init, Honest

\* Every message that orders work says so, whoever sent it.
LEMMA NextTrusted == Typed /\ Trusted /\ [Next]_vars => Trusted'
<1> SUFFICES ASSUME Typed, Trusted, [Next]_vars, Managing' PROVE Honest'
  BY DEF Trusted
<1>0. /\ TypeOK /\ AtWork /\ queue \in Seq(Processing)
      /\ given \in [Drivers -> Processing \cup {Nothing}]
      /\ driver \in [Drivers -> Processing] /\ task_msg \in Processing \cup {Nothing}
  BY DEF Typed, TypeOK
<1>1. Managing
  BY DEF Managing, Next, vars, managerVars, driverVars, queueVars, historyVars, Command, CreateFirst,
         CreateSecond, CreateFails, SendTaskFails, SendTask, Exit, ExitAtOnce, Poll, Process,
         Hello, Block, First, Drop, StartWork, Return, Work, Nap, Steal
<1>2. Honest
  BY <1>1 DEF Trusted
<1>3. ASSUME NEW m \in Processing, Says(m), Send(m), UNCHANGED task_msg,
             \A e \in Drivers : Says(driver'[e])
      PROVE  Honest'
  <2>1. /\ \A i \in 1 .. Len(queue') :
               queue'[i] = m \/ \E j \in 1 .. Len(queue) : queue'[i] = queue[j]
        /\ \A e \in Drivers : given'[e] = m \/ given'[e] = given[e]
    BY <1>0, <1>3, SendSources
  <2> QED
    BY <1>2, <1>3, <2>1 DEF Honest
<1>4. ASSUME NEW d \in Drivers, Process(d) PROVE Honest'
  <2>0. UNCHANGED task_msg
    BY <1>4 DEF Process, Hello, Block, First, Drop, StartWork, Return, Work, Nap, Steal, managerVars
  <2>1. ASSUME NEW next \in {NULL, Wild}, Hello(d, next) PROVE Honest'
    <3> DEFINE m == [Blank(d) EXCEPT !.next = next]
    <3>1. m \in Processing /\ Says(m)
      BY DEF Blank, Processing, New, Links, Says
    <3>2. driver' = [driver EXCEPT ![d] = m] /\ Send(driver'[d])
      BY <2>1 DEF Hello
    <3> HIDE DEF m
    <3>3. driver'[d] = m /\ \A e \in Drivers \ {d} : driver'[e] = driver[e]
      BY <1>0, <3>2
    <3>4. \A e \in Drivers : Says(driver'[e])
      BY <1>2, <3>1, <3>3 DEF Honest
    <3> QED
      BY <1>3, <2>0, <3>1, <3>2, <3>3, <3>4
  <2>2. CASE Block(d)
    BY <1>2, <2>2 DEF Block, Honest, managerVars, driverVars
  <2>3. CASE First(d) \/ Drop(d) \/ StartWork(d) \/ Return(d)
    <3>1. Receive(d)
      BY <2>3 DEF First, Drop, StartWork, Return
    <3>2. /\ \A i \in 1 .. Len(queue') : \E j \in 1 .. Len(queue) : queue'[i] = queue[j]
          /\ \A e \in Drivers : given'[e] = Nothing \/ given'[e] = given[e]
          /\ \/ given[d] # Nothing /\ Message(d) = given[d]
             \/ \E j \in 1 .. Len(queue) : Message(d) = queue[j]
      BY <1>0, <3>1, ReceiveSources
    <3>3. Says(Message(d))
      BY <1>2, <3>2 DEF Honest
    <3>4. \A e \in Drivers : driver'[e] = driver[e] \/ driver'[e] = Message(d)
      BY <1>0, <2>3 DEF First, Drop, StartWork, Return, driverVars
    <3>5. \A e \in Drivers : Says(driver'[e])
      BY <1>2, <3>3, <3>4 DEF Honest
    <3> QED
      BY <1>2, <2>0, <3>2, <3>5 DEF Honest
  <2>4. CASE Work(d)
    <3>1. PICK left : left = driver[d].timer - 1
      OBVIOUS
    <3>2. driver' = Retimed(driver, d, left, StatusAt(d, left)) /\ Send(driver'[d]) /\ dpc[d] = "work"
      BY <2>4, <3>1 DEF Work, Retimed
    <3>3. /\ driver[d] \in Processing /\ driver[d].timer # 0
      BY <1>0, <3>2 DEF AtWork
    <3>4. /\ left \in Nat /\ StatusAt(d, left) \in {New, Available, Busy}
          /\ left # 0 => StatusAt(d, left) = Busy
      BY <1>2, <3>1, <3>3, Fields DEF StatusAt, Honest, Says
    <3>5. /\ driver' \in [Drivers -> Processing] /\ \A e \in Drivers \ {d} : driver'[e] = driver[e]
          /\ driver'[d].timer = left /\ driver'[d].status = StatusAt(d, left)
      BY <1>0, <3>2, <3>4, RetimedFields
    <3>6. Says(driver'[d]) /\ driver'[d] \in Processing
      BY <3>4, <3>5 DEF Says
    <3>7. \A e \in Drivers : Says(driver'[e])
      BY <1>2, <3>5, <3>6 DEF Honest
    <3> QED
      BY <1>3, <2>0, <3>2, <3>6, <3>7
  <2>5. CASE Nap(d)
    BY <1>2, <2>5 DEF Nap, Honest, managerVars, queueVars
  <2>6. CASE Steal(d)
    <3>1. /\ queue # <<>> /\ queue' = Tail(queue) /\ UNCHANGED <<given, driver>>
      BY <2>6 DEF Steal, driverVars
    <3>2. \A i \in 1 .. Len(queue') : \E j \in 1 .. Len(queue) : queue'[i] = queue[j]
      BY <1>0, <3>1, TailSources
    <3> QED
      BY <1>2, <2>0, <3>1, <3>2 DEF Honest
  <2> QED
    BY <1>4, <2>1, <2>2, <2>3, <2>4, <2>5, <2>6 DEF Process
<1>5. ASSUME NEW p \in Drivers, NEW t \in Times, SendTask(p, t) PROVE Honest'
  <2>1. /\ t \in Nat /\ node' = Retimed(node, p, t, Busy) /\ SendTyped(node[p].id, node'[p])
        /\ UNCHANGED <<task_msg, driver>>
    BY <1>5, TimesAssumption DEF SendTask, Retimed, driverVars
  <2>2. node'[p] \in Processing /\ node'[p].status = Busy
    BY <1>0, <2>1, RetimedFields DEF TypeOK
  <2>3. Says(node'[p]) /\ \A e \in Drivers : Says(driver'[e])
    BY <1>2, <2>1, <2>2 DEF Says, Honest
  <2>4. CASE Send(node'[p])
    BY <1>3, <2>1, <2>2, <2>3, <2>4
  <2>5. CASE UNCHANGED queueVars
    BY <1>2, <2>1, <2>5 DEF Honest, queueVars
  <2> QED
    BY <2>1, <2>4, <2>5 DEF SendTyped
<1>6. CASE Poll
  <2>1. UNCHANGED <<given, driver>>
    BY <1>6 DEF Poll, driverVars
  <2>2. CASE queue = <<>>
    BY <1>2, <1>6, <2>1, <2>2 DEF Poll, Honest
  <2>3. CASE queue # <<>>
    <3>1. queue' = Tail(queue) /\ task_msg' = Head(queue)
      BY <1>6, <2>3 DEF Poll
    <3>2. /\ \A i \in 1 .. Len(queue') : \E j \in 1 .. Len(queue) : queue'[i] = queue[j]
          /\ \E j \in 1 .. Len(queue) : task_msg' = queue[j]
      BY <1>0, <2>3, <3>1, TailSources
    <3> QED
      BY <1>2, <2>1, <3>2 DEF Honest
  <2> QED
    BY <2>2, <2>3
<1>7. ASSUME NEW d \in Drivers, CreateFirst(d) \/ CreateSecond(d) PROVE Honest'
  BY <1>2, <1>7 DEF CreateFirst, CreateSecond, Honest, queueVars
<1>8. CASE UNCHANGED vars
  BY <1>2, <1>8 DEF vars, queueVars, managerVars, driverVars, Honest
<1> QED
  BY <1>4, <1>5, <1>6, <1>7, <1>8
  DEF Next, Command, CreateFails, SendTaskFails, Exit, ExitAtOnce, Managing

\* A message to or from the only driver stays among its own.
LEMMA OwnSent ==
    ASSUME TypeOK, NEW d \in Drivers, Single(d), NEW m \in Processing, Own(d, m), Send(m)
    PROVE  /\ \A i \in 1 .. Len(queue') : Own(d, queue'[i])
           /\ \A e \in Drivers : given'[e] # Nothing => e = d /\ Own(d, given'[e])
           /\ blocked' = <<>>
           /\ blocked = <<>> => queue' # <<>> /\ queue'[Len(queue')] = m
<1>1. queue \in Seq(Processing) /\ given \in [Drivers -> Processing \cup {Nothing}]
  BY DEF TypeOK
<1>2. /\ \A i \in 1 .. Len(queue) : Own(d, queue[i])
      /\ \A e \in Drivers : given[e] # Nothing => e = d /\ Own(d, given[e])
      /\ blocked # <<>> => blocked = <<d>>
  BY DEF Single
<1>3. \A i \in 1 .. Len(queue') :
          queue'[i] = m \/ \E j \in 1 .. Len(queue) : queue'[i] = queue[j]
  BY SendSources
<1>4. CASE blocked = <<>>
  <2>1. queue' = Append(queue, m) /\ UNCHANGED <<blocked, given>>
    BY <1>4 DEF Send
  <2>2. Len(queue') = Len(queue) + 1 /\ queue'[Len(queue) + 1] = m /\ Len(queue) \in Nat
        /\ queue' # <<>>
    BY <1>1, <2>1, AppendProperties
  <2>3. blocked' = <<>> /\ queue' # <<>> /\ queue'[Len(queue')] = m
    BY <1>4, <2>1, <2>2
  <2> QED
    BY <1>2, <1>3, <2>1, <2>3
<1>5. CASE blocked # <<>>
  <2>1. blocked = <<d>> /\ Head(<<d>>) = d /\ Tail(<<d>>) = <<>>
    BY <1>2, <1>5
  <2>2. /\ given' = [given EXCEPT ![Head(blocked)] = m] /\ blocked' = Tail(blocked)
        /\ queue' = queue
    BY <1>5 DEF Send
  <2>3. /\ given' = [given EXCEPT ![d] = m] /\ blocked' = <<>> /\ queue' = queue
    BY <2>1, <2>2
  <2> QED
    BY <1>1, <1>2, <1>5, <2>3
<1> QED
  BY <1>4, <1>5

\* What the only driver does keeps it so.
LEMMA SingleProcess ==
    ASSUME Typed, Honest, NEW d \in Drivers, Single(d), BusyLast(d),
           NEW e \in Drivers, Process(e)
    PROVE  Single(d)' /\ BusyLast(d)'
<1>0. /\ TypeOK /\ AtWork /\ queue \in Seq(Processing) /\ blocked \in Seq(Drivers)
      /\ given \in [Drivers -> Processing \cup {Nothing}]
      /\ driver \in [Drivers -> Processing]
      /\ dpc \in [Drivers -> {"none", "hello", "first", "recv", "work", "nap", "returned"}]
  BY DEF Typed, TypeOK
<1>1. /\ \A f \in Drivers : dpc[f] # "none" <=> f = d
      /\ \A i \in 1 .. Len(queue) : Own(d, queue[i])
      /\ \A f \in Drivers : given[f] # Nothing => f = d /\ Own(d, given[f])
      /\ task_msg # Nothing => Own(d, task_msg)
      /\ Own(d, driver[d]) /\ Own(d, node[d])
  BY DEF Single
<1>2. blocked # <<>> =>
           /\ blocked = <<d>> /\ dpc[d] \in {"first", "recv"}
           /\ queue = <<>> /\ given[d] = Nothing
  BY DEF Single
<1>3. e = d /\ dpc[e] # "none"
  <2>1. dpc[e] # "none"
    BY DEF Process, Hello, Block, First, Drop, StartWork, Return, Work, Nap, Steal
  <2> QED
    BY <1>1, <2>1
<1>4. UNCHANGED <<node, task_msg>>
  BY DEF Process, Hello, Block, First, Drop, StartWork, Return, Work, Nap, Steal, managerVars
<1>5. \A f \in Drivers : dpc'[f] # "none" <=> f = d
  BY <1>0, <1>1, <1>3 DEF Process, Hello, Block, First, Drop, StartWork, Return, Work, Nap, Steal,
                          driverVars
<1>6. ASSUME NEW next \in {NULL, Wild}, Hello(d, next) PROVE Single(d)' /\ BusyLast(d)'
  <2> DEFINE m == [Blank(d) EXCEPT !.next = next]
  <2>1. m \in Processing /\ Own(d, m)
    BY PointersAssumption DEF Blank, Processing, New, Links, Own
  <2>2. driver' = [driver EXCEPT ![d] = m] /\ Send(driver'[d]) /\ dpc' = [dpc EXCEPT ![d] = "first"]
    BY <1>6 DEF Hello
  <2> HIDE DEF m
  <2>3. driver'[d] = m /\ dpc'[d] = "first"
    BY <1>0, <2>2
  <2>4. /\ \A i \in 1 .. Len(queue') : Own(d, queue'[i])
        /\ \A f \in Drivers : given'[f] # Nothing => f = d /\ Own(d, given'[f])
        /\ blocked' = <<>>
    BY <1>0, <2>1, <2>2, <2>3, OwnSent
  <2>5. Single(d)'
    BY <1>1, <1>4, <1>5, <2>1, <2>3, <2>4 DEF Single
  <2> QED
    BY <2>3, <2>5 DEF BusyLast
<1>7. CASE Block(d)
  <2>1. /\ dpc[d] \in {"first", "recv"} /\ queue = <<>> /\ given[d] = Nothing
        /\ blocked' = Append(blocked, d) /\ UNCHANGED <<queue, given, dpc, driver>>
    BY <1>7 DEF Block, driverVars
  <2>2. blocked = <<>>
    BY <1>2, <1>7 DEF Block, IsBlocked
  <2>3. blocked' = <<d>>
    BY <2>1, <2>2
  <2>4. Single(d)'
    BY <1>1, <1>4, <1>5, <2>1, <2>3 DEF Single
  <2> QED
    BY <2>1, <2>4 DEF BusyLast
<1>8. CASE First(d) \/ Drop(d) \/ StartWork(d) \/ Return(d)
  <2>1. Receive(d) /\ dpc'[d] # "nap"
    BY <1>0, <1>8 DEF First, Drop, StartWork, Return, driverVars
  <2>2. /\ \A i \in 1 .. Len(queue') : \E j \in 1 .. Len(queue) : queue'[i] = queue[j]
        /\ \A f \in Drivers : given'[f] = Nothing \/ given'[f] = given[f]
        /\ \/ given[d] # Nothing /\ Message(d) = given[d]
           \/ \E j \in 1 .. Len(queue) : Message(d) = queue[j]
    BY <1>0, <2>1, ReceiveSources
  <2>3. blocked' = <<>>
    BY <1>2, <2>1 DEF Receive, Ready
  <2>4. driver'[d] = driver[d] \/ driver'[d] = Message(d)
    BY <1>0, <1>8 DEF First, Drop, StartWork, Return, driverVars
  <2>5. Own(d, driver'[d])
    BY <1>1, <2>2, <2>4
  <2>6. /\ \A i \in 1 .. Len(queue') : Own(d, queue'[i])
        /\ \A f \in Drivers : given'[f] # Nothing => f = d /\ Own(d, given'[f])
    BY <1>1, <2>2
  <2>7. Single(d)'
    BY <1>1, <1>4, <1>5, <2>3, <2>5, <2>6 DEF Single
  <2> QED
    BY <2>1, <2>7 DEF BusyLast
<1>9. CASE Work(d)
  <2>1. PICK left : left = driver[d].timer - 1
    OBVIOUS
  <2>2. /\ driver' = Retimed(driver, d, left, StatusAt(d, left)) /\ Send(driver'[d])
        /\ dpc[d] = "work" /\ dpc' = [dpc EXCEPT ![d] = "nap"]
    BY <1>9, <2>1 DEF Work, Retimed
  <2>3. driver[d] \in Processing /\ driver[d].timer # 0
    BY <1>0, <2>2 DEF AtWork
  <2>4. /\ left \in Nat /\ StatusAt(d, left) \in {New, Available, Busy}
        /\ left # 0 => StatusAt(d, left) = Busy
    BY <2>1, <2>3, Fields DEF StatusAt, Honest, Says
  <2>5. /\ driver' \in [Drivers -> Processing]
        /\ driver'[d].timer = left /\ driver'[d].status = StatusAt(d, left)
        /\ driver'[d].pid = driver[d].pid /\ driver'[d].next = driver[d].next
    BY <1>0, <2>2, <2>4, RetimedFields
  <2>6. Own(d, driver'[d]) /\ driver'[d] \in Processing
    BY <1>1, <2>5 DEF Own
  <2>7. blocked = <<>>
    BY <1>2, <2>2
  <2>8. /\ \A i \in 1 .. Len(queue') : Own(d, queue'[i])
        /\ \A f \in Drivers : given'[f] # Nothing => f = d /\ Own(d, given'[f])
        /\ blocked' = <<>> /\ queue' # <<>> /\ queue'[Len(queue')] = driver'[d]
    BY <1>0, <2>2, <2>6, <2>7, OwnSent
  <2>9. Single(d)'
    BY <1>1, <1>4, <1>5, <2>6, <2>8 DEF Single
  <2>10. BusyLast(d)'
    BY <2>4, <2>5, <2>8 DEF BusyLast
  <2> QED
    BY <2>9, <2>10
<1>10. CASE Nap(d)
  <2>1. /\ UNCHANGED <<queue, blocked, given, driver>>
        /\ dpc[d] = "nap" /\ dpc'[d] \in {"work", "recv"}
    BY <1>0, <1>10 DEF Nap, queueVars
  <2>2. Single(d)'
    BY <1>1, <1>2, <1>4, <1>5, <2>1 DEF Single
  <2> QED
    BY <2>1, <2>2 DEF BusyLast
<1>11. CASE Steal(d)
  <2>1. /\ dpc[d] = "returned" /\ queue # <<>> /\ queue' = Tail(queue)
        /\ UNCHANGED <<blocked, given, dpc, driver>>
    BY <1>11 DEF Steal, driverVars
  <2>2. \A i \in 1 .. Len(queue') : \E j \in 1 .. Len(queue) : queue'[i] = queue[j]
    BY <1>0, <2>1, TailSources
  <2>3. blocked' = <<>>
    BY <1>2, <2>1
  <2>4. \A i \in 1 .. Len(queue') : Own(d, queue'[i])
    BY <1>1, <2>2
  <2>5. Single(d)'
    BY <1>1, <1>4, <1>5, <2>1, <2>3, <2>4 DEF Single
  <2> QED
    BY <2>1, <2>5 DEF BusyLast
<1> QED
  BY <1>3, <1>6, <1>7, <1>8, <1>9, <1>10, <1>11 DEF Process

\* The list of a single driver has one node.
LEMMA OneNode ==
    ASSUME drivers \in Drivers, Own(drivers, node[drivers])
    PROVE  \A p \in Drivers : Found(p) <=> p = drivers
BY DEF Own, Found, Chain, Link

\* So does what the manager does for it.
LEMMA SingleSendTask ==
    ASSUME Typed, NEW d \in Drivers, drivers = d, Single(d), BusyLast(d),
           NEW p \in Drivers, NEW t \in Times, SendTask(p, t)
    PROVE  Single(d)' /\ BusyLast(d)'
<1>0. /\ TypeOK /\ node \in [Drivers -> Processing]
  BY DEF Typed, TypeOK
<1>1. /\ \A f \in Drivers : dpc[f] # "none" <=> f = d
      /\ \A i \in 1 .. Len(queue) : Own(d, queue[i])
      /\ \A f \in Drivers : given[f] # Nothing => f = d /\ Own(d, given[f])
      /\ task_msg # Nothing => Own(d, task_msg)
      /\ Own(d, driver[d]) /\ Own(d, node[d])
  BY DEF Single
<1>2. blocked # <<>> =>
           /\ blocked = <<d>> /\ dpc[d] \in {"first", "recv"}
           /\ queue = <<>> /\ given[d] = Nothing
  BY DEF Single
<1>3. /\ Found(p) /\ node[p].status = Available /\ t \in Nat
      /\ node' = Retimed(node, p, t, Busy) /\ SendTyped(node[p].id, node'[p])
      /\ UNCHANGED <<task_msg, dpc, driver>>
  BY TimesAssumption DEF SendTask, Retimed, driverVars
<1>4. p = d
  BY <1>1, <1>3, OneNode
<1>5. /\ node' \in [Drivers -> Processing] /\ node'[d].status = Busy
      /\ node'[d].pid = node[d].pid /\ node'[d].next = node[d].next
  BY <1>0, <1>3, <1>4, RetimedFields
<1>6. Own(d, node'[d]) /\ node'[d] \in Processing
  BY <1>1, <1>5 DEF Own
<1>7. CASE Send(node'[d])
  <2>1. /\ \A i \in 1 .. Len(queue') : Own(d, queue'[i])
        /\ \A e \in Drivers : given'[e] # Nothing => e = d /\ Own(d, given'[e])
        /\ blocked' = <<>>
        /\ blocked = <<>> => queue' # <<>> /\ queue'[Len(queue')] = node'[d]
    BY <1>0, <1>6, <1>7, OwnSent
  <2>2. Single(d)'
    BY <1>1, <1>3, <1>6, <2>1 DEF Single
  <2>3. BusyLast(d)'
    BY <1>2, <1>3, <1>5, <2>1 DEF BusyLast
  <2> QED
    BY <2>2, <2>3
<1>8. CASE UNCHANGED queueVars
  <2>1. UNCHANGED <<queue, blocked, given>>
    BY <1>8 DEF queueVars
  <2>2. Single(d)'
    BY <1>1, <1>2, <1>3, <1>6, <2>1 DEF Single
  <2>3. BusyLast(d)'
    BY <1>3, <1>5, <2>1 DEF BusyLast
  <2> QED
    BY <2>2, <2>3
<1> QED
  BY <1>3, <1>4, <1>7, <1>8 DEF SendTyped

LEMMA SinglePoll ==
    ASSUME Typed, NEW d \in Drivers, drivers = d, Single(d), BusyLast(d), Poll
    PROVE  Single(d)' /\ BusyLast(d)'
<1>0. /\ queue \in Seq(Processing) /\ task_msg \in Processing \cup {Nothing}
      /\ node \in [Drivers -> Processing]
  BY DEF Typed, TypeOK
<1>1. /\ \A f \in Drivers : dpc[f] # "none" <=> f = d
      /\ \A i \in 1 .. Len(queue) : Own(d, queue[i])
      /\ \A f \in Drivers : given[f] # Nothing => f = d /\ Own(d, given[f])
      /\ task_msg # Nothing => Own(d, task_msg)
      /\ Own(d, driver[d]) /\ Own(d, node[d])
  BY DEF Single
<1>2. blocked # <<>> =>
           /\ blocked = <<d>> /\ dpc[d] \in {"first", "recv"}
           /\ queue = <<>> /\ given[d] = Nothing
  BY DEF Single
<1>3. UNCHANGED <<blocked, given, dpc, driver>>
  BY DEF Poll, driverVars
<1>4. ASSUME task_msg' # Nothing, Own(d, task_msg') PROVE node'[d] = task_msg'
  <2>1. task_msg'.pid = d
    BY <1>4 DEF Own
  <2>2. Found(d)
    BY <1>1, OneNode
  <2> QED
    BY <1>0, <1>4, <2>1, <2>2 DEF Poll
<1>5. CASE queue = <<>>
  <2>1. queue' = <<>> /\ task_msg' = task_msg
    BY <1>5 DEF Poll
  <2>2. CASE task_msg = Nothing
    <3>1. UNCHANGED node
      BY <2>1, <2>2 DEF Poll
    <3>2. Single(d)'
      BY <1>1, <1>2, <1>3, <1>5, <2>1, <3>1 DEF Single
    <3> QED
      BY <1>3, <1>5, <2>1, <3>1, <3>2 DEF BusyLast
  <2>3. CASE task_msg # Nothing
    <3>1. node'[d] = task_msg'
      BY <1>1, <1>4, <2>1, <2>3
    <3>2. Single(d)'
      BY <1>1, <1>2, <1>3, <1>5, <2>1, <2>3, <3>1 DEF Single
    <3>3. BusyLast(d)'
      BY <1>3, <1>5, <2>1, <3>1 DEF BusyLast
    <3> QED
      BY <3>2, <3>3
  <2> QED
    BY <2>2, <2>3
<1>6. CASE queue # <<>>
  <2>1. queue' = Tail(queue) /\ task_msg' = Head(queue)
    BY <1>6 DEF Poll
  <2>2. /\ \A i \in 1 .. Len(queue') : \E j \in 1 .. Len(queue) : queue'[i] = queue[j]
        /\ \E j \in 1 .. Len(queue) : task_msg' = queue[j]
        /\ queue' # <<>> => queue'[Len(queue')] = queue[Len(queue)]
        /\ queue' = <<>> => task_msg' = queue[Len(queue)]
    BY <1>0, <1>6, <2>1, TailSources
  <2>3. Own(d, task_msg') /\ \A i \in 1 .. Len(queue') : Own(d, queue'[i])
    BY <1>1, <2>2
  <2>4. task_msg' # Nothing
    BY <1>0, <1>6, <2>1, NothingAssumption, HeadTailProperties
  <2>5. node'[d] = task_msg'
    BY <1>4, <2>3, <2>4
  <2>6. blocked' = <<>>
    BY <1>2, <1>3, <1>6
  <2>7. Single(d)'
    BY <1>1, <1>3, <2>3, <2>5, <2>6 DEF Single
  <2>8. BusyLast(d)'
    BY <1>3, <1>6, <2>2, <2>4, <2>5 DEF BusyLast
  <2> QED
    BY <2>7, <2>8
<1> QED
  BY <1>5, <1>6

\* The first driver finds nothing that was ever sent.
LEMMA SingleCreated ==
    ASSUME Typed, Quiet, NEW d \in Drivers, CreateFirst(d)
    PROVE  drivers' = d /\ Single(d)' /\ BusyLast(d)'
<1>1. /\ \A e \in Drivers : dpc[e] = "none" /\ given[e] = Nothing /\ Own(e, driver[e])
      /\ queue = <<>> /\ blocked = <<>> /\ task_msg = Nothing
      /\ dpc \in [Drivers -> {"none", "hello", "first", "recv", "work", "nap", "returned"}]
      /\ node \in [Drivers -> Processing]
  BY DEF Quiet, Typed, TypeOK
<1>2. /\ drivers' = d /\ node' = [node EXCEPT ![d] = Created(d, 2)]
      /\ dpc' = [dpc EXCEPT ![d] = "hello"]
      /\ UNCHANGED <<queue, blocked, given, task_msg, driver>>
  BY DEF CreateFirst, Fork, queueVars
<1>3. Own(d, node'[d])
  BY <1>1, <1>2, PointersAssumption DEF Created, Blank, Own
<1>4. Single(d)'
  BY <1>1, <1>2, <1>3 DEF Single
<1> QED
  BY <1>1, <1>2, <1>4 DEF BusyLast

LEMMA InitSole == Init => Sole
<1> SUFFICES ASSUME Init PROVE drivers = NULL /\ Quiet
  BY DEF Sole
<1>1. \A d \in Drivers : driver[d] = Blank(d) /\ Own(d, Blank(d))
  BY PointersAssumption DEF Init, Blank, Own
<1> QED
  BY <1>1 DEF Init, Quiet

\* There is one driver at most until a second one is created.
LEMMA StillOne ==
    ASSUME TypeOK, [Next]_vars, OneAtMost', Managing'
    PROVE  OneAtMost /\ Managing
<1>1. Managing
  BY DEF Managing, Next, vars, managerVars, driverVars, queueVars, historyVars, Command, CreateFirst,
         CreateSecond, CreateFails, SendTaskFails, SendTask, Exit, ExitAtOnce, Poll, Process,
         Hello, Block, First, Drop, StartWork, Return, Work, Nap, Steal
<1>2. dpc \in [Drivers -> {"none", "hello", "first", "recv", "work", "nap", "returned"}]
  BY DEF TypeOK
<1>3. \A d \in Drivers : dpc[d] # "none" => dpc'[d] # "none"
  <2>1. ASSUME NEW e \in Drivers, Process(e) PROVE \A d \in Drivers : dpc[d] # "none" => dpc'[d] # "none"
    BY <1>2, <2>1 DEF Process, Hello, Block, First, Drop, StartWork, Return, Work, Nap, Steal, driverVars
  <2>2. ASSUME NEW e \in Drivers, CreateFirst(e) \/ CreateSecond(e)
        PROVE  \A d \in Drivers : dpc[d] # "none" => dpc'[d] # "none"
    BY <1>2, <2>2 DEF CreateFirst, CreateSecond, Fork
  <2>3. CASE UNCHANGED dpc
    BY <2>3
  <2> QED
    BY <2>1, <2>2, <2>3 DEF Next, Command, CreateFails, SendTaskFails, SendTask, Exit, ExitAtOnce,
                            Poll, vars, driverVars
<1> QED
  BY <1>1, <1>3 DEF OneAtMost

LEMMA NextSole == Typed /\ Trusted /\ Sole /\ [Next]_vars => Sole'
<1> SUFFICES ASSUME Typed, Trusted, Sole, [Next]_vars, OneAtMost', Managing'
             PROVE  \/ drivers' = NULL /\ Quiet'
                    \/ drivers' \in Drivers /\ Single(drivers)' /\ BusyLast(drivers)'
  BY DEF Sole
<1>1. OneAtMost /\ Managing /\ Honest
  BY StillOne DEF Typed, Trusted
<1>2. CASE drivers = NULL /\ Quiet
  <2>1. \A e \in Drivers : ~Process(e)
    BY <1>2 DEF Quiet, Process, Hello, Block, First, Drop, StartWork, Return, Work, Nap, Steal
  <2>2. \A p \in Drivers : ~Found(p)
    BY <1>2, PointersAssumption DEF Found, Chain, Link
  <2>3. ASSUME NEW d \in Drivers, CreateFirst(d)
        PROVE  drivers' \in Drivers /\ Single(drivers)' /\ BusyLast(drivers)'
    BY <1>2, <2>3, SingleCreated
  <2>4. CASE Poll
    BY <1>2, <2>4 DEF Poll, Quiet, driverVars
  <2>5. CASE UNCHANGED vars
    BY <1>2, <2>5 DEF Quiet, vars, queueVars, managerVars, driverVars
  <2>6. \A d \in Drivers : ~CreateSecond(d)
    BY <1>2 DEF CreateSecond
  <2>7. \A p \in Drivers, t \in Times : ~SendTask(p, t)
    BY <2>2 DEF SendTask
  <2> QED
    BY <2>1, <2>3, <2>4, <2>5, <2>6, <2>7
    DEF Next, Command, CreateFails, SendTaskFails, Exit, ExitAtOnce, Managing
<1>3. CASE drivers \in Drivers /\ Single(drivers) /\ BusyLast(drivers)
  <2>1. PICK d \in Drivers : d = drivers
    BY <1>3
  <2>2. Single(d) /\ BusyLast(d)
    BY <1>3, <2>1
  <2> SUFFICES drivers' = d /\ Single(d)' /\ BusyLast(d)'
    OBVIOUS
  <2>3. ASSUME NEW e \in Drivers, Process(e) PROVE drivers' = d /\ Single(d)' /\ BusyLast(d)'
    <3>1. drivers' = d
      BY <2>1, <2>3 DEF Process, Hello, Block, First, Drop, StartWork, Return, Work, Nap, Steal, managerVars
    <3> QED
      BY <1>1, <2>2, <2>3, <3>1, SingleProcess
  <2>4. ASSUME NEW p \in Drivers, NEW t \in Times, SendTask(p, t)
        PROVE  drivers' = d /\ Single(d)' /\ BusyLast(d)'
    <3>1. drivers' = d
      BY <2>1, <2>4 DEF SendTask
    <3> QED
      BY <2>1, <2>2, <2>4, <3>1, SingleSendTask
  <2>5. CASE Poll
    <3>1. drivers' = d
      BY <2>1, <2>5 DEF Poll
    <3> QED
      BY <2>1, <2>2, <2>5, <3>1, SinglePoll
  <2>6. \A e \in Drivers : ~CreateFirst(e)
    BY <1>3, PointersAssumption DEF CreateFirst
  <2>7. \A e \in Drivers : ~CreateSecond(e)
    <3> SUFFICES ASSUME NEW e \in Drivers, CreateSecond(e) PROVE FALSE
      OBVIOUS
    <3>1. dpc[e] = "none" /\ dpc' = [dpc EXCEPT ![e] = "hello"]
      BY DEF CreateSecond, Fork
    <3>2. dpc[d] # "none"
      BY <2>2 DEF Single
    <3>3. dpc \in [Drivers -> {"none", "hello", "first", "recv", "work", "nap", "returned"}]
      BY DEF Typed, TypeOK
    <3> QED
      BY <3>1, <3>2, <3>3 DEF OneAtMost
  <2>8. CASE UNCHANGED vars
    BY <2>1, <2>2, <2>8 DEF Single, BusyLast, vars, queueVars, managerVars, driverVars
  <2> QED
    BY <2>3, <2>4, <2>5, <2>6, <2>7, <2>8
    DEF Next, Command, CreateFails, SendTaskFails, Exit, ExitAtOnce, Managing
<1> QED
  BY <1>1, <1>2, <1>3 DEF Sole

\* Alone, counted.
LEMMA AloneIsOne == Alone => OneAtMost
<1> SUFFICES ASSUME Alone, NEW d \in Drivers, NEW e \in Drivers,
                    dpc[d] # "none", dpc[e] # "none", d # e
             PROVE  FALSE
  BY DEF OneAtMost
<1> DEFINE S == {f \in Drivers : dpc[f] # "none"}
<1>1. d \in S /\ e \in S \ {d} /\ S \subseteq Drivers
  OBVIOUS
<1>2. Cardinality(S) <= 1
  BY DEF Alone
<1> HIDE DEF S
<1>3. IsFiniteSet(S)
  BY <1>1, DriversAssumption, FS_Subset
<1>4. IsFiniteSet(S \ {d}) /\ Cardinality(S \ {d}) = Cardinality(S) - 1
  BY <1>1, <1>3, FS_RemoveElement
<1>5. IsFiniteSet((S \ {d}) \ {e}) /\ Cardinality((S \ {d}) \ {e}) = Cardinality(S \ {d}) - 1
  BY <1>1, <1>4, FS_RemoveElement
<1>6. Cardinality((S \ {d}) \ {e}) \in Nat /\ Cardinality(S) \in Nat
  BY <1>3, <1>5, FS_CardinalityType
<1> QED
  BY <1>2, <1>4, <1>5, <1>6

\* Between two reports of a single driver the manager shows it busy, whatever it
\* re-applies (main.c:57-84).
THEOREM BusyShown == Spec => []ReportedBusy
<1>1. Typed /\ Sole => ReportedBusy
  <2> SUFFICES ASSUME Typed, Sole, NEW d \in Drivers, Alone, Managing,
                      dpc[d] = "nap", driver[d].timer # 0, queue = <<>>
               PROVE  node[d].status = Busy
    BY DEF ReportedBusy
  <2>1. drivers \in Drivers /\ Single(drivers) /\ BusyLast(drivers)
    BY AloneIsOne DEF Sole, Quiet
  <2>2. d = drivers
    BY <2>1 DEF Single
  <2> QED
    BY <2>1, <2>2 DEF BusyLast
<1> QED
  BY <1>1, InitTyped, NextTyped, InitTrusted, NextTrusted, InitSole, NextSole, PTL DEF Spec
=============================================================================
