--------------------------- MODULE DriverManager ---------------------------
(***************************************************************************)
(* The driver manager of final_task/second: the manager (main.c) forks     *)
(* drivers, sends them tasks (a number of seconds to work) and keeps their *)
(* status; a driver (process, main_func.c) works and reports each second.  *)
(*                                                                         *)
(* Everybody shares one System V queue, in both directions, and receives   *)
(* with type 0: the first message, whoever it is for.  As in Linux, a      *)
(* message sent while a receiver is blocked goes to the one that blocked   *)
(* first and never enters the queue.                                       *)
(*                                                                         *)
(* Not modelled: get_status, get_drivers and ?, which change nothing.  The *)
(* id 1 main.c:58 waits for is in no message, so that branch has no step.  *)
(* The user types nothing after "exit".                                    *)
(***************************************************************************)
EXTENDS Integers, Sequences, FiniteSets

CONSTANTS
    Drivers,   \* the processes fork may create
    NULL, Wild, \* the null pointer, and one that was never set
    Nothing,   \* no message
    Times,     \* the task_timer a user may type
    Prompt,    \* TRUE: the manager polls faster than a driver sleeps
    MaxTasks   \* bound: tasks sent

ASSUME DriversAssumption == IsFiniteSet(Drivers)
ASSUME PointersAssumption == NULL # Wild /\ {NULL, Wild} \cap Drivers = {}
ASSUME TimesAssumption == Times \subseteq Nat
ASSUME PromptAssumption == Prompt \in BOOLEAN
ASSUME BoundAssumption == MaxTasks \in Nat

\* processing.status
New == 0
Available == 1
Busy == 2

Links == Drivers \cup {NULL, Wild}
Processing == [pid : Drivers, id : Nat, status : {New, Available, Busy},
               timer : Nat, exit : {0, 1}, next : Links]

ASSUME NothingAssumption == Nothing \notin Processing

VARIABLES
    queue,    \* the message queue
    blocked,  \* the drivers blocked in msgrcv, first come first
    given,    \* the message a woken driver has been given
    drivers,  \* the manager's list: its first node, named by the pid it was made for
    node,     \* its nodes
    task_msg, \* what the manager received last
    mpc,      \* where the manager is
    dpc,      \* where driver d is
    driver,   \* driver d's own struct
    ordered,  \* history: seconds of work sent to all drivers
    worked,   \* history: seconds all drivers have worked
    tasks     \* tasks sent

queueVars == <<queue, blocked, given>>
historyVars == <<ordered, worked, tasks>>
managerVars == <<drivers, node, task_msg, mpc>>
driverVars == <<dpc, driver>>
vars == <<queueVars, managerVars, driverVars, historyVars>>

Blank(d) == [pid |-> d, id |-> 0, status |-> New, timer |-> 0, exit |-> 0, next |-> NULL]

Init ==
    /\ queue = <<>> /\ blocked = <<>> /\ given = [d \in Drivers |-> Nothing]
    /\ drivers = NULL /\ node = [d \in Drivers |-> Blank(d)]
    /\ task_msg = Nothing /\ mpc = "loop"
    /\ dpc = [d \in Drivers |-> "none"] /\ driver = [d \in Drivers |-> Blank(d)]
    /\ ordered = 0 /\ worked = 0 /\ tasks = 0

-----------------------------------------------------------------------------
(* The queue.                                                               *)

\* msgsnd.
Send(m) ==
    IF blocked = <<>>
    THEN queue' = Append(queue, m) /\ UNCHANGED <<blocked, given>>
    ELSE /\ given' = [given EXCEPT ![Head(blocked)] = m]
         /\ blocked' = Tail(blocked)
         /\ UNCHANGED queue

\* msgsnd refuses the type 0 (EINVAL), and nobody looks at its result.
SendTyped(type, m) == IF type = 0 THEN UNCHANGED queueVars ELSE Send(m)

\* Driver d's msgrcv returns: at once, or after it was blocked.
Ready(d) == given[d] # Nothing \/ queue # <<>>
Message(d) == IF given[d] # Nothing THEN given[d] ELSE Head(queue)
Receive(d) ==
    /\ Ready(d)
    /\ IF given[d] # Nothing
       THEN given' = [given EXCEPT ![d] = Nothing] /\ UNCHANGED queue
       ELSE queue' = Tail(queue) /\ UNCHANGED given
    /\ UNCHANGED blocked

IsBlocked(d) == \E i \in DOMAIN blocked : blocked[i] = d

-----------------------------------------------------------------------------
(* A driver.                                                                *)

\* The announcement; the struct is on the stack and "next" is not set.
Hello(d, next) ==
    /\ dpc[d] = "hello"
    /\ driver' = [driver EXCEPT ![d] = [Blank(d) EXCEPT !.next = next]]
    /\ Send(driver'[d])
    /\ dpc' = [dpc EXCEPT ![d] = "first"]
    /\ UNCHANGED <<managerVars, historyVars>>

\* No message: msgrcv blocks.
Block(d) ==
    /\ dpc[d] \in {"first", "recv"}
    /\ queue = <<>> /\ given[d] = Nothing /\ ~IsBlocked(d)
    /\ blocked' = Append(blocked, d)
    /\ UNCHANGED <<queue, given, managerVars, driverVars, historyVars>>

\* The first message is taken for the answer to the announcement.
First(d) ==
    /\ dpc[d] = "first" /\ Receive(d)
    /\ driver' = [driver EXCEPT ![d] = Message(d)]
    /\ dpc' = [dpc EXCEPT ![d] = "recv"]
    /\ UNCHANGED <<managerVars, historyVars>>

IsFor(d) == driver[d].pid = Message(d).pid
AnyWork(d) == TRUE                                         \* mutant of HasWork
HasWork(d) == Message(d).timer # 0

\* A message for another driver is dropped, and so is one without work.
Drop(d) ==
    /\ dpc[d] = "recv" /\ Receive(d)
    /\ ~IsFor(d) \/ (Message(d).exit = 0 /\ ~HasWork(d))
    /\ UNCHANGED <<managerVars, driverVars, historyVars>>

StartWork(d) ==
    /\ dpc[d] = "recv" /\ Receive(d)
    /\ IsFor(d) /\ Message(d).exit = 0 /\ HasWork(d)
    /\ driver' = [driver EXCEPT ![d] = Message(d)]
    /\ dpc' = [dpc EXCEPT ![d] = "work"]
    /\ UNCHANGED <<managerVars, historyVars>>

\* process returns: into the command that forked, and from there into a second
\* main loop.
Return(d) ==
    /\ dpc[d] = "recv" /\ Receive(d)
    /\ IsFor(d) /\ Message(d).exit # 0
    /\ dpc' = [dpc EXCEPT ![d] = "returned"]
    /\ UNCHANGED <<managerVars, driver, historyVars>>

\* That loop polls the queue too.
Steal(d) ==
    /\ dpc[d] = "returned" /\ queue # <<>>
    /\ queue' = Tail(queue)
    /\ UNCHANGED <<blocked, given, managerVars, driverVars, historyVars>>

\* The manager is in its main loop: not waiting for a child, nor stuck.
Managing == mpc \in {"loop", "poll"}

\* A sleep of a second lasts longer than the manager needs to take all there
\* is in the queue, and a woken driver to look at its message.
Overslept == TRUE  \* mutant of CaughtUp: no timeout in epoll_wait
CaughtUp ==
    Prompt /\ Managing =>
        queue = <<>> /\ mpc = "loop" /\ given = [d \in Drivers |-> Nothing]

StatusKept(d, left) == driver[d].status                    \* mutant of StatusAt
StatusEarly(d, left) == IF left <= 1 THEN Available ELSE Busy \* another
StatusAt(d, left) == IF left = 0 THEN Available ELSE driver[d].status

\* sleep(1), then the report.
Work(d) ==
    /\ dpc[d] = "work" /\ CaughtUp
    /\ LET left == driver[d].timer - 1
       IN  driver' = [driver EXCEPT ![d].timer = left, ![d].status = StatusAt(d, left)]
    /\ Send(driver'[d])
    /\ worked' = worked + 1
    /\ dpc' = [dpc EXCEPT ![d] = "nap"]
    /\ UNCHANGED <<managerVars, ordered, tasks>>

\* The second sleep(1).
Nap(d) ==
    /\ dpc[d] = "nap" /\ CaughtUp
    /\ dpc' = [dpc EXCEPT ![d] = IF driver[d].timer # 0 THEN "work" ELSE "recv"]
    /\ UNCHANGED <<queueVars, managerVars, driver, historyVars>>

Process(d) ==
    \/ \E next \in {NULL, Wild} : Hello(d, next)
    \/ Block(d) \/ First(d) \/ Drop(d) \/ StartWork(d) \/ Return(d)
    \/ Work(d) \/ Nap(d) \/ Steal(d)

-----------------------------------------------------------------------------
(* The manager.                                                             *)

\* The list as its loops walk it: a third node is never linked.
Link(p) == IF p \in Drivers THEN node[p].next ELSE p
Chain == {drivers, Link(drivers), Link(Link(drivers))}

\* Walking to the node of p, or past the end, through a wild pointer.
Found(p) == p \in Chain \cap Drivers
Crashes(p) == ~Found(p) /\ Wild \in Chain

\* malloc's block, of which next and exit are not set (main_func.c:94-97, 112-117):
\* they are zero, as the manager frees nothing and so gets memory never used.
Created(d, id) == [Blank(d) EXCEPT !.id = id, !.status = Available]
Fork(d) == dpc[d] = "none" /\ dpc' = [dpc EXCEPT ![d] = "hello"]

CreateFirst(d) ==
    /\ mpc = "loop" /\ drivers = NULL /\ Fork(d)
    /\ drivers' = d /\ node' = [node EXCEPT ![d] = Created(d, 2)]
    /\ mpc' = "poll"
    /\ UNCHANGED <<queueVars, task_msg, driver, historyVars>>

\* The new driver gets the id of the first one: the count starts there.
CreateSecond(d) ==
    /\ mpc = "loop" /\ drivers # NULL /\ Link(drivers) = NULL /\ Fork(d)
    /\ node' = [node EXCEPT ![d] = Created(d, node[drivers].id), ![drivers].next = d]
    /\ mpc' = "poll"
    /\ UNCHANGED <<queueVars, drivers, task_msg, driver, historyVars>>

\* With two nodes "view_driver-view_driver->next" never moves on; with a wild
\* pointer the walk crashes.
CreateFails ==
    /\ mpc = "loop" /\ drivers # NULL /\ Link(drivers) # NULL
    /\ mpc' = IF Link(drivers) = Wild THEN "crash" ELSE "spin"
    /\ UNCHANGED <<queueVars, drivers, node, task_msg, driverVars, historyVars>>

SendTask(p, t) ==
    /\ mpc = "loop" /\ Found(p) /\ node[p].status = Available /\ tasks < MaxTasks
    /\ node' = [node EXCEPT ![p].timer = t, ![p].status = Busy]
    /\ SendTyped(node[p].id, node'[p])
    /\ tasks' = tasks + 1 /\ ordered' = ordered + t
    /\ mpc' = "poll"
    /\ UNCHANGED <<drivers, task_msg, driverVars, worked>>

\* An unknown or silent driver, or a new one: the walk goes on to the end.
SendTaskFails(p) ==
    /\ mpc = "loop" /\ Wild \in Chain
    /\ Found(p) => node[p].status = New
    /\ mpc' = "crash"
    /\ UNCHANGED <<queueVars, drivers, node, task_msg, driverVars, historyVars>>

\* exit waits for a child after its first message; no child ever terminates.
Exit ==
    /\ mpc = "loop" /\ drivers # NULL
    /\ node' = [node EXCEPT ![drivers].exit = 1]
    /\ SendTyped(node[drivers].id, node'[drivers])
    /\ mpc' = "wait"
    /\ UNCHANGED <<drivers, task_msg, driverVars, historyVars>>

ExitAtOnce ==
    /\ mpc = "loop" /\ drivers = NULL
    /\ mpc' = "closed"
    /\ UNCHANGED <<queueVars, drivers, node, task_msg, driverVars, historyVars>>

\* msgrcv without waiting: on an empty queue task_msg is what it was, and its
\* message is applied once more.
Poll ==
    /\ Managing
    /\ task_msg' = IF queue = <<>> THEN task_msg ELSE Head(queue)
    /\ queue' = IF queue = <<>> THEN queue ELSE Tail(queue)
    /\ IF task_msg' = Nothing THEN UNCHANGED node /\ mpc' = "loop"
       ELSE LET p == task_msg'.pid
            IN  /\ node' = IF Found(p) THEN [node EXCEPT ![p] = task_msg'] ELSE node
                /\ mpc' = IF Crashes(p) THEN "crash" ELSE "loop"
    /\ UNCHANGED <<blocked, given, drivers, driverVars, historyVars>>

Command ==
    \/ \E d \in Drivers : CreateFirst(d) \/ CreateSecond(d)
    \/ CreateFails
    \/ \E p \in Drivers : SendTaskFails(p) \/ \E t \in Times : SendTask(p, t)
    \/ Exit \/ ExitAtOnce

Next == Command \/ Poll \/ \E d \in Drivers : Process(d)

Spec == Init /\ [][Next]_vars

\* The manager polls and every driver runs; the user need not type anything.
FairSpec == Spec /\ WF_vars(Poll) /\ \A d \in Drivers : WF_vars(Process(d))

-----------------------------------------------------------------------------
(* Properties.                                                              *)

\* Every variable of the program keeps its type; no timer is ever negative.
TypeOK ==
    /\ queue \in Seq(Processing) /\ blocked \in Seq(Drivers)
    /\ given \in [Drivers -> Processing \cup {Nothing}]
    /\ drivers \in Drivers \cup {NULL} /\ node \in [Drivers -> Processing]
    /\ task_msg \in Processing \cup {Nothing}
    /\ mpc \in {"loop", "poll", "wait", "closed", "spin", "crash"}
    /\ dpc \in [Drivers -> {"none", "hello", "first", "recv", "work", "nap", "returned"}]
    /\ driver \in [Drivers -> Processing]
    /\ ordered \in Nat /\ worked \in Nat /\ tasks \in Nat

\* No driver has taken another's message for the answer to its announcement.
OwnIdentities == \A d \in Drivers : driver[d].pid = d

\* Only one driver was ever created.
Alone == Cardinality({d \in Drivers : dpc[d] # "none"}) <= 1

Working(d) == dpc[d] = "work" \/ (dpc[d] = "nap" /\ driver[d].timer # 0)

\* While the manager manages nobody works longer than was ordered: no driver
\* takes its own report, which looks like a task, for one (main_func.c:58-69).
NoOverwork == OwnIdentities /\ Managing => worked <= ordered

\* Between two reports of a single driver the manager shows it busy, whatever
\* it re-applies (main.c:57-84).
ReportedBusy ==
    \A d \in Drivers :
        /\ Alone /\ Managing
        /\ dpc[d] = "nap" /\ driver[d].timer # 0 /\ queue = <<>>
        => node[d].status = Busy

\* The end of a single driver's task reaches the manager.
EndReported ==
    \A d \in Drivers :
        dpc[d] = "work" ~> node[d].status = Available \/ ~Alone \/ ~Managing

\* send_task refuses a driver at work (main_func.c:132-136).
BusyRefused ==
    [][\A d \in Drivers : \A t \in Times : SendTask(d, t) => ~Working(d)]_vars
=============================================================================
