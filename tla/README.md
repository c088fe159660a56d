# A TLA+ development of Embeded-C

The repository is a course of embedded-Linux C programs: some twenty homework
directories and a final task. Most programs are small; what they have in common
is that several processes or threads share a queue, a socket, a semaphore or a
piece of memory. This directory models those programs, checks the models with
TLC and proves their main properties with TLAPS. Paths below are relative to
the repository; `func.c:109` is a line of the file.

## The system

| component | state | operations | how its parts interact |
|---|---|---|---|
| raw echo server, `final_task/first` | table `thread[5]` (not created, free, working), a message counter per worker | Connect, create or reuse a worker, send its port; echo a text with its number; exit | raw Ethernet frames that every socket sees; the table is shared by threads without a lock |
| driver manager, `final_task/second` | linked list of drivers (status, timer) in the manager, a struct in each driver | create_driver, send_task, get_status, get_drivers, exit; a driver works and reports | one System V queue in both directions, received with type 0 |
| UDP time server, `homework_16/second/server_3.c` | two message records, a named semaphore | register a request, answer it, wipe the record | shared memory without a lock, `sem_post`/`sem_wait` |
| TCP time servers, `server_1.c`, `server_2.c`, `server_4.c` | a port per thread, a flag per pool thread, an epoll set | accept, hand out a port, answer with the date | TCP; a struct shared by the threads |
| market simulation, `homework_11` | stock of 5 markets, need of 3 buyers, a mutex per market | buy, supply, join, cancel, free | mutexes, `pthread_join`, `pthread_cancel` |
| message queue chat, `homework_13/task2` | a table of subscribers (id, name, new or not), the history of lines | enter with a name, type, be sent history or last line, exit | one queue for names, exits and ids in both directions, two queues for lines; two server threads share the table without a lock |
| shared memory chat, `homework_14/task2` | the same table and history, three blocks of memory | the same | shared memory that is polled, `semop`, `SETVAL` |
| phone books, `homework_4`, `_5`, `_6` | an array with a count, a doubly linked list | add, delete, search, print | sequential; the list and the heap share freed blocks |
| shells, `homework_10/task3`, `homework_12/task3` | the last ten lines, a pipe and its open ends | cd, history, exit, run a command, run two with a pipe | fork, exec, wait, pipe |
| exercises, `homework_1` to `_3` | none | spiral fill, substring search, bit count | none |

The hard behaviours are the interleavings of threads on unlocked state, the
order of "announce" and "be ready", frames and messages taken by somebody else,
faults and restarts, and what a program never ends. PROJECT.json lists each at
its line under "hazards". What makes each component correct:

* raw server: it is a pool of exclusive sessions; each session counts from 1; a
  line that reached its worker is answered.
* UDP server: the record has one owner at a time; one answer per request; no
  request of a calm server is lost.
* market: a purchase and a delivery are atomic, nothing is lost, memory is freed
  last, the program ends.
* drivers: a task is worked once, by the driver it is for; status tells the truth.
* TCP servers: a port belongs to one client; whoever has asked is answered.
* chats: ids are distinct, every line reaches every subscriber once and in one
  order, the server ends after the last has left.
* phone books: what was added and not deleted is found, and nothing else.
* shells: the prompt comes back, with no child and no end of a pipe left over.

## Modules

| module | models | its runs |
|---|---|---|
| `RawServer` | `func.c`, `client.c` of `final_task/first` | `raw_*` |
| `SessionPool` | what `RawServer` promises (abstract) | `raw_serial` |
| `UdpTimeServer` | `server_3.c`, `client_3.c` | `udp_*` |
| `Market` | `thread.c`, `thread_func.c` of `homework_11` | `market` |
| `AtomicMarket` | what `Market` promises (abstract) | `market` |
| `DriverManager` | `main.c`, `main_func.c` of `final_task/second` | `drivers*` |
| `TcpPool` | `server_2.c`, `client_2.c` | `time_servers` |
| `TcpThreads` | `server_1.c`, `client_1.c` | `time_servers` |
| `EpollServer` | `server_4.c`, `client_4.c`, `client_tcp_4.c`, `client_udp_4.c` | `time_servers` |
| `TimeServers` | the three TCP servers, one of which has the port | `time_servers` |
| `MsgChat` | `server_func.c`, `client_system_v.c` of `homework_13/task2` | `msg_chat` |
| `ShmChat` | `func.c`, `client_system_v.c` of `homework_14/task2` | `shm_*` |
| `ListBook` | `dinamic_mem.c`, `dinamic_mem_func.c` of `homework_6` | `user_programs` |
| `ArrayBook` | `struct.c` of `homework_4`; `func.c` of `homework_5` is the same text | `user_programs` |
| `Shell` | `homework_10/task3` and `homework_12/task3` | `user_programs` |
| `UserPrograms` | the three above, one of which the user starts | `user_programs` |
| `RawServerProofs`, `UdpTimeServerProofs`, `MarketProofs`, `DriverManagerProofs`, `TimeServersProofs`, `MsgChatProofs`, `ShmChatProofs`, `UserProgramsProofs` | theorems | - |

`MC*` modules only give constants values. In every module an action is a stretch
of code between two points where another thread or process can be noticed: a
system call, or a load or store of shared memory. Names of variables are those
of the code where it has one; a program counter per thread says where it is.
Definitions marked "mutant of" are plausible slips in the code that the runs
must detect; nothing else refers to them.

### RawServer

`threadState` is `thread[].state`, `ctlPc`/`ctlI` the control thread in its scan,
`processed[i]` and `msg_count[i]` worker i and its counter. A frame is what its
receiver's filter reads: the control thread keeps every frame of the clients'
port whose payload is `Connect`, whatever its destination port (func.c:89-91), so
a line that reads `Connect` is delivered to a worker and to the control thread;
a client keeps any frame of the control port (client.c:79). All clients have one
address and port, so a frame to one reaches all that listen. A worker opens its
socket in its own first step (`StartProcessed`), after which frames reach it.
`Fault` covers a lost frame, a failing call (`exit(1)` ends the server) and a
client that dies.

`OneAtATime` is an assumption about the environment: a client is started only
when no other is waiting for its port. It holds for a person at a keyboard; the
code does not enforce it, and `raw_concurrent` drops it. Nothing says that a new
worker is in time: a line sent before its socket is open is lost and its client
waits for ever, so `Answered` speaks of lines that have reached the socket.

`SessionPool` is the service without frames, threads and tables: `Lease` takes a
place nobody has, `Release` gives back one's own. `LeaseOf` maps a client to
its port from the frame that brings it to the client's own `exit`; everything the
control thread and the workers do in between is a stutter. `ImplementsPool` is
that refinement.

### UdpTimeServer

The `for` of registr looks at record 0 only: its `else` exits. `memcpy` and
`memset` of a record are split in status and address, in any order, so that the
two threads can overlap. `memory->status == 0` (server_3.c:164) has no step of
its own: it changes nothing. `Interrupt` is the user's signal, `Restart` the next
`main`: it zeroes the memory, while `SemInit` is `sem_open` with `O_CREAT`, which
keeps an existing semaphore's value. Properties of "the first life" say
`stops = 0`; `calm` is a history variable, "yes" while each client asked an idle
server and nobody interrupted it.

### Market

Each `-=`, `+=` and comparison is a step of its own inside the mutex. The
supplier can be cancelled in `sleep` or in `printf`, where it holds a mutex.
`overlap` is a choice made at the start: main stores the supplier's id at
`thread[n]`, past the end of the array, and the build may keep the variable `s`
there; `pthread_cancel(NULL)` then crashes, and that counts as an end. Mutexes
from `malloc` are taken as zeroed, that is, unlocked.

`AtomicMarket` has one step for a purchase and one for a delivery. The mapping
(`StockSeen`, `NeedSeen`) shows a purchase that is half done as already done: from
a buyer's first update on, the other amount is seen as it will be. That this is
the abstract market is exactly what the mutexes are for, and the mutant that
lets a second thread in breaks it.

### DriverManager

`Send` and `Receive` are Linux's queue: a message sent while a receiver is
blocked goes to the first that blocked and not into the queue. `node` is the
manager's list, each node named by its driver's pid; `next` may be `Wild`,
because a driver's first message carries a pointer from its stack and the manager
stores the whole struct (main.c:80). A walk through it crashes. The third
create_driver never leaves its loop (`view_driver-view_driver->next`) and `exit`
never leaves `wait`; the model then stops in "spin" or "wait". A driver told to
exit returns into a second main loop, of which only the polling is modelled
(`Steal`); the user is assumed to type nothing after `exit`. `CaughtUp` says that
the manager, which polls every 100 ms, has emptied the queue before a sleep of
one second is over. `Created` starts with `next` NULL and `exit` 0, which the code
does not set: the manager frees nothing, so malloc gives memory never used before,
and that is zero.

### TcpPool

Five pool threads bind their ports when they start; registr hands a client the
first port whose flag `average` is 0, and the thread raises that flag only after
the client has connected to the port. `backlog[i]` holds the connections that
wait in `listen`. A client that is sent no port stays in `recv`: its socket is
never closed. Clients run on once they are started: `Dial` is the second connect
and the request in one step (client_2.c:54, 62). This is an assumption about the
environment; a client that stopped in between would keep its thread in recv
(server_2.c:55), and its backlog and the shutdown would wait behind it. The same is
assumed of the clients of `TcpThreads`. `alone` is a history variable: "yes" while every client started only
when no other was under way.

### TcpThreads, EpollServer and TimeServers

In `server_1.c` registr puts the next port in its variable `threads`, starts a
thread with the address of that variable, and writes the next port over it when
the next client comes. `Store`, `CreateThread`, `SendPort` and the thread's
`ReadPort` are steps of their own; a port that two threads read is bound by the
first, and the second ends the process (`BindFails`; a port in TIME_WAIT may fail
as well). A client sleeps for a second before it dials, by when its thread has
come to wait: that is the second assumption of `TcpThreads` (`Slept`). After its last client registr calls exit(0) at once, so
that client is as a rule not served: `ServedWhenAlone` ends there.

`server_4.c` is one loop: `Poll` returns the ready sockets in some order, and each
event is handled to its end. `ServeTcp` waits for the client's line. A client
that is stopped with its connection open (`Stop`) therefore holds up everybody,
and `Waits` excuses that case.

All of them bind port 48888. `TimeServers` instantiates the three modules with
variables of their own and chooses at the start which program runs.

### MsgChat

`mgmt_msg` is the common queue and `waiting` the receivers blocked on it, longest
first; `SendFrom` hands a message to the first of them, `Receive` takes the first
message whoever it is for. So a client may read a name as its id (`Wild`), and the
server may read the id it has just sent and register it as the name of a
subscriber ("digit"). A registration is four steps (`SeeName` puts a zeroed entry
in `sub[]`, `SetId`, `SetNew`, `Answer`) because chat_server reads the table
meanwhile (`Walk`, `Test`). `text_snd` has a limit, at which msgsnd waits; a message
of type 0 is refused. mgmt_thread names two queues that are variables of
chat_server (server_func.c:40-41), so that the file does not compile as it is;
they are taken to be those queues.

An empty line has no first word, so strtok returns NULL and strcmp crashes the
client (server_func.c:136-138): `TypeNothing`. It says no exit, its entry stays, and
the lines for it are never taken from the queue, which in the end blocks
chat_server for all; so the chat is calm no more. `MaxLines` is at most 99, as
history[100] has no check (server_func.c:75).

Two history variables say how far the promises go. `orderly` is "yes" until a
message reaches somebody it is not for, or somebody leaves who is not the newest
subscriber or does so while the server is busy. `calm` adds that nobody has left
or crashed and that chat_server has read no half-filled entry. Beyond that the model goes on
and shows, among others: two clients with one id (enter, enter, first leaves,
enter); a server that never ends (the first to enter leaves first, then the
search of the second one's exit stops before its entry); a crash in strdup(NULL)
(two free places below the count); a run on `sub[]` when the server answers
itself; lines for somebody who has left that fill the queue and stop the chat. No
comment of the code speaks of these, so they are hazards and not findings.

### ShmChat

Three blocks of shared memory, each with a semaphore: `mgmt_msg` for names and
ids, `msg_rcv` for lines on their way to the server, `msg_snd` for a message on
its way to the client with `id_sub`. mgmt_thread and chat_server each have a
program counter (`mpc`, `tpc`), each client has three (`cpc`, `spc`, `rpc`).
Loads made without the semaphore are steps of their own, and the writes to a
block are split where another thread polls it. `Lock`, `Unlock` and `SetVal` are
semop and SETVAL; on a removed semaphore they change nothing, as the code ignores
the error, except where a client's main looks at it (`NameFails`). `undo` is what
SEM_UNDO keeps. `removed` holds block and semaphore together. `count_sub` and a
new entry of `sub[]` are not initialised: the first is taken as 0, the entry's
fields as any value. A line is `<<c, k>>`, a message a sequence of lines.

`QuietStart` (TRUE in the runs) is the environment: a client is started when
nothing is on its way, and users type when nobody is coming in. The code does not
enforce it, and a start in a busy chat resets semaphores that are held. `calm` is
a history variable: "yes" until somebody leaves or a start meets a busy chat.
After the first has left the code is beyond repair: the blocks are removed under
the others, messages for the one who left are never taken, and the next who
leaves fails; the model follows all that, and the properties end there.

### ListBook

`heap` gives each block its record, `live` the blocks that are allocated; `first`,
`last` and `count` are struct inform, `ptr` is the variable of whichever loop runs
(`pc`), and each turn of a loop is an action. `book` is what the user expects,
`shown` what the current search or print has put out. `Sieve` gives what a search
or a delete leaves of the book; `IsList` says what a list is.

What free and malloc do to a block matters, because the loops read records that
are freed. It is external, as glibc does it since 2.32 with blocks of this size
(`Free`, `Malloc`). free puts a block on the tcache and overwrites its first two
words, prev and the head of name, with a link and a key, so that the record
matches no name. The tcache takes `TcacheMax` blocks (7); the next one goes to a
fastbin, where only the first word is lost. malloc takes from the tcache, then
from the fastbin, and moves the rest of it to the tcache; a block comes back with
its old `next`. free notices a block that still has the key or is on top of the
fastbin and ends the program (`Caught`, `DoubleFree`). It does not notice one whose
key was overwritten, as when an add writes a name into main's first record, which
a delete has freed (dinamic_mem_func.c:11). That block is then on a list twice;
from there on (`ruined` above 0, `Damaged`) malloc may give any block, and a call
may miss an error or crash.

So the list goes wrong in three ways. A block that was freed in the middle of the
list comes back with its old `next`, which closes a ring (add three, delete the
second, add one: a search no longer ends). Every add walks from the record main
allocated, although a delete may have freed it. In both cases `stale` is TRUE, and
of the properties only the types go on. And with the tcache full, a first record that is freed keeps
its name, is looked at again after "continue" (dinamic_mem_func.c:65) and is
unlinked through a NULL or wild prev: `Crash` (add eight records with one name,
delete the name). This needs no stale list; `NoBadPointer` states it as its one
exception: a freed record matches again, and the program crashes on it, only when
the tcache is full. No comment of the code speaks of any of this, so they are
hazards and not findings.

### ArrayBook

`list` holds the names, `count` how many records the loops look at; it is not the
number of records. The array is on main's stack and starts with empty names or
garbage. A delete writes "0" over a name and lowers `count`; an add into such a
place leaves `count` as it is. So one record may be deleted without harm
(`ShowsRecords`), a second delete may push `count` below a record that is then
shown no more, and after the first delete `count` never rises (`NeverGrowsAgain`).

### Shell

`ends` is which ends of the pipe the shell (0) and its two children have open.
`Fork(i)` hands the shell's ends on or fails without notice, `CloseEnds` closes
both, `Wait` returns with a child that has ended or at once when there is none.
The first command blocks on a full pipe for as long as somebody has the reading
end open, and nobody reads, which is why the shell must close its own ends
before it waits. The second command never runs: chanel_3 copies it behind the
separator and leaves tmp_args_2[0] unset (chanel_3_func.c:89-90), so its execvp
fails (`ExecFails(2)`). `process_3` never waits for what it starts (`unwaited`); `chanel_3` ends itself after a
command without a pipe (chanel_3_func.c:138), and a line of blanks crashes both
(`Leave`). Left out: fgets at the end of the input, and a pipe(2) that fails.

`UserPrograms` composes the three sequential programs: the user starts one.

## Runs, bounds, fairness

| run | question | bounds |
|---|---|---|
| `raw_serial` | one claim per slot, numbering, the pool of sessions, under faults; answers without | 3 clients, 2 workers, 2 lines, 1 fault: more clients than workers, each worker reused, a fault at every point |
| `raw_concurrent` | exclusive ports when clients connect together: violated | 2 clients |
| `udp_lives` | ownership of the record without a lock, answers | 3 clients, 2 workers, 2 stops: a stop by the server and one by the user, three lives |
| `udp_restart` | memory and semaphore start together: violated | 2 clients, 1 stop |
| `market` | atomic purchases, conservation, freeing, end | 2 buyers, 2 markets, 3 visits of the supplier |
| `drivers` | overwork, busy shown, end reported | 2 drivers, 2 tasks of 0 or 2 seconds |
| `drivers_busy` | a busy driver is refused: violated | 1 driver, 3 tasks |
| `time_servers` | a port or a thread for each client, answers, shutdown | 3 clients, 2 pool threads, 2 datagram clients, 1 fault; the server ends after its last client or outlives them all |
| `msg_chat` | ids, order, delivery, end | 3 places, a queue of 1 line; 3 clients that come and go, or 2 of them that type 2 lines; any of them may crash |
| `shm_calm` | lock discipline, ids, order and delivery in a calm chat | 2 clients, 2 lines or exits: two lines of one user or of two, a line that meets a leave, two who leave |
| `shm_leaver` | the one who left is deleted: violated | 2 clients |
| `user_programs` | the list is the book, no bad pointer, nothing leaks, the array shows its records, loops and pipes end | list: 4 blocks, 2 names, at most 4 records at once (`Capacity` 3): the first, two neighbours in the middle and the last, with equal names in every arrangement; a tcache of 1 block, so that one delete fills it and the next meets the fastbin, and 3 calls of malloc and free once a free list is damaged; array: 5 records; shell: 4 lines, a history of 2, a pipe of 1 piece and 2 to write |

Two is enough where a property speaks of pairs (two clients on one worker, two
workers on one record, a buyer against the supplier, a reader and a writer of an
entry); a third client makes a reused worker, a full pool and two free places in
`sub[]` happen. In `msg_chat` mgmt_thread depends on nothing chat_server does, so
three clients without lines see all registrations, and two with lines all
overlaps with them. Every property of a passing run is broken by at least one of
the marked mutants under the same bounds, so no bound hides the case the property
is about.

Fairness is weak: a thread that can run eventually runs, which is what the
kernel's scheduler gives. Where every step can happen only a bounded number of
times one condition for all steps of the program is stated (`TimeServers`,
`MsgChat`, `UserPrograms`): it forces no more than one per thread. Nothing forces
a user to start a client, type a line, interrupt or restart. Mutexes are not
fair, and no property needs them to be. Deadlock is not checked because every
model has quiet states: users who type no more, programs that have ended.

Findings: the places where TLC shows the code doing something other than its
comments or messages say, each with its run, are in PROJECT.json "findings".

## Proofs

TLAPS checks, for every number of clients, workers, buyers, markets and every
bound:

* `RawServerProofs`: `TypeCorrect`; and from `OneAtATime`, `SlotsClaimedOnce`,
  `PortsExclusive`, `PoolImplemented` and `EchoesNumbered`. `PortExclusive` is not
  inductive: whether a slot may be handed out depends on what is under way. The
  invariant counts the claims on a slot (the scan's pending answer, an offered
  port, a session, an exit frame still in the inbox) and says that there is at
  most one and that a claimed slot is marked working; `OneAtATime` gives that an
  offer has one taker. The refinement follows from it step by step. `Counted`
  extends it for the numbers: a slot nobody claims has an empty socket and a
  counter of 1, and in a session counter, socket and client go in step.
* `UdpTimeServerProofs`: `TypeCorrect`, and `RecordHasOneOwner` with its
  corollaries `WokenFindsMessage` and `WokenAlone`. `OneOwner` is the invariant:
  registr, the semaphore and a woken worker own record 0 one after another.
  `AnsweredOnce` follows the requests of one client: `OneRequest` says that each is
  in one place (the socket, registr, or record 0 until it is answered), that the
  sender of an answered one is in none, and that registr's copy is whole.
* `MarketProofs`: `TypeCorrect`; `MarketsSafe`, where the lock discipline
  (`Guarded`) is what makes the amounts stay non-negative; `MarketImplementsAtomic`:
  from `Guarded`, a buyer between its two updates is alone in its market, so its
  first update is the abstract `Buy` and the second a stutter; `FreedLast`.
  `NothingLost`: what a waiting thread would see adds up after every step
  (`AddsUp`), as the refinement says how each step changes it; what one change
  does to a sum is shown by induction on the size of the set (`TotalChanges`).
* `DriverManagerProofs`: `TypeCorrect`, where a driver that works has a timer that
  is not 0 (`AtWork`). `NobodyOverworked`, from the constant `Prompt`: a claim is a
  pair of a driver and a second k that the driver's task, or a message for it on
  the way, still asks for; `Paid` says that the seconds worked and the claims
  together are no more than was ordered. That a report on its way is no claim is
  the point: its driver works or naps until the report is taken. `BusyShown`:
  `Honest` says that every message that asks for work says busy, `Sole` that all
  messages are the only driver's and that the last of them, which is the one the
  manager applies over and over, says busy while the driver naps. It needs no
  premise about speed.
* `TimeServersProofs`, for the pool: `TypeCorrect`, where the loops over `threads[]`
  stay within it, and `PortsNewWhenAlone`. Its invariant says that the one client
  under way is in one place at a time (waiting, being scanned for, in a backlog,
  with a thread) and that a thread's flag is up from the service to the end of
  its sleep: so a flag that reads 0 belongs to a thread without a client. For the
  three servers: `ServersTypeCorrect`, where epoll's list of ready sockets holds two
  at most; `OwnThreads`, whose invariant `OneEach` says where registr
  is with the client under way, that thread i is made for the i-th port and reads
  it before registr writes the next (`MadeFor`, `Follows`); `EachByItself`, which
  carries what is proved of one server over to the composition.
* `MsgChatProofs`: `TypeCorrect`, where the search for a leaver stays in `sub[]`;
  `IdsApart` from `Orderly` (the entries are numbered by their places, a client has
  the id of its own entry or is about to, and the newest entry is the one that
  goes); `LinesInOrder` from `Calm` (a subscriber has printed the first lines of what
  chat_server has sent it, and the rest is in the queue, in turn).
* `ShmChatProofs`: `TypeCorrect`, which holds in any chat, also after a start in the
  middle of things and after the blocks are removed; it needs `Within` (what a thread
  is about to read is there) and `Subscribed` (an id or an exit in mgmt_msg means
  there is an entry). The other four are about a calm chat and come from one
  invariant, `Steady`. `OneInside`: `AllGuarded` says that a semaphore is 1 with
  nobody inside its block and 0 with one; it is not inductive alone, because a start
  sets the semaphores to 1, so `Joining` says that while one client comes in nobody
  else is inside a block. `IdsApart`: `Exchange` follows mgmt_msg from the name to the
  id that is taken, so that the id is that of the newest entry, and `Numbered` says
  that an entry's id is its place. `HistoryInOrder`: `Taking` says when msg_rcv is
  empty, `Handing` when msg_snd is and for whom it is full, `Sent` counts what
  chat_server has sent an entry from where it stands in its walk; `Delivered`
  says that a client has printed as many messages, or one less while the last is in
  the block. `LineStays`: `OnePlace`, with every line of a message distinct.
* `UserProgramsProofs`, for arrays and heaps of any size: `ProgramsTypeCorrect`.
  `RecordsShown` and `BookShrinks` for the array: the invariant says what `count` is:
  with the deletes it counts the records ever filled. They come first in the array,
  and what lies behind them is as main found it; what a finished listing has shown
  is what its loop bound allows. For the list the
  invariant (`ListInv`) has four parts: the types; `Fits`, which holds whatever memory
  the list depends on (an add runs only while the count leaves room); and two that
  hold until `stale`. `ListOK`: some sequence of blocks is the list, has the names of the
  book and holds whatever is allocated, and the loop that runs stands somewhere in
  it; while a delete runs the names are those of the book and the ones still to be
  deleted. A delete cuts one member out of the sequence (`CutLists`), and what a
  sieve keeps is not changed by that (`SieveCut`, by induction over the length).
  `BookKept` follows. `Sound` is about the free lists: no block on
  one is allocated, and none is on two or on one twice (`FreeSound`, `MallocSound`).
  So malloc gives a block the list does not have, and a block that is freed was
  allocated. `PointersHold` needs both: a record that matches and is allocated is a
  member of the sequence, its neighbours are members, and one that matches although
  it is freed met a full tcache. The types of the shells come with a
  count of the children that nobody has waited for (`ShellInvariant`).

The only assumptions are the named ASSUMEs on constants, which TLC evaluates in
every run, among them that there are finitely many buyers and markets;
`OneAtATime`, `Prompt` and the history variables `alone`, `stops`, `orderly`,
`calm`, `deletes` and `stale` are premises of the properties that name them. The inductive
invariants were checked by TLC on the instances of the runs before they were
proved. Liveness (`Answered`, `AnsweredWhenCalm`, `Ends`, `EndReported`,
`EveryoneServed`, `ShutdownEnds`, `Reaches`, `ServerEnds`, `Settles`,
`OperationsEnd`) and ENABLED are out of TLAPS's reach and model-checked only. Every
safety property of a passing run is proved.

## Plan

The driver manager's second main loop (a driver told to exit), which is modelled
as far as it takes messages.

## Not modelled

* The exercises of `homework_1` to `_3`: each is one pass over an array or a
  string, with no state to keep; a model would be the program again.
* Calculators (`homework_7`, `_8`): nothing is kept.
* The directory browser: ncurses output of what readdir returns.
* The demonstrations of one system call (`homework_10`, `_12`, `_15`) and the pairs of
  programs that exchange one message (`homework_13`, `_14`, `_16`): one step each.
* The notes of `homework_17` to `_20`: no program.
* Of the driver manager: get_status and get_drivers, which only print.
