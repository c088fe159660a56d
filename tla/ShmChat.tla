------------------------------- MODULE ShmChat -----------------------------
(***************************************************************************)
(* The chat over shared memory of homework_14/task2: the two threads of    *)
(* the server (mgmt_thread, chat_server) and the three of each client      *)
(* (main, chat_client_snd, chat_client_rcv).                               *)
(*                                                                         *)
(* Three blocks of memory are shared: mgmt_msg, where a client leaves its  *)
(* name and gets its id; msg_rcv, where clients put what was typed; and    *)
(* msg_snd, where the server puts a message for the client with id_sub.    *)
(* Each block has a semaphore.  Readers poll a block without taking it,    *)
(* every client sets the semaphores back to 1 when it starts, and the      *)
(* first client that leaves removes two of the blocks.                     *)
(*                                                                         *)
(* A line that client c types is <<c, k>>; a message is a sequence of      *)
(* lines, because strcat adds a line to what is not yet taken.  A name is  *)
(* the client itself, or "empty", the string of length 0.                  *)
(***************************************************************************)
EXTENDS Integers, Sequences, FiniteSets

CONSTANTS
    Clients,     \* the client processes (client_system_v.c)
    QuietStart,  \* TRUE: a client starts in a quiet chat, nobody types or leaves meanwhile
    MaxInputs    \* bound: lines and exits all users together type

ASSUME QuietAssumption == QuietStart \in BOOLEAN
ASSUME BoundAssumption == MaxInputs \in Nat
ASSUME NamesAssumption == {"empty", "exit", "unset"} \cap Clients = {}

VARIABLES
    mpc,          \* where mgmt_thread is
    slot,         \* its loop variable i, counted from 1
    count_sub,    \* its count of subscribers
    tpc,          \* where chat_server is
    number_sub,   \* its index in sub[], counted from 1
    number_hist,  \* its index in history[], counted from 1
    history,      \* the messages it has taken
    sub,          \* the entries of sub[] that are not NULL
    mgmt_msg, msg_rcv, msg_snd,  \* the shared blocks
    sem,          \* values of their semaphores
    removed,      \* blocks removed from the system (IPC_RMID)
    undo,         \* the adjustment SEM_UNDO keeps for client c on mgmt_msg's semaphore
    cpc,          \* where client c's main is
    spc,          \* where its chat_client_snd is
    rpc,          \* where its chat_client_rcv is
    id,           \* its user.id
    typed,        \* how many lines its user has typed
    screen,       \* the messages it has printed
    inputs,       \* how often some user has typed something
    calm          \* history: "yes" until somebody leaves or a start meets a busy chat

mgmtVars == <<mpc, slot, count_sub>>
walk == <<number_sub, number_hist, history>>
chatVars == <<tpc, walk>>
blocks == <<mgmt_msg, msg_rcv, msg_snd>>
sems == <<sem, removed, undo>>
server == <<mgmtVars, chatVars, sub>>
input == <<typed, inputs, calm>>
clientVars == <<cpc, spc, rpc, id, screen, input>>
vars == <<server, blocks, sems, clientVars>>

Blocks == {"mgmt", "rcv", "snd"}

\* Both threads of the server have made their blocks and set the semaphores; the
\* counter count_sub, which the code leaves as it finds the stack, is 0.
Init ==
    /\ mpc = "poll" /\ slot = 1 /\ count_sub = 0
    /\ tpc = "poll" /\ number_sub = 1 /\ number_hist = 1 /\ history = <<>>
    /\ sub = <<>>
    /\ mgmt_msg = [id_sub |-> 0, msg |-> "empty"]
    /\ msg_rcv = [id_sub |-> 0, msg |-> <<>>]
    /\ msg_snd = [id_sub |-> 0, msg |-> <<>>]
    /\ sem = [b \in Blocks |-> 1] /\ removed = {}
    /\ undo = [c \in Clients |-> 0]
    /\ cpc = [c \in Clients |-> "off"]
    /\ spc = [c \in Clients |-> "off"] /\ rpc = [c \in Clients |-> "off"]
    /\ id = [c \in Clients |-> 0]
    /\ typed = [c \in Clients |-> 0] /\ screen = [c \in Clients |-> <<>>]
    /\ inputs = 0 /\ calm = "yes"

-----------------------------------------------------------------------------
(* Semaphores.  A call on a removed one fails at once and changes nothing;  *)
(* nobody looks at the result except a client's main on its first two.      *)

CanLock(b) == b \in removed \/ sem[b] > 0

Taken(b) == IF b \in removed THEN sem ELSE [sem EXCEPT ![b] = @ - 1]

Lock(b) == CanLock(b) /\ sem' = Taken(b)

NotGivenBack(b) == UNCHANGED sem     \* mutant of Unlock
Unlock(b) == sem' = IF b \in removed THEN sem ELSE [sem EXCEPT ![b] = @ + 1]

\* SETVAL, which also clears the adjustments of all processes.
SetVal(b) ==
    /\ sem' = [sem EXCEPT ![b] = 1]
    /\ undo' = IF b = "mgmt" THEN [c \in Clients |-> 0] ELSE undo

\* LOCK and UNLOCK of a client's main carry SEM_UNDO.
Undoing(c, n) == undo' = IF "mgmt" \in removed THEN undo ELSE [undo EXCEPT ![c] = @ + n]

-----------------------------------------------------------------------------
(* mgmt_thread                                                              *)

\* The id is read first: 0 may go with a new name, any other with "exit".
SeeId ==
    /\ mpc = "poll"
    /\ mpc' = IF mgmt_msg.id_sub = 0 THEN "name" ELSE "text"
    /\ UNCHANGED <<slot, count_sub, chatVars, sub, blocks, sems, clientVars>>

SeeNothing ==
    /\ \/ mpc = "name" /\ mgmt_msg.msg = "empty"
       \/ mpc = "text" /\ mgmt_msg.msg # "exit"
    /\ mpc' = "poll"
    /\ UNCHANGED <<slot, count_sub, chatVars, sub, blocks, sems, clientVars>>

AnySlot(i) == TRUE                     \* mutant of Vacant
Vacant(i) == i \in DOMAIN sub => sub[i].name = "empty"

\* A name: the first vacant slot below the new count is its place.  A new entry
\* is in sub[] before its fields are set.
SeeName ==
    /\ mpc = "name" /\ mgmt_msg.msg # "empty"
    /\ count_sub' = count_sub + 1
    /\ \E i \in 1 .. count_sub' :
        /\ Vacant(i) /\ \A j \in 1 .. i - 1 : ~Vacant(j)
        /\ slot' = i
        /\ sub' \in IF i \in DOMAIN sub THEN {sub}
                   ELSE {Append(sub, [id |-> g, name |-> "unset", new_sub |-> n]) :
                             g \in 0 .. count_sub', n \in {0, 1}}
    /\ mpc' = "add"
    /\ UNCHANGED <<chatVars, blocks, sems, clientVars>>

\* A new entry gets the count as its id, a reused one keeps what it has.
IdOf(e) == IF e.name = "unset" THEN count_sub ELSE e.id

AddSubscriber ==
    /\ mpc = "add" /\ Lock("mgmt")
    /\ sub' = [sub EXCEPT ![slot] = [id |-> IdOf(@), name |-> mgmt_msg.msg, new_sub |-> 1]]
    /\ mgmt_msg' = [mgmt_msg EXCEPT !.id_sub = IdOf(sub[slot])]
    /\ mpc' = "wipe"
    /\ UNCHANGED <<slot, count_sub, chatVars, msg_rcv, msg_snd, removed, undo, clientVars>>

WipeName ==
    /\ mpc = "wipe" /\ Unlock("mgmt")
    /\ mgmt_msg' = [mgmt_msg EXCEPT !.msg = "empty"]
    /\ mpc' = "poll"
    /\ UNCHANGED <<slot, count_sub, chatVars, sub, msg_rcv, msg_snd, removed, undo, clientVars>>

\* The test "=" assigns: the first entry is the one to delete, whoever leaves.
SeeExit ==
    /\ mpc = "text" /\ mgmt_msg.msg = "exit"
    /\ slot' = 1
    /\ mgmt_msg' = [mgmt_msg EXCEPT !.id_sub = sub[1].id]
    /\ mpc' = "delete"
    /\ UNCHANGED <<count_sub, chatVars, sub, msg_rcv, msg_snd, sems, clientVars>>

DeleteSubscriber ==
    /\ mpc = "delete" /\ Lock("mgmt")
    /\ sub' = [sub EXCEPT ![slot].name = "empty"]
    /\ count_sub' = count_sub - 1
    /\ mgmt_msg' = [id_sub |-> 0, msg |-> "empty"]
    /\ mpc' = "deleted"
    /\ UNCHANGED <<slot, chatVars, msg_rcv, msg_snd, removed, undo, clientVars>>

Deleted ==
    /\ mpc = "deleted" /\ Unlock("mgmt")
    /\ mpc' = IF count_sub = 0 THEN "end" ELSE "poll"
    /\ UNCHANGED <<slot, count_sub, chatVars, sub, blocks, removed, undo, clientVars>>

\* It removes its block and raises mgmt_exit.
MgmtEnd ==
    /\ mpc = "end"
    /\ removed' = removed \cup {"mgmt"}
    /\ mpc' = "done"
    /\ UNCHANGED <<slot, count_sub, chatVars, sub, blocks, sem, undo, clientVars>>

MgmtThread ==
    \/ SeeId \/ SeeNothing \/ SeeName \/ AddSubscriber \/ WipeName
    \/ SeeExit \/ DeleteSubscriber \/ Deleted \/ MgmtEnd

-----------------------------------------------------------------------------
(* chat_server                                                              *)

\* A line is seen in the block; mgmt_exit is looked at first.
SeeLine ==
    /\ tpc = "poll" /\ mpc # "done" /\ msg_rcv.id_sub > 0
    /\ tpc' = "take"
    /\ UNCHANGED <<mgmtVars, walk, sub, blocks, sems, clientVars>>

TakeMessage ==
    /\ tpc = "take" /\ Lock("rcv")
    /\ history' = Append(history, msg_rcv.msg)
    /\ number_sub' = 1
    /\ tpc' = "each"
    /\ UNCHANGED <<mgmtVars, number_hist, sub, blocks, removed, undo, clientVars>>

\* The next entry of sub[]: a new subscriber gets all of history[].
NextSubscriber ==
    /\ tpc = "each" /\ number_sub <= Len(sub)
    /\ \/ /\ sub[number_sub].new_sub = 1
          /\ number_hist' = 1 /\ tpc' = "history"
       \/ /\ sub[number_sub].new_sub = 0
          /\ tpc' = "send" /\ UNCHANGED number_hist
    /\ UNCHANGED <<mgmtVars, number_sub, history, sub, blocks, sems, clientVars>>

AnyTime == TRUE                        \* mutant of BlockEmpty
BlockEmpty == msg_snd.msg = <<>>

\* It waits until the last message is taken, and reads new_sub again.
SendWaits ==
    /\ tpc = "send" /\ ~BlockEmpty
    /\ tpc' = "each"
    /\ UNCHANGED <<mgmtVars, walk, sub, blocks, sems, clientVars>>

Ready ==
    /\ tpc \in {"send", "history"} /\ BlockEmpty
    /\ tpc = "history" => number_hist <= Len(history)
    /\ tpc' = IF tpc = "send" THEN "send id" ELSE "history id"
    /\ UNCHANGED <<mgmtVars, walk, sub, blocks, sems, clientVars>>

\* The receiver's id, then the text.
PutId ==
    /\ tpc \in {"send id", "history id"} /\ Lock("snd")
    /\ msg_snd' = [msg_snd EXCEPT !.id_sub = sub[number_sub].id]
    /\ tpc' = IF tpc = "send id" THEN "send text" ELSE "history text"
    /\ UNCHANGED <<mgmtVars, walk, sub, mgmt_msg, msg_rcv, removed, undo, clientVars>>

PutMessage ==
    /\ tpc = "send text" /\ Unlock("snd")
    /\ msg_snd' = [msg_snd EXCEPT !.msg = msg_rcv.msg]
    /\ number_sub' = number_sub + 1
    /\ tpc' = "each"
    /\ UNCHANGED <<mgmtVars, number_hist, history, sub, mgmt_msg, msg_rcv, removed, undo, clientVars>>

PutHistory ==
    /\ tpc = "history text" /\ Unlock("snd")
    /\ msg_snd' = [msg_snd EXCEPT !.msg = @ \o history[number_hist]]
    /\ number_hist' = number_hist + 1
    /\ tpc' = "history"
    /\ UNCHANGED <<mgmtVars, number_sub, history, sub, mgmt_msg, msg_rcv, removed, undo, clientVars>>

HistorySent ==
    /\ tpc = "history" /\ number_hist > Len(history)
    /\ sub' = [sub EXCEPT ![number_sub] = [@ EXCEPT !.new_sub = 0]]
    /\ number_sub' = number_sub + 1
    /\ tpc' = "each"
    /\ UNCHANGED <<mgmtVars, number_hist, history, blocks, sems, clientVars>>

LineKept == msg_rcv.msg                \* mutant of WipedLine
WipedLine == <<>>

WipeLine ==
    /\ tpc = "each" /\ number_sub > Len(sub)
    /\ msg_rcv' = [msg_rcv EXCEPT !.msg = WipedLine]
    /\ tpc' = "clear"
    /\ UNCHANGED <<mgmtVars, walk, sub, mgmt_msg, msg_snd, sems, clientVars>>

ClearLine ==
    /\ tpc = "clear" /\ Unlock("rcv")
    /\ msg_rcv' = [msg_rcv EXCEPT !.id_sub = 0]
    /\ tpc' = "poll"
    /\ UNCHANGED <<mgmtVars, walk, sub, mgmt_msg, msg_snd, removed, undo, clientVars>>

\* mgmt_exit is set: the thread removes its blocks.
ChatEnd ==
    /\ tpc = "poll" /\ mpc = "done"
    /\ removed' = removed \cup {"rcv", "snd"}
    /\ tpc' = "done"
    /\ UNCHANGED <<mgmtVars, walk, sub, blocks, sem, undo, clientVars>>

ChatServer ==
    \/ SeeLine \/ TakeMessage \/ NextSubscriber \/ SendWaits \/ Ready \/ PutId
    \/ PutMessage \/ PutHistory \/ HistorySent \/ WipeLine \/ ClearLine \/ ChatEnd

-----------------------------------------------------------------------------
(* The client.                                                              *)

\* Between its start and the moment both threads poll.
Registering(c) ==
    \/ cpc[c] \in {"enter", "named", "wait", "answered", "taken"}
    \/ spc[c] = "init" \/ rpc[c] = "init"

NobodyRegisters == \A c \in Clients : ~Registering(c)

\* Nothing is on its way: each block is empty, nobody fills one or leaves.
Quiet ==
    /\ mpc \notin {"add", "wipe", "delete"} /\ mgmt_msg.msg = "empty"
    /\ tpc = "poll" /\ msg_rcv.id_sub = 0 /\ BlockEmpty
    /\ NobodyRegisters
    /\ \A c \in Clients :
        /\ spc[c] \notin {"line", "text"} /\ rpc[c] \notin {"wipe", "clear"}
        /\ spc[c] = "done" => cpc[c] = "gone"

AtLeastZero(n) == IF n < 0 THEN 0 ELSE n

\* A process that ends gives back what SEM_UNDO has noted.
Undone(c) ==
    IF "mgmt" \in removed THEN sem ELSE [sem EXCEPT !["mgmt"] = AtLeastZero(@ + undo[c])]

\* exit(1) in any of its threads ends the process; other semaphores stay taken.
Dies(c) ==
    /\ cpc' = [cpc EXCEPT ![c] = "dead"]
    /\ spc' = [spc EXCEPT ![c] = "dead"] /\ rpc' = [rpc EXCEPT ![c] = "dead"]
    /\ sem' = Undone(c)
    /\ undo' = [undo EXCEPT ![c] = 0]
    /\ UNCHANGED <<id, typed, screen>>

\* Every client sets the semaphore to 1, whoever holds it.
Start(c) ==
    /\ cpc[c] = "off" /\ "mgmt" \notin removed
    /\ QuietStart => Quiet
    /\ SetVal("mgmt")
    /\ cpc' = [cpc EXCEPT ![c] = "enter"]
    /\ calm' = IF Quiet THEN calm ELSE "no"
    /\ UNCHANGED <<server, blocks, removed, spc, rpc, id, typed, screen, inputs>>

\* The name is read through a pointer that was never set.
NameCrash(c) ==
    /\ cpc[c] = "enter" /\ Dies(c)
    /\ UNCHANGED <<server, blocks, removed, inputs, calm>>

LeaveName(c) ==
    /\ cpc[c] = "enter" /\ "mgmt" \notin removed
    /\ Lock("mgmt") /\ Undoing(c, 1)
    /\ mgmt_msg' = [mgmt_msg EXCEPT !.msg = c]
    /\ cpc' = [cpc EXCEPT ![c] = "named"]
    /\ UNCHANGED <<server, msg_rcv, msg_snd, removed, spc, rpc, id, screen, input>>

Named(c) ==
    /\ cpc[c] = "named" /\ "mgmt" \notin removed
    /\ Unlock("mgmt") /\ Undoing(c, -1)
    /\ mgmt_msg' = [mgmt_msg EXCEPT !.id_sub = 0]
    /\ cpc' = [cpc EXCEPT ![c] = "wait"]
    /\ UNCHANGED <<server, msg_rcv, msg_snd, removed, spc, rpc, id, screen, input>>

\* The server has ended: these two calls of semop are looked at.
NameFails(c) ==
    /\ cpc[c] \in {"enter", "named"} /\ "mgmt" \in removed
    /\ mgmt_msg' = IF cpc[c] = "named" THEN [mgmt_msg EXCEPT !.id_sub = 0] ELSE mgmt_msg
    /\ Dies(c)
    /\ UNCHANGED <<server, msg_rcv, msg_snd, removed, inputs, calm>>

\* It spins until there is an id, which need not be its own.
SeeAnswer(c) ==
    /\ cpc[c] = "wait" /\ mgmt_msg.id_sub >= 1
    /\ cpc' = [cpc EXCEPT ![c] = "answered"]
    /\ UNCHANGED <<server, blocks, sems, spc, rpc, id, screen, input>>

TakeId(c) ==
    /\ cpc[c] = "answered" /\ Lock("mgmt") /\ Undoing(c, 1)
    /\ id' = [id EXCEPT ![c] = mgmt_msg.id_sub]
    /\ cpc' = [cpc EXCEPT ![c] = "taken"]
    /\ UNCHANGED <<server, blocks, removed, spc, rpc, screen, input>>

\* The id goes back to 0 and the two threads start.
IdTaken(c) ==
    /\ cpc[c] = "taken" /\ Unlock("mgmt") /\ Undoing(c, -1)
    /\ mgmt_msg' = [mgmt_msg EXCEPT !.id_sub = 0]
    /\ cpc' = [cpc EXCEPT ![c] = "chat"]
    /\ spc' = [spc EXCEPT ![c] = "init"] /\ rpc' = [rpc EXCEPT ![c] = "init"]
    /\ UNCHANGED <<server, msg_rcv, msg_snd, removed, id, screen, input>>

\* Both threads have ended.
SayExit(c) ==
    /\ cpc[c] = "chat" /\ spc[c] = "done" /\ rpc[c] = "done"
    /\ Lock("mgmt") /\ Undoing(c, 1)
    /\ mgmt_msg' = [mgmt_msg EXCEPT !.msg = "exit"]
    /\ cpc' = [cpc EXCEPT ![c] = "exiting"]
    /\ UNCHANGED <<server, msg_rcv, msg_snd, removed, spc, rpc, id, screen, input>>

\* UNLOCK adds one to the semaphore and takes one from the adjustment, which the
\* end of the process adds.
Exited(c) ==
    /\ cpc[c] = "exiting"
    /\ sem' = Undone(c) /\ undo' = [undo EXCEPT ![c] = 0]
    /\ mgmt_msg' = [mgmt_msg EXCEPT !.id_sub = id[c]]
    /\ cpc' = [cpc EXCEPT ![c] = "gone"]
    /\ UNCHANGED <<server, msg_rcv, msg_snd, removed, spc, rpc, id, screen, input>>

ClientMain(c) ==
    \/ LeaveName(c) \/ Named(c) \/ NameFails(c) \/ SeeAnswer(c) \/ TakeId(c) \/ IdTaken(c)
    \/ SayExit(c) \/ Exited(c)

-----------------------------------------------------------------------------
(* chat_client_snd                                                          *)

SndInit(c) ==
    /\ spc[c] = "init" /\ "rcv" \notin removed
    /\ SetVal("rcv")
    /\ spc' = [spc EXCEPT ![c] = "type"]
    /\ UNCHANGED <<server, blocks, removed, cpc, rpc, id, screen, input>>

\* A thread finds no block to attach and no semaphore to set: exit(1).
ThreadFails(c) ==
    /\ \/ spc[c] = "init" /\ "rcv" \in removed
       \/ rpc[c] = "init" /\ "snd" \in removed
    /\ Dies(c)
    /\ UNCHANGED <<server, blocks, removed, inputs, calm>>

\* A user types a line or exit.
Input ==
    /\ inputs < MaxInputs /\ inputs' = inputs + 1
    /\ QuietStart => NobodyRegisters

Type(c) ==
    /\ spc[c] = "type" /\ Input
    /\ typed' = [typed EXCEPT ![c] = @ + 1]
    /\ spc' = [spc EXCEPT ![c] = "line"]
    /\ calm' = IF NobodyRegisters THEN calm ELSE "no"
    /\ UNCHANGED <<server, blocks, sems, cpc, rpc, id, screen>>

LockLine(c) ==
    /\ spc[c] = "line" /\ Lock("rcv")
    /\ msg_rcv' = [msg_rcv EXCEPT !.id_sub = id[c]]
    /\ spc' = [spc EXCEPT ![c] = "text"]
    /\ UNCHANGED <<server, mgmt_msg, msg_snd, removed, undo, cpc, rpc, id, screen, input>>

\* strcat: behind a line that is still there.
PutLine(c) ==
    /\ spc[c] = "text" /\ Unlock("rcv")
    /\ msg_rcv' = [msg_rcv EXCEPT !.msg = Append(@, <<c, typed[c]>>)]
    /\ spc' = [spc EXCEPT ![c] = "type"]
    /\ UNCHANGED <<server, mgmt_msg, msg_snd, removed, undo, cpc, rpc, id, screen, input>>

\* The user types exit: the thread removes the block all clients write to and,
\* when that works, raises user.exit.
Leave(c) ==
    /\ spc[c] = "type" /\ "rcv" \notin removed /\ Input
    /\ removed' = removed \cup {"rcv"}
    /\ spc' = [spc EXCEPT ![c] = "done"]
    /\ calm' = "no"
    /\ UNCHANGED <<server, blocks, sem, undo, cpc, rpc, id, typed, screen>>

\* Somebody has removed it before: exit(1), and the server is not told.
LeaveFails(c) ==
    /\ spc[c] = "type" /\ "rcv" \in removed /\ Input
    /\ Dies(c) /\ calm' = "no"
    /\ UNCHANGED <<server, blocks, removed>>

ChatClientSnd(c) == SndInit(c) \/ ThreadFails(c) \/ LockLine(c) \/ PutLine(c)

-----------------------------------------------------------------------------
(* chat_client_rcv                                                          *)

RcvInit(c) ==
    /\ rpc[c] = "init" /\ "snd" \notin removed
    /\ SetVal("snd")
    /\ rpc' = [rpc EXCEPT ![c] = "poll"]
    /\ UNCHANGED <<server, blocks, removed, cpc, spc, id, screen, input>>

\* user.exit is 0.
StaysOn(c) ==
    /\ rpc[c] = "poll" /\ spc[c] # "done"
    /\ rpc' = [rpc EXCEPT ![c] = "look"]
    /\ UNCHANGED <<server, blocks, sems, cpc, spc, id, screen, input>>

ForMe(c) == msg_snd.id_sub = id[c]

Look(c) ==
    /\ rpc[c] = "look"
    /\ rpc' = [rpc EXCEPT ![c] = IF ForMe(c) THEN "print" ELSE "poll"]
    /\ UNCHANGED <<server, blocks, sems, cpc, spc, id, screen, input>>

PrintMessage(c) ==
    /\ rpc[c] = "print" /\ Lock("snd")
    /\ screen' = [screen EXCEPT ![c] = Append(@, msg_snd.msg)]
    /\ rpc' = [rpc EXCEPT ![c] = "wipe"]
    /\ UNCHANGED <<server, blocks, removed, undo, cpc, spc, id, input>>

TextKept == msg_snd.msg                \* mutant of WipedText
WipedText == <<>>

WipeMessage(c) ==
    /\ rpc[c] = "wipe"
    /\ msg_snd' = [msg_snd EXCEPT !.msg = WipedText]
    /\ rpc' = [rpc EXCEPT ![c] = "clear"]
    /\ UNCHANGED <<server, mgmt_msg, msg_rcv, sems, cpc, spc, id, screen, input>>

NoId == -1                             \* mutant of ClearedId
ClearedId == 0

ClearMessage(c) ==
    /\ rpc[c] = "clear" /\ Unlock("snd")
    /\ msg_snd' = [msg_snd EXCEPT !.id_sub = ClearedId]
    /\ rpc' = [rpc EXCEPT ![c] = "poll"]
    /\ UNCHANGED <<server, mgmt_msg, msg_rcv, removed, undo, cpc, spc, id, screen, input>>

\* user.exit is 1: the thread removes the block the server writes to.  It is
\* there, because only one Leave works.
RcvEnd(c) ==
    /\ rpc[c] = "poll" /\ spc[c] = "done"
    /\ removed' = removed \cup {"snd"}
    /\ rpc' = [rpc EXCEPT ![c] = "done"]
    /\ UNCHANGED <<server, blocks, sem, undo, cpc, spc, id, screen, input>>

ChatClientRcv(c) ==
    \/ RcvInit(c) \/ StaysOn(c) \/ Look(c) \/ PrintMessage(c) \/ WipeMessage(c)
    \/ ClearMessage(c) \/ RcvEnd(c)

-----------------------------------------------------------------------------
Next ==
    \/ MgmtThread \/ ChatServer
    \/ \E c \in Clients :
        \/ Start(c) \/ NameCrash(c) \/ ClientMain(c)
        \/ ChatClientSnd(c) \/ Type(c) \/ Leave(c) \/ LeaveFails(c)
        \/ ChatClientRcv(c)

Spec == Init /\ [][Next]_vars

\* Threads run; nobody has to start a client, type or leave.
FairSpec ==
    /\ Spec /\ WF_vars(MgmtThread) /\ WF_vars(ChatServer)
    /\ \A c \in Clients :
        WF_vars(ClientMain(c)) /\ WF_vars(ChatClientSnd(c)) /\ WF_vars(ChatClientRcv(c))

-----------------------------------------------------------------------------
(* Properties.                                                              *)

Lines == Clients \X (1 .. MaxInputs)

\* Every variable keeps its type; the indices stay within sub[] and history[]
\* (func.c:53, 210, 215).
TypeOK ==
    /\ mpc \in {"poll", "name", "add", "wipe", "text", "delete", "deleted", "end", "done"}
    /\ slot \in Nat /\ count_sub \in Int
    /\ mpc \in {"add", "delete"} => slot \in 1 .. Len(sub)
    /\ tpc \in {"poll", "take", "each", "history", "history id", "history text",
                "send", "send id", "send text", "wipe", "clear", "done"}
    /\ number_sub \in Nat \ {0} /\ number_hist \in Nat \ {0}
    /\ history \in Seq(Seq(Lines))
    /\ sub \in Seq([id : Nat, name : {"empty", "exit", "unset"} \cup Clients, new_sub : {0, 1}])
    /\ mgmt_msg \in [id_sub : Nat, msg : {"empty", "exit"} \cup Clients]
    /\ msg_rcv \in [id_sub : Nat, msg : Seq(Lines)]
    /\ msg_snd \in [id_sub : Nat, msg : Seq(Lines)]
    /\ sem \in [Blocks -> Int] /\ removed \subseteq Blocks
    /\ undo \in [Clients -> Int]
    /\ cpc \in [Clients -> {"off", "enter", "named", "wait", "answered", "taken", "chat",
                            "exiting", "gone", "dead"}]
    /\ spc \in [Clients -> {"off", "init", "type", "line", "text", "done", "dead"}]
    /\ rpc \in [Clients -> {"off", "init", "poll", "look", "print", "wipe", "clear", "done", "dead"}]
    /\ id \in [Clients -> Nat] /\ typed \in [Clients -> 0 .. MaxInputs]
    /\ screen \in [Clients -> Seq(Seq(Lines))] /\ inputs \in 0 .. MaxInputs
    /\ calm \in {"no", "yes"}

InChat(c) == cpc[c] = "chat"

\* In a calm chat no two clients have one id, by which each finds its messages
\* (func.c:59, 356).
OwnIds ==
    calm = "yes" =>
        \A c, d \in Clients : InChat(c) /\ InChat(d) /\ id[c] = id[d] => c = d

\* How many threads are between LOCK and UNLOCK of a block.
Holders(b) ==
    LET atServer ==
            \/ b = "mgmt" /\ mpc \in {"wipe", "deleted"}
            \/ b = "rcv" /\ tpc \notin {"poll", "take", "done"}
            \/ b = "snd" /\ tpc \in {"history text", "send text"}
        atClient(c) ==
            \/ b = "mgmt" /\ cpc[c] \in {"named", "taken", "exiting"}
            \/ b = "rcv" /\ spc[c] = "text"
            \/ b = "snd" /\ rpc[c] \in {"wipe", "clear"}
    IN Cardinality({c \in Clients : atClient(c)}) + (IF atServer THEN 1 ELSE 0)

\* In a calm chat the semaphores do what they are for, although every client
\* resets them: one thread at a time is inside a block (func.c:206, 219, 309, 358).
BlocksGuarded ==
    calm = "yes" => \A b \in Blocks : Holders(b) + sem[b] = 1

\* In a calm chat every client prints the messages the server has taken, all of
\* them in the order of history[], none twice (func.c:210-237, 356-364).
InOrder ==
    calm = "yes" => \A c \in Clients :
        Len(screen[c]) <= Len(history) /\ screen[c] = SubSeq(history, 1, Len(screen[c]))

\* In a calm chat a line is in one place: with its user, in the block or in
\* history[], never lost or taken twice (func.c:206-208, 239-241, 309-315).
LineInOnePlace ==
    calm = "yes" => \A c \in Clients : \A k \in 1 .. typed[c] :
        LET line == <<c, k>>
            places(s) == Cardinality({i \in DOMAIN s : s[i] = line})
            taken == {i \in DOMAIN history : places(history[i]) > 0}
            withUser == k = typed[c] /\ spc[c] \in {"line", "text"}
        IN /\ \A i \in taken : places(history[i]) = 1
           /\ Cardinality(taken)
              + (IF tpc \in {"poll", "take"} THEN places(msg_rcv.msg) ELSE 0)
              + (IF withUser THEN 1 ELSE 0) = 1

\* Whenever the users of a calm chat pause, every line is taken and on the screen
\* of everybody who has been sent a message since joining; nobody is left waiting
\* for a block that is never emptied (func.c:198-244, 352-365).
Settles ==
    LET settled ==
            /\ \A c \in Clients : spc[c] \notin {"line", "text"}
            /\ tpc = "poll" /\ msg_rcv.msg = <<>>
            /\ \A c \in Clients : \A i \in DOMAIN sub :
                InChat(c) /\ sub[i].id = id[c] /\ sub[i].new_sub = 0 => screen[c] = history
    IN []<>(calm = "no" \/ settled)

\* The entry that is deleted is that of a client that leaves, "Delet client from
\* list" (func.c:85).
LeaverDeleted ==
    \A c \in Clients : InChat(c) =>
        ~\E i \in DOMAIN sub : sub[i].id = id[c] /\ sub[i].name = "empty"
=============================================================================
