------------------------------ MODULE MsgChat ------------------------------
(***************************************************************************)
(* The chat over System V message queues of homework_13/task2: the two     *)
(* threads of the server (mgmt_thread, chat_server) and the clients        *)
(* (client_system_v.c with chat_client_snd and chat_client_rcv).           *)
(*                                                                         *)
(* One queue carries names and exits to the server AND the ids back to the *)
(* clients.  Everybody receives from it without naming a type, so whoever  *)
(* asks first gets the next message: the kernel hands a message to the     *)
(* receiver that has waited longest, and keeps it when nobody waits.  Two  *)
(* more queues carry what is typed, and what the server sends on.           *)
(*                                                                         *)
(* mgmt_thread names the two text queues, which are local to chat_server,  *)
(* when it removes them (lines 40-41); they are taken to be those queues.  *)
(* The line typed when k were left to type is k.  A name is the client, or *)
(* "null"; the digit the server takes for one when it reads an id is "digit". *)
(***************************************************************************)
EXTENDS Integers, Sequences

CONSTANTS
    Clients,    \* the client processes, each started at most once or never ("away")
    MaxSubs,    \* the length of sub[]
    QueueMax,   \* messages the queue to the clients holds (msg_qbytes)
    MaxLines    \* bound: lines all users together type

\* history[100] must hold the lines and a NULL behind them (lines 75 and 99): what
\* the server does with more lines is not modelled.
ASSUME SizesAssumption ==
    MaxSubs \in Nat \ {0} /\ QueueMax \in Nat \ {0} /\ MaxLines \in 0 .. 99
ASSUME NamesAssumption == {"server", "digit", "unset", "null"} \cap Clients = {}

VARIABLES
    pc,           \* where mgmt_thread and each client's main are
    message_mgmt, \* the message each of them has received last
    mgmt_msg,     \* messages in the common queue
    waiting,      \* who is blocked in a receive from it, longest first
    count,        \* mgmt_thread's count of subscribers
    slot,         \* the place of the entry it is filling, counted from 1
    sub,          \* the entries of sub[] that are not NULL
    tpc,          \* where chat_server is
    number_sub,   \* its index in sub[], counted from 1
    number_hist,  \* its index in history[], counted from 1
    type,         \* the type it has put in its message
    history,      \* the lines it has taken
    text_rcv,     \* the queue of typed lines
    text_snd,     \* the queue of lines for the clients: type and line
    toType,       \* how many lines the users are still to type
    screen,       \* the lines c's chat_client_rcv has printed
    orderly,      \* history: "yes" until a message reaches somebody it is not for, or somebody
                  \* other than the newest client leaves or does so in a busy moment
    calm          \* history: "yes" while orderly, nobody has left or died in the chat, and no
                  \* half-filled entry was read

mgmt == <<pc, message_mgmt, mgmt_msg, waiting>>
entries == <<count, slot>>
walk == <<tpc, number_sub, number_hist, type>>
chat == <<walk, history, text_rcv, text_snd>>
users == <<toType, screen>>
notes == <<orderly, calm>>
vars == <<mgmt, entries, sub, chat, users, notes>>

Procs == Clients \cup {"server"}
Wild == -1                                   \* an id made of something that is no digit
Nothing == [kind |-> "none", who |-> "null", id |-> 0]

Init ==
    /\ pc \in [Procs -> {"ask", "off", "away"}]
    /\ \A p \in Procs : pc[p] = "ask" <=> p = "server"
    /\ message_mgmt = [p \in Procs |-> Nothing]
    /\ mgmt_msg = <<>> /\ waiting = <<>>
    /\ count = 0 /\ slot = 0 /\ sub = <<>>
    /\ tpc = "wait" /\ number_sub = 0 /\ number_hist = 0 /\ type = 0
    /\ history = <<>> /\ text_rcv = <<>> /\ text_snd = <<>>
    /\ toType \in 0 .. MaxLines /\ screen = [c \in Clients |-> <<>>]
    /\ orderly = "yes" /\ calm = "yes"

Removed == pc["server"] = "ended"
Up == pc["server"] \notin {"ended", "crashed", "overflow"}

\* user.id: the first character of what c received, minus '0'.
Id(c) == IF message_mgmt[c].kind = "id" THEN message_mgmt[c].id ELSE Wild

-----------------------------------------------------------------------------
(* The common queue                                                         *)

\* Whether m is what p waits for: the server names and exits, a client its id.
IsFor(p, m) == IF p = "server" THEN m.kind # "id" ELSE m.kind = "id" /\ m.who = p

Note(ok) ==
    /\ orderly' = IF ok THEN orderly ELSE "no"
    /\ calm' = IF ok THEN calm ELSE "no"

\* p sends m and goes on at next; box is what everybody has received last.
SendFrom(box, p, next, m) ==
    IF waiting = <<>>
    THEN /\ pc' = [pc EXCEPT ![p] = next]
         /\ mgmt_msg' = Append(mgmt_msg, m)
         /\ message_mgmt' = box /\ UNCHANGED waiting
    ELSE /\ pc' = [pc EXCEPT ![p] = next, ![Head(waiting)] = "got"]
         /\ message_mgmt' = [box EXCEPT ![Head(waiting)] = m]
         /\ waiting' = Tail(waiting) /\ UNCHANGED mgmt_msg

Send(p, next, m) == SendFrom(message_mgmt, p, next, m)

Misled(m) == waiting # <<>> /\ ~IsFor(Head(waiting), m)

\* p receives: the first message, whatever it is, or p waits.
Receive(p) ==
    IF mgmt_msg = <<>>
    THEN /\ pc' = [pc EXCEPT ![p] = "waits"] /\ waiting' = Append(waiting, p)
         /\ UNCHANGED <<message_mgmt, mgmt_msg, notes>>
    ELSE /\ pc' = [pc EXCEPT ![p] = "got"]
         /\ message_mgmt' = [message_mgmt EXCEPT ![p] = Head(mgmt_msg)]
         /\ mgmt_msg' = Tail(mgmt_msg)
         /\ Note(IsFor(p, Head(mgmt_msg)))
         /\ UNCHANGED waiting

-----------------------------------------------------------------------------
(* mgmt_thread                                                              *)

Ask ==
    /\ pc["server"] = "ask" /\ Receive("server")
    /\ UNCHANGED <<entries, sub, chat, users>>

Got(kinds) == pc["server"] = "got" /\ message_mgmt["server"].kind \in kinds

\* The search looks at as many entries as there are subscribers.
WithId(n) == {i \in 1 .. count : sub[i].id = n}

LeaverKept(n) == count                  \* mutant of CountAfterExit
CountAfterExit(n) == IF WithId(n) = {} THEN count ELSE count - 1

First(S) == CHOOSE i \in S : \A j \in S : i <= j

Nameless(e) == [e EXCEPT !.name = "null"]

\* "exit n": the first entry found with that id loses its name, not its id.
\* With nobody left the queues are removed, which ends the other receivers, and
\* main cancels chat_server.
SeeExit ==
    /\ Got({"exit"})
    /\ LET n == message_mgmt["server"].id IN
        /\ count' = CountAfterExit(n)
        /\ sub' = IF WithId(n) = {} THEN sub
                  ELSE [sub EXCEPT ![First(WithId(n))] = Nameless(@)]
    /\ message_mgmt' = [message_mgmt EXCEPT !["server"] = Nothing]
    /\ IF count' = 0
       THEN /\ pc' = [p \in Procs |-> IF p = "server" THEN "ended"
                                      ELSE IF pc[p] = "waits" THEN "died" ELSE pc[p]]
            /\ mgmt_msg' = <<>> /\ waiting' = <<>>
            /\ tpc' = "wait" /\ number_sub' = 0 /\ number_hist' = 0 /\ type' = 0
            /\ text_rcv' = <<>> /\ text_snd' = <<>>
       ELSE /\ pc' = [pc EXCEPT !["server"] = "ask"]
            /\ UNCHANGED <<mgmt_msg, waiting, walk, text_rcv, text_snd>>
    /\ UNCHANGED <<slot, history, users, notes>>

\* i is free: beyond the entries, or its client has left.
Vacant(S, i) == i > Len(S) \/ S[i].name = "null"

\* The places of the loop of lines 47-49, from place i on.
PlacesBelow(S, n, i) == {j \in i .. n - 1 : Vacant(S, j)}    \* mutant of Places
Places(S, n, i) == {j \in i .. n : Vacant(S, j)}

\* Anything but an exit is a name: a fresh entry, all zero, is in sub[] before its
\* fields are set.  Nothing keeps the count below the length of sub[].
SeeName ==
    /\ Got({"name", "id"})
    /\ count' = count + 1
    /\ LET free == Places(sub, count', 1) IN
        IF free = {}
        THEN /\ pc' = [pc EXCEPT !["server"] = "ask"]
             /\ message_mgmt' = [message_mgmt EXCEPT !["server"] = Nothing]
             /\ UNCHANGED <<slot, sub>>
        ELSE LET fresh == [id |-> 0, name |-> "unset", new_sub |-> 0] IN
             /\ slot' = First(free)
             /\ pc' = [pc EXCEPT !["server"] = IF slot' > MaxSubs THEN "overflow" ELSE "entry"]
             /\ sub' = IF slot' > MaxSubs THEN sub
                       ELSE IF slot' > Len(sub) THEN Append(sub, fresh)
                       ELSE [sub EXCEPT ![slot'] = fresh]
             /\ UNCHANGED message_mgmt
    /\ UNCHANGED <<mgmt_msg, waiting, chat, users, notes>>

Numbered(e, n) == [e EXCEPT !.id = n]

\* The new id is the number of subscribers.
SetId ==
    /\ pc["server"] = "entry"
    /\ sub' = [sub EXCEPT ![slot] = Numbered(@, count)]
    /\ pc' = [pc EXCEPT !["server"] = "id"]
    /\ UNCHANGED <<message_mgmt, mgmt_msg, waiting, entries, chat, users, notes>>

NameIn(m) == IF m.kind = "name" THEN m.who ELSE "digit"

SetNew ==
    /\ pc["server"] = "id"
    /\ sub' = [sub EXCEPT ![slot] = [id |-> @.id, name |-> NameIn(message_mgmt["server"]),
                                     new_sub |-> 1]]
    /\ pc' = [pc EXCEPT !["server"] = "new"]
    /\ UNCHANGED <<message_mgmt, mgmt_msg, waiting, entries, chat, users, notes>>

\* What the server answers: the id of the entry it has filled.
PlaceOf == slot - 1                      \* mutant of NewId
NewId == sub[slot].id

\* The loop goes on with an empty message: at another vacant place the name is
\* NULL, and strdup(NULL) crashes the server.
Answer ==
    /\ pc["server"] = "new"
    /\ LET next == IF Places(sub, count, slot + 1) = {} THEN "ask" ELSE "crashed"
           m == [kind |-> "id", who |-> sub[slot].name, id |-> NewId]
       IN  /\ SendFrom([message_mgmt EXCEPT !["server"] = Nothing], "server", next, m)
           /\ Note(~Misled(m))
    /\ slot' = 0
    /\ UNCHANGED <<count, sub, chat, users>>

-----------------------------------------------------------------------------
(* chat_server.  A message of type 0 is refused by the system; with a full  *)
(* queue the server waits.                                                  *)

TakeLine ==
    /\ Up /\ tpc = "wait" /\ text_rcv # <<>>
    /\ history' = Append(history, Head(text_rcv))
    /\ text_rcv' = Tail(text_rcv)
    /\ tpc' = "walk" /\ number_sub' = 1
    /\ UNCHANGED <<mgmt, entries, sub, number_hist, type, text_snd, users, notes>>

\* An entry is read although mgmt_thread has not set all its fields.
HalfFilled(i) == pc["server"] \in {"entry", "id"} /\ slot = i

Walk ==
    /\ Up /\ tpc = "walk" /\ number_sub <= Len(sub)
    /\ type' = sub[number_sub].id /\ tpc' = "test"
    /\ calm' = IF HalfFilled(number_sub) THEN "no" ELSE calm
    /\ UNCHANGED <<mgmt, entries, sub, number_sub, number_hist, history, text_rcv, text_snd,
                   users, orderly>>

WalkEnds ==
    /\ Up /\ tpc = "walk" /\ number_sub > Len(sub)
    /\ tpc' = "wait" /\ number_sub' = 0 /\ type' = 0
    /\ UNCHANGED <<mgmt, entries, sub, number_hist, history, text_rcv, text_snd, users, notes>>

FromSecond == 2                          \* mutant of FirstShown
FirstShown == 1

Test ==
    /\ Up /\ tpc = "test"
    /\ IF sub[number_sub].new_sub = 1
       THEN tpc' = "hist" /\ number_hist' = FirstShown
       ELSE tpc' = "last" /\ UNCHANGED number_hist
    /\ UNCHANGED <<mgmt, entries, sub, number_sub, type, history, text_rcv, text_snd, users, notes>>

SendText(line) ==
    \/ type = 0 /\ UNCHANGED text_snd
    \/ type # 0 /\ Len(text_snd) < QueueMax
       /\ text_snd' = Append(text_snd, [type |-> type, line |-> line])

SendHistory ==
    /\ Up /\ tpc = "hist" /\ number_hist <= Len(history)
    /\ SendText(history[number_hist])
    /\ number_hist' = number_hist + 1
    /\ UNCHANGED <<mgmt, entries, sub, tpc, number_sub, type, history, text_rcv, users, notes>>

StillNew(e) == e                         \* mutant of Known
Known(e) == [e EXCEPT !.new_sub = 0]

EndHistory ==
    /\ Up /\ tpc = "hist" /\ number_hist > Len(history)
    /\ sub' = [sub EXCEPT ![number_sub] = Known(@)]
    /\ number_hist' = 0 /\ number_sub' = number_sub + 1 /\ tpc' = "walk"
    /\ UNCHANGED <<mgmt, entries, type, history, text_rcv, text_snd, users, notes>>

SendLast ==
    /\ Up /\ tpc = "last" /\ SendText(history[Len(history)])
    /\ number_sub' = number_sub + 1 /\ tpc' = "walk"
    /\ UNCHANGED <<mgmt, entries, sub, number_hist, type, history, text_rcv, users, notes>>

-----------------------------------------------------------------------------
(* The clients                                                              *)

SendName(c) ==
    /\ pc[c] = "off" /\ ~Removed
    /\ LET m == [kind |-> "name", who |-> c, id |-> 0] IN Send(c, "sent", m) /\ Note(~Misled(m))
    /\ UNCHANGED <<entries, sub, chat, users>>

\* With the queue removed the receive fails and the empty message crashes the client.
AskId(c) ==
    /\ pc[c] = "sent"
    /\ IF Removed
       THEN pc' = [pc EXCEPT ![c] = "died"] /\ UNCHANGED <<message_mgmt, mgmt_msg, waiting, notes>>
       ELSE Receive(c)
    /\ UNCHANGED <<entries, sub, chat, users>>

InChat(c) == pc[c] = "got"

\* The users together type a bounded number of lines.
TypeLine(c) ==
    /\ InChat(c) /\ ~Removed /\ toType > 0
    /\ toType' = toType - 1
    /\ text_rcv' = Append(text_rcv, toType)
    /\ UNCHANGED <<mgmt, entries, sub, walk, history, text_snd, screen, notes>>

\* An empty line has no first word: strcmp(NULL, "exit") crashes the client, which
\* says no exit and keeps its entry; its lines are taken from the queue no more.
TypeNothing(c) ==
    /\ InChat(c)
    /\ pc' = [pc EXCEPT ![c] = "died"]
    /\ message_mgmt' = [message_mgmt EXCEPT ![c] = Nothing]
    /\ calm' = "no" /\ screen' = [screen EXCEPT ![c] = <<>>]
    /\ UNCHANGED <<mgmt_msg, waiting, entries, sub, chat, toType, orderly>>

\* chat_client_rcv takes the first message whose type is its id.
PrintLine(c) ==
    /\ InChat(c)
    /\ \E i \in 1 .. Len(text_snd) :
        /\ text_snd[i].type = Id(c) /\ \A j \in 1 .. i - 1 : text_snd[j].type # Id(c)
        /\ screen' = IF calm = "yes" THEN [screen EXCEPT ![c] = Append(@, text_snd[i].line)] ELSE screen
        /\ text_snd' = SubSeq(text_snd, 1, i - 1) \o SubSeq(text_snd, i + 1, Len(text_snd))
    /\ UNCHANGED <<mgmt, entries, sub, walk, history, text_rcv, toType, notes>>

\* c is the newest subscriber and the server waits for messages.
LeavesInTurn(c) == Id(c) = count /\ pc["server"] = "waits" /\ mgmt_msg = <<>>

Leave(c) ==
    /\ InChat(c)
    /\ LET m == [kind |-> "exit", who |-> c, id |-> Id(c)]
           gone == [message_mgmt EXCEPT ![c] = Nothing]
       IN  IF Removed
           THEN /\ pc' = [pc EXCEPT ![c] = "left"] /\ message_mgmt' = gone
                /\ UNCHANGED <<mgmt_msg, waiting, orderly>>
           ELSE /\ SendFrom(gone, c, "left", m)
                /\ orderly' = IF LeavesInTurn(c) /\ ~Misled(m) THEN orderly ELSE "no"
    /\ calm' = "no" /\ screen' = [screen EXCEPT ![c] = <<>>]
    /\ UNCHANGED <<entries, sub, chat, toType>>

-----------------------------------------------------------------------------

MgmtStep == Ask \/ SeeExit \/ SeeName \/ SetId \/ SetNew \/ Answer
ChatStep ==
    TakeLine \/ Walk \/ WalkEnds \/ Test \/ SendHistory \/ EndHistory \/ SendLast
ClientStep(c) ==
    \/ SendName(c) \/ AskId(c)
    \/ TypeLine(c) \/ TypeNothing(c) \/ PrintLine(c) \/ Leave(c)

Next == MgmtStep \/ ChatStep \/ \E c \in Clients : ClientStep(c)

Spec == Init /\ [][Next]_vars

\* Threads run on.  A user may stay away from the keyboard for ever, so starting,
\* typing and leaving are not fair.  Every step happens boundedly often, so that
\* one condition for all steps of a kind is fairness to each of them.
Progress == MgmtStep \/ ChatStep \/ \E c \in Clients : AskId(c) \/ PrintLine(c)

FairSpec == Spec /\ WF_vars(Progress)

-----------------------------------------------------------------------------
(* Properties                                                               *)

Ids == 0 .. MaxSubs + 1
Messages ==
    {Nothing} \cup [kind : {"name", "exit"}, who : Clients, id : {Wild} \cup Ids]
              \cup [kind : {"id"}, who : Clients \cup {"digit"}, id : Ids]
Lines == 1 .. MaxLines

\* Every variable has its type; sub[] is never left with fewer entries than there
\* are subscribers, so that the search for a leaver meets no NULL (line 29).
TypeOK ==
    /\ pc \in [Procs -> {"ask", "waits", "got", "entry", "id", "new", "ended", "crashed",
                         "overflow", "off", "away", "sent", "left", "died"}]
    /\ message_mgmt \in [Procs -> Messages]
    /\ mgmt_msg \in Seq(Messages) /\ waiting \in Seq(Procs)
    /\ count \in Ids /\ slot \in Ids
    /\ sub \in Seq([id : Ids, name : Clients \cup {"null", "digit", "unset"}, new_sub : {0, 1}])
    /\ Len(sub) <= MaxSubs
    /\ message_mgmt["server"].kind = "exit" => count <= Len(sub)
    /\ tpc \in {"wait", "walk", "test", "hist", "last"}
    /\ number_sub \in Ids /\ number_hist \in 0 .. MaxLines + 1 /\ type \in Ids
    /\ history \in Seq(Lines) /\ text_rcv \in Seq(Lines)
    /\ text_snd \in Seq([type : Ids, line : Lines]) /\ Len(text_snd) <= QueueMax
    /\ toType \in 0 .. MaxLines /\ screen \in [Clients -> Seq(Lines)]
    /\ orderly \in {"yes", "no"} /\ calm \in {"yes", "no"}

\* While every message reaches the one it is for and clients leave in the reverse
\* order of their coming, a client in the chat has an id that is the id of the entry
\* with its name, and no other client has it: the id is only the count of
\* subscribers (line 52), and the id travels through a queue all read (line 61).
OwnIds ==
    orderly = "yes" =>
        \A c \in Clients : InChat(c) =>
            /\ \E i \in 1 .. Len(sub) : sub[i].name = c /\ sub[i].id = Id(c)
            /\ \A d \in Clients \ {c} : InChat(d) => Id(d) # Id(c)

\* Until somebody leaves or dies or an entry is read half filled, what a client sees is the
\* beginning of the history: a newcomer gets the old lines before the new one, and
\* nobody gets a line twice (lines 96-109).
InOrder ==
    calm = "yes" =>
        \A c \in Clients :
            /\ Len(screen[c]) <= Len(history)
            /\ \A k \in 1 .. Len(screen[c]) : screen[c][k] = history[k]

\* c is served as an old subscriber and has not yet seen every line.
Behind(c) ==
    /\ calm = "yes" /\ InChat(c) /\ Len(screen[c]) < Len(history)
    /\ \E i \in 1 .. Len(sub) : sub[i].name = c /\ sub[i].new_sub = 0

\* In a calm chat every line reaches every old subscriber, although the queue to the
\* clients may be full (lines 103 and 109 block).
Reaches == \A c \in Clients : Behind(c) ~> ~Behind(c)

\* When everybody has left, each in turn, the server removes its queues and ends
\* (lines 27-43): it ends only if every exit was counted.
AllLeft ==
    /\ orderly = "yes" /\ \E c \in Clients : pc[c] = "left"
    /\ \A c \in Clients : pc[c] \in {"off", "away", "left"}
ServerEnds == AllLeft ~> (Removed \/ ~AllLeft)
=============================================================================
