---------------------------- MODULE ShmChatProofs ----------------------------
(***************************************************************************)
(* Theorems of ShmChat, for every number of clients and inputs.            *)
(***************************************************************************)
EXTENDS ShmChat, FiniteSetTheorems, SequenceTheorems, TLAPS

-----------------------------------------------------------------------------
(* Types.                                                                   *)

\* What the threads read is there.
Within ==
    /\ mpc = "add" => count_sub >= 1
    /\ tpc \notin {"poll", "take", "each", "clear", "done"} => number_sub <= Len(sub)
    /\ tpc \in {"history id", "history text"} => number_hist <= Len(history)
    /\ \A c \in Clients : typed[c] <= inputs /\ (spc[c] \in {"line", "text"} => typed[c] >= 1)

\* There is a subscriber before there is an id, and before anybody leaves.
Subscribed ==
    /\ mgmt_msg.id_sub # 0 \/ mgmt_msg.msg = "exit" => sub # <<>>
    /\ \A c \in Clients : cpc[c] \in {"answered", "taken", "chat", "exiting"} => sub # <<>>

Typed == TypeOK /\ Within /\ Subscribed

-----------------------------------------------------------------------------
(* A calm chat.                                                             *)

\* Nobody has left, and nothing was removed.
Staying ==
    /\ removed = {} /\ mpc \in {"poll", "name", "text", "add", "wipe"} /\ tpc # "done"
    /\ mgmt_msg.msg # "exit"
    /\ \A c \in Clients :
        \/ /\ cpc[c] \in {"off", "enter", "named", "wait", "answered", "taken"}
           /\ spc[c] = "off" /\ rpc[c] = "off"
        \/ /\ cpc[c] = "chat" /\ spc[c] \in {"init", "type", "line", "text"}
           /\ rpc[c] \in {"init", "poll", "look", "print", "wipe", "clear"}
        \/ cpc[c] = "dead" /\ spc[c] = "dead" /\ rpc[c] = "dead"

\* Between LOCK and UNLOCK.
ServerIn(b) ==
    \/ b = "mgmt" /\ mpc = "wipe"
    \/ b = "rcv" /\ tpc \notin {"poll", "take"}
    \/ b = "snd" /\ tpc \in {"history text", "send text"}
ClientIn(b, c) ==
    \/ b = "mgmt" /\ cpc[c] \in {"named", "taken"}
    \/ b = "rcv" /\ spc[c] = "text"
    \/ b = "snd" /\ rpc[c] \in {"wipe", "clear"}

\* The semaphore of b counts who is inside.
Guarded(b) ==
    \/ sem[b] = 1 /\ ~ServerIn(b) /\ \A c \in Clients : ~ClientIn(b, c)
    \/ sem[b] = 0 /\ ServerIn(b) /\ \A c \in Clients : ~ClientIn(b, c)
    \/ sem[b] = 0 /\ ~ServerIn(b) /\ \E c \in Clients : \A d \in Clients : ClientIn(b, d) <=> d = c

AllGuarded ==
    /\ \A b \in Blocks : Guarded(b)
    /\ \A c \in Clients : undo[c] = IF ClientIn("mgmt", c) THEN 1 ELSE 0

\* One client at a time comes in, and meanwhile nothing else happens.
Joining ==
    /\ \A c, d \in Clients : Registering(c) /\ Registering(d) => c = d
    /\ (\E c \in Clients : Registering(c)) =>
           /\ tpc = "poll" /\ msg_rcv.id_sub = 0 /\ msg_snd.msg = <<>>
           /\ \A c \in Clients :
                spc[c] \notin {"line", "text"} /\ rpc[c] \notin {"print", "wipe", "clear"}

\* mgmt_msg carries the name of the one who comes in, then the last entry's number.
Asks(c) ==
    /\ cpc[c] \in {"named", "wait"} /\ mgmt_msg.id_sub = 0 /\ mgmt_msg.msg = c /\ mpc # "wipe"
Answers(c) ==
    /\ cpc[c] \in {"wait", "answered", "taken"} /\ mgmt_msg.id_sub = Len(sub) /\ Len(sub) # 0
    /\ sub[Len(sub)].name = c /\ sub[Len(sub)].new_sub = 1
    /\ mgmt_msg.msg = IF mpc = "wipe" THEN c ELSE "empty"
    /\ mpc # "add"
    /\ cpc[c] = "taken" => id[c] = mgmt_msg.id_sub
Idle ==
    /\ mgmt_msg.id_sub = 0 /\ mgmt_msg.msg = "empty" /\ mpc \notin {"add", "wipe"}
    /\ \A c \in Clients : cpc[c] \notin {"named", "wait", "answered", "taken"}
Exchange == Idle \/ \E c \in Clients : Asks(c) \/ Answers(c)

\* Every entry has its place as its id, and the name of the client with that id.
Numbered ==
    /\ count_sub = Len(sub) /\ (mpc = "add" => slot = Len(sub))
    /\ \A i \in 1 .. Len(sub) :
        /\ sub[i].name \in Clients \cup {"unset"}
        /\ sub[i].name = "unset" <=> mpc = "add" /\ i = Len(sub)
        /\ sub[i].name # "unset" => sub[i].id = i
    /\ \A c \in Clients : cpc[c] \in {"taken", "chat"} =>
           id[c] \in 1 .. Len(sub) /\ sub[id[c]].name = c

\* msg_rcv is empty, being filled, or full until the server clears it.
Middle == tpc \notin {"poll", "take", "clear"}
Taking ==
    /\ tpc \in {"poll", "take"} =>
           (msg_rcv.id_sub = 0 <=> msg_rcv.msg = <<>> /\ \A c \in Clients : spc[c] # "text")
    /\ tpc = "take" => msg_rcv.id_sub # 0
    /\ Middle => history # <<>> /\ msg_rcv.msg = history[Len(history)]
    /\ tpc = "clear" => msg_rcv.msg = <<>>
    /\ \A k \in 1 .. Len(history) : history[k] # <<>>

\* msg_snd is empty, being filled for the entry number_sub, full until the client it
\* is for has it, or being cleared by that client.
Filling == tpc \in {"history text", "send text"}
Handing ==
    /\ \A c \in Clients :
        /\ rpc[c] \in {"print", "wipe", "clear"} => msg_snd.id_sub = id[c]
        /\ rpc[c] = "print" => msg_snd.msg # <<>> \/ Filling
        /\ rpc[c] = "wipe" => msg_snd.msg # <<>>
        /\ rpc[c] = "clear" => msg_snd.msg = <<>>
    /\ tpc \in {"history id", "send id", "history text", "send text"} => msg_snd.msg = <<>>
    /\ Filling => msg_snd.id_sub = number_sub
    /\ msg_snd.msg = <<>> /\ ~Filling =>
           msg_snd.id_sub = 0 \/ \E c \in Clients : rpc[c] = "clear"

\* How many messages the subscriber of entry i has been sent.
Sent(i) ==
    IF sub[i].new_sub = 1
    THEN IF tpc \in {"history", "history id", "history text"} /\ number_sub = i
         THEN number_hist - 1 ELSE 0
    ELSE IF Middle /\ number_sub <= i THEN Len(history) - 1 ELSE Len(history)

\* The last of them is still in msg_snd.
Pending(c) == msg_snd.id_sub = id[c] /\ msg_snd.msg # <<>> /\ rpc[c] # "wipe"

Serving ==
    /\ tpc \in {"send", "send id", "send text"} => sub[number_sub].new_sub = 0
    /\ tpc \in {"history", "history id", "history text"} => sub[number_sub].new_sub = 1
    /\ tpc = "history" => number_hist <= Len(history) + 1
    /\ tpc = "clear" => number_sub > Len(sub)

Delivered ==
    \A c \in Clients :
        /\ ~InChat(c) => screen[c] = <<>>
        /\ InChat(c) =>
               /\ Len(screen[c]) = IF Pending(c) THEN Sent(id[c]) - 1 ELSE Sent(id[c])
               /\ Pending(c) => msg_snd.msg = history[Sent(id[c])]
        /\ Len(screen[c]) <= Len(history)
        /\ \A k \in 1 .. Len(screen[c]) : screen[c][k] = history[k]

\* A line is typed once, and is with its user, in the block or in the history.
WithUser(c, k) == k = typed[c] /\ spc[c] \in {"line", "text"}
In(s, c, k) == \E j \in 1 .. Len(s) : s[j] = <<c, k>>
InBlock(c, k) == tpc \in {"poll", "take"} /\ In(msg_rcv.msg, c, k)
InHistory(c, k) == \E i \in 1 .. Len(history) : In(history[i], c, k)

Once(s) == \A i, j \in 1 .. Len(s) : s[i] = s[j] => i = j
OnePlace ==
    /\ Once(msg_rcv.msg) /\ \A i \in 1 .. Len(history) : Once(history[i])
    /\ \A i, j \in 1 .. Len(history) : \A c \in Clients, k \in 1 .. MaxInputs :
           In(history[i], c, k) /\ In(history[j], c, k) => i = j
    /\ \A c \in Clients, k \in 1 .. MaxInputs :
        /\ k <= typed[c] => WithUser(c, k) \/ InBlock(c, k) \/ InHistory(c, k)
        /\ WithUser(c, k) => ~InBlock(c, k) /\ ~InHistory(c, k)
        /\ ~(InBlock(c, k) /\ InHistory(c, k))
        /\ k > typed[c] => ~InBlock(c, k) /\ ~InHistory(c, k)

Steady ==
    /\ Staying /\ AllGuarded /\ Joining /\ Exchange /\ Numbered
    /\ Taking /\ Handing /\ Serving /\ Delivered /\ OnePlace

Calm == calm = "yes" => Steady

Texts == Seq(Lines)
Names == {"empty", "exit"} \cup Clients
Entry == [id : Nat, name : {"empty", "exit", "unset"} \cup Clients, new_sub : {0, 1}]

\* The parts of the type invariant.
ServerTyped ==
    /\ mpc \in {"poll", "name", "add", "wipe", "text", "delete", "deleted", "end", "done"}
    /\ slot \in Nat /\ count_sub \in Int
    /\ mpc \in {"add", "delete"} => slot \in 1 .. Len(sub)
    /\ tpc \in {"poll", "take", "each", "history", "history id", "history text",
                "send", "send id", "send text", "wipe", "clear", "done"}
    /\ number_sub \in Nat \ {0} /\ number_hist \in Nat \ {0}
    /\ history \in Seq(Texts) /\ sub \in Seq(Entry)
BlocksTyped ==
    /\ mgmt_msg \in [id_sub : Nat, msg : Names]
    /\ msg_rcv \in [id_sub : Nat, msg : Texts]
    /\ msg_snd \in [id_sub : Nat, msg : Texts]
SemsTyped == sem \in [Blocks -> Int] /\ removed \subseteq Blocks /\ undo \in [Clients -> Int]
ClientsTyped ==
    /\ cpc \in [Clients -> {"off", "enter", "named", "wait", "answered", "taken", "chat",
                            "exiting", "gone", "dead"}]
    /\ spc \in [Clients -> {"off", "init", "type", "line", "text", "done", "dead"}]
    /\ rpc \in [Clients -> {"off", "init", "poll", "look", "print", "wipe", "clear", "done", "dead"}]
    /\ id \in [Clients -> Nat] /\ typed \in [Clients -> 0 .. MaxInputs]
    /\ screen \in [Clients -> Seq(Texts)] /\ inputs \in 0 .. MaxInputs
    /\ calm \in {"no", "yes"}

LEMMA TypeParts == TypeOK <=> ServerTyped /\ BlocksTyped /\ SemsTyped /\ ClientsTyped
BY DEF TypeOK, ServerTyped, BlocksTyped, SemsTyped, ClientsTyped, Texts, Names, Entry

LEMMA TypePartsNext == ServerTyped' /\ BlocksTyped' /\ SemsTyped' /\ ClientsTyped' => TypeOK'
BY DEF TypeOK, ServerTyped, BlocksTyped, SemsTyped, ClientsTyped, Texts, Names, Entry

ClientStep(c) ==
    \/ Start(c) \/ NameCrash(c) \/ ClientMain(c) \/ ChatClientSnd(c)
    \/ Type(c) \/ Leave(c) \/ LeaveFails(c) \/ ChatClientRcv(c)

\* Who changes what.
LEMMA MgmtChanges == MgmtThread => UNCHANGED <<chatVars, msg_rcv, msg_snd, undo, clientVars>>
BY DEF MgmtThread, SeeId, SeeNothing, SeeName, AddSubscriber, WipeName, SeeExit, DeleteSubscriber,
       Deleted, MgmtEnd, blocks, sems

LEMMA ChatChanges == ChatServer => UNCHANGED <<mgmtVars, mgmt_msg, undo, clientVars>>
BY DEF ChatServer, SeeLine, TakeMessage, NextSubscriber, SendWaits, Ready, PutId, PutMessage,
       PutHistory, HistorySent, WipeLine, ClearLine, ChatEnd, blocks, sems

LEMMA ClientChanges == ASSUME NEW c, ClientStep(c) PROVE UNCHANGED server
BY DEF ClientStep, Start, NameCrash, ClientMain, LeaveName, Named, NameFails, SeeAnswer, TakeId, IdTaken,
       SayExit, Exited, ChatClientSnd, SndInit, ThreadFails, LockLine, PutLine, Type, Leave, LeaveFails,
       ChatClientRcv, RcvInit, StaysOn, Look, PrintMessage, WipeMessage, ClearMessage, RcvEnd

\* Semaphores stay numbers.
LEMMA LockTyped ==
    ASSUME SemsTyped, NEW b \in Blocks, Lock(b)
    PROVE  sem' \in [Blocks -> Int]
BY DEF SemsTyped, Lock, Taken

LEMMA UnlockTyped ==
    ASSUME SemsTyped, NEW b \in Blocks, Unlock(b)
    PROVE  sem' \in [Blocks -> Int]
BY DEF SemsTyped, Unlock

LEMMA SetValTyped ==
    ASSUME SemsTyped, NEW b \in Blocks, SetVal(b)
    PROVE  sem' \in [Blocks -> Int] /\ undo' \in [Clients -> Int]
BY DEF SemsTyped, SetVal

LEMMA UndoneTyped ==
    ASSUME SemsTyped, NEW c \in Clients
    PROVE  Undone(c) \in [Blocks -> Int]
BY DEF SemsTyped, Undone, AtLeastZero, Blocks

LEMMA UndoingTyped ==
    ASSUME SemsTyped, NEW c \in Clients, NEW n \in Int, Undoing(c, n)
    PROVE  undo' \in [Clients -> Int]
BY DEF SemsTyped, Undoing

\* An entry of sub[] that changes.
LEMMA EntryReplaced ==
    ASSUME NEW s \in Seq(Entry), NEW i \in 1 .. Len(s), NEW e \in Entry
    PROVE  LET t == [s EXCEPT ![i] = e]
           IN  /\ t \in Seq(Entry) /\ Len(t) = Len(s) /\ t[i] = e
               /\ \A j \in 1 .. Len(s) \ {i} : t[j] = s[j]
<1> DEFINE t == [s EXCEPT ![i] = e]
<1>1. t \in Seq(Entry) /\ Len(t) = Len(s)
  BY ExceptSeq
<1>2. DOMAIN s = 1 .. Len(s)
  BY LenProperties
<1> QED
  BY <1>1, <1>2

LEMMA EntryAt ==
    ASSUME NEW s \in Seq(Entry), NEW i \in 1 .. Len(s)
    PROVE  /\ s[i] \in Entry /\ s[i].id \in Nat /\ s[i].new_sub \in {0, 1}
           /\ s[i].name \in {"empty", "exit", "unset"} \cup Clients
<1>1. s[i] \in Entry
  BY ElementOfSeq
<1> QED
  BY <1>1 DEF Entry

\* Adding a subscriber fills a free entry or the place behind the last.
LEMMA NameSeen ==
    ASSUME Typed, SeeName
    PROVE  /\ count_sub' = count_sub + 1 /\ count_sub' \in Nat \ {0}
           /\ slot' \in 1 .. count_sub' /\ slot' \in 1 .. Len(sub')
           /\ sub' \in Seq(Entry) /\ sub' # <<>>
           /\ \/ sub' = sub /\ sub[slot'].name = "empty"
              \/ /\ slot' = Len(sub) + 1 /\ Len(sub') = Len(sub) + 1
                 /\ sub'[Len(sub')].name = "unset"
                 /\ \A j \in 1 .. Len(sub) : sub'[j] = sub[j]
<1>1. count_sub \in Int /\ sub \in Seq(Entry) /\ DOMAIN sub = 1 .. Len(sub) /\ Len(sub) \in Nat
  BY TypeParts, LenProperties DEF Typed, ServerTyped
<1>2. count_sub' = count_sub + 1
  BY DEF SeeName
<1>3. /\ slot' \in 1 .. count_sub' /\ Vacant(slot') /\ \A j \in 1 .. slot' - 1 : ~Vacant(j)
      /\ sub' \in IF slot' \in DOMAIN sub THEN {sub}
                  ELSE {Append(sub, [id |-> g, name |-> "unset", new_sub |-> n]) :
                            g \in 0 .. count_sub', n \in {0, 1}}
  BY DEF SeeName
<1>7. \A j \in 1 .. slot' - 1 : ~Vacant(j)
  BY DEF SeeName
<1>4. count_sub' \in Nat \ {0} /\ slot' \in Nat \ {0}
  BY <1>1, <1>2, <1>3
<1>5. CASE slot' \in 1 .. Len(sub)
  <2>1. sub' = sub /\ sub[slot'].name = "empty"
    BY <1>1, <1>3, <1>5 DEF Vacant
  <2>2. sub # <<>>
    <3>1. Len(sub) # 0
      BY <1>1, <1>5
    <3> QED
      BY <3>1, EmptySeq
  <2> QED
    BY <1>1, <1>2, <1>3, <1>4, <1>5, <2>1, <2>2
<1>6. CASE slot' \notin 1 .. Len(sub)
  <2>1. \A j \in 1 .. slot' - 1 : j \in 1 .. Len(sub)
    <3> SUFFICES ASSUME NEW j \in 1 .. slot' - 1 PROVE j \in DOMAIN sub
      BY <1>1
    <3>1. ~Vacant(j)
      BY <1>7
    <3> QED
      BY <3>1 DEF Vacant
  <2>2. slot' = Len(sub) + 1
    <3>1. slot' > Len(sub)
      BY <1>1, <1>4, <1>6
    <3>2. slot' = 1 \/ slot' - 1 \in 1 .. slot' - 1
      <4>1. \A k \in Nat \ {0} : k = 1 \/ k - 1 \in 1 .. k - 1
        OBVIOUS
      <4> QED
        BY <1>4, <4>1
    <3>3. slot' = 1 \/ slot' - 1 <= Len(sub)
      BY <1>1, <2>1, <3>2
    <3> QED
      BY <1>1, <1>4, <3>1, <3>3
  <2>3. PICK g \in 0 .. count_sub', n \in {0, 1} :
            sub' = Append(sub, [id |-> g, name |-> "unset", new_sub |-> n])
    BY <1>1, <1>3, <1>6
  <2> DEFINE e == [id |-> g, name |-> "unset", new_sub |-> n]
  <2>4. e \in Entry /\ e.name = "unset" /\ sub' = Append(sub, e)
    BY <2>3 DEF Entry
  <2> HIDE DEF e
  <2>5. /\ sub' \in Seq(Entry) /\ Len(sub') = Len(sub) + 1 /\ sub'[Len(sub) + 1] = e
        /\ \A j \in 1 .. Len(sub) : sub'[j] = sub[j]
    BY <1>1, <2>4, AppendProperties
  <2>6. sub' # <<>>
    BY <1>1, <2>5, EmptySeq
  <2>7. slot' \in 1 .. Len(sub')
    BY <1>4, <2>2, <2>5
  <2>8. sub'[Len(sub')].name = "unset"
    BY <2>4, <2>5
  <2> QED
    BY <1>2, <1>3, <1>4, <2>2, <2>5, <2>6, <2>7, <2>8
<1> QED
  BY <1>5, <1>6

LEMMA InitTyped == Init => Typed
<1> SUFFICES ASSUME Init PROVE Typed
  OBVIOUS
<1>1. <<>> \in Texts /\ <<>> \in Seq(Texts) /\ <<>> \in Seq(Entry)
  BY EmptySeq DEF Texts
<1>2. ServerTyped /\ BlocksTyped /\ SemsTyped
  BY <1>1 DEF Init, ServerTyped, BlocksTyped, SemsTyped, Names
<1>3. ClientsTyped
  BY <1>1, BoundAssumption DEF Init, ClientsTyped
<1>4. Within /\ Subscribed
  BY BoundAssumption DEF Init, Within, Subscribed
<1> QED
  BY <1>2, <1>3, <1>4, TypeParts DEF Typed

\* mgmt_thread keeps the types.
LEMMA MgmtTyped == ASSUME Typed, MgmtThread PROVE Typed'
<1> USE DEF chatVars, walk, sems, blocks, clientVars, input
<1>0. ServerTyped /\ BlocksTyped /\ SemsTyped /\ ClientsTyped /\ Within /\ Subscribed
  BY TypeParts DEF Typed
<1>1. UNCHANGED <<chatVars, msg_rcv, msg_snd, undo, clientVars>>
  BY MgmtChanges
<1>2. ClientsTyped'
  BY <1>0, <1>1 DEF ClientsTyped
<1>3. ASSUME sub' \in Seq(Entry), Len(sub') >= Len(sub), sub # <<>> => sub' # <<>>,
             BlocksTyped', SemsTyped',
             /\ mpc' \in {"poll", "name", "add", "wipe", "text", "delete", "deleted", "end", "done"}
             /\ slot' \in Nat /\ count_sub' \in Int
             /\ mpc' \in {"add", "delete"} => slot' \in 1 .. Len(sub'),
             mpc' = "add" => count_sub' >= 1,
             mgmt_msg'.id_sub # 0 \/ mgmt_msg'.msg = "exit" => sub' # <<>>
      PROVE  Typed'
  <2>1. ServerTyped'
    BY <1>0, <1>1, <1>3 DEF ServerTyped
  <2>2. Len(sub) \in Nat /\ Len(sub') \in Nat /\ Len(history) \in Nat
    BY <1>0, <1>3, LenProperties DEF ServerTyped
  <2>3. Within'
    <3>1. number_sub \in Nat /\ number_hist \in Nat
      BY <1>0 DEF ServerTyped
    <3>2. /\ tpc' = tpc /\ number_sub' = number_sub /\ number_hist' = number_hist
          /\ history' = history /\ typed' = typed /\ inputs' = inputs /\ spc' = spc
      BY <1>1
    <3>3. /\ tpc \notin {"poll", "take", "each", "clear", "done"} => number_sub <= Len(sub)
          /\ tpc \in {"history id", "history text"} => number_hist <= Len(history)
          /\ \A c \in Clients : typed[c] <= inputs /\ (spc[c] \in {"line", "text"} => typed[c] >= 1)
      BY <1>0 DEF Within
    <3>4. tpc' \notin {"poll", "take", "each", "clear", "done"} => number_sub' <= Len(sub')
      <4>1. PICK k, l, n : k = Len(sub) /\ l = Len(sub') /\ n = number_sub
        OBVIOUS
      <4>2. k \in Nat /\ l \in Nat /\ n \in Nat /\ l >= k
        BY <1>3, <2>2, <3>1, <4>1
      <4>3. tpc \notin {"poll", "take", "each", "clear", "done"} => n <= k
        BY <3>3, <4>1
      <4> QED
        BY <3>2, <4>1, <4>2, <4>3
    <3>5. tpc' \in {"history id", "history text"} => number_hist' <= Len(history')
      BY <3>2, <3>3
    <3> QED
      BY <1>3, <3>2, <3>3, <3>4, <3>5 DEF Within
  <2>4. Subscribed'
    BY <1>0, <1>1, <1>3 DEF Subscribed
  <2> QED
    BY <1>2, <1>3, <2>1, <2>3, <2>4, TypePartsNext DEF Typed
<1>4. /\ sub \in Seq(Entry) /\ Len(sub) \in Nat /\ slot \in Nat /\ count_sub \in Int
      /\ mpc \in {"add", "delete"} => slot \in 1 .. Len(sub)
  BY <1>0, LenProperties DEF ServerTyped
<1>5. CASE SeeId \/ SeeNothing
  <2>1. /\ UNCHANGED <<sub, mgmt_msg, sem, removed, slot, count_sub>>
        /\ mpc' \in {"poll", "name", "text"}
    BY <1>5 DEF SeeId, SeeNothing
  <2>2. BlocksTyped' /\ SemsTyped'
    BY <1>0, <1>1, <2>1 DEF BlocksTyped, SemsTyped
  <2> QED
    BY <1>0, <1>3, <1>4, <2>1, <2>2 DEF Subscribed
<1>6. CASE SeeName
  <2>1. /\ UNCHANGED <<mgmt_msg, sem, removed>> /\ mpc' = "add"
    BY <1>6 DEF SeeName
  <2>2. /\ count_sub' \in Nat \ {0} /\ slot' \in 1 .. count_sub' /\ slot' \in 1 .. Len(sub')
        /\ sub' \in Seq(Entry) /\ sub' # <<>> /\ Len(sub') >= Len(sub)
    BY <1>4, <1>6, NameSeen
  <2>3. BlocksTyped' /\ SemsTyped'
    BY <1>0, <1>1, <2>1 DEF BlocksTyped, SemsTyped
  <2> QED
    BY <1>3, <2>1, <2>2, <2>3
<1>7. CASE AddSubscriber
  <2>1. PICK i : i = IdOf(sub[slot])
    OBVIOUS
  <2>2. PICK e : e = [id |-> i, name |-> mgmt_msg.msg, new_sub |-> 1]
    OBVIOUS
  <2>3. /\ mpc = "add" /\ mpc' = "wipe" /\ Lock("mgmt") /\ sub' = [sub EXCEPT ![slot] = e]
        /\ mgmt_msg' = [mgmt_msg EXCEPT !.id_sub = i] /\ UNCHANGED <<slot, count_sub, removed>>
    BY <1>7, <2>1, <2>2 DEF AddSubscriber
  <2>4. slot \in 1 .. Len(sub) /\ count_sub \in Nat
    <3>1. count_sub >= 1
      BY <1>0, <2>3 DEF Within
    <3> QED
      BY <1>4, <2>3, <3>1
  <2>5. i \in Nat
    BY <1>4, <2>1, <2>4, EntryAt DEF IdOf
  <2>6. mgmt_msg \in [id_sub : Nat, msg : Names]
    BY <1>0 DEF BlocksTyped
  <2>7. e \in Entry
    BY <2>2, <2>5, <2>6 DEF Entry, Names
  <2>8. sub' \in Seq(Entry) /\ Len(sub') = Len(sub)
    BY <1>4, <2>3, <2>4, <2>7, EntryReplaced
  <2>9. sub # <<>> /\ sub' # <<>>
    BY <1>4, <2>4, <2>8, EmptySeq
  <2>10. mgmt_msg' \in [id_sub : Nat, msg : Names]
    BY <2>3, <2>5, <2>6
  <2>11. BlocksTyped'
    BY <1>0, <1>1, <2>10 DEF BlocksTyped
  <2>12. SemsTyped'
    BY <1>0, <1>1, <2>3, LockTyped DEF SemsTyped, Blocks
  <2> QED
    BY <1>0, <1>3, <1>4, <2>3, <2>8, <2>9, <2>11, <2>12
<1>8. CASE WipeName
  <2>1. /\ UNCHANGED <<sub, slot, count_sub, removed>> /\ mpc' = "poll" /\ Unlock("mgmt")
        /\ mgmt_msg' = [mgmt_msg EXCEPT !.msg = "empty"]
    BY <1>8 DEF WipeName
  <2>2. mgmt_msg' \in [id_sub : Nat, msg : Names] /\ mgmt_msg'.id_sub = mgmt_msg.id_sub
        /\ mgmt_msg'.msg = "empty"
    BY <1>0, <2>1 DEF BlocksTyped, Names
  <2>3. BlocksTyped'
    BY <1>0, <1>1, <2>2 DEF BlocksTyped
  <2>4. SemsTyped'
    BY <1>0, <1>1, <2>1, UnlockTyped DEF SemsTyped, Blocks
  <2> QED
    BY <1>0, <1>3, <1>4, <2>1, <2>2, <2>3, <2>4 DEF Subscribed
<1>9. CASE SeeExit
  <2>1. /\ UNCHANGED <<sub, count_sub, sem, removed>> /\ mpc' = "delete" /\ slot' = 1
        /\ mgmt_msg.msg = "exit" /\ mgmt_msg' = [mgmt_msg EXCEPT !.id_sub = sub[1].id]
    BY <1>9 DEF SeeExit
  <2>2. sub # <<>> /\ 1 \in 1 .. Len(sub)
    BY <1>0, <1>4, <2>1, EmptySeq DEF Subscribed
  <2>3. PICK i \in Nat : i = sub[1].id
    BY <1>4, <2>2, EntryAt
  <2>4. mgmt_msg' \in [id_sub : Nat, msg : Names]
    BY <1>0, <2>1, <2>3 DEF BlocksTyped
  <2>5. BlocksTyped' /\ SemsTyped'
    BY <1>0, <1>1, <2>1, <2>4 DEF BlocksTyped, SemsTyped
  <2> QED
    BY <1>0, <1>3, <1>4, <2>1, <2>2, <2>5
<1>10. CASE DeleteSubscriber
  <2>1. /\ count_sub' = count_sub - 1 /\ mpc = "delete" /\ mpc' = "deleted" /\ Lock("mgmt")
        /\ sub' = [sub EXCEPT ![slot].name = "empty"]
        /\ mgmt_msg' = [id_sub |-> 0, msg |-> "empty"] /\ UNCHANGED <<slot, removed>>
    BY <1>10 DEF DeleteSubscriber
  <2>2. slot \in 1 .. Len(sub)
    BY <1>0, <2>1 DEF ServerTyped
  <2>3. PICK e \in Entry : sub' = [sub EXCEPT ![slot] = e]
    <3>1. sub[slot] \in Entry
      BY <1>4, <2>2, EntryAt
    <3>2. [sub[slot] EXCEPT !.name = "empty"] \in Entry
      BY <3>1 DEF Entry
    <3> QED
      BY <2>1, <3>2
  <2>4. sub' \in Seq(Entry) /\ Len(sub') = Len(sub)
    BY <1>4, <2>2, <2>3, EntryReplaced
  <2>5. sub # <<>> /\ sub' # <<>>
    BY <1>4, <2>2, <2>4, EmptySeq
  <2>6. BlocksTyped'
    BY <1>0, <1>1, <2>1 DEF BlocksTyped, Names
  <2>7. SemsTyped'
    BY <1>0, <1>1, <2>1, LockTyped DEF SemsTyped, Blocks
  <2> QED
    BY <1>0, <1>3, <1>4, <2>1, <2>4, <2>5, <2>6, <2>7
<1>11. CASE Deleted
  <2>1. /\ UNCHANGED <<sub, mgmt_msg, slot, count_sub, removed>> /\ mpc' \in {"end", "poll"}
        /\ Unlock("mgmt")
    BY <1>11 DEF Deleted
  <2>2. BlocksTyped'
    BY <1>0, <1>1, <2>1 DEF BlocksTyped
  <2>3. SemsTyped'
    BY <1>0, <1>1, <2>1, UnlockTyped DEF SemsTyped, Blocks
  <2> QED
    BY <1>0, <1>3, <1>4, <2>1, <2>2, <2>3 DEF Subscribed
<1>12. CASE MgmtEnd
  <2>1. /\ UNCHANGED <<sub, mgmt_msg, slot, count_sub, sem>> /\ mpc' = "done"
        /\ removed' = removed \cup {"mgmt"}
    BY <1>12 DEF MgmtEnd
  <2>2. BlocksTyped' /\ SemsTyped'
    BY <1>0, <1>1, <2>1 DEF BlocksTyped, SemsTyped, Blocks
  <2> QED
    BY <1>0, <1>3, <1>4, <2>1, <2>2 DEF Subscribed
<1> QED
  BY <1>5, <1>6, <1>7, <1>8, <1>9, <1>10, <1>11, <1>12 DEF MgmtThread

\* chat_server keeps the types.
LEMMA ChatTyped == ASSUME Typed, ChatServer PROVE Typed'
<1> USE DEF mgmtVars, walk, sems, blocks, clientVars, input
<1>0. ServerTyped /\ BlocksTyped /\ SemsTyped /\ ClientsTyped /\ Within /\ Subscribed
  BY TypeParts DEF Typed
<1>1. UNCHANGED <<mgmtVars, mgmt_msg, undo, clientVars>>
  BY ChatChanges
<1>2. ClientsTyped'
  BY <1>0, <1>1 DEF ClientsTyped
<1>3. /\ sub \in Seq(Entry) /\ Len(sub) \in Nat /\ history \in Seq(Texts) /\ Len(history) \in Nat
      /\ number_sub \in Nat \ {0} /\ number_hist \in Nat \ {0}
  BY <1>0, LenProperties DEF ServerTyped
<1>4. /\ msg_rcv \in [id_sub : Nat, msg : Texts] /\ msg_snd \in [id_sub : Nat, msg : Texts]
      /\ msg_rcv.msg \in Texts /\ msg_snd.msg \in Texts
  BY <1>0 DEF BlocksTyped
<1>5. ASSUME sub' \in Seq(Entry), Len(sub') = Len(sub), history' \in Seq(Texts),
             number_sub' \in Nat \ {0}, number_hist' \in Nat \ {0},
             tpc' \in {"poll", "take", "each", "history", "history id", "history text",
                       "send", "send id", "send text", "wipe", "clear", "done"},
             msg_rcv' \in [id_sub : Nat, msg : Texts], msg_snd' \in [id_sub : Nat, msg : Texts],
             SemsTyped',
             tpc' \notin {"poll", "take", "each", "clear", "done"} => number_sub' <= Len(sub),
             tpc' \in {"history id", "history text"} => number_hist' <= Len(history')
      PROVE  Typed'
  <2>1. ServerTyped'
    BY <1>0, <1>1, <1>5 DEF ServerTyped
  <2>2. BlocksTyped'
    BY <1>0, <1>1, <1>5 DEF BlocksTyped
  <2>3. Within'
    BY <1>0, <1>1, <1>5 DEF Within
  <2>4. sub # <<>> => sub' # <<>>
    BY <1>3, <1>5, EmptySeq
  <2>5. Subscribed'
    BY <1>0, <1>1, <2>4 DEF Subscribed
  <2> QED
    BY <1>2, <1>5, <2>1, <2>2, <2>3, <2>5, TypePartsNext DEF Typed
<1>6. /\ tpc \notin {"poll", "take", "each", "clear", "done"} => number_sub <= Len(sub)
      /\ tpc \in {"history id", "history text"} => number_hist <= Len(history)
  BY <1>0 DEF Within
<1>20. /\ Len(sub) \in Nat /\ Len(history) \in Nat
       /\ number_sub \in Nat /\ number_hist \in Nat /\ number_sub >= 1 /\ number_hist >= 1
  BY <1>3
<1>7. CASE SeeLine \/ SendWaits
  <2>1. UNCHANGED <<sub, history, number_sub, number_hist, msg_rcv, msg_snd, sem, removed>>
        /\ tpc' \in {"take", "each"}
    BY <1>7 DEF SeeLine, SendWaits
  <2>2. SemsTyped'
    BY <1>0, <1>1, <2>1 DEF SemsTyped
  <2> QED
    BY <1>3, <1>4, <1>5, <2>1, <2>2
<1>8. CASE TakeMessage
  <2>1. /\ UNCHANGED <<sub, number_hist, msg_rcv, msg_snd, removed>> /\ Lock("rcv")
        /\ tpc' = "each" /\ number_sub' = 1 /\ history' = Append(history, msg_rcv.msg)
    BY <1>8 DEF TakeMessage
  <2>2. SemsTyped'
    BY <1>0, <1>1, <2>1, LockTyped DEF SemsTyped, Blocks
  <2>3. history' \in Seq(Texts)
    BY <1>3, <1>4, <2>1, AppendProperties
  <2> QED
    BY <1>3, <1>4, <1>5, <2>1, <2>2, <2>3
<1>9. CASE NextSubscriber
  <2>1. /\ UNCHANGED <<sub, history, number_sub, msg_rcv, msg_snd, sem, removed>>
        /\ tpc' \in {"history", "send"} /\ number_hist' \in {1, number_hist}
        /\ number_sub <= Len(sub)
    BY <1>9 DEF NextSubscriber
  <2>2. SemsTyped'
    BY <1>0, <1>1, <2>1 DEF SemsTyped
  <2>3. number_hist' \in Nat \ {0}
    BY <1>3, <2>1
  <2> QED
    BY <1>3, <1>4, <1>5, <2>1, <2>2, <2>3
<1>10. CASE Ready
  <2>1. /\ UNCHANGED <<sub, history, number_sub, number_hist, msg_rcv, msg_snd, sem, removed>>
        /\ tpc \in {"send", "history"} /\ (tpc = "history" => number_hist <= Len(history))
        /\ tpc' = IF tpc = "send" THEN "send id" ELSE "history id"
    BY <1>10 DEF Ready
  <2>2. SemsTyped'
    BY <1>0, <1>1, <2>1 DEF SemsTyped
  <2>3. tpc' \in {"send id", "history id"} /\ number_sub <= Len(sub)
    BY <1>6, <2>1
  <2>4. tpc' = "history id" => number_hist <= Len(history)
    BY <2>1
  <2> QED
    BY <1>3, <1>4, <1>5, <2>1, <2>2, <2>3, <2>4
<1>11. CASE PutId
  <2>1. PICK i : i = sub[number_sub].id
    OBVIOUS
  <2>2. /\ UNCHANGED <<sub, history, number_sub, number_hist, msg_rcv, removed>>
        /\ tpc \in {"send id", "history id"} /\ Lock("snd")
        /\ tpc' = IF tpc = "send id" THEN "send text" ELSE "history text"
        /\ msg_snd' = [msg_snd EXCEPT !.id_sub = i]
    BY <1>11, <2>1 DEF PutId
  <2>3. number_sub \in 1 .. Len(sub)
    <3>1. tpc \in {"send id", "history id"}
      BY <2>2
    <3>2. number_sub <= Len(sub)
      BY <1>6, <3>1
    <3> QED
      BY <1>20, <3>2
  <2>4. i \in Nat
    BY <1>3, <2>1, <2>3, EntryAt
  <2>5. msg_snd' \in [id_sub : Nat, msg : Texts]
    BY <1>4, <2>2, <2>4
  <2>6. SemsTyped'
    BY <1>0, <1>1, <2>2, LockTyped DEF SemsTyped, Blocks
  <2> QED
    BY <1>3, <1>4, <1>5, <1>6, <2>2, <2>5, <2>6
<1>12. CASE PutMessage
  <2>1. /\ UNCHANGED <<sub, history, number_hist, msg_rcv, removed>> /\ Unlock("snd")
        /\ tpc' = "each" /\ number_sub' = number_sub + 1
        /\ msg_snd' = [msg_snd EXCEPT !.msg = msg_rcv.msg]
    BY <1>12 DEF PutMessage
  <2>2. SemsTyped'
    BY <1>0, <1>1, <2>1, UnlockTyped DEF SemsTyped, Blocks
  <2>3. msg_snd' \in [id_sub : Nat, msg : Texts]
    BY <1>4, <2>1
  <2> QED
    BY <1>3, <1>4, <1>5, <2>1, <2>2, <2>3
<1>13. CASE PutHistory
  <2>1. PICK m : m = msg_snd.msg \o history[number_hist]
    OBVIOUS
  <2>2. /\ UNCHANGED <<sub, history, number_sub, msg_rcv, removed>> /\ Unlock("snd")
        /\ tpc = "history text" /\ tpc' = "history" /\ number_hist' = number_hist + 1
        /\ msg_snd' = [msg_snd EXCEPT !.msg = m]
    BY <1>13, <2>1 DEF PutHistory
  <2>3. number_hist \in 1 .. Len(history) /\ number_sub <= Len(sub)
    <3>1. tpc = "history text"
      BY <2>2
    <3>2. number_hist <= Len(history) /\ number_sub <= Len(sub)
      BY <1>6, <3>1
    <3> QED
      BY <1>20, <3>2
  <2>4. history[number_hist] \in Texts
    BY <1>3, <2>3, ElementOfSeq
  <2>5. m \in Texts
    BY <1>4, <2>1, <2>4, ConcatProperties DEF Texts
  <2>6. msg_snd' \in [id_sub : Nat, msg : Texts]
    BY <1>4, <2>2, <2>5
  <2>7. SemsTyped'
    BY <1>0, <1>1, <2>2, UnlockTyped DEF SemsTyped, Blocks
  <2>8. number_hist' \in Nat \ {0}
    <3>1. number_hist' = number_hist + 1
      BY <2>2
    <3> QED
      BY <1>20, <3>1
  <2>9. UNCHANGED <<sub, history, number_sub, msg_rcv>> /\ tpc' = "history"
    BY <2>2
  <2> QED
    BY <1>3, <1>4, <1>5, <2>3, <2>6, <2>7, <2>8, <2>9
<1>14. CASE HistorySent
  <2>1. /\ UNCHANGED <<history, number_hist, msg_rcv, msg_snd, sem, removed>>
        /\ tpc = "history" /\ tpc' = "each" /\ number_sub' = number_sub + 1
        /\ sub' = [sub EXCEPT ![number_sub] = [sub[number_sub] EXCEPT !.new_sub = 0]]
    BY <1>14 DEF HistorySent
  <2>2. number_sub \in 1 .. Len(sub)
    BY <1>3, <1>6, <2>1
  <2>3. PICK e \in Entry : e = [sub[number_sub] EXCEPT !.new_sub = 0]
    <3>1. sub[number_sub] \in Entry
      BY <1>3, <2>2, EntryAt
    <3> QED
      BY <3>1 DEF Entry
  <2>4. sub' \in Seq(Entry) /\ Len(sub') = Len(sub)
    BY <1>3, <2>1, <2>2, <2>3, EntryReplaced
  <2>5. SemsTyped'
    BY <1>0, <1>1, <2>1 DEF SemsTyped
  <2> QED
    BY <1>3, <1>4, <1>5, <2>1, <2>4, <2>5
<1>15. CASE WipeLine
  <2>1. /\ UNCHANGED <<sub, history, number_sub, number_hist, msg_snd, sem, removed>>
        /\ tpc' = "clear" /\ msg_rcv' = [msg_rcv EXCEPT !.msg = <<>>]
    BY <1>15 DEF WipeLine, WipedLine
  <2>2. msg_rcv' \in [id_sub : Nat, msg : Texts]
    BY <1>4, <2>1, EmptySeq DEF Texts
  <2>3. SemsTyped'
    BY <1>0, <1>1, <2>1 DEF SemsTyped
  <2> QED
    BY <1>3, <1>4, <1>5, <2>1, <2>2, <2>3
<1>16. CASE ClearLine
  <2>1. /\ UNCHANGED <<sub, history, number_sub, number_hist, msg_snd, removed>> /\ Unlock("rcv")
        /\ tpc' = "poll" /\ msg_rcv' = [msg_rcv EXCEPT !.id_sub = 0]
    BY <1>16 DEF ClearLine
  <2>2. msg_rcv' \in [id_sub : Nat, msg : Texts]
    BY <1>4, <2>1
  <2>3. SemsTyped'
    BY <1>0, <1>1, <2>1, UnlockTyped DEF SemsTyped, Blocks
  <2> QED
    BY <1>3, <1>4, <1>5, <2>1, <2>2, <2>3
<1>17. CASE ChatEnd
  <2>1. /\ UNCHANGED <<sub, history, number_sub, number_hist, msg_rcv, msg_snd, sem>>
        /\ tpc' = "done" /\ removed' = removed \cup {"rcv", "snd"}
    BY <1>17 DEF ChatEnd
  <2>2. SemsTyped'
    BY <1>0, <1>1, <2>1 DEF SemsTyped, Blocks
  <2> QED
    BY <1>3, <1>4, <1>5, <2>1, <2>2
<1> QED
  BY <1>7, <1>8, <1>9, <1>10, <1>11, <1>12, <1>13, <1>14, <1>15, <1>16, <1>17 DEF ChatServer

\* So do the clients: the semaphores,
LEMMA ClientSems == ASSUME SemsTyped, NEW c \in Clients, ClientStep(c) PROVE SemsTyped'
<1> USE DEF sems
<1>1. "mgmt" \in Blocks /\ "rcv" \in Blocks /\ "snd" \in Blocks /\ 1 \in Int /\ -1 \in Int
  BY DEF Blocks
<1>2. CASE Start(c) \/ SndInit(c) \/ RcvInit(c)
  BY <1>1, <1>2, SetValTyped DEF Start, SndInit, RcvInit, SemsTyped
<1>3. CASE LeaveName(c) \/ TakeId(c) \/ SayExit(c)
  <2>1. Lock("mgmt") /\ Undoing(c, 1) /\ removed' = removed
    BY <1>3 DEF LeaveName, TakeId, SayExit
  <2> QED
    BY <1>1, <2>1, LockTyped, UndoingTyped DEF SemsTyped
<1>4. CASE Named(c) \/ IdTaken(c)
  <2>1. Unlock("mgmt") /\ Undoing(c, -1) /\ removed' = removed
    BY <1>4 DEF Named, IdTaken
  <2> QED
    BY <1>1, <2>1, UnlockTyped, UndoingTyped DEF SemsTyped
<1>5. CASE NameCrash(c) \/ NameFails(c) \/ ThreadFails(c) \/ LeaveFails(c) \/ Exited(c)
  <2>1. sem' = Undone(c) /\ undo' = [undo EXCEPT ![c] = 0] /\ removed' = removed
    BY <1>5 DEF NameCrash, NameFails, ThreadFails, LeaveFails, Dies, Exited
  <2> QED
    BY <1>1, <2>1, UndoneTyped DEF SemsTyped
<1>6. CASE LockLine(c)
  BY <1>1, <1>6, LockTyped DEF LockLine, SemsTyped
<1>7. CASE PutLine(c)
  BY <1>1, <1>7, UnlockTyped DEF PutLine, SemsTyped
<1>8. CASE PrintMessage(c)
  BY <1>1, <1>8, LockTyped DEF PrintMessage, SemsTyped
<1>9. CASE ClearMessage(c)
  BY <1>1, <1>9, UnlockTyped DEF ClearMessage, SemsTyped
<1>10. CASE Leave(c) \/ RcvEnd(c)
  BY <1>1, <1>10 DEF Leave, RcvEnd, SemsTyped
<1>11. CASE SeeAnswer(c) \/ Type(c) \/ StaysOn(c) \/ Look(c) \/ WipeMessage(c)
  BY <1>11 DEF SeeAnswer, Type, StaysOn, Look, WipeMessage, SemsTyped
<1> QED
  BY <1>2, <1>3, <1>4, <1>5, <1>6, <1>7, <1>8, <1>9, <1>10, <1>11
  DEF ClientStep, ClientMain, ChatClientSnd, ChatClientRcv

\* what the clients keep for themselves,
LEMMA ClientOwn == ASSUME Typed, NEW c \in Clients, ClientStep(c) PROVE ClientsTyped'
<1> USE DEF input
<1>0. ClientsTyped /\ BlocksTyped
  BY TypeParts DEF Typed
<1>1. msg_snd.msg \in Texts /\ mgmt_msg.id_sub \in Nat
  BY <1>0 DEF BlocksTyped
<1>2. CASE Start(c) \/ LeaveName(c) \/ Named(c) \/ SeeAnswer(c) \/ SayExit(c) \/ Exited(c)
  <2>1. /\ UNCHANGED <<spc, rpc, id, screen, typed, inputs>> /\ calm' \in {calm, "no"}
        /\ \E s \in {"enter", "named", "wait", "answered", "exiting", "gone"} : cpc' = [cpc EXCEPT ![c] = s]
    BY <1>2 DEF Start, LeaveName, Named, SeeAnswer, SayExit, Exited
  <2> QED
    BY <1>0, <2>1 DEF ClientsTyped
<1>3. CASE NameCrash(c) \/ NameFails(c) \/ ThreadFails(c) \/ LeaveFails(c)
  <2>1. /\ UNCHANGED <<id, screen, typed>> /\ calm' \in {calm, "no"}
        /\ cpc' = [cpc EXCEPT ![c] = "dead"]
        /\ spc' = [spc EXCEPT ![c] = "dead"] /\ rpc' = [rpc EXCEPT ![c] = "dead"]
    BY <1>3 DEF NameCrash, NameFails, ThreadFails, LeaveFails, Dies
  <2>2. inputs' = inputs \/ (inputs < MaxInputs /\ inputs' = inputs + 1)
    BY <1>3 DEF NameCrash, NameFails, ThreadFails, LeaveFails, Input
  <2> QED
    BY <1>0, <2>1, <2>2, BoundAssumption DEF ClientsTyped
<1>4. CASE TakeId(c)
  <2>1. /\ UNCHANGED <<spc, rpc, screen, typed, inputs, calm>>
        /\ cpc' = [cpc EXCEPT ![c] = "taken"] /\ id' = [id EXCEPT ![c] = mgmt_msg.id_sub]
    BY <1>4 DEF TakeId
  <2> QED
    BY <1>0, <1>1, <2>1 DEF ClientsTyped
<1>5. CASE IdTaken(c)
  <2>1. /\ UNCHANGED <<id, screen, typed, inputs, calm>> /\ cpc' = [cpc EXCEPT ![c] = "chat"]
        /\ spc' = [spc EXCEPT ![c] = "init"] /\ rpc' = [rpc EXCEPT ![c] = "init"]
    BY <1>5 DEF IdTaken
  <2> QED
    BY <1>0, <2>1 DEF ClientsTyped
<1>6. CASE SndInit(c) \/ LockLine(c) \/ PutLine(c)
  <2>1. /\ UNCHANGED <<cpc, rpc, id, screen, typed, inputs, calm>>
        /\ \E s \in {"type", "text"} : spc' = [spc EXCEPT ![c] = s]
    BY <1>6 DEF SndInit, LockLine, PutLine
  <2> QED
    BY <1>0, <2>1 DEF ClientsTyped
<1>7. CASE Type(c)
  <2>1. /\ UNCHANGED <<cpc, rpc, id, screen>> /\ calm' \in {calm, "no"}
        /\ inputs < MaxInputs /\ inputs' = inputs + 1
        /\ typed' = [typed EXCEPT ![c] = typed[c] + 1] /\ spc' = [spc EXCEPT ![c] = "line"]
    BY <1>7 DEF Type, Input
  <2>2. typed[c] <= inputs
    BY DEF Typed, Within
  <2>3. typed[c] \in Nat /\ inputs \in Nat /\ typed[c] + 1 \in 0 .. MaxInputs
    BY <1>0, <2>1, <2>2, BoundAssumption DEF ClientsTyped
  <2>4. typed' \in [Clients -> 0 .. MaxInputs] /\ inputs' \in 0 .. MaxInputs
    BY <1>0, <2>1, <2>3, BoundAssumption DEF ClientsTyped
  <2> QED
    BY <1>0, <2>1, <2>4 DEF ClientsTyped
<1>8. CASE Leave(c)
  <2>1. /\ UNCHANGED <<cpc, rpc, id, screen, typed>> /\ calm' = "no"
        /\ inputs < MaxInputs /\ inputs' = inputs + 1 /\ spc' = [spc EXCEPT ![c] = "done"]
    BY <1>8 DEF Leave, Input
  <2> QED
    BY <1>0, <2>1, BoundAssumption DEF ClientsTyped
<1>9. CASE RcvInit(c) \/ StaysOn(c) \/ Look(c) \/ WipeMessage(c) \/ ClearMessage(c) \/ RcvEnd(c)
  <2>1. /\ UNCHANGED <<cpc, spc, id, screen, typed, inputs, calm>>
        /\ \E s \in {"poll", "look", "print", "clear", "done"} : rpc' = [rpc EXCEPT ![c] = s]
    BY <1>9 DEF RcvInit, StaysOn, Look, WipeMessage, ClearMessage, RcvEnd
  <2> QED
    BY <1>0, <2>1 DEF ClientsTyped
<1>10. CASE PrintMessage(c)
  <2>1. /\ UNCHANGED <<cpc, spc, id, typed, inputs, calm>> /\ rpc' = [rpc EXCEPT ![c] = "wipe"]
        /\ screen' = [screen EXCEPT ![c] = Append(screen[c], msg_snd.msg)]
    BY <1>10 DEF PrintMessage
  <2>2. screen \in [Clients -> Seq(Texts)]
    BY <1>0 DEF ClientsTyped
  <2>3. screen[c] \in Seq(Texts)
    BY <2>2
  <2>4. Append(screen[c], msg_snd.msg) \in Seq(Texts)
    BY <1>1, <2>3, AppendProperties
  <2>5. screen' \in [Clients -> Seq(Texts)]
    BY <2>1, <2>2, <2>4
  <2> QED
    BY <1>0, <2>1, <2>5 DEF ClientsTyped
<1> QED
  BY <1>2, <1>3, <1>4, <1>5, <1>6, <1>7, <1>8, <1>9, <1>10
  DEF ClientStep, ClientMain, ChatClientSnd, ChatClientRcv

\* the blocks,
LEMMA ClientBlocks == ASSUME Typed, NEW c \in Clients, ClientStep(c) PROVE BlocksTyped'
<1> USE DEF blocks
<1>0. ClientsTyped /\ BlocksTyped
  BY TypeParts DEF Typed
<1>1. /\ mgmt_msg \in [id_sub : Nat, msg : Names]
      /\ msg_rcv \in [id_sub : Nat, msg : Texts] /\ msg_rcv.msg \in Texts
      /\ msg_snd \in [id_sub : Nat, msg : Texts]
  BY <1>0 DEF BlocksTyped
<1>2. id[c] \in Nat /\ typed[c] \in 0 .. MaxInputs
  BY <1>0 DEF ClientsTyped
<1>3. CASE LeaveName(c) \/ SayExit(c)
  <2>1. UNCHANGED <<msg_rcv, msg_snd>> /\ \E t \in {c, "exit"} : mgmt_msg' = [mgmt_msg EXCEPT !.msg = t]
    BY <1>3 DEF LeaveName, SayExit
  <2>2. mgmt_msg' \in [id_sub : Nat, msg : Names]
    BY <1>1, <2>1 DEF Names
  <2> QED
    BY <1>1, <2>1, <2>2 DEF BlocksTyped
<1>4. CASE Named(c) \/ NameFails(c) \/ IdTaken(c) \/ Exited(c)
  <2>1. UNCHANGED <<msg_rcv, msg_snd>>
        /\ \/ mgmt_msg' = mgmt_msg
           \/ \E i \in {0, id[c]} : mgmt_msg' = [mgmt_msg EXCEPT !.id_sub = i]
    BY <1>4 DEF Named, NameFails, IdTaken, Exited
  <2>2. mgmt_msg' \in [id_sub : Nat, msg : Names]
    BY <1>1, <1>2, <2>1
  <2> QED
    BY <1>1, <2>1, <2>2 DEF BlocksTyped
<1>5. CASE LockLine(c)
  <2>1. UNCHANGED <<mgmt_msg, msg_snd>> /\ msg_rcv' = [msg_rcv EXCEPT !.id_sub = id[c]]
    BY <1>5 DEF LockLine
  <2> QED
    BY <1>1, <1>2, <2>1 DEF BlocksTyped
<1>6. CASE PutLine(c)
  <2>1. PICK t : t = Append(msg_rcv.msg, <<c, typed[c]>>)
    OBVIOUS
  <2>2. UNCHANGED <<mgmt_msg, msg_snd>> /\ msg_rcv' = [msg_rcv EXCEPT !.msg = t] /\ spc[c] = "text"
    BY <1>6, <2>1 DEF PutLine
  <2>3. typed[c] >= 1
    BY <2>2 DEF Typed, Within
  <2>4. <<c, typed[c]>> \in Lines
    BY <1>2, <2>3, BoundAssumption DEF Lines
  <2>5. t \in Texts
    BY <1>1, <2>1, <2>4, AppendProperties DEF Texts
  <2> QED
    BY <1>1, <2>2, <2>5 DEF BlocksTyped
<1>7. CASE WipeMessage(c) \/ ClearMessage(c)
  <2>1. UNCHANGED <<mgmt_msg, msg_rcv>>
        /\ \/ msg_snd' = [msg_snd EXCEPT !.msg = <<>>]
           \/ msg_snd' = [msg_snd EXCEPT !.id_sub = 0]
    BY <1>7 DEF WipeMessage, WipedText, ClearMessage, ClearedId
  <2>2. msg_snd' \in [id_sub : Nat, msg : Texts]
    <3>1. <<>> \in Texts
      BY EmptySeq DEF Texts
    <3>2. CASE msg_snd' = [msg_snd EXCEPT !.msg = <<>>]
      BY <1>1, <3>1, <3>2
    <3>3. CASE msg_snd' = [msg_snd EXCEPT !.id_sub = 0]
      BY <1>1, <3>3
    <3> QED
      BY <2>1, <3>2, <3>3
  <2> QED
    BY <1>1, <2>1, <2>2 DEF BlocksTyped
<1>8. CASE \/ Start(c) \/ NameCrash(c) \/ SeeAnswer(c) \/ TakeId(c) \/ SndInit(c) \/ ThreadFails(c)
           \/ Type(c) \/ Leave(c) \/ LeaveFails(c) \/ RcvInit(c) \/ StaysOn(c) \/ Look(c)
           \/ PrintMessage(c) \/ RcvEnd(c)
  <2>1. UNCHANGED blocks
    BY <1>8 DEF Start, NameCrash, SeeAnswer, TakeId, SndInit, ThreadFails, Type, Leave, LeaveFails,
                RcvInit, StaysOn, Look, PrintMessage, RcvEnd
  <2> QED
    BY <1>0, <2>1 DEF BlocksTyped
<1> QED
  BY <1>3, <1>4, <1>5, <1>6, <1>7, <1>8
  DEF ClientStep, ClientMain, ChatClientSnd, ChatClientRcv

\* and the bounds.
LEMMA ClientWithin == ASSUME Typed, NEW c \in Clients, ClientStep(c) PROVE Within'
<1> USE DEF input
<1>0. ClientsTyped /\ ClientsTyped' /\ Within
  BY ClientOwn, TypeParts DEF Typed
<1>1. UNCHANGED <<mpc, count_sub, tpc, number_sub, number_hist, history, sub>>
  BY ClientChanges DEF server, mgmtVars, chatVars, walk
<1>2. /\ \A d \in Clients : typed[d] \in Nat /\ typed'[d] \in Nat
      /\ inputs \in Nat /\ inputs' \in Nat
  BY <1>0, BoundAssumption DEF ClientsTyped
<1>3. \A d \in Clients : typed'[d] <= inputs' /\ (spc'[d] \in {"line", "text"} => typed'[d] >= 1)
  <2> TAKE d \in Clients
  <2>0. typed[d] <= inputs /\ (spc[d] \in {"line", "text"} => typed[d] >= 1)
    BY <1>0 DEF Within
  <2>1. CASE Type(c)
    <3>1. /\ inputs' = inputs + 1 /\ typed' = [typed EXCEPT ![c] = typed[c] + 1]
          /\ spc' = [spc EXCEPT ![c] = "line"]
      BY <2>1 DEF Type, Input
    <3>2. spc \in [Clients -> {"off", "init", "type", "line", "text", "done", "dead"}]
          /\ typed \in [Clients -> 0 .. MaxInputs]
      BY <1>0 DEF ClientsTyped
    <3>3. CASE d = c
      <4>1. typed'[d] = typed[d] + 1
        BY <3>1, <3>2, <3>3
      <4> QED
        BY <1>2, <2>0, <3>1, <4>1
    <3>4. CASE d # c
      <4>1. typed'[d] = typed[d] /\ spc'[d] = spc[d]
        BY <3>1, <3>2, <3>4
      <4> QED
        BY <1>2, <2>0, <3>1, <4>1
    <3> QED
      BY <3>3, <3>4
  <2>2. CASE ~Type(c)
    <3>1. typed' = typed /\ inputs' \in {inputs, inputs + 1}
      BY <2>2 DEF ClientStep, Start, NameCrash, ClientMain, LeaveName, Named, NameFails, SeeAnswer,
           TakeId, IdTaken, SayExit, Exited, ChatClientSnd, SndInit, ThreadFails, LockLine, PutLine,
           Leave, LeaveFails, Dies, Input, ChatClientRcv, RcvInit, StaysOn, Look, PrintMessage, WipeMessage,
           ClearMessage, RcvEnd
    <3>2. spc'[d] \in {"line", "text"} => spc[d] \in {"line", "text"}
      <4>1. spc \in [Clients -> {"off", "init", "type", "line", "text", "done", "dead"}]
        BY <1>0 DEF ClientsTyped
      <4>2. \/ spc' = spc
            \/ \E s \in {"init", "type", "done", "dead"} : spc' = [spc EXCEPT ![c] = s]
            \/ spc[c] = "line" /\ spc' = [spc EXCEPT ![c] = "text"]
        BY <2>2 DEF ClientStep, Start, NameCrash, ClientMain, LeaveName, Named, NameFails, SeeAnswer,
             TakeId, IdTaken, SayExit, Exited, ChatClientSnd, SndInit, ThreadFails, LockLine, PutLine,
             Leave, LeaveFails, Dies, ChatClientRcv, RcvInit, StaysOn, Look, PrintMessage, WipeMessage,
             ClearMessage, RcvEnd
      <4> QED
        BY <4>1, <4>2
    <3>3. typed'[d] = typed[d] /\ inputs' >= inputs
      BY <1>2, <3>1
    <3> QED
      BY <1>2, <2>0, <3>2, <3>3
  <2> QED
    BY <2>1, <2>2
<1> QED
  BY <1>0, <1>1, <1>3 DEF Within

LEMMA ClientSubscribed == ASSUME Typed, NEW c \in Clients, ClientStep(c) PROVE Subscribed'
<1> USE DEF input, blocks
<1>0. ClientsTyped /\ BlocksTyped /\ Subscribed
  BY TypeParts DEF Typed
<1>1. sub' = sub
  BY ClientChanges DEF server
<1>2. cpc \in [Clients -> {"off", "enter", "named", "wait", "answered", "taken", "chat",
                           "exiting", "gone", "dead"}]
  BY <1>0 DEF ClientsTyped
<1>3. mgmt_msg \in [id_sub : Nat, msg : Names]
  BY <1>0 DEF BlocksTyped
<1> DEFINE joined == {"answered", "taken", "chat", "exiting"}
<1>4. \A d \in Clients : cpc'[d] \in joined => sub # <<>>
  <2> SUFFICES ASSUME NEW d \in Clients, cpc'[d] \in joined PROVE sub # <<>>
    OBVIOUS
  <2>1. CASE cpc[d] \in joined
    BY <1>0, <2>1 DEF Subscribed
  <2>2. CASE cpc[d] \notin joined
    <3>1. d = c /\ SeeAnswer(c)
      BY <1>2, <2>2 DEF ClientStep, Start, NameCrash, ClientMain, LeaveName, Named, NameFails, SeeAnswer,
           TakeId, IdTaken, SayExit, Exited, ChatClientSnd, SndInit, ThreadFails, LockLine, PutLine, Type,
           Leave, LeaveFails, Dies, ChatClientRcv, RcvInit, StaysOn, Look, PrintMessage, WipeMessage,
           ClearMessage, RcvEnd
    <3>2. mgmt_msg.id_sub >= 1 /\ mgmt_msg.id_sub \in Nat
      BY <1>3, <3>1 DEF SeeAnswer
    <3>3. mgmt_msg.id_sub # 0
      BY <3>2
    <3> QED
      BY <1>0, <3>3 DEF Subscribed
  <2> QED
    BY <2>1, <2>2
<1>5. mgmt_msg'.id_sub # 0 \/ mgmt_msg'.msg = "exit" => sub # <<>>
  <2>1. CASE SayExit(c) \/ Exited(c)
    <3>1. cpc[c] \in joined
      BY <2>1 DEF SayExit, Exited
    <3> QED
      BY <1>0, <3>1 DEF Subscribed
  <2>2. CASE LeaveName(c)
    <3>1. mgmt_msg' = [mgmt_msg EXCEPT !.msg = c]
      BY <2>2 DEF LeaveName
    <3>2. mgmt_msg'.id_sub = mgmt_msg.id_sub /\ mgmt_msg'.msg = c
      BY <1>3, <3>1
    <3>3. c # "exit"
      BY NamesAssumption
    <3> QED
      BY <1>0, <3>2, <3>3 DEF Subscribed
  <2>3. CASE ~(SayExit(c) \/ Exited(c) \/ LeaveName(c))
    <3>1. mgmt_msg' = mgmt_msg \/ mgmt_msg' = [mgmt_msg EXCEPT !.id_sub = 0]
      BY <2>3 DEF ClientStep, Start, NameCrash, ClientMain, Named, NameFails, SeeAnswer,
           TakeId, IdTaken, ChatClientSnd, SndInit, ThreadFails, LockLine, PutLine, Type,
           Leave, LeaveFails, ChatClientRcv, RcvInit, StaysOn, Look, PrintMessage, WipeMessage,
           ClearMessage, RcvEnd
    <3>2. mgmt_msg'.id_sub \in {0, mgmt_msg.id_sub} /\ mgmt_msg'.msg = mgmt_msg.msg
      BY <1>3, <3>1
    <3> QED
      BY <1>0, <3>2 DEF Subscribed
  <2> QED
    BY <2>1, <2>2, <2>3
<1> QED
  BY <1>1, <1>4, <1>5 DEF Subscribed

LEMMA ClientTyped == ASSUME Typed, NEW c \in Clients, ClientStep(c) PROVE Typed'
<1>1. SemsTyped /\ ServerTyped
  BY TypeParts DEF Typed
<1>2. UNCHANGED server
  BY ClientChanges
<1>3. ServerTyped'
  BY <1>1, <1>2 DEF ServerTyped, server, mgmtVars, chatVars, walk
<1> QED
  BY <1>1, <1>3, ClientSems, ClientOwn, ClientBlocks, ClientWithin, ClientSubscribed, TypePartsNext
  DEF Typed

LEMMA NextSteps ==
    Next <=> MgmtThread \/ ChatServer \/ \E c \in Clients : ClientStep(c)
BY DEF Next, ClientStep

LEMMA NextTyped == Typed /\ [Next]_vars => Typed'
<1> SUFFICES ASSUME Typed, [Next]_vars PROVE Typed'
  OBVIOUS
<1>1. CASE UNCHANGED vars
  <2>1. UNCHANGED <<server, blocks, sems, clientVars>>
    BY <1>1 DEF vars
  <2>2. UNCHANGED <<mpc, slot, count_sub, tpc, number_sub, number_hist, history, sub>>
    BY <2>1 DEF server, mgmtVars, chatVars, walk
  <2>3. UNCHANGED <<mgmt_msg, msg_rcv, msg_snd, sem, removed, undo>>
    BY <2>1 DEF blocks, sems
  <2>4. UNCHANGED <<cpc, spc, rpc, id, screen, typed, inputs, calm>>
    BY <2>1 DEF clientVars, input
  <2>5. ServerTyped /\ BlocksTyped /\ SemsTyped /\ ClientsTyped /\ Within /\ Subscribed
    BY TypeParts DEF Typed
  <2>6. ServerTyped' /\ BlocksTyped' /\ SemsTyped'
    BY <2>2, <2>3, <2>5 DEF ServerTyped, BlocksTyped, SemsTyped
  <2>7. ClientsTyped' /\ Within' /\ Subscribed'
    BY <2>2, <2>3, <2>4, <2>5 DEF ClientsTyped, Within, Subscribed
  <2> QED
    BY <2>6, <2>7, TypePartsNext DEF Typed
<1>2. CASE Next
  BY <1>2, NextSteps, MgmtTyped, ChatTyped, ClientTyped
<1> QED
  BY <1>1, <1>2

\* Whatever the clients do, all variables keep their types and the indices stay
\* within sub[] and history[] (func.c:53, 210, 215).
THEOREM TypeCorrect == Spec => []TypeOK
<1>1. Spec => []Typed
  BY InitTyped, NextTyped, PTL DEF Spec
<1>2. Typed => TypeOK
  BY DEF Typed
<1> QED
  BY <1>1, <1>2, PTL

-----------------------------------------------------------------------------
(* The steps of a calm chat.                                                *)

CalmMgmt == SeeId \/ SeeNothing \/ SeeName \/ AddSubscriber \/ WipeName
CalmChat ==
    \/ SeeLine \/ TakeMessage \/ NextSubscriber \/ SendWaits \/ Ready \/ PutId
    \/ PutMessage \/ PutHistory \/ HistorySent \/ WipeLine \/ ClearLine
CalmClient(c) ==
    \/ (Start(c) /\ Quiet) \/ NameCrash(c) \/ LeaveName(c) \/ Named(c) \/ SeeAnswer(c)
    \/ TakeId(c) \/ IdTaken(c)
    \/ SndInit(c) \/ (Type(c) /\ NobodyRegisters) \/ LockLine(c) \/ PutLine(c)
    \/ RcvInit(c) \/ StaysOn(c) \/ Look(c) \/ PrintMessage(c) \/ WipeMessage(c) \/ ClearMessage(c)

LEMMA CalmBefore == Next /\ calm' = "yes" => calm = "yes"
<1> SUFFICES ASSUME Next, calm' = "yes" PROVE calm = "yes"
  OBVIOUS
<1>1. CASE MgmtThread
  BY <1>1, MgmtChanges DEF clientVars, input
<1>2. CASE ChatServer
  BY <1>2, ChatChanges DEF clientVars, input
<1>3. CASE \E c \in Clients : ClientStep(c)
  <2>1. PICK c \in Clients : ClientStep(c)
    BY <1>3
  <2>2. calm' \in {calm, "no"}
    BY <2>1 DEF ClientStep, Start, NameCrash, ClientMain, LeaveName, Named, NameFails, SeeAnswer,
         TakeId, IdTaken, SayExit, Exited, ChatClientSnd, SndInit, ThreadFails, LockLine, PutLine, Type,
         Leave, LeaveFails, ChatClientRcv, RcvInit, StaysOn, Look, PrintMessage, WipeMessage,
         ClearMessage, RcvEnd, input
  <2> QED
    BY <2>2
<1> QED
  BY <1>1, <1>2, <1>3, NextSteps

LEMMA CalmSteps ==
    ASSUME Typed, Steady, Next, calm' = "yes"
    PROVE  CalmMgmt \/ CalmChat \/ \E c \in Clients : CalmClient(c)
<1>1. Staying
  BY DEF Steady
<1>2. CASE MgmtThread
  BY <1>1, <1>2 DEF Staying, MgmtThread, CalmMgmt, SeeExit, DeleteSubscriber, Deleted, MgmtEnd
<1>3. CASE ChatServer
  BY <1>1, <1>3 DEF Staying, ChatServer, CalmChat, ChatEnd
<1>4. CASE \E c \in Clients : ClientStep(c)
  <2>1. PICK c \in Clients : ClientStep(c)
    BY <1>4
  <2>2. /\ removed = {} /\ spc[c] # "done"
        /\ cpc[c] # "exiting"
    BY <1>1 DEF Staying
  <2>3. ~(NameFails(c) \/ ThreadFails(c) \/ LeaveFails(c) \/ SayExit(c) \/ Exited(c) \/ RcvEnd(c))
    BY <2>2 DEF NameFails, ThreadFails, LeaveFails, SayExit, Exited, RcvEnd
  <2>4. ~Leave(c)
    BY DEF Leave
  <2>5. Start(c) => Quiet
    BY DEF Start
  <2>6. Type(c) => NobodyRegisters
    BY DEF Type
  <2> QED
    BY <2>1, <2>3, <2>4, <2>5, <2>6
    DEF ClientStep, ClientMain, ChatClientSnd, ChatClientRcv, CalmClient
<1> QED
  BY <1>2, <1>3, <1>4, NextSteps

\* The semaphores, while nothing is removed.
LEMMA Locked ==
    ASSUME Typed, removed = {}, NEW b \in Blocks, Lock(b)
    PROVE  sem[b] > 0 /\ sem'[b] = sem[b] - 1 /\ \A d \in Blocks \ {b} : sem'[d] = sem[d]
<1>1. sem \in [Blocks -> Int]
  BY TypeParts DEF Typed, SemsTyped
<1> QED
  BY <1>1 DEF Lock, CanLock, Taken

LEMMA Unlocked ==
    ASSUME Typed, removed = {}, NEW b \in Blocks, Unlock(b)
    PROVE  sem'[b] = sem[b] + 1 /\ \A d \in Blocks \ {b} : sem'[d] = sem[d]
<1>1. sem \in [Blocks -> Int]
  BY TypeParts DEF Typed, SemsTyped
<1> QED
  BY <1>1 DEF Unlock

LEMMA Reset ==
    ASSUME Typed, NEW b \in Blocks, SetVal(b)
    PROVE  sem'[b] = 1 /\ \A d \in Blocks \ {b} : sem'[d] = sem[d]
<1>1. sem \in [Blocks -> Int]
  BY TypeParts DEF Typed, SemsTyped
<1> QED
  BY <1>1 DEF SetVal

\* Who finds a semaphore positive finds nobody inside; who is inside is alone.
LEMMA NobodyIn ==
    ASSUME NEW b, Guarded(b), sem[b] > 0
    PROVE  sem[b] = 1 /\ ~ServerIn(b) /\ \A c \in Clients : ~ClientIn(b, c)
BY DEF Guarded

LEMMA AloneIn ==
    ASSUME NEW b, Guarded(b)
    PROVE  /\ ServerIn(b) => sem[b] = 0 /\ \A c \in Clients : ~ClientIn(b, c)
           /\ \A c \in Clients : ClientIn(b, c) =>
                  sem[b] = 0 /\ ~ServerIn(b) /\ \A d \in Clients \ {c} : ~ClientIn(b, d)
BY DEF Guarded

\* A semaphore that keeps counting who is inside.
LEMMA SameIn ==
    ASSUME NEW b, Guarded(b), sem'[b] = sem[b], ServerIn(b)' <=> ServerIn(b),
           \A c \in Clients : ClientIn(b, c)' <=> ClientIn(b, c)
    PROVE  Guarded(b)'
BY DEF Guarded

LEMMA ServerEnters ==
    ASSUME NEW b, Guarded(b), sem[b] > 0, sem'[b] = sem[b] - 1, ServerIn(b)',
           \A c \in Clients : ClientIn(b, c)' <=> ClientIn(b, c)
    PROVE  Guarded(b)'
<1>1. sem[b] = 1 /\ \A c \in Clients : ~ClientIn(b, c)
  BY NobodyIn
<1>2. sem'[b] = 0
  BY <1>1
<1> QED
  BY <1>1, <1>2 DEF Guarded

LEMMA ServerLeaves ==
    ASSUME NEW b, Guarded(b), ServerIn(b), sem'[b] = sem[b] + 1, ~ServerIn(b)',
           \A c \in Clients : ClientIn(b, c)' <=> ClientIn(b, c)
    PROVE  Guarded(b)'
<1>1. sem[b] = 0 /\ \A c \in Clients : ~ClientIn(b, c)
  BY AloneIn
<1>2. sem'[b] = 1
  BY <1>1
<1> QED
  BY <1>1, <1>2 DEF Guarded

LEMMA ClientEnters ==
    ASSUME NEW b, NEW c \in Clients, Guarded(b), sem[b] > 0, sem'[b] = sem[b] - 1,
           ServerIn(b)' <=> ServerIn(b), ClientIn(b, c)',
           \A d \in Clients \ {c} : ClientIn(b, d)' <=> ClientIn(b, d)
    PROVE  Guarded(b)'
<1>1. sem[b] = 1 /\ ~ServerIn(b) /\ \A d \in Clients : ~ClientIn(b, d)
  BY NobodyIn
<1>2. sem'[b] = 0
  BY <1>1
<1>3. \A d \in Clients : ClientIn(b, d)' <=> d = c
  BY <1>1
<1> QED
  BY <1>1, <1>2, <1>3 DEF Guarded

LEMMA ClientLeaves ==
    ASSUME NEW b, NEW c \in Clients, Guarded(b), ClientIn(b, c), sem'[b] = sem[b] + 1,
           ServerIn(b)' <=> ServerIn(b), ~ClientIn(b, c)',
           \A d \in Clients \ {c} : ClientIn(b, d)' <=> ClientIn(b, d)
    PROVE  Guarded(b)'
<1>1. sem[b] = 0 /\ ~ServerIn(b) /\ \A d \in Clients \ {c} : ~ClientIn(b, d)
  BY AloneIn
<1>2. sem'[b] = 1
  BY <1>1
<1>3. \A d \in Clients : ~ClientIn(b, d)'
  BY <1>1
<1> QED
  BY <1>1, <1>2, <1>3 DEF Guarded

-----------------------------------------------------------------------------
(* mgmt_thread in a calm chat.                                              *)

\* Who is being answered is coming in, and the chat rests.
LEMMA ComingIn ==
    ASSUME Steady, NEW c \in Clients, Asks(c) \/ Answers(c)
    PROVE  /\ Registering(c) /\ \A d \in Clients : Registering(d) => d = c
           /\ tpc = "poll" /\ msg_rcv.id_sub = 0 /\ msg_snd.msg = <<>>
           /\ \A d \in Clients : cpc[d] \in {"enter", "named", "wait", "answered", "taken"} => d = c
<1>1. Registering(c)
  BY DEF Asks, Answers, Registering
<1>2. Joining
  BY DEF Steady
<1>3. \A d \in Clients : cpc[d] \in {"enter", "named", "wait", "answered", "taken"} => Registering(d)
  BY DEF Registering
<1> QED
  BY <1>1, <1>2, <1>3 DEF Joining

LEMMA EntriesTyped ==
    ASSUME Typed
    PROVE  /\ sub \in Seq(Entry) /\ Len(sub) \in Nat /\ DOMAIN sub = 1 .. Len(sub)
           /\ \A i \in 1 .. Len(sub) : sub[i] \in Entry /\ sub[i].id \in Nat /\ sub[i].new_sub \in {0, 1}
<1>1. sub \in Seq(Entry)
  BY TypeParts DEF Typed, ServerTyped
<1> QED
  BY <1>1, LenProperties, EntryAt

LEMMA MgmtOthers ==
    ASSUME Steady, MgmtThread
    PROVE  Joining' /\ Taking' /\ Handing' /\ OnePlace'
<1>1. UNCHANGED <<chatVars, msg_rcv, msg_snd, undo, clientVars>>
  BY MgmtChanges
<1>2. UNCHANGED <<tpc, number_sub, number_hist, history, cpc, spc, rpc, id, typed, screen>>
  BY <1>1 DEF chatVars, walk, clientVars, input
<1>3. Joining' /\ Taking'
  BY <1>1, <1>2 DEF Steady, Joining, Registering, Taking, Middle
<1>4. Handing'
  BY <1>1, <1>2 DEF Steady, Handing, Filling
<1>5. OnePlace'
  BY <1>1, <1>2 DEF Steady, OnePlace, WithUser, InBlock, InHistory
<1> QED
  BY <1>3, <1>4, <1>5

\* The guards of the blocks the thread does not use.
LEMMA MgmtGuards ==
    ASSUME Steady, MgmtThread, sem'["rcv"] = sem["rcv"], sem'["snd"] = sem["snd"], Guarded("mgmt")'
    PROVE  AllGuarded'
<1>1. UNCHANGED <<chatVars, msg_rcv, msg_snd, undo, clientVars>>
  BY MgmtChanges
<1>2. UNCHANGED <<tpc, undo, cpc, spc, rpc>>
  BY <1>1 DEF chatVars, clientVars
<1>3. \A b \in {"rcv", "snd"} : Guarded(b)'
  <2> TAKE b \in {"rcv", "snd"}
  <2>1. Guarded(b) /\ sem'[b] = sem[b]
    BY DEF Steady, AllGuarded, Blocks
  <2> QED
    BY <1>2, <2>1, SameIn DEF ServerIn, ClientIn
<1>4. \A c \in Clients : undo'[c] = IF ClientIn("mgmt", c)' THEN 1 ELSE 0
  BY <1>2 DEF Steady, AllGuarded, ClientIn
<1> QED
  BY <1>3, <1>4 DEF AllGuarded, Blocks

\* Steps that leave sub[] alone.
LEMMA SameEntries ==
    ASSUME Steady, MgmtThread, sub' = sub
    PROVE  Serving' /\ Delivered'
<1>1. UNCHANGED <<chatVars, msg_rcv, msg_snd, undo, clientVars>>
  BY MgmtChanges
<1>2. UNCHANGED <<tpc, number_sub, number_hist, history, cpc, rpc, id, screen>>
  BY <1>1 DEF chatVars, walk, clientVars, input
<1> QED
  BY <1>1, <1>2 DEF Steady, Serving, Delivered, InChat, Pending, Sent, Middle

LEMMA MgmtLooks ==
    ASSUME Typed, Steady, SeeId \/ SeeNothing
    PROVE  Steady'
<1>1. MgmtThread
  BY DEF MgmtThread
<1>2. UNCHANGED <<chatVars, msg_rcv, msg_snd, undo, clientVars>>
  BY <1>1, MgmtChanges
<1>3. UNCHANGED <<tpc, cpc, spc, rpc, id>>
  BY <1>2 DEF chatVars, clientVars
<1>4. /\ UNCHANGED <<slot, count_sub, sub, mgmt_msg, sem, removed>>
      /\ mpc \in {"poll", "name", "text"} /\ mpc' \in {"poll", "name", "text"}
  BY DEF SeeId, SeeNothing, blocks, sems
<1>5. Staying'
  BY <1>3, <1>4 DEF Steady, Staying
<1>6. Exchange'
  BY <1>3, <1>4 DEF Steady, Exchange, Idle, Asks, Answers
<1>7. Numbered'
  BY <1>3, <1>4 DEF Steady, Numbered
<1>8. Guarded("mgmt")'
  <2>1. Guarded("mgmt")
    BY DEF Steady, AllGuarded, Blocks
  <2> QED
    BY <1>3, <1>4, <2>1, SameIn DEF ServerIn, ClientIn
<1> QED
  BY <1>1, <1>4, <1>5, <1>6, <1>7, <1>8, MgmtOthers, MgmtGuards, SameEntries DEF Steady

\* The entries of the others keep what they have.
LEMMA OtherEntries ==
    ASSUME Typed, Steady, MgmtThread, tpc = "poll",
           \A c \in Clients : InChat(c) => sub'[id[c]] = sub[id[c]]
    PROVE  Serving' /\ Delivered'
<1>1. UNCHANGED <<chatVars, msg_rcv, msg_snd, undo, clientVars>>
  BY MgmtChanges
<1>2. UNCHANGED <<tpc, number_sub, number_hist, history, cpc, rpc, id, screen>>
  BY <1>1 DEF chatVars, walk, clientVars, input
<1>3. Serving'
  BY <1>2 DEF Serving
<1>4. \A c \in Clients : InChat(c) => Sent(id[c])' = Sent(id[c])
  BY <1>2 DEF Sent, Middle
<1>5. \A c \in Clients : (InChat(c)' <=> InChat(c)) /\ (Pending(c)' <=> Pending(c))
  BY <1>1, <1>2 DEF InChat, Pending
<1>6. Delivered
  BY DEF Steady
<1>7. Delivered'
  <2> SUFFICES ASSUME NEW c \in Clients
               PROVE  /\ ~InChat(c)' => screen'[c] = <<>>
                      /\ InChat(c)' =>
                             /\ Len(screen'[c]) = IF Pending(c)' THEN Sent(id[c])' - 1 ELSE Sent(id[c])'
                             /\ Pending(c)' => msg_snd'.msg = history'[Sent(id[c])']
                      /\ Len(screen'[c]) <= Len(history')
                      /\ \A k \in 1 .. Len(screen'[c]) : screen'[c][k] = history'[k]
    BY DEF Delivered
  <2> QED
    BY <1>1, <1>2, <1>4, <1>5, <1>6 DEF Delivered
<1> QED
  BY <1>3, <1>7

LEMMA NameSteady == ASSUME Typed, Steady, SeeName PROVE Steady'
<1>1. MgmtThread
  BY DEF MgmtThread
<1>2. UNCHANGED <<chatVars, msg_rcv, msg_snd, undo, clientVars>>
  BY <1>1, MgmtChanges
<1>3. UNCHANGED <<tpc, cpc, spc, rpc, id>>
  BY <1>2 DEF chatVars, clientVars
<1>4. UNCHANGED <<mgmt_msg, sem, removed>> /\ mpc = "name" /\ mpc' = "add" /\ mgmt_msg.msg # "empty"
  BY DEF SeeName, blocks, sems
<1>5. Numbered /\ Exchange /\ Staying
  BY DEF Steady
<1>6. PICK c \in Clients : Asks(c)
  BY <1>4, <1>5 DEF Exchange, Idle, Answers
<1>7. tpc = "poll"
  BY <1>6, ComingIn
<1>8. sub \in Seq(Entry) /\ Len(sub) \in Nat
  BY EntriesTyped
<1>9. /\ count_sub' = count_sub + 1 /\ slot' = Len(sub) + 1 /\ Len(sub') = Len(sub) + 1
      /\ sub'[Len(sub')].name = "unset" /\ \A j \in 1 .. Len(sub) : sub'[j] = sub[j]
  <2>1. ~(sub' = sub /\ sub[slot'].name = "empty")
    <3>1. SUFFICES ASSUME sub' = sub, sub[slot'].name = "empty" PROVE FALSE
      OBVIOUS
    <3>2. slot' \in 1 .. Len(sub)
      BY <3>1, NameSeen
    <3>3. sub[slot'].name \in Clients \cup {"unset"}
      BY <1>5, <3>2 DEF Numbered
    <3> QED
      BY <3>1, <3>3, NamesAssumption
  <2> QED
    BY <2>1, NameSeen
<1>10. \A i \in 1 .. Len(sub) : sub[i].name \in Clients /\ sub[i].name # "unset" /\ sub[i].id = i
  BY <1>4, <1>5, NamesAssumption DEF Numbered
<1>11. Numbered'
  <2>1. count_sub' = Len(sub') /\ slot' = Len(sub')
    BY <1>5, <1>8, <1>9 DEF Numbered
  <2>2. \A i \in 1 .. Len(sub') : i \in 1 .. Len(sub) \/ i = Len(sub')
    BY <1>8, <1>9
  <2>3. \A i \in 1 .. Len(sub) : i # Len(sub') /\ i \in 1 .. Len(sub')
    BY <1>8, <1>9
  <2>4. \A i \in 1 .. Len(sub') :
            /\ sub'[i].name \in Clients \cup {"unset"}
            /\ sub'[i].name = "unset" <=> i = Len(sub')
            /\ sub'[i].name # "unset" => sub'[i].id = i
    BY <1>9, <1>10, <2>2, <2>3
  <2>5. \A d \in Clients : cpc[d] \in {"taken", "chat"} =>
            id[d] \in 1 .. Len(sub') /\ sub'[id[d]].name = d
    BY <1>5, <1>9, <2>3 DEF Numbered
  <2> QED
    BY <1>3, <1>4, <2>1, <2>4, <2>5 DEF Numbered
<1>12. Exchange'
  <2>1. Asks(c)'
    BY <1>3, <1>4, <1>6 DEF Asks
  <2> QED
    BY <2>1 DEF Exchange
<1>13. Staying'
  BY <1>3, <1>4, <1>5 DEF Staying
<1>14. Guarded("mgmt")'
  <2>1. Guarded("mgmt")
    BY DEF Steady, AllGuarded, Blocks
  <2> QED
    BY <1>3, <1>4, <2>1, SameIn DEF ServerIn, ClientIn
<1>15. \A d \in Clients : InChat(d) => sub'[id[d]] = sub[id[d]]
  BY <1>5, <1>9 DEF Numbered, InChat
<1> QED
  BY <1>1, <1>4, <1>7, <1>11, <1>12, <1>13, <1>14, <1>15, MgmtOthers, MgmtGuards, OtherEntries
  DEF Steady

LEMMA AddSteady == ASSUME Typed, Steady, AddSubscriber PROVE Steady'
<1>1. MgmtThread
  BY DEF MgmtThread
<1>2. UNCHANGED <<chatVars, msg_rcv, msg_snd, undo, clientVars>>
  BY <1>1, MgmtChanges
<1>3. UNCHANGED <<tpc, cpc, spc, rpc, id>>
  BY <1>2 DEF chatVars, clientVars
<1>4. /\ UNCHANGED <<count_sub, slot, removed>> /\ mpc = "add" /\ mpc' = "wipe" /\ Lock("mgmt")
  BY DEF AddSubscriber
<1>5. Numbered /\ Exchange /\ Staying /\ Guarded("mgmt")
  BY DEF Steady, AllGuarded, Blocks
<1>6. sub \in Seq(Entry) /\ Len(sub) \in Nat /\ mgmt_msg \in [id_sub : Nat, msg : Names]
  BY EntriesTyped, TypeParts DEF Typed, BlocksTyped
<1>7. slot \in 1 .. Len(sub) /\ slot = Len(sub) /\ count_sub = Len(sub)
  <2>1. slot \in 1 .. Len(sub)
    BY <1>4, TypeParts DEF Typed, ServerTyped
  <2> QED
    BY <1>4, <1>5, <2>1 DEF Numbered
<1>8. IdOf(sub[slot]) = Len(sub)
  BY <1>4, <1>5, <1>7 DEF Numbered, IdOf
<1>9. sem["mgmt"] > 0 /\ sem'["mgmt"] = sem["mgmt"] - 1 /\ sem'["rcv"] = sem["rcv"] /\ sem'["snd"] = sem["snd"]
  BY <1>4, <1>5, Locked DEF Staying, Blocks
<1>10. PICK c \in Clients : Asks(c)
  BY <1>4, <1>5 DEF Exchange, Idle, Answers
<1>11. tpc = "poll"
  BY <1>10, ComingIn
<1>12. cpc[c] = "wait" /\ mgmt_msg.msg = c
  <2>1. ~ClientIn("mgmt", c)
    BY <1>5, <1>9, NobodyIn
  <2> QED
    BY <1>10, <2>1 DEF Asks, ClientIn
<1>13. PICK e : e = [id |-> Len(sub), name |-> c, new_sub |-> 1]
  OBVIOUS
<1>14. sub' = [sub EXCEPT ![Len(sub)] = e] /\ mgmt_msg' = [mgmt_msg EXCEPT !.id_sub = Len(sub)]
  BY <1>7, <1>8, <1>12, <1>13 DEF AddSubscriber
<1>15. mgmt_msg'.id_sub = Len(sub) /\ mgmt_msg'.msg = c
  BY <1>6, <1>12, <1>14
<1>16. e \in Entry /\ e.id = Len(sub) /\ e.name = c /\ e.new_sub = 1
  BY <1>6, <1>13 DEF Entry
<1>17. /\ Len(sub') = Len(sub) /\ sub'[Len(sub)] = e
       /\ \A j \in 1 .. Len(sub) \ {Len(sub)} : sub'[j] = sub[j]
  BY <1>6, <1>7, <1>14, <1>16, EntryReplaced
<1>18. \A d \in Clients : cpc[d] \in {"taken", "chat"} =>
            id[d] \in 1 .. Len(sub) /\ sub[id[d]].name = d /\ id[d] # Len(sub)
  <2>1. sub[Len(sub)].name = "unset"
    BY <1>4, <1>5, <1>7 DEF Numbered
  <2> QED
    BY <1>5, <2>1, NamesAssumption DEF Numbered
<1>19. Numbered'
  <2>1. \A i \in 1 .. Len(sub) :
            /\ sub'[i].name \in Clients \cup {"unset"} /\ sub'[i].name # "unset" /\ sub'[i].id = i
    <3> TAKE i \in 1 .. Len(sub)
    <3>1. CASE i = Len(sub)
      BY <1>16, <1>17, <3>1, NamesAssumption
    <3>2. CASE i # Len(sub)
      BY <1>4, <1>5, <1>17, <3>2 DEF Numbered
    <3> QED
      BY <3>1, <3>2
  <2>2. \A d \in Clients : cpc[d] \in {"taken", "chat"} =>
            id[d] \in 1 .. Len(sub) /\ sub'[id[d]].name = d
    BY <1>17, <1>18
  <2> QED
    BY <1>3, <1>4, <1>7, <1>17, <2>1, <2>2 DEF Numbered
<1>20. Exchange'
  <2>1. Answers(c)'
    BY <1>3, <1>4, <1>6, <1>7, <1>12, <1>15, <1>16, <1>17 DEF Answers
  <2> QED
    BY <2>1 DEF Exchange
<1>21. Staying'
  BY <1>3, <1>4, <1>5, <1>15, NamesAssumption DEF Staying
<1>22. Guarded("mgmt")'
  BY <1>3, <1>4, <1>5, <1>9, ServerEnters DEF ServerIn, ClientIn
<1>23. \A d \in Clients : InChat(d) => sub'[id[d]] = sub[id[d]]
  BY <1>17, <1>18 DEF InChat
<1> QED
  BY <1>1, <1>9, <1>11, <1>19, <1>20, <1>21, <1>22, <1>23, MgmtOthers, MgmtGuards, OtherEntries
  DEF Steady

LEMMA WipeSteady == ASSUME Typed, Steady, WipeName PROVE Steady'
<1>1. MgmtThread
  BY DEF MgmtThread
<1>2. UNCHANGED <<chatVars, msg_rcv, msg_snd, undo, clientVars>>
  BY <1>1, MgmtChanges
<1>3. UNCHANGED <<tpc, cpc, spc, rpc, id>>
  BY <1>2 DEF chatVars, clientVars
<1>4. /\ UNCHANGED <<count_sub, slot, removed, sub>> /\ mpc = "wipe" /\ mpc' = "poll" /\ Unlock("mgmt")
  BY DEF WipeName
<1>5. Numbered /\ Exchange /\ Staying /\ Guarded("mgmt")
  BY DEF Steady, AllGuarded, Blocks
<1>6. mgmt_msg'.id_sub = mgmt_msg.id_sub /\ mgmt_msg'.msg = "empty"
  <2>1. mgmt_msg \in [id_sub : Nat, msg : Names]
    BY TypeParts DEF Typed, BlocksTyped
  <2> QED
    BY <2>1 DEF WipeName
<1>7. sem'["mgmt"] = sem["mgmt"] + 1 /\ sem'["rcv"] = sem["rcv"] /\ sem'["snd"] = sem["snd"]
  BY <1>4, <1>5, Unlocked DEF Staying, Blocks
<1>8. Exchange'
  BY <1>3, <1>4, <1>5, <1>6 DEF Exchange, Idle, Asks, Answers
<1>9. Numbered'
  BY <1>3, <1>4, <1>5 DEF Numbered
<1>10. Staying'
  BY <1>3, <1>4, <1>5, <1>6 DEF Staying
<1>11. Guarded("mgmt")'
  BY <1>3, <1>4, <1>5, <1>7, ServerLeaves DEF ServerIn, ClientIn
<1> QED
  BY <1>1, <1>4, <1>7, <1>8, <1>9, <1>10, <1>11, MgmtOthers, MgmtGuards, SameEntries DEF Steady

LEMMA MgmtSteady == ASSUME Typed, Steady, CalmMgmt PROVE Steady'
BY MgmtLooks, NameSteady, AddSteady, WipeSteady DEF CalmMgmt

-----------------------------------------------------------------------------
(* chat_server in a calm chat.                                              *)

LEMMA ChatFrame ==
    ASSUME ChatServer
    PROVE  UNCHANGED <<mpc, slot, count_sub, mgmt_msg, undo, cpc, spc, rpc, id, screen, typed>>
BY ChatChanges DEF mgmtVars, clientVars, input

\* While it works nobody comes in.
LEMMA ChatAlone ==
    ASSUME Typed, Steady, CalmChat
    PROVE  /\ \A c \in Clients : ~Registering(c)
           /\ Idle /\ mpc \notin {"add", "wipe"}
<1>1. tpc # "poll" \/ msg_rcv.id_sub # 0
  <2>1. CASE SeeLine
    <3>1. msg_rcv.id_sub \in Nat /\ msg_rcv.id_sub > 0
      BY <2>1, TypeParts DEF Typed, BlocksTyped, SeeLine
    <3> QED
      BY <3>1
  <2>2. CASE ~SeeLine
    BY <2>2 DEF CalmChat, TakeMessage, NextSubscriber, SendWaits, Ready, PutId, PutMessage,
       PutHistory, HistorySent, WipeLine, ClearLine
  <2> QED
    BY <2>1, <2>2
<1>2. \A c \in Clients : ~Registering(c)
  BY <1>1 DEF Steady, Joining
<1>3. Idle
  BY <1>2, ComingIn DEF Steady, Exchange
<1> QED
  BY <1>2, <1>3 DEF Idle

\* What remains to be shown of its steps.
LEMMA ChatOthers ==
    ASSUME Typed, Steady, CalmChat, removed' = removed, tpc' # "done", sem'["mgmt"] = sem["mgmt"],
           Guarded("rcv")', Guarded("snd")', Numbered', Taking', Handing', Serving', Delivered', OnePlace'
    PROVE  Steady'
<1>1. ChatServer
  BY DEF CalmChat, ChatServer
<1>2. UNCHANGED <<mpc, mgmt_msg, undo, cpc, spc, rpc, id>>
  BY <1>1, ChatFrame
<1>3. Staying'
  BY <1>2 DEF Steady, Staying
<1>4. Guarded("mgmt")'
  <2>1. Guarded("mgmt")
    BY DEF Steady, AllGuarded, Blocks
  <2> QED
    BY <1>2, <2>1, SameIn DEF ServerIn, ClientIn
<1>5. AllGuarded'
  BY <1>2, <1>4 DEF Steady, AllGuarded, Blocks, ClientIn
<1>6. \A c \in Clients : ~Registering(c)'
  BY <1>2, ChatAlone DEF Registering
<1>7. Joining'
  BY <1>6 DEF Joining
<1>8. Exchange'
  <2>1. Idle'
    BY <1>2, ChatAlone DEF Idle
  <2> QED
    BY <2>1 DEF Exchange
<1> QED
  BY <1>3, <1>5, <1>7, <1>8 DEF Steady

LEMMA ChatNumbered ==
    ASSUME Typed, Steady, CalmChat, Len(sub') = Len(sub),
           \A i \in 1 .. Len(sub) : sub'[i].name = sub[i].name /\ sub'[i].id = sub[i].id
    PROVE  Numbered'
<1>1. ChatServer
  BY DEF CalmChat, ChatServer
<1>2. UNCHANGED <<mpc, slot, count_sub, cpc, id>>
  BY <1>1, ChatFrame
<1> QED
  BY <1>2 DEF Steady, Numbered

LEMMA ChatGuards ==
    ASSUME Steady, CalmChat, sem' = sem,
           tpc \in {"poll", "take"} <=> tpc' \in {"poll", "take"}, Filling <=> Filling'
    PROVE  Guarded("rcv")' /\ Guarded("snd")'
<1>1. UNCHANGED <<cpc, spc, rpc>>
  BY ChatFrame DEF CalmChat, ChatServer
<1>2. Guarded("rcv") /\ Guarded("snd")
  BY DEF Steady, AllGuarded, Blocks
<1> QED
  BY <1>1, <1>2, SameIn DEF ServerIn, ClientIn, Filling

LEMMA ChatLines ==
    ASSUME Steady, CalmChat, UNCHANGED <<history, msg_rcv>>,
           tpc \in {"poll", "take"} <=> tpc' \in {"poll", "take"}
    PROVE  OnePlace'
<1>1. UNCHANGED <<spc, typed>>
  BY ChatFrame DEF CalmChat, ChatServer
<1> QED
  BY <1>1 DEF Steady, OnePlace, WithUser, InBlock, InHistory

LEMMA ChatTaking ==
    ASSUME Steady, Middle, Middle', UNCHANGED <<history, msg_rcv>>
    PROVE  Taking'
BY DEF Steady, Taking, Middle

LEMMA ChatHanding ==
    ASSUME Steady, CalmChat, msg_snd' = msg_snd, Filling' <=> Filling, Filling => number_sub' = number_sub,
           tpc' \in {"history id", "send id"} => msg_snd.msg = <<>>
    PROVE  Handing'
<1>1. UNCHANGED <<rpc, id>>
  BY ChatFrame DEF CalmChat, ChatServer
<1>2. Handing
  BY DEF Steady
<1>3. tpc' \in {"history id", "send id", "history text", "send text"} => msg_snd.msg = <<>>
  BY <1>2 DEF Handing, Filling
<1> QED
  BY <1>1, <1>2, <1>3 DEF Handing

LEMMA ChatDelivered ==
    ASSUME Steady, CalmChat, history' = history,
           \A c \in Clients : InChat(c) =>
               /\ Sent(id[c])' = Sent(id[c]) /\ (Pending(c)' <=> Pending(c))
               /\ Pending(c) => msg_snd'.msg = msg_snd.msg
    PROVE  Delivered'
<1>1. UNCHANGED <<cpc, id, screen>>
  BY ChatFrame DEF CalmChat, ChatServer
<1>2. Delivered
  BY DEF Steady
<1>3. \A c \in Clients : InChat(c)' <=> InChat(c)
  BY <1>1 DEF InChat
<1> SUFFICES ASSUME NEW c \in Clients
             PROVE  /\ ~InChat(c)' => screen'[c] = <<>>
                    /\ InChat(c)' =>
                           /\ Len(screen'[c]) = IF Pending(c)' THEN Sent(id[c])' - 1 ELSE Sent(id[c])'
                           /\ Pending(c)' => msg_snd'.msg = history'[Sent(id[c])']
                    /\ Len(screen'[c]) <= Len(history')
                    /\ \A k \in 1 .. Len(screen'[c]) : screen'[c][k] = history'[k]
  BY DEF Delivered
<1> QED
  BY <1>1, <1>2, <1>3 DEF Delivered

\* Numbers of the clients in the chat.
LEMMA InChatNumbers ==
    ASSUME Typed, Steady
    PROVE  /\ \A c \in Clients : InChat(c) =>
                  id[c] \in Nat /\ id[c] >= 1 /\ id[c] <= Len(sub) /\ id[c] \in 1 .. Len(sub)
                  /\ sub[id[c]].name = c
           /\ \A c, d \in Clients : InChat(c) /\ InChat(d) /\ id[c] = id[d] => c = d
           /\ \A c \in Clients : rpc[c] \in {"print", "wipe", "clear", "poll", "look"} => InChat(c)
           /\ \A c \in Clients : spc[c] \in {"type", "line", "text"} => InChat(c)
<1>1. Len(sub) \in Nat
  BY EntriesTyped
<1>2. \A c \in Clients : InChat(c) => id[c] \in 1 .. Len(sub) /\ sub[id[c]].name = c
  BY DEF Steady, Numbered, InChat
<1>3. \A c \in Clients : rpc[c] \in {"print", "wipe", "clear", "poll", "look"} => InChat(c)
  BY DEF Steady, Staying, InChat
<1>4. \A c \in Clients : spc[c] \in {"type", "line", "text"} => InChat(c)
  BY DEF Steady, Staying, InChat
<1> QED
  BY <1>1, <1>2, <1>3, <1>4

LEMMA CountsTyped ==
    ASSUME Typed
    PROVE  /\ history \in Seq(Texts) /\ Len(history) \in Nat
           /\ number_sub \in Nat /\ number_hist \in Nat /\ number_sub >= 1 /\ number_hist >= 1
           /\ msg_rcv.msg \in Texts /\ msg_snd.msg \in Texts /\ msg_rcv.id_sub \in Nat
           /\ msg_snd.id_sub \in Nat
           /\ msg_rcv \in [id_sub : Nat, msg : Texts] /\ msg_snd \in [id_sub : Nat, msg : Texts]
<1>1. ServerTyped /\ BlocksTyped
  BY TypeParts DEF Typed
<1>2. history \in Seq(Texts) /\ number_sub \in Nat \ {0} /\ number_hist \in Nat \ {0}
  BY <1>1 DEF ServerTyped
<1>3. msg_rcv \in [id_sub : Nat, msg : Texts] /\ msg_snd \in [id_sub : Nat, msg : Texts]
  BY <1>1 DEF BlocksTyped
<1>4. number_sub >= 1 /\ number_hist >= 1
  BY <1>2
<1> QED
  BY <1>2, <1>3, <1>4, LenProperties

\* Looking at the block, at the next entry and at msg_snd.
LEMMA SeeLineSteady == ASSUME Typed, Steady, SeeLine PROVE Steady'
<1>1. CalmChat
  BY DEF CalmChat
<1>2. /\ UNCHANGED <<number_sub, number_hist, history, sub, msg_rcv, msg_snd, sem, removed>>
      /\ tpc = "poll" /\ tpc' = "take" /\ msg_rcv.id_sub > 0
  BY DEF SeeLine, walk, blocks, sems
<1>3. UNCHANGED <<rpc, spc, id, cpc>>
  BY ChatFrame DEF ChatServer
<1>4. Numbered' /\ OnePlace' /\ Guarded("rcv")' /\ Guarded("snd")'
  BY <1>1, <1>2, ChatNumbered, ChatLines, ChatGuards DEF Filling
<1>5. msg_rcv.id_sub # 0
  BY <1>2, CountsTyped
<1>6. Taking'
  BY <1>2, <1>3, <1>5 DEF Steady, Taking, Middle
<1>7. Handing'
  BY <1>1, <1>2, ChatHanding DEF Filling
<1>8. Serving'
  BY <1>2 DEF Serving
<1>9. Delivered'
  <2>1. \A c \in Clients : Sent(id[c])' = Sent(id[c]) /\ (Pending(c)' <=> Pending(c))
    BY <1>2, <1>3 DEF Sent, Pending, Middle
  <2> QED
    BY <1>1, <1>2, <2>1, ChatDelivered
<1> QED
  BY <1>1, <1>2, <1>4, <1>6, <1>7, <1>8, <1>9, ChatOthers

LEMMA WaitsSteady == ASSUME Typed, Steady, SendWaits \/ Ready PROVE Steady'
<1>1. CalmChat
  BY DEF CalmChat
<1>2. /\ UNCHANGED <<number_sub, number_hist, history, sub, msg_rcv, msg_snd, sem, removed>>
      /\ \/ tpc = "send" /\ tpc' = "each"
         \/ tpc = "send" /\ tpc' = "send id" /\ msg_snd.msg = <<>>
         \/ tpc = "history" /\ tpc' = "history id" /\ msg_snd.msg = <<>>
  BY DEF SendWaits, Ready, walk, blocks, sems, BlockEmpty
<1>3. UNCHANGED <<rpc, spc, id, cpc>>
  BY ChatFrame DEF CalmChat, ChatServer
<1>4. Numbered' /\ OnePlace' /\ Guarded("rcv")' /\ Guarded("snd")'
  BY <1>1, <1>2, ChatNumbered, ChatLines, ChatGuards DEF Filling
<1>5. Taking'
  BY <1>2, ChatTaking DEF Middle
<1>6. Handing'
  BY <1>1, <1>2, ChatHanding DEF Filling
<1>7. Serving'
  BY <1>2 DEF Steady, Serving
<1>8. Delivered'
  <2>1. \A c \in Clients : Sent(id[c])' = Sent(id[c]) /\ (Pending(c)' <=> Pending(c))
    BY <1>2, <1>3 DEF Sent, Pending, Middle
  <2> QED
    BY <1>1, <1>2, <2>1, ChatDelivered
<1> QED
  BY <1>1, <1>2, <1>4, <1>5, <1>6, <1>7, <1>8, ChatOthers

LEMMA EntrySteady == ASSUME Typed, Steady, NextSubscriber PROVE Steady'
<1>1. CalmChat
  BY DEF CalmChat
<1>2. /\ UNCHANGED <<number_sub, history, sub, msg_rcv, msg_snd, sem, removed>>
      /\ tpc = "each" /\ number_sub <= Len(sub)
      /\ \/ sub[number_sub].new_sub = 1 /\ number_hist' = 1 /\ tpc' = "history"
         \/ sub[number_sub].new_sub = 0 /\ tpc' = "send" /\ number_hist' = number_hist
  BY DEF NextSubscriber, blocks, sems
<1>3. UNCHANGED <<rpc, spc, id, cpc>>
  BY ChatFrame DEF CalmChat, ChatServer
<1>4. Numbered' /\ OnePlace' /\ Guarded("rcv")' /\ Guarded("snd")'
  BY <1>1, <1>2, ChatNumbered, ChatLines, ChatGuards DEF Filling
<1>5. Taking'
  BY <1>2, ChatTaking DEF Middle
<1>6. Handing'
  BY <1>1, <1>2, ChatHanding DEF Filling
<1>7. Serving'
  <2>1. Len(history) \in Nat
    BY CountsTyped
  <2>2. tpc' = "history" => number_hist' <= Len(history) + 1
    BY <1>2, <2>1
  <2> QED
    BY <1>2, <2>2 DEF Serving
<1>8. Delivered'
  <2>1. \A c \in Clients : Sent(id[c])' = Sent(id[c])
    <3>1. \A i : Sent(i)' = Sent(i)
      <4> TAKE i
      <4>1. CASE tpc' = "send"
        BY <1>2, <4>1 DEF Sent, Middle
      <4>2. CASE tpc' = "history" /\ number_sub = i
        <5>1. sub[i].new_sub = 1 /\ number_hist' - 1 = 0
          BY <1>2, <4>2
        <5> QED
          BY <1>2, <4>2, <5>1 DEF Sent, Middle
      <4>3. CASE tpc' = "history" /\ number_sub # i
        BY <1>2, <4>3 DEF Sent, Middle
      <4> QED
        BY <1>2, <4>1, <4>2, <4>3
    <3> QED
      BY <1>3, <3>1
  <2>2. \A c \in Clients : Pending(c)' <=> Pending(c)
    BY <1>2, <1>3 DEF Pending
  <2> QED
    BY <1>1, <1>2, <2>1, <2>2, ChatDelivered
<1> QED
  BY <1>1, <1>2, <1>4, <1>5, <1>6, <1>7, <1>8, ChatOthers

\* Nobody is sent more than there is.
LEMMA SentWithin ==
    ASSUME Typed, Steady, NEW c \in Clients
    PROVE  Sent(id[c]) \in Int /\ Sent(id[c]) <= Len(history)
<1>1. Len(history) \in Nat /\ number_hist \in Nat
  BY CountsTyped
<1>2. tpc = "history" => number_hist <= Len(history) + 1
  BY DEF Steady, Serving
<1>3. tpc \in {"history id", "history text"} => number_hist <= Len(history)
  BY DEF Typed, Within
<1>4. tpc \in {"history", "history id", "history text"} => number_hist - 1 <= Len(history)
  <2>1. CASE tpc = "history"
    <3>1. number_hist <= Len(history) + 1
      BY <1>2, <2>1
    <3>2. number_hist - 1 <= Len(history)
      BY <1>1, <3>1
    <3> QED
      BY <3>2
  <2>2. CASE tpc \in {"history id", "history text"}
    <3>1. number_hist <= Len(history)
      BY <1>3, <2>2
    <3>2. number_hist - 1 <= Len(history)
      BY <1>1, <3>1
    <3> QED
      BY <3>2
  <2> QED
    BY <2>1, <2>2
<1>5. /\ number_hist - 1 \in Int /\ 0 \in Int /\ 0 <= Len(history)
      /\ Len(history) - 1 \in Int /\ Len(history) - 1 <= Len(history)
      /\ Len(history) \in Int /\ Len(history) <= Len(history)
  BY <1>1
<1>6. \/ Sent(id[c]) = number_hist - 1 /\ tpc \in {"history", "history id", "history text"}
      \/ Sent(id[c]) \in {0, Len(history) - 1, Len(history)}
  BY DEF Sent
<1> QED
  BY <1>4, <1>5, <1>6

\* The server takes a line.
LEMMA TakeSteady == ASSUME Typed, Steady, TakeMessage PROVE Steady'
<1>1. CalmChat
  BY DEF CalmChat
<1>2. /\ UNCHANGED <<number_hist, sub, msg_rcv, msg_snd, removed>>
      /\ tpc = "take" /\ tpc' = "each" /\ number_sub' = 1 /\ Lock("rcv")
      /\ history' = Append(history, msg_rcv.msg)
  BY DEF TakeMessage, blocks
<1>3. UNCHANGED <<rpc, spc, id, cpc, screen, typed>>
  BY ChatFrame DEF ChatServer
<1>4. Staying /\ Taking /\ Handing /\ Delivered /\ OnePlace /\ Guarded("rcv") /\ Guarded("snd")
  BY DEF Steady, AllGuarded, Blocks
<1>5. /\ sem["rcv"] > 0 /\ sem'["rcv"] = sem["rcv"] - 1
      /\ sem'["mgmt"] = sem["mgmt"] /\ sem'["snd"] = sem["snd"]
  BY <1>2, <1>4, Locked DEF Staying, Blocks
<1>6. \A c \in Clients : spc[c] # "text"
  BY <1>4, <1>5, NobodyIn DEF ClientIn
<1>7. /\ Len(history') = Len(history) + 1 /\ history'[Len(history) + 1] = msg_rcv.msg
      /\ \A k \in 1 .. Len(history) : history'[k] = history[k]
      /\ Len(history) \in Nat
  BY <1>2, CountsTyped, AppendProperties
<1>8. Numbered'
  BY <1>1, <1>2, ChatNumbered
<1>9. Guarded("rcv")' /\ Guarded("snd")'
  BY <1>2, <1>3, <1>4, <1>5, ServerEnters, SameIn DEF ServerIn, ClientIn
<1>10. msg_rcv.msg # <<>>
  BY <1>2, <1>4, <1>6 DEF Taking
<1>11. \A k \in 1 .. Len(history') : k \in 1 .. Len(history) \/ k = Len(history) + 1
  BY <1>7
<1>12. Taking'
  <2>1. history' # <<>>
    <3>1. Len(history') # 0
      BY <1>7
    <3> QED
      BY <3>1, EmptySeq
  <2>2. msg_rcv'.msg = history'[Len(history')]
    BY <1>2, <1>7
  <2>3. \A k \in 1 .. Len(history') : history'[k] # <<>>
    BY <1>4, <1>7, <1>10, <1>11 DEF Taking
  <2> QED
    BY <1>2, <2>1, <2>2, <2>3 DEF Taking, Middle
<1>13. Handing'
  BY <1>1, <1>2, ChatHanding DEF Filling
<1>14. Serving'
  BY <1>2 DEF Serving
<1>15. Delivered'
  <2>1. \A c \in Clients : (InChat(c)' <=> InChat(c)) /\ (Pending(c)' <=> Pending(c))
    BY <1>2, <1>3 DEF InChat, Pending
  <2>2. \A c \in Clients : InChat(c) => Sent(id[c])' = Sent(id[c])
    <3> SUFFICES ASSUME NEW c \in Clients, InChat(c) PROVE Sent(id[c])' = Sent(id[c])
      OBVIOUS
    <3>1. id[c] \in Nat /\ 1 <= id[c] /\ sub[id[c]].new_sub \in {0, 1}
      BY InChatNumbers, EntriesTyped
    <3>2. CASE sub[id[c]].new_sub = 1
      BY <1>2, <1>3, <3>2 DEF Sent
    <3>3. CASE sub[id[c]].new_sub # 1
      <4>1. Sent(id[c]) = Len(history)
        BY <1>2, <3>3 DEF Sent, Middle
      <4>2. Sent(id[c])' = Len(history') - 1
        BY <1>2, <1>3, <3>1, <3>3 DEF Sent, Middle
      <4> QED
        BY <1>7, <4>1, <4>2
    <3> QED
      BY <3>2, <3>3
  <2>3. \A c \in Clients : InChat(c) /\ Pending(c) => Sent(id[c]) \in 1 .. Len(history)
    <3> SUFFICES ASSUME NEW c \in Clients, InChat(c), Pending(c) PROVE Sent(id[c]) \in 1 .. Len(history)
      OBVIOUS
    <3>1. Sent(id[c]) \in Int /\ Sent(id[c]) <= Len(history)
      BY SentWithin
    <3>2. Len(screen[c]) = Sent(id[c]) - 1
      BY <1>4 DEF Delivered
    <3>3. Len(screen[c]) \in Nat
      <4>1. screen[c] \in Seq(Texts)
        BY TypeParts DEF Typed, ClientsTyped
      <4> QED
        BY <4>1, LenProperties
    <3> QED
      BY <1>7, <3>1, <3>2, <3>3
  <2> SUFFICES ASSUME NEW c \in Clients
               PROVE  /\ ~InChat(c)' => screen'[c] = <<>>
                      /\ InChat(c)' =>
                             /\ Len(screen'[c]) = IF Pending(c)' THEN Sent(id[c])' - 1 ELSE Sent(id[c])'
                             /\ Pending(c)' => msg_snd'.msg = history'[Sent(id[c])']
                      /\ Len(screen'[c]) <= Len(history')
                      /\ \A k \in 1 .. Len(screen'[c]) : screen'[c][k] = history'[k]
    BY DEF Delivered
  <2>4. Len(screen[c]) <= Len(history) /\ \A k \in 1 .. Len(screen[c]) : screen[c][k] = history[k]
    BY <1>4 DEF Delivered
  <2>5. Len(screen[c]) \in Nat
    <3>1. screen[c] \in Seq(Texts)
      BY TypeParts DEF Typed, ClientsTyped
    <3> QED
      BY <3>1, LenProperties
  <2>6. Len(screen[c]) <= Len(history') /\ \A k \in 1 .. Len(screen[c]) : k \in 1 .. Len(history)
    BY <1>7, <2>4, <2>5
  <2>7. /\ ~InChat(c) => screen[c] = <<>>
        /\ InChat(c) =>
               /\ Len(screen[c]) = IF Pending(c) THEN Sent(id[c]) - 1 ELSE Sent(id[c])
               /\ Pending(c) => msg_snd.msg = history[Sent(id[c])]
    BY <1>4 DEF Delivered
  <2>8. InChat(c) /\ Pending(c) => msg_snd.msg = history'[Sent(id[c])]
    BY <1>7, <2>3, <2>7
  <2> QED
    BY <1>2, <1>3, <1>7, <2>1, <2>2, <2>4, <2>6, <2>7, <2>8
<1>16. OnePlace'
  <2>1. Once(msg_rcv.msg) /\ \A i \in 1 .. Len(history') : Once(history'[i])
    BY <1>4, <1>7, <1>11 DEF OnePlace
  <2>2. \A c \in Clients, k \in 1 .. MaxInputs : InBlock(c, k) <=> In(msg_rcv.msg, c, k)
    BY <1>2 DEF InBlock
  <2>3. \A i, j \in 1 .. Len(history') : \A c \in Clients, k \in 1 .. MaxInputs :
            In(history'[i], c, k) /\ In(history'[j], c, k) => i = j
    <3> SUFFICES ASSUME NEW i \in 1 .. Len(history'), NEW j \in 1 .. Len(history'),
                        NEW c \in Clients, NEW k \in 1 .. MaxInputs,
                        In(history'[i], c, k), In(history'[j], c, k)
                 PROVE  i = j
      OBVIOUS
    <3>1. CASE i \in 1 .. Len(history) /\ j \in 1 .. Len(history)
      BY <1>4, <1>7, <3>1 DEF OnePlace
    <3>2. CASE i \in 1 .. Len(history) /\ j = Len(history) + 1
      <4>1. InHistory(c, k) /\ InBlock(c, k)
        BY <1>7, <2>2, <3>2 DEF InHistory
      <4> QED
        BY <1>4, <4>1 DEF OnePlace
    <3>3. CASE j \in 1 .. Len(history) /\ i = Len(history) + 1
      <4>1. InHistory(c, k) /\ InBlock(c, k)
        BY <1>7, <2>2, <3>3 DEF InHistory
      <4> QED
        BY <1>4, <4>1 DEF OnePlace
    <3> QED
      BY <1>11, <3>1, <3>2, <3>3
  <2>4. \A c \in Clients, k \in 1 .. MaxInputs :
            /\ ~InBlock(c, k)'
            /\ InHistory(c, k)' <=> InHistory(c, k) \/ InBlock(c, k)
            /\ WithUser(c, k)' <=> WithUser(c, k)
    <3> TAKE c \in Clients, k \in 1 .. MaxInputs
    <3>1. ~InBlock(c, k)' /\ (WithUser(c, k)' <=> WithUser(c, k))
      BY <1>2, <1>3 DEF InBlock, WithUser
    <3>2. InHistory(c, k)' <=> \E i \in 1 .. Len(history') : In(history'[i], c, k)
      BY DEF InHistory
    <3>3. \A i \in 1 .. Len(history) : i \in 1 .. Len(history')
      BY <1>7
    <3>4. Len(history) + 1 \in 1 .. Len(history')
      BY <1>7
    <3>5. InHistory(c, k)' => InHistory(c, k) \/ InBlock(c, k)
      BY <1>7, <1>11, <2>2, <3>2 DEF InHistory
    <3>6. InHistory(c, k) \/ InBlock(c, k) => InHistory(c, k)'
      BY <1>7, <2>2, <3>2, <3>3, <3>4 DEF InHistory
    <3> QED
      BY <3>1, <3>5, <3>6
  <2>5. \A c \in Clients, k \in 1 .. MaxInputs :
            /\ k <= typed[c] => WithUser(c, k) \/ InBlock(c, k) \/ InHistory(c, k)
            /\ WithUser(c, k) => ~InBlock(c, k) /\ ~InHistory(c, k)
            /\ k > typed[c] => ~InBlock(c, k) /\ ~InHistory(c, k)
    BY <1>4 DEF OnePlace
  <2>6. \A c \in Clients, k \in 1 .. MaxInputs :
            /\ k <= typed'[c] => WithUser(c, k)' \/ InBlock(c, k)' \/ InHistory(c, k)'
            /\ WithUser(c, k)' => ~InBlock(c, k)' /\ ~InHistory(c, k)'
            /\ ~(InBlock(c, k)' /\ InHistory(c, k)')
            /\ k > typed'[c] => ~InBlock(c, k)' /\ ~InHistory(c, k)'
    BY <1>3, <2>4, <2>5
  <2> QED
    BY <1>2, <2>1, <2>3, <2>6 DEF OnePlace
<1> QED
  BY <1>1, <1>2, <1>5, <1>8, <1>9, <1>12, <1>13, <1>14, <1>15, <1>16, ChatOthers

\* The server takes msg_snd to fill it.
LEMMA PutIdSteady == ASSUME Typed, Steady, PutId PROVE Steady'
<1>1. CalmChat
  BY DEF CalmChat
<1>2. /\ UNCHANGED <<number_sub, number_hist, history, sub, msg_rcv, removed>> /\ Lock("snd")
      /\ \/ tpc = "send id" /\ tpc' = "send text"
         \/ tpc = "history id" /\ tpc' = "history text"
  BY DEF PutId, walk
<1>3. UNCHANGED <<rpc, spc, id, cpc>>
  BY ChatFrame DEF ChatServer
<1>4. Staying /\ Handing /\ Serving /\ Guarded("rcv") /\ Guarded("snd")
  BY DEF Steady, AllGuarded, Blocks
<1>5. /\ sem["snd"] > 0 /\ sem'["snd"] = sem["snd"] - 1
      /\ sem'["mgmt"] = sem["mgmt"] /\ sem'["rcv"] = sem["rcv"]
  BY <1>2, <1>4, Locked DEF Staying, Blocks
<1>6. msg_snd.msg = <<>> /\ ~Filling /\ Filling'
  BY <1>2, <1>4 DEF Handing, Filling
<1>7. number_sub \in 1 .. Len(sub)
  <2>1. number_sub <= Len(sub)
    BY <1>2 DEF Typed, Within
  <2> QED
    BY <2>1, CountsTyped, EntriesTyped
<1>8. sub[number_sub].id = number_sub
  <2>1. mpc # "add"
    BY <1>1, ChatAlone
  <2> QED
    BY <1>7, <2>1 DEF Steady, Numbered
<1>9. msg_snd'.id_sub = number_sub /\ msg_snd'.msg = <<>>
  <2>1. msg_snd' = [msg_snd EXCEPT !.id_sub = sub[number_sub].id]
    BY DEF PutId
  <2> QED
    BY <1>6, <1>8, <2>1, CountsTyped
<1>10. \A c \in Clients : rpc[c] \notin {"print", "wipe", "clear"}
  <2>1. \A c \in Clients : rpc[c] \notin {"wipe", "clear"}
    BY <1>4, <1>5, NobodyIn DEF ClientIn
  <2> QED
    BY <1>4, <1>6, <2>1 DEF Handing
<1>11. Numbered' /\ OnePlace'
  BY <1>1, <1>2, ChatNumbered, ChatLines
<1>12. Guarded("rcv")' /\ Guarded("snd")'
  BY <1>2, <1>3, <1>4, <1>5, ServerEnters, SameIn DEF ServerIn, ClientIn
<1>13. Taking'
  BY <1>2, ChatTaking DEF Middle
<1>14. Handing'
  BY <1>2, <1>3, <1>6, <1>9, <1>10 DEF Handing
<1>15. Serving'
  BY <1>2, <1>4 DEF Serving
<1>16. Delivered'
  <2>1. \A c \in Clients : Sent(id[c])' = Sent(id[c])
    BY <1>2, <1>3 DEF Sent, Middle
  <2>2. \A c \in Clients : ~Pending(c)' /\ ~Pending(c)
    BY <1>6, <1>9 DEF Pending
  <2> QED
    BY <1>1, <1>2, <2>1, <2>2, ChatDelivered
<1> QED
  BY <1>1, <1>2, <1>5, <1>11, <1>12, <1>13, <1>14, <1>15, <1>16, ChatOthers

\* The server puts the next message for entry number_sub.
LEMMA PutDelivered ==
    ASSUME Typed, Steady, CalmChat, Filling, msg_snd'.id_sub = msg_snd.id_sub, msg_snd'.msg # <<>>,
           history' = history, NEW s, msg_snd'.msg = history[s],
           \A c \in Clients : InChat(c) =>
               /\ id[c] = number_sub => Sent(id[c]) = s - 1 /\ Sent(id[c])' = s
               /\ id[c] # number_sub => Sent(id[c])' = Sent(id[c])
    PROVE  Delivered'
<1>1. UNCHANGED <<rpc, cpc, id, screen>>
  BY ChatFrame DEF CalmChat, ChatServer
<1>2. Handing /\ Delivered /\ Guarded("snd")
  BY DEF Steady, AllGuarded, Blocks
<1>3. msg_snd.msg = <<>> /\ msg_snd.id_sub = number_sub
  BY <1>2 DEF Handing, Filling
<1>4. \A c \in Clients : rpc[c] # "wipe"
  <2>1. ServerIn("snd")
    BY DEF ServerIn, Filling
  <2> QED
    BY <1>2, <2>1, AloneIn DEF ClientIn
<1>5. \A c \in Clients : /\ InChat(c)' <=> InChat(c)
                         /\ ~Pending(c)
                         /\ Pending(c)' <=> id[c] = number_sub
  BY <1>1, <1>3, <1>4 DEF InChat, Pending
<1> SUFFICES ASSUME NEW c \in Clients
             PROVE  /\ ~InChat(c)' => screen'[c] = <<>>
                    /\ InChat(c)' =>
                           /\ Len(screen'[c]) = IF Pending(c)' THEN Sent(id[c])' - 1 ELSE Sent(id[c])'
                           /\ Pending(c)' => msg_snd'.msg = history'[Sent(id[c])']
                    /\ Len(screen'[c]) <= Len(history')
                    /\ \A k \in 1 .. Len(screen'[c]) : screen'[c][k] = history'[k]
  BY DEF Delivered
<1>6. /\ ~InChat(c) => screen[c] = <<>>
      /\ InChat(c) => Len(screen[c]) = Sent(id[c])
      /\ Len(screen[c]) <= Len(history)
      /\ \A k \in 1 .. Len(screen[c]) : screen[c][k] = history[k]
  BY <1>2, <1>5 DEF Delivered
<1>7. InChat(c) =>
          /\ Len(screen[c]) = IF Pending(c)' THEN Sent(id[c])' - 1 ELSE Sent(id[c])'
          /\ Pending(c)' => msg_snd'.msg = history[Sent(id[c])']
  <2> SUFFICES ASSUME InChat(c)
               PROVE  /\ Len(screen[c]) = IF Pending(c)' THEN Sent(id[c])' - 1 ELSE Sent(id[c])'
                      /\ Pending(c)' => msg_snd'.msg = history[Sent(id[c])']
    OBVIOUS
  <2>1. CASE id[c] = number_sub
    BY <1>5, <1>6, <2>1
  <2>2. CASE id[c] # number_sub
    BY <1>5, <1>6, <2>2
  <2> QED
    BY <2>1, <2>2
<1> QED
  BY <1>1, <1>5, <1>6, <1>7

\* What it leaves when it gives msg_snd back.
LEMMA PutOthers ==
    ASSUME Typed, Steady, CalmChat, Filling, ~Filling', Unlock("snd"),
           UNCHANGED <<history, sub, msg_rcv, removed>>, Middle',
           tpc' \notin {"history id", "send id"},
           msg_snd'.id_sub = msg_snd.id_sub, msg_snd'.msg # <<>>, Serving', Delivered'
    PROVE  Steady'
<1>1. UNCHANGED <<rpc, spc, id, cpc>>
  BY ChatFrame DEF CalmChat, ChatServer
<1>2. Staying /\ Handing /\ Guarded("rcv") /\ Guarded("snd")
  BY DEF Steady, AllGuarded, Blocks
<1>3. sem'["snd"] = sem["snd"] + 1 /\ sem'["mgmt"] = sem["mgmt"] /\ sem'["rcv"] = sem["rcv"]
  BY <1>2, Unlocked DEF Staying, Blocks
<1>4. Middle /\ ServerIn("snd") /\ ~ServerIn("snd")'
  BY DEF Middle, Filling, ServerIn
<1>5. \A c \in Clients : rpc[c] \notin {"wipe", "clear"}
  BY <1>2, <1>4, AloneIn DEF ClientIn
<1>6. Numbered' /\ Taking'
  BY <1>4, ChatNumbered, ChatTaking
<1>7. OnePlace'
  BY <1>4, ChatLines DEF Middle
<1>8. Guarded("snd")'
  BY <1>1, <1>2, <1>3, <1>4, ServerLeaves DEF ClientIn
<1>9. Guarded("rcv")'
  BY <1>1, <1>2, <1>3, <1>4, SameIn DEF ServerIn, ClientIn, Middle
<1>10. Handing'
  BY <1>1, <1>2, <1>5 DEF Handing, Filling
<1>11. tpc' # "done"
  BY DEF CalmChat, SeeLine, TakeMessage, NextSubscriber, SendWaits, Ready, PutId, PutMessage,
     PutHistory, HistorySent, WipeLine, ClearLine
<1> QED
  BY <1>3, <1>6, <1>7, <1>8, <1>9, <1>10, <1>11, ChatOthers

LEMMA PutMessageSteady == ASSUME Typed, Steady, PutMessage PROVE Steady'
<1>1. CalmChat
  BY DEF CalmChat
<1>2. /\ UNCHANGED <<number_hist, history, sub, msg_rcv, removed>> /\ Unlock("snd")
      /\ tpc = "send text" /\ tpc' = "each" /\ number_sub' = number_sub + 1
  BY DEF PutMessage
<1>3. Filling /\ ~Filling' /\ Middle /\ Middle'
  BY <1>2 DEF Filling, Middle
<1>4. msg_snd'.id_sub = msg_snd.id_sub /\ msg_snd'.msg = msg_rcv.msg
  <2>1. msg_snd' = [msg_snd EXCEPT !.msg = msg_rcv.msg]
    BY DEF PutMessage
  <2> QED
    BY <2>1, CountsTyped
<1>5. history # <<>> /\ msg_rcv.msg = history[Len(history)]
  BY <1>3 DEF Steady, Taking
<1>6. Len(history) \in 1 .. Len(history)
  <2>1. Len(history) # 0 /\ Len(history) \in Nat
    BY <1>5, CountsTyped, EmptySeq
  <2> QED
    BY <2>1
<1>7. msg_rcv.msg # <<>>
  BY <1>5, <1>6 DEF Steady, Taking
<1>8. Serving'
  BY <1>2 DEF Serving
<1>9. Delivered'
  <2>1. sub[number_sub].new_sub = 0
    BY <1>2 DEF Steady, Serving
  <2>2. id' = id
    BY ChatFrame DEF ChatServer
  <2>3. \A c \in Clients : InChat(c) =>
            /\ id[c] = number_sub => Sent(id[c]) = Len(history) - 1 /\ Sent(id[c])' = Len(history)
            /\ id[c] # number_sub => Sent(id[c])' = Sent(id[c])
    <3> SUFFICES ASSUME NEW c \in Clients, InChat(c)
                 PROVE  /\ id[c] = number_sub => Sent(id[c]) = Len(history) - 1 /\ Sent(id[c])' = Len(history)
                        /\ id[c] # number_sub => Sent(id[c])' = Sent(id[c])
      OBVIOUS
    <3>1. id[c] \in Nat /\ number_sub \in Nat
      BY InChatNumbers, CountsTyped
    <3>2. id[c] = number_sub => ~(number_sub + 1 <= id[c]) /\ number_sub <= id[c]
      BY <3>1
    <3>3. id[c] # number_sub => (number_sub + 1 <= id[c] <=> number_sub <= id[c])
      BY <3>1
    <3>4. id[c] = number_sub => Sent(id[c]) = Len(history) - 1
      <4>1. \A i : sub[i].new_sub = 0 /\ number_sub <= i => Sent(i) = Len(history) - 1
        BY <1>3 DEF Sent
      <4> QED
        BY <2>1, <3>2, <4>1
    <3>5. id[c] = number_sub => Sent(id[c])' = Len(history)
      <4>1. \A i : sub[i].new_sub = 0 /\ ~(number_sub' <= i) => Sent(i)' = Len(history)
        <5>1. history' = history /\ sub' = sub
          BY <1>2
        <5> QED
          BY <5>1 DEF Sent
      <4>2. id[c] = number_sub => sub[id[c]].new_sub = 0
        BY <2>1
      <4> QED
        BY <1>2, <2>2, <3>2, <4>1, <4>2
    <3>6. id[c] # number_sub => Sent(id[c])' = Sent(id[c])
      BY <1>2, <1>3, <2>2, <3>3 DEF Sent
    <3> QED
      BY <3>4, <3>5, <3>6
  <2> QED
    BY <1>1, <1>2, <1>3, <1>4, <1>5, <1>7, <2>3, PutDelivered
<1> QED
  BY <1>1, <1>2, <1>3, <1>4, <1>7, <1>8, <1>9, PutOthers

LEMMA PutHistorySteady == ASSUME Typed, Steady, PutHistory PROVE Steady'
<1>1. CalmChat
  BY DEF CalmChat
<1>2. /\ UNCHANGED <<number_sub, history, sub, msg_rcv, removed>> /\ Unlock("snd")
      /\ tpc = "history text" /\ tpc' = "history" /\ number_hist' = number_hist + 1
  BY DEF PutHistory
<1>3. Filling /\ ~Filling' /\ Middle /\ Middle'
  BY <1>2 DEF Filling, Middle
<1>4. number_hist \in 1 .. Len(history) /\ number_hist <= Len(history)
  <2>1. number_hist <= Len(history)
    BY <1>2 DEF Typed, Within
  <2> QED
    BY <2>1, CountsTyped
<1>5. history[number_hist] \in Seq(Lines) /\ history[number_hist] # <<>>
  <2>1. history[number_hist] \in Texts
    BY <1>4, CountsTyped, ElementOfSeq
  <2> QED
    BY <1>4, <2>1 DEF Steady, Taking, Texts
<1>6. msg_snd'.id_sub = msg_snd.id_sub /\ msg_snd'.msg = history[number_hist]
  <2>1. PICK m : m = msg_snd.msg \o history[number_hist]
    OBVIOUS
  <2>2. msg_snd' = [msg_snd EXCEPT !.msg = m]
    BY <2>1 DEF PutHistory
  <2>3. msg_snd.msg = <<>>
    BY <1>2 DEF Steady, Handing
  <2>4. m = history[number_hist]
    BY <1>5, <2>1, <2>3, ConcatEmptySeq
  <2> QED
    BY <2>2, <2>4, CountsTyped
<1>7. Serving'
  <2>1. sub[number_sub].new_sub = 1
    BY <1>2 DEF Steady, Serving
  <2>2. number_hist + 1 <= Len(history) + 1
    BY <1>4, CountsTyped
  <2> QED
    BY <1>2, <2>1, <2>2 DEF Serving
<1>8. Delivered'
  <2>1. sub[number_sub].new_sub = 1
    BY <1>2 DEF Steady, Serving
  <2>2. id' = id
    BY ChatFrame DEF ChatServer
  <2>3. \A c \in Clients : InChat(c) =>
            /\ id[c] = number_sub => Sent(id[c]) = number_hist - 1 /\ Sent(id[c])' = number_hist
            /\ id[c] # number_sub => Sent(id[c])' = Sent(id[c])
    <3> SUFFICES ASSUME NEW c \in Clients, InChat(c)
                 PROVE  /\ id[c] = number_sub => Sent(id[c]) = number_hist - 1 /\ Sent(id[c])' = number_hist
                        /\ id[c] # number_sub => Sent(id[c])' = Sent(id[c])
      OBVIOUS
    <3>1. id[c] = number_sub => Sent(id[c]) = number_hist - 1
      BY <1>2, <2>1 DEF Sent
    <3>2. id[c] = number_sub => Sent(id[c])' = number_hist' - 1
      <4>1. \A i : sub[i].new_sub = 1 /\ number_sub = i => Sent(i)' = number_hist' - 1
        <5>1. sub' = sub /\ number_sub' = number_sub /\ tpc' = "history"
          BY <1>2
        <5> QED
          BY <5>1 DEF Sent
      <4>2. id[c] = number_sub => sub[id[c]].new_sub = 1
        BY <2>1
      <4> QED
        BY <2>2, <4>1, <4>2
    <3>3. number_hist' - 1 = number_hist
      <4>1. number_hist' = number_hist + 1
        BY <1>2
      <4> QED
        BY <4>1, CountsTyped
    <3>4. id[c] # number_sub => Sent(id[c])' = Sent(id[c])
      BY <1>2, <1>3, <2>2 DEF Sent
    <3> QED
      BY <3>1, <3>2, <3>3, <3>4
  <2> QED
    BY <1>1, <1>2, <1>3, <1>5, <1>6, <2>3, PutDelivered
<1> QED
  BY <1>1, <1>2, <1>3, <1>5, <1>6, <1>7, <1>8, PutOthers

\* The subscriber has all of the history.
LEMMA HistorySteady == ASSUME Typed, Steady, HistorySent PROVE Steady'
<1>1. CalmChat
  BY DEF CalmChat
<1>2. /\ UNCHANGED <<number_hist, history, msg_rcv, msg_snd, sem, removed>>
      /\ tpc = "history" /\ tpc' = "each" /\ number_sub' = number_sub + 1
      /\ number_hist > Len(history)
  BY DEF HistorySent, blocks, sems
<1>3. UNCHANGED <<rpc, spc, id, cpc>>
  BY ChatFrame DEF ChatServer
<1>4. number_sub \in 1 .. Len(sub)
  <2>1. number_sub <= Len(sub)
    BY <1>2 DEF Typed, Within
  <2> QED
    BY <2>1, CountsTyped, EntriesTyped
<1>5. PICK e : e = [sub[number_sub] EXCEPT !.new_sub = 0]
  OBVIOUS
<1>6. e \in Entry /\ e.id = sub[number_sub].id /\ e.name = sub[number_sub].name /\ e.new_sub = 0
  <2>1. sub[number_sub] \in Entry
    BY <1>4, EntriesTyped
  <2> QED
    BY <1>5, <2>1 DEF Entry
<1>7. /\ Len(sub') = Len(sub) /\ sub'[number_sub] = e
      /\ \A j \in 1 .. Len(sub) \ {number_sub} : sub'[j] = sub[j]
  <2>1. sub' = [sub EXCEPT ![number_sub] = e]
    BY <1>5 DEF HistorySent
  <2> QED
    BY <1>4, <1>6, <2>1, EntriesTyped, EntryReplaced
<1>8. Numbered'
  <2>1. \A i \in 1 .. Len(sub) : sub'[i].name = sub[i].name /\ sub'[i].id = sub[i].id
    BY <1>6, <1>7
  <2> QED
    BY <1>1, <1>7, <2>1, ChatNumbered
<1>9. OnePlace' /\ Guarded("rcv")' /\ Guarded("snd")'
  BY <1>1, <1>2, ChatLines, ChatGuards DEF Filling
<1>10. Taking'
  BY <1>2, ChatTaking DEF Middle
<1>11. Handing'
  BY <1>1, <1>2, ChatHanding DEF Filling
<1>12. Serving'
  BY <1>2 DEF Serving
<1>13. Delivered'
  <2>1. sub[number_sub].new_sub = 1 /\ number_hist <= Len(history) + 1
    BY <1>2 DEF Steady, Serving
  <2>2. number_hist - 1 = Len(history)
    BY <1>2, <2>1, CountsTyped
  <2>3. \A c \in Clients : InChat(c) => Sent(id[c])' = Sent(id[c])
    <3> SUFFICES ASSUME NEW c \in Clients, InChat(c) PROVE Sent(id[c])' = Sent(id[c])
      OBVIOUS
    <3>1. id[c] \in 1 .. Len(sub) /\ id[c] \in Nat /\ number_sub \in Nat
      BY InChatNumbers, CountsTyped
    <3>2. CASE id[c] = number_sub
      <4>1. ~(number_sub + 1 <= id[c])
        BY <3>1, <3>2
      <4>2. Sent(id[c]) = Len(history)
        BY <1>2, <2>1, <2>2, <3>2 DEF Sent
      <4>3. Sent(id[c])' = Len(history)
        BY <1>2, <1>3, <1>6, <1>7, <3>2, <4>1 DEF Sent
      <4> QED
        BY <4>2, <4>3
    <3>3. CASE id[c] # number_sub
      <4>1. number_sub + 1 <= id[c] <=> number_sub <= id[c]
        BY <3>1, <3>3
      <4>2. sub'[id[c]] = sub[id[c]]
        BY <1>7, <3>1, <3>3
      <4> QED
        BY <1>2, <1>3, <3>3, <4>1, <4>2 DEF Sent, Middle
    <3> QED
      BY <3>2, <3>3
  <2>4. \A c \in Clients : Pending(c)' <=> Pending(c)
    BY <1>2, <1>3 DEF Pending
  <2> QED
    BY <1>1, <1>2, <2>3, <2>4, ChatDelivered
<1> QED
  BY <1>1, <1>2, <1>8, <1>9, <1>10, <1>11, <1>12, <1>13, ChatOthers

\* The line has been handed to every entry: the block is cleared.
LEMMA WipeLineSteady == ASSUME Typed, Steady, WipeLine PROVE Steady'
<1>1. CalmChat
  BY DEF CalmChat
<1>2. /\ UNCHANGED <<number_sub, number_hist, history, sub, msg_snd, sem, removed>>
      /\ tpc = "each" /\ tpc' = "clear" /\ number_sub > Len(sub)
  BY DEF WipeLine, walk, sems
<1>3. UNCHANGED <<rpc, spc, id, cpc, typed>>
  BY ChatFrame DEF ChatServer
<1>4. msg_rcv'.msg = <<>>
  <2>1. msg_rcv' = [msg_rcv EXCEPT !.msg = <<>>]
    BY DEF WipeLine, WipedLine
  <2> QED
    BY <2>1, CountsTyped
<1>5. Numbered' /\ Guarded("rcv")' /\ Guarded("snd")'
  BY <1>1, <1>2, ChatNumbered, ChatGuards DEF Filling
<1>6. Taking'
  BY <1>2, <1>4 DEF Steady, Taking, Middle
<1>7. Handing'
  BY <1>1, <1>2, ChatHanding DEF Filling
<1>8. Serving'
  BY <1>2 DEF Serving
<1>9. Delivered'
  <2>1. \A c \in Clients : InChat(c) => Sent(id[c])' = Sent(id[c])
    <3> SUFFICES ASSUME NEW c \in Clients, InChat(c) PROVE Sent(id[c])' = Sent(id[c])
      OBVIOUS
    <3>1. id[c] <= Len(sub) /\ id[c] \in Nat /\ number_sub \in Nat /\ Len(sub) \in Nat
      BY InChatNumbers, CountsTyped, EntriesTyped
    <3>2. ~(number_sub <= id[c])
      BY <1>2, <3>1
    <3> QED
      BY <1>2, <1>3, <3>2 DEF Sent
  <2>2. \A c \in Clients : Pending(c)' <=> Pending(c)
    BY <1>2, <1>3 DEF Pending
  <2> QED
    BY <1>1, <1>2, <2>1, <2>2, ChatDelivered
<1>10. OnePlace'
  <2>1. \A c \in Clients, k \in 1 .. MaxInputs : ~InBlock(c, k) /\ ~InBlock(c, k)'
    BY <1>2 DEF InBlock
  <2>2. Once(msg_rcv'.msg)
    <3>1. Len(msg_rcv'.msg) = 0
      BY <1>4
    <3>2. \A i \in 1 .. Len(msg_rcv'.msg) : FALSE
      BY <3>1
    <3> QED
      BY <3>2 DEF Once
  <2>3. OnePlace
    BY DEF Steady
  <2>4. \A c \in Clients, k \in 1 .. MaxInputs :
            (WithUser(c, k)' <=> WithUser(c, k)) /\ (InHistory(c, k)' <=> InHistory(c, k))
    BY <1>2, <1>3 DEF WithUser, InHistory
  <2> QED
    BY <1>2, <1>3, <2>1, <2>2, <2>3, <2>4 DEF OnePlace
<1> QED
  BY <1>1, <1>2, <1>5, <1>6, <1>7, <1>8, <1>9, <1>10, ChatOthers

LEMMA ClearLineSteady == ASSUME Typed, Steady, ClearLine PROVE Steady'
<1>1. CalmChat
  BY DEF CalmChat
<1>2. /\ UNCHANGED <<number_sub, number_hist, history, sub, msg_snd, removed>> /\ Unlock("rcv")
      /\ tpc = "clear" /\ tpc' = "poll"
  BY DEF ClearLine, walk
<1>3. UNCHANGED <<rpc, spc, id, cpc, typed>>
  BY ChatFrame DEF ChatServer
<1>4. msg_rcv.msg = <<>>
  BY <1>2 DEF Steady, Taking
<1>5. msg_rcv'.id_sub = 0 /\ msg_rcv'.msg = <<>>
  <2>1. msg_rcv' = [msg_rcv EXCEPT !.id_sub = 0]
    BY DEF ClearLine
  <2> QED
    BY <1>4, <2>1, CountsTyped
<1>6. Staying /\ Guarded("rcv") /\ Guarded("snd")
  BY DEF Steady, AllGuarded, Blocks
<1>7. sem'["rcv"] = sem["rcv"] + 1 /\ sem'["mgmt"] = sem["mgmt"] /\ sem'["snd"] = sem["snd"]
  BY <1>2, <1>6, Unlocked DEF Staying, Blocks
<1>8. ServerIn("rcv") /\ ~ServerIn("rcv")' /\ \A c \in Clients : spc[c] # "text"
  <2>1. ServerIn("rcv") /\ ~ServerIn("rcv")'
    BY <1>2 DEF ServerIn
  <2> QED
    BY <1>6, <2>1, AloneIn DEF ClientIn
<1>9. Guarded("rcv")'
  BY <1>3, <1>6, <1>7, <1>8, ServerLeaves DEF ClientIn
<1>10. Guarded("snd")'
  BY <1>2, <1>3, <1>6, <1>7, SameIn DEF ServerIn, ClientIn
<1>11. Numbered'
  BY <1>1, <1>2, ChatNumbered
<1>12. Taking'
  BY <1>2, <1>3, <1>5, <1>8 DEF Steady, Taking, Middle
<1>13. Handing'
  BY <1>1, <1>2, ChatHanding DEF Filling
<1>14. Serving'
  BY <1>2 DEF Serving
<1>15. Delivered'
  <2>1. \A c \in Clients : Sent(id[c])' = Sent(id[c])
    BY <1>2, <1>3 DEF Sent, Middle
  <2>2. \A c \in Clients : Pending(c)' <=> Pending(c)
    BY <1>2, <1>3 DEF Pending
  <2> QED
    BY <1>1, <1>2, <2>1, <2>2, ChatDelivered
<1>16. OnePlace'
  <2>1. \A c, k : ~In(<<>>, c, k)
    <3>1. \A i \in 1 .. Len(<<>>) : FALSE
      OBVIOUS
    <3> QED
      BY <3>1 DEF In
  <2>2. \A c \in Clients, k \in 1 .. MaxInputs : ~InBlock(c, k) /\ ~InBlock(c, k)'
    BY <1>2, <1>5, <2>1 DEF InBlock
  <2>3. OnePlace
    BY DEF Steady
  <2>4. \A c \in Clients, k \in 1 .. MaxInputs :
            (WithUser(c, k)' <=> WithUser(c, k)) /\ (InHistory(c, k)' <=> InHistory(c, k))
    BY <1>2, <1>3 DEF WithUser, InHistory
  <2> QED
    BY <1>2, <1>3, <1>4, <1>5, <2>2, <2>3, <2>4 DEF OnePlace
<1> QED
  BY <1>1, <1>2, <1>7, <1>9, <1>10, <1>11, <1>12, <1>13, <1>14, <1>15, <1>16, ChatOthers

LEMMA ChatSteady == ASSUME Typed, Steady, CalmChat PROVE Steady'
BY SeeLineSteady, WaitsSteady, EntrySteady, TakeSteady, PutIdSteady, PutMessageSteady, PutHistorySteady,
   HistorySteady, WipeLineSteady, ClearLineSteady DEF CalmChat

-----------------------------------------------------------------------------
(* The clients in a calm chat.                                              *)

LEMMA ClientFrame ==
    ASSUME NEW c \in Clients, ClientStep(c)
    PROVE  UNCHANGED <<mpc, slot, count_sub, tpc, number_sub, number_hist, history, sub>>
BY ClientChanges DEF server, mgmtVars, chatVars, walk

LEMMA MapsTyped ==
    ASSUME Typed
    PROVE  /\ cpc \in [Clients -> {"off", "enter", "named", "wait", "answered", "taken", "chat",
                                   "exiting", "gone", "dead"}]
           /\ spc \in [Clients -> {"off", "init", "type", "line", "text", "done", "dead"}]
           /\ rpc \in [Clients -> {"off", "init", "poll", "look", "print", "wipe", "clear", "done", "dead"}]
           /\ id \in [Clients -> Nat] /\ typed \in [Clients -> 0 .. MaxInputs]
           /\ undo \in [Clients -> Int] /\ sem \in [Blocks -> Int]
           /\ mgmt_msg \in [id_sub : Nat, msg : Names]
BY TypeParts DEF Typed, ClientsTyped, SemsTyped, BlocksTyped

\* What remains to be shown of the steps of a client that comes in.
LEMMA JoinSteady ==
    ASSUME Typed, Steady, NEW c \in Clients, ClientStep(c), Registering(c) \/ Quiet,
           spc[c] = "off", rpc[c] = "off",
           \A d \in Clients \ {c} : cpc'[d] = cpc[d] /\ spc'[d] = spc[d] /\ rpc'[d] = rpc[d] /\ id'[d] = id[d],
           \/ /\ cpc'[c] \in {"off", "enter", "named", "wait", "answered", "taken"}
              /\ spc'[c] = "off" /\ rpc'[c] = "off"
           \/ cpc'[c] = "chat" /\ spc'[c] = "init" /\ rpc'[c] = "init"
           \/ cpc'[c] = "dead" /\ spc'[c] = "dead" /\ rpc'[c] = "dead",
           UNCHANGED <<msg_rcv, msg_snd, typed, screen, removed>>,
           sem'["rcv"] = sem["rcv"], sem'["snd"] = sem["snd"], mgmt_msg'.msg # "exit",
           cpc'[c] \in {"taken", "chat"} => id'[c] \in 1 .. Len(sub) /\ sub[id'[c]].name = c,
           cpc'[c] = "chat" => sub[id'[c]].new_sub = 1,
           Guarded("mgmt")', \A d \in Clients : undo'[d] = IF ClientIn("mgmt", d)' THEN 1 ELSE 0,
           Exchange'
    PROVE  Steady'
<1>1. UNCHANGED <<mpc, slot, count_sub, tpc, number_sub, number_hist, history, sub>>
  BY ClientFrame
<1>2. /\ Staying /\ Joining /\ Numbered /\ Taking /\ Handing /\ Serving /\ Delivered /\ OnePlace
      /\ Guarded("rcv") /\ Guarded("snd")
  BY DEF Steady, AllGuarded, Blocks
<1>3. \A d \in Clients : /\ spc'[d] \in {"line", "text"} <=> spc[d] \in {"line", "text"}
                         /\ spc'[d] = "text" <=> spc[d] = "text"
                         /\ rpc'[d] = "print" <=> rpc[d] = "print"
                         /\ rpc'[d] = "wipe" <=> rpc[d] = "wipe"
                         /\ rpc'[d] = "clear" <=> rpc[d] = "clear"
  <2> TAKE d \in Clients
  <2>1. CASE d = c
    BY <2>1
  <2>2. CASE d # c
    BY <2>2
  <2> QED
    BY <2>1, <2>2
<1>4. Staying'
  <2>1. \A d \in Clients :
            \/ /\ cpc'[d] \in {"off", "enter", "named", "wait", "answered", "taken"}
               /\ spc'[d] = "off" /\ rpc'[d] = "off"
            \/ /\ cpc'[d] = "chat" /\ spc'[d] \in {"init", "type", "line", "text"}
               /\ rpc'[d] \in {"init", "poll", "look", "print", "wipe", "clear"}
            \/ cpc'[d] = "dead" /\ spc'[d] = "dead" /\ rpc'[d] = "dead"
    <3> TAKE d \in Clients
    <3>1. CASE d = c
      BY <3>1
    <3>2. CASE d # c
      BY <1>2, <3>2 DEF Staying
    <3> QED
      BY <3>1, <3>2
  <2> QED
    BY <1>1, <1>2, <2>1 DEF Staying
<1>5. AllGuarded'
  <2>1. Guarded("rcv")' /\ Guarded("snd")'
    BY <1>1, <1>2, <1>3, SameIn DEF ServerIn, ClientIn
  <2> QED
    BY <2>1 DEF AllGuarded, Blocks
<1>6. Joining'
  <2>1. \A d \in Clients \ {c} : Registering(d)' => Registering(d)
    BY DEF Registering
  <2>2. /\ \A d \in Clients \ {c} : ~Registering(d)
        /\ tpc = "poll" /\ msg_rcv.id_sub = 0 /\ msg_snd.msg = <<>>
        /\ \A d \in Clients :
             spc[d] \notin {"line", "text"} /\ rpc[d] \notin {"print", "wipe", "clear"}
    <3>1. CASE Registering(c)
      BY <1>2, <3>1 DEF Joining
    <3>2. CASE Quiet
      <4>1. tpc = "poll" /\ msg_rcv.id_sub = 0 /\ msg_snd.msg = <<>>
        BY <3>2 DEF Quiet, BlockEmpty
      <4>2. \A d \in Clients : ~Registering(d) /\ spc[d] \notin {"line", "text"} /\ rpc[d] \notin {"wipe", "clear"}
        BY <3>2 DEF Quiet, NobodyRegisters
      <4>3. \A d \in Clients : rpc[d] # "print"
        BY <1>2, <4>1 DEF Handing, Filling
      <4> QED
        BY <4>1, <4>2, <4>3
    <3> QED
      BY <3>1, <3>2
  <2>3. \A d \in Clients :
             spc'[d] \notin {"line", "text"} /\ rpc'[d] \notin {"print", "wipe", "clear"}
    BY <1>3, <2>2
  <2> QED
    BY <1>1, <2>1, <2>2, <2>3 DEF Joining
<1>7. Numbered'
  <2>1. \A d \in Clients : cpc'[d] \in {"taken", "chat"} => id'[d] \in 1 .. Len(sub) /\ sub[id'[d]].name = d
    <3> TAKE d \in Clients
    <3>1. CASE d # c
      BY <1>2, <3>1 DEF Numbered
    <3> QED
      BY <3>1
  <2> QED
    BY <1>1, <1>2, <2>1 DEF Numbered
<1>8. Taking'
  BY <1>1, <1>2, <1>3 DEF Taking, Middle
<1>9. Handing'
  <2>1. \A d \in Clients : rpc[d] \in {"print", "wipe", "clear"} => id'[d] = id[d]
    BY <1>2
  <2>2. \A d \in Clients :
            /\ rpc'[d] \in {"print", "wipe", "clear"} => msg_snd.id_sub = id'[d]
            /\ rpc'[d] = "print" => msg_snd.msg # <<>> \/ Filling
            /\ rpc'[d] = "wipe" => msg_snd.msg # <<>>
            /\ rpc'[d] = "clear" => msg_snd.msg = <<>>
    <3> TAKE d \in Clients
    <3>1. /\ rpc[d] \in {"print", "wipe", "clear"} => msg_snd.id_sub = id[d] /\ id'[d] = id[d]
          /\ rpc[d] = "print" => msg_snd.msg # <<>> \/ Filling
          /\ rpc[d] = "wipe" => msg_snd.msg # <<>>
          /\ rpc[d] = "clear" => msg_snd.msg = <<>>
      BY <1>2, <2>1 DEF Handing
    <3>2. /\ rpc'[d] = "print" <=> rpc[d] = "print"
          /\ rpc'[d] = "wipe" <=> rpc[d] = "wipe"
          /\ rpc'[d] = "clear" <=> rpc[d] = "clear"
      BY <1>3
    <3> QED
      BY <3>1, <3>2
  <2>3. msg_snd.msg = <<>> /\ ~Filling => msg_snd.id_sub = 0 \/ \E d \in Clients : rpc'[d] = "clear"
    BY <1>2, <1>3 DEF Handing
  <2>4. /\ tpc \in {"history id", "send id", "history text", "send text"} => msg_snd.msg = <<>>
        /\ Filling => msg_snd.id_sub = number_sub
    BY <1>2 DEF Handing
  <2>5. Filling' <=> Filling
    BY <1>1 DEF Filling
  <2> QED
    BY <1>1, <2>2, <2>3, <2>4, <2>5 DEF Handing
<1>10. Serving'
  BY <1>1, <1>2 DEF Serving
<1>11. Delivered'
  <2> SUFFICES ASSUME NEW d \in Clients
               PROVE  /\ ~InChat(d)' => screen'[d] = <<>>
                      /\ InChat(d)' =>
                             /\ Len(screen'[d]) = IF Pending(d)' THEN Sent(id[d])' - 1 ELSE Sent(id[d])'
                             /\ Pending(d)' => msg_snd'.msg = history'[Sent(id[d])']
                      /\ Len(screen'[d]) <= Len(history')
                      /\ \A k \in 1 .. Len(screen'[d]) : screen'[d][k] = history'[k]
    BY DEF Delivered
  <2>1. CASE d # c
    <3>1. (InChat(d)' <=> InChat(d)) /\ (Pending(d)' <=> Pending(d))
      BY <2>1 DEF InChat, Pending
    <3>2. Sent(id[d])' = Sent(id[d])
      BY <1>1, <2>1 DEF Sent, Middle
    <3> QED
      BY <1>1, <1>2, <3>1, <3>2 DEF Delivered
  <2>2. CASE d = c
    <3>1. screen[c] = <<>> /\ Len(screen[c]) <= Len(history)
      <4>1. ~InChat(c)
        BY <1>2 DEF Staying, InChat
      <4> QED
        BY <1>2, <4>1 DEF Delivered
    <3>2. Len(screen[c]) = 0 /\ \A k \in 1 .. Len(screen[c]) : FALSE
      <4>1. Len(screen[c]) = 0
        BY <3>1
      <4> QED
        BY <4>1
    <3>3. ASSUME InChat(c)'
          PROVE  Sent(id[c])' = 0 /\ ~Pending(c)'
      <4>1. cpc'[c] = "chat" /\ spc'[c] = "init"
        BY <3>3 DEF InChat
      <4>2. tpc' = "poll" /\ msg_snd'.msg = <<>>
        <5>1. Registering(c)'
          BY <4>1 DEF Registering
        <5> QED
          BY <1>6, <5>1 DEF Joining
      <4>3. sub'[id'[c]].new_sub = 1
        BY <1>1, <4>1
      <4> QED
        BY <4>2, <4>3 DEF Sent, Pending
    <3> QED
      BY <1>1, <2>2, <3>1, <3>2, <3>3
  <2> QED
    BY <2>1, <2>2
<1>12. OnePlace'
  <2>1. \A d \in Clients, k \in 1 .. MaxInputs : WithUser(d, k)' <=> WithUser(d, k)
    BY <1>3 DEF WithUser
  <2> QED
    BY <1>1, <1>2, <2>1 DEF OnePlace, InBlock, InHistory
<1> QED
  BY <1>4, <1>5, <1>6, <1>7, <1>8, <1>9, <1>10, <1>11, <1>12 DEF Steady

\* Nobody is answered before the name is there.
LEMMA StillIdle ==
    ASSUME Steady, NEW c \in Clients, Registering(c) \/ Quiet, cpc[c] \in {"off", "enter"}
    PROVE  /\ Idle /\ mgmt_msg.id_sub = 0 /\ mgmt_msg.msg = "empty" /\ mpc \notin {"add", "wipe"}
           /\ \A d \in Clients : cpc[d] \notin {"named", "wait", "answered", "taken"}
           /\ \A d \in Clients : ~ClientIn("mgmt", d)
<1>1. Exchange
  BY DEF Steady
<1>2. \A d \in Clients : ~(Asks(d) \/ Answers(d))
  <2> SUFFICES ASSUME NEW d \in Clients, Asks(d) \/ Answers(d) PROVE FALSE
    OBVIOUS
  <2>1. Registering(d) /\ \A e \in Clients : Registering(e) => e = d
    BY ComingIn
  <2>2. d # c
    BY DEF Asks, Answers
  <2>3. Quiet
    BY <2>1, <2>2
  <2> QED
    BY <2>1, <2>3 DEF Quiet, NobodyRegisters
<1>3. Idle
  BY <1>1, <1>2 DEF Exchange
<1> QED
  BY <1>3 DEF Idle, ClientIn

\* The one who asks is the one who is answered.
LEMMA OwnExchange ==
    ASSUME Steady, NEW c \in Clients, cpc[c] \in {"named", "wait", "answered", "taken"}
    PROVE  Asks(c) \/ Answers(c)
<1>1. Exchange /\ ~Idle
  BY DEF Steady, Idle
<1>2. PICK d \in Clients : Asks(d) \/ Answers(d)
  BY <1>1 DEF Exchange
<1>3. c = d
  BY <1>2, ComingIn
<1> QED
  BY <1>2, <1>3

LEMMA StartSteady == ASSUME Typed, Steady, NEW c \in Clients, Start(c), Quiet PROVE Steady'
<1>1. ClientStep(c)
  BY DEF ClientStep
<1>2. /\ cpc[c] = "off" /\ SetVal("mgmt") /\ cpc' = [cpc EXCEPT ![c] = "enter"]
      /\ UNCHANGED <<mgmt_msg, msg_rcv, msg_snd, removed, spc, rpc, id, screen, typed>>
  BY DEF Start, blocks
<1>3. spc[c] = "off" /\ rpc[c] = "off" /\ mgmt_msg.msg # "exit"
  BY <1>2 DEF Steady, Staying
<1>4. cpc'[c] = "enter" /\ \A d \in Clients \ {c} : cpc'[d] = cpc[d]
  BY <1>2, MapsTyped
<1>5. sem'["mgmt"] = 1 /\ sem'["rcv"] = sem["rcv"] /\ sem'["snd"] = sem["snd"]
  BY <1>2, Reset DEF Blocks
<1>6. Idle /\ mpc # "wipe" /\ \A d \in Clients : cpc[d] \notin {"named", "wait", "answered", "taken"}
  BY <1>2, StillIdle
<1>7. UNCHANGED <<mpc, sub>>
  BY <1>1, ClientFrame
<1>8. \A d \in Clients : cpc'[d] \notin {"named", "wait", "answered", "taken"}
  BY <1>4, <1>6
<1>9. Guarded("mgmt")' /\ \A d \in Clients : ~ClientIn("mgmt", d)'
  BY <1>5, <1>6, <1>7, <1>8 DEF Guarded, ServerIn, ClientIn
<1>10. \A d \in Clients : undo'[d] = IF ClientIn("mgmt", d)' THEN 1 ELSE 0
  BY <1>2, <1>9 DEF SetVal
<1>11. Exchange'
  BY <1>2, <1>6, <1>7, <1>8 DEF Exchange, Idle
<1> QED
  BY <1>1, <1>2, <1>3, <1>4, <1>5, <1>9, <1>10, <1>11, JoinSteady

LEMMA CrashSteady == ASSUME Typed, Steady, NEW c \in Clients, NameCrash(c) PROVE Steady'
<1>1. ClientStep(c)
  BY DEF ClientStep
<1>2. /\ cpc[c] = "enter" /\ sem' = Undone(c) /\ undo' = [undo EXCEPT ![c] = 0]
      /\ cpc' = [cpc EXCEPT ![c] = "dead"]
      /\ spc' = [spc EXCEPT ![c] = "dead"] /\ rpc' = [rpc EXCEPT ![c] = "dead"]
      /\ UNCHANGED <<mgmt_msg, msg_rcv, msg_snd, removed, id, screen, typed>>
  BY DEF NameCrash, Dies, blocks
<1>3. spc[c] = "off" /\ rpc[c] = "off" /\ mgmt_msg.msg # "exit" /\ removed = {}
  BY <1>2 DEF Steady, Staying
<1>4. /\ cpc'[c] = "dead" /\ spc'[c] = "dead" /\ rpc'[c] = "dead"
      /\ \A d \in Clients \ {c} : cpc'[d] = cpc[d] /\ spc'[d] = spc[d] /\ rpc'[d] = rpc[d]
  BY <1>2, MapsTyped
<1>5. Registering(c)
  BY <1>2 DEF Registering
<1>6. /\ Idle /\ mpc # "wipe" /\ \A d \in Clients : cpc[d] \notin {"named", "wait", "answered", "taken"}
      /\ \A d \in Clients : ~ClientIn("mgmt", d)
  BY <1>2, <1>5, StillIdle
<1>7. UNCHANGED <<mpc, sub>>
  BY <1>1, ClientFrame
<1>8. \A d \in Clients : cpc'[d] \notin {"named", "wait", "answered", "taken"}
  BY <1>4, <1>6
<1>9. Guarded("mgmt") /\ undo[c] = 0 /\ \A d \in Clients : undo[d] = 0
  BY <1>6 DEF Steady, AllGuarded, Blocks
<1>10. sem'["mgmt"] = sem["mgmt"] /\ sem'["rcv"] = sem["rcv"] /\ sem'["snd"] = sem["snd"]
  <2>1. sem["mgmt"] = 1
    BY <1>6, <1>9 DEF Guarded, ServerIn
  <2>2. sem' = [sem EXCEPT !["mgmt"] = AtLeastZero(sem["mgmt"] + undo[c])]
    BY <1>2, <1>3 DEF Undone
  <2>3. AtLeastZero(sem["mgmt"] + undo[c]) = 1
    BY <1>9, <2>1 DEF AtLeastZero
  <2> QED
    BY <2>1, <2>2, <2>3, MapsTyped DEF Blocks
<1>11. \A d \in Clients : ~ClientIn("mgmt", d)'
  BY <1>8 DEF ClientIn
<1>12. Guarded("mgmt")'
  BY <1>6, <1>7, <1>9, <1>10, <1>11, SameIn DEF ServerIn
<1>13. \A d \in Clients : undo'[d] = IF ClientIn("mgmt", d)' THEN 1 ELSE 0
  BY <1>2, <1>9, <1>11, MapsTyped
<1>14. Exchange'
  BY <1>2, <1>6, <1>7, <1>8 DEF Exchange, Idle
<1> QED
  BY <1>1, <1>2, <1>3, <1>4, <1>5, <1>10, <1>12, <1>13, <1>14, JoinSteady

\* LOCK and UNLOCK of a client's main, with what SEM_UNDO notes.
LEMMA MainLocks ==
    ASSUME Typed, Steady, NEW c \in Clients, Lock("mgmt"), Undoing(c, 1),
           cpc'[c] \in {"named", "taken"}, \A d \in Clients \ {c} : cpc'[d] = cpc[d], mpc' = mpc
    PROVE  /\ Guarded("mgmt")' /\ \A d \in Clients : undo'[d] = IF ClientIn("mgmt", d)' THEN 1 ELSE 0
           /\ sem'["rcv"] = sem["rcv"] /\ sem'["snd"] = sem["snd"] /\ mpc # "wipe"
<1>1. removed = {} /\ Guarded("mgmt") /\ \A d \in Clients : undo[d] = IF ClientIn("mgmt", d) THEN 1 ELSE 0
  BY DEF Steady, Staying, AllGuarded, Blocks
<1>2. /\ sem["mgmt"] > 0 /\ sem'["mgmt"] = sem["mgmt"] - 1
      /\ sem'["rcv"] = sem["rcv"] /\ sem'["snd"] = sem["snd"]
  BY <1>1, Locked DEF Blocks
<1>3. ~ServerIn("mgmt") /\ \A d \in Clients : ~ClientIn("mgmt", d)
  BY <1>1, <1>2, NobodyIn
<1>4. Guarded("mgmt")'
  BY <1>1, <1>2, ClientEnters DEF ServerIn, ClientIn
<1>5. undo' = [undo EXCEPT ![c] = undo[c] + 1]
  BY <1>1 DEF Undoing
<1>6. undo[c] = 0 /\ undo'[c] = 1 /\ \A d \in Clients \ {c} : undo'[d] = 0
  BY <1>1, <1>3, <1>5, MapsTyped
<1>7. ClientIn("mgmt", c)' /\ \A d \in Clients \ {c} : ~ClientIn("mgmt", d)'
  BY <1>3 DEF ClientIn
<1> QED
  BY <1>2, <1>3, <1>4, <1>6, <1>7 DEF ServerIn

LEMMA MainUnlocks ==
    ASSUME Typed, Steady, NEW c \in Clients, Unlock("mgmt"), Undoing(c, -1),
           cpc[c] \in {"named", "taken"}, cpc'[c] \notin {"named", "taken"},
           \A d \in Clients \ {c} : cpc'[d] = cpc[d], mpc' = mpc
    PROVE  /\ Guarded("mgmt")' /\ \A d \in Clients : undo'[d] = IF ClientIn("mgmt", d)' THEN 1 ELSE 0
           /\ sem'["rcv"] = sem["rcv"] /\ sem'["snd"] = sem["snd"] /\ mpc # "wipe"
<1>1. removed = {} /\ Guarded("mgmt") /\ \A d \in Clients : undo[d] = IF ClientIn("mgmt", d) THEN 1 ELSE 0
  BY DEF Steady, Staying, AllGuarded, Blocks
<1>2. sem'["mgmt"] = sem["mgmt"] + 1 /\ sem'["rcv"] = sem["rcv"] /\ sem'["snd"] = sem["snd"]
  BY <1>1, Unlocked DEF Blocks
<1>3. ClientIn("mgmt", c) /\ ~ServerIn("mgmt") /\ \A d \in Clients \ {c} : ~ClientIn("mgmt", d)
  <2>1. ClientIn("mgmt", c)
    BY DEF ClientIn
  <2> QED
    BY <1>1, <2>1, AloneIn
<1>4. Guarded("mgmt")'
  BY <1>1, <1>2, <1>3, ClientLeaves DEF ServerIn, ClientIn
<1>5. undo' = [undo EXCEPT ![c] = undo[c] + -1]
  BY <1>1 DEF Undoing
<1>6. undo[c] = 1 /\ undo'[c] = 0 /\ \A d \in Clients \ {c} : undo'[d] = 0
  BY <1>1, <1>3, <1>5, MapsTyped
<1>7. \A d \in Clients : ~ClientIn("mgmt", d)'
  BY <1>3 DEF ClientIn
<1> QED
  BY <1>2, <1>3, <1>4, <1>6, <1>7 DEF ServerIn

LEMMA LeaveNameSteady == ASSUME Typed, Steady, NEW c \in Clients, LeaveName(c) PROVE Steady'
<1>1. ClientStep(c)
  BY DEF ClientStep, ClientMain
<1>2. /\ cpc[c] = "enter" /\ Lock("mgmt") /\ Undoing(c, 1) /\ cpc' = [cpc EXCEPT ![c] = "named"]
      /\ UNCHANGED <<msg_rcv, msg_snd, removed, spc, rpc, id, screen, typed>>
  BY DEF LeaveName, input
<1>3. spc[c] = "off" /\ rpc[c] = "off"
  BY <1>2 DEF Steady, Staying
<1>4. cpc'[c] = "named" /\ \A d \in Clients \ {c} : cpc'[d] = cpc[d]
  BY <1>2, MapsTyped
<1>5. Registering(c)
  BY <1>2 DEF Registering
<1>6. mgmt_msg.id_sub = 0 /\ mpc # "wipe"
  BY <1>2, <1>5, StillIdle
<1>7. UNCHANGED <<mpc, sub>>
  BY <1>1, ClientFrame
<1>8. mgmt_msg'.id_sub = 0 /\ mgmt_msg'.msg = c /\ c # "exit"
  <2>1. mgmt_msg' = [mgmt_msg EXCEPT !.msg = c]
    BY DEF LeaveName
  <2> QED
    BY <1>6, <2>1, MapsTyped, NamesAssumption
<1>9. Exchange'
  BY <1>4, <1>6, <1>7, <1>8 DEF Exchange, Asks
<1>10. /\ Guarded("mgmt")' /\ \A d \in Clients : undo'[d] = IF ClientIn("mgmt", d)' THEN 1 ELSE 0
       /\ sem'["rcv"] = sem["rcv"] /\ sem'["snd"] = sem["snd"]
  BY <1>2, <1>4, <1>7, MainLocks
<1> QED
  BY <1>1, <1>2, <1>3, <1>4, <1>5, <1>8, <1>9, <1>10, JoinSteady

LEMMA NamedSteady == ASSUME Typed, Steady, NEW c \in Clients, Named(c) PROVE Steady'
<1>1. ClientStep(c)
  BY DEF ClientStep, ClientMain
<1>2. /\ cpc[c] = "named" /\ Unlock("mgmt") /\ Undoing(c, -1) /\ cpc' = [cpc EXCEPT ![c] = "wait"]
      /\ UNCHANGED <<msg_rcv, msg_snd, removed, spc, rpc, id, screen, typed>>
  BY DEF Named, input
<1>3. spc[c] = "off" /\ rpc[c] = "off"
  BY <1>2 DEF Steady, Staying
<1>4. cpc'[c] = "wait" /\ \A d \in Clients \ {c} : cpc'[d] = cpc[d]
  BY <1>2, MapsTyped
<1>5. Registering(c) /\ Asks(c)
  BY <1>2, OwnExchange DEF Registering, Answers
<1>6. UNCHANGED <<mpc, sub>>
  BY <1>1, ClientFrame
<1>7. mgmt_msg'.id_sub = 0 /\ mgmt_msg'.msg = c /\ c # "exit"
  <2>1. mgmt_msg' = [mgmt_msg EXCEPT !.id_sub = 0]
    BY DEF Named
  <2> QED
    BY <1>5, <2>1, MapsTyped, NamesAssumption DEF Asks
<1>8. Exchange'
  BY <1>4, <1>5, <1>6, <1>7 DEF Exchange, Asks
<1>9. /\ Guarded("mgmt")' /\ \A d \in Clients : undo'[d] = IF ClientIn("mgmt", d)' THEN 1 ELSE 0
      /\ sem'["rcv"] = sem["rcv"] /\ sem'["snd"] = sem["snd"]
  BY <1>2, <1>4, <1>6, MainUnlocks
<1> QED
  BY <1>1, <1>2, <1>3, <1>4, <1>5, <1>7, <1>8, <1>9, JoinSteady

LEMMA AnswerSteady == ASSUME Typed, Steady, NEW c \in Clients, SeeAnswer(c) PROVE Steady'
<1>1. ClientStep(c)
  BY DEF ClientStep, ClientMain
<1>2. /\ cpc[c] = "wait" /\ mgmt_msg.id_sub >= 1 /\ cpc' = [cpc EXCEPT ![c] = "answered"]
      /\ UNCHANGED <<mgmt_msg, msg_rcv, msg_snd, sem, undo, removed, spc, rpc, id, screen, typed>>
  BY DEF SeeAnswer, input, blocks, sems
<1>3. spc[c] = "off" /\ rpc[c] = "off" /\ mgmt_msg.msg # "exit"
  BY <1>2 DEF Steady, Staying
<1>4. cpc'[c] = "answered" /\ \A d \in Clients \ {c} : cpc'[d] = cpc[d]
  BY <1>2, MapsTyped
<1>5. mgmt_msg.id_sub # 0
  BY <1>2, MapsTyped
<1>6. Registering(c) /\ Answers(c)
  BY <1>2, <1>5, OwnExchange DEF Registering, Asks
<1>7. UNCHANGED <<mpc, sub>>
  BY <1>1, ClientFrame
<1>8. Exchange'
  BY <1>2, <1>4, <1>6, <1>7 DEF Exchange, Answers
<1>9. \A d \in Clients : ClientIn("mgmt", d)' <=> ClientIn("mgmt", d)
  BY <1>2, <1>4 DEF ClientIn
<1>10. Guarded("mgmt")' /\ \A d \in Clients : undo'[d] = IF ClientIn("mgmt", d)' THEN 1 ELSE 0
  <2>1. Guarded("mgmt") /\ \A d \in Clients : undo[d] = IF ClientIn("mgmt", d) THEN 1 ELSE 0
    BY DEF Steady, AllGuarded, Blocks
  <2>2. ServerIn("mgmt")' <=> ServerIn("mgmt")
    BY <1>7 DEF ServerIn
  <2>3. Guarded("mgmt")'
    BY <1>2, <1>9, <2>1, <2>2, SameIn
  <2> QED
    BY <1>2, <1>9, <2>1, <2>3
<1> QED
  BY <1>1, <1>2, <1>3, <1>4, <1>6, <1>8, <1>10, JoinSteady

LEMMA TakeIdSteady == ASSUME Typed, Steady, NEW c \in Clients, TakeId(c) PROVE Steady'
<1>1. ClientStep(c)
  BY DEF ClientStep, ClientMain
<1>2. /\ cpc[c] = "answered" /\ Lock("mgmt") /\ Undoing(c, 1) /\ cpc' = [cpc EXCEPT ![c] = "taken"]
      /\ id' = [id EXCEPT ![c] = mgmt_msg.id_sub]
      /\ UNCHANGED <<mgmt_msg, msg_rcv, msg_snd, removed, spc, rpc, screen, typed>>
  BY DEF TakeId, input, blocks
<1>3. spc[c] = "off" /\ rpc[c] = "off" /\ mgmt_msg.msg # "exit"
  BY <1>2 DEF Steady, Staying
<1>4. /\ cpc'[c] = "taken" /\ id'[c] = mgmt_msg.id_sub
      /\ \A d \in Clients \ {c} : cpc'[d] = cpc[d] /\ id'[d] = id[d]
  BY <1>2, MapsTyped
<1>5. Registering(c) /\ Answers(c)
  BY <1>2, OwnExchange DEF Registering, Asks
<1>6. UNCHANGED <<mpc, sub>>
  BY <1>1, ClientFrame
<1>7. Exchange'
  BY <1>2, <1>4, <1>5, <1>6 DEF Exchange, Answers
<1>8. /\ Guarded("mgmt")' /\ \A d \in Clients : undo'[d] = IF ClientIn("mgmt", d)' THEN 1 ELSE 0
      /\ sem'["rcv"] = sem["rcv"] /\ sem'["snd"] = sem["snd"]
  BY <1>2, <1>4, <1>6, MainLocks
<1>9. id'[c] \in 1 .. Len(sub) /\ sub[id'[c]].name = c
  <2>1. id'[c] = Len(sub) /\ Len(sub) # 0 /\ sub[Len(sub)].name = c /\ Len(sub) \in Nat
    BY <1>4, <1>5, EntriesTyped DEF Answers
  <2> QED
    BY <2>1
<1> QED
  BY <1>1, <1>2, <1>3, <1>4, <1>5, <1>7, <1>8, <1>9, JoinSteady

LEMMA IdTakenSteady == ASSUME Typed, Steady, NEW c \in Clients, IdTaken(c) PROVE Steady'
<1>1. ClientStep(c)
  BY DEF ClientStep, ClientMain
<1>2. /\ cpc[c] = "taken" /\ Unlock("mgmt") /\ Undoing(c, -1) /\ cpc' = [cpc EXCEPT ![c] = "chat"]
      /\ spc' = [spc EXCEPT ![c] = "init"] /\ rpc' = [rpc EXCEPT ![c] = "init"]
      /\ UNCHANGED <<msg_rcv, msg_snd, removed, id, screen, typed>>
  BY DEF IdTaken, input
<1>3. spc[c] = "off" /\ rpc[c] = "off"
  BY <1>2 DEF Steady, Staying
<1>4. /\ cpc'[c] = "chat" /\ spc'[c] = "init" /\ rpc'[c] = "init"
      /\ \A d \in Clients \ {c} : cpc'[d] = cpc[d] /\ spc'[d] = spc[d] /\ rpc'[d] = rpc[d]
  BY <1>2, MapsTyped
<1>5. Registering(c) /\ Answers(c)
  BY <1>2, OwnExchange DEF Registering, Asks
<1>6. UNCHANGED <<mpc, sub>>
  BY <1>1, ClientFrame
<1>7. /\ Guarded("mgmt")' /\ \A d \in Clients : undo'[d] = IF ClientIn("mgmt", d)' THEN 1 ELSE 0
      /\ sem'["rcv"] = sem["rcv"] /\ sem'["snd"] = sem["snd"] /\ mpc # "wipe"
  BY <1>2, <1>4, <1>6, MainUnlocks
<1>8. mgmt_msg'.id_sub = 0 /\ mgmt_msg'.msg = "empty"
  <2>1. mgmt_msg' = [mgmt_msg EXCEPT !.id_sub = 0]
    BY DEF IdTaken
  <2>2. mgmt_msg.msg = "empty"
    BY <1>5, <1>7 DEF Answers
  <2> QED
    BY <2>1, <2>2, MapsTyped
<1>9. Exchange'
  <2>1. \A d \in Clients : cpc'[d] \notin {"named", "wait", "answered", "taken"}
    <3>1. \A d \in Clients \ {c} : cpc[d] \notin {"named", "wait", "answered", "taken"}
      BY <1>5, ComingIn
    <3> QED
      BY <1>4, <3>1
  <2>2. mpc \notin {"add", "wipe"}
    BY <1>5, <1>7 DEF Answers
  <2> QED
    BY <1>6, <1>8, <2>1, <2>2 DEF Exchange, Idle
<1>10. id[c] \in 1 .. Len(sub) /\ sub[id[c]].name = c /\ sub[id[c]].new_sub = 1
  <2>1. id[c] = Len(sub) /\ Len(sub) # 0 /\ Len(sub) \in Nat
        /\ sub[Len(sub)].name = c /\ sub[Len(sub)].new_sub = 1
    BY <1>2, <1>5, EntriesTyped DEF Answers
  <2> QED
    BY <2>1
<1> QED
  BY <1>1, <1>2, <1>3, <1>4, <1>5, <1>7, <1>8, <1>9, <1>10, JoinSteady

\* A client in the chat: what its threads leave alone.
LEMMA InsideOthers ==
    ASSUME Typed, Steady, NEW c \in Clients, ClientStep(c), cpc[c] = "chat",
           UNCHANGED <<mgmt_msg, undo, cpc, id, removed>>, sem'["mgmt"] = sem["mgmt"],
           \A d \in Clients \ {c} : spc'[d] = spc[d] /\ rpc'[d] = rpc[d],
           spc'[c] \in {"init", "type", "line", "text"},
           rpc'[c] \in {"init", "poll", "look", "print", "wipe", "clear"}
    PROVE  /\ Staying' /\ Exchange' /\ Numbered' /\ Serving'
           /\ Guarded("mgmt")' /\ \A d \in Clients : undo'[d] = IF ClientIn("mgmt", d)' THEN 1 ELSE 0
<1>1. UNCHANGED <<mpc, slot, count_sub, tpc, number_sub, number_hist, history, sub>>
  BY ClientFrame
<1>2. Staying /\ Exchange /\ Numbered /\ Serving /\ Guarded("mgmt")
      /\ \A d \in Clients : undo[d] = IF ClientIn("mgmt", d) THEN 1 ELSE 0
  BY DEF Steady, AllGuarded, Blocks
<1>3. Staying'
  <2>1. \A d \in Clients :
            \/ /\ cpc'[d] \in {"off", "enter", "named", "wait", "answered", "taken"}
               /\ spc'[d] = "off" /\ rpc'[d] = "off"
            \/ /\ cpc'[d] = "chat" /\ spc'[d] \in {"init", "type", "line", "text"}
               /\ rpc'[d] \in {"init", "poll", "look", "print", "wipe", "clear"}
            \/ cpc'[d] = "dead" /\ spc'[d] = "dead" /\ rpc'[d] = "dead"
    <3> TAKE d \in Clients
    <3>1. CASE d = c
      BY <3>1
    <3>2. CASE d # c
      BY <1>2, <3>2 DEF Staying
    <3> QED
      BY <3>1, <3>2
  <2> QED
    BY <1>1, <1>2, <2>1 DEF Staying
<1>4. Exchange'
  BY <1>1, <1>2 DEF Exchange, Idle, Asks, Answers
<1>5. Numbered'
  BY <1>1, <1>2 DEF Numbered
<1>6. Serving'
  BY <1>1, <1>2 DEF Serving
<1>7. \A d \in Clients : ClientIn("mgmt", d)' <=> ClientIn("mgmt", d)
  BY DEF ClientIn
<1>8. Guarded("mgmt")'
  BY <1>1, <1>2, <1>7, SameIn DEF ServerIn
<1> QED
  BY <1>2, <1>3, <1>4, <1>5, <1>6, <1>7, <1>8

\* What typing leaves alone.
LEMMA WriterSteady ==
    ASSUME Typed, Steady, NEW c \in Clients, ClientStep(c), cpc[c] = "chat",
           UNCHANGED <<mgmt_msg, undo, cpc, id, removed, rpc, msg_snd, screen>>,
           sem'["mgmt"] = sem["mgmt"], sem'["snd"] = sem["snd"],
           \A d \in Clients \ {c} : spc'[d] = spc[d], spc'[c] \in {"init", "type", "line", "text"},
           Guarded("rcv")', Joining', Taking', OnePlace'
    PROVE  Steady'
<1>1. UNCHANGED <<tpc, number_sub, number_hist, history, sub>>
  BY ClientFrame
<1>2. Staying /\ Handing /\ Delivered /\ Guarded("snd")
  BY DEF Steady, AllGuarded, Blocks
<1>3. rpc'[c] \in {"init", "poll", "look", "print", "wipe", "clear"}
  BY <1>2 DEF Staying
<1>4. /\ Staying' /\ Exchange' /\ Numbered' /\ Serving'
      /\ Guarded("mgmt")' /\ \A d \in Clients : undo'[d] = IF ClientIn("mgmt", d)' THEN 1 ELSE 0
  BY <1>3, InsideOthers
<1>5. Guarded("snd")'
  BY <1>1, <1>2, SameIn DEF ServerIn, ClientIn
<1>6. AllGuarded'
  BY <1>4, <1>5 DEF AllGuarded, Blocks
<1>7. Handing'
  BY <1>1, <1>2 DEF Handing, Filling
<1>8. Delivered'
  BY <1>1, <1>2 DEF Delivered, InChat, Pending, Sent, Middle
<1> QED
  BY <1>4, <1>6, <1>7, <1>8 DEF Steady

\* What reading leaves alone.
LEMMA ReaderSteady ==
    ASSUME Typed, Steady, NEW c \in Clients, ClientStep(c), cpc[c] = "chat",
           UNCHANGED <<mgmt_msg, undo, cpc, id, removed, spc, msg_rcv, typed>>,
           sem'["mgmt"] = sem["mgmt"], sem'["rcv"] = sem["rcv"],
           \A d \in Clients \ {c} : rpc'[d] = rpc[d],
           rpc'[c] \in {"init", "poll", "look", "print", "wipe", "clear"},
           Guarded("snd")', Joining', Handing', Delivered'
    PROVE  Steady'
<1>1. UNCHANGED <<tpc, number_sub, number_hist, history, sub>>
  BY ClientFrame
<1>2. Staying /\ Taking /\ OnePlace /\ Guarded("rcv")
  BY DEF Steady, AllGuarded, Blocks
<1>3. spc'[c] \in {"init", "type", "line", "text"}
  BY <1>2 DEF Staying
<1>4. /\ Staying' /\ Exchange' /\ Numbered' /\ Serving'
      /\ Guarded("mgmt")' /\ \A d \in Clients : undo'[d] = IF ClientIn("mgmt", d)' THEN 1 ELSE 0
  BY <1>3, InsideOthers
<1>5. Guarded("rcv")'
  BY <1>1, <1>2, SameIn DEF ServerIn, ClientIn
<1>6. AllGuarded'
  BY <1>4, <1>5 DEF AllGuarded, Blocks
<1>7. Taking'
  BY <1>1, <1>2 DEF Taking, Middle
<1>8. OnePlace'
  BY <1>1, <1>2 DEF OnePlace, WithUser, InBlock, InHistory
<1> QED
  BY <1>4, <1>6, <1>7, <1>8 DEF Steady

\* Nobody comes in while a line or a message is on its way.
LEMMA BusyAlone ==
    ASSUME Steady, NEW c \in Clients, spc[c] \in {"line", "text"} \/ rpc[c] \in {"print", "wipe", "clear"}
    PROVE  \A d \in Clients : ~Registering(d)
BY DEF Steady, Joining

LEMMA NobodyJoins ==
    ASSUME NEW c \in Clients, \A d \in Clients : ~Registering(d), cpc' = cpc,
           \A d \in Clients \ {c} : spc'[d] = spc[d] /\ rpc'[d] = rpc[d],
           spc'[c] = "init" => spc[c] = "init", rpc'[c] = "init" => rpc[c] = "init"
    PROVE  Joining'
<1>1. \A d \in Clients : ~Registering(d)'
  BY DEF Registering
<1> QED
  BY <1>1 DEF Joining

\* The same lines in the same places.
LEMMA SameLines ==
    ASSUME Steady, UNCHANGED <<tpc, history, msg_rcv>>,
           \A d \in Clients, k \in 1 .. MaxInputs : WithUser(d, k)' <=> WithUser(d, k), typed' = typed
    PROVE  OnePlace'
BY DEF Steady, OnePlace, InBlock, InHistory

LEMMA SndInitSteady == ASSUME Typed, Steady, NEW c \in Clients, SndInit(c) PROVE Steady'
<1>1. ClientStep(c)
  BY DEF ClientStep, ChatClientSnd
<1>2. /\ spc[c] = "init" /\ SetVal("rcv") /\ spc' = [spc EXCEPT ![c] = "type"]
      /\ UNCHANGED <<mgmt_msg, msg_rcv, msg_snd, removed, cpc, rpc, id, screen, typed>>
  BY DEF SndInit, input, blocks
<1>3. cpc[c] = "chat"
  BY <1>2 DEF Steady, Staying
<1>4. spc'[c] = "type" /\ \A d \in Clients \ {c} : spc'[d] = spc[d]
  BY <1>2, MapsTyped
<1>5. /\ sem'["rcv"] = 1 /\ sem'["mgmt"] = sem["mgmt"] /\ sem'["snd"] = sem["snd"] /\ undo' = undo
  BY <1>2, Reset DEF Blocks, SetVal
<1>6. UNCHANGED <<tpc, history>>
  BY <1>1, ClientFrame
<1>7. /\ tpc = "poll" /\ msg_rcv.id_sub = 0 /\ msg_snd.msg = <<>>
      /\ \A d \in Clients : spc[d] \notin {"line", "text"} /\ rpc[d] \notin {"print", "wipe", "clear"}
      /\ \A d, e \in Clients : Registering(d) /\ Registering(e) => d = e
  <2>1. Registering(c)
    BY <1>2 DEF Registering
  <2> QED
    BY <2>1 DEF Steady, Joining
<1>8. \A d \in Clients : spc'[d] \notin {"line", "text"}
  BY <1>4, <1>7
<1>9. Guarded("rcv")'
  BY <1>5, <1>6, <1>7, <1>8 DEF Guarded, ServerIn, ClientIn
<1>10. \A d \in Clients : Registering(d)' => Registering(d)
  BY <1>2, <1>4 DEF Registering
<1>11. Joining'
  BY <1>2, <1>6, <1>7, <1>8, <1>10 DEF Joining
<1>12. Taking'
  BY <1>2, <1>6, <1>7, <1>8 DEF Steady, Taking, Middle
<1>13. OnePlace'
  <2>1. \A d \in Clients, k \in 1 .. MaxInputs : ~WithUser(d, k)' /\ ~WithUser(d, k)
    BY <1>7, <1>8 DEF WithUser
  <2> QED
    BY <1>2, <1>6, <2>1, SameLines
<1> QED
  BY <1>1, <1>2, <1>3, <1>4, <1>5, <1>9, <1>11, <1>12, <1>13, WriterSteady

LEMMA TypeSteady == ASSUME Typed, Steady, NEW c \in Clients, Type(c), NobodyRegisters PROVE Steady'
<1>1. ClientStep(c)
  BY DEF ClientStep
<1>2. /\ spc[c] = "type" /\ spc' = [spc EXCEPT ![c] = "line"] /\ typed' = [typed EXCEPT ![c] = typed[c] + 1]
      /\ UNCHANGED <<mgmt_msg, msg_rcv, msg_snd, sem, undo, removed, cpc, rpc, id, screen>>
  BY DEF Type, blocks, sems
<1>3. cpc[c] = "chat"
  BY <1>2 DEF Steady, Staying
<1>4. /\ spc'[c] = "line" /\ \A d \in Clients \ {c} : spc'[d] = spc[d]
      /\ typed'[c] = typed[c] + 1 /\ \A d \in Clients \ {c} : typed'[d] = typed[d]
      /\ typed[c] \in Nat
  BY <1>2, MapsTyped, BoundAssumption
<1>5. UNCHANGED <<tpc, history>>
  BY <1>1, ClientFrame
<1>6. \A d \in Clients : ~Registering(d)
  BY DEF NobodyRegisters
<1>7. Joining'
  BY <1>2, <1>4, <1>6, NobodyJoins
<1>8. \A d \in Clients : spc'[d] = "text" <=> spc[d] = "text"
  BY <1>2, <1>4
<1>9. Guarded("rcv")'
  <2>1. Guarded("rcv")
    BY DEF Steady, AllGuarded, Blocks
  <2> QED
    BY <1>2, <1>5, <1>8, <2>1, SameIn DEF ServerIn, ClientIn
<1>10. Taking'
  BY <1>2, <1>5, <1>8 DEF Steady, Taking, Middle
<1>11. OnePlace'
  <2>1. OnePlace
    BY DEF Steady
  <2>2. \A d \in Clients, k \in 1 .. MaxInputs :
            (InBlock(d, k)' <=> InBlock(d, k)) /\ (InHistory(d, k)' <=> InHistory(d, k))
    BY <1>2, <1>5 DEF InBlock, InHistory
  <2>3. \A d \in Clients, k \in 1 .. MaxInputs :
            /\ k <= typed'[d] => WithUser(d, k)' \/ InBlock(d, k) \/ InHistory(d, k)
            /\ WithUser(d, k)' => ~InBlock(d, k) /\ ~InHistory(d, k)
            /\ k > typed'[d] => ~InBlock(d, k) /\ ~InHistory(d, k)
    <3> TAKE d \in Clients, k \in 1 .. MaxInputs
    <3>0. /\ k <= typed[d] => WithUser(d, k) \/ InBlock(d, k) \/ InHistory(d, k)
          /\ WithUser(d, k) => ~InBlock(d, k) /\ ~InHistory(d, k)
          /\ k > typed[d] => ~InBlock(d, k) /\ ~InHistory(d, k)
      BY <2>1 DEF OnePlace
    <3>1. CASE d # c
      <4>1. typed'[d] = typed[d] /\ (WithUser(d, k)' <=> WithUser(d, k))
        BY <1>4, <3>1 DEF WithUser
      <4> QED
        BY <3>0, <4>1
    <3>2. CASE d = c
      <4>1. ~WithUser(c, k) /\ (WithUser(c, k)' <=> k = typed[c] + 1)
        BY <1>2, <1>4 DEF WithUser
      <4>2. k \in Int
        BY BoundAssumption
      <4>3. /\ k <= typed[c] + 1 => k <= typed[c] \/ k = typed[c] + 1
            /\ k = typed[c] + 1 => k > typed[c]
            /\ k > typed[c] + 1 => k > typed[c]
        BY <1>4, <4>2
      <4> QED
        BY <1>4, <3>0, <3>2, <4>1, <4>3
    <3> QED
      BY <3>1, <3>2
  <2> QED
    BY <1>2, <1>5, <2>1, <2>2, <2>3 DEF OnePlace
<1> QED
  BY <1>1, <1>2, <1>3, <1>4, <1>7, <1>9, <1>10, <1>11, WriterSteady

LEMMA LockLineSteady == ASSUME Typed, Steady, NEW c \in Clients, LockLine(c) PROVE Steady'
<1>1. ClientStep(c)
  BY DEF ClientStep, ChatClientSnd
<1>2. /\ spc[c] = "line" /\ spc' = [spc EXCEPT ![c] = "text"] /\ Lock("rcv")
      /\ UNCHANGED <<mgmt_msg, msg_snd, undo, removed, cpc, rpc, id, screen, typed>>
  BY DEF LockLine, input
<1>3. cpc[c] = "chat" /\ removed = {} /\ Guarded("rcv")
  BY <1>2 DEF Steady, Staying, AllGuarded, Blocks
<1>4. spc'[c] = "text" /\ \A d \in Clients \ {c} : spc'[d] = spc[d]
  BY <1>2, MapsTyped
<1>5. UNCHANGED <<tpc, history>>
  BY <1>1, ClientFrame
<1>6. /\ sem["rcv"] > 0 /\ sem'["rcv"] = sem["rcv"] - 1
      /\ sem'["mgmt"] = sem["mgmt"] /\ sem'["snd"] = sem["snd"]
  BY <1>2, <1>3, Locked DEF Blocks
<1>7. tpc \in {"poll", "take"}
  BY <1>3, <1>6, NobodyIn DEF ServerIn
<1>8. Guarded("rcv")'
  BY <1>2, <1>3, <1>4, <1>5, <1>6, ClientEnters DEF ServerIn, ClientIn
<1>9. Joining'
  BY <1>2, <1>4, BusyAlone, NobodyJoins
<1>10. msg_rcv'.msg = msg_rcv.msg /\ msg_rcv'.id_sub = id[c] /\ id[c] # 0
  <2>1. msg_rcv' = [msg_rcv EXCEPT !.id_sub = id[c]]
    BY DEF LockLine
  <2>2. id[c] >= 1 /\ id[c] \in Nat
    BY <1>3, InChatNumbers DEF InChat
  <2>3. id[c] # 0
    BY <2>2
  <2> QED
    BY <2>1, <2>3, CountsTyped
<1>11. Taking'
  BY <1>4, <1>5, <1>7, <1>10 DEF Steady, Taking, Middle
<1>12. OnePlace'
  <2>1. OnePlace
    BY DEF Steady
  <2>2. \A d \in Clients, k \in 1 .. MaxInputs :
            /\ InBlock(d, k)' <=> InBlock(d, k)
            /\ InHistory(d, k)' <=> InHistory(d, k)
    BY <1>5, <1>10 DEF InBlock, InHistory
  <2>3. \A d \in Clients, k \in 1 .. MaxInputs : WithUser(d, k)' <=> WithUser(d, k)
    BY <1>2, <1>4 DEF WithUser
  <2> QED
    BY <1>2, <1>5, <1>10, <2>1, <2>2, <2>3 DEF OnePlace
<1> QED
  BY <1>1, <1>2, <1>3, <1>4, <1>6, <1>8, <1>9, <1>11, <1>12, WriterSteady

\* A line is put behind the others.
LEMMA AppendedLine ==
    ASSUME NEW s \in Texts, NEW c \in Clients, NEW n \in 1 .. MaxInputs
    PROVE  LET t == Append(s, <<c, n>>)
           IN  /\ t # <<>> /\ t \in Texts
               /\ \A d \in Clients, k \in 1 .. MaxInputs :
                      In(t, d, k) <=> In(s, d, k) \/ (d = c /\ k = n)
               /\ Once(s) /\ ~In(s, c, n) => Once(t)
<1> DEFINE t == Append(s, <<c, n>>)
<1>1. <<c, n>> \in Lines /\ s \in Seq(Lines) /\ Len(s) \in Nat
  BY LenProperties DEF Lines, Texts
<1>2. /\ t \in Seq(Lines) /\ t # <<>> /\ Len(t) = Len(s) + 1 /\ t[Len(s) + 1] = <<c, n>>
      /\ \A j \in 1 .. Len(s) : t[j] = s[j]
  BY <1>1, AppendProperties
<1> HIDE DEF t
<1>3. /\ \A j \in 1 .. Len(t) : j \in 1 .. Len(s) \/ j = Len(s) + 1
      /\ \A j \in 1 .. Len(s) : j \in 1 .. Len(t)
      /\ Len(s) + 1 \in 1 .. Len(t)
  BY <1>1, <1>2
<1>4. \A d \in Clients, k \in 1 .. MaxInputs : In(t, d, k) <=> In(s, d, k) \/ (d = c /\ k = n)
  <2> TAKE d \in Clients, k \in 1 .. MaxInputs
  <2>1. In(t, d, k) => In(s, d, k) \/ (d = c /\ k = n)
    <3> SUFFICES ASSUME NEW j \in 1 .. Len(t), t[j] = <<d, k>> PROVE In(s, d, k) \/ (d = c /\ k = n)
      BY DEF In
    <3>1. CASE j \in 1 .. Len(s)
      BY <1>2, <3>1 DEF In
    <3>2. CASE j = Len(s) + 1
      BY <1>2, <3>2
    <3> QED
      BY <1>3, <3>1, <3>2
  <2>2. In(s, d, k) => In(t, d, k)
    BY <1>2, <1>3 DEF In
  <2>3. d = c /\ k = n => In(t, d, k)
    BY <1>2, <1>3 DEF In
  <2> QED
    BY <2>1, <2>2, <2>3
<1>5. Once(s) /\ ~In(s, c, n) => Once(t)
  <2> SUFFICES ASSUME Once(s), ~In(s, c, n), NEW i \in 1 .. Len(t), NEW j \in 1 .. Len(t), t[i] = t[j]
               PROVE  i = j
    BY DEF Once
  <2>1. \A k \in 1 .. Len(s) : t[k] # <<c, n>>
    BY <1>2 DEF In
  <2>2. CASE i \in 1 .. Len(s) /\ j \in 1 .. Len(s)
    BY <1>2, <2>2 DEF Once
  <2>3. CASE i = Len(s) + 1 \/ j = Len(s) + 1
    BY <1>2, <1>3, <2>1, <2>3
  <2> QED
    BY <1>3, <2>2, <2>3
<1> QED
  BY <1>2, <1>4, <1>5 DEF t, Texts

LEMMA PutLineSteady == ASSUME Typed, Steady, NEW c \in Clients, PutLine(c) PROVE Steady'
<1>1. ClientStep(c)
  BY DEF ClientStep, ChatClientSnd
<1>2. /\ spc[c] = "text" /\ spc' = [spc EXCEPT ![c] = "type"] /\ Unlock("rcv")
      /\ UNCHANGED <<mgmt_msg, msg_snd, undo, removed, cpc, rpc, id, screen, typed>>
  BY DEF PutLine, input
<1>3. cpc[c] = "chat" /\ removed = {} /\ Guarded("rcv") /\ OnePlace /\ Taking
  BY <1>2 DEF Steady, Staying, AllGuarded, Blocks
<1>4. spc'[c] = "type" /\ \A d \in Clients \ {c} : spc'[d] = spc[d]
  BY <1>2, MapsTyped
<1>5. UNCHANGED <<tpc, history>>
  BY <1>1, ClientFrame
<1>6. sem'["rcv"] = sem["rcv"] + 1 /\ sem'["mgmt"] = sem["mgmt"] /\ sem'["snd"] = sem["snd"]
  BY <1>2, <1>3, Unlocked DEF Blocks
<1>7. tpc \in {"poll", "take"} /\ ClientIn("rcv", c) /\ \A d \in Clients \ {c} : spc[d] # "text"
  <2>1. ClientIn("rcv", c)
    BY <1>2 DEF ClientIn
  <2> QED
    BY <1>3, <2>1, AloneIn DEF ServerIn, ClientIn
<1>8. Guarded("rcv")'
  BY <1>2, <1>3, <1>4, <1>5, <1>6, <1>7, ClientLeaves DEF ServerIn, ClientIn
<1>9. Joining'
  BY <1>2, <1>4, BusyAlone, NobodyJoins
<1>10. typed[c] \in 1 .. MaxInputs
  <2>1. typed[c] >= 1
    BY <1>2 DEF Typed, Within
  <2> QED
    BY <2>1, MapsTyped, BoundAssumption
<1>11. PICK t : t = Append(msg_rcv.msg, <<c, typed[c]>>)
  OBVIOUS
<1>12. msg_rcv'.id_sub = msg_rcv.id_sub /\ msg_rcv'.msg = t
  <2>1. msg_rcv' = [msg_rcv EXCEPT !.msg = t]
    BY <1>11 DEF PutLine
  <2> QED
    BY <2>1, CountsTyped
<1>13. /\ t # <<>>
       /\ \A d \in Clients, k \in 1 .. MaxInputs :
              In(t, d, k) <=> In(msg_rcv.msg, d, k) \/ (d = c /\ k = typed[c])
       /\ Once(msg_rcv.msg) /\ ~In(msg_rcv.msg, c, typed[c]) => Once(t)
  BY <1>10, <1>11, CountsTyped, AppendedLine
<1>14. msg_rcv.id_sub # 0
  BY <1>2, <1>3, <1>7 DEF Taking
<1>15. Taking'
  BY <1>3, <1>5, <1>7, <1>12, <1>13, <1>14 DEF Taking, Middle
<1>16. OnePlace'
  <2>1. \A d \in Clients, k \in 1 .. MaxInputs :
            /\ InBlock(d, k)' <=> InBlock(d, k) \/ (d = c /\ k = typed[c])
            /\ InHistory(d, k)' <=> InHistory(d, k)
    BY <1>5, <1>7, <1>12, <1>13 DEF InBlock, InHistory
  <2>2. \A d \in Clients, k \in 1 .. MaxInputs :
            WithUser(d, k) <=> WithUser(d, k)' \/ (d = c /\ k = typed[c])
    BY <1>2, <1>4 DEF WithUser
  <2>3. \A d \in Clients, k \in 1 .. MaxInputs : ~(WithUser(d, k)' /\ d = c)
    BY <1>2, <1>4 DEF WithUser
  <2>4. WithUser(c, typed[c])
    BY <1>2 DEF WithUser
  <2>5. \A d \in Clients, k \in 1 .. MaxInputs :
            /\ k <= typed[d] => WithUser(d, k) \/ InBlock(d, k) \/ InHistory(d, k)
            /\ WithUser(d, k) => ~InBlock(d, k) /\ ~InHistory(d, k)
            /\ ~(InBlock(d, k) /\ InHistory(d, k))
            /\ k > typed[d] => ~InBlock(d, k) /\ ~InHistory(d, k)
    BY <1>3 DEF OnePlace
  <2>6. Once(t)
    <3>1. ~In(msg_rcv.msg, c, typed[c])
      BY <1>7, <1>10, <2>4, <2>5 DEF InBlock
    <3> QED
      BY <1>3, <1>13, <3>1 DEF OnePlace
  <2>7. \A d \in Clients, k \in 1 .. MaxInputs :
            /\ k <= typed[d] => WithUser(d, k)' \/ InBlock(d, k)' \/ InHistory(d, k)'
            /\ WithUser(d, k)' => ~InBlock(d, k)' /\ ~InHistory(d, k)'
            /\ ~(InBlock(d, k)' /\ InHistory(d, k)')
            /\ k > typed[d] => ~InBlock(d, k)' /\ ~InHistory(d, k)'
    <3> TAKE d \in Clients, k \in 1 .. MaxInputs
    <3>1. CASE d = c /\ k = typed[c]
      <4>1. ~(k > typed[d])
        BY <1>10, <3>1, BoundAssumption
      <4> QED
        BY <2>1, <2>3, <2>4, <2>5, <3>1, <4>1
    <3>2. CASE ~(d = c /\ k = typed[c])
      BY <2>1, <2>2, <2>5, <3>2
    <3> QED
      BY <3>1, <3>2
  <2> QED
    BY <1>2, <1>3, <1>5, <1>12, <2>6, <2>7 DEF OnePlace
<1> QED
  BY <1>1, <1>2, <1>3, <1>4, <1>6, <1>8, <1>9, <1>15, <1>16, WriterSteady

LEMMA RcvInitSteady == ASSUME Typed, Steady, NEW c \in Clients, RcvInit(c) PROVE Steady'
<1>1. ClientStep(c)
  BY DEF ClientStep, ChatClientRcv
<1>2. /\ rpc[c] = "init" /\ SetVal("snd") /\ rpc' = [rpc EXCEPT ![c] = "poll"]
      /\ UNCHANGED <<mgmt_msg, msg_rcv, msg_snd, removed, cpc, spc, id, screen, typed>>
  BY DEF RcvInit, input, blocks
<1>3. cpc[c] = "chat"
  BY <1>2 DEF Steady, Staying
<1>4. rpc'[c] = "poll" /\ \A d \in Clients \ {c} : rpc'[d] = rpc[d]
  BY <1>2, MapsTyped
<1>5. /\ sem'["snd"] = 1 /\ sem'["mgmt"] = sem["mgmt"] /\ sem'["rcv"] = sem["rcv"] /\ undo' = undo
  BY <1>2, Reset DEF Blocks, SetVal
<1>6. UNCHANGED <<tpc, number_sub, number_hist, history, sub>>
  BY <1>1, ClientFrame
<1>7. /\ tpc = "poll" /\ msg_rcv.id_sub = 0 /\ msg_snd.msg = <<>>
      /\ \A d \in Clients : spc[d] \notin {"line", "text"} /\ rpc[d] \notin {"print", "wipe", "clear"}
      /\ \A d, e \in Clients : Registering(d) /\ Registering(e) => d = e
  <2>1. Registering(c)
    BY <1>2 DEF Registering
  <2> QED
    BY <2>1 DEF Steady, Joining
<1>8. \A d \in Clients : rpc'[d] \notin {"print", "wipe", "clear"}
  BY <1>4, <1>7
<1>9. Guarded("snd")'
  BY <1>5, <1>6, <1>7, <1>8 DEF Guarded, ServerIn, ClientIn
<1>10. \A d \in Clients : Registering(d)' => Registering(d)
  BY <1>2, <1>4 DEF Registering
<1>11. Joining'
  BY <1>2, <1>6, <1>7, <1>8, <1>10 DEF Joining
<1>12. Handing'
  <2>1. msg_snd.id_sub = 0
    BY <1>7 DEF Steady, Handing, Filling
  <2> QED
    BY <1>2, <1>6, <1>7, <1>8, <2>1 DEF Handing, Filling
<1>13. Delivered'
  <2>1. \A d \in Clients : ~Pending(d) /\ ~Pending(d)'
    BY <1>2, <1>7 DEF Pending
  <2> QED
    BY <1>2, <1>6, <2>1 DEF Steady, Delivered, InChat, Sent, Middle
<1> QED
  BY <1>1, <1>2, <1>3, <1>4, <1>5, <1>9, <1>11, <1>12, <1>13, ReaderSteady

\* A reader that only looks.
LEMMA LookSteady == ASSUME Typed, Steady, NEW c \in Clients, StaysOn(c) \/ Look(c) PROVE Steady'
<1>1. ClientStep(c)
  BY DEF ClientStep, ChatClientRcv
<1>2. /\ rpc[c] \in {"poll", "look"}
      /\ \/ rpc' = [rpc EXCEPT ![c] = "look"]
         \/ rpc' = [rpc EXCEPT ![c] = "poll"]
         \/ rpc' = [rpc EXCEPT ![c] = "print"] /\ msg_snd.id_sub = id[c]
      /\ UNCHANGED <<mgmt_msg, msg_rcv, msg_snd, sem, undo, removed, cpc, spc, id, screen, typed>>
  BY DEF StaysOn, Look, ForMe, input, blocks, sems
<1>3. InChat(c) /\ cpc[c] = "chat"
  BY <1>2, InChatNumbers DEF InChat
<1>4. /\ rpc'[c] \in {"poll", "look", "print"} /\ (rpc'[c] = "print" => msg_snd.id_sub = id[c])
      /\ \A d \in Clients \ {c} : rpc'[d] = rpc[d]
  BY <1>2, MapsTyped
<1>5. UNCHANGED <<tpc, number_sub, number_hist, history, sub>>
  BY <1>1, ClientFrame
<1>6. Guarded("snd") /\ Handing /\ Joining /\ Delivered
  BY DEF Steady, AllGuarded, Blocks
<1>7. \A d \in Clients : (rpc'[d] = "wipe" <=> rpc[d] = "wipe") /\ (rpc'[d] = "clear" <=> rpc[d] = "clear")
  BY <1>2, <1>4
<1>8. Guarded("snd")'
  BY <1>2, <1>5, <1>6, <1>7, SameIn DEF ServerIn, ClientIn
<1>9. rpc'[c] = "print" => msg_snd.msg # <<>> \/ Filling
  <2> SUFFICES ASSUME rpc'[c] = "print", msg_snd.msg = <<>>, ~Filling PROVE FALSE
    OBVIOUS
  <2>1. msg_snd.id_sub = id[c]
    BY <1>4
  <2>2. id[c] # 0
    <3>1. id[c] >= 1 /\ id[c] \in Nat
      BY <1>3, InChatNumbers
    <3> QED
      BY <3>1
  <2>3. PICK d \in Clients : rpc[d] = "clear"
    BY <1>6, <2>1, <2>2 DEF Handing
  <2>4. msg_snd.id_sub = id[d] /\ InChat(d)
    BY <1>6, <2>3, InChatNumbers DEF Handing
  <2>5. d = c
    BY <1>3, <2>1, <2>4, InChatNumbers
  <2> QED
    BY <1>2, <2>3, <2>5
<1>10. Joining'
  <2>1. \A d \in Clients : Registering(d)' <=> Registering(d)
    BY <1>2, <1>4 DEF Registering
  <2>2. (\E d \in Clients : Registering(d)) => rpc'[c] # "print"
    <3>1. SUFFICES ASSUME \E d \in Clients : Registering(d), rpc'[c] = "print" PROVE FALSE
      OBVIOUS
    <3>2. tpc = "poll" /\ msg_snd.msg = <<>>
      BY <1>6, <3>1 DEF Joining
    <3> QED
      BY <1>9, <3>1, <3>2 DEF Filling
  <2>3. (\E d \in Clients : Registering(d)) =>
             \A d \in Clients : spc[d] \notin {"line", "text"} /\ rpc'[d] \notin {"print", "wipe", "clear"}
    BY <1>4, <1>6, <2>2 DEF Joining
  <2> QED
    BY <1>2, <1>5, <1>6, <2>1, <2>3 DEF Joining
<1>11. Handing'
  <2>1. \A d \in Clients :
            /\ rpc'[d] \in {"print", "wipe", "clear"} => msg_snd.id_sub = id[d]
            /\ rpc'[d] = "print" => msg_snd.msg # <<>> \/ Filling
            /\ rpc'[d] = "wipe" => msg_snd.msg # <<>>
            /\ rpc'[d] = "clear" => msg_snd.msg = <<>>
    <3> TAKE d \in Clients
    <3>1. CASE d = c
      BY <1>4, <1>9, <3>1
    <3>2. CASE d # c
      BY <1>4, <1>6, <3>2 DEF Handing
    <3> QED
      BY <3>1, <3>2
  <2>2. msg_snd.msg = <<>> /\ ~Filling => msg_snd.id_sub = 0 \/ \E d \in Clients : rpc'[d] = "clear"
    BY <1>6, <1>7 DEF Handing
  <2>3. /\ tpc \in {"history id", "send id", "history text", "send text"} => msg_snd.msg = <<>>
        /\ Filling => msg_snd.id_sub = number_sub
    BY <1>6 DEF Handing
  <2>4. Filling' <=> Filling
    BY <1>5 DEF Filling
  <2> QED
    BY <1>2, <1>5, <2>1, <2>2, <2>3, <2>4 DEF Handing
<1>12. Delivered'
  <2>1. \A d \in Clients : Pending(d)' <=> Pending(d)
    BY <1>2, <1>7 DEF Pending
  <2>2. \A d \in Clients : (Sent(id[d])' = Sent(id[d])) /\ (InChat(d)' <=> InChat(d))
    BY <1>2, <1>5 DEF InChat, Sent, Middle
  <2> SUFFICES ASSUME NEW d \in Clients
               PROVE  /\ ~InChat(d)' => screen'[d] = <<>>
                      /\ InChat(d)' =>
                             /\ Len(screen'[d]) = IF Pending(d)' THEN Sent(id[d])' - 1 ELSE Sent(id[d])'
                             /\ Pending(d)' => msg_snd'.msg = history'[Sent(id[d])']
                      /\ Len(screen'[d]) <= Len(history')
                      /\ \A k \in 1 .. Len(screen'[d]) : screen'[d][k] = history'[k]
    BY DEF Delivered
  <2> QED
    BY <1>2, <1>5, <1>6, <2>1, <2>2 DEF Delivered
<1> QED
  BY <1>1, <1>2, <1>3, <1>4, <1>8, <1>10, <1>11, <1>12, ReaderSteady

LEMMA PrintSteady == ASSUME Typed, Steady, NEW c \in Clients, PrintMessage(c) PROVE Steady'
<1>1. ClientStep(c)
  BY DEF ClientStep, ChatClientRcv
<1>2. /\ rpc[c] = "print" /\ rpc' = [rpc EXCEPT ![c] = "wipe"] /\ Lock("snd")
      /\ screen' = [screen EXCEPT ![c] = Append(screen[c], msg_snd.msg)]
      /\ UNCHANGED <<mgmt_msg, msg_rcv, msg_snd, undo, removed, cpc, spc, id, typed>>
  BY DEF PrintMessage, input, blocks
<1>3. InChat(c) /\ cpc[c] = "chat"
  BY <1>2, InChatNumbers DEF InChat
<1>4. /\ rpc'[c] = "wipe" /\ \A d \in Clients \ {c} : rpc'[d] = rpc[d]
  BY <1>2, MapsTyped
<1>5. UNCHANGED <<tpc, number_sub, number_hist, history, sub>>
  BY <1>1, ClientFrame
<1>6. Guarded("snd") /\ Handing /\ Delivered /\ removed = {}
  BY DEF Steady, Staying, AllGuarded, Blocks
<1>7. /\ sem["snd"] > 0 /\ sem'["snd"] = sem["snd"] - 1
      /\ sem'["mgmt"] = sem["mgmt"] /\ sem'["rcv"] = sem["rcv"]
  BY <1>2, <1>6, Locked DEF Blocks
<1>8. ~Filling /\ \A d \in Clients : rpc[d] \notin {"wipe", "clear"}
  BY <1>6, <1>7, NobodyIn DEF ServerIn, ClientIn, Filling
<1>9. Guarded("snd")'
  <2>1. ClientIn("snd", c)' /\ \A d \in Clients \ {c} : ClientIn("snd", d)' <=> ClientIn("snd", d)
    BY <1>2, <1>4 DEF ClientIn
  <2>2. ServerIn("snd")' <=> ServerIn("snd")
    BY <1>5 DEF ServerIn
  <2> QED
    BY <1>6, <1>7, <2>1, <2>2, ClientEnters
<1>10. Joining'
  BY <1>2, <1>4, BusyAlone, NobodyJoins
<1>11. msg_snd.msg # <<>> /\ msg_snd.id_sub = id[c]
  BY <1>2, <1>6, <1>8 DEF Handing
<1>12. Handing'
  <2>1. \A d \in Clients :
            /\ rpc'[d] \in {"print", "wipe", "clear"} => msg_snd.id_sub = id[d]
            /\ rpc'[d] = "print" => msg_snd.msg # <<>>
            /\ rpc'[d] = "wipe" => msg_snd.msg # <<>>
            /\ rpc'[d] # "clear"
    <3> TAKE d \in Clients
    <3>1. CASE d = c
      BY <1>4, <1>11, <3>1
    <3>2. CASE d # c
      BY <1>4, <1>6, <1>8, <3>2 DEF Handing
    <3> QED
      BY <3>1, <3>2
  <2>2. /\ tpc \in {"history id", "send id", "history text", "send text"} => msg_snd.msg = <<>>
        /\ ~Filling'
    BY <1>5, <1>6, <1>8 DEF Handing, Filling
  <2> QED
    BY <1>2, <1>5, <1>11, <2>1, <2>2 DEF Handing
<1>13. Delivered'
  <2> SUFFICES ASSUME NEW d \in Clients
               PROVE  /\ ~InChat(d)' => screen'[d] = <<>>
                      /\ InChat(d)' =>
                             /\ Len(screen'[d]) = IF Pending(d)' THEN Sent(id[d])' - 1 ELSE Sent(id[d])'
                             /\ Pending(d)' => msg_snd'.msg = history'[Sent(id[d])']
                      /\ Len(screen'[d]) <= Len(history')
                      /\ \A k \in 1 .. Len(screen'[d]) : screen'[d][k] = history'[k]
    BY DEF Delivered
  <2>1. (Sent(id[d])' = Sent(id[d])) /\ (InChat(d)' <=> InChat(d))
    BY <1>2, <1>5 DEF InChat, Sent, Middle
  <2>2. /\ ~InChat(d) => screen[d] = <<>>
        /\ InChat(d) =>
               /\ Len(screen[d]) = IF Pending(d) THEN Sent(id[d]) - 1 ELSE Sent(id[d])
               /\ Pending(d) => msg_snd.msg = history[Sent(id[d])]
        /\ Len(screen[d]) <= Len(history)
        /\ \A k \in 1 .. Len(screen[d]) : screen[d][k] = history[k]
    BY <1>6 DEF Delivered
  <2>3. screen \in [Clients -> Seq(Texts)] /\ screen[c] \in Seq(Texts)
    BY TypeParts DEF Typed, ClientsTyped
  <2>4. CASE d # c
    <3>1. screen'[d] = screen[d] /\ (Pending(d)' <=> Pending(d))
      BY <1>2, <1>4, <2>3, <2>4 DEF Pending
    <3> QED
      BY <1>2, <1>5, <2>1, <2>2, <3>1
  <2>5. CASE d = c
    <3>1. Pending(c) /\ ~Pending(c)'
      BY <1>2, <1>4, <1>11 DEF Pending
    <3>2. /\ Sent(id[c]) \in Int /\ Sent(id[c]) <= Len(history)
          /\ Len(screen[c]) = Sent(id[c]) - 1 /\ msg_snd.msg = history[Sent(id[c])]
      BY <1>3, <2>2, <2>5, <3>1, SentWithin
    <3>3. PICK s : s = Append(screen[c], msg_snd.msg)
      OBVIOUS
    <3>4. screen'[c] = s
      BY <1>2, <2>3, <3>3
    <3>5. /\ Len(s) = Len(screen[c]) + 1 /\ s[Len(screen[c]) + 1] = msg_snd.msg
          /\ \A k \in 1 .. Len(screen[c]) : s[k] = screen[c][k]
          /\ Len(screen[c]) \in Nat
      BY <2>3, <3>3, CountsTyped, AppendProperties, LenProperties
    <3>6. Len(s) = Sent(id[c])
      BY <3>2, <3>5
    <3>7. \A k \in 1 .. Len(s) : k \in 1 .. Len(screen[c]) \/ k = Len(screen[c]) + 1
      BY <3>5
    <3>8. \A k \in 1 .. Len(s) : s[k] = history[k]
      <4> TAKE k \in 1 .. Len(s)
      <4>1. CASE k \in 1 .. Len(screen[c])
        BY <2>2, <2>5, <3>5, <4>1
      <4>2. CASE k = Len(screen[c]) + 1
        <5>1. k = Sent(id[c])
          BY <3>5, <3>6, <4>2
        <5> QED
          BY <3>2, <3>5, <4>2, <5>1
      <4> QED
        BY <3>7, <4>1, <4>2
    <3> QED
      BY <1>3, <1>5, <2>1, <2>5, <3>1, <3>2, <3>4, <3>6, <3>8
  <2> QED
    BY <2>4, <2>5
<1> QED
  BY <1>1, <1>2, <1>3, <1>4, <1>7, <1>9, <1>10, <1>12, <1>13, ReaderSteady

\* Emptying msg_snd and giving it back.
LEMMA WipeClearSteady == ASSUME Typed, Steady, NEW c \in Clients, WipeMessage(c) \/ ClearMessage(c) PROVE Steady'
<1>1. ClientStep(c)
  BY DEF ClientStep, ChatClientRcv
<1>2. /\ rpc[c] \in {"wipe", "clear"}
      /\ UNCHANGED <<mgmt_msg, msg_rcv, undo, removed, cpc, spc, id, screen, typed>>
  BY DEF WipeMessage, ClearMessage, input, sems
<1>3. InChat(c) /\ cpc[c] = "chat"
  BY <1>2, InChatNumbers DEF InChat
<1>4. UNCHANGED <<tpc, number_sub, number_hist, history, sub>>
  BY <1>1, ClientFrame
<1>5. Guarded("snd") /\ Handing /\ Delivered /\ removed = {}
  BY DEF Steady, Staying, AllGuarded, Blocks
<1>6. ClientIn("snd", c) /\ ~Filling /\ \A d \in Clients \ {c} : rpc[d] \notin {"wipe", "clear"}
  <2>1. ClientIn("snd", c)
    BY <1>2 DEF ClientIn
  <2> QED
    BY <1>5, <2>1, AloneIn DEF ServerIn, ClientIn, Filling
<1>7. \A d \in Clients : rpc[d] = "print" => d = c
  <2> SUFFICES ASSUME NEW d \in Clients, rpc[d] = "print" PROVE d = c
    OBVIOUS
  <2>1. InChat(d) /\ msg_snd.id_sub = id[d] /\ msg_snd.id_sub = id[c]
    BY <1>2, <1>5, InChatNumbers DEF Handing
  <2> QED
    BY <1>3, <2>1, InChatNumbers
<1>8. \A d \in Clients : InChat(d) => ~Pending(d)
  <2> SUFFICES ASSUME NEW d \in Clients, InChat(d), Pending(d) PROVE FALSE
    OBVIOUS
  <2>1. msg_snd.id_sub = id[c]
    BY <1>2, <1>5 DEF Handing
  <2>2. d = c
    BY <1>3, <2>1, InChatNumbers DEF Pending
  <2> QED
    BY <1>2, <1>5, <2>2 DEF Handing, Pending
<1>9. \A d \in Clients : (Sent(id[d])' = Sent(id[d])) /\ (InChat(d)' <=> InChat(d))
  BY <1>2, <1>4 DEF InChat, Sent, Middle
<1>10. ASSUME msg_snd'.msg = <<>> PROVE Delivered'
  <2> SUFFICES ASSUME NEW d \in Clients
               PROVE  /\ ~InChat(d)' => screen'[d] = <<>>
                      /\ InChat(d)' =>
                             /\ Len(screen'[d]) = IF Pending(d)' THEN Sent(id[d])' - 1 ELSE Sent(id[d])'
                             /\ Pending(d)' => msg_snd'.msg = history'[Sent(id[d])']
                      /\ Len(screen'[d]) <= Len(history')
                      /\ \A k \in 1 .. Len(screen'[d]) : screen'[d][k] = history'[k]
    BY DEF Delivered
  <2>1. ~Pending(d)'
    BY <1>10 DEF Pending
  <2> QED
    BY <1>2, <1>4, <1>5, <1>8, <1>9, <2>1 DEF Delivered
<1>11. CASE WipeMessage(c)
  <2>1. rpc[c] = "wipe" /\ rpc' = [rpc EXCEPT ![c] = "clear"] /\ sem' = sem
    BY <1>11 DEF WipeMessage, sems
  <2>2. rpc'[c] = "clear" /\ \A d \in Clients \ {c} : rpc'[d] = rpc[d]
    BY <2>1, MapsTyped
  <2>3. msg_snd'.id_sub = msg_snd.id_sub /\ msg_snd'.msg = <<>>
    <3>1. msg_snd' = [msg_snd EXCEPT !.msg = <<>>]
      BY <1>11 DEF WipeMessage, WipedText
    <3> QED
      BY <3>1, CountsTyped
  <2>4. Guarded("snd")'
    <3>1. \A d \in Clients : ClientIn("snd", d)' <=> ClientIn("snd", d)
      BY <1>2, <2>2 DEF ClientIn
    <3>2. ServerIn("snd")' <=> ServerIn("snd")
      BY <1>4 DEF ServerIn
    <3> QED
      BY <1>5, <2>1, <3>1, <3>2, SameIn
  <2>5. Joining'
    BY <1>2, <2>2, BusyAlone, NobodyJoins
  <2>6. Handing'
    <3>1. \A d \in Clients :
              /\ rpc'[d] \in {"print", "wipe", "clear"} => msg_snd.id_sub = id[d]
              /\ rpc'[d] \notin {"print", "wipe"}
      <4> TAKE d \in Clients
      <4>1. CASE d = c
        BY <1>2, <1>5, <2>2, <4>1 DEF Handing
      <4>2. CASE d # c
        BY <1>6, <1>7, <2>2, <4>2
      <4> QED
        BY <4>1, <4>2
    <3>2. ~Filling'
      BY <1>4, <1>6 DEF Filling
    <3> QED
      BY <1>2, <2>2, <2>3, <3>1, <3>2 DEF Handing
  <2> QED
    BY <1>1, <1>2, <1>3, <1>10, <2>1, <2>2, <2>3, <2>4, <2>5, <2>6, ReaderSteady
<1>12. CASE ClearMessage(c)
  <2>1. rpc[c] = "clear" /\ rpc' = [rpc EXCEPT ![c] = "poll"] /\ Unlock("snd")
    BY <1>12 DEF ClearMessage
  <2>2. rpc'[c] = "poll" /\ \A d \in Clients \ {c} : rpc'[d] = rpc[d]
    BY <2>1, MapsTyped
  <2>3. msg_snd.msg = <<>>
    BY <1>5, <2>1 DEF Handing
  <2>4. msg_snd'.id_sub = 0 /\ msg_snd'.msg = <<>>
    <3>1. msg_snd' = [msg_snd EXCEPT !.id_sub = 0]
      BY <1>12 DEF ClearMessage, ClearedId
    <3> QED
      BY <2>3, <3>1, CountsTyped
  <2>5. sem'["snd"] = sem["snd"] + 1 /\ sem'["mgmt"] = sem["mgmt"] /\ sem'["rcv"] = sem["rcv"]
    BY <1>5, <2>1, Unlocked DEF Blocks
  <2>6. Guarded("snd")'
    <3>1. ~ClientIn("snd", c)' /\ \A d \in Clients \ {c} : ClientIn("snd", d)' <=> ClientIn("snd", d)
      BY <1>2, <2>2 DEF ClientIn
    <3>2. ServerIn("snd")' <=> ServerIn("snd")
      BY <1>4 DEF ServerIn
    <3> QED
      BY <1>5, <1>6, <2>5, <3>1, <3>2, ClientLeaves
  <2>7. Joining'
    BY <1>2, <2>2, BusyAlone, NobodyJoins
  <2>8. Handing'
    <3>1. \A d \in Clients : rpc'[d] \notin {"print", "wipe", "clear"}
      <4> TAKE d \in Clients
      <4>1. CASE d = c
        BY <2>2, <4>1
      <4>2. CASE d # c
        BY <1>6, <1>7, <2>2, <4>2
      <4> QED
        BY <4>1, <4>2
    <3>2. ~Filling'
      BY <1>4, <1>6 DEF Filling
    <3> QED
      BY <2>4, <3>1, <3>2 DEF Handing
  <2> QED
    BY <1>1, <1>2, <1>3, <1>10, <2>2, <2>4, <2>5, <2>6, <2>7, <2>8, ReaderSteady
<1> QED
  BY <1>11, <1>12

LEMMA ClientSteady == ASSUME Typed, Steady, NEW c \in Clients, CalmClient(c) PROVE Steady'
BY StartSteady, CrashSteady, LeaveNameSteady, NamedSteady, AnswerSteady, TakeIdSteady, IdTakenSteady,
   SndInitSteady, TypeSteady, LockLineSteady, PutLineSteady,
   RcvInitSteady, LookSteady, PrintSteady, WipeClearSteady DEF CalmClient

-----------------------------------------------------------------------------
(* The theorems.                                                            *)

LEMMA InitSteady == Init => Steady
<1> SUFFICES ASSUME Init PROVE Steady
  OBVIOUS
<1>1. /\ mpc = "poll" /\ slot = 1 /\ count_sub = 0 /\ tpc = "poll" /\ history = <<>> /\ sub = <<>>
      /\ mgmt_msg.id_sub = 0 /\ mgmt_msg.msg = "empty" /\ msg_rcv.id_sub = 0 /\ msg_rcv.msg = <<>>
      /\ msg_snd.id_sub = 0 /\ msg_snd.msg = <<>> /\ removed = {}
      /\ \A b \in Blocks : sem[b] = 1
      /\ \A c \in Clients : /\ undo[c] = 0 /\ cpc[c] = "off" /\ spc[c] = "off" /\ rpc[c] = "off"
                            /\ typed[c] = 0 /\ screen[c] = <<>>
  BY DEF Init
<1>2. /\ Len(<<>>) = 0 /\ \A k \in 1 .. Len(<<>>) : FALSE
  <2>1. Len(<<>>) = 0
    OBVIOUS
  <2> QED
    BY <2>1
<1>3. Staying
  BY <1>1 DEF Staying
<1>4. AllGuarded
  BY <1>1 DEF AllGuarded, Guarded, ServerIn, ClientIn
<1>5. Joining /\ Exchange
  BY <1>1 DEF Joining, Registering, Exchange, Idle
<1>6. Numbered
  BY <1>1, <1>2 DEF Numbered
<1>7. Taking
  BY <1>1, <1>2 DEF Taking, Middle
<1>8. Handing /\ Serving
  BY <1>1 DEF Handing, Filling, Serving
<1>9. Delivered
  BY <1>1, <1>2 DEF Delivered, InChat
<1>10. OnePlace
  <2>1. Once(<<>>) /\ \A c, k : ~In(<<>>, c, k)
    BY <1>2 DEF Once, In
  <2>2. \A c \in Clients, k \in 1 .. MaxInputs :
            ~WithUser(c, k) /\ ~InBlock(c, k) /\ ~InHistory(c, k) /\ ~(k <= typed[c])
    <3> TAKE c \in Clients, k \in 1 .. MaxInputs
    <3>1. ~(k <= 0)
      BY BoundAssumption
    <3> QED
      BY <1>1, <1>2, <2>1, <3>1 DEF WithUser, InBlock, InHistory
  <2> QED
    BY <1>1, <1>2, <2>1, <2>2 DEF OnePlace
<1> QED
  BY <1>3, <1>4, <1>5, <1>6, <1>7, <1>8, <1>9, <1>10 DEF Steady

LEMMA SteadyStutters == Steady /\ UNCHANGED vars => Steady'
<1> SUFFICES ASSUME Steady, UNCHANGED vars PROVE Steady'
  OBVIOUS
<1>1. UNCHANGED <<server, blocks, sems, clientVars>>
  BY DEF vars
<1>2. UNCHANGED <<mpc, slot, count_sub, tpc, number_sub, number_hist, history, sub>>
  BY <1>1 DEF server, mgmtVars, chatVars, walk
<1>3. UNCHANGED <<mgmt_msg, msg_rcv, msg_snd, sem, removed, undo>>
  BY <1>1 DEF blocks, sems
<1>4. UNCHANGED <<cpc, spc, rpc, id, screen, typed>>
  BY <1>1 DEF clientVars, input
<1>5. Staying' /\ Numbered' /\ Serving'
  BY <1>2, <1>3, <1>4 DEF Steady, Staying, Numbered, Serving
<1>6. AllGuarded'
  <2>1. \A b : \A c \in Clients : ClientIn(b, c)' <=> ClientIn(b, c)
    BY <1>4 DEF ClientIn
  <2>2. \A b : ServerIn(b)' <=> ServerIn(b)
    BY <1>2 DEF ServerIn
  <2>3. AllGuarded
    BY DEF Steady
  <2> QED
    BY <1>3, <2>1, <2>2, <2>3 DEF AllGuarded, Guarded
<1>7. Joining' /\ Exchange'
  BY <1>2, <1>3, <1>4 DEF Steady, Joining, Registering, Exchange, Idle, Asks, Answers
<1>8. Taking' /\ Handing'
  BY <1>2, <1>3, <1>4 DEF Steady, Taking, Middle, Handing, Filling
<1>9. Delivered'
  BY <1>2, <1>3, <1>4 DEF Steady, Delivered, InChat, Pending, Sent, Middle
<1>10. OnePlace'
  BY <1>2, <1>3, <1>4 DEF Steady, OnePlace, WithUser, InBlock, InHistory
<1> QED
  BY <1>5, <1>6, <1>7, <1>8, <1>9, <1>10 DEF Steady

LEMMA NextCalm == Typed /\ Calm /\ [Next]_vars => Calm'
<1> SUFFICES ASSUME Typed, Calm, [Next]_vars, calm' = "yes" PROVE Steady'
  BY DEF Calm
<1>1. CASE UNCHANGED vars
  <2>1. calm' = calm
    BY <1>1 DEF vars, clientVars, input
  <2> QED
    BY <1>1, <2>1, SteadyStutters DEF Calm
<1>2. CASE Next
  <2>1. Steady
    BY <1>2, CalmBefore DEF Calm
  <2>2. CalmMgmt \/ CalmChat \/ \E c \in Clients : CalmClient(c)
    BY <1>2, <2>1, CalmSteps
  <2> QED
    BY <2>1, <2>2, MgmtSteady, ChatSteady, ClientSteady
<1> QED
  BY <1>1, <1>2

LEMMA AlwaysCalm == Spec => [](Typed /\ Calm)
<1>1. Init => Typed /\ Calm
  BY InitTyped, InitSteady DEF Calm
<1>2. Typed /\ Calm /\ [Next]_vars => (Typed /\ Calm)'
  BY NextTyped, NextCalm
<1> QED
  BY <1>1, <1>2, PTL DEF Spec

\* As long as the chat is calm, each client in it has an id of its own, although
\* the ids are handed out through one block (func.c:53-66, 279-286).
THEOREM IdsApart == Spec => []OwnIds
<1>1. Typed /\ Calm => OwnIds
  BY InChatNumbers DEF Calm, OwnIds
<1> QED
  BY <1>1, AlwaysCalm, PTL

\* As long as the chat is calm, one thread at a time is inside each block, although
\* every client that starts sets the semaphores to 1 (func.c:206, 219, 309, 358).
THEOREM OneInside == Spec => []BlocksGuarded
<1>1. Typed /\ Calm => BlocksGuarded
  <2> SUFFICES ASSUME Typed, Steady, NEW b \in Blocks PROVE Holders(b) + sem[b] = 1
    BY DEF Calm, BlocksGuarded
  <2>1. Guarded(b) /\ Staying
    BY DEF Steady, AllGuarded
  <2> DEFINE atServer ==
                 \/ b = "mgmt" /\ mpc \in {"wipe", "deleted"}
                 \/ b = "rcv" /\ tpc \notin {"poll", "take", "done"}
                 \/ b = "snd" /\ tpc \in {"history text", "send text"}
             atClient(c) ==
                 \/ b = "mgmt" /\ cpc[c] \in {"named", "taken", "exiting"}
                 \/ b = "rcv" /\ spc[c] = "text"
                 \/ b = "snd" /\ rpc[c] \in {"wipe", "clear"}
             inside == {c \in Clients : atClient(c)}
  <2>2. Holders(b) = Cardinality(inside) + (IF atServer THEN 1 ELSE 0)
    BY DEF Holders
  <2>3. (atServer <=> ServerIn(b)) /\ \A c \in Clients : atClient(c) <=> ClientIn(b, c)
    BY <2>1 DEF Staying, ServerIn, ClientIn
  <2>4. inside = {c \in Clients : ClientIn(b, c)}
    BY <2>3
  <2> HIDE DEF atServer, atClient, inside
  <2>5. CASE \A c \in Clients : ~ClientIn(b, c)
    <3>1. Cardinality(inside) = 0
      BY <2>4, <2>5, FS_EmptySet
    <3>2. sem[b] = IF atServer THEN 0 ELSE 1
      BY <2>1, <2>3, <2>5 DEF Guarded
    <3> QED
      BY <2>2, <3>1, <3>2
  <2>6. CASE \E c \in Clients : ClientIn(b, c)
    <3>1. PICK c \in Clients : ClientIn(b, c)
      BY <2>6
    <3>2. sem[b] = 0 /\ ~ServerIn(b) /\ \A d \in Clients \ {c} : ~ClientIn(b, d)
      BY <2>1, <3>1, AloneIn
    <3>3. inside = {c}
      BY <2>4, <3>1, <3>2
    <3>4. Cardinality(inside) = 1
      BY <3>3, FS_Singleton
    <3> QED
      BY <2>2, <2>3, <3>2, <3>4
  <2> QED
    BY <2>5, <2>6
<1> QED
  BY <1>1, AlwaysCalm, PTL

\* As long as the chat is calm, what a client has printed is the beginning of
\* history[], nothing skipped and nothing twice (func.c:210-237, 356-364).
THEOREM HistoryInOrder == Spec => []InOrder
<1>1. Typed /\ Calm => InOrder
  <2> SUFFICES ASSUME Typed, Steady, NEW c \in Clients
               PROVE  Len(screen[c]) <= Len(history) /\ screen[c] = SubSeq(history, 1, Len(screen[c]))
    BY DEF Calm, InOrder
  <2>1. Len(screen[c]) <= Len(history) /\ \A k \in 1 .. Len(screen[c]) : screen[c][k] = history[k]
    BY DEF Steady, Delivered
  <2>2. screen[c] \in Seq(Texts) /\ Len(screen[c]) \in Nat /\ history \in Seq(Texts) /\ Len(history) \in Nat
    <3>1. screen[c] \in Seq(Texts)
      BY TypeParts DEF Typed, ClientsTyped
    <3> QED
      BY <3>1, CountsTyped, LenProperties
  <2>3. PICK n \in Nat : n = Len(screen[c]) /\ n <= Len(history)
    BY <2>1, <2>2
  <2>4. /\ SubSeq(history, 1, n) \in Seq(Texts) /\ Len(SubSeq(history, 1, n)) = n
        /\ \A k \in 1 .. n : SubSeq(history, 1, n)[k] = history[k]
    <3>1. \A k \in 1 .. n : k \in 1 .. Len(history) /\ 1 + k - 1 = k
      BY <2>2, <2>3
    <3>2. \A k \in 1 .. n : history[k] \in Texts
      BY <2>2, <3>1, ElementOfSeq
    <3> QED
      BY <2>2, <2>3, <3>1, <3>2
  <2>5. screen[c] = SubSeq(history, 1, n)
    BY <2>1, <2>2, <2>3, <2>4, SeqEqual
  <2> QED
    BY <2>1, <2>3, <2>5
<1> QED
  BY <1>1, AlwaysCalm, PTL

LEMMA Places ==
    ASSUME NEW s \in Texts, Once(s), NEW c, NEW k
    PROVE  Cardinality({i \in DOMAIN s : s[i] = <<c, k>>}) = IF In(s, c, k) THEN 1 ELSE 0
<1>1. DOMAIN s = 1 .. Len(s)
  BY LenProperties DEF Texts
<1>2. CASE In(s, c, k)
  <2>1. PICK i \in 1 .. Len(s) : s[i] = <<c, k>>
    BY <1>2 DEF In
  <2>2. {j \in DOMAIN s : s[j] = <<c, k>>} = {i}
    BY <1>1, <2>1 DEF Once
  <2> QED
    BY <1>2, <2>2, FS_Singleton
<1>3. CASE ~In(s, c, k)
  <2>1. {j \in DOMAIN s : s[j] = <<c, k>>} = {}
    BY <1>1, <1>3 DEF In
  <2> QED
    BY <1>3, <2>1, FS_EmptySet
<1> QED
  BY <1>2, <1>3

LEMMA CalmLine == Typed /\ Calm => LineInOnePlace
<1> SUFFICES ASSUME Typed, Steady, NEW c \in Clients, NEW k \in 1 .. typed[c]
             PROVE  LET line == <<c, k>>
                        places(s) == Cardinality({i \in DOMAIN s : s[i] = line})
                        taken == {i \in DOMAIN history : places(history[i]) > 0}
                        withUser == k = typed[c] /\ spc[c] \in {"line", "text"}
                    IN /\ \A i \in taken : places(history[i]) = 1
                       /\ Cardinality(taken)
                          + (IF tpc \in {"poll", "take"} THEN places(msg_rcv.msg) ELSE 0)
                          + (IF withUser THEN 1 ELSE 0) = 1
  BY DEF Calm, LineInOnePlace
<1> DEFINE places(s) == Cardinality({i \in DOMAIN s : s[i] = <<c, k>>})
           taken == {i \in DOMAIN history : places(history[i]) > 0}
<1>1. k \in 1 .. MaxInputs /\ k <= typed[c]
  BY MapsTyped, BoundAssumption
<1>2. history \in Seq(Texts) /\ DOMAIN history = 1 .. Len(history) /\ msg_rcv.msg \in Texts
  BY CountsTyped, LenProperties
<1>3. OnePlace
  BY DEF Steady
<1>4. places(msg_rcv.msg) = IF In(msg_rcv.msg, c, k) THEN 1 ELSE 0
  BY <1>2, <1>3, Places DEF OnePlace
<1>5. \A i \in 1 .. Len(history) : places(history[i]) = IF In(history[i], c, k) THEN 1 ELSE 0
  <2> TAKE i \in 1 .. Len(history)
  <2>1. history[i] \in Texts /\ Once(history[i])
    BY <1>2, <1>3, ElementOfSeq DEF OnePlace
  <2> QED
    BY <2>1, Places
<1> HIDE DEF places
<1>6. taken = {i \in 1 .. Len(history) : In(history[i], c, k)}
  BY <1>2, <1>5
<1>7. \A i \in taken : places(history[i]) = 1
  BY <1>5, <1>6
<1>8. Cardinality(taken) = IF InHistory(c, k) THEN 1 ELSE 0
  <2>1. CASE InHistory(c, k)
    <3>1. PICK i \in 1 .. Len(history) : In(history[i], c, k)
      BY <2>1 DEF InHistory
    <3>2. taken = {i}
      BY <1>1, <1>3, <1>6, <3>1 DEF OnePlace
    <3> QED
      BY <2>1, <3>2, FS_Singleton
  <2>2. CASE ~InHistory(c, k)
    <3>1. taken = {}
      BY <1>6, <2>2 DEF InHistory
    <3> QED
      BY <2>2, <3>1, FS_EmptySet
  <2> QED
    BY <2>1, <2>2
<1>9. (IF tpc \in {"poll", "take"} THEN places(msg_rcv.msg) ELSE 0) = IF InBlock(c, k) THEN 1 ELSE 0
  BY <1>4 DEF InBlock
<1>10. /\ WithUser(c, k) \/ InBlock(c, k) \/ InHistory(c, k)
       /\ WithUser(c, k) => ~InBlock(c, k) /\ ~InHistory(c, k)
       /\ ~(InBlock(c, k) /\ InHistory(c, k))
  BY <1>1, <1>3 DEF OnePlace
<1> HIDE DEF taken
<1>11. Cardinality(taken) + (IF tpc \in {"poll", "take"} THEN places(msg_rcv.msg) ELSE 0)
       + (IF WithUser(c, k) THEN 1 ELSE 0) = 1
  BY <1>8, <1>9, <1>10
<1> QED
  BY <1>7, <1>11 DEF WithUser, taken, places

\* As long as the chat is calm, a line that was typed is with its user, in the block
\* or in history[], in one of them and once (func.c:206-208, 239-241, 309-315).
THEOREM LineStays == Spec => []LineInOnePlace
<1>1. Typed /\ Calm => LineInOnePlace
  BY CalmLine
<1> QED
  BY <1>1, AlwaysCalm, PTL

=============================================================================
