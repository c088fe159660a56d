-------------------------- MODULE MsgChatProofs --------------------------
(***************************************************************************)
(* Theorems of MsgChat, for every number of clients, places, lines and     *)
(* every length of the queues.  Typed says what the code never breaks;     *)
(* Orderly and Calm say what holds until a message reaches the wrong one   *)
(* or somebody leaves out of turn, and until anybody leaves at all.        *)
(***************************************************************************)
EXTENDS MsgChat, FiniteSetTheorems, SequenceTheorems, WellFoundedInduction, TLAPS

-----------------------------------------------------------------------------
(* The type invariant.                                                      *)

\* The receivers in the kernel's list are those that are blocked, and nobody
\* is blocked while there is a message.
Blocked ==
    /\ \A i \in 1 .. Len(waiting) : pc[waiting[i]] = "waits"
    /\ \A i, j \in 1 .. Len(waiting) : waiting[i] = waiting[j] => i = j
    /\ \A p \in Procs : pc[p] = "waits" => \E i \in 1 .. Len(waiting) : waiting[i] = p
    /\ waiting # <<>> => mgmt_msg = <<>>

\* The places of sub[] that have a name.
Named == {i \in 1 .. Len(sub) : sub[i].name # "null"}

\* There are no more subscribers than names: an exit takes away one name at most,
\* and a new subscriber that finds no place finds a name in each.
Counted ==
    /\ pc["server"] # "overflow" => count <= Cardinality(Named)
    /\ pc["server"] = "overflow" => message_mgmt["server"].kind # "exit"

\* mgmt_thread fills an entry of sub[] that exists, for a message that names somebody.
Filling ==
    pc["server"] \in {"entry", "id", "new"} =>
        /\ slot \in 1 .. Len(sub)
        /\ message_mgmt["server"].kind \in {"name", "id"}
        /\ pc["server"] # "new" => sub[slot].name = "unset"
        /\ pc["server"] = "new" => sub[slot].name \in Clients \cup {"digit"}

\* chat_server stays within sub[] and history[].
WithinBounds ==
    /\ tpc # "wait" => history # <<>> /\ number_sub \in 1 .. Len(sub) + 1
    /\ tpc \in {"test", "hist", "last"} => number_sub <= Len(sub)
    /\ tpc = "hist" => number_hist \in 1 .. Len(history) + 1
    /\ Len(history) + Len(text_rcv) + toType <= MaxLines

-----------------------------------------------------------------------------
(* Ids.                                                                     *)

\* c may take i for its id.
Registered(c, i) == i \in 1 .. count /\ i <= Len(sub) /\ sub[i].name = c /\ sub[i].id = i

\* The first count entries are the subscribers, and each has its place as its id.
InPlace ==
    pc["server"] # "overflow" =>
        /\ count <= Len(sub)
        /\ \A i \in 1 .. Len(sub) :
               /\ sub[i].name = "null" <=> i > count
               /\ i <= count => sub[i].id = i \/ (pc["server"] = "entry" /\ i = slot)
        /\ pc["server"] \in {"entry", "id", "new"} => slot = count

\* A message is for the server if it names somebody, and carries the id of the one
\* it is for otherwise; nobody's exit waits in the queue.
Addressed ==
    /\ \A k \in 1 .. Len(mgmt_msg) :
           \/ mgmt_msg[k].kind = "name"
           \/ mgmt_msg[k].kind = "id" /\ Registered(mgmt_msg[k].who, mgmt_msg[k].id)
    /\ \A c \in Clients : InChat(c) =>
           message_mgmt[c].kind = "id" /\ Registered(c, message_mgmt[c].id)

\* The server is told of one exit at a time, that of the last subscriber.
ExitInTurn ==
    LET m == message_mgmt["server"]
    IN  /\ pc["server"] \in {"got", "entry", "id", "new"} => m.kind \in {"name", "exit"}
        /\ pc["server"] = "got" /\ m.kind = "exit" =>
               /\ m.id = count /\ count > 0 /\ sub[count].name = m.who /\ pc[m.who] = "left"
               /\ \A k \in 1 .. Len(mgmt_msg) : mgmt_msg[k].kind = "name"

Orderly == orderly = "yes" => InPlace /\ Addressed /\ ExitInTurn

-----------------------------------------------------------------------------
(* Facts about numbers and sequences.                                       *)

\* Every set of natural numbers that is not empty has a least element.
LEMMA LeastElement ==
    ASSUME NEW S, S \subseteq Nat, S # {}
    PROVE  \E i \in S : \A j \in S : i <= j
<1> DEFINE R == {ss \in Nat \X Nat : ss[1] < ss[2]}
<1>1. IsWellFoundedOn(R, Nat)
  BY NatLessThanWellFounded DEF OpToRel
<1> HIDE DEF R
<1>2. PICK i \in S : \A j \in S : ~ (<<j, i>> \in R)
  BY <1>1, WFMin
<1>3. ASSUME NEW j \in S PROVE i <= j
  <2>1. <<j, i>> \in Nat \X Nat /\ i \in Nat /\ j \in Nat
    OBVIOUS
  <2>2. ~ (j < i)
    BY <1>2, <2>1 DEF R
  <2> QED
    BY <2>1, <2>2
<1> QED
  BY <1>3

\* So First chooses the least of a set of places.
LEMMA FirstIsLeast ==
    ASSUME NEW S, S \subseteq Nat, S # {}
    PROVE  First(S) \in S /\ \A j \in S : First(S) <= j
BY LeastElement DEF First

\* What is left of a sequence when its element i is taken out, as PrintLine does.
LEMMA TakenOut ==
    ASSUME NEW T, NEW s \in Seq(T), NEW i \in 1 .. Len(s)
    PROVE  LET t == SubSeq(s, 1, i - 1) \o SubSeq(s, i + 1, Len(s))
           IN  /\ t \in Seq(T) /\ Len(t) = Len(s) - 1
               /\ \A j \in 1 .. Len(t) : t[j] = IF j < i THEN s[j] ELSE s[j + 1]
<1> DEFINE a == SubSeq(s, 1, i - 1)
           b == SubSeq(s, i + 1, Len(s))
           t == a \o b
<1>1. \A j \in 1 .. Len(s) : s[j] \in T
  BY ElementOfSeq
<1>2. Len(s) \in Nat /\ i \in Nat
  BY LenProperties
<1>3. /\ a \in Seq(T) /\ Len(a) = i - 1
      /\ \A j \in 1 .. i - 1 : a[j] = s[j]
  <2>1. i - 1 \in Int /\ \A j \in 1 .. i - 1 : s[j] \in T
    BY <1>1, <1>2
  <2>2. /\ a \in Seq(T) /\ Len(a) = IF 1 <= i - 1 THEN (i - 1) - 1 + 1 ELSE 0
        /\ \A j \in 1 .. (i - 1) - 1 + 1 : a[j] = s[1 + j - 1]
    BY <2>1, SubSeqProperties
  <2> HIDE DEF a
  <2> QED
    BY <1>2, <2>2
<1>4. /\ b \in Seq(T) /\ Len(b) = Len(s) - i
      /\ \A j \in 1 .. Len(s) - i : b[j] = s[i + j]
  <2>1. i + 1 \in Int /\ Len(s) \in Int /\ \A j \in i + 1 .. Len(s) : s[j] \in T
    BY <1>1, <1>2
  <2>2. /\ b \in Seq(T)
        /\ Len(b) = IF i + 1 <= Len(s) THEN Len(s) - (i + 1) + 1 ELSE 0
        /\ \A j \in 1 .. Len(s) - (i + 1) + 1 : b[j] = s[(i + 1) + j - 1]
    BY <2>1, SubSeqProperties
  <2> HIDE DEF b
  <2> QED
    BY <1>2, <2>2
<1> HIDE DEF a, b
<1>6. /\ t \in Seq(T) /\ Len(t) = Len(a) + Len(b)
      /\ \A j \in 1 .. Len(a) + Len(b) : t[j] = IF j <= Len(a) THEN a[j] ELSE b[j - Len(a)]
  BY <1>3, <1>4, ConcatProperties
<1> HIDE DEF t
<1>7. t \in Seq(T) /\ Len(t) = Len(s) - 1
  BY <1>2, <1>3, <1>4, <1>6
<1>8. ASSUME NEW j \in 1 .. Len(t) PROVE t[j] = IF j < i THEN s[j] ELSE s[j + 1]
  <2>1. j \in 1 .. Len(a) + Len(b) /\ Len(a) = i - 1 /\ Len(b) = Len(s) - i
    BY <1>2, <1>3, <1>4, <1>7
  <2>2. t[j] = IF j <= Len(a) THEN a[j] ELSE b[j - Len(a)]
    BY <1>6, <2>1
  <2>3. CASE j < i
    BY <1>2, <1>3, <2>1, <2>2, <2>3
  <2>4. CASE j >= i
    <3>1. j - (i - 1) \in 1 .. Len(s) - i /\ i + (j - (i - 1)) = j + 1
      BY <1>2, <1>7, <2>4
    <3>2. b[j - (i - 1)] = s[j + 1]
      BY <1>4, <3>1
    <3> QED
      BY <1>2, <2>1, <2>2, <2>4, <3>2
  <2> QED
    BY <1>2, <1>7, <2>3, <2>4
<1> QED
  BY <1>7, <1>8 DEF t, a, b

-----------------------------------------------------------------------------
(* The common queue.                                                        *)

Pcs == {"ask", "waits", "got", "entry", "id", "new", "ended", "crashed",
        "overflow", "off", "away", "sent", "left", "died"}

\* The types of the common queue and its users.
QueueTyped ==
    /\ pc \in [Procs -> Pcs] /\ message_mgmt \in [Procs -> Messages]
    /\ mgmt_msg \in Seq(Messages) /\ waiting \in Seq(Procs)

LEMMA QueueTypes == TypeOK => QueueTyped
BY DEF TypeOK, QueueTyped, Pcs

\* Whoever has waited longest.
LEMMA LongestWaiting ==
    ASSUME QueueTyped, Blocked, waiting # <<>>
    PROVE  /\ Head(waiting) \in Procs /\ pc[Head(waiting)] = "waits"
           /\ mgmt_msg = <<>>
           /\ Tail(waiting) \in Seq(Procs) /\ Len(Tail(waiting)) = Len(waiting) - 1
           /\ \A i \in 1 .. Len(Tail(waiting)) :
                  /\ Tail(waiting)[i] = waiting[i + 1]
                  /\ waiting[i + 1] \in Procs /\ waiting[i + 1] # Head(waiting)
           /\ Head(waiting) = waiting[1] /\ Len(waiting) \in Nat \ {0}
<1>1. /\ Head(waiting) \in Procs /\ Head(waiting) = waiting[1] /\ Len(waiting) \in Nat \ {0}
      /\ Tail(waiting) \in Seq(Procs) /\ Len(Tail(waiting)) = Len(waiting) - 1
      /\ \A i \in 1 .. Len(Tail(waiting)) : Tail(waiting)[i] = waiting[i + 1]
  BY HeadTailProperties, EmptySeq DEF QueueTyped
<1>2. ASSUME NEW i \in 1 .. Len(Tail(waiting))
      PROVE  waiting[i + 1] \in Procs /\ waiting[i + 1] # waiting[1]
  <2>1. i + 1 \in 1 .. Len(waiting) /\ 1 \in 1 .. Len(waiting) /\ i + 1 # 1
    BY <1>1
  <2> QED
    BY <2>1, ElementOfSeq DEF QueueTyped, Blocked
<1> QED
  BY <1>1, <1>2 DEF Blocked

\* A message sent goes to whoever has waited longest, and is kept if nobody waits.
LEMMA SendEffect ==
    ASSUME QueueTyped, Blocked, NEW box \in [Procs -> Messages], NEW p \in Procs, pc[p] # "waits",
           NEW next \in {"sent", "ask", "crashed", "left"}, NEW m \in Messages,
           SendFrom(box, p, next, m)
    PROVE  /\ pc'[p] = next
           /\ waiting = <<>> =>
                  /\ waiting' = <<>> /\ mgmt_msg' = Append(mgmt_msg, m) /\ message_mgmt' = box
                  /\ \A q \in Procs \ {p} : pc'[q] = pc[q]
           /\ waiting # <<>> =>
                  /\ waiting' = Tail(waiting) /\ mgmt_msg' = <<>> /\ mgmt_msg = <<>>
                  /\ Head(waiting) \in Procs \ {p} /\ pc[Head(waiting)] = "waits"
                  /\ pc'[Head(waiting)] = "got" /\ message_mgmt'[Head(waiting)] = m
                  /\ \A q \in Procs \ {p, Head(waiting)} : pc'[q] = pc[q]
                  /\ \A q \in Procs \ {Head(waiting)} : message_mgmt'[q] = box[q]
<1>1. CASE waiting = <<>>
  BY <1>1 DEF SendFrom, QueueTyped
<1>2. CASE waiting # <<>>
  <2>1. Head(waiting) \in Procs \ {p} /\ pc[Head(waiting)] = "waits" /\ mgmt_msg = <<>>
    BY <1>2, LongestWaiting
  <2>2. /\ pc' = [pc EXCEPT ![p] = next, ![Head(waiting)] = "got"]
        /\ message_mgmt' = [box EXCEPT ![Head(waiting)] = m]
        /\ waiting' = Tail(waiting) /\ mgmt_msg' = mgmt_msg
    BY <1>2 DEF SendFrom
  <2> QED
    BY <1>2, <2>1, <2>2 DEF QueueTyped
<1> QED
  BY <1>1, <1>2

LEMMA SendTypes ==
    ASSUME QueueTyped, Blocked, NEW box \in [Procs -> Messages], NEW p \in Procs, pc[p] # "waits",
           NEW next \in {"sent", "ask", "crashed", "left"}, NEW m \in Messages,
           SendFrom(box, p, next, m)
    PROVE  QueueTyped' /\ Blocked'
<1>1. CASE waiting = <<>>
  <2>1. /\ pc' = [pc EXCEPT ![p] = next] /\ mgmt_msg' = Append(mgmt_msg, m)
        /\ message_mgmt' = box /\ waiting' = <<>>
    BY <1>1 DEF SendFrom
  <2>2. QueueTyped'
    BY <2>1, AppendProperties DEF QueueTyped, Pcs
  <2>3. \A q \in Procs : pc'[q] # "waits"
    BY <1>1, <2>1 DEF Blocked, QueueTyped
  <2> QED
    BY <2>1, <2>2, <2>3 DEF Blocked
<1>2. CASE waiting # <<>>
  <2> DEFINE h == Head(waiting)
  <2>1. /\ h \in Procs \ {p} /\ pc[h] = "waits" /\ mgmt_msg = <<>>
        /\ Tail(waiting) \in Seq(Procs) /\ Len(Tail(waiting)) = Len(waiting) - 1
        /\ \A i \in 1 .. Len(Tail(waiting)) :
               /\ Tail(waiting)[i] = waiting[i + 1]
               /\ waiting[i + 1] \in Procs /\ waiting[i + 1] # h
        /\ h = waiting[1] /\ Len(waiting) \in Nat \ {0}
    BY <1>2, LongestWaiting
  <2>2. /\ pc' = [pc EXCEPT ![p] = next, ![h] = "got"]
        /\ message_mgmt' = [box EXCEPT ![h] = m]
        /\ waiting' = Tail(waiting) /\ mgmt_msg' = mgmt_msg
    BY <1>2 DEF SendFrom
  <2> HIDE DEF h
  <2>3. QueueTyped'
    BY <2>1, <2>2 DEF QueueTyped, Pcs
  <2>4. \A i \in 1 .. Len(waiting') : i + 1 \in 1 .. Len(waiting)
    BY <2>1, <2>2
  <2>5. \A i \in 1 .. Len(waiting') : pc'[waiting'[i]] = "waits"
    BY <2>1, <2>2, <2>4 DEF Blocked, QueueTyped
  <2>6. \A i, j \in 1 .. Len(waiting') : waiting'[i] = waiting'[j] => i = j
    <3> SUFFICES ASSUME NEW i \in 1 .. Len(waiting'), NEW j \in 1 .. Len(waiting'),
                        waiting'[i] = waiting'[j]
                 PROVE  i = j
      OBVIOUS
    <3>1. i + 1 = j + 1
      BY <2>1, <2>2, <2>4 DEF Blocked
    <3> QED
      BY <3>1
  <2>7. ASSUME NEW q \in Procs, pc'[q] = "waits" PROVE \E i \in 1 .. Len(waiting') : waiting'[i] = q
    <3>1. pc[q] = "waits" /\ q # h
      BY <2>1, <2>2, <2>7 DEF QueueTyped
    <3>2. PICK j \in 1 .. Len(waiting) : waiting[j] = q
      BY <3>1 DEF Blocked
    <3>3. j - 1 \in 1 .. Len(waiting') /\ waiting'[j - 1] = waiting[(j - 1) + 1] /\ (j - 1) + 1 = j
      BY <2>1, <2>2, <3>1, <3>2
    <3> QED
      BY <3>2, <3>3
  <2> QED
    BY <2>1, <2>2, <2>3, <2>5, <2>6, <2>7 DEF Blocked
<1> QED
  BY <1>1, <1>2

\* Who receives gets the first message, or is the last to wait for one.
LEMMA ReceiveTypes ==
    ASSUME QueueTyped, Blocked, NEW p \in Procs, pc[p] # "waits", Receive(p)
    PROVE  QueueTyped' /\ Blocked'
<1>1. CASE mgmt_msg = <<>>
  <2>1. /\ pc' = [pc EXCEPT ![p] = "waits"] /\ waiting' = Append(waiting, p)
        /\ message_mgmt' = message_mgmt /\ mgmt_msg' = mgmt_msg
    BY <1>1 DEF Receive
  <2>2. /\ waiting' \in Seq(Procs) /\ Len(waiting') = Len(waiting) + 1 /\ Len(waiting) \in Nat
        /\ waiting'[Len(waiting) + 1] = p
        /\ \A i \in 1 .. Len(waiting) : waiting'[i] = waiting[i]
    BY <2>1, AppendProperties, LenProperties DEF QueueTyped
  <2>3. QueueTyped'
    BY <2>1, <2>2 DEF QueueTyped, Pcs
  <2>4. \A i \in 1 .. Len(waiting) : waiting[i] \in Procs /\ waiting[i] # p
    BY ElementOfSeq DEF Blocked, QueueTyped
  <2>5. /\ \A i \in 1 .. Len(waiting') : pc'[waiting'[i]] = "waits"
        /\ \A i, j \in 1 .. Len(waiting') : waiting'[i] = waiting'[j] => i = j
    BY <2>1, <2>2, <2>4 DEF Blocked, QueueTyped
  <2>6. \A q \in Procs : pc'[q] = "waits" => \E i \in 1 .. Len(waiting') : waiting'[i] = q
    <3>1. ASSUME NEW q \in Procs \ {p}, pc'[q] = "waits"
          PROVE  \E i \in 1 .. Len(waiting') : waiting'[i] = q
      <4>1. PICK i \in 1 .. Len(waiting) : waiting[i] = q
        BY <2>1, <3>1 DEF Blocked, QueueTyped
      <4> QED
        BY <2>2, <4>1
    <3>2. Len(waiting) + 1 \in 1 .. Len(waiting')
      BY <2>2
    <3> QED
      BY <2>2, <3>1, <3>2
  <2> QED
    BY <1>1, <2>1, <2>3, <2>5, <2>6 DEF Blocked
<1>2. CASE mgmt_msg # <<>>
  <2>1. /\ pc' = [pc EXCEPT ![p] = "got"] /\ waiting' = waiting /\ waiting = <<>>
        /\ message_mgmt' = [message_mgmt EXCEPT ![p] = Head(mgmt_msg)]
        /\ mgmt_msg' = Tail(mgmt_msg)
    BY <1>2 DEF Receive, Blocked
  <2>2. Head(mgmt_msg) \in Messages /\ Tail(mgmt_msg) \in Seq(Messages)
    BY <1>2, HeadTailProperties DEF QueueTyped
  <2>3. QueueTyped'
    BY <2>1, <2>2 DEF QueueTyped, Pcs
  <2>4. \A q \in Procs : pc'[q] # "waits"
    BY <2>1 DEF Blocked, QueueTyped
  <2> QED
    BY <2>1, <2>3, <2>4 DEF Blocked
<1> QED
  BY <1>1, <1>2

-----------------------------------------------------------------------------
(* Types.                                                                   *)

Entry == [id : Ids, name : Clients \cup {"null", "digit", "unset"}, new_sub : {0, 1}]

EntriesTyped ==
    /\ count \in Ids /\ slot \in Ids
    /\ sub \in Seq(Entry) /\ Len(sub) <= MaxSubs
    /\ message_mgmt["server"].kind = "exit" => count <= Len(sub)

ChatTyped ==
    /\ tpc \in {"wait", "walk", "test", "hist", "last"}
    /\ number_sub \in Ids /\ number_hist \in 0 .. MaxLines + 1 /\ type \in Ids
    /\ history \in Seq(Lines) /\ text_rcv \in Seq(Lines)
    /\ text_snd \in Seq([type : Ids, line : Lines]) /\ Len(text_snd) <= QueueMax
    /\ toType \in 0 .. MaxLines /\ screen \in [Clients -> Seq(Lines)]
    /\ orderly \in {"yes", "no"} /\ calm \in {"yes", "no"}

\* The inductive invariant of the types.
Typed ==
    /\ QueueTyped /\ EntriesTyped /\ ChatTyped
    /\ Blocked /\ Counted /\ Filling /\ WithinBounds

LEMMA TypedIsTypeOK == Typed => TypeOK
BY DEF Typed, TypeOK, QueueTyped, EntriesTyped, ChatTyped, Pcs, Entry

LEMMA ServerApart == "server" \in Procs /\ \A c \in Clients : c \in Procs /\ c # "server"
BY NamesAssumption DEF Procs

\* What a message holds.
LEMMA MessageFields ==
    ASSUME NEW m \in Messages
    PROVE  /\ m.kind \in {"none", "name", "exit", "id"} /\ m.id \in {Wild} \cup Ids
           /\ m.kind \in {"name", "exit"} => m.who \in Clients
           /\ m.kind = "id" => m.who \in Clients \cup {"digit"} /\ m.id \in Ids
<1>1. CASE m = Nothing
  <2>1. Nothing.kind = "none" /\ Nothing.id = 0
    BY DEF Nothing
  <2>2. 0 \in Ids
    BY SizesAssumption DEF Ids
  <2> HIDE DEF Nothing
  <2> QED
    BY <1>1, <2>1, <2>2
<1>2. CASE m \in [kind : {"name", "exit"}, who : Clients, id : {Wild} \cup Ids]
  BY <1>2
<1>3. CASE m \in [kind : {"id"}, who : Clients \cup {"digit"}, id : Ids]
  BY <1>3
<1> QED
  BY <1>1, <1>2, <1>3, Zenon DEF Messages

\* The named places are places.
LEMMA NamedBound ==
    ASSUME sub \in Seq(Entry)
    PROVE  /\ IsFiniteSet(Named) /\ Cardinality(Named) \in Nat
           /\ Len(sub) \in Nat /\ Cardinality(Named) <= Len(sub)
<1>1. Len(sub) \in Nat
  BY LenProperties
<1>2. IsFiniteSet(1 .. Len(sub)) /\ Cardinality(1 .. Len(sub)) = Len(sub)
  BY <1>1, FS_Interval
<1>3. Named \subseteq 1 .. Len(sub)
  BY DEF Named
<1>4. IsFiniteSet(Named) /\ Cardinality(Named) <= Cardinality(1 .. Len(sub))
  BY <1>2, <1>3, FS_Subset
<1> QED
  BY <1>1, <1>2, <1>4, FS_CardinalityType

\* A place is vacant or named.
LEMMA VacantOrNamed ==
    ASSUME Len(sub) \in Nat, NEW j \in Nat \ {0}
    PROVE  Vacant(sub, j) <=> ~ (j \in Named)
<1>1. j \in Named <=> j \in 1 .. Len(sub) /\ sub[j].name # "null"
  BY Zenon DEF Named
<1>2. Vacant(sub, j) <=> j > Len(sub) \/ sub[j].name = "null"
  BY Zenon DEF Vacant
<1>3. j \in 1 .. Len(sub) <=> ~ (j > Len(sub))
  OBVIOUS
<1> QED
  BY <1>1, <1>2, <1>3, Zenon

\* While mgmt_thread runs there are no more subscribers than entries.
LEMMA CountBound ==
    ASSUME EntriesTyped, Counted, pc["server"] # "overflow"
    PROVE  count \in Nat /\ Len(sub) \in Nat /\ count <= Len(sub) /\ count <= MaxSubs
<1>1. count <= Cardinality(Named) /\ count \in Nat
  BY SizesAssumption DEF Counted, EntriesTyped, Ids
<1>2. Cardinality(Named) <= Len(sub) /\ Cardinality(Named) \in Nat /\ Len(sub) \in Nat
  BY NamedBound DEF EntriesTyped
<1> QED
  BY <1>1, <1>2, SizesAssumption DEF EntriesTyped

\* A process that is not blocked changes its place.
LEMMA BlockedElsewhere ==
    ASSUME QueueTyped, Blocked, NEW p \in Procs, pc[p] # "waits",
           NEW v \in Pcs, v # "waits", pc' = [pc EXCEPT ![p] = v],
           message_mgmt' \in [Procs -> Messages], UNCHANGED <<mgmt_msg, waiting>>
    PROVE  QueueTyped' /\ Blocked'
<1>1. QueueTyped'
  BY DEF QueueTyped
<1>2. \A i \in 1 .. Len(waiting) : waiting[i] \in Procs /\ waiting[i] # p
  BY ElementOfSeq DEF Blocked, QueueTyped
<1>3. /\ \A i \in 1 .. Len(waiting) : pc'[waiting[i]] = "waits"
      /\ \A q \in Procs : pc'[q] = "waits" => pc[q] = "waits"
  BY <1>2 DEF Blocked, QueueTyped
<1> QED
  BY <1>1, <1>3 DEF Blocked

\* A step that leaves the entries alone while the server at most receives.
LEMMA EntriesStay ==
    ASSUME EntriesTyped, Counted, Filling, UNCHANGED <<entries, sub>>,
           \/ pc'["server"] = pc["server"] /\ message_mgmt'["server"] = message_mgmt["server"]
           \/ /\ pc["server"] \in {"ask", "waits"} /\ pc'["server"] \in {"waits", "got"}
              /\ message_mgmt'["server"] \in Messages
    PROVE  EntriesTyped' /\ Counted' /\ Filling'
<1>1. Named' = Named
  BY DEF Named, entries
<1>2. CASE pc'["server"] = pc["server"] /\ message_mgmt'["server"] = message_mgmt["server"]
  BY <1>1, <1>2 DEF EntriesTyped, Counted, Filling, entries
<1>3. CASE /\ pc["server"] \in {"ask", "waits"} /\ pc'["server"] \in {"waits", "got"}
           /\ message_mgmt'["server"] \in Messages
  <2>1. count <= Len(sub)
    BY <1>3, CountBound
  <2> QED
    BY <1>1, <1>3, <2>1 DEF EntriesTyped, Counted, Filling, entries
<1> QED
  BY <1>2, <1>3

LEMMA ChatStays ==
    ASSUME ChatTyped, WithinBounds, UNCHANGED <<chat, users>>, Len(sub') = Len(sub),
           orderly' \in {"yes", "no"}, calm' \in {"yes", "no"}
    PROVE  ChatTyped' /\ WithinBounds'
BY DEF ChatTyped, WithinBounds, chat, walk, users

LEMMA NoteTypes ==
    ASSUME ChatTyped, NEW b, Note(b)
    PROVE  orderly' \in {"yes", "no"} /\ calm' \in {"yes", "no"}
BY DEF ChatTyped, Note

\* A step of the common queue that is not the server's own send.
LEMMA SendLeavesEntries ==
    ASSUME QueueTyped, Blocked, NEW box \in [Procs -> Messages], NEW c \in Clients,
           box["server"] = message_mgmt["server"],
           pc[c] # "waits", NEW next \in {"sent", "left"}, NEW m \in Messages,
           SendFrom(box, c, next, m)
    PROVE  \/ pc'["server"] = pc["server"] /\ message_mgmt'["server"] = message_mgmt["server"]
           \/ /\ pc["server"] \in {"ask", "waits"} /\ pc'["server"] \in {"waits", "got"}
              /\ message_mgmt'["server"] \in Messages
<1> USE ServerApart
<1> HIDE DEF Procs, Messages
<1>1. CASE waiting = <<>>
  BY <1>1, SendEffect
<1>2. CASE waiting # <<>>
  <2>1. /\ Head(waiting) \in Procs \ {c} /\ pc[Head(waiting)] = "waits"
        /\ pc'[Head(waiting)] = "got" /\ message_mgmt'[Head(waiting)] = m
        /\ \A q \in Procs \ {c, Head(waiting)} : pc'[q] = pc[q]
        /\ \A q \in Procs \ {Head(waiting)} : message_mgmt'[q] = box[q]
    BY <1>2, SendEffect
  <2> QED
    BY <2>1
<1> QED
  BY <1>1, <1>2

LEMMA ReceiveLeavesEntries ==
    ASSUME QueueTyped, NEW p \in Procs, Receive(p), p = "server" => pc[p] = "ask"
    PROVE  \/ pc'["server"] = pc["server"] /\ message_mgmt'["server"] = message_mgmt["server"]
           \/ /\ pc["server"] \in {"ask", "waits"} /\ pc'["server"] \in {"waits", "got"}
              /\ message_mgmt'["server"] \in Messages
<1>1. CASE mgmt_msg = <<>>
  BY <1>1, ServerApart DEF Receive, QueueTyped
<1>2. CASE mgmt_msg # <<>>
  <2>1. Head(mgmt_msg) \in Messages
    BY <1>2, HeadTailProperties DEF QueueTyped
  <2> QED
    BY <1>2, <2>1, ServerApart DEF Receive, QueueTyped
<1> QED
  BY <1>1, <1>2

LEMMA ReceiveNotes ==
    ASSUME ChatTyped, NEW p, Receive(p)
    PROVE  orderly' \in {"yes", "no"} /\ calm' \in {"yes", "no"}
BY NoteTypes DEF Receive, notes, ChatTyped, Note

\* Init: everybody is idle and sub[] is empty.
LEMMA InitTyped == Init => Typed
<1> SUFFICES ASSUME Init PROVE Typed
  OBVIOUS
<1>1. QueueTyped
  <2>1. Nothing \in Messages
    BY DEF Messages
  <2> QED
    BY <2>1, EmptySeq, ServerApart DEF Init, QueueTyped, Pcs
<1>2. pc["server"] = "ask" /\ message_mgmt["server"].kind = "none"
  BY ServerApart DEF Init, Nothing
<1>3. EntriesTyped
  BY <1>2, SizesAssumption, EmptySeq DEF Init, EntriesTyped, Ids
<1>4. ChatTyped
  BY SizesAssumption, EmptySeq DEF Init, ChatTyped, Ids
<1>5. Blocked /\ Filling
  BY <1>2, EmptySeq DEF Init, Blocked, Filling
<1>6. Counted
  <2>1. Cardinality(Named) \in Nat
    BY <1>3, NamedBound DEF EntriesTyped
  <2> QED
    BY <1>2, <2>1 DEF Init, Counted
<1>7. WithinBounds
  BY SizesAssumption, EmptySeq DEF Init, WithinBounds
<1> QED
  BY <1>1, <1>3, <1>4, <1>5, <1>6, <1>7 DEF Typed

LEMMA SeeExitTyped == Typed /\ SeeExit => Typed'
<1> SUFFICES ASSUME Typed, SeeExit PROVE Typed'
  OBVIOUS
<1> USE DEF Typed
<1>1. /\ pc["server"] = "got" /\ message_mgmt["server"].kind = "exit"
      /\ count \in Nat /\ Len(sub) \in Nat /\ count <= Len(sub) /\ count <= MaxSubs
  BY CountBound DEF SeeExit, Got
<1> DEFINE n == message_mgmt["server"].id
           f == First(WithId(n))
<1>2. message_mgmt' \in [Procs -> Messages] /\ message_mgmt'["server"].kind = "none"
  BY ServerApart DEF SeeExit, QueueTyped, Messages, Nothing
<1>3. /\ count' = CountAfterExit(n)
      /\ sub' = IF WithId(n) = {} THEN sub ELSE [sub EXCEPT ![f] = Nameless(sub[f])]
  BY DEF SeeExit
<1>4. /\ sub' \in Seq(Entry) /\ Len(sub') = Len(sub)
      /\ count' \in Ids /\ count' <= Cardinality(Named')
  <2>1. CASE WithId(n) = {}
    BY <1>1, <1>3, <2>1 DEF CountAfterExit, EntriesTyped, Counted, Named
  <2>2. CASE WithId(n) # {}
    <3>1. WithId(n) \subseteq Nat
      BY DEF WithId
    <3>2. f \in 1 .. count
      BY <2>2, <3>1, FirstIsLeast DEF WithId
    <3> HIDE DEF f, n
    <3>3. f \in 1 .. Len(sub) /\ count' = count - 1 /\ sub' = [sub EXCEPT ![f] = Nameless(sub[f])]
      BY <1>1, <1>3, <2>2, <3>2 DEF CountAfterExit
    <3>4. sub[f] \in Entry
      BY <3>3, ElementOfSeq DEF EntriesTyped
    <3>5. Nameless(sub[f]) \in Entry
      BY <3>4 DEF Entry, Nameless
    <3>6. Nameless(sub[f]).name = "null"
      BY <3>4 DEF Entry, Nameless
    <3>7. /\ sub' \in Seq(Entry) /\ Len(sub') = Len(sub)
          /\ \A i \in 1 .. Len(sub) : sub'[i] = IF i = f THEN Nameless(sub[f]) ELSE sub[i]
      BY <3>3, <3>5, ExceptSeq DEF EntriesTyped
    <3>8. Named' = Named \ {f}
      BY <3>3, <3>6, <3>7 DEF Named
    <3>9. IsFiniteSet(Named) /\ Cardinality(Named) \in Nat
      BY NamedBound DEF EntriesTyped
    <3>10. Cardinality(Named') >= Cardinality(Named) - 1
      BY <3>8, <3>9, FS_RemoveElement
    <3>11. Cardinality(Named') \in Nat
      BY <3>8, <3>9, FS_RemoveElement, FS_CardinalityType
    <3>12. count' \in Ids
      BY <1>1, <3>2, <3>3, SizesAssumption DEF Ids
    <3>13. count <= Cardinality(Named)
      BY <1>1 DEF Counted
    <3> QED
      BY <1>1, <3>3, <3>7, <3>9, <3>10, <3>11, <3>12, <3>13
  <2> QED
    BY <2>1, <2>2
<1> HIDE DEF n, f
<1>5. EntriesTyped'
  BY <1>2, <1>4 DEF SeeExit, EntriesTyped
<1>6. CASE count' = 0
  <2>1. /\ pc' = [p \in Procs |-> IF p = "server" THEN "ended"
                                  ELSE IF pc[p] = "waits" THEN "died" ELSE pc[p]]
        /\ mgmt_msg' = <<>> /\ waiting' = <<>>
    BY <1>6 DEF SeeExit
  <2>2. QueueTyped' /\ pc'["server"] = "ended" /\ \A p \in Procs : pc'[p] # "waits"
    BY <1>2, <2>1, EmptySeq, ServerApart DEF QueueTyped, Pcs
  <2>3. Blocked'
    BY <2>1, <2>2, EmptySeq DEF Blocked
  <2>4. ChatTyped' /\ WithinBounds'
    <3>1. /\ tpc' = "wait" /\ number_sub' = 0 /\ number_hist' = 0 /\ type' = 0
          /\ text_rcv' = <<>> /\ text_snd' = <<>>
          /\ history' = history /\ toType' = toType /\ screen' = screen
          /\ orderly' = orderly /\ calm' = calm
      BY <1>6 DEF SeeExit, users, notes
    <3> QED
      BY <3>1, EmptySeq, SizesAssumption, LenProperties DEF ChatTyped, WithinBounds, Ids
  <2> QED
    BY <1>4, <1>5, <2>2, <2>3, <2>4 DEF Counted, Filling
<1>7. CASE count' # 0
  <2>1. pc' = [pc EXCEPT !["server"] = "ask"] /\ UNCHANGED <<mgmt_msg, waiting, walk, text_rcv, text_snd>>
    BY <1>7 DEF SeeExit
  <2>2. QueueTyped' /\ Blocked' /\ pc'["server"] = "ask"
    BY <1>1, <1>2, <2>1, BlockedElsewhere, ServerApart DEF QueueTyped, Pcs
  <2>3. ChatTyped' /\ WithinBounds'
    <3>1. UNCHANGED <<chat, users, notes>>
      BY <2>1 DEF SeeExit, chat
    <3> QED
      BY <1>4, <3>1, ChatStays DEF ChatTyped, notes
  <2> QED
    BY <1>4, <1>5, <2>2, <2>3 DEF Counted, Filling
<1> QED
  BY <1>6, <1>7

\* With no vacant place every one of the first places has a name; else the first
\* vacant place is one of sub[] or the next after it.
LEMMA SeeNameTyped == Typed /\ SeeName => Typed'
<1> SUFFICES ASSUME Typed, SeeName PROVE Typed'
  OBVIOUS
<1> USE DEF Typed
<1>1. /\ pc["server"] = "got" /\ message_mgmt["server"].kind \in {"name", "id"}
      /\ count \in Nat /\ Len(sub) \in Nat /\ count <= Len(sub) /\ count <= MaxSubs
      /\ count' = count + 1
  BY CountBound DEF SeeName, Got
<1> DEFINE free == Places(sub, count', 1)
           fresh == [id |-> 0, name |-> "unset", new_sub |-> 0]
<1>2. /\ free \subseteq Nat
      /\ \A j \in 1 .. count + 1 : j \in free <=> ~ (j \in Named)
      /\ \A j \in free : j \in 1 .. count + 1
  <2>1. free = {j \in 1 .. count + 1 : Vacant(sub, j)}
    BY <1>1 DEF Places
  <2>2. \A j \in 1 .. count + 1 : Vacant(sub, j) <=> ~ (j \in Named)
    BY <1>1, VacantOrNamed
  <2> HIDE DEF free
  <2> QED
    BY <1>1, <2>1, <2>2
<1> HIDE DEF free, fresh
<1>3. count' \in Ids
  BY <1>1, SizesAssumption DEF Ids
<1>4. /\ IsFiniteSet(Named) /\ Cardinality(Named) \in Nat /\ count <= Cardinality(Named)
  BY <1>1, NamedBound DEF EntriesTyped, Counted
<1>5. ASSUME sub' \in Seq(Entry), Len(sub') >= Len(sub) PROVE ChatTyped' /\ WithinBounds'
  <2>1. UNCHANGED <<chat, users, notes>>
    BY DEF SeeName
  <2>2. Len(sub') \in Nat
    BY <1>5, LenProperties
  <2> QED
    BY <1>1, <1>5, <2>1, <2>2 DEF ChatTyped, WithinBounds, chat, walk, users, notes
<1>6. CASE free = {}
  <2>1. /\ pc' = [pc EXCEPT !["server"] = "ask"] /\ sub' = sub /\ slot' = slot
        /\ message_mgmt' = [message_mgmt EXCEPT !["server"] = Nothing]
        /\ UNCHANGED <<mgmt_msg, waiting>>
    BY <1>6 DEF SeeName, free
  <2>2. message_mgmt' \in [Procs -> Messages] /\ message_mgmt'["server"].kind = "none"
    BY <2>1, ServerApart DEF QueueTyped, Messages, Nothing
  <2>3. QueueTyped' /\ Blocked' /\ pc'["server"] = "ask"
    BY <1>1, <2>1, <2>2, BlockedElsewhere, ServerApart DEF QueueTyped, Pcs
  <2>4. 1 .. count + 1 \subseteq Named /\ Named' = Named
    <3>1. \A j \in 1 .. count + 1 : j \in Named
      BY <1>2, <1>6
    <3> QED
      BY <2>1, <3>1 DEF Named
  <2>5. Cardinality(1 .. count + 1) = count + 1 /\ Cardinality(1 .. count + 1) <= Cardinality(Named)
    <3>1. Cardinality(1 .. count + 1) = count + 1
      <4>1. count + 1 \in Int /\ 1 \in Int /\ ~(1 > count + 1) /\ count + 1 - 1 + 1 = count + 1
        BY <1>1
      <4> QED
        BY <4>1, FS_Interval
    <3>2. Cardinality(1 .. count + 1) <= Cardinality(Named)
      BY <1>4, <2>4, FS_Subset
    <3> QED
      BY <3>1, <3>2
  <2>6. EntriesTyped' /\ Counted' /\ Filling'
    BY <1>1, <1>3, <2>1, <2>2, <2>3, <2>4, <2>5 DEF EntriesTyped, Counted, Filling
  <2> QED
    BY <1>1, <1>5, <2>1, <2>3, <2>6 DEF EntriesTyped
<1>7. CASE free # {}
  <2> DEFINE s == First(free)
  <2>1. /\ slot' = s
        /\ pc' = [pc EXCEPT !["server"] = IF s > MaxSubs THEN "overflow" ELSE "entry"]
        /\ sub' = IF s > MaxSubs THEN sub
                  ELSE IF s > Len(sub) THEN Append(sub, fresh)
                  ELSE [sub EXCEPT ![s] = fresh]
        /\ UNCHANGED <<message_mgmt, mgmt_msg, waiting>>
    BY <1>7 DEF SeeName, free, fresh
  <2>3. s \in free /\ \A j \in free : s <= j
    BY <1>2, <1>7, FirstIsLeast
  <2> HIDE DEF s
  <2>4. s \in 1 .. count + 1 /\ s <= Len(sub) + 1 /\ ~ (s \in Named)
    <3>1. s \in 1 .. count + 1 /\ ~ (s \in Named)
      BY <1>1, <1>2, <2>3
    <3>2. Len(sub) + 1 \in 1 .. count + 1 => Len(sub) + 1 \in free
      <4>1. Len(sub) + 1 \in Nat \ {0} /\ Len(sub) + 1 > Len(sub)
        BY <1>1
      <4>2. Vacant(sub, Len(sub) + 1)
        BY <4>1, Zenon DEF Vacant
      <4> QED
        BY <1>1, <1>2, <4>1, <4>2, VacantOrNamed
    <3> QED
      BY <1>1, <2>3, <3>1, <3>2
  <2>5. QueueTyped' /\ Blocked'
    BY <1>1, <2>1, BlockedElsewhere, ServerApart DEF QueueTyped, Pcs
  <2>6. slot' \in Ids
    BY <1>1, <2>1, <2>4, SizesAssumption DEF Ids
  <2>7. CASE s > MaxSubs
    BY <1>1, <1>3, <1>5, <2>1, <2>5, <2>6, <2>7, ServerApart
       DEF EntriesTyped, Counted, Filling, QueueTyped
  <2>8. CASE s <= MaxSubs
    <3>1. fresh \in Entry
      BY SizesAssumption DEF Entry, Ids, fresh
    <3>2. /\ sub' \in Seq(Entry) /\ Len(sub') >= Len(sub) /\ Len(sub') <= MaxSubs
          /\ sub'[s] = fresh /\ s \in 1 .. Len(sub')
          /\ \A i \in 1 .. Len(sub') : i # s => i \in 1 .. Len(sub) /\ sub'[i] = sub[i]
      <4>1. CASE s > Len(sub)
        <5>1. sub' = Append(sub, fresh) /\ s = Len(sub) + 1
          BY <1>1, <2>1, <2>4, <2>8, <4>1, SizesAssumption
        <5>2. /\ sub' \in Seq(Entry) /\ Len(sub') = Len(sub) + 1
              /\ \A i \in 1 .. Len(sub) : sub'[i] = sub[i]
              /\ sub'[Len(sub) + 1] = fresh
          BY <3>1, <5>1, AppendProperties DEF EntriesTyped
        <5> QED
          BY <1>1, <2>8, <5>1, <5>2 DEF EntriesTyped
      <4>2. CASE s <= Len(sub)
        <5>1. sub' = [sub EXCEPT ![s] = fresh] /\ s \in 1 .. Len(sub)
          BY <1>1, <2>1, <2>4, <2>8, <4>2, SizesAssumption
        <5> QED
          BY <1>1, <3>1, <5>1, ExceptSeq DEF EntriesTyped
      <4> QED
        BY <1>1, <2>4, <4>1, <4>2
    <3>3. Named' = Named \cup {s} /\ ~ (s \in Named)
      <4>1. \A i \in 1 .. Len(sub) : i \in 1 .. Len(sub')
        BY <1>1, <3>2, LenProperties
      <4>2. sub'[s].name # "null"
        BY <3>2 DEF fresh
      <4> QED
        BY <1>1, <2>4, <3>2, <4>1, <4>2 DEF Named
    <3>4. Cardinality(Named') = Cardinality(Named) + 1
      BY <1>4, <3>3, FS_AddElement
    <3>5. pc'["server"] = "entry" /\ message_mgmt'["server"].kind \in {"name", "id"}
      BY <1>1, <2>1, <2>4, <2>8, SizesAssumption, ServerApart DEF QueueTyped
    <3>6. EntriesTyped' /\ Counted'
      BY <1>1, <1>3, <1>4, <2>6, <3>2, <3>4, <3>5 DEF EntriesTyped, Counted
    <3>7. Filling'
      BY <2>1, <3>2, <3>5 DEF Filling, fresh
    <3> QED
      BY <1>5, <2>5, <3>2, <3>6, <3>7
  <2> QED
    BY <1>1, <2>4, <2>7, <2>8, SizesAssumption
<1> QED
  BY <1>6, <1>7

LEMMA EntryPut ==
    ASSUME sub \in Seq(Entry), NEW f \in 1 .. Len(sub), NEW e \in Entry,
           sub' = [sub EXCEPT ![f] = e]
    PROVE  /\ sub' \in Seq(Entry) /\ Len(sub') = Len(sub)
           /\ \A i \in 1 .. Len(sub) : sub'[i] = IF i = f THEN e ELSE sub[i]
BY ExceptSeq

\* Filling an entry takes no name away and leaves the others as they are.
LEMMA FilledEntry ==
    ASSUME EntriesTyped, Filling, pc["server"] \in {"entry", "id"},
           NEW e \in Entry, e.name # "null", sub' = [sub EXCEPT ![slot] = e]
    PROVE  /\ sub' \in Seq(Entry) /\ Len(sub') = Len(sub) /\ Named' = Named
           /\ slot \in 1 .. Len(sub) /\ sub'[slot] = e
           /\ \A i \in 1 .. Len(sub) : i # slot => sub'[i] = sub[i]
<1>1. slot \in 1 .. Len(sub) /\ sub[slot].name = "unset"
  BY DEF Filling
<1>2. /\ sub' \in Seq(Entry) /\ Len(sub') = Len(sub)
      /\ \A i \in 1 .. Len(sub) : sub'[i] = IF i = slot THEN e ELSE sub[i]
  <2>1. sub \in Seq(Entry)
    BY DEF EntriesTyped
  <2> QED
    BY <1>1, <2>1, EntryPut
<1>3. Named' = {i \in 1 .. Len(sub) : sub'[i].name # "null"}
  BY <1>2 DEF Named
<1>4. \A i \in 1 .. Len(sub) : sub'[i].name # "null" <=> sub[i].name # "null"
  BY <1>1, <1>2
<1> QED
  BY <1>1, <1>2, <1>3, <1>4 DEF Named

LEMMA SetIdTyped == Typed /\ SetId => Typed'
<1> SUFFICES ASSUME Typed, SetId PROVE Typed'
  OBVIOUS
<1> USE DEF Typed
<1>1. /\ pc["server"] = "entry" /\ sub' = [sub EXCEPT ![slot] = Numbered(sub[slot], count)]
      /\ pc' = [pc EXCEPT !["server"] = "id"]
      /\ UNCHANGED <<message_mgmt, mgmt_msg, waiting, entries, chat, users, notes>>
  BY DEF SetId
<1>2. sub[slot] \in Entry /\ sub[slot].name = "unset"
  BY <1>1, ElementOfSeq DEF Filling, EntriesTyped
<1>3. Numbered(sub[slot], count) \in Entry /\ Numbered(sub[slot], count).name = "unset"
  BY <1>2 DEF Entry, Numbered, EntriesTyped
<1>4. /\ sub' \in Seq(Entry) /\ Len(sub') = Len(sub) /\ Named' = Named
      /\ slot \in 1 .. Len(sub) /\ sub'[slot] = Numbered(sub[slot], count)
  BY <1>1, <1>3, FilledEntry
<1>5. QueueTyped' /\ Blocked' /\ pc'["server"] = "id"
  BY <1>1, BlockedElsewhere, ServerApart DEF QueueTyped, Pcs
<1>6. EntriesTyped' /\ Counted' /\ Filling'
  BY <1>1, <1>3, <1>4, <1>5 DEF EntriesTyped, Counted, Filling, entries
<1> QED
  BY <1>1, <1>4, <1>5, <1>6, ChatStays DEF notes, ChatTyped

LEMMA NameKept ==
    ASSUME QueueTyped, Filling, pc["server"] = "id"
    PROVE  NameIn(message_mgmt["server"]) \in Clients \cup {"digit"}
<1>1. message_mgmt["server"] \in Messages /\ message_mgmt["server"].kind \in {"name", "id"}
  BY ServerApart DEF QueueTyped, Filling
<1>2. message_mgmt["server"].kind = "name" => message_mgmt["server"].who \in Clients
  BY <1>1, MessageFields
<1> QED
  BY <1>2 DEF NameIn

LEMMA SetNewTyped == Typed /\ SetNew => Typed'
<1> SUFFICES ASSUME Typed, SetNew PROVE Typed'
  OBVIOUS
<1> USE DEF Typed
<1> DEFINE who == NameIn(message_mgmt["server"])
           e == [id |-> sub[slot].id, name |-> who, new_sub |-> 1]
<1>1. /\ pc["server"] = "id" /\ sub' = [sub EXCEPT ![slot] = e]
      /\ pc' = [pc EXCEPT !["server"] = "new"]
      /\ UNCHANGED <<message_mgmt, mgmt_msg, waiting, entries, chat, users, notes>>
  BY DEF SetNew
<1>2. sub[slot] \in Entry
  BY <1>1, ElementOfSeq DEF Filling, EntriesTyped
<1>3. who \in Clients \cup {"digit"}
  BY <1>1, NameKept
<1> HIDE DEF who
<1>4. e \in Entry /\ e.name = who /\ who # "null"
  BY <1>2, <1>3, NamesAssumption DEF Entry
<1> HIDE DEF e
<1>5. /\ sub' \in Seq(Entry) /\ Len(sub') = Len(sub) /\ Named' = Named
      /\ slot \in 1 .. Len(sub) /\ sub'[slot] = e
  BY <1>1, <1>4, FilledEntry
<1>6. QueueTyped' /\ Blocked' /\ pc'["server"] = "new"
  BY <1>1, BlockedElsewhere, ServerApart DEF QueueTyped, Pcs
<1>7. EntriesTyped' /\ Counted' /\ Filling'
  BY <1>1, <1>3, <1>4, <1>5, <1>6 DEF EntriesTyped, Counted, Filling, entries
<1> QED
  BY <1>1, <1>5, <1>6, <1>7, ChatStays DEF notes, ChatTyped

LEMMA AnswerTyped == Typed /\ Answer => Typed'
<1> SUFFICES ASSUME Typed, Answer PROVE Typed'
  OBVIOUS
<1> USE DEF Typed
<1> DEFINE next == IF Places(sub, count, slot + 1) = {} THEN "ask" ELSE "crashed"
           m == [kind |-> "id", who |-> sub[slot].name, id |-> NewId]
           box == [message_mgmt EXCEPT !["server"] = Nothing]
<1>1. /\ pc["server"] = "new" /\ SendFrom(box, "server", next, m) /\ Note(~Misled(m))
      /\ slot' = 0 /\ UNCHANGED <<count, sub, chat, users>>
  BY DEF Answer
<1>2. m \in Messages
  <2>1. sub[slot] \in Entry /\ sub[slot].name \in Clients \cup {"digit"}
    BY <1>1, ElementOfSeq DEF Filling, EntriesTyped
  <2>2. NewId \in Ids
    BY <2>1 DEF Entry, NewId
  <2> QED
    BY <2>1, <2>2 DEF Messages
<1>3. box \in [Procs -> Messages] /\ box["server"].kind = "none"
  BY ServerApart DEF QueueTyped, Messages, Nothing
<1>4. next \in {"ask", "crashed"}
  OBVIOUS
<1> HIDE DEF next, m, box
<1>5. QueueTyped' /\ Blocked'
  BY <1>1, <1>2, <1>3, <1>4, SendTypes, ServerApart
<1>6. pc'["server"] = next /\ message_mgmt'["server"] = box["server"]
  BY <1>1, <1>2, <1>3, <1>4, SendEffect, ServerApart
<1>7. Named' = Named
  BY <1>1 DEF Named
<1>8. EntriesTyped' /\ Counted' /\ Filling'
  BY <1>1, <1>3, <1>4, <1>6, <1>7, SizesAssumption DEF EntriesTyped, Counted, Filling, Ids
<1> QED
  BY <1>1, <1>5, <1>8, ChatStays, NoteTypes

LEMMA AskTyped == Typed /\ Ask => Typed'
<1> SUFFICES ASSUME Typed, Ask PROVE Typed'
  OBVIOUS
<1> USE DEF Typed
<1>1. pc["server"] = "ask" /\ Receive("server") /\ UNCHANGED <<entries, sub, chat, users>>
  BY DEF Ask
<1>2. QueueTyped' /\ Blocked'
  BY <1>1, ReceiveTypes, ServerApart
<1>3. EntriesTyped' /\ Counted' /\ Filling'
  BY <1>1, ReceiveLeavesEntries, EntriesStay, ServerApart
<1> QED
  BY <1>1, <1>2, <1>3, ReceiveNotes, ChatStays

\* What a client does leaves the entries alone.
LEMMA ClientTyped == ASSUME Typed, NEW c \in Clients, ClientStep(c) PROVE Typed'
<1> USE DEF Typed
<1> USE ServerApart
<1>1. CASE SendName(c)
  <2> DEFINE m == [kind |-> "name", who |-> c, id |-> 0]
  <2>1. /\ pc[c] = "off" /\ SendFrom(message_mgmt, c, "sent", m) /\ Note(~Misled(m))
        /\ UNCHANGED <<entries, sub, chat, users>>
    BY <1>1 DEF SendName, Send
  <2>2. m \in Messages /\ message_mgmt \in [Procs -> Messages]
    BY SizesAssumption DEF Messages, Ids, QueueTyped
  <2> HIDE DEF m
  <2>3. QueueTyped' /\ Blocked'
    BY <2>1, <2>2, SendTypes
  <2>4. EntriesTyped' /\ Counted' /\ Filling'
    BY <2>1, <2>2, SendLeavesEntries, EntriesStay
  <2> QED
    BY <2>1, <2>3, <2>4, NoteTypes, ChatStays
<1>2. CASE AskId(c)
  <2>1. pc[c] = "sent" /\ UNCHANGED <<entries, sub, chat, users>>
    BY <1>2 DEF AskId
  <2>2. CASE Removed
    <3>1. pc' = [pc EXCEPT ![c] = "died"] /\ UNCHANGED <<message_mgmt, mgmt_msg, waiting, notes>>
      BY <1>2, <2>2 DEF AskId
    <3>2. QueueTyped' /\ Blocked' /\ pc'["server"] = pc["server"]
      BY <2>1, <3>1, BlockedElsewhere DEF QueueTyped, Pcs
    <3>3. EntriesTyped' /\ Counted' /\ Filling'
      BY <2>1, <3>1, <3>2, EntriesStay
    <3> QED
      BY <2>1, <3>1, <3>2, <3>3, ChatStays DEF notes, ChatTyped
  <2>3. CASE ~ Removed
    <3>1. Receive(c)
      BY <1>2, <2>3 DEF AskId
    <3>2. QueueTyped' /\ Blocked'
      BY <2>1, <3>1, ReceiveTypes
    <3>3. EntriesTyped' /\ Counted' /\ Filling'
      BY <2>1, <3>1, ReceiveLeavesEntries, EntriesStay
    <3> QED
      BY <2>1, <3>1, <3>2, <3>3, ReceiveNotes, ChatStays
  <2> QED
    BY <2>2, <2>3
<1>3. CASE TypeLine(c)
  <2>1. /\ toType > 0 /\ toType' = toType - 1 /\ text_rcv' = Append(text_rcv, toType)
        /\ UNCHANGED <<mgmt, entries, sub, walk, history, text_snd, screen, notes>>
    BY <1>3 DEF TypeLine
  <2>2. QueueTyped' /\ Blocked' /\ EntriesTyped' /\ Counted' /\ Filling'
    BY <2>1, EntriesStay DEF mgmt, QueueTyped, Blocked
  <2>3. toType \in Lines /\ toType' \in 0 .. MaxLines
    BY <2>1, SizesAssumption DEF ChatTyped, Lines
  <2>4. text_rcv' \in Seq(Lines) /\ Len(text_rcv') = Len(text_rcv) + 1
    BY <2>1, <2>3, AppendProperties DEF ChatTyped
  <2>5. ChatTyped'
    BY <2>1, <2>3, <2>4 DEF ChatTyped, walk, notes
  <2>6. WithinBounds'
    BY <2>1, <2>3, <2>4, LenProperties DEF WithinBounds, walk, ChatTyped
  <2> QED
    BY <2>2, <2>5, <2>6
<1>4. CASE PrintLine(c)
  <2>1. UNCHANGED <<mgmt, entries, sub, walk, history, text_rcv, toType, notes>>
    BY <1>4 DEF PrintLine
  <2>2. PICK i \in 1 .. Len(text_snd) :
            /\ screen' = IF calm = "yes" THEN [screen EXCEPT ![c] = Append(@, text_snd[i].line)]
                         ELSE screen
            /\ text_snd' = SubSeq(text_snd, 1, i - 1) \o SubSeq(text_snd, i + 1, Len(text_snd))
    BY <1>4 DEF PrintLine
  <2>3. QueueTyped' /\ Blocked' /\ EntriesTyped' /\ Counted' /\ Filling'
    BY <2>1, EntriesStay DEF mgmt, QueueTyped, Blocked
  <2> DEFINE T == [type : Ids, line : Lines]
  <2>4. text_snd' \in Seq(T) /\ Len(text_snd') = Len(text_snd) - 1 /\ Len(text_snd) <= QueueMax
    BY <2>2, TakenOut DEF ChatTyped
  <2>5. text_snd[i].line \in Lines
    <3>1. text_snd[i] \in T
      BY ElementOfSeq DEF ChatTyped
    <3> QED
      BY <3>1
  <2>6. screen' \in [Clients -> Seq(Lines)]
    <3> DEFINE l == text_snd[i].line
    <3>1. \A s \in Seq(Lines) : Append(s, l) \in Seq(Lines)
      BY <2>5, AppendProperties
    <3>2. screen' = IF calm = "yes" THEN [screen EXCEPT ![c] = Append(screen[c], l)] ELSE screen
      BY <2>2
    <3> HIDE DEF l
    <3> QED
      BY <3>1, <3>2 DEF ChatTyped
  <2>7. Len(text_snd') <= QueueMax
    BY <2>4, SizesAssumption, LenProperties DEF ChatTyped
  <2>8. ChatTyped'
    BY <2>1, <2>4, <2>6, <2>7 DEF ChatTyped, walk, notes
  <2>9. WithinBounds'
    BY <2>1 DEF WithinBounds, walk
  <2> QED
    BY <2>3, <2>8, <2>9
<1>5. CASE Leave(c)
  <2> DEFINE m == [kind |-> "exit", who |-> c, id |-> Id(c)]
             gone == [message_mgmt EXCEPT ![c] = Nothing]
  <2>1. /\ pc[c] = "got" /\ calm' = "no" /\ screen' = [screen EXCEPT ![c] = <<>>]
        /\ UNCHANGED <<entries, sub, chat, toType>>
    BY <1>5 DEF Leave, InChat
  <2>2. m \in Messages
    <3>1. Id(c) \in {Wild} \cup Ids
      <4>1. message_mgmt[c] \in Messages
        BY DEF QueueTyped
      <4> QED
        BY <4>1, MessageFields DEF Id
    <3> QED
      BY <3>1 DEF Messages
  <2>3. gone \in [Procs -> Messages] /\ gone["server"] = message_mgmt["server"]
    BY DEF QueueTyped, Messages
  <2>4. /\ QueueTyped' /\ Blocked' /\ orderly' \in {"yes", "no"}
        /\ EntriesTyped' /\ Counted' /\ Filling'
    <3>1. CASE Removed
      <4>1. /\ pc' = [pc EXCEPT ![c] = "left"] /\ message_mgmt' = gone
            /\ UNCHANGED <<mgmt_msg, waiting, orderly>>
        BY <1>5, <3>1 DEF Leave
      <4> HIDE DEF gone
      <4>2. QueueTyped' /\ Blocked' /\ pc'["server"] = pc["server"]
        BY <2>1, <2>3, <4>1, BlockedElsewhere DEF QueueTyped, Pcs
      <4> QED
        BY <2>1, <2>3, <4>1, <4>2, EntriesStay DEF ChatTyped
    <3>2. CASE ~ Removed
      <4>1. /\ SendFrom(gone, c, "left", m)
            /\ orderly' = IF LeavesInTurn(c) /\ ~Misled(m) THEN orderly ELSE "no"
        BY <1>5, <3>2 DEF Leave
      <4> HIDE DEF gone, m
      <4>2. QueueTyped' /\ Blocked'
        BY <2>1, <2>2, <2>3, <4>1, SendTypes
      <4>3. EntriesTyped' /\ Counted' /\ Filling'
        BY <2>1, <2>2, <2>3, <4>1, SendLeavesEntries, EntriesStay
      <4> QED
        BY <4>1, <4>2, <4>3 DEF ChatTyped
    <3> QED
      BY <3>1, <3>2
  <2>5. ChatTyped'
    <3>1. screen' \in [Clients -> Seq(Lines)]
      BY <2>1, EmptySeq DEF ChatTyped
    <3> QED
      BY <2>1, <2>4, <3>1 DEF ChatTyped, chat, walk
  <2>6. WithinBounds'
    BY <2>1 DEF WithinBounds, chat, walk
  <2> QED
    BY <2>4, <2>5, <2>6
<1>6. CASE TypeNothing(c)
  <2> DEFINE gone == [message_mgmt EXCEPT ![c] = Nothing]
  <2>1. /\ pc[c] = "got" /\ pc' = [pc EXCEPT ![c] = "died"] /\ message_mgmt' = gone
        /\ calm' = "no" /\ screen' = [screen EXCEPT ![c] = <<>>]
        /\ UNCHANGED <<mgmt_msg, waiting, entries, sub, chat, toType, orderly>>
    BY <1>6 DEF TypeNothing, InChat
  <2>2. gone \in [Procs -> Messages] /\ gone["server"] = message_mgmt["server"]
    BY DEF QueueTyped, Messages
  <2> HIDE DEF gone
  <2>3. QueueTyped' /\ Blocked' /\ pc'["server"] = pc["server"]
    BY <2>1, <2>2, BlockedElsewhere DEF QueueTyped, Pcs
  <2>4. EntriesTyped' /\ Counted' /\ Filling'
    BY <2>1, <2>2, <2>3, EntriesStay
  <2>5. ChatTyped'
    <3>1. screen' \in [Clients -> Seq(Lines)]
      BY <2>1, EmptySeq DEF ChatTyped
    <3> QED
      BY <2>1, <3>1 DEF ChatTyped, chat, walk
  <2>6. WithinBounds'
    BY <2>1 DEF WithinBounds, chat, walk
  <2> QED
    BY <2>3, <2>4, <2>5, <2>6
<1> QED
  BY <1>1, <1>2, <1>3, <1>4, <1>5, <1>6 DEF ClientStep

\* chat_server stays within sub[] and history[], which mgmt_thread never shortens.
LEMMA ChatStepTyped == Typed /\ ChatStep => Typed'
<1> SUFFICES ASSUME Typed, ChatStep PROVE Typed'
  OBVIOUS
<1> USE DEF Typed
<1>1. UNCHANGED <<mgmt, entries>>
  BY DEF ChatStep, TakeLine, Walk, WalkEnds, Test, SendHistory, EndHistory, SendLast
<1>2. QueueTyped' /\ Blocked'
  BY <1>1 DEF mgmt, QueueTyped, Blocked
<1>3. Len(sub) \in Nat /\ Len(history) \in Nat /\ Len(text_snd) \in Nat
  BY LenProperties DEF EntriesTyped, ChatTyped
<1>4. ASSUME NEW line \in Lines, SendText(line)
      PROVE  text_snd' \in Seq([type : Ids, line : Lines]) /\ Len(text_snd') <= QueueMax
  <2> DEFINE m == [type |-> type, line |-> line]
  <2>1. m \in [type : Ids, line : Lines]
    BY DEF ChatTyped
  <2>2. CASE UNCHANGED text_snd
    BY <2>2 DEF ChatTyped
  <2>3. CASE Len(text_snd) < QueueMax /\ text_snd' = Append(text_snd, m)
    <3> HIDE DEF m
    <3> QED
      BY <1>3, <2>1, <2>3, AppendProperties, SizesAssumption DEF ChatTyped
  <2> QED
    BY <1>4, <2>2, <2>3 DEF SendText
<1>5. ASSUME UNCHANGED sub PROVE EntriesTyped' /\ Counted' /\ Filling'
  BY <1>1, <1>5, EntriesStay DEF mgmt
<1>6. CASE TakeLine
  <2>1. /\ text_rcv # <<>> /\ tpc' = "walk" /\ number_sub' = 1
        /\ history' = Append(history, Head(text_rcv)) /\ text_rcv' = Tail(text_rcv)
        /\ UNCHANGED <<sub, number_hist, type, text_snd, users, notes>>
    BY <1>6 DEF TakeLine
  <2>2. /\ Head(text_rcv) \in Lines /\ text_rcv' \in Seq(Lines)
        /\ Len(text_rcv') = Len(text_rcv) - 1 /\ Len(text_rcv) \in Nat
    BY <2>1, HeadTailProperties, LenProperties DEF ChatTyped
  <2>3. history' \in Seq(Lines) /\ Len(history') = Len(history) + 1
    BY <2>1, <2>2, AppendProperties DEF ChatTyped
  <2>4. ChatTyped'
    BY <2>1, <2>2, <2>3, SizesAssumption DEF ChatTyped, users, notes, Ids
  <2>5. history' # <<>>
    BY <1>3, <2>3, EmptySeq
  <2>6. WithinBounds'
    BY <1>3, <2>1, <2>2, <2>3, <2>5 DEF WithinBounds, users, ChatTyped
  <2> QED
    BY <1>2, <1>5, <2>1, <2>4, <2>6
<1>7. CASE Walk
  <2>1. /\ tpc = "walk" /\ number_sub <= Len(sub) /\ type' = sub[number_sub].id /\ tpc' = "test"
        /\ calm' \in {calm, "no"}
        /\ UNCHANGED <<sub, number_sub, number_hist, history, text_rcv, text_snd, users, orderly>>
    BY <1>7 DEF Walk
  <2>2. number_sub \in 1 .. Len(sub)
    BY <1>3, <2>1 DEF WithinBounds
  <2>3. sub[number_sub] \in Entry
    BY <2>2, ElementOfSeq DEF EntriesTyped
  <2>4. type' \in Ids
    BY <2>1, <2>3 DEF Entry
  <2>5. ChatTyped'
    BY <2>1, <2>4 DEF ChatTyped, users
  <2>6. WithinBounds'
    BY <1>3, <2>1, <2>2 DEF WithinBounds, users
  <2> QED
    BY <1>2, <1>5, <2>1, <2>5, <2>6
<1>8. CASE WalkEnds
  <2>1. /\ tpc' = "wait" /\ number_sub' = 0 /\ type' = 0
        /\ UNCHANGED <<sub, number_hist, history, text_rcv, text_snd, users, notes>>
    BY <1>8 DEF WalkEnds
  <2>2. ChatTyped' /\ WithinBounds'
    BY <2>1, SizesAssumption DEF ChatTyped, WithinBounds, users, notes, Ids
  <2> QED
    BY <1>2, <1>5, <2>1, <2>2
<1>9. CASE Test
  <2>1. /\ tpc = "test" /\ tpc' \in {"hist", "last"}
        /\ tpc' = "hist" => number_hist' = 1
        /\ number_hist' \in {number_hist, 1}
        /\ UNCHANGED <<sub, number_sub, type, history, text_rcv, text_snd, users, notes>>
    BY <1>9 DEF Test, FirstShown
  <2>2. ChatTyped'
    BY <2>1, SizesAssumption DEF ChatTyped, users, notes
  <2>3. WithinBounds'
    BY <1>3, <2>1 DEF WithinBounds, users
  <2> QED
    BY <1>2, <1>5, <2>1, <2>2, <2>3
<1>10. CASE SendHistory
  <2>1. /\ tpc = "hist" /\ number_hist <= Len(history) /\ number_hist' = number_hist + 1
        /\ SendText(history[number_hist])
        /\ UNCHANGED <<sub, tpc, number_sub, type, history, text_rcv, users, notes>>
    BY <1>10 DEF SendHistory
  <2>2. number_hist \in 1 .. Len(history) /\ Len(history) <= MaxLines
    <3>1. Len(text_rcv) \in Nat
      BY LenProperties DEF ChatTyped
    <3> QED
      BY <1>3, <2>1, <3>1, SizesAssumption DEF WithinBounds, ChatTyped
  <2>3. history[number_hist] \in Lines
    BY <2>2, ElementOfSeq DEF ChatTyped
  <2>4. text_snd' \in Seq([type : Ids, line : Lines]) /\ Len(text_snd') <= QueueMax
    BY <1>4, <2>1, <2>3
  <2>5. number_hist' \in 0 .. MaxLines + 1
    BY <1>3, <2>1, <2>2, SizesAssumption
  <2>6. ChatTyped'
    BY <2>1, <2>4, <2>5 DEF ChatTyped, users, notes
  <2>7. WithinBounds'
    BY <1>3, <2>1, <2>2 DEF WithinBounds, users
  <2> QED
    BY <1>2, <1>5, <2>1, <2>6, <2>7
<1>11. CASE EndHistory
  <2>1. /\ tpc = "hist" /\ tpc' = "walk" /\ number_hist' = 0 /\ number_sub' = number_sub + 1
        /\ sub' = [sub EXCEPT ![number_sub] = Known(sub[number_sub])]
        /\ UNCHANGED <<type, history, text_rcv, text_snd, users, notes>>
    BY <1>11 DEF EndHistory
  <2>2. number_sub \in 1 .. Len(sub) /\ Len(sub) <= MaxSubs
    BY <1>3, <2>1 DEF WithinBounds, EntriesTyped
  <2>3. sub[number_sub] \in Entry
    BY <2>2, ElementOfSeq DEF EntriesTyped
  <2>4. Known(sub[number_sub]) \in Entry /\ Known(sub[number_sub]).name = sub[number_sub].name
    BY <2>3 DEF Entry, Known
  <2>5. /\ sub' \in Seq(Entry) /\ Len(sub') = Len(sub)
        /\ \A i \in 1 .. Len(sub) :
               sub'[i] = IF i = number_sub THEN Known(sub[number_sub]) ELSE sub[i]
    BY <2>1, <2>2, <2>4, ExceptSeq DEF EntriesTyped
  <2>6. \A i \in 1 .. Len(sub) : sub'[i].name = sub[i].name
    BY <2>4, <2>5
  <2>7. Named' = Named
    BY <2>5, <2>6 DEF Named
  <2>8. EntriesTyped' /\ Counted' /\ Filling'
    BY <1>1, <2>5, <2>6, <2>7 DEF EntriesTyped, Counted, Filling, entries, mgmt
  <2>9. ChatTyped'
    BY <1>3, <2>1, <2>2, SizesAssumption DEF ChatTyped, users, notes, Ids
  <2>10. WithinBounds'
    BY <1>3, <2>1, <2>2, <2>5 DEF WithinBounds, users
  <2> QED
    BY <1>2, <2>8, <2>9, <2>10
<1>12. CASE SendLast
  <2>1. /\ tpc = "last" /\ tpc' = "walk" /\ number_sub' = number_sub + 1
        /\ SendText(history[Len(history)])
        /\ UNCHANGED <<sub, number_hist, type, history, text_rcv, users, notes>>
    BY <1>12 DEF SendLast
  <2>2. number_sub \in 1 .. Len(sub) /\ Len(sub) <= MaxSubs /\ history # <<>>
    BY <1>3, <2>1 DEF WithinBounds, EntriesTyped
  <2>3. history[Len(history)] \in Lines
    BY <1>3, <2>2, ElementOfSeq, EmptySeq DEF ChatTyped
  <2>4. text_snd' \in Seq([type : Ids, line : Lines]) /\ Len(text_snd') <= QueueMax
    BY <1>4, <2>1, <2>3
  <2>5. ChatTyped'
    BY <1>3, <2>1, <2>2, <2>4, SizesAssumption DEF ChatTyped, users, notes, Ids
  <2>6. WithinBounds'
    BY <1>3, <2>1, <2>2 DEF WithinBounds, users
  <2> QED
    BY <1>2, <1>5, <2>1, <2>5, <2>6
<1> QED
  BY <1>6, <1>7, <1>8, <1>9, <1>10, <1>11, <1>12 DEF ChatStep

LEMMA TypedStep == Typed /\ [Next]_vars => Typed'
<1> SUFFICES ASSUME Typed, [Next]_vars PROVE Typed'
  OBVIOUS
<1>1. CASE MgmtStep
  BY <1>1, AskTyped, SeeExitTyped, SeeNameTyped, SetIdTyped, SetNewTyped, AnswerTyped DEF MgmtStep
<1>2. CASE ChatStep
  BY <1>2, ChatStepTyped
<1>3. CASE \E c \in Clients : ClientStep(c)
  BY <1>3, ClientTyped
<1>4. CASE UNCHANGED vars
  BY <1>4, EntriesStay, ChatStays
     DEF vars, mgmt, notes, Typed, QueueTyped, Blocked, ChatTyped
<1> QED
  BY <1>1, <1>2, <1>3, <1>4 DEF Next

THEOREM AlwaysTyped == Spec => []Typed
BY InitTyped, TypedStep, PTL DEF Spec

\* Every variable keeps its type: neither thread of the server leaves sub[] or
\* history[], and the search for a leaver meets no empty place.
THEOREM TypeCorrect == Spec => []TypeOK
BY AlwaysTyped, TypedIsTypeOK, PTL

-----------------------------------------------------------------------------
(* Ids.                                                                     *)

\* What Receive does to p, to the server's list and to the queue.
LEMMA ReceiveEffect ==
    ASSUME QueueTyped, NEW p \in Procs, Receive(p)
    PROVE  /\ \A q \in Procs \ {p} : pc'[q] = pc[q] /\ message_mgmt'[q] = message_mgmt[q]
           /\ mgmt_msg = <<>> => pc'[p] = "waits" /\ mgmt_msg' = mgmt_msg /\ orderly' = orderly
           /\ mgmt_msg # <<>> =>
                  /\ pc'[p] = "got" /\ message_mgmt'[p] = mgmt_msg[1]
                  /\ orderly' = "yes" => orderly = "yes" /\ IsFor(p, mgmt_msg[1])
                  /\ Len(mgmt_msg) \in Nat /\ 1 \in 1 .. Len(mgmt_msg)
                  /\ Len(mgmt_msg') = Len(mgmt_msg) - 1
                  /\ \A k \in 1 .. Len(mgmt_msg') :
                         k + 1 \in 1 .. Len(mgmt_msg) /\ mgmt_msg'[k] = mgmt_msg[k + 1]
<1>1. CASE mgmt_msg = <<>>
  BY <1>1 DEF Receive, QueueTyped, notes
<1>2. CASE mgmt_msg # <<>>
  <2>1. /\ Head(mgmt_msg) = mgmt_msg[1] /\ Len(mgmt_msg) \in Nat /\ Len(mgmt_msg) >= 1
        /\ Len(Tail(mgmt_msg)) = Len(mgmt_msg) - 1
        /\ \A k \in 1 .. Len(Tail(mgmt_msg)) : Tail(mgmt_msg)[k] = mgmt_msg[k + 1]
    BY <1>2, HeadTailProperties, LenProperties, EmptySeq DEF QueueTyped
  <2>2. /\ pc' = [pc EXCEPT ![p] = "got"] /\ mgmt_msg' = Tail(mgmt_msg)
        /\ message_mgmt' = [message_mgmt EXCEPT ![p] = Head(mgmt_msg)]
        /\ Note(IsFor(p, Head(mgmt_msg)))
    BY <1>2 DEF Receive
  <2>3. orderly' = "yes" => orderly = "yes" /\ IsFor(p, mgmt_msg[1])
    BY <2>1, <2>2 DEF Note
  <2>4. \A k \in 1 .. Len(mgmt_msg') : k + 1 \in 1 .. Len(mgmt_msg)
    BY <2>1, <2>2
  <2>5. /\ pc'[p] = "got" /\ message_mgmt'[p] = mgmt_msg[1]
        /\ \A q \in Procs \ {p} : pc'[q] = pc[q] /\ message_mgmt'[q] = message_mgmt[q]
    BY <2>1, <2>2 DEF QueueTyped
  <2>6. /\ Len(mgmt_msg') = Len(mgmt_msg) - 1 /\ 1 \in 1 .. Len(mgmt_msg)
        /\ \A k \in 1 .. Len(mgmt_msg') : mgmt_msg'[k] = mgmt_msg[k + 1]
    BY <2>1, <2>2
  <2> QED
    BY <1>2, <2>1, <2>3, <2>4, <2>5, <2>6, Zenon
<1> QED
  BY <1>1, <1>2

\* Steps that touch neither the queue nor what the entries say of their clients.
LEMMA OrderlyStays ==
    ASSUME Orderly, UNCHANGED <<mgmt, entries>>, orderly' = orderly,
           Len(sub') = Len(sub),
           \A i \in 1 .. Len(sub) : sub'[i].name = sub[i].name /\ sub'[i].id = sub[i].id,
           Len(sub) \in Nat, count \in Nat
    PROVE  Orderly'
<1> SUFFICES ASSUME orderly = "yes" PROVE InPlace' /\ Addressed' /\ ExitInTurn'
  BY DEF Orderly
<1>1. InPlace /\ Addressed /\ ExitInTurn
  BY DEF Orderly
<1>2. InPlace'
  BY <1>1 DEF InPlace, mgmt, entries
<1>3. \A c, i : Registered(c, i) => Registered(c, i)'
  BY DEF Registered, mgmt, entries
<1>4. Addressed'
  BY <1>1, <1>3 DEF Addressed, InChat, mgmt
<1>5. ExitInTurn'
  <2>1. pc["server"] = "got" /\ message_mgmt["server"].kind = "exit" => sub'[count].name = sub[count].name
    <3> SUFFICES ASSUME pc["server"] = "got", message_mgmt["server"].kind = "exit"
                 PROVE  sub'[count].name = sub[count].name
      OBVIOUS
    <3>1. count > 0 /\ count <= Len(sub)
      BY <1>1 DEF ExitInTurn, InPlace
    <3>2. count \in 1 .. Len(sub)
      BY <3>1
    <3> QED
      BY <3>2
  <2> QED
    BY <1>1, <2>1 DEF ExitInTurn, mgmt, entries
<1> QED
  BY <1>2, <1>4, <1>5

\* Clients are registered under one id each, in different places.
LEMMA OrderlyIsOwnIds == Typed /\ Orderly => OwnIds
<1> SUFFICES ASSUME Typed, Orderly, orderly = "yes", NEW c \in Clients, InChat(c)
             PROVE  /\ \E i \in 1 .. Len(sub) : sub[i].name = c /\ sub[i].id = Id(c)
                    /\ \A d \in Clients \ {c} : InChat(d) => Id(d) # Id(c)
  BY DEF OwnIds
<1>1. \A d \in Clients : InChat(d) => Registered(d, Id(d))
  BY DEF Orderly, Addressed, Id
<1>2. count \in Nat /\ Len(sub) \in Nat
  BY LenProperties DEF Typed, EntriesTyped, Ids
<1>3. Id(c) \in 1 .. Len(sub) /\ sub[Id(c)].name = c /\ sub[Id(c)].id = Id(c)
  BY <1>1, <1>2 DEF Registered
<1>4. \A d \in Clients \ {c} : InChat(d) => Id(d) # Id(c)
  BY <1>1, <1>3 DEF Registered
<1> QED
  BY <1>3, <1>4

LEMMA InitOrderly == Init => Orderly
<1> SUFFICES ASSUME Init PROVE InPlace /\ Addressed /\ ExitInTurn
  BY DEF Orderly
<1>1. pc["server"] = "ask" /\ \A c \in Clients : pc[c] # "got"
  BY ServerApart DEF Init
<1> QED
  BY <1>1, EmptySeq DEF Init, InPlace, Addressed, ExitInTurn, InChat

LEMMA ChatStepOrderly == Typed /\ Orderly /\ ChatStep => Orderly'
<1> SUFFICES ASSUME Typed, Orderly, ChatStep PROVE Orderly'
  OBVIOUS
<1>1. UNCHANGED <<mgmt, entries>> /\ orderly' = orderly
  BY DEF ChatStep, TakeLine, Walk, WalkEnds, Test, SendHistory, EndHistory, SendLast, notes
<1>2. count \in Nat /\ Len(sub) \in Nat
  BY LenProperties DEF Typed, EntriesTyped, Ids
<1>3. CASE EndHistory
  <2>1. number_sub \in 1 .. Len(sub) /\ sub' = [sub EXCEPT ![number_sub] = Known(sub[number_sub])]
    BY <1>2, <1>3 DEF EndHistory, Typed, WithinBounds
  <2>2. sub[number_sub] \in Entry /\ sub \in Seq(Entry)
    BY <2>1, ElementOfSeq DEF Typed, EntriesTyped
  <2>3. /\ Known(sub[number_sub]) \in Entry
        /\ Known(sub[number_sub]).name = sub[number_sub].name
        /\ Known(sub[number_sub]).id = sub[number_sub].id
    BY <2>2 DEF Known, Entry
  <2>4. /\ Len(sub') = Len(sub)
        /\ \A i \in 1 .. Len(sub) :
               sub'[i] = IF i = number_sub THEN Known(sub[number_sub]) ELSE sub[i]
    BY <2>1, <2>2, <2>3, EntryPut
  <2>5. \A i \in 1 .. Len(sub) : sub'[i].name = sub[i].name /\ sub'[i].id = sub[i].id
    BY <2>3, <2>4
  <2> QED
    BY <1>1, <1>2, <2>4, <2>5, OrderlyStays
<1>4. CASE UNCHANGED sub
  BY <1>1, <1>2, <1>4, OrderlyStays
<1> QED
  BY <1>3, <1>4 DEF ChatStep, TakeLine, Walk, WalkEnds, Test, SendHistory, SendLast

LEMMA AskOrderly == Typed /\ Orderly /\ Ask => Orderly'
<1> SUFFICES ASSUME Typed, Orderly, Ask, orderly' = "yes"
             PROVE  InPlace' /\ Addressed' /\ ExitInTurn'
  BY DEF Orderly
<1> USE ServerApart
<1>1. /\ QueueTyped /\ pc["server"] = "ask" /\ Receive("server")
      /\ UNCHANGED <<count, slot, sub>>
  BY DEF Ask, Typed, entries
<1>2. orderly = "yes" /\ \A c \in Clients : pc'[c] = pc[c] /\ message_mgmt'[c] = message_mgmt[c]
  BY <1>1, ReceiveEffect
<1>3. InPlace /\ Addressed /\ ExitInTurn
  BY <1>2 DEF Orderly
<1>4. \A c, i : Registered(c, i) => Registered(c, i)'
  BY <1>1 DEF Registered
<1>5. CASE mgmt_msg = <<>>
  <2>1. pc'["server"] = "waits" /\ mgmt_msg' = mgmt_msg
    BY <1>1, <1>5, ReceiveEffect
  <2> QED
    BY <1>1, <1>2, <1>3, <1>4, <2>1 DEF InPlace, Addressed, ExitInTurn, InChat
<1>6. CASE mgmt_msg # <<>>
  <2>1. /\ pc'["server"] = "got" /\ message_mgmt'["server"] = mgmt_msg[1]
        /\ IsFor("server", mgmt_msg[1]) /\ 1 \in 1 .. Len(mgmt_msg)
        /\ \A k \in 1 .. Len(mgmt_msg') :
               k + 1 \in 1 .. Len(mgmt_msg) /\ mgmt_msg'[k] = mgmt_msg[k + 1]
    BY <1>1, <1>6, ReceiveEffect
  <2>2. mgmt_msg[1].kind = "name"
    BY <1>3, <2>1 DEF Addressed, IsFor
  <2>3. InPlace'
    BY <1>1, <1>3, <2>1 DEF InPlace
  <2>4. Addressed'
    BY <1>2, <1>3, <1>4, <2>1 DEF Addressed, InChat
  <2>5. ExitInTurn'
    BY <2>1, <2>2 DEF ExitInTurn
  <2> QED
    BY <2>3, <2>4, <2>5
<1> QED
  BY <1>5, <1>6

\* The last subscriber's place is the one whose id its exit carries.
LEMMA SeeExitOrderly == Typed /\ Orderly /\ SeeExit => Orderly'
<1> SUFFICES ASSUME Typed, Orderly, SeeExit, orderly' = "yes"
             PROVE  InPlace' /\ Addressed' /\ ExitInTurn'
  BY DEF Orderly
<1> USE ServerApart
<1>1. /\ pc["server"] = "got" /\ message_mgmt["server"].kind = "exit" /\ orderly = "yes"
      /\ slot' = slot
  BY DEF SeeExit, Got, notes
<1>2. InPlace /\ Addressed /\ ExitInTurn
  BY <1>1 DEF Orderly
<1>3. Len(sub) \in Nat /\ count \in Nat
  BY LenProperties DEF Typed, EntriesTyped, Ids
<1>0. sub \in Seq(Entry) /\ QueueTyped
  BY DEF Typed, EntriesTyped
<1> DEFINE m == message_mgmt["server"]
<1>4. /\ m.id = count /\ count > 0 /\ sub[count].name = m.who /\ pc[m.who] = "left"
      /\ \A k \in 1 .. Len(mgmt_msg) : mgmt_msg[k].kind = "name"
  BY <1>1, <1>2 DEF ExitInTurn
<1>5. /\ count <= Len(sub)
      /\ \A i \in 1 .. Len(sub) : sub[i].name = "null" <=> i > count
      /\ \A i \in 1 .. count : sub[i].id = i
  <2>1. count <= Len(sub)
    BY <1>1, <1>2 DEF InPlace
  <2>2. \A i \in 1 .. count : i \in 1 .. Len(sub) /\ i <= count
    BY <1>3, <2>1
  <2> QED
    BY <1>1, <1>2, <2>1, <2>2 DEF InPlace
<1>6. WithId(m.id) = {count} /\ First({count}) = count
  <2>1. WithId(count) = {i \in 1 .. count : sub[i].id = count}
    BY DEF WithId
  <2>2. \A i \in 1 .. count : sub[i].id = count <=> i = count
    BY <1>5
  <2>3. count \in 1 .. count
    BY <1>3, <1>4
  <2>4. WithId(count) = {count}
    BY <2>1, <2>2, <2>3
  <2>5. First({count}) \in {count}
    BY <1>3, FirstIsLeast
  <2> QED
    BY <1>4, <2>4, <2>5
<1>7. /\ count' = count - 1 /\ sub' = [sub EXCEPT ![count] = Nameless(sub[count])]
  BY <1>6 DEF SeeExit, CountAfterExit
<1>8. /\ Len(sub') = Len(sub)
      /\ \A i \in 1 .. Len(sub) : sub'[i].id = sub[i].id
      /\ \A i \in 1 .. Len(sub) : sub'[i].name = IF i = count THEN "null" ELSE sub[i].name
  <2>1. count \in 1 .. Len(sub)
    BY <1>3, <1>4, <1>5
  <2>2. sub[count] \in Entry
    BY <1>0, <1>3, <2>1, ElementOfSeq
  <2>3. /\ Nameless(sub[count]) \in Entry /\ Nameless(sub[count]).name = "null"
        /\ Nameless(sub[count]).id = sub[count].id
    BY <2>2 DEF Nameless, Entry
  <2>4. /\ Len(sub') = Len(sub)
        /\ \A i \in 1 .. Len(sub) : sub'[i] = IF i = count THEN Nameless(sub[count]) ELSE sub[i]
    BY <1>0, <1>3, <1>7, <2>1, <2>3, EntryPut
  <2> QED
    BY <2>3, <2>4
<1>9. /\ pc'["server"] \in {"ask", "ended"}
      /\ \A c \in Clients : pc'[c] = "got" => pc[c] = "got" /\ message_mgmt'[c] = message_mgmt[c]
      /\ mgmt_msg' = <<>> \/ mgmt_msg' = mgmt_msg
  <2>1. /\ message_mgmt' = [message_mgmt EXCEPT !["server"] = Nothing]
        /\ \/ /\ pc' = [p \in Procs |-> IF p = "server" THEN "ended"
                                        ELSE IF pc[p] = "waits" THEN "died" ELSE pc[p]]
              /\ mgmt_msg' = <<>>
           \/ pc' = [pc EXCEPT !["server"] = "ask"] /\ mgmt_msg' = mgmt_msg
    BY DEF SeeExit
  <2> QED
    BY <1>0, <1>3, <2>1 DEF QueueTyped
<1>10. InPlace'
  BY <1>3, <1>4, <1>5, <1>7, <1>8, <1>9 DEF InPlace
<1>11. Addressed'
  <2>1. \A k \in 1 .. Len(mgmt_msg') : mgmt_msg'[k].kind = "name"
    BY <1>4, <1>9, EmptySeq
  <2>2. ASSUME NEW c \in Clients, pc'[c] = "got"
        PROVE  message_mgmt'[c].kind = "id" /\ Registered(c, message_mgmt[c].id)'
    <3> DEFINE i == message_mgmt[c].id
    <3>1. pc[c] = "got" /\ message_mgmt'[c] = message_mgmt[c]
      BY <1>9, <2>2
    <3>2. message_mgmt[c].kind = "id" /\ Registered(c, i)
      BY <1>2, <3>1 DEF Addressed, InChat
    <3>3. c # m.who
      BY <1>4, <3>1
    <3>4. i \in 1 .. count /\ i <= Len(sub) /\ sub[i].name = c /\ sub[i].id = i
      BY <3>2 DEF Registered
    <3> HIDE DEF i
    <3>5. i # count
      BY <1>4, <3>3, <3>4
    <3>6. i \in 1 .. count' /\ i <= Len(sub') /\ sub'[i].name = c /\ sub'[i].id = i
      BY <1>3, <1>7, <1>8, <3>4, <3>5
    <3> QED
      BY <3>1, <3>2, <3>6 DEF Registered, i
  <2> QED
    BY <2>1, <2>2 DEF Addressed, InChat
<1>12. ExitInTurn'
  BY <1>9 DEF ExitInTurn
<1> QED
  BY <1>10, <1>11, <1>12

\* The next place is the first vacant one.
LEMMA NextPlace ==
    ASSUME Typed, InPlace, SeeName
    PROVE  LET fresh == [id |-> 0, name |-> "unset", new_sub |-> 0]
           IN  /\ slot' = count + 1 /\ message_mgmt' = message_mgmt
               /\ pc' = [pc EXCEPT !["server"] = IF slot' > MaxSubs THEN "overflow" ELSE "entry"]
               /\ sub' = IF slot' > MaxSubs THEN sub
                         ELSE IF slot' > Len(sub) THEN Append(sub, fresh)
                         ELSE [sub EXCEPT ![slot'] = fresh]
<1>1. pc["server"] = "got" /\ count' = count + 1
  BY DEF SeeName, Got
<1>3. Len(sub) \in Nat /\ count \in Nat
  BY LenProperties DEF Typed, EntriesTyped, Ids
<1>4. count <= Len(sub) /\ \A i \in 1 .. Len(sub) : sub[i].name = "null" <=> i > count
  BY <1>1 DEF InPlace
<1> DEFINE free == Places(sub, count', 1)
           fresh == [id |-> 0, name |-> "unset", new_sub |-> 0]
<1>5. free = {count + 1} /\ First({count + 1}) = count + 1
  <2>1. free = {j \in 1 .. count + 1 : Vacant(sub, j)}
    BY <1>1 DEF Places
  <2>2. \A j \in 1 .. count + 1 : Vacant(sub, j) <=> j = count + 1
    <3> SUFFICES ASSUME NEW j \in 1 .. count + 1 PROVE Vacant(sub, j) <=> j = count + 1
      OBVIOUS
    <3>1. Vacant(sub, j) <=> j > Len(sub) \/ sub[j].name = "null"
      BY Zenon DEF Vacant
    <3>2. j > Len(sub) \/ j \in 1 .. Len(sub)
      BY <1>3
    <3> QED
      BY <1>3, <1>4, <3>1, <3>2
  <2>3. count + 1 \in 1 .. count + 1
    BY <1>3
  <2> HIDE DEF free
  <2>4. free = {count + 1}
    BY <2>1, <2>2, <2>3
  <2>5. First({count + 1}) \in {count + 1}
    BY <1>3, FirstIsLeast
  <2> QED
    BY <2>4, <2>5
<1>6. /\ slot' = count + 1 /\ message_mgmt' = message_mgmt
      /\ pc' = [pc EXCEPT !["server"] = IF slot' > MaxSubs THEN "overflow" ELSE "entry"]
      /\ sub' = IF slot' > MaxSubs THEN sub
                ELSE IF slot' > Len(sub) THEN Append(sub, fresh)
                ELSE [sub EXCEPT ![slot'] = fresh]
  BY <1>5 DEF SeeName
<1> QED
  BY <1>6

LEMMA SeeNameOrderly == Typed /\ Typed' /\ Orderly /\ SeeName => Orderly'
<1> SUFFICES ASSUME Typed, Typed', Orderly, SeeName, orderly' = "yes"
             PROVE  InPlace' /\ Addressed' /\ ExitInTurn'
  BY DEF Orderly
<1> USE ServerApart
<1>1. /\ pc["server"] = "got" /\ message_mgmt["server"].kind \in {"name", "id"}
      /\ orderly = "yes" /\ count' = count + 1 /\ mgmt_msg' = mgmt_msg
  BY DEF SeeName, Got, notes
<1>2. InPlace /\ Addressed /\ ExitInTurn
  BY <1>1 DEF Orderly
<1>3. Len(sub) \in Nat /\ count \in Nat
  BY LenProperties DEF Typed, EntriesTyped, Ids
<1>0. sub \in Seq(Entry) /\ QueueTyped
  BY DEF Typed, EntriesTyped
<1>4. count <= Len(sub) /\ \A i \in 1 .. Len(sub) : sub[i].name = "null" <=> i > count
  BY <1>1, <1>2 DEF InPlace
<1> DEFINE fresh == [id |-> 0, name |-> "unset", new_sub |-> 0]
<1>6. /\ slot' = count + 1 /\ message_mgmt' = message_mgmt
      /\ pc' = [pc EXCEPT !["server"] = IF slot' > MaxSubs THEN "overflow" ELSE "entry"]
      /\ sub' = IF slot' > MaxSubs THEN sub
                ELSE IF slot' > Len(sub) THEN Append(sub, fresh)
                ELSE [sub EXCEPT ![slot'] = fresh]
  BY <1>1, <1>2, NextPlace
<1>7. \A i \in 1 .. count : i \in 1 .. Len(sub') /\ sub'[i] = sub[i]
  <2>1. CASE sub' = sub
    BY <1>3, <1>4, <2>1
  <2>2. CASE sub' = Append(sub, fresh)
    <3>1. fresh \in Entry
      BY SizesAssumption DEF Entry, Ids
    <3> HIDE DEF fresh
    <3>2. Len(sub') = Len(sub) + 1 /\ \A i \in 1 .. Len(sub) : sub'[i] = sub[i]
      BY <1>0, <1>3, <2>2, <3>1, AppendProperties
    <3> QED
      BY <1>3, <1>4, <3>2
  <2>3. CASE sub' = [sub EXCEPT ![slot'] = fresh] /\ slot' <= Len(sub)
    <3>1. fresh \in Entry
      BY SizesAssumption DEF Entry, Ids
    <3> HIDE DEF fresh
    <3>2. slot' \in 1 .. Len(sub) /\ slot' = count + 1
      BY <1>3, <1>6, <2>3
    <3>3. /\ Len(sub') = Len(sub)
          /\ \A i \in 1 .. Len(sub) : sub'[i] = IF i = count + 1 THEN fresh ELSE sub[i]
      BY <1>0, <1>3, <2>3, <3>1, <3>2, EntryPut
    <3> QED
      BY <1>3, <1>4, <3>3
  <2> HIDE DEF fresh
  <2>4. slot' \in Nat
    BY <1>3, <1>6
  <2> QED
    BY <1>3, <1>6, <2>1, <2>2, <2>3, <2>4
<1>8. \A c, i : Registered(c, i) => Registered(c, i)'
  <2> SUFFICES ASSUME NEW c, NEW i, Registered(c, i) PROVE Registered(c, i)'
    OBVIOUS
  <2>1. i \in 1 .. count /\ sub[i].name = c /\ sub[i].id = i
    BY DEF Registered
  <2>2. i \in 1 .. Len(sub') /\ sub'[i] = sub[i] /\ i \in 1 .. count'
    BY <1>1, <1>3, <1>7, <2>1
  <2>3. i <= Len(sub')
    BY <2>2
  <2> QED
    BY <2>1, <2>2, <2>3 DEF Registered
<1>9. Addressed' /\ ExitInTurn'
  <2>1. /\ \A c \in Clients : pc'[c] = pc[c]
        /\ pc'["server"] \in {"overflow", "entry"}
    BY <1>0, <1>3, <1>6 DEF QueueTyped
  <2>2. Addressed'
    BY <1>1, <1>2, <1>6, <1>8, <2>1 DEF Addressed, InChat
  <2>3. ExitInTurn'
    BY <1>1, <1>2, <1>6, <2>1 DEF ExitInTurn
  <2> QED
    BY <2>2, <2>3
<1>10. InPlace'
  <2> SUFFICES ASSUME pc'["server"] # "overflow" PROVE InPlace'
    BY DEF InPlace
  <2>1. pc'["server"] = "entry"
    BY <1>0, <1>3, <1>6 DEF QueueTyped
  <2>2. slot' \in 1 .. Len(sub') /\ sub'[slot'].name = "unset" /\ Len(sub') \in Nat
    BY <2>1, LenProperties DEF Typed, Filling, EntriesTyped
  <2>3. Len(sub') = IF slot' > Len(sub) THEN Len(sub) + 1 ELSE Len(sub)
    <3>1. fresh \in Entry
      BY SizesAssumption DEF Entry, Ids
    <3>2. slot' <= MaxSubs
      BY <1>0, <1>3, <1>6, <2>1, SizesAssumption DEF QueueTyped
    <3> HIDE DEF fresh
    <3>3. CASE slot' > Len(sub)
      BY <1>0, <1>3, <1>6, <3>1, <3>2, <3>3, SizesAssumption, AppendProperties
    <3>4. CASE ~ (slot' > Len(sub))
      <4>1. sub' = [sub EXCEPT ![slot'] = fresh] /\ slot' \in 1 .. Len(sub)
        BY <1>3, <1>6, <3>2, <3>4, SizesAssumption
      <4>2. Len(sub') = Len(sub)
        BY <1>0, <1>3, <3>1, <4>1, EntryPut
      <4> QED
        BY <3>4, <4>2
    <3> QED
      BY <3>3, <3>4
  <2>4. ASSUME NEW i \in 1 .. Len(sub'), i > count + 1 PROVE sub'[i].name = "null"
    <3>1. fresh \in Entry
      BY SizesAssumption DEF Entry, Ids
    <3> HIDE DEF fresh
    <3>2. i \in 1 .. Len(sub) /\ ~ (slot' > Len(sub)) /\ slot' = count + 1
      BY <1>3, <1>4, <1>6, <2>3, <2>4
    <3>3. slot' <= MaxSubs
      BY <1>0, <1>3, <1>6, <2>1, SizesAssumption DEF QueueTyped
    <3>4. sub' = [sub EXCEPT ![slot'] = fresh] /\ slot' \in 1 .. Len(sub)
      BY <1>3, <1>6, <3>2, <3>3, SizesAssumption
    <3>5. sub'[i] = sub[i]
      BY <1>0, <1>3, <2>4, <3>1, <3>2, <3>4, EntryPut
    <3> QED
      BY <1>3, <1>4, <2>4, <3>2, <3>5
  <2>5. ASSUME NEW i \in 1 .. count PROVE sub'[i].name # "null" /\ sub'[i].id = i
    <3>1. sub'[i] = sub[i] /\ i \in 1 .. Len(sub) /\ i <= count
      BY <1>3, <1>4, <1>7
    <3>2. sub[i].id = i
      BY <1>1, <1>2, <3>1 DEF InPlace
    <3>3. sub[i].name # "null"
      BY <1>3, <1>4, <3>1
    <3> QED
      BY <3>1, <3>2, <3>3
  <2>6. ASSUME NEW i \in 1 .. Len(sub')
        PROVE  /\ sub'[i].name = "null" <=> i > count'
               /\ i <= count' => sub'[i].id = i \/ i = slot'
    <3>1. i > count + 1 \/ i = count + 1 \/ i \in 1 .. count
      BY <1>3, <2>2
    <3>2. slot' = count + 1 /\ count' = count + 1
      BY <1>1, <1>6
    <3> QED
      BY <1>3, <2>2, <2>4, <2>5, <3>1, <3>2
  <2>7. count' <= Len(sub') /\ slot' = count'
    BY <1>1, <1>3, <1>6, <2>2
  <2> QED
    BY <2>1, <2>6, <2>7 DEF InPlace
<1> QED
  BY <1>9, <1>10

LEMMA SetIdOrderly == Typed /\ Orderly /\ SetId => Orderly'
<1> SUFFICES ASSUME Typed, Orderly, SetId, orderly' = "yes"
             PROVE  InPlace' /\ Addressed' /\ ExitInTurn'
  BY DEF Orderly
<1> USE ServerApart
<1>1. /\ pc["server"] = "entry" /\ sub' = [sub EXCEPT ![slot] = Numbered(sub[slot], count)]
      /\ pc' = [pc EXCEPT !["server"] = "id"] /\ orderly = "yes"
      /\ UNCHANGED <<message_mgmt, mgmt_msg, waiting, count, slot>>
  BY DEF SetId, entries, notes
<1>2. InPlace /\ Addressed /\ ExitInTurn
  BY <1>1 DEF Orderly
<1>3. Len(sub) \in Nat /\ count \in Nat /\ slot = count /\ slot \in 1 .. Len(sub)
  BY <1>1, <1>2, LenProperties DEF Typed, EntriesTyped, Ids, InPlace, Filling
<1>4. /\ Len(sub') = Len(sub)
      /\ \A i \in 1 .. Len(sub) : sub'[i].name = sub[i].name
      /\ \A i \in 1 .. Len(sub) : sub'[i].id = IF i = slot THEN count ELSE sub[i].id
  <2>1. sub[slot] \in Entry /\ sub \in Seq(Entry)
    BY <1>3, ElementOfSeq DEF Typed, EntriesTyped
  <2>2. /\ Numbered(sub[slot], count) \in Entry /\ Numbered(sub[slot], count).id = count
        /\ Numbered(sub[slot], count).name = sub[slot].name
    BY <2>1 DEF Entry, Numbered, Typed, EntriesTyped
  <2>3. \A i \in 1 .. Len(sub) : sub'[i] = IF i = slot THEN Numbered(sub[slot], count) ELSE sub[i]
    BY <1>1, <1>3, <2>1, <2>2, EntryPut
  <2>4. Len(sub') = Len(sub)
    BY <1>1, <1>3, <2>1, <2>2, EntryPut
  <2> QED
    BY <2>2, <2>3, <2>4
<1>5. pc'["server"] = "id" /\ \A c \in Clients : pc'[c] = pc[c]
  BY <1>1 DEF Typed, QueueTyped
<1>6. InPlace'
  BY <1>1, <1>2, <1>3, <1>4, <1>5 DEF InPlace
<1>7. \A c, i : Registered(c, i) => Registered(c, i)'
  BY <1>1, <1>3, <1>4 DEF Registered
<1>8. Addressed'
  BY <1>1, <1>2, <1>5, <1>7 DEF Addressed, InChat
<1>9. ExitInTurn'
  BY <1>1, <1>2, <1>5 DEF ExitInTurn
<1> QED
  BY <1>6, <1>8, <1>9

LEMMA SetNewOrderly == Typed /\ Orderly /\ SetNew => Orderly'
<1> SUFFICES ASSUME Typed, Orderly, SetNew, orderly' = "yes"
             PROVE  InPlace' /\ Addressed' /\ ExitInTurn'
  BY DEF Orderly
<1> USE ServerApart
<1> DEFINE who == NameIn(message_mgmt["server"])
           e == [id |-> sub[slot].id, name |-> who, new_sub |-> 1]
<1>1. /\ pc["server"] = "id" /\ sub' = [sub EXCEPT ![slot] = e]
      /\ pc' = [pc EXCEPT !["server"] = "new"] /\ orderly = "yes"
      /\ UNCHANGED <<message_mgmt, mgmt_msg, waiting, count, slot>>
  BY DEF SetNew, entries, notes
<1>2. InPlace /\ Addressed /\ ExitInTurn
  BY <1>1 DEF Orderly
<1>3. Len(sub) \in Nat /\ count \in Nat /\ slot = count /\ slot \in 1 .. Len(sub)
  BY <1>1, <1>2, LenProperties DEF Typed, EntriesTyped, Ids, InPlace, Filling
<1>4. who \in Clients \cup {"digit"}
  BY <1>1, NameKept DEF Typed
<1> HIDE DEF who
<1>5. /\ Len(sub') = Len(sub)
      /\ \A i \in 1 .. Len(sub) : sub'[i].id = sub[i].id
      /\ \A i \in 1 .. Len(sub) : sub'[i].name = IF i = slot THEN who ELSE sub[i].name
  <2>1. sub[slot] \in Entry /\ sub \in Seq(Entry)
    BY <1>3, ElementOfSeq DEF Typed, EntriesTyped
  <2>2. e \in Entry /\ e.id = sub[slot].id /\ e.name = who
    BY <1>4, <2>1 DEF Entry
  <2> HIDE DEF e
  <2>3. /\ Len(sub') = Len(sub)
        /\ \A i \in 1 .. Len(sub) : sub'[i] = IF i = slot THEN e ELSE sub[i]
    BY <1>1, <1>3, <2>1, <2>2, EntryPut
  <2> QED
    BY <2>2, <2>3
<1> HIDE DEF e
<1>6. pc'["server"] = "new" /\ \A c \in Clients : pc'[c] = pc[c]
  BY <1>1 DEF Typed, QueueTyped
<1>7. sub[slot].name = "unset" /\ who # "null"
  BY <1>1, <1>4, NamesAssumption DEF Typed, Filling
<1>8. InPlace'
  BY <1>1, <1>2, <1>3, <1>5, <1>6, <1>7 DEF InPlace
<1>9. ASSUME NEW c \in Clients \cup {"digit"}, NEW i, Registered(c, i) PROVE Registered(c, i)'
  <2>1. i \in 1 .. count /\ i <= Len(sub) /\ sub[i].name = c /\ sub[i].id = i
    BY <1>9 DEF Registered
  <2>2. i # slot
    BY <1>7, <2>1, NamesAssumption
  <2>3. i \in 1 .. Len(sub)
    BY <1>3, <2>1
  <2>4. sub'[i].name = c /\ sub'[i].id = i
    BY <1>5, <2>1, <2>2, <2>3
  <2> QED
    BY <1>1, <1>5, <2>1, <2>4 DEF Registered
<1>10. Addressed'
  <2>1. \A k \in 1 .. Len(mgmt_msg) :
           mgmt_msg[k].kind = "id" => mgmt_msg[k].who \in Clients \cup {"digit"}
    BY ElementOfSeq, MessageFields DEF Typed, QueueTyped
  <2> QED
    BY <1>1, <1>2, <1>6, <1>9, <2>1 DEF Addressed, InChat
<1>11. ExitInTurn'
  BY <1>1, <1>2, <1>6 DEF ExitInTurn
<1> QED
  BY <1>8, <1>10, <1>11

\* The id reaches the client of the newest entry, whose place it is.
LEMMA AnswerOrderly == Typed /\ Orderly /\ Answer => Orderly'
<1> SUFFICES ASSUME Typed, Orderly, Answer, orderly' = "yes"
             PROVE  InPlace' /\ Addressed' /\ ExitInTurn'
  BY DEF Orderly
<1> USE ServerApart
<1> DEFINE next == IF Places(sub, count, slot + 1) = {} THEN "ask" ELSE "crashed"
           m == [kind |-> "id", who |-> sub[slot].name, id |-> NewId]
           box == [message_mgmt EXCEPT !["server"] = Nothing]
<1>1. /\ pc["server"] = "new" /\ SendFrom(box, "server", next, m) /\ Note(~Misled(m))
      /\ UNCHANGED <<count, sub>>
  BY DEF Answer
<1>2. orderly = "yes" /\ ~Misled(m)
  BY <1>1 DEF Note
<1>3. InPlace /\ Addressed /\ ExitInTurn
  BY <1>2 DEF Orderly
<1>4. Len(sub) \in Nat /\ count \in Nat /\ slot = count /\ slot \in 1 .. Len(sub)
  BY <1>1, <1>3, LenProperties DEF Typed, EntriesTyped, Ids, InPlace, Filling
<1>5. Registered(sub[slot].name, NewId) /\ sub[slot].name \in Clients \cup {"digit"}
  <2>1. sub[slot].id = slot
    BY <1>1, <1>3, <1>4 DEF InPlace
  <2> QED
    BY <1>1, <1>4, <2>1 DEF Registered, NewId, Typed, Filling
<1>6. /\ next \in {"ask", "crashed"} /\ m \in Messages /\ box \in [Procs -> Messages]
      /\ \A c \in Clients : box[c] = message_mgmt[c]
      /\ m.kind = "id" /\ m.who = sub[slot].name /\ m.id = NewId
  <2>1. sub[slot] \in Entry
    BY <1>4, ElementOfSeq DEF Typed, EntriesTyped
  <2>2. NewId \in Ids
    BY <2>1 DEF Entry, NewId
  <2>3. m \in Messages
    BY <1>5, <2>2 DEF Messages
  <2>4. box \in [Procs -> Messages] /\ \A c \in Clients : box[c] = message_mgmt[c]
    BY DEF Typed, QueueTyped, Messages
  <2> QED
    BY <2>3, <2>4
<1> HIDE DEF next, m, box
<1>7. pc'["server"] \in {"ask", "crashed"}
  BY <1>1, <1>6, SendEffect DEF Typed
<1>8. InPlace' /\ ExitInTurn'
  BY <1>1, <1>3, <1>7 DEF InPlace, ExitInTurn
<1>9. \A c, i : Registered(c, i) => Registered(c, i)'
  BY <1>1 DEF Registered
<1>10. CASE waiting = <<>>
  <2>1. /\ mgmt_msg' = Append(mgmt_msg, m)
        /\ \A c \in Clients : pc'[c] = pc[c] /\ message_mgmt'[c] = message_mgmt[c]
    BY <1>1, <1>6, <1>10, SendEffect DEF Typed
  <2>2. /\ Len(mgmt_msg') = Len(mgmt_msg) + 1 /\ Len(mgmt_msg) \in Nat
        /\ \A k \in 1 .. Len(mgmt_msg) : mgmt_msg'[k] = mgmt_msg[k]
        /\ mgmt_msg'[Len(mgmt_msg) + 1] = m
    BY <1>6, <2>1, AppendProperties, LenProperties DEF Typed, QueueTyped
  <2>3. \A k \in 1 .. Len(mgmt_msg') : k \in 1 .. Len(mgmt_msg) \/ k = Len(mgmt_msg) + 1
    BY <2>2
  <2>4. Addressed'
    BY <1>3, <1>5, <1>6, <1>9, <2>1, <2>2, <2>3 DEF Addressed, InChat
  <2> QED
    BY <1>8, <2>4
<1>11. CASE waiting # <<>>
  <2> DEFINE h == Head(waiting)
  <2>1. /\ mgmt_msg' = <<>> /\ h \in Procs \ {"server"} /\ message_mgmt'[h] = m
        /\ \A c \in Clients \ {h} : pc'[c] = pc[c] /\ message_mgmt'[c] = message_mgmt[c]
    BY <1>1, <1>6, <1>11, SendEffect DEF Typed
  <2>2. IsFor(h, m)
    BY <1>2, <1>11 DEF Misled
  <2> HIDE DEF h
  <2>3. h = m.who
    BY <2>1, <2>2 DEF IsFor
  <2>4. Addressed'
    BY <1>3, <1>5, <1>6, <1>9, <2>1, <2>3, EmptySeq DEF Addressed, InChat
  <2> QED
    BY <1>8, <2>4
<1> QED
  BY <1>10, <1>11

\* A message for the server: a name while anything may go on, an exit only from the
\* last subscriber while the server waits.
LEMMA ClientOrderly == ASSUME Typed, Orderly, NEW c \in Clients, ClientStep(c) PROVE Orderly'
<1> SUFFICES ASSUME orderly' = "yes" PROVE InPlace' /\ Addressed' /\ ExitInTurn'
  BY DEF Orderly
<1> USE ServerApart
<1>1. count \in Nat /\ Len(sub) \in Nat /\ QueueTyped /\ Blocked
  BY LenProperties DEF Typed, EntriesTyped, Ids
<1>2. CASE TypeLine(c) \/ PrintLine(c)
  <2>1. UNCHANGED <<mgmt, entries, sub, notes>>
    BY <1>2 DEF TypeLine, PrintLine
  <2>2. orderly' = orderly
    BY <2>1 DEF notes
  <2>3. Orderly'
    BY <1>1, <2>1, <2>2, OrderlyStays
  <2> QED
    BY <2>3 DEF Orderly
<1>3. CASE SendName(c)
  <2> DEFINE m == [kind |-> "name", who |-> c, id |-> 0]
  <2>1. /\ pc[c] = "off" /\ SendFrom(message_mgmt, c, "sent", m) /\ Note(~Misled(m))
        /\ UNCHANGED <<count, slot, sub>>
    BY <1>3 DEF SendName, Send, entries
  <2>2. orderly = "yes" /\ ~Misled(m)
    BY <2>1 DEF Note
  <2>3. InPlace /\ Addressed /\ ExitInTurn
    BY <2>2 DEF Orderly
  <2>4. m \in Messages /\ message_mgmt \in [Procs -> Messages] /\ m.kind = "name" /\ m.who = c
    BY <1>1, SizesAssumption DEF Messages, Ids, QueueTyped
  <2> HIDE DEF m
  <2>5. \A d, i : Registered(d, i) => Registered(d, i)'
    BY <2>1 DEF Registered
  <2>6. pc'[c] = "sent"
    BY <1>1, <2>1, <2>4, SendEffect
  <2>7. CASE waiting = <<>>
    <3>1. /\ mgmt_msg' = Append(mgmt_msg, m) /\ message_mgmt' = message_mgmt
          /\ \A q \in Procs \ {c} : pc'[q] = pc[q]
      BY <1>1, <2>1, <2>4, <2>7, SendEffect
    <3>2. /\ Len(mgmt_msg') = Len(mgmt_msg) + 1 /\ Len(mgmt_msg) \in Nat
          /\ \A k \in 1 .. Len(mgmt_msg) : mgmt_msg'[k] = mgmt_msg[k]
          /\ mgmt_msg'[Len(mgmt_msg) + 1] = m
      BY <1>1, <2>4, <3>1, AppendProperties, LenProperties DEF QueueTyped
    <3>3. \A k \in 1 .. Len(mgmt_msg') : k \in 1 .. Len(mgmt_msg) \/ k = Len(mgmt_msg) + 1
      BY <3>2
    <3>4. InPlace'
      BY <2>1, <2>3, <3>1 DEF InPlace
    <3>5. Addressed'
      BY <2>3, <2>4, <2>5, <2>6, <3>1, <3>2, <3>3 DEF Addressed, InChat
    <3>6. ExitInTurn'
      <4>1. pc'["server"] = pc["server"]
        BY <3>1
      <4>2. pc["server"] = "got" /\ message_mgmt["server"].kind = "exit" =>
                pc'[message_mgmt["server"].who] = "left"
        <5> SUFFICES ASSUME pc["server"] = "got", message_mgmt["server"].kind = "exit"
                     PROVE  pc'[message_mgmt["server"].who] = "left"
          OBVIOUS
        <5>1. message_mgmt["server"] \in Messages
          BY <1>1 DEF QueueTyped
        <5>2. message_mgmt["server"].who \in Clients /\ pc[message_mgmt["server"].who] = "left"
          BY <2>3, <5>1, MessageFields DEF ExitInTurn
        <5> QED
          BY <2>1, <3>1, <5>2
      <4> QED
        BY <2>1, <2>3, <2>4, <3>1, <3>2, <3>3, <4>1, <4>2 DEF ExitInTurn
    <3> QED
      BY <3>4, <3>5, <3>6
  <2>8. CASE waiting # <<>>
    <3> DEFINE h == Head(waiting)
    <3>1. /\ mgmt_msg' = <<>> /\ h \in Procs \ {c} /\ pc[h] = "waits" /\ pc'[h] = "got"
          /\ message_mgmt'[h] = m
          /\ \A q \in Procs \ {c, h} : pc'[q] = pc[q]
          /\ \A q \in Procs \ {h} : message_mgmt'[q] = message_mgmt[q]
      BY <1>1, <2>1, <2>4, <2>8, SendEffect
    <3>2. h = "server"
      BY <2>2, <2>4, <2>8 DEF Misled, IsFor
    <3> HIDE DEF h
    <3>3. InPlace'
      BY <2>1, <2>3, <3>1, <3>2 DEF InPlace
    <3>4. Addressed'
      <4>1. \A d \in Clients : pc'[d] = "got" => pc[d] = "got" /\ message_mgmt'[d] = message_mgmt[d]
        BY <2>6, <3>1, <3>2
      <4>2. Len(mgmt_msg') = 0
        BY <3>1, EmptySeq
      <4> QED
        BY <2>3, <2>5, <4>1, <4>2 DEF Addressed, InChat
    <3>5. ExitInTurn'
      BY <2>4, <3>1, <3>2 DEF ExitInTurn
    <3> QED
      BY <3>3, <3>4, <3>5
  <2> QED
    BY <2>7, <2>8
<1>4. CASE AskId(c)
  <2>1. pc[c] = "sent" /\ UNCHANGED <<count, slot, sub>>
    BY <1>4 DEF AskId, entries
  <2>2. \A d, i : Registered(d, i) => Registered(d, i)'
    BY <2>1 DEF Registered
  <2>3. ASSUME ExitInTurn, pc["server"] = "got", message_mgmt["server"].kind = "exit"
        PROVE  message_mgmt["server"].who \in Procs \ {c}
    <3>1. message_mgmt["server"] \in Messages
      BY <1>1 DEF QueueTyped
    <3>2. message_mgmt["server"].who \in Clients /\ pc[message_mgmt["server"].who] = "left"
      BY <2>3, <3>1, MessageFields DEF ExitInTurn
    <3> QED
      BY <2>1, <3>2
  <2>4. CASE Removed
    <3>1. /\ pc' = [pc EXCEPT ![c] = "died"]
          /\ UNCHANGED <<message_mgmt, mgmt_msg, orderly>>
      BY <1>4, <2>4 DEF AskId, notes
    <3>2. pc'[c] = "died" /\ \A q \in Procs \ {c} : pc'[q] = pc[q]
      BY <1>1, <3>1 DEF QueueTyped
    <3>3. InPlace /\ Addressed /\ ExitInTurn
      BY <3>1 DEF Orderly
    <3>4. InPlace' /\ ExitInTurn'
      BY <2>1, <2>4, <3>2, <3>3 DEF InPlace, ExitInTurn, Removed
    <3>5. Addressed'
      BY <2>2, <3>1, <3>2, <3>3 DEF Addressed, InChat
    <3> QED
      BY <3>4, <3>5
  <2>5. CASE ~ Removed
    <3>1. Receive(c)
      BY <1>4, <2>5 DEF AskId
    <3>2. \A q \in Procs \ {c} : pc'[q] = pc[q] /\ message_mgmt'[q] = message_mgmt[q]
      BY <1>1, <3>1, ReceiveEffect
    <3>3. CASE mgmt_msg = <<>>
      <4>1. pc'[c] = "waits" /\ mgmt_msg' = mgmt_msg /\ orderly = "yes"
        BY <1>1, <3>1, <3>3, ReceiveEffect
      <4>2. InPlace /\ Addressed /\ ExitInTurn
        BY <4>1 DEF Orderly
      <4>3. InPlace'
        BY <2>1, <3>2, <4>2 DEF InPlace
      <4>4. Addressed'
        BY <2>2, <3>2, <4>1, <4>2 DEF Addressed, InChat
      <4>5. ExitInTurn'
        BY <2>1, <2>3, <3>2, <4>1, <4>2 DEF ExitInTurn
      <4> QED
        BY <4>3, <4>4, <4>5
    <3>4. CASE mgmt_msg # <<>>
      <4>1. /\ pc'[c] = "got" /\ message_mgmt'[c] = mgmt_msg[1]
            /\ orderly = "yes" /\ IsFor(c, mgmt_msg[1]) /\ 1 \in 1 .. Len(mgmt_msg)
            /\ \A k \in 1 .. Len(mgmt_msg') :
                   k + 1 \in 1 .. Len(mgmt_msg) /\ mgmt_msg'[k] = mgmt_msg[k + 1]
        BY <1>1, <3>1, <3>4, ReceiveEffect
      <4>2. InPlace /\ Addressed /\ ExitInTurn
        BY <4>1 DEF Orderly
      <4>3. mgmt_msg[1].kind = "id" /\ mgmt_msg[1].who = c
        BY <4>1 DEF IsFor
      <4>4. Registered(c, mgmt_msg[1].id)
        BY <4>1, <4>2, <4>3 DEF Addressed
      <4>5. InPlace'
        BY <2>1, <3>2, <4>2 DEF InPlace
      <4>6. Addressed'
        BY <2>2, <3>2, <4>1, <4>2, <4>3, <4>4 DEF Addressed, InChat
      <4>7. ExitInTurn'
        BY <2>1, <2>3, <3>2, <4>1, <4>2 DEF ExitInTurn
      <4> QED
        BY <4>5, <4>6, <4>7
    <3> QED
      BY <3>3, <3>4
  <2> QED
    BY <2>4, <2>5
<1>5. CASE Leave(c)
  <2> DEFINE m == [kind |-> "exit", who |-> c, id |-> Id(c)]
             gone == [message_mgmt EXCEPT ![c] = Nothing]
  <2>1. pc[c] = "got" /\ UNCHANGED <<count, slot, sub>>
    BY <1>5 DEF Leave, InChat, entries
  <2>2. \A d, i : Registered(d, i) => Registered(d, i)'
    BY <2>1 DEF Registered
  <2>3. gone \in [Procs -> Messages] /\ \A q \in Procs \ {c} : gone[q] = message_mgmt[q]
    BY <1>1 DEF QueueTyped, Messages
  <2>4. CASE Removed
    <3>1. /\ pc' = [pc EXCEPT ![c] = "left"] /\ message_mgmt' = gone
          /\ UNCHANGED <<mgmt_msg, orderly>>
      BY <1>5, <2>4 DEF Leave
    <3> HIDE DEF gone
    <3>2. pc'[c] = "left" /\ \A q \in Procs \ {c} : pc'[q] = pc[q]
      BY <1>1, <3>1 DEF QueueTyped
    <3>3. InPlace /\ Addressed /\ ExitInTurn
      BY <3>1 DEF Orderly
    <3>4. InPlace' /\ ExitInTurn'
      BY <2>1, <2>4, <3>2, <3>3 DEF InPlace, ExitInTurn, Removed
    <3>5. Addressed'
      BY <2>2, <2>3, <3>1, <3>2, <3>3 DEF Addressed, InChat
    <3> QED
      BY <3>4, <3>5
  <2>5. CASE ~ Removed
    <3>1. /\ SendFrom(gone, c, "left", m)
          /\ orderly' = IF LeavesInTurn(c) /\ ~Misled(m) THEN orderly ELSE "no"
      BY <1>5, <2>5 DEF Leave
    <3>2. /\ Id(c) = count /\ pc["server"] = "waits" /\ mgmt_msg = <<>>
          /\ ~Misled(m) /\ orderly = "yes"
      BY <3>1 DEF LeavesInTurn
    <3>3. InPlace /\ Addressed /\ ExitInTurn
      BY <3>2 DEF Orderly
    <3>4. Registered(c, count) /\ message_mgmt[c].kind = "id"
      BY <2>1, <3>2, <3>3 DEF Addressed, InChat, Id
    <3>5. m \in Messages /\ m.kind = "exit" /\ m.who = c /\ m.id = count
      <4>1. Id(c) \in Ids
        BY <3>2 DEF Typed, EntriesTyped
      <4> QED
        BY <3>2, <4>1 DEF Messages
    <3> HIDE DEF m, gone
    <3>6. waiting # <<>>
      BY <1>1, <3>2, EmptySeq DEF Blocked
    <3> DEFINE h == Head(waiting)
    <3>7. /\ mgmt_msg' = <<>> /\ h \in Procs \ {c} /\ pc[h] = "waits" /\ pc'[h] = "got"
          /\ pc'[c] = "left" /\ message_mgmt'[h] = m
          /\ \A q \in Procs \ {c, h} : pc'[q] = pc[q]
          /\ \A q \in Procs \ {h} : message_mgmt'[q] = gone[q]
      BY <1>1, <2>1, <2>3, <3>1, <3>5, <3>6, SendEffect
    <3>8. h = "server"
      BY <3>2, <3>5, <3>6 DEF Misled, IsFor
    <3> HIDE DEF h
    <3>9. InPlace'
      BY <2>1, <3>2, <3>3, <3>7, <3>8 DEF InPlace
    <3>10. Addressed'
      <4>1. \A d \in Clients : pc'[d] = "got" => pc[d] = "got" /\ message_mgmt'[d] = message_mgmt[d]
        BY <2>3, <3>7, <3>8
      <4>2. Len(mgmt_msg') = 0
        BY <3>7, EmptySeq
      <4> QED
        BY <2>2, <3>3, <4>1, <4>2 DEF Addressed, InChat
    <3>11. ExitInTurn'
      <4>1. count > 0 /\ sub[count].name = c
        BY <1>1, <3>4 DEF Registered
      <4>2. pc'["server"] = "got" /\ message_mgmt'["server"] = m
        BY <3>7, <3>8
      <4> QED
        BY <2>1, <3>5, <3>7, <4>1, <4>2, EmptySeq DEF ExitInTurn
    <3> QED
      BY <3>9, <3>10, <3>11
  <2> QED
    BY <2>4, <2>5
<1>6. CASE TypeNothing(c)
  <2> DEFINE gone == [message_mgmt EXCEPT ![c] = Nothing]
  <2>1. /\ pc[c] = "got" /\ pc' = [pc EXCEPT ![c] = "died"] /\ message_mgmt' = gone
        /\ UNCHANGED <<mgmt_msg, count, slot, sub, orderly>>
    BY <1>6 DEF TypeNothing, InChat, entries
  <2>2. \A d, i : Registered(d, i) => Registered(d, i)'
    BY <2>1 DEF Registered
  <2>3. gone \in [Procs -> Messages] /\ \A q \in Procs \ {c} : gone[q] = message_mgmt[q]
    BY <1>1 DEF QueueTyped, Messages
  <2> HIDE DEF gone
  <2>4. pc'[c] = "died" /\ \A q \in Procs \ {c} : pc'[q] = pc[q]
    BY <1>1, <2>1 DEF QueueTyped
  <2>5. InPlace /\ Addressed /\ ExitInTurn
    BY <2>1 DEF Orderly
  <2>6. InPlace' /\ ExitInTurn'
    BY <2>1, <2>3, <2>4, <2>5 DEF InPlace, ExitInTurn
  <2>7. Addressed'
    BY <2>2, <2>3, <2>1, <2>4, <2>5 DEF Addressed, InChat
  <2> QED
    BY <2>6, <2>7
<1> QED
  BY <1>2, <1>3, <1>4, <1>5, <1>6 DEF ClientStep

LEMMA OrderlyStep == Typed /\ Typed' /\ Orderly /\ [Next]_vars => Orderly'
<1> SUFFICES ASSUME Typed, Typed', Orderly, [Next]_vars PROVE Orderly'
  OBVIOUS
<1>1. CASE MgmtStep
  BY <1>1, AskOrderly, SeeExitOrderly, SeeNameOrderly, SetIdOrderly, SetNewOrderly, AnswerOrderly
     DEF MgmtStep
<1>2. CASE ChatStep
  BY <1>2, ChatStepOrderly
<1>3. CASE \E c \in Clients : ClientStep(c)
  BY <1>3, ClientOrderly
<1>4. CASE UNCHANGED vars
  <2>1. count \in Nat /\ Len(sub) \in Nat
    BY LenProperties DEF Typed, EntriesTyped, Ids
  <2> QED
    BY <1>4, <2>1, OrderlyStays DEF vars, notes
<1> QED
  BY <1>1, <1>2, <1>3, <1>4 DEF Next

THEOREM AlwaysOrderly == Spec => []Orderly
<1>1. Typed /\ Typed' /\ Orderly /\ [Next]_vars => Orderly'
  BY OrderlyStep
<1> QED
  BY <1>1, InitOrderly, AlwaysTyped, PTL DEF Spec

\* While every message reaches the one it is for and clients leave in the reverse
\* order of their coming, the ids the server hands out are apart: each is the place
\* of its client's entry.
THEOREM IdsApart == Spec => []OwnIds
<1>1. Typed /\ Orderly => OwnIds
  BY OrderlyIsOwnIds
<1> QED
  BY <1>1, AlwaysTyped, AlwaysOrderly, PTL
-----------------------------------------------------------------------------
(* Lines.                                                                   *)

\* How many lines the subscriber of entry i has been sent.
Sent(i) ==
    IF sub[i].name = "unset" THEN 0
    ELSE IF sub[i].new_sub = 1
         THEN IF tpc = "hist" /\ number_sub = i THEN number_hist - 1 ELSE 0
    ELSE IF tpc # "wait" /\ number_sub <= i THEN Len(history) - 1 ELSE Len(history)

\* Of the lines sent to entry i, all but the first s are still in the queue, and
\* nothing else is there for it.
Window(i, s) ==
    /\ s <= Sent(i)
    /\ \A j \in 1 .. Len(text_snd) :
           text_snd[j].type = i => \E k \in s + 1 .. Sent(i) : text_snd[j].line = history[k]
    /\ \A k \in s + 1 .. Sent(i) :
           \E j \in 1 .. Len(text_snd) : text_snd[j].type = i /\ text_snd[j].line = history[k]

\* Every line is typed once and keeps its turn: a later line is a smaller number.
Turns ==
    /\ \A k, l \in 1 .. Len(history) : k < l => history[k] > history[l]
    /\ \A k, l \in 1 .. Len(text_rcv) : k < l => text_rcv[k] > text_rcv[l]
    /\ \A k \in 1 .. Len(history), l \in 1 .. Len(text_rcv) : history[k] > text_rcv[l]
    /\ \A k \in 1 .. Len(history) : history[k] > toType
    /\ \A l \in 1 .. Len(text_rcv) : text_rcv[l] > toType
    /\ \A j, l \in 1 .. Len(text_snd) :
           j < l /\ text_snd[j].type = text_snd[l].type => text_snd[j].line > text_snd[l].line

\* Nobody has left, and chat_server is with an entry that is filled.
Serving ==
    /\ orderly = "yes"
    /\ \A i \in 1 .. Len(sub) :
           sub[i].name # "null" /\ (sub[i].name = "unset" => HalfFilled(i))
    /\ pc["server"] # "ended" /\ message_mgmt["server"].kind # "exit"
    /\ tpc \in {"test", "hist", "last"} => type = number_sub /\ sub[number_sub].name # "unset"
    /\ tpc = "hist" => sub[number_sub].new_sub = 1
    /\ tpc = "last" => sub[number_sub].new_sub = 0

\* s lines have been printed by whoever has the id i, none if nobody has it.
Printed(i, s) ==
    /\ \A c \in Clients : InChat(c) /\ Id(c) = i => Len(screen[c]) = s
    /\ (\A c \in Clients : InChat(c) => Id(c) # i) => s = 0

Delivered ==
    /\ \A j \in 1 .. Len(text_snd) : text_snd[j].type \in 1 .. Len(sub)
    /\ \A i \in 1 .. Len(sub) : \E s \in Nat : Window(i, s) /\ Printed(i, s)
    /\ \A c \in Clients : ~InChat(c) => screen[c] = <<>>
    /\ \A c \in Clients : \A k \in 1 .. Len(screen[c]) : screen[c][k] = history[k]

Calm == calm = "yes" => Turns /\ Serving /\ Delivered

\* What holds of the numbers of lines and places.
LEMMA CalmNumbers ==
    ASSUME Typed
    PROVE  /\ Len(sub) \in Nat /\ Len(history) \in Nat /\ Len(text_snd) \in Nat
           /\ Len(text_rcv) \in Nat /\ count \in Nat /\ toType \in Nat
           /\ \A k \in 1 .. Len(history) : history[k] \in Nat
           /\ \A k \in 1 .. Len(text_rcv) : text_rcv[k] \in Nat
           /\ \A j \in 1 .. Len(text_snd) : text_snd[j].type \in Nat /\ text_snd[j].line \in Nat
           /\ \A c \in Clients : Len(screen[c]) \in Nat
<1>1. ChatTyped /\ EntriesTyped
  BY DEF Typed
<1>2. /\ Len(sub) \in Nat /\ Len(history) \in Nat /\ Len(text_snd) \in Nat
      /\ Len(text_rcv) \in Nat /\ count \in Nat /\ toType \in Nat
  BY <1>1, LenProperties, SizesAssumption DEF ChatTyped, EntriesTyped, Ids
<1>3. /\ \A k \in 1 .. Len(history) : history[k] \in Lines
      /\ \A k \in 1 .. Len(text_rcv) : text_rcv[k] \in Lines
  BY <1>1, ElementOfSeq DEF ChatTyped
<1>4. \A j \in 1 .. Len(text_snd) : text_snd[j] \in [type : Ids, line : Lines]
  BY <1>1, ElementOfSeq DEF ChatTyped
<1>5. \A l \in Lines : l \in Nat
  BY SizesAssumption DEF Lines
<1>6. \A i \in Ids : i \in Nat
  BY SizesAssumption DEF Ids
<1>7. \A c \in Clients : Len(screen[c]) \in Nat
  <2> SUFFICES ASSUME NEW c \in Clients PROVE Len(screen[c]) \in Nat
    OBVIOUS
  <2>1. screen[c] \in Seq(Lines)
    BY <1>1 DEF ChatTyped
  <2> QED
    BY <2>1, LenProperties
<1>8. \A j \in 1 .. Len(text_snd) : text_snd[j].type \in Nat /\ text_snd[j].line \in Nat
  BY <1>4, <1>5, <1>6
<1> QED
  BY <1>2, <1>3, <1>5, <1>7, <1>8

\* No subscriber has been sent more lines than there are.
LEMMA SentBound ==
    ASSUME Typed, NEW i \in 1 .. Len(sub)
    PROVE  Sent(i) \in Nat /\ Sent(i) <= Len(history)
<1>1. Len(history) \in Nat
  BY CalmNumbers
<1>2. tpc # "wait" => Len(history) - 1 \in Nat
  BY <1>1, EmptySeq DEF Typed, WithinBounds, ChatTyped
<1>3. tpc = "hist" => number_hist \in 1 .. Len(history) + 1
  BY DEF Typed, WithinBounds
<1> QED
  BY <1>1, <1>2, <1>3 DEF Sent

\* In the chat under an id of one's own.
LEMMA ChatIds ==
    ASSUME Typed, Orderly, orderly = "yes"
    PROVE  /\ \A c \in Clients : InChat(c) => Id(c) \in 1 .. Len(sub) /\ Id(c) \in 1 .. count
           /\ \A c, d \in Clients : InChat(c) /\ InChat(d) /\ c # d => Id(c) # Id(d)
<1>1. \A c \in Clients : InChat(c) => Registered(c, Id(c))
  BY DEF Orderly, Addressed, Id
<1>2. Len(sub) \in Nat /\ count \in Nat
  BY CalmNumbers
<1> QED
  BY <1>1, <1>2 DEF Registered

\* Nobody has left: the subscribers are the entries.
LEMMA CountIsLength ==
    ASSUME Typed, Orderly, Serving, pc["server"] # "overflow"
    PROVE  count = Len(sub)
<1>1. InPlace /\ Len(sub) \in Nat /\ count \in Nat
  BY CalmNumbers DEF Orderly, Serving
<1>2. count <= Len(sub) /\ \A i \in 1 .. Len(sub) : i <= count
  BY <1>1 DEF InPlace, Serving
<1>3. CASE Len(sub) = 0
  BY <1>1, <1>2, <1>3
<1>4. CASE Len(sub) > 0
  <2>1. Len(sub) \in 1 .. Len(sub)
    BY <1>1, <1>4
  <2> QED
    BY <1>1, <1>2, <2>1
<1> QED
  BY <1>1, <1>3, <1>4

\* A step that sends and prints nothing keeps what is delivered, whoever joins.
LEMMA DeliveredStays ==
    ASSUME Typed, Typed', Delivered, text_snd' = text_snd, screen' = screen,
           Len(history) <= Len(history'),
           \A k \in 1 .. Len(history) : history'[k] = history[k],
           Len(sub) <= Len(sub'),
           \A i \in 1 .. Len(sub) : Sent(i)' = Sent(i),
           \A i \in 1 .. Len(sub') : i > Len(sub) => Sent(i)' = 0,
           \A c \in Clients : InChat(c) => InChat(c)' /\ Id(c)' = Id(c) /\ Id(c) \in 1 .. Len(sub),
           \A c \in Clients : InChat(c)' => Id(c)' \in 1 .. Len(sub),
           \A c, d \in Clients : InChat(c)' /\ InChat(d)' /\ c # d => Id(c)' # Id(d)'
    PROVE  Delivered'
<1>1. /\ Len(sub) \in Nat /\ Len(sub') \in Nat /\ Len(history) \in Nat /\ Len(history') \in Nat
      /\ Len(text_snd) \in Nat /\ \A c \in Clients : Len(screen[c]) \in Nat
  <2>1. (Len(sub) \in Nat)' /\ (Len(history) \in Nat)'
    BY LenProperties DEF Typed, EntriesTyped, ChatTyped
  <2> QED
    BY <2>1, CalmNumbers
<1>2. \A i \in 1 .. Len(sub) : Sent(i) \in Nat /\ Sent(i) <= Len(history)
  BY SentBound
<1>3. ASSUME NEW i \in 1 .. Len(sub), NEW s \in Nat, Window(i, s) PROVE Window(i, s)'
  <2>1. Sent(i)' = Sent(i) /\ Sent(i) \in Nat /\ Sent(i) <= Len(history)
    BY <1>2
  <2>2. \A k \in s + 1 .. Sent(i) : history'[k] = history[k]
    <3> SUFFICES ASSUME NEW k \in s + 1 .. Sent(i) PROVE history'[k] = history[k]
      OBVIOUS
    <3>1. k \in 1 .. Len(history)
      BY <1>1, <2>1
    <3> QED
      BY <3>1
  <2>3. /\ \A j \in 1 .. Len(text_snd) :
               text_snd[j].type = i => \E k \in s + 1 .. Sent(i) : text_snd[j].line = history'[k]
        /\ \A k \in s + 1 .. Sent(i) :
               \E j \in 1 .. Len(text_snd) : text_snd[j].type = i /\ text_snd[j].line = history'[k]
    BY <1>3, <2>2 DEF Window
  <2>4. s <= Sent(i)
    BY <1>3 DEF Window
  <2> HIDE <1>3, <2>2
  <2> QED
    BY <2>1, <2>3, <2>4 DEF Window
<1>4. \A j \in 1 .. Len(text_snd') : text_snd'[j].type \in 1 .. Len(sub')
  <2>1. \A j \in 1 .. Len(text_snd) : text_snd[j].type \in 1 .. Len(sub)
    BY DEF Delivered
  <2>2. \A i \in 1 .. Len(sub) : i \in 1 .. Len(sub')
    BY <1>1
  <2> QED
    BY <2>1, <2>2
<1>5. ASSUME NEW i \in 1 .. Len(sub') PROVE \E s \in Nat : Window(i, s)' /\ Printed(i, s)'
  <2>1. CASE i \in 1 .. Len(sub)
    <3>1. PICK s \in Nat : Window(i, s) /\ Printed(i, s)
      BY <2>1 DEF Delivered
    <3>2. Window(i, s)'
      BY <1>3, <2>1, <3>1
    <3>3. ASSUME NEW c \in Clients, InChat(c)', Id(c)' = i PROVE Len(screen'[c]) = s
      <4>1. CASE InChat(c)
        BY <3>1, <3>3, <4>1 DEF Printed
      <4>2. CASE ~ InChat(c)
        <5>1. \A d \in Clients : InChat(d) => Id(d) # i
          BY <3>3, <4>2
        <5> QED
          BY <3>1, <4>2, <5>1, EmptySeq DEF Printed, Delivered
      <4> QED
        BY <4>1, <4>2
    <3>4. ASSUME \A c \in Clients : InChat(c)' => Id(c)' # i PROVE s = 0
      <4>1. \A c \in Clients : InChat(c) => Id(c) # i
        BY <3>4
      <4> QED
        BY <3>1, <4>1 DEF Printed
    <3>5. Printed(i, s)'
      BY <3>3, <3>4 DEF Printed
    <3> QED
      BY <3>2, <3>5
  <2>2. CASE i > Len(sub)
    <3>1. Sent(i)' = 0
      BY <2>2
    <3>2. \A j \in 1 .. Len(text_snd') : text_snd'[j].type # i
      BY <1>1, <2>2 DEF Delivered
    <3>3. Window(i, 0)'
      BY <3>1, <3>2 DEF Window
    <3>4. \A c \in Clients : InChat(c)' => Id(c)' # i
      BY <1>1, <2>2
    <3>5. Printed(i, 0)'
      BY <3>4 DEF Printed
    <3> QED
      BY <3>3, <3>5
  <2> QED
    BY <1>1, <2>1, <2>2
<1>7. \A c \in Clients : ~InChat(c)' => screen'[c] = <<>>
  BY DEF Delivered
<1>8. \A c \in Clients : \A k \in 1 .. Len(screen'[c]) : screen'[c][k] = history'[k]
  <2> SUFFICES ASSUME NEW c \in Clients, NEW k \in 1 .. Len(screen[c])
               PROVE  screen[c][k] = history'[k]
    OBVIOUS
  <2>1. screen[c][k] = history[k]
    BY DEF Delivered
  <2>2. Len(screen[c]) <= Len(history)
    <3>1. CASE InChat(c)
      <4>1. PICK i \in 1 .. Len(sub) : i = Id(c)
        BY <3>1
      <4>2. Len(screen[c]) <= Sent(i)
        BY <3>1, <4>1 DEF Delivered, Printed, Window
      <4> QED
        BY <1>1, <1>2, <4>2
    <3>2. CASE ~ InChat(c)
      BY <1>1, <3>2, EmptySeq DEF Delivered
    <3> QED
      BY <3>1, <3>2
  <2>3. k \in 1 .. Len(history)
    BY <1>1, <2>2
  <2> QED
    BY <2>1, <2>3
<1> QED
  BY <1>4, <1>5, <1>7, <1>8 DEF Delivered

\* A step of the common queue: it may bring somebody into the chat.
LEMMA MailCalm ==
    ASSUME Typed, Typed', Orderly, Orderly', orderly' = "yes", Turns, Serving, Delivered,
           UNCHANGED <<sub, chat, users>>,
           \A c \in Clients : pc[c] = "got" => pc'[c] = "got" /\ message_mgmt'[c] = message_mgmt[c],
           pc'["server"] # "ended", message_mgmt'["server"].kind # "exit",
           \A i \in 1 .. Len(sub) : HalfFilled(i) => HalfFilled(i)'
    PROVE  Turns' /\ Serving' /\ Delivered'
<1>1. Turns'
  BY DEF Turns, chat, users
<1>2. Serving'
  BY DEF Serving, chat, walk
<1>3. \A i : Sent(i)' = Sent(i)
  BY DEF Sent, chat, walk
<1>4. /\ \A c \in Clients : InChat(c) => InChat(c)' /\ Id(c)' = Id(c) /\ Id(c) \in 1 .. Len(sub)
      /\ \A c \in Clients : InChat(c)' => Id(c)' \in 1 .. Len(sub)
      /\ \A c, d \in Clients : InChat(c)' /\ InChat(d)' /\ c # d => Id(c)' # Id(d)'
  <2>1. \A c \in Clients : InChat(c) => Id(c) \in 1 .. Len(sub)
    BY ChatIds DEF Serving
  <2>2. /\ \A c \in Clients : InChat(c)' => Id(c)' \in 1 .. Len(sub')
        /\ \A c, d \in Clients : InChat(c)' /\ InChat(d)' /\ c # d => Id(c)' # Id(d)'
    <3>1. \A c \in Clients : InChat(c)' => Registered(c, message_mgmt[c].id)' /\ Id(c)' = message_mgmt'[c].id
      BY DEF Orderly, Addressed, Id
    <3>2. Len(sub') \in Nat /\ count' \in Nat
      BY LenProperties DEF Typed, EntriesTyped, Ids
    <3> QED
      BY <3>1, <3>2 DEF Registered
  <2> QED
    BY <2>1, <2>2 DEF InChat, Id
<1>5. Len(sub) \in Nat /\ Len(history) \in Nat
  BY CalmNumbers
<1>6. history' = history /\ text_snd' = text_snd /\ screen' = screen /\ sub' = sub
  BY DEF chat, users
<1>7. Delivered'
  BY <1>3, <1>4, <1>5, <1>6, DeliveredStays
<1> QED
  BY <1>1, <1>2, <1>7

\* What Calm says in a calm state.
LEMMA CalmParts ==
    ASSUME Calm, calm = "yes"
    PROVE  Turns /\ Serving /\ Delivered /\ orderly = "yes"
BY DEF Calm, Serving

LEMMA AskCalm == Typed /\ Typed' /\ Orderly /\ Orderly' /\ Calm /\ Ask => Calm'
<1> SUFFICES ASSUME Typed, Typed', Orderly, Orderly', Calm, Ask, calm' = "yes"
             PROVE  Turns' /\ Serving' /\ Delivered'
  BY DEF Calm
<1> USE ServerApart
<1>1. /\ pc["server"] = "ask" /\ Receive("server") /\ UNCHANGED <<sub, chat, users>>
      /\ QueueTyped
  BY DEF Ask, Typed
<1>2. calm = "yes"
  BY <1>1 DEF Receive, Note, notes
<1>3. Turns /\ Serving /\ Delivered /\ orderly = "yes" /\ Addressed
  BY <1>2, CalmParts DEF Orderly
<1>4. orderly' = "yes"
  BY <1>1, <1>3, <1>2 DEF Receive, Note, notes
<1>5. \A c \in Clients : pc'[c] = pc[c] /\ message_mgmt'[c] = message_mgmt[c]
  BY <1>1, ReceiveEffect
<1>6. pc'["server"] \in {"waits", "got"} /\ message_mgmt'["server"].kind # "exit"
  <2>1. CASE mgmt_msg = <<>>
    BY <1>1, <1>3, <2>1 DEF Receive, Serving, QueueTyped
  <2>2. CASE mgmt_msg # <<>>
    BY <1>1, <1>3, <2>2, ReceiveEffect DEF Addressed
  <2> QED
    BY <2>1, <2>2
<1>7. \A i \in 1 .. Len(sub) : ~HalfFilled(i)
  BY <1>1 DEF HalfFilled
<1> QED
  BY <1>1, <1>3, <1>4, <1>5, <1>6, <1>7, MailCalm

LEMMA AnswerCalm == Typed /\ Typed' /\ Orderly /\ Orderly' /\ Calm /\ Answer => Calm'
<1> SUFFICES ASSUME Typed, Typed', Orderly, Orderly', Calm, Answer, calm' = "yes"
             PROVE  Turns' /\ Serving' /\ Delivered'
  BY DEF Calm
<1> USE ServerApart
<1> DEFINE next == IF Places(sub, count, slot + 1) = {} THEN "ask" ELSE "crashed"
           m == [kind |-> "id", who |-> sub[slot].name, id |-> NewId]
           box == [message_mgmt EXCEPT !["server"] = Nothing]
<1>1. /\ pc["server"] = "new" /\ SendFrom(box, "server", next, m) /\ Note(~Misled(m))
      /\ UNCHANGED <<sub, chat, users>> /\ QueueTyped /\ Blocked
  BY DEF Answer, Typed
<1>2. calm = "yes"
  BY <1>1 DEF Note
<1>3. Turns /\ Serving /\ Delivered /\ orderly = "yes"
  BY <1>2, CalmParts
<1>4. orderly' = "yes"
  BY <1>1, <1>2, <1>3 DEF Note
<1>5. /\ next \in {"ask", "crashed"} /\ m \in Messages /\ box \in [Procs -> Messages]
      /\ box["server"].kind = "none" /\ \A c \in Clients : box[c] = message_mgmt[c]
  <2>1. slot \in 1 .. Len(sub) /\ sub[slot].name \in Clients \cup {"digit"}
    BY <1>1 DEF Typed, Filling
  <2>2. sub[slot] \in Entry
    BY <2>1, ElementOfSeq DEF Typed, EntriesTyped
  <2>3. NewId \in Ids
    BY <2>2 DEF Entry, NewId
  <2>4. m \in Messages
    BY <2>1, <2>3 DEF Messages
  <2>5. /\ box \in [Procs -> Messages] /\ \A c \in Clients : box[c] = message_mgmt[c]
        /\ box["server"].kind = "none"
    BY <1>1 DEF QueueTyped, Messages, Nothing
  <2> QED
    BY <2>4, <2>5
<1> HIDE DEF next, m, box
<1>6. /\ pc'["server"] = next /\ message_mgmt'["server"] = box["server"]
      /\ \A c \in Clients : pc[c] = "got" => pc'[c] = "got" /\ message_mgmt'[c] = message_mgmt[c]
  <2>1. CASE waiting = <<>>
    BY <1>1, <1>5, <2>1, SendEffect
  <2>2. CASE waiting # <<>>
    <3>1. /\ Head(waiting) \in Procs \ {"server"} /\ pc[Head(waiting)] = "waits"
          /\ pc'["server"] = next
          /\ \A q \in Procs \ {"server", Head(waiting)} : pc'[q] = pc[q]
          /\ \A q \in Procs \ {Head(waiting)} : message_mgmt'[q] = box[q]
      BY <1>1, <1>5, <2>2, SendEffect
    <3> QED
      BY <1>5, <3>1
  <2> QED
    BY <2>1, <2>2
<1>7. \A i \in 1 .. Len(sub) : ~HalfFilled(i)
  BY <1>1 DEF HalfFilled
<1> QED
  BY <1>1, <1>3, <1>4, <1>5, <1>6, <1>7, MailCalm

LEMMA SendNameCalm ==
    ASSUME Typed, Typed', Orderly, Orderly', Calm, NEW c \in Clients, SendName(c)
    PROVE  Calm'
<1> SUFFICES ASSUME calm' = "yes" PROVE Turns' /\ Serving' /\ Delivered'
  BY DEF Calm
<1> USE ServerApart
<1> DEFINE m == [kind |-> "name", who |-> c, id |-> 0]
<1>1. /\ pc[c] = "off" /\ SendFrom(message_mgmt, c, "sent", m) /\ Note(~Misled(m))
      /\ UNCHANGED <<slot, sub, chat, users>> /\ QueueTyped /\ Blocked
  BY DEF SendName, Send, entries, Typed
<1>2. calm = "yes" /\ ~Misled(m)
  BY <1>1 DEF Note
<1>3. Turns /\ Serving /\ Delivered /\ orderly = "yes"
  BY <1>2, CalmParts
<1>4. orderly' = "yes"
  BY <1>1, <1>2, <1>3 DEF Note
<1>5. m \in Messages /\ message_mgmt \in [Procs -> Messages] /\ m.kind = "name"
  BY <1>1, SizesAssumption DEF Messages, Ids, QueueTyped
<1> HIDE DEF m
<1>6. /\ pc'["server"] = pc["server"] \/ (pc["server"] = "waits" /\ pc'["server"] = "got")
      /\ message_mgmt'["server"] = message_mgmt["server"] \/ message_mgmt'["server"] = m
      /\ \A d \in Clients : pc[d] = "got" => pc'[d] = "got" /\ message_mgmt'[d] = message_mgmt[d]
  <2>1. CASE waiting = <<>>
    <3>1. message_mgmt' = message_mgmt /\ \A q \in Procs \ {c} : pc'[q] = pc[q]
      BY <1>1, <1>5, <2>1, SendEffect
    <3>2. pc[c] = "off"
      BY <1>1
    <3> QED
      BY <3>1, <3>2
  <2>2. CASE waiting # <<>>
    <3>1. /\ Head(waiting) \in Procs \ {c} /\ pc[Head(waiting)] = "waits"
          /\ pc'[Head(waiting)] = "got" /\ message_mgmt'[Head(waiting)] = m
          /\ \A q \in Procs \ {c, Head(waiting)} : pc'[q] = pc[q]
          /\ \A q \in Procs \ {Head(waiting)} : message_mgmt'[q] = message_mgmt[q]
      BY <1>1, <1>5, <2>2, SendEffect
    <3>2. Head(waiting) = "server"
      BY <1>2, <1>5, <2>2, <3>1 DEF Misled, IsFor
    <3> QED
      BY <1>1, <3>1, <3>2
  <2> QED
    BY <2>1, <2>2
<1>7. pc'["server"] # "ended" /\ message_mgmt'["server"].kind # "exit"
  BY <1>3, <1>5, <1>6 DEF Serving
<1>8. \A i \in 1 .. Len(sub) : HalfFilled(i) => HalfFilled(i)'
  BY <1>1, <1>6 DEF HalfFilled
<1> QED
  BY <1>1, <1>3, <1>4, <1>6, <1>7, <1>8, MailCalm

LEMMA AskIdCalm ==
    ASSUME Typed, Typed', Orderly, Orderly', Calm, NEW c \in Clients, AskId(c)
    PROVE  Calm'
<1> SUFFICES ASSUME calm' = "yes" PROVE Turns' /\ Serving' /\ Delivered'
  BY DEF Calm
<1> USE ServerApart
<1>1. /\ pc[c] = "sent" /\ UNCHANGED <<slot, sub, chat, users>> /\ QueueTyped
  BY DEF AskId, entries, Typed
<1>2. calm = "yes"
  BY DEF AskId, Receive, Note, notes
<1>3. Turns /\ Serving /\ Delivered /\ orderly = "yes"
  BY <1>2, CalmParts
<1>4. Receive(c)
  BY <1>3 DEF AskId, Removed, Serving
<1>5. orderly' = "yes"
  BY <1>2, <1>3, <1>4 DEF Receive, Note, notes
<1>6. \A q \in Procs \ {c} : pc'[q] = pc[q] /\ message_mgmt'[q] = message_mgmt[q]
  BY <1>1, <1>4, ReceiveEffect
<1>7. pc'["server"] # "ended" /\ message_mgmt'["server"].kind # "exit"
  BY <1>3, <1>6 DEF Serving
<1>8. \A i \in 1 .. Len(sub) : HalfFilled(i) => HalfFilled(i)'
  BY <1>1, <1>6 DEF HalfFilled
<1>9. \A d \in Clients : pc[d] = "got" => pc'[d] = "got" /\ message_mgmt'[d] = message_mgmt[d]
  BY <1>1, <1>6
<1> QED
  BY <1>1, <1>3, <1>5, <1>7, <1>8, <1>9, MailCalm

\* With nobody gone a new subscriber gets a new place, which nothing is sent to yet.
LEMMA SeeNameCalm == Typed /\ Typed' /\ Orderly /\ Orderly' /\ Calm /\ SeeName => Calm'
<1> SUFFICES ASSUME Typed, Typed', Orderly, Orderly', Calm, SeeName, calm' = "yes"
             PROVE  Turns' /\ Serving' /\ Delivered'
  BY DEF Calm
<1> USE ServerApart
<1>1. /\ pc["server"] = "got" /\ UNCHANGED <<chat, users, notes>>
      /\ message_mgmt["server"].kind # "exit"
  BY DEF SeeName, Got
<1>2. Turns /\ Serving /\ Delivered /\ orderly = "yes" /\ orderly' = "yes"
  BY <1>1, CalmParts DEF notes
<1>3. InPlace /\ count = Len(sub) /\ Len(sub) \in Nat /\ Len(history) \in Nat
  BY <1>1, <1>2, CountIsLength, CalmNumbers DEF Orderly
<1> DEFINE fresh == [id |-> 0, name |-> "unset", new_sub |-> 0]
<1>4. /\ slot' = Len(sub) + 1 /\ message_mgmt' = message_mgmt
      /\ pc' = [pc EXCEPT !["server"] = IF slot' > MaxSubs THEN "overflow" ELSE "entry"]
      /\ sub' = sub \/ (slot' <= MaxSubs /\ sub' = Append(sub, fresh))
  <2>1. /\ slot' = count + 1 /\ message_mgmt' = message_mgmt
        /\ pc' = [pc EXCEPT !["server"] = IF slot' > MaxSubs THEN "overflow" ELSE "entry"]
        /\ sub' = IF slot' > MaxSubs THEN sub
                  ELSE IF slot' > Len(sub) THEN Append(sub, fresh)
                  ELSE [sub EXCEPT ![slot'] = fresh]
    BY <1>3, NextPlace
  <2> HIDE DEF fresh
  <2>2. slot' > Len(sub)
    BY <1>3, <2>1
  <2>3. CASE slot' > MaxSubs
    BY <1>3, <2>1, <2>3
  <2>4. CASE ~ (slot' > MaxSubs)
    <3>1. slot' <= MaxSubs
      BY <1>3, <2>1, <2>4, SizesAssumption
    <3> QED
      BY <1>3, <2>1, <2>2, <2>4, <3>1
  <2> QED
    BY <2>3, <2>4
<1>5. fresh \in Entry /\ fresh.name = "unset"
  BY SizesAssumption DEF Entry, Ids
<1> HIDE DEF fresh
<1>6. /\ \A c \in Clients : pc'[c] = pc[c]
      /\ pc'["server"] \in {"overflow", "entry"}
      /\ slot' <= MaxSubs => pc'["server"] = "entry"
  BY <1>3, <1>4, SizesAssumption DEF Typed, QueueTyped
<1>7. /\ Len(sub') \in Nat /\ Len(sub) <= Len(sub') /\ Len(sub') <= Len(sub) + 1
      /\ \A i \in 1 .. Len(sub) : sub'[i] = sub[i]
      /\ \A i \in 1 .. Len(sub') : i > Len(sub) =>
             i = Len(sub) + 1 /\ sub'[i].name = "unset" /\ slot' <= MaxSubs
  <2>1. CASE sub' = sub
    BY <1>3, <2>1
  <2>2. CASE sub' = Append(sub, fresh) /\ slot' <= MaxSubs
    <3>1. /\ Len(sub') = Len(sub) + 1 /\ \A i \in 1 .. Len(sub) : sub'[i] = sub[i]
          /\ sub'[Len(sub) + 1] = fresh
      BY <1>5, <2>2, AppendProperties DEF Typed, EntriesTyped
    <3>2. \A i \in 1 .. Len(sub') : i > Len(sub) => i = Len(sub) + 1
      BY <1>3, <3>1
    <3> QED
      BY <1>3, <1>5, <2>2, <3>1, <3>2
  <2> QED
    BY <1>4, <2>1, <2>2
<1>8. Turns'
  BY <1>1, <1>2 DEF Turns, chat, users
<1>9. Serving'
  <2>1. \A i \in 1 .. Len(sub') : sub'[i].name # "null" /\ (sub'[i].name = "unset" => HalfFilled(i)')
    <3> SUFFICES ASSUME NEW i \in 1 .. Len(sub')
                 PROVE  sub'[i].name # "null" /\ (sub'[i].name = "unset" => HalfFilled(i)')
      OBVIOUS
    <3>1. CASE i > Len(sub)
      BY <1>4, <1>6, <1>7, <3>1 DEF HalfFilled
    <3>2. CASE i \in 1 .. Len(sub)
      BY <1>1, <1>2, <1>7, <3>2 DEF HalfFilled, Serving
    <3> QED
      BY <1>3, <1>7, <3>1, <3>2
  <2>2. tpc \in {"test", "hist", "last"} => number_sub \in 1 .. Len(sub)
    BY <1>3 DEF Typed, WithinBounds
  <2>3. UNCHANGED <<tpc, type, number_sub>>
    BY <1>1 DEF chat, walk
  <2> QED
    BY <1>1, <1>2, <1>4, <1>6, <1>7, <2>1, <2>2, <2>3 DEF Serving
<1>10. /\ \A i \in 1 .. Len(sub) : Sent(i)' = Sent(i)
       /\ \A i \in 1 .. Len(sub') : i > Len(sub) => Sent(i)' = 0
  BY <1>1, <1>7 DEF Sent, chat, walk
<1>11. /\ \A c \in Clients : InChat(c) => InChat(c)' /\ Id(c)' = Id(c) /\ Id(c) \in 1 .. Len(sub)
       /\ \A c \in Clients : InChat(c)' => Id(c)' \in 1 .. Len(sub)
       /\ \A c, d \in Clients : InChat(c)' /\ InChat(d)' /\ c # d => Id(c)' # Id(d)'
  <2>1. \A c \in Clients : (InChat(c)' <=> InChat(c)) /\ Id(c)' = Id(c)
    BY <1>4, <1>6 DEF InChat, Id
  <2> QED
    BY <1>2, <2>1, ChatIds
<1>12. text_snd' = text_snd /\ screen' = screen /\ history' = history
  BY <1>1 DEF chat, users
<1>13. Delivered'
  BY <1>2, <1>3, <1>7, <1>10, <1>11, <1>12, DeliveredStays
<1> QED
  BY <1>8, <1>9, <1>13

\* Filling the entry: it counts as one that nothing is sent to.
LEMMA FillingCalm ==
    ASSUME Typed, Typed', Orderly, Turns, Serving, Delivered, orderly' = "yes",
           UNCHANGED <<chat, users, message_mgmt, slot>>, pc["server"] \in {"entry", "id"},
           pc' = [pc EXCEPT !["server"] = IF pc["server"] = "entry" THEN "id" ELSE "new"],
           Len(sub') = Len(sub), \A i \in 1 .. Len(sub) : i # slot => sub'[i] = sub[i],
           pc["server"] = "entry" => sub'[slot].name = "unset",
           pc["server"] = "id" =>
               /\ sub'[slot].name \in Clients \cup {"digit"} /\ sub'[slot].new_sub = 1
    PROVE  Turns' /\ Serving' /\ Delivered'
<1> USE ServerApart
<1>1. /\ Len(sub) \in Nat /\ Len(history) \in Nat /\ orderly = "yes"
      /\ slot \in 1 .. Len(sub) /\ sub[slot].name = "unset"
  BY CalmNumbers DEF Typed, Filling, Serving
<1>2. /\ UNCHANGED <<tpc, type, number_sub, number_hist, history, text_snd, screen>>
  BY DEF chat, walk, users
<1>3. /\ pc'["server"] = IF pc["server"] = "entry" THEN "id" ELSE "new"
      /\ \A c \in Clients : pc'[c] = pc[c]
  BY DEF Typed, QueueTyped
<1>4. Turns'
  BY DEF Turns, chat, users
<1>5. tpc \in {"test", "hist", "last"} => number_sub \in 1 .. Len(sub) /\ number_sub # slot
  BY <1>1 DEF Typed, WithinBounds, Serving
<1>6. Serving'
  <2>1. \A i \in 1 .. Len(sub') : sub'[i].name # "null" /\ (sub'[i].name = "unset" => HalfFilled(i)')
    <3> SUFFICES ASSUME NEW i \in 1 .. Len(sub)
                 PROVE  sub'[i].name # "null" /\ (sub'[i].name = "unset" => HalfFilled(i)')
      OBVIOUS
    <3>1. CASE i = slot
      BY <1>3, <3>1, NamesAssumption DEF HalfFilled
    <3>2. CASE i # slot
      BY <3>2 DEF HalfFilled, Serving
    <3> QED
      BY <3>1, <3>2
  <2>2. orderly' = "yes" /\ pc'["server"] # "ended" /\ message_mgmt'["server"].kind # "exit"
    BY <1>3 DEF Serving
  <2>3. tpc \in {"test", "hist", "last"} => sub'[number_sub] = sub[number_sub]
    BY <1>5
  <2> QED
    BY <1>2, <2>1, <2>2, <2>3 DEF Serving
<1>7. \A i \in 1 .. Len(sub) : Sent(i)' = Sent(i)
  <2> SUFFICES ASSUME NEW i \in 1 .. Len(sub) PROVE Sent(i)' = Sent(i)
    OBVIOUS
  <2>1. CASE i = slot
    BY <1>1, <1>2, <1>5, <2>1 DEF Sent
  <2>2. CASE i # slot
    BY <1>2, <2>2 DEF Sent
  <2> QED
    BY <2>1, <2>2
<1>8. /\ \A c \in Clients : InChat(c) => InChat(c)' /\ Id(c)' = Id(c) /\ Id(c) \in 1 .. Len(sub)
      /\ \A c \in Clients : InChat(c)' => Id(c)' \in 1 .. Len(sub)
      /\ \A c, d \in Clients : InChat(c)' /\ InChat(d)' /\ c # d => Id(c)' # Id(d)'
  <2>1. \A c \in Clients : (InChat(c)' <=> InChat(c)) /\ Id(c)' = Id(c)
    BY <1>3 DEF InChat, Id
  <2> QED
    BY <1>1, <2>1, ChatIds
<1>9. Delivered'
  BY <1>1, <1>2, <1>7, <1>8, DeliveredStays
<1> QED
  BY <1>4, <1>6, <1>9

LEMMA SetIdCalm == Typed /\ Typed' /\ Orderly /\ Calm /\ SetId => Calm'
<1> SUFFICES ASSUME Typed, Typed', Orderly, Calm, SetId, calm' = "yes"
             PROVE  Turns' /\ Serving' /\ Delivered'
  BY DEF Calm
<1>1. /\ pc["server"] = "entry" /\ pc' = [pc EXCEPT !["server"] = "id"]
      /\ sub' = [sub EXCEPT ![slot] = Numbered(sub[slot], count)]
      /\ UNCHANGED <<chat, users, message_mgmt, slot, orderly, calm>>
  BY DEF SetId, entries, notes
<1>2. Turns /\ Serving /\ Delivered /\ orderly = "yes"
  BY <1>1, CalmParts
<1>3. /\ Len(sub') = Len(sub) /\ \A i \in 1 .. Len(sub) : i # slot => sub'[i] = sub[i]
      /\ sub'[slot].name = "unset"
  <2>1. slot \in 1 .. Len(sub) /\ sub[slot].name = "unset"
    BY <1>1 DEF Typed, Filling
  <2>2. sub[slot] \in Entry
    BY <2>1, ElementOfSeq DEF Typed, EntriesTyped
  <2>3. Numbered(sub[slot], count) \in Entry /\ Numbered(sub[slot], count).name = "unset"
    BY <2>1, <2>2 DEF Numbered, Entry, Typed, EntriesTyped
  <2>4. /\ Len(sub') = Len(sub)
        /\ \A i \in 1 .. Len(sub) :
               sub'[i] = IF i = slot THEN Numbered(sub[slot], count) ELSE sub[i]
    BY <1>1, <2>1, <2>3, EntryPut DEF Typed, EntriesTyped
  <2> QED
    BY <2>1, <2>3, <2>4
<1> QED
  BY <1>1, <1>2, <1>3, FillingCalm

LEMMA SetNewCalm == Typed /\ Typed' /\ Orderly /\ Calm /\ SetNew => Calm'
<1> SUFFICES ASSUME Typed, Typed', Orderly, Calm, SetNew, calm' = "yes"
             PROVE  Turns' /\ Serving' /\ Delivered'
  BY DEF Calm
<1> DEFINE who == NameIn(message_mgmt["server"])
           e == [id |-> sub[slot].id, name |-> who, new_sub |-> 1]
<1>1. /\ pc["server"] = "id" /\ pc' = [pc EXCEPT !["server"] = "new"]
      /\ sub' = [sub EXCEPT ![slot] = e]
      /\ UNCHANGED <<chat, users, message_mgmt, slot, orderly, calm>>
  BY DEF SetNew, entries, notes
<1>2. Turns /\ Serving /\ Delivered /\ orderly = "yes"
  BY <1>1, CalmParts
<1>3. who \in Clients \cup {"digit"}
  BY <1>1, NameKept DEF Typed
<1> HIDE DEF who
<1>4. /\ Len(sub') = Len(sub) /\ \A i \in 1 .. Len(sub) : i # slot => sub'[i] = sub[i]
      /\ sub'[slot].name = who /\ sub'[slot].new_sub = 1
  <2>1. slot \in 1 .. Len(sub)
    BY <1>1 DEF Typed, Filling
  <2>2. sub[slot] \in Entry
    BY <2>1, ElementOfSeq DEF Typed, EntriesTyped
  <2>3. e \in Entry /\ e.name = who /\ e.new_sub = 1
    BY <1>3, <2>2 DEF Entry
  <2> HIDE DEF e
  <2>4. /\ Len(sub') = Len(sub)
        /\ \A i \in 1 .. Len(sub) : sub'[i] = IF i = slot THEN e ELSE sub[i]
    BY <1>1, <2>1, <2>3, EntryPut DEF Typed, EntriesTyped
  <2> QED
    BY <2>1, <2>3, <2>4
<1> HIDE DEF e
<1> QED
  BY <1>1, <1>2, <1>3, <1>4, FillingCalm

\* A step of chat_server that sends nothing.
LEMMA WalkDelivers ==
    ASSUME Typed, Typed', Orderly, Serving, Delivered, UNCHANGED <<mgmt, text_snd, screen>>,
           Len(sub') = Len(sub), Len(history) <= Len(history'),
           \A k \in 1 .. Len(history) : history'[k] = history[k],
           \A i \in 1 .. Len(sub) : Sent(i)' = Sent(i)
    PROVE  Delivered'
<1>1. Len(sub) \in Nat
  BY CalmNumbers
<1>2. \A c \in Clients : (InChat(c)' <=> InChat(c)) /\ Id(c)' = Id(c)
  BY DEF InChat, Id, mgmt
<1>3. /\ \A c \in Clients : InChat(c) => InChat(c)' /\ Id(c)' = Id(c) /\ Id(c) \in 1 .. Len(sub)
      /\ \A c \in Clients : InChat(c)' => Id(c)' \in 1 .. Len(sub)
      /\ \A c, d \in Clients : InChat(c)' /\ InChat(d)' /\ c # d => Id(c)' # Id(d)'
  BY <1>2, ChatIds DEF Serving
<1> QED
  BY <1>1, <1>3, DeliveredStays

\* chat_server's steps leave mgmt_thread's entry as it is.
LEMMA WalkServes ==
    ASSUME Typed, Serving, UNCHANGED <<mgmt, entries, orderly>>, Len(sub') = Len(sub),
           \A i \in 1 .. Len(sub) : sub'[i].name = sub[i].name,
           tpc' \in {"test", "hist", "last"} =>
               /\ number_sub' \in 1 .. Len(sub) /\ type' = number_sub'
               /\ sub[number_sub'].name # "unset",
           tpc' = "hist" => sub'[number_sub'].new_sub = 1,
           tpc' = "last" => sub'[number_sub'].new_sub = 0
    PROVE  Serving'
<1>1. \A i : HalfFilled(i)' = HalfFilled(i)
  BY DEF HalfFilled, mgmt, entries
<1>2. \A i \in 1 .. Len(sub') : sub'[i].name # "null" /\ (sub'[i].name = "unset" => HalfFilled(i)')
  BY <1>1 DEF Serving
<1>3. orderly' = "yes" /\ pc'["server"] # "ended" /\ message_mgmt'["server"].kind # "exit"
  BY DEF Serving, mgmt
<1> QED
  BY <1>2, <1>3 DEF Serving

LEMMA TakeLineCalm == Typed /\ Typed' /\ Orderly /\ Calm /\ TakeLine => Calm'
<1> SUFFICES ASSUME Typed, Typed', Orderly, Calm, TakeLine, calm' = "yes"
             PROVE  Turns' /\ Serving' /\ Delivered'
  BY DEF Calm
<1>1. /\ tpc = "wait" /\ text_rcv # <<>> /\ tpc' = "walk" /\ number_sub' = 1
      /\ history' = Append(history, Head(text_rcv)) /\ text_rcv' = Tail(text_rcv)
      /\ UNCHANGED <<mgmt, entries, sub, number_hist, type, text_snd, screen, toType, orderly, calm>>
  BY DEF TakeLine, users, notes
<1>2. Turns /\ Serving /\ Delivered
  BY <1>1, CalmParts
<1> DEFINE l == Head(text_rcv)
           n == Len(history) + 1
<1>3. /\ Len(sub) \in Nat /\ Len(history) \in Nat /\ Len(text_rcv) \in Nat
      /\ \A k \in 1 .. Len(history) : history[k] \in Nat
      /\ \A k \in 1 .. Len(text_rcv) : text_rcv[k] \in Nat
  BY CalmNumbers
<1>4. /\ l = text_rcv[1] /\ 1 \in 1 .. Len(text_rcv) /\ Len(text_rcv') = Len(text_rcv) - 1
      /\ \A k \in 1 .. Len(text_rcv') :
             /\ k + 1 \in 1 .. Len(text_rcv) /\ text_rcv'[k] = text_rcv[k + 1]
  <2>1. /\ Head(text_rcv) = text_rcv[1] /\ Len(Tail(text_rcv)) = Len(text_rcv) - 1
        /\ \A k \in 1 .. Len(Tail(text_rcv)) : Tail(text_rcv)[k] = text_rcv[k + 1]
        /\ Len(text_rcv) > 0
    BY <1>1, <1>3, HeadTailProperties, EmptySeq DEF Typed, ChatTyped
  <2> QED
    BY <1>1, <1>3, <2>1
<1>5. /\ Len(history') = n /\ history'[n] = l
      /\ \A k \in 1 .. Len(history) : history'[k] = history[k]
  <2>1. l \in Lines
    BY <1>1, <1>4, ElementOfSeq DEF Typed, ChatTyped
  <2> HIDE DEF l
  <2> QED
    BY <1>1, <2>1, AppendProperties DEF Typed, ChatTyped, l
<1> HIDE DEF l
<1>6. Turns'
  <2>1. \A k \in 1 .. n : k \in 1 .. Len(history) \/ k = n
    BY <1>3
  <2>2. \A k, m \in 1 .. Len(history') : k < m => history'[k] > history'[m]
    <3> SUFFICES ASSUME NEW k \in 1 .. n, NEW m \in 1 .. n, k < m
                 PROVE  history'[k] > history'[m]
      BY <1>5
    <3>1. k \in 1 .. Len(history)
      BY <1>3
    <3>2. CASE m = n
      BY <1>2, <1>4, <1>5, <3>1, <3>2 DEF Turns
    <3>3. CASE m \in 1 .. Len(history)
      BY <1>2, <1>5, <3>1, <3>3 DEF Turns
    <3> QED
      BY <2>1, <3>2, <3>3
  <2>3. \A k, m \in 1 .. Len(text_rcv') : k < m => text_rcv'[k] > text_rcv'[m]
    <3> SUFFICES ASSUME NEW k \in 1 .. Len(text_rcv'), NEW m \in 1 .. Len(text_rcv'), k < m
                 PROVE  text_rcv'[k] > text_rcv'[m]
      OBVIOUS
    <3>1. k + 1 < m + 1
      OBVIOUS
    <3> QED
      BY <1>2, <1>4, <3>1 DEF Turns
  <2>4. \A k \in 1 .. Len(history'), m \in 1 .. Len(text_rcv') : history'[k] > text_rcv'[m]
    <3> SUFFICES ASSUME NEW k \in 1 .. n, NEW m \in 1 .. Len(text_rcv')
                 PROVE  history'[k] > text_rcv'[m]
      BY <1>5
    <3>1. m + 1 \in 1 .. Len(text_rcv) /\ text_rcv'[m] = text_rcv[m + 1] /\ 1 < m + 1
      BY <1>4
    <3>2. CASE k = n
      BY <1>2, <1>4, <1>5, <3>1, <3>2 DEF Turns
    <3>3. CASE k \in 1 .. Len(history)
      BY <1>2, <1>5, <3>1, <3>3 DEF Turns
    <3> QED
      BY <2>1, <3>2, <3>3
  <2>5. \A k \in 1 .. Len(history') : history'[k] > toType'
    <3> SUFFICES ASSUME NEW k \in 1 .. n PROVE history'[k] > toType
      BY <1>1, <1>5
    <3>1. CASE k = n
      BY <1>2, <1>4, <1>5, <3>1 DEF Turns
    <3>2. CASE k \in 1 .. Len(history)
      BY <1>2, <1>5, <3>2 DEF Turns
    <3> QED
      BY <2>1, <3>1, <3>2
  <2>6. \A m \in 1 .. Len(text_rcv') : text_rcv'[m] > toType'
    BY <1>1, <1>2, <1>4 DEF Turns
  <2>7. \A j, m \in 1 .. Len(text_snd') :
            j < m /\ text_snd'[j].type = text_snd'[m].type => text_snd'[j].line > text_snd'[m].line
    BY <1>1, <1>2 DEF Turns
  <2> QED
    BY <2>2, <2>3, <2>4, <2>5, <2>6, <2>7 DEF Turns
<1>7. Serving'
  BY <1>1, <1>2, WalkServes
<1>8. \A i \in 1 .. Len(sub) : Sent(i)' = Sent(i)
  <2> SUFFICES ASSUME NEW i \in 1 .. Len(sub) PROVE Sent(i)' = Sent(i)
    OBVIOUS
  <2>1. tpc' = "walk" /\ tpc = "wait" /\ number_sub' <= i /\ Len(history') - 1 = Len(history) /\ sub' = sub
    BY <1>1, <1>3, <1>5
  <2> QED
    BY <2>1 DEF Sent
<1>9. Delivered'
  <2>1. Len(history) <= Len(history')
    BY <1>3, <1>5
  <2> QED
    BY <1>1, <1>2, <1>5, <1>8, <2>1, WalkDelivers
<1> QED
  BY <1>6, <1>7, <1>9

\* chat_server's steps that neither take a line nor send one.
LEMMA WalkCalm ==
    ASSUME Typed, Typed', Orderly, Calm, Walk \/ WalkEnds \/ Test \/ EndHistory
    PROVE  Calm'
<1> SUFFICES ASSUME calm' = "yes" PROVE Turns' /\ Serving' /\ Delivered'
  BY DEF Calm
<1>1. UNCHANGED <<mgmt, entries, history, text_rcv, text_snd, toType, screen, orderly>> /\ Up
  BY DEF Walk, WalkEnds, Test, EndHistory, users, notes
<1>2. calm = "yes"
  BY DEF Walk, WalkEnds, Test, EndHistory, notes
<1>3. Turns /\ Serving /\ Delivered /\ orderly = "yes"
  BY <1>2, CalmParts
<1>4. Len(sub) \in Nat /\ Len(history) \in Nat /\ count = Len(sub)
  BY <1>1, <1>3, CalmNumbers, CountIsLength DEF Up
<1>5. Turns'
  BY <1>1, <1>3 DEF Turns
<1>6. ASSUME Serving', Len(sub') = Len(sub), \A i \in 1 .. Len(sub) : Sent(i)' = Sent(i)
      PROVE  Delivered'
  BY <1>1, <1>3, <1>4, <1>6, WalkDelivers
<1>7. CASE Walk
  <2>1. /\ tpc = "walk" /\ number_sub <= Len(sub) /\ type' = sub[number_sub].id /\ tpc' = "test"
        /\ ~HalfFilled(number_sub) /\ UNCHANGED <<sub, number_sub, number_hist>>
    BY <1>7 DEF Walk
  <2>2. number_sub \in 1 .. Len(sub)
    BY <1>4, <2>1 DEF Typed, WithinBounds
  <2>3. sub[number_sub].id = number_sub
    BY <1>1, <1>3, <1>4, <2>1, <2>2 DEF Orderly, InPlace, Up, HalfFilled
  <2>4. sub[number_sub].name # "unset"
    BY <1>3, <2>1, <2>2 DEF Serving
  <2>5. Serving'
    BY <1>1, <1>3, <2>1, <2>2, <2>3, <2>4, WalkServes
  <2>6. \A i \in 1 .. Len(sub) : Sent(i)' = Sent(i)
    BY <1>1, <2>1 DEF Sent
  <2> QED
    BY <1>5, <1>6, <2>1, <2>5, <2>6
<1>8. CASE WalkEnds
  <2>1. /\ tpc = "walk" /\ number_sub > Len(sub) /\ tpc' = "wait"
        /\ UNCHANGED <<sub, number_hist>>
    BY <1>8 DEF WalkEnds
  <2>2. Serving'
    BY <1>1, <1>3, <2>1, WalkServes
  <2>3. number_sub \in Nat
    BY SizesAssumption DEF Typed, ChatTyped, Ids
  <2>4. \A i \in 1 .. Len(sub) : ~ (number_sub <= i)
    BY <1>4, <2>1, <2>3
  <2>5. \A i \in 1 .. Len(sub) : Sent(i)' = Sent(i)
    BY <1>1, <2>1, <2>4 DEF Sent
  <2> QED
    BY <1>5, <1>6, <2>1, <2>2, <2>5
<1>9. CASE Test
  <2>1. /\ tpc = "test" /\ UNCHANGED <<sub, number_sub, type>>
        /\ \/ sub[number_sub].new_sub = 1 /\ tpc' = "hist" /\ number_hist' = 1
           \/ sub[number_sub].new_sub # 1 /\ tpc' = "last"
    BY <1>9 DEF Test, FirstShown
  <2>2. /\ number_sub \in 1 .. Len(sub) /\ type = number_sub
        /\ sub[number_sub].name # "unset"
    BY <1>3, <1>4, <2>1 DEF Typed, WithinBounds, Serving
  <2>3. sub[number_sub].new_sub \in {0, 1}
    <3>1. sub[number_sub] \in Entry
      BY <2>2, ElementOfSeq DEF Typed, EntriesTyped
    <3> QED
      BY <3>1 DEF Entry
  <2>4. Serving'
    BY <1>1, <1>3, <2>1, <2>2, <2>3, WalkServes
  <2>5. \A i \in 1 .. Len(sub) : Sent(i)' = Sent(i)
    BY <1>1, <2>1 DEF Sent
  <2> QED
    BY <1>5, <1>6, <2>1, <2>4, <2>5
<1>10. CASE EndHistory
  <2>1. /\ tpc = "hist" /\ number_hist > Len(history) /\ tpc' = "walk"
        /\ number_sub' = number_sub + 1
        /\ sub' = [sub EXCEPT ![number_sub] = Known(sub[number_sub])]
    BY <1>10 DEF EndHistory
  <2>2. /\ number_sub \in 1 .. Len(sub) /\ sub[number_sub].name # "unset"
        /\ sub[number_sub].new_sub = 1
    BY <1>3, <1>4, <2>1 DEF Typed, WithinBounds, Serving
  <2>3. /\ Len(sub') = Len(sub) /\ sub'[number_sub].new_sub = 0
        /\ \A i \in 1 .. Len(sub) : sub'[i].name = sub[i].name
        /\ \A i \in 1 .. Len(sub) : i # number_sub => sub'[i].new_sub = sub[i].new_sub
    <3>1. sub[number_sub] \in Entry
      BY <2>2, ElementOfSeq DEF Typed, EntriesTyped
    <3>2. /\ Known(sub[number_sub]) \in Entry /\ Known(sub[number_sub]).new_sub = 0
          /\ Known(sub[number_sub]).name = sub[number_sub].name
      BY <3>1 DEF Known, Entry
    <3>3. /\ Len(sub') = Len(sub)
          /\ \A i \in 1 .. Len(sub) :
                 sub'[i] = IF i = number_sub THEN Known(sub[number_sub]) ELSE sub[i]
      BY <2>1, <2>2, <3>2, EntryPut DEF Typed, EntriesTyped
    <3> QED
      BY <2>2, <3>2, <3>3
  <2>4. Serving'
    BY <1>1, <1>3, <2>1, <2>3, WalkServes
  <2>5. number_hist - 1 = Len(history)
    BY <1>4, <2>1 DEF Typed, WithinBounds
  <2>6. ASSUME NEW i \in 1 .. Len(sub) PROVE Sent(i)' = Sent(i)
    <3>1. CASE i = number_sub
      <4>1. ~ (number_sub' <= i)
        BY <2>1, <2>2, <3>1
      <4> QED
        BY <1>1, <2>1, <2>2, <2>3, <2>5, <3>1, <4>1 DEF Sent
    <3>2. CASE i # number_sub
      <4>1. number_sub' <= i <=> number_sub <= i
        BY <2>1, <2>2, <3>2
      <4> QED
        BY <1>1, <2>1, <2>3, <3>2, <4>1 DEF Sent
    <3> QED
      BY <3>1, <3>2
  <2> QED
    BY <1>5, <1>6, <2>3, <2>4, <2>6
<1> QED
  BY <1>7, <1>8, <1>9, <1>10

\* One more line is sent to the subscriber of entry e.
LEMMA SendsOneMore ==
    ASSUME Typed, Typed', Orderly, Turns, Serving, Delivered,
           UNCHANGED <<mgmt, sub, history, text_rcv, toType, screen>>,
           NEW e \in 1 .. Len(sub), Sent(e) + 1 <= Len(history), Sent(e)' = Sent(e) + 1,
           \A i \in 1 .. Len(sub) : i # e => Sent(i)' = Sent(i),
           text_snd' = Append(text_snd, [type |-> e, line |-> history[Sent(e) + 1]])
    PROVE  Turns' /\ Delivered'
<1> DEFINE n == Sent(e) + 1
           m == [type |-> e, line |-> history[n]]
           z == Len(text_snd) + 1
<1>1. /\ Len(sub) \in Nat /\ Len(history) \in Nat /\ Len(text_snd) \in Nat
      /\ Sent(e) \in Nat /\ n \in 1 .. Len(history)
      /\ \A k \in 1 .. Len(history) : history[k] \in Nat
      /\ \A c \in Clients : Len(screen[c]) \in Nat
  <2>1. Sent(e) \in Nat
    BY SentBound
  <2> QED
    BY <2>1, CalmNumbers
<1>2. /\ Len(text_snd') = z /\ text_snd'[z].type = e /\ text_snd'[z].line = history[n]
      /\ \A j \in 1 .. Len(text_snd) : text_snd'[j] = text_snd[j]
      /\ \A j \in 1 .. Len(text_snd') : j \in 1 .. Len(text_snd) \/ j = z
  <2>1. m \in [type : Ids, line : Lines]
    <3>1. history[n] \in Lines
      BY <1>1, ElementOfSeq DEF Typed, ChatTyped
    <3>2. e \in Ids
      BY <1>1, SizesAssumption DEF Typed, EntriesTyped, Ids
    <3> QED
      BY <3>1, <3>2
  <2>2. m.type = e /\ m.line = history[n]
    OBVIOUS
  <2> HIDE DEF m
  <2>3. /\ Len(text_snd') = Len(text_snd) + 1 /\ text_snd'[Len(text_snd) + 1] = m
        /\ \A j \in 1 .. Len(text_snd) : text_snd'[j] = text_snd[j]
    BY <2>1, AppendProperties DEF Typed, ChatTyped, m
  <2>4. \A j \in 1 .. z : j \in 1 .. Len(text_snd) \/ j = z
    BY <1>1
  <2> QED
    BY <2>2, <2>3, <2>4
<1> HIDE DEF m, n
<1>3. n = Sent(e) + 1 /\ Sent(e)' = n
  BY DEF n
<1>4. PICK q \in Nat : Window(e, q) /\ Printed(e, q)
  BY DEF Delivered
<1>5. \A j \in 1 .. Len(text_snd) : text_snd[j].type = e => text_snd[j].line > history[n]
  <2> SUFFICES ASSUME NEW j \in 1 .. Len(text_snd), text_snd[j].type = e
               PROVE  text_snd[j].line > history[n]
    OBVIOUS
  <2>1. PICK k \in q + 1 .. Sent(e) : text_snd[j].line = history[k]
    BY <1>4 DEF Window
  <2>2. k \in 1 .. Len(history) /\ k < n
    BY <1>1, <1>3
  <2> QED
    BY <1>1, <2>1, <2>2 DEF Turns
<1>6. Turns'
  <2>1. \A j, l \in 1 .. Len(text_snd') :
            j < l /\ text_snd'[j].type = text_snd'[l].type => text_snd'[j].line > text_snd'[l].line
    <3> SUFFICES ASSUME NEW j \in 1 .. z, NEW l \in 1 .. z,
                        j < l, text_snd'[j].type = text_snd'[l].type
                 PROVE  text_snd'[j].line > text_snd'[l].line
      BY <1>2
    <3>1. j \in 1 .. Len(text_snd)
      BY <1>1
    <3>2. CASE l = z
      BY <1>2, <1>5, <3>1, <3>2
    <3>3. CASE l \in 1 .. Len(text_snd)
      BY <1>2, <3>1, <3>3 DEF Turns
    <3> QED
      BY <1>2, <3>2, <3>3
  <2> QED
    BY <2>1 DEF Turns
<1>7. /\ \A j \in 1 .. Len(text_snd') : text_snd'[j].type \in 1 .. Len(sub')
      /\ \A c \in Clients : ~InChat(c)' => screen'[c] = <<>>
      /\ \A c \in Clients : \A k \in 1 .. Len(screen'[c]) : screen'[c][k] = history'[k]
  BY <1>2 DEF Delivered, InChat, mgmt
<1>8. ASSUME NEW i \in 1 .. Len(sub') PROVE \E s \in Nat : Window(i, s)' /\ Printed(i, s)'
  <2>1. PICK s \in Nat : Window(i, s) /\ Printed(i, s)
    BY DEF Delivered
  <2>2. Printed(i, s)'
    <3>1. \A c \in Clients : (InChat(c)' <=> InChat(c)) /\ Id(c)' = Id(c)
      BY DEF InChat, Id, mgmt
    <3> QED
      BY <2>1, <3>1 DEF Printed
  <2>3. CASE i # e
    <3>1. Sent(i)' = Sent(i)
      BY <2>3
    <3>2. \A j \in 1 .. Len(text_snd') : text_snd'[j].type = i =>
              j \in 1 .. Len(text_snd) /\ text_snd'[j] = text_snd[j]
      BY <1>2, <2>3
    <3>3. \A j \in 1 .. Len(text_snd) : j \in 1 .. Len(text_snd')
      BY <1>1, <1>2
    <3>4. Window(i, s)'
      BY <1>2, <2>1, <3>1, <3>2, <3>3 DEF Window
    <3> QED
      BY <2>2, <3>4
  <2>4. CASE i = e
    <3>1. s <= Sent(e)
      BY <2>1, <2>4 DEF Window
    <3>2. \A k \in s + 1 .. n : k \in s + 1 .. Sent(e) \/ k = n
      BY <1>1, <1>3
    <3>3. n \in s + 1 .. n /\ \A k \in s + 1 .. Sent(e) : k \in s + 1 .. n
      BY <1>1, <1>3, <3>1
    <3>4. \A j \in 1 .. Len(text_snd') :
              text_snd'[j].type = e => \E k \in s + 1 .. n : text_snd'[j].line = history[k]
      <4> SUFFICES ASSUME NEW j \in 1 .. Len(text_snd'), text_snd'[j].type = e
                   PROVE  \E k \in s + 1 .. n : text_snd'[j].line = history[k]
        OBVIOUS
      <4>1. CASE j = z
        BY <1>2, <3>3, <4>1
      <4>2. CASE j \in 1 .. Len(text_snd)
        <5>1. PICK k \in s + 1 .. Sent(e) : text_snd[j].line = history[k]
          BY <1>2, <2>1, <2>4, <4>2 DEF Window
        <5> QED
          BY <1>2, <3>3, <4>2, <5>1
      <4> QED
        BY <1>2, <4>1, <4>2
    <3>5. \A k \in s + 1 .. n :
              \E j \in 1 .. Len(text_snd') : text_snd'[j].type = e /\ text_snd'[j].line = history[k]
      <4> SUFFICES ASSUME NEW k \in s + 1 .. n
                   PROVE  \E j \in 1 .. Len(text_snd') :
                              text_snd'[j].type = e /\ text_snd'[j].line = history[k]
        OBVIOUS
      <4>1. CASE k = n
        <5>1. z \in 1 .. Len(text_snd')
          BY <1>1, <1>2
        <5> QED
          BY <1>2, <4>1, <5>1
      <4>2. CASE k \in s + 1 .. Sent(e)
        <5>1. PICK j \in 1 .. Len(text_snd) : text_snd[j].type = e /\ text_snd[j].line = history[k]
          BY <2>1, <2>4, <4>2 DEF Window
        <5>2. j \in 1 .. Len(text_snd') /\ text_snd'[j] = text_snd[j]
          BY <1>1, <1>2
        <5> QED
          BY <5>1, <5>2
      <4> QED
        BY <3>2, <4>1, <4>2
    <3>6. s <= n
      BY <1>1, <1>3, <3>1
    <3>7. Window(e, s)'
      BY <1>3, <3>4, <3>5, <3>6 DEF Window
    <3> QED
      BY <2>2, <2>4, <3>7
  <2> QED
    BY <2>3, <2>4
<1>9. Delivered'
  BY <1>7, <1>8 DEF Delivered
<1> QED
  BY <1>6, <1>9

LEMMA SendsCalm ==
    ASSUME Typed, Typed', Orderly, Calm, SendHistory \/ SendLast
    PROVE  Calm'
<1> SUFFICES ASSUME calm' = "yes" PROVE Turns' /\ Serving' /\ Delivered'
  BY DEF Calm
<1>1. /\ UNCHANGED <<mgmt, entries, sub, type, history, text_rcv, toType, screen, orderly, calm>>
      /\ tpc \in {"hist", "last"}
  BY DEF SendHistory, SendLast, users, notes
<1>2. Turns /\ Serving /\ Delivered
  BY <1>1, CalmParts
<1>3. /\ Len(sub) \in Nat /\ Len(history) \in Nat /\ number_sub \in 1 .. Len(sub)
      /\ type = number_sub /\ sub[number_sub].name # "unset"
  <2>1. Len(sub) \in Nat /\ Len(history) \in Nat
    BY CalmNumbers
  <2> QED
    BY <1>1, <1>2, <2>1 DEF Typed, WithinBounds, Serving
<1>4. ASSUME NEW line, SendText(line)
      PROVE  text_snd' = Append(text_snd, [type |-> number_sub, line |-> line])
  BY <1>3, <1>4 DEF SendText
<1>5. CASE SendHistory
  <2>1. /\ tpc = "hist" /\ tpc' = "hist" /\ number_sub' = number_sub
        /\ number_hist <= Len(history) /\ number_hist' = number_hist + 1
        /\ SendText(history[number_hist])
    BY <1>5 DEF SendHistory
  <2>2. number_hist \in 1 .. Len(history) /\ sub[number_sub].new_sub = 1
    BY <1>2, <1>3, <2>1 DEF Typed, WithinBounds, Serving
  <2>3. Sent(number_sub) + 1 = number_hist /\ Sent(number_sub)' = Sent(number_sub) + 1
    <3>1. Sent(number_sub) = number_hist - 1
      BY <1>3, <2>1, <2>2 DEF Sent
    <3>2. Sent(number_sub)' = number_hist' - 1
      BY <1>1, <1>3, <2>1, <2>2 DEF Sent
    <3> QED
      BY <2>1, <2>2, <3>1, <3>2
  <2>4. PICK e \in 1 .. Len(sub) : e = number_sub
    BY <1>3
  <2>5. \A i \in 1 .. Len(sub) : i # e => Sent(i)' = Sent(i)
    BY <1>1, <2>1, <2>4 DEF Sent
  <2>6. text_snd' = Append(text_snd, [type |-> e, line |-> history[Sent(e) + 1]])
    BY <1>4, <2>1, <2>3, <2>4
  <2>7. Sent(e) + 1 <= Len(history) /\ Sent(e)' = Sent(e) + 1
    <3>1. Sent(e)' = number_hist' - 1 /\ Sent(e) = number_hist - 1
      BY <1>1, <1>3, <2>1, <2>2, <2>4 DEF Sent
    <3> QED
      BY <2>1, <2>2, <3>1
  <2>8. Turns' /\ Delivered'
    BY <1>1, <1>2, <2>5, <2>6, <2>7, SendsOneMore
  <2>9. Serving'
    BY <1>1, <1>2, <1>3, <2>1, <2>2, WalkServes
  <2> QED
    BY <2>8, <2>9
<1>6. CASE SendLast
  <2>1. /\ tpc = "last" /\ tpc' = "walk" /\ number_sub' = number_sub + 1
        /\ SendText(history[Len(history)])
    BY <1>6 DEF SendLast
  <2>2. sub[number_sub].new_sub = 0
    BY <1>2, <2>1 DEF Serving
  <2>3. PICK e \in 1 .. Len(sub) : e = number_sub
    BY <1>3
  <2>4. number_sub <= e /\ ~ (number_sub' <= e)
    BY <1>3, <2>1, <2>3
  <2>5. Sent(e) = Len(history) - 1 /\ Sent(e)' = Len(history)
    BY <1>1, <1>3, <2>1, <2>2, <2>3, <2>4 DEF Sent
  <2>6. \A i \in 1 .. Len(sub) : i # e => Sent(i)' = Sent(i)
    <3> SUFFICES ASSUME NEW i \in 1 .. Len(sub), i # e PROVE Sent(i)' = Sent(i)
      OBVIOUS
    <3>1. number_sub' <= i <=> number_sub <= i
      BY <1>3, <2>1, <2>3
    <3> QED
      BY <1>1, <2>1, <2>3, <3>1 DEF Sent
  <2>7. /\ Sent(e) + 1 = Len(history) /\ Sent(e) + 1 <= Len(history) /\ Sent(e)' = Sent(e) + 1
    BY <1>3, <2>5
  <2>8. text_snd' = Append(text_snd, [type |-> e, line |-> history[Sent(e) + 1]])
    BY <1>4, <2>1, <2>3, <2>7
  <2>9. Turns' /\ Delivered'
    BY <1>1, <1>2, <2>6, <2>7, <2>8, SendsOneMore
  <2>10. Serving'
    BY <1>1, <1>2, <2>1, WalkServes
  <2> QED
    BY <2>9, <2>10
<1> QED
  BY <1>5, <1>6

LEMMA TypeLineCalm ==
    ASSUME Typed, Typed', Orderly, Calm, NEW c \in Clients, TypeLine(c)
    PROVE  Calm'
<1> SUFFICES ASSUME calm' = "yes" PROVE Turns' /\ Serving' /\ Delivered'
  BY DEF Calm
<1>1. /\ toType > 0 /\ toType' = toType - 1 /\ text_rcv' = Append(text_rcv, toType)
      /\ UNCHANGED <<mgmt, entries, sub, tpc, number_sub, number_hist, type, history, text_snd,
                     screen, orderly, calm>>
  BY DEF TypeLine, walk, notes
<1>2. Turns /\ Serving /\ Delivered
  BY <1>1, CalmParts
<1>3. /\ Len(sub) \in Nat /\ Len(history) \in Nat /\ Len(text_rcv) \in Nat /\ toType \in Nat
      /\ \A k \in 1 .. Len(history) : history[k] \in Nat
      /\ \A k \in 1 .. Len(text_rcv) : text_rcv[k] \in Nat
  BY CalmNumbers
<1> DEFINE n == Len(text_rcv) + 1
<1>4. /\ Len(text_rcv') = n /\ text_rcv'[n] = toType
      /\ \A k \in 1 .. Len(text_rcv) : text_rcv'[k] = text_rcv[k]
  <2>1. toType \in Lines
    BY <1>1, SizesAssumption DEF Typed, ChatTyped, Lines
  <2> QED
    BY <1>1, <2>1, AppendProperties DEF Typed, ChatTyped
<1>5. \A k \in 1 .. n : k \in 1 .. Len(text_rcv) \/ k = n
  BY <1>3
<1>6. Turns'
  <2>1. \A k, l \in 1 .. Len(text_rcv') : k < l => text_rcv'[k] > text_rcv'[l]
    <3> SUFFICES ASSUME NEW k \in 1 .. n, NEW l \in 1 .. n, k < l
                 PROVE  text_rcv'[k] > text_rcv'[l]
      BY <1>4
    <3>1. k \in 1 .. Len(text_rcv)
      BY <1>3
    <3>2. CASE l = n
      BY <1>2, <1>4, <3>1, <3>2 DEF Turns
    <3>3. CASE l \in 1 .. Len(text_rcv)
      BY <1>2, <1>4, <3>1, <3>3 DEF Turns
    <3> QED
      BY <1>5, <3>2, <3>3
  <2>2. \A k \in 1 .. Len(history'), l \in 1 .. Len(text_rcv') : history'[k] > text_rcv'[l]
    <3> SUFFICES ASSUME NEW k \in 1 .. Len(history), NEW l \in 1 .. n
                 PROVE  history[k] > text_rcv'[l]
      BY <1>1, <1>4
    <3>1. CASE l = n
      BY <1>2, <1>4, <3>1 DEF Turns
    <3>2. CASE l \in 1 .. Len(text_rcv)
      BY <1>2, <1>4, <3>2 DEF Turns
    <3> QED
      BY <1>5, <3>1, <3>2
  <2>3. \A k \in 1 .. Len(history') : history'[k] > toType'
    BY <1>1, <1>2, <1>3 DEF Turns
  <2>4. \A l \in 1 .. Len(text_rcv') : text_rcv'[l] > toType'
    <3> SUFFICES ASSUME NEW l \in 1 .. n PROVE text_rcv'[l] > toType'
      BY <1>4
    <3>1. CASE l = n
      BY <1>1, <1>3, <1>4, <3>1
    <3>2. CASE l \in 1 .. Len(text_rcv)
      BY <1>1, <1>2, <1>3, <1>4, <3>2 DEF Turns
    <3> QED
      BY <1>5, <3>1, <3>2
  <2> QED
    BY <1>1, <1>2, <2>1, <2>2, <2>3, <2>4 DEF Turns
<1>7. Serving'
  BY <1>1, <1>2 DEF Serving, HalfFilled, mgmt, entries
<1>8. \A i : Sent(i)' = Sent(i)
  BY <1>1 DEF Sent
<1>9. Delivered'
  BY <1>1, <1>2, <1>3, <1>8, WalkDelivers
<1> QED
  BY <1>6, <1>7, <1>9

\* The first message with c's id holds the next line that c has not printed.
LEMMA NextLine ==
    ASSUME Typed, Turns, NEW e \in 1 .. Len(sub), NEW s \in Nat, Window(e, s),
           NEW i \in 1 .. Len(text_snd), text_snd[i].type = e,
           \A j \in 1 .. i - 1 : text_snd[j].type # e
    PROVE  text_snd[i].line = history[s + 1] /\ s + 1 <= Sent(e) /\ s + 1 \in 1 .. Len(history)
<1>1. /\ Len(history) \in Nat /\ Len(text_snd) \in Nat /\ Sent(e) \in Nat
      /\ Sent(e) <= Len(history) /\ \A k \in 1 .. Len(history) : history[k] \in Nat
  BY CalmNumbers, SentBound
<1>2. PICK k \in s + 1 .. Sent(e) : text_snd[i].line = history[k]
  BY DEF Window
<1>3. s + 1 \in s + 1 .. Sent(e) /\ s + 1 \in 1 .. Len(history) /\ k \in 1 .. Len(history)
  BY <1>1, <1>2
<1>4. PICK j \in 1 .. Len(text_snd) : text_snd[j].type = e /\ text_snd[j].line = history[s + 1]
  BY <1>3 DEF Window
<1>5. j = i \/ i < j
  BY <1>1, <1>4
<1>6. CASE i < j
  <2>1. history[k] > history[s + 1]
    BY <1>2, <1>4, <1>6 DEF Turns
  <2>2. k = s + 1 \/ s + 1 < k
    BY <1>1, <1>2
  <2>3. s + 1 < k => history[s + 1] > history[k]
    BY <1>3 DEF Turns
  <2> QED
    BY <1>1, <1>3, <2>1, <2>2, <2>3
<1>7. CASE j = i
  BY <1>3, <1>4, <1>7
<1> QED
  BY <1>5, <1>6, <1>7, <1>3

LEMMA PrintLineCalm ==
    ASSUME Typed, Typed', Orderly, Calm, NEW c \in Clients, PrintLine(c)
    PROVE  Calm'
<1> SUFFICES ASSUME calm' = "yes" PROVE Turns' /\ Serving' /\ Delivered'
  BY DEF Calm
<1>1. /\ InChat(c)
      /\ UNCHANGED <<mgmt, entries, sub, tpc, number_sub, number_hist, type, history, text_rcv,
                     toType, orderly, calm>>
  BY DEF PrintLine, walk, notes
<1>2. Turns /\ Serving /\ Delivered /\ orderly = "yes"
  BY <1>1, CalmParts
<1>3. PICK i \in 1 .. Len(text_snd) :
          /\ text_snd[i].type = Id(c) /\ \A j \in 1 .. i - 1 : text_snd[j].type # Id(c)
          /\ screen' = IF calm = "yes" THEN [screen EXCEPT ![c] = Append(screen[c], text_snd[i].line)]
                       ELSE screen
          /\ text_snd' = SubSeq(text_snd, 1, i - 1) \o SubSeq(text_snd, i + 1, Len(text_snd))
  BY DEF PrintLine
<1>4. /\ Len(sub) \in Nat /\ Len(history) \in Nat /\ Len(text_snd) \in Nat
      /\ \A k \in 1 .. Len(history) : history[k] \in Nat
      /\ \A d \in Clients : Len(screen[d]) \in Nat
  BY CalmNumbers
<1> DEFINE from(j) == IF j < i THEN j ELSE j + 1
<1>5. /\ Len(text_snd') = Len(text_snd) - 1
      /\ \A j \in 1 .. Len(text_snd') :
             from(j) \in 1 .. Len(text_snd) /\ from(j) # i /\ text_snd'[j] = text_snd[from(j)]
      /\ \A j, l \in 1 .. Len(text_snd') : j < l => from(j) < from(l)
      /\ \A k \in 1 .. Len(text_snd) :
             k # i => \E j \in 1 .. Len(text_snd') : text_snd'[j] = text_snd[k]
  <2>1. /\ Len(text_snd') = Len(text_snd) - 1
        /\ \A j \in 1 .. Len(text_snd') : text_snd'[j] = IF j < i THEN text_snd[j] ELSE text_snd[j + 1]
    BY <1>3, TakenOut DEF Typed, ChatTyped
  <2>2. \A j \in 1 .. Len(text_snd') :
            from(j) \in 1 .. Len(text_snd) /\ from(j) # i /\ text_snd'[j] = text_snd[from(j)]
    BY <1>4, <2>1
  <2>3. \A j, l \in 1 .. Len(text_snd') : j < l => from(j) < from(l)
    BY <1>4, <2>1
  <2>4. ASSUME NEW k \in 1 .. Len(text_snd), k # i
        PROVE  \E j \in 1 .. Len(text_snd') : text_snd'[j] = text_snd[k]
    <3>1. CASE k < i
      <4>1. k \in 1 .. Len(text_snd')
        BY <1>4, <2>1, <3>1
      <4> QED
        BY <2>1, <3>1, <4>1
    <3>2. CASE i < k
      <4>1. k - 1 \in 1 .. Len(text_snd') /\ ~ (k - 1 < i) /\ (k - 1) + 1 = k
        BY <1>4, <2>1, <3>2
      <4>2. text_snd'[k - 1] = text_snd[k]
        BY <2>1, <4>1
      <4> QED
        BY <4>1, <4>2
    <3> QED
      BY <1>4, <2>4, <3>1, <3>2
  <2> QED
    BY <2>1, <2>2, <2>3, <2>4
<1> HIDE DEF from
<1>6. PICK e \in 1 .. Len(sub) : e = Id(c)
  BY <1>1, <1>2, ChatIds
<1>7. PICK s \in Nat : Window(e, s) /\ Printed(e, s)
  BY <1>2 DEF Delivered
<1>8. Len(screen[c]) = s
  BY <1>1, <1>6, <1>7 DEF Printed
<1>9. text_snd[i].line = history[s + 1] /\ s + 1 <= Sent(e) /\ s + 1 \in 1 .. Len(history)
  BY <1>2, <1>3, <1>6, <1>7, NextLine
<1>10. /\ Len(screen'[c]) = s + 1 /\ screen'[c][s + 1] = history[s + 1]
       /\ \A k \in 1 .. s : screen'[c][k] = screen[c][k]
       /\ \A d \in Clients \ {c} : screen'[d] = screen[d]
  <2>1. history[s + 1] \in Lines /\ screen \in [Clients -> Seq(Lines)]
    BY <1>9, ElementOfSeq DEF Typed, ChatTyped
  <2>2. screen' = [screen EXCEPT ![c] = Append(screen[c], history[s + 1])]
    BY <1>1, <1>3, <1>9
  <2> DEFINE l == history[s + 1]
             t == Append(screen[c], l)
  <2>3. /\ Len(t) = s + 1 /\ t[s + 1] = l
        /\ \A k \in 1 .. s : t[k] = screen[c][k]
    <3>1. l \in Lines /\ screen[c] \in Seq(Lines)
      BY <2>1
    <3> HIDE DEF l
    <3> QED
      BY <1>8, <3>1, AppendProperties
  <2> HIDE DEF t
  <2>4. screen'[c] = t /\ \A d \in Clients \ {c} : screen'[d] = screen[d]
    BY <2>1, <2>2 DEF t
  <2> QED
    BY <2>3, <2>4
<1>11. Turns'
  <2>1. ASSUME NEW j \in 1 .. Len(text_snd'), NEW l \in 1 .. Len(text_snd'),
               j < l, text_snd'[j].type = text_snd'[l].type
        PROVE  text_snd'[j].line > text_snd'[l].line
    <3>1. /\ from(j) \in 1 .. Len(text_snd) /\ text_snd'[j] = text_snd[from(j)]
          /\ from(l) \in 1 .. Len(text_snd) /\ text_snd'[l] = text_snd[from(l)]
          /\ from(j) < from(l)
      BY <1>5, <2>1
    <3>2. text_snd[from(j)].line > text_snd[from(l)].line
      BY <1>2, <2>1, <3>1 DEF Turns
    <3> QED
      BY <3>1, <3>2
  <2> QED
    BY <1>1, <1>2, <2>1 DEF Turns
<1>12. Serving'
  BY <1>1, <1>2 DEF Serving, HalfFilled, mgmt, entries
<1>13. \A k : Sent(k)' = Sent(k)
  BY <1>1 DEF Sent
<1>14. \A d \in Clients : (InChat(d)' <=> InChat(d)) /\ Id(d)' = Id(d)
  BY <1>1 DEF InChat, Id, mgmt
<1>15. ASSUME NEW f \in 1 .. Len(sub') PROVE \E q \in Nat : Window(f, q)' /\ Printed(f, q)'
  <2>1. CASE f = e
    <3>1. s + 1 <= Sent(e)
      BY <1>9
    <3>2. \A j \in 1 .. Len(text_snd') : text_snd'[j].type = e =>
              \E k \in (s + 1) + 1 .. Sent(e) : text_snd'[j].line = history[k]
      <4> SUFFICES ASSUME NEW j \in 1 .. Len(text_snd'), text_snd'[j].type = e
                   PROVE  \E k \in (s + 1) + 1 .. Sent(e) : text_snd'[j].line = history[k]
        OBVIOUS
      <4>1. PICK o \in 1 .. Len(text_snd) : o # i /\ text_snd'[j] = text_snd[o]
        BY <1>5
      <4>2. i < o
        <5>1. o \in 1 .. i - 1 \/ o = i \/ i < o
          BY <1>4
        <5>2. text_snd[o].type = e
          BY <4>1
        <5>3. \A n \in 1 .. i - 1 : text_snd[n].type # e
          BY <1>3, <1>6
        <5> QED
          BY <4>1, <5>1, <5>2, <5>3
      <4>3. PICK k \in s + 1 .. Sent(e) : text_snd[o].line = history[k]
        BY <1>7, <4>1 DEF Window
      <4>4. text_snd[i].line > text_snd[o].line
        BY <1>2, <1>3, <1>6, <4>1, <4>2 DEF Turns
      <4>5. k # s + 1
        BY <1>4, <1>9, <4>3, <4>4
      <4>6. Sent(e) \in Nat
        BY SentBound
      <4>7. k \in (s + 1) + 1 .. Sent(e)
        BY <4>3, <4>5, <4>6
      <4> QED
        BY <4>1, <4>3, <4>7
    <3>3. \A k \in (s + 1) + 1 .. Sent(e) :
              \E j \in 1 .. Len(text_snd') : text_snd'[j].type = e /\ text_snd'[j].line = history[k]
      <4> SUFFICES ASSUME NEW k \in (s + 1) + 1 .. Sent(e)
                   PROVE  \E j \in 1 .. Len(text_snd') :
                              text_snd'[j].type = e /\ text_snd'[j].line = history[k]
        OBVIOUS
      <4>0. Sent(e) \in Nat /\ Sent(e) <= Len(history)
        BY SentBound
      <4>1. k \in s + 1 .. Sent(e) /\ s + 1 < k /\ k \in 1 .. Len(history)
        BY <1>4, <4>0
      <4>2. PICK o \in 1 .. Len(text_snd) : text_snd[o].type = e /\ text_snd[o].line = history[k]
        BY <1>7, <4>1 DEF Window
      <4>3. history[s + 1] > history[k]
        BY <1>2, <1>9, <4>1 DEF Turns
      <4>4. o # i
        BY <1>4, <1>9, <4>1, <4>2, <4>3
      <4>5. PICK j \in 1 .. Len(text_snd') : text_snd'[j] = text_snd[o]
        BY <1>5, <4>4
      <4> QED
        BY <4>2, <4>5
    <3>4. Window(e, s + 1)'
      BY <1>1, <1>13, <3>1, <3>2, <3>3 DEF Window
    <3>5. Printed(e, s + 1)'
      <4>1. \A d \in Clients : InChat(d)' /\ Id(d)' = e => d = c
        BY <1>1, <1>2, <1>6, <1>14, ChatIds
      <4>2. ~ (\A d \in Clients : InChat(d)' => Id(d)' # e)
        BY <1>1, <1>6, <1>14
      <4> QED
        BY <1>10, <4>1, <4>2 DEF Printed
    <3>6. s + 1 \in Nat
      OBVIOUS
    <3> QED
      BY <2>1, <3>4, <3>5, <3>6
  <2>2. CASE f # e
    <3>1. PICK q \in Nat : Window(f, q) /\ Printed(f, q)
      BY <1>1, <1>2 DEF Delivered
    <3>2. \A j \in 1 .. Len(text_snd') : \E o \in 1 .. Len(text_snd) : text_snd'[j] = text_snd[o]
      BY <1>5
    <3>3. \A o \in 1 .. Len(text_snd) : text_snd[o].type = f =>
              \E j \in 1 .. Len(text_snd') : text_snd'[j] = text_snd[o]
      BY <1>3, <1>5, <1>6, <2>2
    <3>4. \A j \in 1 .. Len(text_snd') : text_snd'[j].type = f =>
              \E k \in q + 1 .. Sent(f) : text_snd'[j].line = history[k]
      <4> SUFFICES ASSUME NEW j \in 1 .. Len(text_snd'), text_snd'[j].type = f
                   PROVE  \E k \in q + 1 .. Sent(f) : text_snd'[j].line = history[k]
        OBVIOUS
      <4>1. PICK o \in 1 .. Len(text_snd) : text_snd'[j] = text_snd[o]
        BY <3>2
      <4>2. PICK k \in q + 1 .. Sent(f) : text_snd[o].line = history[k]
        BY <3>1, <4>1 DEF Window
      <4> QED
        BY <4>1, <4>2
    <3>5. \A k \in q + 1 .. Sent(f) :
              \E j \in 1 .. Len(text_snd') : text_snd'[j].type = f /\ text_snd'[j].line = history[k]
      <4> SUFFICES ASSUME NEW k \in q + 1 .. Sent(f)
                   PROVE  \E j \in 1 .. Len(text_snd') :
                              text_snd'[j].type = f /\ text_snd'[j].line = history[k]
        OBVIOUS
      <4>1. PICK o \in 1 .. Len(text_snd) : text_snd[o].type = f /\ text_snd[o].line = history[k]
        BY <3>1 DEF Window
      <4>2. PICK j \in 1 .. Len(text_snd') : text_snd'[j] = text_snd[o]
        BY <3>3, <4>1
      <4> QED
        BY <4>1, <4>2
    <3>6. q <= Sent(f)
      BY <3>1 DEF Window
    <3>7. Window(f, q)'
      BY <1>1, <1>13, <3>4, <3>5, <3>6 DEF Window
    <3>8. Printed(f, q)'
      <4>1. \A d \in Clients : InChat(d)' /\ Id(d)' = f => d # c
        BY <1>6, <1>14, <2>2
      <4> QED
        BY <1>10, <1>14, <3>1, <4>1 DEF Printed
    <3> QED
      BY <3>7, <3>8
  <2> QED
    BY <2>1, <2>2
<1>16. \A j \in 1 .. Len(text_snd') : text_snd'[j].type \in 1 .. Len(sub')
  BY <1>1, <1>2, <1>5 DEF Delivered
<1>17. \A d \in Clients : ~InChat(d)' => screen'[d] = <<>>
  BY <1>1, <1>2, <1>10, <1>14 DEF Delivered
<1>18. ASSUME NEW d \in Clients, NEW k \in 1 .. Len(screen'[d]) PROVE screen'[d][k] = history'[k]
  <2>1. CASE d = c
    <3>1. k \in 1 .. s \/ k = s + 1
      BY <1>10, <2>1
    <3> QED
      BY <1>1, <1>2, <1>8, <1>10, <2>1, <3>1 DEF Delivered
  <2>2. CASE d # c
    BY <1>1, <1>2, <1>10, <2>2 DEF Delivered
  <2> QED
    BY <2>1, <2>2
<1>19. Delivered'
  BY <1>15, <1>16, <1>17, <1>18 DEF Delivered
<1> QED
  BY <1>11, <1>12, <1>19

LEMMA InitCalm == Init => Calm
<1> SUFFICES ASSUME Init PROVE Turns /\ Serving /\ Delivered
  BY DEF Calm
<1>1. /\ sub = <<>> /\ text_snd = <<>> /\ text_rcv = <<>> /\ history = <<>> /\ tpc = "wait"
      /\ orderly = "yes" /\ screen = [c \in Clients |-> <<>>]
  BY DEF Init
<1>2. pc["server"] = "ask" /\ message_mgmt["server"].kind = "none"
  BY ServerApart DEF Init, Nothing
<1> QED
  BY <1>1, <1>2, EmptySeq DEF Turns, Serving, Delivered

LEMMA CalmStep ==
    Typed /\ Typed' /\ Orderly /\ Orderly' /\ Calm /\ [Next]_vars => Calm'
<1> SUFFICES ASSUME Typed, Typed', Orderly, Orderly', Calm, [Next]_vars PROVE Calm'
  OBVIOUS
<1>1. CASE MgmtStep
  <2>1. CASE SeeExit
    <3>1. calm' = calm /\ message_mgmt["server"].kind = "exit"
      BY <2>1 DEF SeeExit, Got, notes
    <3> QED
      BY <3>1 DEF Calm, Serving
  <2> QED
    BY <1>1, <2>1, AskCalm, SeeNameCalm, SetIdCalm, SetNewCalm, AnswerCalm DEF MgmtStep
<1>2. CASE ChatStep
  BY <1>2, TakeLineCalm, WalkCalm, SendsCalm DEF ChatStep
<1>3. CASE \E c \in Clients : ClientStep(c)
  <2>1. PICK c \in Clients : ClientStep(c)
    BY <1>3
  <2>2. CASE Leave(c) \/ TypeNothing(c)
    BY <2>2 DEF Leave, TypeNothing, Calm
  <2> QED
    BY <2>1, <2>2, SendNameCalm, AskIdCalm, TypeLineCalm, PrintLineCalm DEF ClientStep
<1>4. CASE UNCHANGED vars
  <2>1. UNCHANGED <<pc, message_mgmt, slot, sub, tpc, number_sub, number_hist, type, history,
                    text_rcv, text_snd, toType, screen, orderly, calm>>
    BY <1>4 DEF vars, mgmt, entries, chat, walk, users, notes
  <2>2. UNCHANGED mgmt
    BY <1>4 DEF vars
  <2> SUFFICES ASSUME calm = "yes" PROVE Turns' /\ Serving' /\ Delivered'
    BY <2>1 DEF Calm
  <2>3. Turns /\ Serving /\ Delivered
    BY CalmParts
  <2>4. Turns' /\ Serving'
    BY <2>1, <2>3 DEF Turns, Serving, HalfFilled
  <2>5. \A i : Sent(i)' = Sent(i)
    BY <2>1 DEF Sent
  <2>6. Len(history) \in Nat
    BY CalmNumbers
  <2>7. Delivered'
    BY <2>1, <2>2, <2>3, <2>5, <2>6, WalkDelivers
  <2> QED
    BY <2>4, <2>7
<1> QED
  BY <1>1, <1>2, <1>3, <1>4 DEF Next

\* What is printed has been sent, and what has been sent is in the history.
LEMMA CalmIsInOrder == Typed /\ Orderly /\ Calm => InOrder
<1> SUFFICES ASSUME Typed, Orderly, Calm, calm = "yes", NEW c \in Clients
             PROVE  /\ Len(screen[c]) <= Len(history)
                    /\ \A k \in 1 .. Len(screen[c]) : screen[c][k] = history[k]
  BY DEF InOrder
<1>1. Delivered /\ orderly = "yes" /\ Len(history) \in Nat
  BY CalmParts, CalmNumbers
<1>2. CASE InChat(c)
  <2>1. PICK i \in 1 .. Len(sub) : i = Id(c)
    BY <1>1, <1>2, ChatIds
  <2>2. PICK s \in Nat : Window(i, s) /\ Printed(i, s)
    BY <1>1 DEF Delivered
  <2>3. Len(screen[c]) = s /\ s <= Sent(i)
    BY <1>2, <2>1, <2>2 DEF Printed, Window
  <2> QED
    BY <1>1, <2>3, SentBound DEF Delivered
<1>3. CASE ~ InChat(c)
  BY <1>1, <1>3, EmptySeq DEF Delivered
<1> QED
  BY <1>2, <1>3

\* Until somebody leaves, a message goes astray or an entry is read half filled, every
\* client sees the beginning of the history, in order, once.
THEOREM LinesInOrder == Spec => []InOrder
<1>1. Typed /\ Typed' /\ Orderly /\ Orderly' /\ Calm /\ [Next]_vars => Calm'
  BY CalmStep
<1>2. Typed /\ Orderly /\ Calm => InOrder
  BY CalmIsInOrder
<1> QED
  BY <1>1, <1>2, InitCalm, AlwaysTyped, AlwaysOrderly, PTL DEF Spec
=============================================================================
