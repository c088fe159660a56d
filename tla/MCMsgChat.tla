----------------------------- MODULE MCMsgChat -----------------------------
(* A small chat over message queues for TLC: all clients come and nobody    *)
(* types, or only Typists come and type.                                    *)
EXTENDS MsgChat

CONSTANTS ann, bob, eve

AllClients == {ann, bob, eve}
Typists == {ann, bob}
Coming == {c \in Clients : pc[c] = "off"}

MCInit ==
    /\ Init
    /\ \/ Coming = Clients /\ toType = 0
       \/ Coming = Typists /\ toType = MaxLines

MCSpec == MCInit /\ [][Next]_vars /\ WF_vars(Progress)
=============================================================================
