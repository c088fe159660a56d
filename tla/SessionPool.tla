---------------------------- MODULE SessionPool ----------------------------
(***************************************************************************)
(* What the raw server of final_task/first promises its clients, without   *)
(* frames, threads or tables: a fixed number of places, each of which has  *)
(* at most one client at a time, and which a client leases and gives back. *)
(***************************************************************************)
CONSTANTS Clients, Slots, NoSlot

VARIABLE lease    \* the place of each client

Init == lease = [c \in Clients |-> NoSlot]

Lease(c, i) ==
    /\ lease[c] = NoSlot /\ \A d \in Clients : lease[d] # i
    /\ lease' = [lease EXCEPT ![c] = i]

Release(c) ==
    /\ lease[c] # NoSlot
    /\ lease' = [lease EXCEPT ![c] = NoSlot]

Next == \E c \in Clients : Release(c) \/ \E i \in Slots : Lease(c, i)

Spec == Init /\ [][Next]_lease
=============================================================================
