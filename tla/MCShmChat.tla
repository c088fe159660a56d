----------------------------- MODULE MCShmChat -----------------------------
(* Small instances of ShmChat. *)
EXTENDS ShmChat

CONSTANTS c1, c2

TwoClients == {c1, c2}
=============================================================================
