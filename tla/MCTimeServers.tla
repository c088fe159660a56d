--------------------------- MODULE MCTimeServers ---------------------------
(* A small instance of TimeServers. *)
EXTENDS TimeServers

CONSTANTS c1, c2, c3, u1, u2

ThreeClients == {c1, c2, c3}
TwoUdpClients == {u1, u2}
TwoOrMany == {2, 4}
=============================================================================
