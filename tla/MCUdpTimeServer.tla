-------------------------- MODULE MCUdpTimeServer --------------------------
(* Small instances of UdpTimeServer. *)
EXTENDS UdpTimeServer, TLC

CONSTANTS c1, c2, c3

TwoClients == {c1, c2}
ThreeClients == {c1, c2, c3}
=============================================================================
