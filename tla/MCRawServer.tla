---------------------------- MODULE MCRawServer ----------------------------
(* Small instances of RawServer. *)
EXTENDS RawServer

CONSTANTS c1, c2, c3

TwoClients == {c1, c2}
ThreeClients == {c1, c2, c3}

Lines == {"a", "b", "exit"}
LinesWithConnect == {"Connect", "exit"}
=============================================================================
