--------------------------- MODULE MCUserPrograms --------------------------
(* A small instance of UserPrograms. *)
EXTENDS UserPrograms

CONSTANTS a, b, p1, p2, p3, p4

TwoNames == {a, b}
FourCells == {p1, p2, p3, p4}
=============================================================================
