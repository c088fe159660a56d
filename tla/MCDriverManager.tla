-------------------------- MODULE MCDriverManager --------------------------
(* Small instances of DriverManager. *)
EXTENDS DriverManager

CONSTANTS d1, d2

OneDriver == {d1}
TwoDrivers == {d1, d2}
SomeTimes == {0, 2}
=============================================================================
