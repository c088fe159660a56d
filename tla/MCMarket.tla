------------------------------ MODULE MCMarket -----------------------------
(* A small instance of Market. *)
EXTENDS Market

CONSTANTS b1, b2, m1, m2

TwoBuyers == {b1, b2}
TwoMarkets == {m1, m2}
SomeStocks == {300}
SomeNeeds == {300, 500}
=============================================================================
