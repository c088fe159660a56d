---------------------------- MODULE AtomicMarket ---------------------------
(***************************************************************************)
(* What the market simulation of homework_11 promises, without threads and *)
(* mutexes: a purchase moves as much as the buyer needs and the market has *)
(* from the one to the other at once, and so does a delivery.              *)
(***************************************************************************)
EXTENDS Integers

CONSTANTS Buyers, Markets, Stocks, Needs, Delivery

VARIABLES
    stock,  \* what each market has
    need    \* what each buyer still needs

vars == <<stock, need>>

Init == stock \in [Markets -> Stocks] /\ need \in [Buyers -> Needs]

Lesser(x, y) == IF x > y THEN y ELSE x

Buy(b, m) ==
    /\ stock' = [stock EXCEPT ![m] = @ - Lesser(need[b], stock[m])]
    /\ need' = [need EXCEPT ![b] = @ - Lesser(need[b], stock[m])]

Deliver(m) ==
    /\ stock' = [stock EXCEPT ![m] = @ + Delivery]
    /\ UNCHANGED need

Next == \E m \in Markets : Deliver(m) \/ \E b \in Buyers : Buy(b, m)

Spec == Init /\ [][Next]_vars
=============================================================================
